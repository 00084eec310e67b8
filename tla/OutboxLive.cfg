SPECIFICATION FairSpec
CONSTANTS
  TicksPerSecond = 1
  Devices = {d1}
  Addresses = {a1}
  Probes = {icmp,sim}
  Simulator = sim
  Off = off
  Mock = mock
  Routes = {r1}
  Deliveries = {r1}
  Limits = {1}
  Concurrency = 1
  RetryDelay = 1
  RetryCap = 2
  FreshFor = 1
  MaxTime = 2
  Horizon = 2
  MaxVersion = 2
  MaxAlarms = 1
  MaxWindows = 1
  MaxSilences = 0
  MaxIntervals = 1
  MaxFaults = 1
  MaxRestores = 0
INVARIANTS
  MockStaysMock
PROPERTIES
  RowsLeaveTheQueue
  ClosedAlarmsSettle
CHECK_DEADLOCK FALSE
