SPECIFICATION Spec
CONSTANTS
  TicksPerSecond = 1
  Devices = {d1}
  Addresses = {a1,a2}
  Probes = {icmp}
  Simulator = sim
  Off = off
  Mock = mock
  Routes = {r1}
  Deliveries = {r1}
  Limits = {1,2}
  Concurrency = 2
  RetryDelay = 1
  RetryCap = 2
  FreshFor = 1
  MaxTime = 4
  Horizon = 2
  MaxVersion = 2
  MaxAlarms = 2
  MaxWindows = 0
  MaxSilences = 0
  MaxIntervals = 1
  MaxFaults = 1
  MaxRestores = 0
INVARIANTS
  OneAtATime
  AttemptsAccountForSends
PROPERTIES
  FeedSpec
CHECK_DEADLOCK FALSE
