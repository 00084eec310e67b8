SPECIFICATION Spec
CONSTANTS
  TicksPerSecond = 1
  Devices = {d1}
  Addresses = {a1}
  Probes = {icmp}
  Simulator = sim
  Off = off
  Mock = mock
  Routes = {r1}
  Deliveries = {r1}
  Limits = {2}
  Concurrency = 1
  RetryDelay = 1
  RetryCap = 2
  FreshFor = 1
  MaxTime = 4
  Horizon = 3
  MaxVersion = 1
  MaxAlarms = 1
  MaxWindows = 0
  MaxSilences = 1
  MaxIntervals = 1
  MaxFaults = 0
  MaxRestores = 0
PROPERTIES
  SendsRespectSilences
CHECK_DEADLOCK FALSE
