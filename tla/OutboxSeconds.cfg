SPECIFICATION Spec
CONSTANTS
  TicksPerSecond = 2
  Devices = {d1}
  Addresses = {a1}
  Probes = {icmp}
  Simulator = sim
  Off = off
  Mock = mock
  Routes = {r1}
  Deliveries = {r1}
  Limits = {1}
  Concurrency = 1
  RetryDelay = 1
  RetryCap = 2
  FreshFor = 1
  MaxTime = 6
  Horizon = 6
  MaxVersion = 1
  MaxAlarms = 1
  MaxWindows = 1
  MaxSilences = 0
  MaxIntervals = 1
  MaxFaults = 0
  MaxRestores = 0
INVARIANTS
  WindowsAreHalfOpen
CHECK_DEADLOCK FALSE
