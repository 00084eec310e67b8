SPECIFICATION FairSpec
CONSTANTS
  Devices = {d1, d2}
  Addresses = {a1, a2}
  Modes = {mock, icmp}
  NoAddress = NoAddress
  Threshold = 1
  MaxConcurrent = 1
  MaxResults = 3
  MaxVersion = 1
  MaxEpoch = 2
  MaxEra = 2
INVARIANTS
  ChecksAreExclusive
  NoOrphanScheduledChecks
PROPERTIES
  NothingHangs
CHECK_DEADLOCK FALSE
