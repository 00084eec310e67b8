SPECIFICATION Spec
CONSTANTS
  Devices = {d1}
  Addresses = {a1, a2}
  Modes = {mock, icmp}
  NoAddress = NoAddress
  Threshold = 2
  MaxConcurrent = 1
  MaxResults = 4
  MaxVersion = 3
  MaxEpoch = 2
  MaxEra = 2
SYMMETRY Symmetry
INVARIANTS
  TypeOK
  CurrentMeansUndisturbed
  StreakMatchesHistory
  NoMissedAlarm
  AlarmJustified
  AlarmFollowsHistory
PROPERTIES
  FeedSpec
CHECK_DEADLOCK FALSE
