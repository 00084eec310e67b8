SPECIFICATION ReportSpec
CONSTANTS
  Devices = {d1}
  Addresses = {a1, a2}
  NoCheck = NoCheck
  Threshold = 3
  BatchSize = 1
  MaxBatches = 2
  MaxTime = 2
  MaxLog = 4
  MaxVersion = 2
  TicksPerSecond = 2
  GraphLimit = 1
  CsvLimit = 1
  ReportAt = 3
SYMMETRY Symmetry
INVARIANTS
  TypeOK
  IdsAreNeverReused
  CurrentIsFound
  StreakIsKept
  EvidenceIsKept
  ReportIsExact
CHECK_DEADLOCK FALSE
