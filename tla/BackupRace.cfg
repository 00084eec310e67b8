SPECIFICATION Spec
CONSTANTS
  Jobs = {j1, j2, j3}
  Paths = {p1, p2, p3}
  Live = live
  None = None
  MaxVersion = 1
SYMMETRY Symmetry
INVARIANTS
  TypeOK
  ManifestTellsTruth
  OutcomeIsHonest
  QuarantineIsInherited
PROPERTIES
  ShelfSpec
  OthersAreUntouched
CHECK_DEADLOCK FALSE
