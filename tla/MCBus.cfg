SPECIFICATION FairSpec
CONSTANTS
  b0 = b0
  b1 = b1
  Byte = {b0, b1}
  Cell = {c}
  Quiet = 4
  Worlds <- AllOrSerial
INVARIANTS BusyOnlyInAccess ReadsAreRight SendsOnce FlagIsHonest
PROPERTIES Progress
