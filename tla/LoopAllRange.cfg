\* for all i in (low .. high).
SPECIFICATION Spec
CONSTANTS
  WordSize = 8
  Calls <- AllRanges
INVARIANTS
  AllMeansEvery
CHECK_DEADLOCK FALSE
