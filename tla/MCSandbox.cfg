CONSTANTS
  Limit = 3
  MaxOutput = 6
SPECIFICATION FairSpec
INVARIANTS TypeOK Tethered ResultIsWhole
PROPERTIES EvaluationEnds
CHECK_DEADLOCK FALSE
