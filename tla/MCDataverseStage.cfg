CONSTANTS
  Runs = {r1, r2}
  Listings <- MCListings
  Versions <- MCVersions
  MaxOverlap = 2
  MaxRepublish = 1
  MaxFaults = 1
  None = None
SYMMETRY RunSymmetry
SPECIFICATION Spec
CHECK_DEADLOCK FALSE
INVARIANTS
  ETypeOK
  LocalRowsWhole
  AnswerStands
  CountsExplained
  GraphCoversAnswers
