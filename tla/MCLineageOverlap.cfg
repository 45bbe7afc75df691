SPECIFICATION Spec
CONSTANTS
  Runs = {r1, r2}
  Configs <- AllSinks
  Pieces = 1
  MaxOverlap = 2
  MaxFaults = 0
  None = None
SYMMETRY Symmetry
CHECK_DEADLOCK FALSE
INVARIANT AuditHoldsReported
