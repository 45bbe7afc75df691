SPECIFICATION Spec
CONSTANTS
  Runs = {r1, r2, r3}
  Configs <- MixedSinks
  Pieces = 2
  MaxOverlap = 2
  MaxFaults = 2
  None = None
SYMMETRY Symmetry
CHECK_DEADLOCK FALSE
INVARIANTS LTypeOK LedgerComesLast TornLinesBounded AuditRowsExact AuditRowsCounted
