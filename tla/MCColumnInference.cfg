SPECIFICATION Spec
CONSTANTS
  SampleRows = 3
  MaxRows = 4
INVARIANTS CTypeOK InferenceExact NullsExplained
CHECK_DEADLOCK FALSE
