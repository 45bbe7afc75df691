SPECIFICATION Spec
CONSTANTS
  SampleRows = 3
  MaxRows = 3
INVARIANT NullsRecorded
CHECK_DEADLOCK FALSE
