SPECIFICATION WFairSpec
CONSTANTS
  NumDatasets = 2
  Files = {"a", "w", "x"}
  DatasetOf <- MCDatasetOf
  Listings <- MCListings
  Kind <- MCKind
  Lines <- MCLines
  SheetLines <- MCSheetLines
  NonAscii <- MCNonAscii
  Unreadable <- MCUnreadable
  Slots = {"a", "w", "x"}
  SlotOf <- Same
  Tables = {"a", "w", "x"}
  TableOf <- Same
  MaxFiles = 2
  ChunkRows = 1
  SampleRows = 1
  MaxFaults = 2
  None = None
  Torn = Torn
INVARIANTS WTypeOK NoFalseAlarm ValidationExact
PROPERTIES VerifyEnds ValidationEnds LoadEnds RerunsConverge
