SPECIFICATION Spec
CONSTANTS
  NumDatasets = 1
  Files = {"a"}
  DatasetOf <- MCDatasetOf
  Listings <- CopyListings
  Kind <- MCKind
  Lines <- MCLines
  SheetLines <- MCSheetLines
  NonAscii <- MCNonAscii
  Unreadable <- MCUnreadable
  Slots = {"a"}
  SlotOf <- Stem
  Tables = {"a"}
  TableOf <- Stem
  MaxFiles = 2
  ChunkRows = 2
  SampleRows = 1
  MaxFaults = 2
  None = None
  Torn = Torn
INVARIANT PublishedTablesExact
