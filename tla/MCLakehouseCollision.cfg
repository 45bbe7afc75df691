SPECIFICATION Spec
CONSTANTS
  NumDatasets = 1
  Files = {"a", "b"}
  DatasetOf <- MCDatasetOf
  Listings <- PairListings
  Kind <- MCKind
  Lines <- MCLines
  SheetLines <- MCSheetLines
  NonAscii <- MCNonAscii
  Unreadable <- MCUnreadable
  Slots = {"a", "b"}
  SlotOf <- CollidingStem
  Tables = {"a", "b"}
  TableOf <- CollidingStem
  MaxFiles = 2
  ChunkRows = 2
  SampleRows = 1
  MaxFaults = 0
  None = None
  Torn = Torn
INVARIANT PublishedTablesExact
