SPECIFICATION Spec
CONSTANTS
  NumDatasets = 2
  Files = {"x", "x2", "e", "h", "d", "p", "k", "w"}
  DatasetOf <- MCDatasetOf
  Listings <- VersionListings
  Kind <- MCKind
  Lines <- MCLines
  SheetLines <- MCSheetLines
  NonAscii <- MCNonAscii
  Unreadable <- MCUnreadable
  Slots = {"d", "e", "h", "k", "p", "w", "x"}
  SlotOf <- Stem
  Tables = {"d", "e", "h", "k", "p", "w", "x"}
  TableOf <- Stem
  MaxFiles = 2
  ChunkRows = 2
  SampleRows = 1
  MaxFaults = 3
  None = None
  Torn = Torn
INVARIANTS
  TypeOK RawNeverPartial ChunksExact PublishedLayersAgree
  PublishedRowsStand ReportCoversListing RewrittenTablesExact
PROPERTY DroppedOnlyToReplace
