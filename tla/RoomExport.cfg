SPECIFICATION FairSpec
CONSTANTS
  Jobs = {j1}
  Keys <- MCKeys
  Dispatchers = {d1}
  Workers = {w1, w2}
  Cleaners = {c1, c2}
  BatchSize = 1
  MaxAttempts = 2
  MaxClaims = 4
  MaxFaults = 2
  LostReplies = TRUE
  Catalogs <- MCCatalogs
  PageSize = 1
  MaxRows = 2
  None = None
INVARIANTS RowsAgree ResultAvailable WorkbookWhole NoOrphan
PROPERTIES ExportSettles
CHECK_DEADLOCK FALSE
