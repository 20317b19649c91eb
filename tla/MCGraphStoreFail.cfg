CONSTANTS
  NilVName = NilVName
  Clients = {c1, c2}
  Requests <- FailRequests
  MaxCalls = 2
  BackendFails = TRUE
  InitDB <- ForeignDB
SPECIFICATION Spec
INVARIANT CachedSnapshotsOpen
PROPERTY ImplementsEntryStore
