CONSTANTS
  NilVName = NilVName
  Clients = {w, p}
  Populator = p
  Requests <- WriterRequests
  MaxCalls = 2
  BackendFails = TRUE
  InitDB <- StoredFile
  NodeKindFact <- KindFact
  FileKind = "file"
  Backend = "table"
  WebRequests <- ServiceRequests
SPECIFICATION ServiceFairSpec
INVARIANT ServiceTypeOK
INVARIANT PopulateIndexesItsView
INVARIANT TreeBrowsableAfterPopulate
INVARIANT TableServesTree
INVARIANT RemoteSuccessIsServed
PROPERTY PopulateReturns
