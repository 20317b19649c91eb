CONSTANTS
  NilVName = NilVName
  Clients = {w, p}
  Populator = p
  Requests <- WriterRequests
  MaxCalls = 2
  BackendFails = FALSE
  InitDB <- StoredFile
  NodeKindFact <- KindFact
  FileKind = "file"
  Backend = "map"
  WebRequests <- ServiceRequests
SPECIFICATION ServiceSpec
INVARIANT RemoteCallPreservesReply
