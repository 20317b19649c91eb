CONSTANTS
  NilVName = NilVName
  Clients = {c1}
  Requests <- TabRequests
  MaxCalls = 3
  BackendFails = FALSE
  InitDB <- EmptyDB
SPECIFICATION Spec
INVARIANT ReadInCanonicalOrder
