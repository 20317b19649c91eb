CONSTANTS
  NilVName = NilVName
  Clients = {c1, c2}
  Requests <- MainRequests
  MaxCalls = 2
  BackendFails = FALSE
  InitDB <- EmptyDB
SPECIFICATION Spec
INVARIANT IteratorsReleased
