SPECIFICATION FairSpec
CONSTANTS
  e1 = e1
  e2 = e2
  me = me
  t1 = t1
  t2 = t2
  Endpoints <- Asking
  Self = me
  Configured <- NoneKnown
  Threads <- TwoThreads
  TTL = 1
  LastJoin = 1
  MaxJoins <- Joins
  MaxTime = 2
  DiskErrors = TRUE
INVARIANTS
  EveryRequestTimed
  OneApprovalPerJoin
  FileLoads
  AcceptedStored
PROPERTIES
  FileOnlyGrows
  RequestsEnd
