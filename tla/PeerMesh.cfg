SPECIFICATION FairSpec
CONSTANTS
  p = p
  q = q
  r = r
  Nodes <- TwoNodes
  Lists <- EachOther
  Approvals <- BackApproved
  Literal = FALSE
  Conns = {1, 2, 3}
  MaxOnce = 1
  MaxFaults = 1
INVARIANTS
  RegistryAgrees
PROPERTIES
  DeadLinksLeave
  MeshForms
CHECK_DEADLOCK FALSE
