SPECIFICATION Spec
CONSTANTS
  root = root
  left = left
  right = right
  p = p
  q = q
  r = r
  A = A
  B = B
  Payload <- TwoContents
  Root = root
  MaxLen = 4
  Nodes <- TwoNodes
  Own <- EachMines
  Dials <- QToP
  Approvals <- Approved
  Org <- Apart
  Signer <- ByBoth
  Paced = FALSE
  Prompt = FALSE
  Losses = TRUE
  Stoppers <- TwoNodes
  MaxStops = 1
INVARIANTS
  ChainsWhole
PROPERTIES
  SyncCatchesUp
CHECK_DEADLOCK FALSE
