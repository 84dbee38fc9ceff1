SPECIFICATION Spec
CONSTANTS
  root = root
  left = left
  right = right
  t1 = t1
  t2 = t2
  Payload <- MCPayload
  Root = root
  MaxLen = 4
  Own <- BothContents
  Threads <- OneThread
  Incoming <- MCIncoming
  Batches <- MCBatches
  Crashes = TRUE
  DiskErrors = TRUE
INVARIANTS
  AncestryIntact
  TipStored
PROPERTIES
  ImplementsBlockTree
  TipNeverRegresses
  TipIsHighest
