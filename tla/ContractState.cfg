SPECIFICATION Spec
CONSTANTS
  k1 = k1
  k2 = k2
  v = v
  x = x
  y = y
  z = z
  bad = bad
  fails = fails
  admin = admin
  user = user
  nobody = nobody
  g1 = g1
  g2 = g2
  Threads <- OneThread
  Keys <- TwoKeys
  Txs <- AllTxs
  KeyOf <- Key
  Permissions <- TwoRoles
  Unknown = nobody
  Permission <- RoleOf
  Required <- ForAdmins
  Offered <- MCOffered
  Batches <- MCBatches
  Local <- OneLocal
  Gossiped <- OneGossiped
  MaxLen = 2
  MaxWrites = 2
  Stops = TRUE
  DiskErrors = TRUE
INVARIANTS
  NewBlockApplied
  CommitsItsBlock
  SyncApplied
PROPERTIES
  CommittedStays
