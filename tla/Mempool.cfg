SPECIFICATION Spec
CONSTANTS
  s1 = s1
  s2 = s2
  x1 = x1
  x2 = x2
  y = y
  t1 = t1
  t2 = t2
  Senders <- TwoSenders
  Txs <- ThreeTxs
  SenderOf <- OwnerMap
  Threshold = 2
  Threads <- TwoThreads
  MayFail = TRUE
  MaxSubmit = 3
INVARIANTS
  BelowThreshold
  ExactlyOnePlace
  SubmissionOrder
