SPECIFICATION Spec
CONSTANTS
  n1 = n1
  n2 = n2
  f1 = f1
  s1 = s1
  s2 = s2
  t1 = t1
  t2 = t2
  Nonces <- TwoNonces
  Foreign <- OneForeign
  Senders <- TwoSenders
  Threads <- TwoThreads
  Lifetime = 1
  Threshold = 3
  MaxTime = 2
SYMMETRY Alike
INVARIANTS
  RunsOnce
  SuccessAnnounced
