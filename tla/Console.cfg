SPECIFICATION FairSpec
CONSTANTS
  c1 = c1
  t = t
  own = own
  other = other
  demo = demo
  torn = torn
  f = f
  g = g
  Clicks <- OneClick
  Terminals <- OneTerminal
  Pairs <- FourPairs
  Refused <- OnlyDemo
  Malformed <- OnlyTorn
  TestPair = own
  Functions <- TwoFunctions
  Escaped <- OnlyG
  TestCall = f
  MaxStops = 1
INVARIANTS
  SuccessRan
  KeysKept
PROPERTIES
  AttemptsEnd
CHECK_DEADLOCK FALSE
