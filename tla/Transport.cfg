SPECIFICATION TransportFairSpec
CONSTANTS
  a = a
  b = b
  Ends <- BothEnds
  Server = a
  Says <- EachAsks
  Size <- Sizes
  MaxRoom = 8
PROPERTIES
  Settles
  ClientServed
CHECK_DEADLOCK FALSE
