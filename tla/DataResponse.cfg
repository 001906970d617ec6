SPECIFICATION FairSpec
CONSTANTS
  r1 = r1
  r2 = r2
  r3 = r3
  w1 = w1
  w2 = w2
  a = a
  b = b
  NoSource = NoSource
  Requests <- MCRequests
  Sources <- MCSources
  Strings <- MCStrings
  Updates <- MCUpdates
  MaxUpdates = 1
INVARIANTS
  TypeOK
  TableAgrees
  TwoHundredIsWhole
PROPERTIES
  Replies
  InternsAtomically
CHECK_DEADLOCK FALSE
