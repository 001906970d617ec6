SPECIFICATION Spec
CONSTANTS
  Walks <- MCWalks
  Again <- MCAgain
  Weight <- MCWeight
  Self <- MCSelf
  MaxAsks = 2
  MaxInputs = 1
INVARIANTS
  WalkIsWholeView
  HeaviestKept
  FramesNest
  AtRestDrawn
CHECK_DEADLOCK FALSE
