SPECIFICATION FairSpec
CONSTANTS
  s1 = s1
  s2 = s2
  Series <- MCSeries
  MaxAsks = 3
  Window = 1
INVARIANTS
  TypeOK
  SpinnersAreOwed
  NewestAskSurvives
  AskInOnePlace
PROPERTIES
  DisposedNeverRequested
  NeverStranded
  LoadingEnds
  KeepsPromise
CHECK_DEADLOCK FALSE
