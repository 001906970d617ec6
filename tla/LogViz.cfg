SPECIFICATION Spec
CONSTANTS
  Ids = {1, 2}
  Collections <- MCCollections
  Capacity = 1
  MaxZoom = 2
  Moments = {10, 12}
  Scenes <- MCScenes
  Others = 3
  AppActs = 2
INVARIANTS
  CachedIsWhole
  NoReaderLeft
  AnswersMatch
  AppInStep
PROPERTIES
  RequestsAnswered
  AppSettles
CHECK_DEADLOCK FALSE
