SPECIFICATION Spec
CONSTANTS
  Ids = {1, 2}
  Collections <- MCCollections
  Capacity = 1
  MaxZoom = 2
  Moments = {10, 12}
  Scenes <- MCScenes
  Others = 1
  AppActs = 0
INVARIANT
  LastBinIsLastMoment
CHECK_DEADLOCK FALSE
