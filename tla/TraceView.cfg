SPECIFICATION Spec
CONSTANTS
  Settings <- MCSettings
  Scenes <- MCScenes
  Windows = {13, 0}
  BrushPx = {0, 3, 8}
  ScrollPx = 4
  MaxNodes = 3
INVARIANTS
  UnionHasEverything
  LayoutIsSound
  TraceAtRestDrawn
CHECK_DEADLOCK FALSE
