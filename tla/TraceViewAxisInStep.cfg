SPECIFICATION Spec
CONSTANTS
  Settings <- MCSettings
  Scenes <- MCScenes
  Windows = {13, 21}
  BrushPx = {0, 3, 8}
  ScrollPx = 4
  MaxNodes = 2
INVARIANT AxisInStep
CHECK_DEADLOCK FALSE
