SPECIFICATION Spec
CONSTANTS
  Wrap = 64
  TopY = 3
  MaxLines = 8
  YSizes = {5, 6}
  Keys <- MovingKeys
  Jumps = TRUE
  Resizes = TRUE
  MaxGone = 3
INVARIANTS
  CursorFollows
PROPERTIES
  CursorSteady
  CursorKept
