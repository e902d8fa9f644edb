SPECIFICATION Spec
CONSTANTS
  Procs <- SomeProcs
  Systems <- SomeSystems
  Accounts = {"none", "unknown", "known"}
  Heights = {6, 9, 11}
  Widths = {6, 10, 12}
  StartWidths = {6, 10}
  PadRows = 24
  PadCols = 10
  MaxLines = 14
  TopY = 2
  Wrap = 256
INVARIANTS
  WindowInside
PROPERTIES
  WindowSteady
  FromTop
