SPECIFICATION Spec
CONSTANTS
  Pids = {2, 3, 4}
  States = {"S"}
  None = None
  PidsWrap = FALSE
  ZeroForks = FALSE
  Live = TRUE
  Wrap = 16
  TopY = 3
  Roots = {2}
  TreeDepth = 2
  Keys = {"Up", "Down", "r", "o", "signal", "search"}
  YSize = 5
INVARIANTS
  PLTypeOK
  LinesOwnNodes
  LinesNumbered
  LinesInOrder
  NoCrash
  TreeOrder
  ShowsProcesses
  CursorFollowsProcess
