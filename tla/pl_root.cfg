SPECIFICATION Spec
CONSTANTS
  Pids = {2}
  States = {"S"}
  None = None
  PidsWrap = FALSE
  ZeroForks = TRUE
  Live = FALSE
  Wrap = 16
  TopY = 3
  Roots = {0}
  TreeDepth = 2
  Keys = {}
  YSize = 5
INVARIANTS
  NoCrash
