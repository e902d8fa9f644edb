SPECIFICATION Spec
CONSTANTS
  Pids = {2, 3}
  States = {"R", "S"}
  None = None
  PidsWrap = FALSE
  ZeroForks = TRUE
  Live = TRUE
  Wrap = 16
  TopY = 3
  Roots = {}
  TreeDepth = 2
  Keys = {}
  YSize = 5
INVARIANTS
  CountsMatch
  ListsPartition
PROPERTIES
  PTSafe
  UpdateShown
