SPECIFICATION Spec
CONSTANTS
  Pids = {2}
  States = {"S"}
  None = None
  PidsWrap = FALSE
  ZeroForks = FALSE
  Live = FALSE
  Wrap = 16
  TopY = 3
  Roots = {2}
  TreeDepth = 2
  Keys = {"signal"}
  YSize = 5
INVARIANTS
  SignalsSelected
