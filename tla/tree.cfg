SPECIFICATION PTSpec
CONSTANTS
  Pids = {2, 3, 4}
  States = {"S"}
  None = None
  PidsWrap = TRUE
  ZeroForks = FALSE
  Live = FALSE
INVARIANTS
  TypeOK
  LinksConsistent
  PrivLive
  TreeIsKernel
  Acyclic
  MarkTerminates
PROPERTIES
  NoSilentMove
