SPECIFICATION Spec
CONSTANTS
  Slots = 3
  Places <- OwnPlaces
  Users = {"A", "B"}
  None = None
  Protocols = {"sshd"}
  FastReuse = FALSE
  MayEmpty = FALSE
  Keys = {"Up", "Down", "search"}
  YSize = 4
  Wrap = 16
  TopY = 3
INVARIANTS
  LinesNumbered
  CountsMatch
  ShowsSessions
  CursorFollowsUser
  CursorOnUser
PROPERTIES
  LogoutShown
  LoginShown
