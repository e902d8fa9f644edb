SPECIFICATION Spec
CONSTANTS
  Last = 2
  MaxText = 1
PROPERTIES
  DisplayKept
  SearchesAll
CHECK_DEADLOCK FALSE
