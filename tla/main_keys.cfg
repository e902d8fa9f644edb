SPECIFICATION Spec
CONSTANTS
  Heights = {24, 25}
  Unit = 2
  Timeout = 4
  Builds = {TRUE, FALSE}
  Fails = FALSE
  Spellings <- Letters
  BufSize = 5
  MaxEvents = 2
PROPERTIES
  KeysAnswered
CHECK_DEADLOCK FALSE
