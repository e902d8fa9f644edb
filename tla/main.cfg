SPECIFICATION Spec
CONSTANTS
  Heights = {24, 25}
  Unit = 2
  Timeout = 4
  Builds = {TRUE, FALSE}
  Fails = TRUE
  Spellings <- AllSpellings
  BufSize = 5
  MaxEvents = 2
INVARIANTS
  TickNotLate
  MoreInSequence
  KeysInOrder
PROPERTIES
  TickNotEarly
  SizeTaken
  InputAnswered
CHECK_DEADLOCK FALSE
