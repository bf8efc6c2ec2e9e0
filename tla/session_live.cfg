SPECIFICATION LiveSpec
CONSTANTS
  Device = {1, 2}
  Toss = {0}
  MaxSequence = 1
  MaxNotes = 0
  MaxBegins = 1
PROPERTIES MatchForms OneSidedHeals MoveGetsThrough
CHECK_DEADLOCK FALSE
