SPECIFICATION MCSpec
CONSTANTS
  Device = {1, 2, 3}
  Toss = {0}
  MaxSequence = 0
  MaxNotes = 0
  MaxBegins = 1
INVARIANTS ConfirmedIsMutual
CHECK_DEADLOCK FALSE
