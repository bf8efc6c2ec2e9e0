SPECIFICATION StaySpec
CONSTANTS
  Device = {1, 2}
  Toss = {0, 1}
  MaxSequence = 2
  MaxNotes = 2
  MaxBegins = 1
INVARIANTS SingleWriter TurnNotLost NoMoveVanishes NoteReaches NoteOnce
PROPERTIES ImplementsMatch
CHECK_DEADLOCK FALSE
