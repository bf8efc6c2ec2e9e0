SPECIFICATION LiveSpec
CONSTANTS
  SeatByTurn = TRUE
  MaxMoves = 3
  MaxNotes = 2
INVARIANTS RematchByConsent LastMoveOnBoard TurnMatchesSeat
PROPERTIES AgreementStarts CountedBeforeGone
CHECK_DEADLOCK FALSE
