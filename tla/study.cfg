SPECIFICATION LiveSpec
CONSTANTS
  Card = {c}
  MaxReviews = 2
  MaxFaults = 1
INVARIANTS NothingLost OnceAndMeant DeckKeepsReviews
PROPERTIES ReachesAnki
CHECK_DEADLOCK FALSE
