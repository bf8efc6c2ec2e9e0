SPECIFICATION Spec
CONSTANTS
  Card = {c}
  MaxReviews = 2
  MaxFaults = 2
INVARIANTS SafeRetry
CHECK_DEADLOCK FALSE
