SPECIFICATION LiveSpec
CONSTANTS
  Ssid = {home, cafe}
  None = None
INVARIANTS HandedBackOnce OneServer
PROPERTIES ServedIsKept ServesAgain
CHECK_DEADLOCK FALSE
