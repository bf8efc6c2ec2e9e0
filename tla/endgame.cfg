SPECIFICATION LiveSpec
CONSTANTS
  Clock = 20
  kHoldMs = 2
  kUnpaintedHoldMs = 5
  MaxGap = 2
PROPERTIES FinalBoardIsRead AsksInTheEnd
