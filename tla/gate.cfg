SPECIFICATION Spec
CONSTANTS
  Button = {back, confirm}
  Activity = {a, b}
INVARIANTS ReleaseBelongs LongPressHasNoRelease
PROPERTIES HonestReleaseIsRead
