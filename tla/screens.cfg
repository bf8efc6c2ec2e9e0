SPECIFICATION LiveSpec
CONSTANTS
  MaxActivities = 4
  MaxCalls = 4
  LocksChanges = TRUE
INVARIANTS PaintsTheTop OwnedOnce
PROPERTIES ResultReachesLauncher NotDestroyedWhileEntering WaitShows WaitEnds UpdateIsPainted
