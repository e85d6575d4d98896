SPECIFICATION Spec
CONSTANT
  NFiles = 3
INVARIANTS
  OnlyChosenShows
  TimersFindWorkers
PROPERTY
  EndSaves
CHECK_DEADLOCK FALSE
