SPECIFICATION Spec
CONSTANTS
  M = 16
  Travel = 3
  Reach = 2
  Sweeps = 2
  CleanPeriod = 11
  ReadPeriod = 4
  MaxConversion = 1
  MaxDelay = 2
INVARIANTS MovingIsTagged IdleIsReleased
PROPERTIES StrokesFinished WipesAgain
