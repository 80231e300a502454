SPECIFICATION MCSpec
CONSTANTS
  ON = ON
  OFF = OFF
  Impatient = TRUE
  MaxStarts = 2
  MaxCrashes = 0
  MaxTouches = 0
INVARIANTS ControllerHeld
