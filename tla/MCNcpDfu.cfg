SPECIFICATION MCSpec
CONSTANTS
  ON = ON
  OFF = OFF
  Impatient = FALSE
  MaxStarts = 2
  MaxCrashes = 1
  MaxTouches = 1
INVARIANTS TypeOK AnsweredOnce ControllerHeld ControllerGivenBack SuccessIsConfirmed
PROPERTIES EveryStartAnswered RejectedImageLeaves
