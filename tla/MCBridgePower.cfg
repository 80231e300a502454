SPECIFICATION PowerSpec
CONSTANTS
  MIN_S = 1
  MAX_SAMPLE_S = 12
  MAX_SUBSAMPLE_S = 6
  MAX_ALIGNMENT_S = 12
  DEFAULT <- MCDefault
  RawConfigs <- PowerConfigs
  Callers = {ncp, cli}
  ON = ON
  OFF = OFF
  INIT_S = 2
  IDLE_S = 1
  RtcOffsets = {2, 5}
  MaxTicks = 20
  MaxCalls = 2
  MaxToggles = 1
  MaxJumps = 1
INVARIANTS TypeOK SignalHonest DisabledMeansPowered NoTimebaseMeansOff WindowIsPowered
INVARIANTS OnSchedule
PROPERTIES ImplementsBusPower ImplementsPowerControl DisableTakesEffect
PROPERTIES NoIntervalSkipped WindowAggregated
