SPECIFICATION MCSpec
CONSTANTS
  MIN_S = 1
  MAX_SAMPLE_S = 12
  MAX_SUBSAMPLE_S = 6
  MAX_ALIGNMENT_S = 12
  DEFAULT <- MCDefault
  RawConfigs <- OverrunConfigs
  Callers = {ncp}
  ON = ON
  OFF = OFF
  INIT_S = 2
  IDLE_S = 1
  RtcOffsets = {3, 7}
  MaxTicks = 20
  MaxCalls = 0
  MaxToggles = 0
  MaxJumps = 0
INVARIANTS SubsamplingWithinDuration
