---------------------------- MODULE MCBridgePower ----------------------------
(* A small instance of BridgePower: seconds stand for minutes. *)
EXTENDS BridgePower

MCDefault ==
  [sampleIntervalS |-> 5, sampleDurationS |-> 2, subsampleIntervalS |-> 2,
   subsampleDurationS |-> 1, alignmentS |-> 2]

Raw(interval, duration, subInterval, subDuration, alignment, sub, on, byTicks) ==
  [sampleIntervalS |-> interval, sampleDurationS |-> duration,
   subsampleIntervalS |-> subInterval, subsampleDurationS |-> subDuration,
   alignmentS |-> alignment, subsampling |-> sub, enabled |-> on, ticksSampling |-> byTicks]

(* A plain schedule that alignment stretches, a subsampled one on uptime, a *)
(* continuous one, and one whose every value is out of range.               *)
ScheduleConfigs ==
  {Raw(5, 2, 2, 1, 2, FALSE, TRUE, FALSE),
   Raw(6, 4, 2, 1, 0, TRUE, TRUE, TRUE),
   Raw(3, 9, 9, 3, 0, TRUE, TRUE, FALSE),
   Raw(0, 0, 0, 0, 99, TRUE, TRUE, FALSE)}

(* A schedule by the RTC, and a controller that is disabled at boot. *)
CallConfigs ==
  {Raw(4, 2, 2, 1, 0, FALSE, TRUE, FALSE),
   Raw(3, 3, 2, 1, 2, TRUE, FALSE, FALSE)}

(* The second subsample of a window outlasts it. *)
OverrunConfigs == {Raw(6, 5, 4, 3, 0, TRUE, TRUE, FALSE)}

(* The explored uptime is over. *)
Horizon == Quiet /\ ticks = MaxTicks /\ UNCHANGED vars

MCSpec == Init /\ [][Next \/ Horizon]_vars /\ Fairness

-----------------------------------------------------------------------------
(* Both kinds of configuration in one run: left alone, every one is        *)
(* explored up to MaxTicks; other tasks call, and the RTC is set again,    *)
(* only with CallConfigs and up to CallTicks.  A behaviour has a change of *)
(* subsampling or of a set RTC, not both.                                  *)
PowerConfigs == ScheduleConfigs \union CallConfigs

(* Bound: seconds of uptime with calls. *)
CallTicks == 8

CallConfs == {ValidateConfig(c) : c \in CallConfigs}

MayDisturb == ticks <= CallTicks /\ conf \in CallConfs

Undisturbed == calls = 0 /\ toggles = 0 /\ jumps = 0
LastTick == IF Undisturbed THEN MaxTicks ELSE CallTicks

PowerTick == ticks < LastTick /\ Tick

PowerNext ==
  \/ Task
  \/ \E c \in Callers : MayDisturb /\ Call(c)
  \/ \E e \in BOOLEAN : MayDisturb /\ jumps = 0 /\ SubsampleEnable(e)
  \/ TakeAggregation
  \/ \E o \in RtcOffsets : (rtcSet => MayDisturb /\ toggles = 0) /\ SetRtc(o)
  \/ PowerTick
  \/ Quiet /\ ticks = LastTick /\ UNCHANGED vars

PowerSpec ==
  /\ Init /\ [][PowerNext]_vars
  /\ WF_vars(Task) /\ WF_vars(PowerTick) /\ WF_vars(TakeAggregation)
  /\ \A c \in Callers : WF_vars(EnableAlign(c) \/ EnableNotify(c))
=============================================================================
