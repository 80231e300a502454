---------------------------- MODULE PowerTiming ----------------------------
(***************************************************************************)
(* The arithmetic of the bridge power controller                           *)
(* (apps/bridge/bridgePowerController.cpp): how a configuration is made    *)
(* legal when the controller is constructed, how the start of the next     *)
(* sampling interval is found, and how much of a window is left.           *)
(*                                                                         *)
(* Times are seconds.  The header's limits (6 s, 24 h, ...) are constants, *)
(* so that TLC can use small ones.  Epoch seconds stay far below 2^32, so  *)
(* they are integers here; only the difference in TimeRemaining, which the *)
(* code computes as a signed number on purpose, can be negative.           *)
(***************************************************************************)
EXTENDS Integers

CONSTANTS
  MIN_S,            (* MIN_(SUB)SAMPLE_INTERVAL_S = MIN_(SUB)SAMPLE_DURATION_S *)
  MAX_SAMPLE_S,     (* MAX_SAMPLE_INTERVAL_S = MAX_SAMPLE_DURATION_S           *)
  MAX_SUBSAMPLE_S,  (* MAX_SUBSAMPLE_INTERVAL_S = MAX_SUBSAMPLE_DURATION_S     *)
  MAX_ALIGNMENT_S,
  DEFAULT           (* the DEFAULT_..._S values, one record                    *)

(* What the power section of the user configuration holds. *)
RawConfig ==
  [sampleIntervalS: Nat, sampleDurationS: Nat, subsampleIntervalS: Nat,
   subsampleDurationS: Nat, alignmentS: Nat, subsampling: BOOLEAN,
   enabled: BOOLEAN, ticksSampling: BOOLEAN]

Seconds == Nat \ {0}

ASSUME LimitsAssumption ==
  /\ MIN_S \in Seconds
  /\ {MAX_SAMPLE_S, MAX_SUBSAMPLE_S, MAX_ALIGNMENT_S} \subseteq Nat
  /\ DEFAULT \in [sampleIntervalS: Seconds, sampleDurationS: Seconds,
                  subsampleIntervalS: Seconds, subsampleDurationS: Seconds,
                  alignmentS: Nat]

Smaller(a, b) == IF a < b THEN a ELSE b

InRange(x, lo, hi, default) == IF x \in lo .. hi THEN x ELSE default

(* The constructor and validateConfig(): values out of range fall back to  *)
(* their defaults, then durations and the subsample interval are cut to    *)
(* the interval that contains them.  Continuous mode is decided here, once, *)
(* from the configured enable flag.                                        *)
ValidateConfig(c) ==
  LET interval    == InRange(c.sampleIntervalS, MIN_S, MAX_SAMPLE_S, DEFAULT.sampleIntervalS)
      duration    == InRange(c.sampleDurationS, MIN_S, MAX_SAMPLE_S, DEFAULT.sampleDurationS)
      subInterval == InRange(c.subsampleIntervalS, MIN_S, MAX_SUBSAMPLE_S,
                             DEFAULT.subsampleIntervalS)
      subDuration == InRange(c.subsampleDurationS, MIN_S, MAX_SUBSAMPLE_S,
                             DEFAULT.subsampleDurationS)
      on    == Smaller(duration, interval)
      subIn == Smaller(subInterval, interval)
      subOn == Smaller(subDuration, subIn)
  IN [sampleIntervalS    |-> interval,
      sampleDurationS    |-> on,
      subsampleIntervalS |-> subIn,
      subsampleDurationS |-> subOn,
      alignmentS  |-> IF c.alignmentS > MAX_ALIGNMENT_S THEN DEFAULT.alignmentS ELSE c.alignmentS,
      subsampling |-> c.subsampling /\ subInterval <= interval /\ subOn # subIn,
      continuous  |-> c.enabled /\ on = interval,
      enabled     |-> c.enabled,
      ticksSampling |-> c.ticksSampling]

(* A configuration as the running controller has it. *)
Config ==
  [sampleIntervalS: Seconds, sampleDurationS: Seconds, subsampleIntervalS: Seconds,
   subsampleDurationS: Seconds, alignmentS: Nat, subsampling: BOOLEAN,
   continuous: BOOLEAN, enabled: BOOLEAN, ticksSampling: BOOLEAN]

(* timeRemainingGeneric(): never negative, 0 once the window is over. *)
TimeRemaining(start, now, timeout) ==
  IF start + timeout > now THEN (start + timeout) - now ELSE 0

(* The interval start that the next one is counted from.  The sentinel 0   *)
(* ("never started") is replaced by the last multiple of the interval.     *)
LastStart(now, last, interval) ==
  IF last = 0 THEN now - (now % interval) ELSE last

(* Mutant: the loop goes on when the epoch is this very second. *)
FirstInFuture(epoch, now, step) ==
  IF epoch > now THEN epoch
  ELSE epoch + step * ((now - epoch) \div step + 1)

(* What the while loop of _alignNextInterval() reaches from epoch: the     *)
(* first of epoch, epoch + step, epoch + 2*step... that is not in the past. *)
FirstNotPast(epoch, now, step) ==
  IF epoch >= now THEN epoch
  ELSE epoch + step * (((now - epoch) + (step - 1)) \div step)

(* Alignment only ever moves the start forward; 0 means none. *)
RoundUp(epoch, alignment) ==
  IF alignment = 0 \/ epoch % alignment = 0
  THEN epoch
  ELSE epoch + (alignment - (epoch % alignment))

AlignNextInterval(now, last, interval, alignment) ==
  RoundUp(FirstNotPast(LastStart(now, last, interval) + interval, now, interval), alignment)
=============================================================================
