------------------------- MODULE BridgePowerProofs -------------------------
(***************************************************************************)
(* Theorems about the bridge power controller, for every configuration,    *)
(* any number of callers and every bound.                                  *)
(***************************************************************************)
EXTENDS BridgePower, TLAPS

(* validateConfig() makes any configuration legal: durations fit their     *)
(* intervals, and a controller that subsamples has something to switch off. *)
LEMMA ValidConfig ==
  ASSUME NEW c \in RawConfig
  PROVE  LET v == ValidateConfig(c)
         IN /\ v \in Config
            /\ v.sampleDurationS <= v.sampleIntervalS
            /\ v.subsampleIntervalS <= v.sampleIntervalS
            /\ v.subsampleDurationS <= v.subsampleIntervalS
            /\ v.subsampling => v.subsampleDurationS < v.subsampleIntervalS
  <1> DEFINE interval == InRange(c.sampleIntervalS, MIN_S, MAX_SAMPLE_S, DEFAULT.sampleIntervalS)
             duration == InRange(c.sampleDurationS, MIN_S, MAX_SAMPLE_S, DEFAULT.sampleDurationS)
             subInterval == InRange(c.subsampleIntervalS, MIN_S, MAX_SUBSAMPLE_S,
                                    DEFAULT.subsampleIntervalS)
             subDuration == InRange(c.subsampleDurationS, MIN_S, MAX_SUBSAMPLE_S,
                                    DEFAULT.subsampleDurationS)
  <1>1. interval \in Seconds /\ duration \in Seconds
    BY LimitsAssumption DEF RawConfig, InRange, Seconds
  <1>2. subInterval \in Seconds /\ subDuration \in Seconds
    BY LimitsAssumption DEF RawConfig, InRange, Seconds
  <1>3. /\ c.alignmentS \in Nat /\ DEFAULT.alignmentS \in Nat
        /\ c.subsampling \in BOOLEAN /\ c.enabled \in BOOLEAN /\ c.ticksSampling \in BOOLEAN
    BY LimitsAssumption DEF RawConfig
  <1> HIDE DEF interval, duration, subInterval, subDuration
  <1> DEFINE on == Smaller(duration, interval)
             subIn == Smaller(subInterval, interval)
             subOn == Smaller(subDuration, subIn)
  <1>4. /\ on \in Seconds /\ on <= interval
        /\ subIn \in Seconds /\ subIn <= interval
        /\ subOn \in Seconds /\ subOn <= subIn
    BY <1>1, <1>2 DEF Smaller, Seconds
  <1> HIDE DEF on, subIn, subOn
  <1> DEFINE align == IF c.alignmentS > MAX_ALIGNMENT_S THEN DEFAULT.alignmentS ELSE c.alignmentS
             sub == c.subsampling /\ subInterval <= interval /\ subOn # subIn
             cont == c.enabled /\ on = interval
  <1>5. align \in Nat /\ sub \in BOOLEAN /\ cont \in BOOLEAN
    BY <1>3
  <1>6. sub => subOn < subIn
    BY <1>4 DEF Seconds
  <1> HIDE DEF align, sub, cont
  <1>7. ValidateConfig(c) =
          [sampleIntervalS |-> interval, sampleDurationS |-> on,
           subsampleIntervalS |-> subIn, subsampleDurationS |-> subOn,
           alignmentS |-> align, subsampling |-> sub, continuous |-> cont,
           enabled |-> c.enabled, ticksSampling |-> c.ticksSampling]
    BY DEF ValidateConfig, interval, duration, subInterval, subDuration, on, subIn, subOn,
           align, sub, cont
  <1>8. ValidateConfig(c) \in Config
    BY <1>1, <1>3, <1>4, <1>5, <1>7 DEF Config
  <1> QED BY <1>4, <1>6, <1>7, <1>8

LEMMA DivMod ==
  ASSUME NEW x \in Nat, NEW s \in Seconds
  PROVE  /\ x \div s \in Nat
         /\ x = s * (x \div s) + (x % s)
         /\ x % s \in 0 .. (s - 1)
  BY SMT DEF Seconds

LEMMA FirstIsNotPast ==
  ASSUME NEW epoch \in Nat, NEW now \in Nat, NEW step \in Seconds
  PROVE  FirstNotPast(epoch, now, step) \in Nat /\ FirstNotPast(epoch, now, step) >= now
  <1>1. CASE epoch >= now
    BY <1>1 DEF FirstNotPast
  <1>2. CASE ~(epoch >= now)
    <2> DEFINE n == (now - epoch) + (step - 1)
               q == n \div step
               r == n % step
    <2>1. n \in Nat
      BY <1>2 DEF Seconds
    <2>2. q \in Nat /\ n = step * q + r /\ r \in 0 .. (step - 1)
      BY <2>1, DivMod
    <2>3. step * q \in Nat
      BY <2>2 DEF Seconds
    <2> HIDE DEF q, r
    <2>4. step * q >= now - epoch
      BY <2>1, <2>2, <2>3 DEF Seconds
    <2>5. FirstNotPast(epoch, now, step) = epoch + step * q
      BY <1>2 DEF FirstNotPast, q
    <2> QED BY <2>3, <2>4, <2>5
  <1> QED BY <1>1, <1>2

LEMMA RoundUpAligns ==
  ASSUME NEW epoch \in Nat, NEW alignment \in Nat
  PROVE  /\ RoundUp(epoch, alignment) \in Nat
         /\ RoundUp(epoch, alignment) >= epoch
         /\ alignment # 0 => RoundUp(epoch, alignment) % alignment = 0
  <1>1. CASE alignment = 0 \/ epoch % alignment = 0
    BY <1>1 DEF RoundUp
  <1>2. CASE ~(alignment = 0 \/ epoch % alignment = 0)
    <2> DEFINE q == epoch \div alignment
               r == epoch % alignment
    <2>1. alignment \in Seconds
      BY <1>2 DEF Seconds
    <2>2. q \in Nat /\ epoch = alignment * q + r /\ r \in 0 .. (alignment - 1)
      BY <2>1, DivMod
    <2>3. RoundUp(epoch, alignment) = epoch + (alignment - r)
      BY <1>2 DEF RoundUp
    <2> HIDE DEF q, r
    <2>4. epoch + (alignment - r) = alignment * (q + 1)
      BY <2>2
    <2>5. (alignment * (q + 1)) % alignment = 0
      BY <2>1, <2>2 DEF Seconds
    <2> QED BY <2>2, <2>3, <2>4, <2>5
  <1> QED BY <1>1, <1>2

(* What the loop and the adjustment of _alignNextInterval() promise: the   *)
(* next start is never in the past, whatever the clock did since the last  *)
(* one, and it is a multiple of the alignment.                             *)
THEOREM NextStartAligned ==
  ASSUME NEW now \in Nat, NEW last \in Nat, NEW step \in Seconds, NEW alignment \in Nat
  PROVE  LET next == AlignNextInterval(now, last, step, alignment)
         IN next \in Nat /\ next >= now /\ (alignment # 0 => next % alignment = 0)
  <1> DEFINE base == LastStart(now, last, step) + step
             first == FirstNotPast(base, now, step)
  <1>1. base \in Nat
    BY DEF LastStart, Seconds
  <1>2. first \in Nat /\ first >= now
    BY <1>1, FirstIsNotPast
  <1> HIDE DEF base, first
  <1>3. AlignNextInterval(now, last, step, alignment) = RoundUp(first, alignment)
    BY DEF AlignNextInterval, base, first
  <1> DEFINE next == RoundUp(first, alignment)
  <1>4. next \in Nat /\ next >= first /\ (alignment # 0 => next % alignment = 0)
    BY <1>2, RoundUpAligns
  <1> QED BY <1>2, <1>3, <1>4

-----------------------------------------------------------------------------
LEMMA NowIsTime ==
  ASSUME TypeOK
  PROVE  /\ Now \in Nat
         /\ \A n \in Nat : NextStart(n) \in Nat
  <1>1. Now \in Nat
    BY DEF TypeOK, Now
  <1>2. \A n \in Nat : NextStart(n) \in Nat
    BY NextStartAligned DEF TypeOK, NextStart, Config
  <1> QED BY <1>1, <1>2

LEMMA RemainingIsTime ==
  ASSUME TypeOK
  PROVE  SampleRemaining \in Nat /\ SubsampleRemaining \in Nat
  BY NowIsTime DEF TypeOK, TimeRemaining, SampleRemaining, SubsampleRemaining, Config, Seconds

LEMMA CheckTimebaseType ==
  ASSUME TypeOK, CheckTimebase
  PROVE  sampleStart' \in Nat /\ subStart' \in Nat /\ timebaseSet' \in BOOLEAN
  BY NowIsTime DEF TypeOK, CheckTimebase

LEMMA InitTyped == Init => TypeOK
  <1> SUFFICES ASSUME Init PROVE TypeOK
    OBVIOUS
  <1>1. conf \in Config
    BY BridgePowerAssumption, ValidConfig DEF Init
  <1>2. enabled \in BOOLEAN /\ subsampling \in BOOLEAN
    BY <1>1 DEF Init, Config
  <1>3. rtcOffset \in Nat /\ rtcSet \in BOOLEAN
    BY BridgePowerAssumption DEF Init
  <1>4. caller \in [Callers -> {"idle", "align", "notify"}]
    BY DEF Init
  <1>5. goal \in [on: BOOLEAN, l2: BOOLEAN] 
    BY DEF Init
  <1> QED BY <1>1, <1>2, <1>3, <1>4, <1>5 DEF Init, TypeOK, Labels, Returns

(* One step per action: what it assigns stays in its type. *)
LEMMA StepTyped == TypeOK /\ [Next]_vars => TypeOK'
  <1> SUFFICES ASSUME TypeOK, [Next]_vars PROVE TypeOK'
    OBVIOUS
  <1> USE DEF fields, pins, locals, callers, clocks, SetBusPower, SleepFor, Labels, Returns
  <1>a. Now \in Nat /\ (\A n \in Nat : NextStart(n) \in Nat)
    BY NowIsTime
  <1>b. SampleRemaining \in Nat /\ SubsampleRemaining \in Nat
    BY RemainingIsTime
  <1>c. INIT_S \in Nat /\ IDLE_S \in Nat
    BY BridgePowerAssumption
  <1>d. CheckTimebase => sampleStart' \in Nat /\ subStart' \in Nat /\ timebaseSet' \in BOOLEAN
    BY CheckTimebaseType
  <1>g. \A p, q \in BOOLEAN : [on |-> p, l2 |-> q] \in [on: BOOLEAN, l2: BOOLEAN]
    OBVIOUS
  <1>h. TRUE \in BOOLEAN /\ FALSE \in BOOLEAN
    OBVIOUS
  <1>1. CASE BusKept
    BY <1>1 DEF TypeOK, BusKept
  <1>2. CASE BusRise
    BY <1>2 DEF TypeOK, BusRise
  <1>3. CASE BusClose
    BY <1>3 DEF TypeOK, BusClose
  <1>4. CASE BusFall
    <2>1. load' = FALSE
      BY <1>4 DEF BusFall
    <2>2. load' \in BOOLEAN
      BY <2>1
    <2> QED
      BY <1>4, <2>2 DEF TypeOK, BusFall
  <1>5. CASE BusDrain
    <2>1. boost' = FALSE
      BY <1>5 DEF BusDrain
    <2>2. boost' \in BOOLEAN
      BY <2>1
    <2> QED
      BY <1>5, <2>2 DEF TypeOK, BusDrain
  <1>6. CASE BusSignal
    BY <1>6 DEF TypeOK, BusSignal
  <1>7. CASE BusNetif
    BY <1>7 DEF TypeOK, BusNetif
  <1>8. CASE BusPort2
    <2>1. port2' = FALSE
      BY <1>8 DEF BusPort2
    <2>2. port2' \in BOOLEAN
      BY <2>1
    <2> QED
      BY <1>8, <2>2 DEF TypeOK, BusPort2
  <1>9. CASE Update
    BY <1>9 DEF TypeOK, Update
  <1>10. CASE InitPowerOn
    BY <1>10 DEF TypeOK, InitPowerOn
  <1>11. CASE InitDelay
    BY <1>11, <1>c DEF TypeOK, InitDelay
  <1>12. CASE InitElapsed
    <2>1. goal' = [on |-> (~enabled \/ conf.continuous), l2 |-> TRUE] \/ goal' = goal
      BY <1>12 DEF InitElapsed
    <2>2. (~enabled \/ conf.continuous) \in BOOLEAN
      OBVIOUS
    <2>3. goal' \in [on: BOOLEAN, l2: BOOLEAN]
      BY <1>g, <1>h, <2>1, <2>2, Zenon DEF TypeOK
    <2>4. timebaseSet' \in BOOLEAN /\ sampleStart' \in Nat /\ subStart' \in Nat
      BY <1>12, <1>d DEF InitElapsed
    <2>5. sleepS' \in Nat
      BY <1>12, <1>a, <2>4 DEF InitElapsed
    <2>6. pc' \in Labels /\ after' \in Returns \union {"update"}
      BY <1>12 DEF InitElapsed, TypeOK
    <2>7. UNCHANGED <<conf, enabled, subsampling, initDone, pins, cycle, wakeAt, notified,
                      aggregation, callers, clocks>>
      BY <1>12 DEF InitElapsed
    <2> QED
      BY <2>3, <2>4, <2>5, <2>6, <2>7 DEF TypeOK
  <1>13. CASE InitDone
    BY <1>13 DEF TypeOK, InitDone
  <1>14. CASE SampleEarly
    BY <1>14, <1>a DEF TypeOK, SampleEarly
  <1>15. CASE SampleOver
    BY <1>15, <1>a DEF TypeOK, SampleOver
  <1>16. CASE SampleAdvance
    <2>1. goal' = [on |-> FALSE, l2 |-> TRUE] \/ goal' = goal
      BY <1>16 DEF SampleAdvance
    <2>2. goal' \in [on: BOOLEAN, l2: BOOLEAN]
      BY <1>g, <1>h, <2>1, Zenon DEF TypeOK
    <2> QED
      BY <1>16, <1>a, <2>2 DEF TypeOK, SampleAdvance
  <1>17. CASE SampleAggregate
    BY <1>17 DEF TypeOK, SampleAggregate
  <1>18. CASE SampleOn
    BY <1>18, <1>b DEF TypeOK, SampleOn
  <1>19. CASE SubsampleEarly
    BY <1>19, <1>a, <1>b DEF TypeOK, SubsampleEarly, InSubsampling, Smaller
  <1>20. CASE SubsampleOff
    <2>1. goal' = [on |-> FALSE, l2 |-> TRUE] \/ goal' = goal
      BY <1>20 DEF SubsampleOff
    <2>2. goal' \in [on: BOOLEAN, l2: BOOLEAN]
      BY <1>g, <1>h, <2>1, Zenon DEF TypeOK
    <2>3. subStart' \in Nat
      BY <1>20 DEF SubsampleOff, TypeOK, Config, Seconds
    <2>4. sleepS' \in Nat
      BY <1>20, <1>a, <1>b, <2>3 DEF SubsampleOff, Smaller
    <2> QED
      BY <1>20, <2>2, <2>3, <2>4 DEF TypeOK, SubsampleOff
  <1>21. CASE SubsampleOn
    BY <1>21, <1>b DEF TypeOK, SubsampleOn, InSubsampling
  <1>22. CASE IdleDisabled
    <2>1. goal' = [on |-> TRUE, l2 |-> TRUE] \/ goal' = goal
      BY <1>22 DEF IdleDisabled
    <2>2. goal' \in [on: BOOLEAN, l2: BOOLEAN]
      BY <1>g, <1>h, <2>1, Zenon DEF TypeOK
    <2> QED
      BY <1>22, <1>c, <2>2 DEF TypeOK, IdleDisabled
  <1>23. CASE IdleNoTimebase
    <2>1. goal' = [on |-> FALSE, l2 |-> TRUE] \/ goal' = goal
      BY <1>23 DEF IdleNoTimebase
    <2>2. goal' \in [on: BOOLEAN, l2: BOOLEAN]
      BY <1>g, <1>h, <2>1, Zenon DEF TypeOK
    <2> QED
      BY <1>23, <1>c, <2>2 DEF TypeOK, IdleNoTimebase
  <1>24. CASE IdleOvertaken
    BY <1>24, <1>c DEF TypeOK, IdleOvertaken
  <1>25. CASE IdleAlign
    BY <1>25, <1>a, <1>d DEF TypeOK, IdleAlign
  <1>26. CASE IdleCheck
    BY <1>26, <1>d DEF TypeOK, IdleCheck
  <1>27. CASE Sleep
    BY <1>27 DEF TypeOK, Sleep
  <1>28. CASE Wake
    <2>1. notified' = FALSE /\ pc' = "update"
      BY <1>28 DEF Wake
    <2>2. notified' \in BOOLEAN
      BY <2>1
    <2>3. UNCHANGED <<fields, pins, locals, aggregation, callers, clocks>>
      BY <1>28 DEF Wake
    <2> QED
      BY <2>1, <2>2, <2>3 DEF TypeOK
  <1>29. CASE TakeAggregation
    <2>1. aggregation' = FALSE
      BY <1>29 DEF TakeAggregation
    <2>2. aggregation' \in BOOLEAN
      BY <2>1
    <2>3. UNCHANGED <<fields, pins, pc, locals, notified, callers, clocks>>
      BY <1>29 DEF TakeAggregation
    <2> QED
      BY <2>2, <2>3 DEF TypeOK
  <1>30. CASE Tick
    BY <1>30 DEF TypeOK, Tick
  <1>31. ASSUME NEW c \in Callers, NEW e \in BOOLEAN, EnableFlag(c, e) PROVE TypeOK'
    BY <1>31 DEF TypeOK, EnableFlag
  <1>32. ASSUME NEW c \in Callers, EnableAlign(c) PROVE TypeOK'
    BY <1>32, <1>a DEF TypeOK, EnableAlign
  <1>33. ASSUME NEW c \in Callers, EnableNotify(c) PROVE TypeOK'
    BY <1>33 DEF TypeOK, EnableNotify
  <1>34. ASSUME NEW e \in BOOLEAN, SubsampleEnable(e) PROVE TypeOK'
    BY <1>34 DEF TypeOK, SubsampleEnable
  <1>35. ASSUME NEW o \in RtcOffsets, SetRtc(o) PROVE TypeOK'
    BY <1>35, BridgePowerAssumption DEF TypeOK, SetRtc
  <1>36. CASE UNCHANGED vars
    BY <1>36 DEF TypeOK, vars
  <1> QED
    BY <1>1, <1>2, <1>3, <1>4, <1>5, <1>6, <1>7, <1>8, <1>9, <1>10, <1>11, <1>12, <1>13,
       <1>14, <1>15, <1>16, <1>17, <1>18, <1>19, <1>20, <1>21, <1>22, <1>23, <1>24,
       <1>25, <1>26, <1>27, <1>28, <1>29, <1>30, <1>31, <1>32, <1>33, <1>34, <1>35,
       <1>36
    DEF Next, Task, Call

(* Every variable keeps its type, and no time of the schedule runs below zero. *)
THEOREM TypeCorrect == Spec => []TypeOK
  BY InitTyped, StepTyped, PTL DEF Spec

-----------------------------------------------------------------------------
(* The supply: what a switching sequence has done so far. *)
Halfway == {"charge", "drain", "signal"}

SupplyInv ==
  /\ pc = "charge" => goal.on /\ ~load /\ boost /\ bits = {}
  /\ pc = "drain" => ~goal.on /\ ~load /\ boost /\ bits = {}
  /\ pc = "signal" => (load <=> goal.on) /\ (boost <=> goal.on) /\ bits = {}
  /\ pc \notin Halfway => (boost <=> load) /\ bits \subseteq IF load THEN {ON} ELSE {OFF}
  /\ pc \notin Halfway /\ load => bits = {ON}

(* Every step that is not one of the five of a switching leaves the supply *)
(* alone, and neither starts nor ends half-way through one.                *)
LEMMA SupplySteps ==
  ASSUME TypeOK, [Next]_vars
  PROVE  \/ BusRise \/ BusClose \/ BusFall \/ BusDrain \/ BusSignal
         \/ /\ UNCHANGED <<load, boost, bits>>
            /\ UNCHANGED <<pc, goal>> \/ (pc \notin Halfway /\ pc' \notin Halfway)
  <1> DEFINE Away == pc \notin Halfway /\ pc' \notin Halfway
             Apart == UNCHANGED <<load, boost, bits>> /\ (UNCHANGED <<pc, goal>> \/ Away)
  <1> SUFFICES ASSUME ~(BusRise \/ BusClose \/ BusFall \/ BusDrain \/ BusSignal) PROVE Apart
    OBVIOUS
  <1> USE DEF fields, pins, locals, callers, clocks, SetBusPower, SleepFor, Halfway
  <1>a. after \notin Halfway
    BY DEF TypeOK, Returns
  <1>1. CASE BusKept \/ BusNetif \/ BusPort2
    BY <1>1, <1>a DEF BusKept, BusNetif, BusPort2
  <1>2. CASE Update \/ InitPowerOn \/ InitDelay \/ InitElapsed \/ InitDone
    BY <1>2 DEF Update, InitPowerOn, InitDelay, InitElapsed, InitDone
  <1>3. CASE SampleEarly \/ SampleOver \/ SampleAdvance \/ SampleAggregate \/ SampleOn
    BY <1>3 DEF SampleEarly, SampleOver, SampleAdvance, SampleAggregate, SampleOn
  <1>4. CASE SubsampleEarly \/ SubsampleOff \/ SubsampleOn
    BY <1>4 DEF SubsampleEarly, SubsampleOff, SubsampleOn, InSubsampling
  <1>5. CASE IdleDisabled \/ IdleNoTimebase \/ IdleOvertaken \/ IdleAlign \/ IdleCheck
    BY <1>5 DEF IdleDisabled, IdleNoTimebase, IdleOvertaken, IdleAlign, IdleCheck
  <1>6. CASE Sleep \/ Wake
    BY <1>6 DEF Sleep, Wake
  <1>7. ASSUME NEW c \in Callers, Call(c) PROVE Apart
    BY <1>7 DEF Call, EnableFlag, EnableAlign, EnableNotify
  <1>8. CASE TakeAggregation \/ Tick \/ UNCHANGED vars
    BY <1>8 DEF TakeAggregation, Tick, vars
  <1>9. CASE (\E e \in BOOLEAN : SubsampleEnable(e)) \/ (\E o \in RtcOffsets : SetRtc(o))
    BY <1>9 DEF SubsampleEnable, SetRtc
  <1> HIDE DEF Apart
  <1> QED
    BY <1>1, <1>2, <1>3, <1>4, <1>5, <1>6, <1>7, <1>8, <1>9 DEF Next, Task

LEMMA SupplyInit == Init => SupplyInv
  BY DEF Init, SupplyInv, Halfway

LEMMA SupplyStep == TypeOK /\ SupplyInv /\ [Next]_vars => SupplyInv'
  <1> SUFFICES ASSUME TypeOK, SupplyInv, [Next]_vars PROVE SupplyInv'
    OBVIOUS
  <1> USE DEF SupplyInv, Halfway, fields, pins, locals
  <1>1. CASE BusRise
    BY <1>1 DEF BusRise
  <1>2. CASE BusClose
    BY <1>2 DEF BusClose
  <1>3. CASE BusFall
    BY <1>3 DEF BusFall
  <1>4. CASE BusDrain
    BY <1>4 DEF BusDrain
  <1>5. CASE BusSignal
    BY <1>5 DEF BusSignal
  <1>6. CASE /\ UNCHANGED <<load, boost, bits>>
             /\ UNCHANGED <<pc, goal>> \/ (pc \notin Halfway /\ pc' \notin Halfway)
    BY <1>6
  <1> QED
    BY <1>1, <1>2, <1>3, <1>4, <1>5, <1>6, SupplySteps

LEMMA SupplyAlways == Spec => []SupplyInv
  BY SupplyInit, SupplyStep, TypeCorrect, PTL DEF Spec

(* Whatever wakes a task that waits for ON or OFF tells it the truth. *)
THEOREM SignalsHonest == Spec => []SignalHonest
  <1>1. SupplyInv => SignalHonest
    BY BridgePowerAssumption DEF SupplyInv, SignalHonest, Halfway
  <1> QED BY <1>1, SupplyAlways, PTL

-----------------------------------------------------------------------------
(* The controller implements the supply that the waiting tasks rely on. *)
LEMMA RefinesInit == Init => Bus!BusInit
  BY DEF Init, Bus!BusInit, Stage

LEMMA RefinesStep ==
  TypeOK /\ SupplyInv /\ [Next]_vars => [Bus!BusNext]_(Bus!busVars)
  <1> SUFFICES ASSUME TypeOK, SupplyInv, [Next]_vars PROVE [Bus!BusNext]_(Bus!busVars)
    OBVIOUS
  <1> USE DEF Stage, fields, pins, locals
  <1>1. CASE BusRise
    BY <1>1 DEF BusRise, Bus!StartRise, Bus!BusNext
  <1>2. CASE BusClose
    BY <1>2 DEF BusClose, SupplyInv, Bus!CloseSwitch, Bus!BusNext
  <1>3. CASE BusFall
    BY <1>3 DEF BusFall, Bus!StartFall, Bus!BusNext
  <1>4. CASE BusDrain
    BY <1>4 DEF BusDrain, SupplyInv, Bus!StopBoost, Bus!BusNext
  <1>5. CASE BusSignal
    BY <1>5 DEF BusSignal, TypeOK, Bus!AnnounceOn, Bus!AnnounceOff, Bus!BusNext
  <1>6. CASE /\ UNCHANGED <<load, boost, bits>>
             /\ UNCHANGED <<pc, goal>> \/ (pc \notin Halfway /\ pc' \notin Halfway)
    BY <1>6 DEF Halfway, Bus!busVars
  <1> QED
    BY <1>1, <1>2, <1>3, <1>4, <1>5, <1>6, SupplySteps

THEOREM Refines == Spec => ImplementsBusPower
  BY RefinesInit, RefinesStep, TypeCorrect, SupplyAlways, PTL
  DEF Spec, ImplementsBusPower, Bus!BusSpec

(* No step but an enable unsettles a disable. *)
LEMMA SettledStays ==
  ASSUME TypeOK, [Next]_vars, Settled, enabled' = enabled
  PROVE  Settled'
  <1> USE DEF Settled, fields, pins, locals, SetBusPower, SleepFor
  <1>a. after \notin {"sample", "advance", "bus"}
    BY DEF TypeOK, Returns
  <1>1. CASE BusKept \/ BusRise \/ BusClose \/ BusFall \/ BusDrain
    BY <1>1, <1>a DEF BusKept, BusRise, BusClose, BusFall, BusDrain
  <1>2. CASE BusSignal \/ BusNetif \/ BusPort2
    BY <1>2, <1>a DEF BusSignal, BusNetif, BusPort2
  <1>3. CASE Update \/ InitPowerOn \/ InitDelay \/ InitElapsed \/ InitDone
    <2>1. CASE Update
      BY <2>1 DEF Update
    <2>2. CASE InitElapsed
      <3>1. pc' \notin {"sample", "advance"}
        BY <2>2 DEF InitElapsed
      <3>2. ASSUME pc' = "bus" PROVE goal'.on
        <4>1. goal' = [on |-> ~enabled \/ conf.continuous, l2 |-> TRUE]
          BY <2>2, <3>2 DEF InitElapsed
        <4>2. (~enabled \/ conf.continuous) = TRUE
          OBVIOUS
        <4>3. goal' = [on |-> TRUE, l2 |-> TRUE]
          BY ONLY <4>1, <4>2, Zenon
        <4> QED BY <4>3
      <3> QED BY <3>1, <3>2
    <2>3. CASE InitPowerOn \/ InitDelay \/ InitDone
      BY <2>3 DEF InitPowerOn, InitDelay, InitDone
    <2> QED BY <1>3, <2>1, <2>2, <2>3
  <1>4. CASE SampleEarly \/ SampleOver \/ SampleAdvance \/ SampleAggregate \/ SampleOn
    BY <1>4 DEF SampleEarly, SampleOver, SampleAdvance, SampleAggregate, SampleOn
  <1>5. CASE SubsampleEarly \/ SubsampleOff \/ SubsampleOn
    BY <1>5 DEF SubsampleEarly, SubsampleOff, SubsampleOn, InSubsampling
  <1>6. CASE IdleDisabled \/ IdleNoTimebase \/ IdleOvertaken \/ IdleAlign \/ IdleCheck
    BY <1>6 DEF IdleDisabled, IdleNoTimebase, IdleOvertaken, IdleAlign, IdleCheck
  <1>7. CASE Sleep \/ Wake
    BY <1>7 DEF Sleep, Wake
  <1>8. ASSUME NEW c \in Callers, Call(c) PROVE Settled'
    BY <1>8 DEF Call, EnableFlag, EnableAlign, EnableNotify
  <1>9. CASE TakeAggregation \/ Tick \/ UNCHANGED vars
    BY <1>9 DEF TakeAggregation, Tick, vars
  <1>10. CASE (\E e \in BOOLEAN : SubsampleEnable(e)) \/ (\E o \in RtcOffsets : SetRtc(o))
    BY <1>10 DEF SubsampleEnable, SetRtc
  <1> HIDE DEF Settled
  <1> QED
    BY <1>1, <1>2, <1>3, <1>4, <1>5, <1>6, <1>7, <1>8, <1>9, <1>10 DEF Next, Task

(* Only the first step of powerControlEnable writes the flag. *)
LEMMA FlagSteps ==
  ASSUME [Next]_vars
  PROVE  \/ enabled' = enabled
         \/ \E c \in Callers, e \in BOOLEAN : EnableFlag(c, e)
  <1> USE DEF fields, SetBusPower, SleepFor, CheckTimebase
  <1>1. CASE Task
    BY <1>1 DEF Task, BusKept, BusRise, BusClose, BusFall, BusDrain, BusSignal, BusNetif,
                BusPort2, Update, InitPowerOn, InitDelay, InitElapsed, InitDone, SampleEarly,
                SampleOver, SampleAdvance, SampleAggregate, SampleOn, SubsampleEarly,
                SubsampleOff, SubsampleOn, IdleDisabled, IdleNoTimebase, IdleOvertaken,
                IdleAlign, IdleCheck, Sleep, Wake
  <1>2. ASSUME NEW c \in Callers, Call(c)
        PROVE  enabled' = enabled \/ \E e \in BOOLEAN : EnableFlag(c, e)
    BY <1>2 DEF Call, EnableAlign, EnableNotify
  <1>3. CASE TakeAggregation \/ Tick \/ UNCHANGED vars
    BY <1>3 DEF TakeAggregation, Tick, vars
  <1>4. CASE (\E e \in BOOLEAN : SubsampleEnable(e)) \/ (\E o \in RtcOffsets : SetRtc(o))
    BY <1>4 DEF SubsampleEnable, SetRtc
  <1> QED
    BY <1>1, <1>2, <1>3, <1>4 DEF Next

LEMMA MaySettle ==
  ASSUME TypeOK, [Next]_vars, enabled' = enabled
  PROVE  Control!MaySettle
  <1>1. CASE Settled
    <2>1. Settled' BY <1>1, SettledStays
    <2> QED BY <1>1, <2>1 DEF Control!MaySettle
  <1>2. CASE ~Settled /\ Settled'
    <2>1. enabled = FALSE BY <1>2 DEF Settled, TypeOK
    <2> QED BY <1>2, <2>1 DEF Control!MaySettle
  <1>3. CASE ~Settled /\ ~Settled'
    <2>1. Settled = FALSE /\ Settled' = FALSE BY <1>3 DEF Settled
    <2> QED BY <2>1 DEF Control!MaySettle
  <1> QED BY <1>1, <1>2, <1>3

LEMMA ControlRefinesInit == Init => Control!ControlInit
  <1> SUFFICES ASSUME Init PROVE Control!ControlInit
    OBVIOUS
  <1>1. Control!BusInit BY DEF Init, Control!BusInit, Stage
  <1>2. enabled \in BOOLEAN BY InitTyped DEF TypeOK
  <1>3. Settled \in {FALSE, ~enabled}
    BY <1>2 DEF Init, Settled
  <1> QED BY <1>1, <1>2, <1>3 DEF Control!ControlInit

LEMMA ControlRefinesStep ==
  TypeOK /\ SupplyInv /\ [Next]_vars => [Control!ControlNext]_(Control!controlVars)
  <1> SUFFICES ASSUME TypeOK, SupplyInv, [Next]_vars
               PROVE  [Control!ControlNext]_(Control!controlVars)
    OBVIOUS
  <1>1. ASSUME NEW c \in Callers, NEW e \in BOOLEAN, EnableFlag(c, e)
        PROVE  Control!PowerControlEnable(e)
    <2>1. UNCHANGED <<load, boost, bits, Stage>> /\ enabled' = e /\ UNCHANGED <<pc, goal>>
      BY <1>1 DEF EnableFlag, pins, locals, Stage
    <2>2. CASE e
      BY <2>1, <2>2 DEF Control!PowerControlEnable, Control!busVars, Settled
    <2>3. CASE ~e /\ Settled'
      BY <2>1, <2>3 DEF Control!PowerControlEnable, Control!busVars
    <2>4. CASE ~e /\ ~Settled'
      <3>1. Settled = FALSE /\ Settled' = FALSE BY <2>1, <2>4 DEF Settled
      <3> QED BY <2>1, <2>4, <3>1 DEF Control!PowerControlEnable, Control!busVars
    <2> QED BY <2>2, <2>3, <2>4
  <1>2. ASSUME enabled' = enabled, BusFall PROVE Control!ControlTask
    <2>1. Control!MaySettle /\ UNCHANGED enabled BY <1>2, MaySettle
    <2>2. ~Settled BY <1>2 DEF BusFall, Settled
    <2>3. Control!StartFall
      BY <1>2 DEF BusFall, Control!StartFall, Stage, locals, pins
    <2> QED BY <2>1, <2>2, <2>3 DEF Control!Fall, Control!ControlTask
  <1>3. ASSUME enabled' = enabled, ~BusFall PROVE Control!ControlTask
    <2>1. Control!MaySettle /\ UNCHANGED enabled BY <1>3, MaySettle
    <2>2. CASE BusRise
      BY <2>1, <2>2 DEF BusRise, Control!StartRise, Control!Rise, Control!ControlTask, Stage, locals
    <2>3. CASE BusClose \/ BusDrain
      <3>1. Control!CloseSwitch \/ Control!StopBoost
        BY <2>3 DEF BusClose, BusDrain, SupplyInv, Control!CloseSwitch, Control!StopBoost, Stage,
                    locals
      <3> QED BY <2>1, <3>1 DEF Control!Switch, Control!ControlTask
    <2>4. CASE BusSignal
      <3>1. Control!AnnounceOn \/ Control!AnnounceOff
        BY <2>4 DEF BusSignal, TypeOK, Control!AnnounceOn, Control!AnnounceOff, Stage, locals
      <3> QED BY <2>1, <3>1 DEF Control!Switch, Control!ControlTask
    <2>5. CASE /\ UNCHANGED <<load, boost, bits>>
               /\ UNCHANGED <<pc, goal>> \/ (pc \notin Halfway /\ pc' \notin Halfway)
      <3>1. UNCHANGED Control!busVars BY <2>5 DEF Halfway, Control!busVars, Stage
      <3> QED BY <2>1, <3>1 DEF Control!Settle, Control!ControlTask
    <2> QED BY <1>3, <2>2, <2>3, <2>4, <2>5, SupplySteps
  <1> QED BY <1>1, <1>2, <1>3, FlagSteps DEF Control!ControlNext

(* Towards the tasks that disable it, the controller is PowerControl: once *)
(* a disable has settled, the bus does not go down before the next enable. *)
THEOREM RefinesControl == Spec => ImplementsPowerControl
  <1>1. Control!ControlInit /\ [][Control!ControlNext]_(Control!controlVars)
          => ImplementsPowerControl
    BY DEF ImplementsPowerControl, Control!ControlSpec
  <1> QED
    BY <1>1, ControlRefinesInit, ControlRefinesStep, TypeCorrect, SupplyAlways, PTL DEF Spec

-----------------------------------------------------------------------------
(* Disabling.  Where the task is heading decides what it owes a caller: the *)
(* label it is at, or the one its switching sequence returns to.           *)
Switching == {"bus", "charge", "drain", "signal", "netif", "port2"}
Heading == IF pc \in Switching THEN after ELSE pc
Running == {"sample", "advance", "aggregate", "sleep", "idle", "idleAlign", "idleCheck", "wait"}

(* Initialisation comes first, and once. *)
InitInv ==
  /\ pc \in Switching => after \in Returns
  /\ Heading \in Running => initDone
  /\ pc \in {"initDelay", "initSleep"} => load
  /\ pc \in Switching /\ after = "initDelay" => goal.on

(* The interface has power whenever the bus has, outside a switching. *)
NetifInv ==
  /\ pc = "init" \/ (pc = "update" /\ ~initDone) => netif
  /\ pc \in Switching /\ ~goal.l2 => netif
  /\ pc \in {"netif", "port2"} => (load <=> goal.on)
  /\ load /\ pc \notin {"charge", "drain", "signal", "netif"} => netif
  /\ port2 => pc = "port2"

(* Unless a notification is on its way, a disabled controller's task is in *)
(* no branch of an enabled one, and has the bus on before it sleeps.       *)
DisabledInv ==
  ~enabled /\ ~Pending =>
    /\ Heading \notin {"sample", "advance", "aggregate", "idleAlign"}
    /\ pc \in Switching => goal.on
    /\ pc \in {"sleep", "idleCheck", "initDone", "wait"} => load

ReadyInv == InitInv /\ NetifInv /\ DisabledInv

LEMMA ReadyInit == Init => ReadyInv
  BY DEF Init, ReadyInv, InitInv, NetifInv, DisabledInv, Heading, Switching, Running

LEMMA InitStep ==
  ASSUME TypeOK, SupplyInv, InitInv, NetifInv, [Next]_vars
  PROVE  InitInv'
  <1> USE DEF fields, pins, locals, callers, clocks, SetBusPower, SleepFor, InitInv, Heading, Switching, Running, Returns
  <1> USE DEF TypeOK, SupplyInv, NetifInv
  <1>1. CASE BusKept
    BY <1>1 DEF BusKept
  <1>2. CASE BusRise
    BY <1>2 DEF BusRise
  <1>3. CASE BusClose
    BY <1>3 DEF BusClose
  <1>4. CASE BusFall
    BY <1>4 DEF BusFall
  <1>5. CASE BusDrain
    BY <1>5 DEF BusDrain
  <1>6. CASE BusSignal
    BY <1>6 DEF BusSignal
  <1>7. CASE BusNetif
    BY <1>7 DEF BusNetif
  <1>8. CASE BusPort2
    BY <1>8 DEF BusPort2
  <1>9. CASE Update
    BY <1>9 DEF Update
  <1>10. CASE InitPowerOn
    BY <1>10 DEF InitPowerOn
  <1>11. CASE InitDelay
    BY <1>11 DEF InitDelay
  <1>12. CASE InitElapsed
    BY <1>12 DEF InitElapsed
  <1>13. CASE InitDone
    BY <1>13 DEF InitDone
  <1>14. CASE SampleEarly
    BY <1>14 DEF SampleEarly
  <1>15. CASE SampleOver
    BY <1>15 DEF SampleOver
  <1>16. CASE SampleAdvance
    BY <1>16 DEF SampleAdvance
  <1>17. CASE SampleAggregate
    BY <1>17 DEF SampleAggregate
  <1>18. CASE SampleOn
    BY <1>18 DEF SampleOn
  <1>19. CASE SubsampleEarly
    BY <1>19 DEF SubsampleEarly, InSubsampling
  <1>20. CASE SubsampleOff
    BY <1>20 DEF SubsampleOff, InSubsampling
  <1>21. CASE SubsampleOn
    BY <1>21 DEF SubsampleOn, InSubsampling
  <1>22. CASE IdleDisabled
    BY <1>22 DEF IdleDisabled
  <1>23. CASE IdleNoTimebase
    BY <1>23 DEF IdleNoTimebase
  <1>24. CASE IdleOvertaken
    BY <1>24 DEF IdleOvertaken
  <1>25. CASE IdleAlign
    BY <1>25 DEF IdleAlign
  <1>26. CASE IdleCheck
    BY <1>26 DEF IdleCheck
  <1>27. CASE Sleep
    BY <1>27 DEF Sleep
  <1>28. CASE Wake
    BY <1>28 DEF Wake
  <1>29. CASE TakeAggregation
    BY <1>29 DEF TakeAggregation
  <1>30. CASE Tick
    BY <1>30 DEF Tick
  <1>31. ASSUME NEW c \in Callers, NEW e \in BOOLEAN, EnableFlag(c, e) PROVE InitInv'
    BY <1>31 DEF EnableFlag
  <1>32. ASSUME NEW c \in Callers, EnableAlign(c) PROVE InitInv'
    BY <1>32 DEF EnableAlign
  <1>33. ASSUME NEW c \in Callers, EnableNotify(c) PROVE InitInv'
    BY <1>33 DEF EnableNotify
  <1>34. ASSUME NEW e \in BOOLEAN, SubsampleEnable(e) PROVE InitInv'
    BY <1>34 DEF SubsampleEnable
  <1>35. ASSUME NEW o \in RtcOffsets, SetRtc(o) PROVE InitInv'
    BY <1>35 DEF SetRtc
  <1>36. CASE UNCHANGED vars
    BY <1>36 DEF vars
  <1> HIDE DEF InitInv
  <1> QED
    BY <1>1, <1>2, <1>3, <1>4, <1>5, <1>6, <1>7, <1>8, <1>9, <1>10, <1>11, <1>12, <1>13,
       <1>14, <1>15, <1>16, <1>17, <1>18, <1>19, <1>20, <1>21, <1>22, <1>23, <1>24,
       <1>25, <1>26, <1>27, <1>28, <1>29, <1>30, <1>31, <1>32, <1>33, <1>34, <1>35,
       <1>36
    DEF Next, Task, Call

LEMMA NetifStep ==
  ASSUME TypeOK, SupplyInv, InitInv, NetifInv, [Next]_vars
  PROVE  NetifInv'
  <1> USE DEF fields, pins, locals, callers, clocks, SetBusPower, SleepFor, NetifInv, InitInv, Heading, Switching, Running, Returns
  <1> USE DEF SupplyInv, Halfway
  <1>1. CASE BusKept
    BY <1>1 DEF BusKept
  <1>2. CASE BusRise
    BY <1>2 DEF BusRise
  <1>3. CASE BusClose
    BY <1>3 DEF BusClose
  <1>4. CASE BusFall
    BY <1>4 DEF BusFall
  <1>5. CASE BusDrain
    BY <1>5 DEF BusDrain
  <1>6. CASE BusSignal
    BY <1>6 DEF BusSignal
  <1>7. CASE BusNetif
    BY <1>7 DEF BusNetif
  <1>8. CASE BusPort2
    BY <1>8 DEF BusPort2
  <1>9. CASE Update
    BY <1>9 DEF Update
  <1>10. CASE InitPowerOn
    BY <1>10 DEF InitPowerOn
  <1>11. CASE InitDelay
    BY <1>11 DEF InitDelay
  <1>12. CASE InitElapsed
    BY <1>12 DEF InitElapsed
  <1>13. CASE InitDone
    BY <1>13 DEF InitDone
  <1>14. CASE SampleEarly
    BY <1>14 DEF SampleEarly
  <1>15. CASE SampleOver
    BY <1>15 DEF SampleOver
  <1>16. CASE SampleAdvance
    BY <1>16 DEF SampleAdvance
  <1>17. CASE SampleAggregate
    BY <1>17 DEF SampleAggregate
  <1>18. CASE SampleOn
    BY <1>18 DEF SampleOn
  <1>19. CASE SubsampleEarly
    BY <1>19 DEF SubsampleEarly, InSubsampling
  <1>20. CASE SubsampleOff
    BY <1>20 DEF SubsampleOff, InSubsampling
  <1>21. CASE SubsampleOn
    BY <1>21 DEF SubsampleOn, InSubsampling
  <1>22. CASE IdleDisabled
    BY <1>22 DEF IdleDisabled
  <1>23. CASE IdleNoTimebase
    BY <1>23 DEF IdleNoTimebase
  <1>24. CASE IdleOvertaken
    BY <1>24 DEF IdleOvertaken
  <1>25. CASE IdleAlign
    BY <1>25 DEF IdleAlign
  <1>26. CASE IdleCheck
    BY <1>26 DEF IdleCheck
  <1>27. CASE Sleep
    BY <1>27 DEF Sleep
  <1>28. CASE Wake
    BY <1>28 DEF Wake
  <1>29. CASE TakeAggregation
    BY <1>29 DEF TakeAggregation
  <1>30. CASE Tick
    BY <1>30 DEF Tick
  <1>31. ASSUME NEW c \in Callers, NEW e \in BOOLEAN, EnableFlag(c, e) PROVE NetifInv'
    BY <1>31 DEF EnableFlag
  <1>32. ASSUME NEW c \in Callers, EnableAlign(c) PROVE NetifInv'
    BY <1>32 DEF EnableAlign
  <1>33. ASSUME NEW c \in Callers, EnableNotify(c) PROVE NetifInv'
    BY <1>33 DEF EnableNotify
  <1>34. ASSUME NEW e \in BOOLEAN, SubsampleEnable(e) PROVE NetifInv'
    BY <1>34 DEF SubsampleEnable
  <1>35. ASSUME NEW o \in RtcOffsets, SetRtc(o) PROVE NetifInv'
    BY <1>35 DEF SetRtc
  <1>36. CASE UNCHANGED vars
    BY <1>36 DEF vars
  <1> HIDE DEF NetifInv
  <1> QED
    BY <1>1, <1>2, <1>3, <1>4, <1>5, <1>6, <1>7, <1>8, <1>9, <1>10, <1>11, <1>12, <1>13,
       <1>14, <1>15, <1>16, <1>17, <1>18, <1>19, <1>20, <1>21, <1>22, <1>23, <1>24,
       <1>25, <1>26, <1>27, <1>28, <1>29, <1>30, <1>31, <1>32, <1>33, <1>34, <1>35,
       <1>36
    DEF Next, Task, Call

LEMMA DisabledStep ==
  ASSUME TypeOK, SupplyInv, InitInv, NetifInv, DisabledInv, [Next]_vars
  PROVE  DisabledInv'
  <1> USE DEF fields, pins, locals, callers, clocks, SetBusPower, SleepFor, DisabledInv, InitInv, Heading, Switching, Running, Returns, Pending
  <1> USE DEF SupplyInv, NetifInv, Halfway
  <1>1. CASE BusKept
    BY <1>1 DEF BusKept
  <1>2. CASE BusRise
    BY <1>2 DEF BusRise
  <1>3. CASE BusClose
    BY <1>3 DEF BusClose
  <1>4. CASE BusFall
    BY <1>4 DEF BusFall
  <1>5. CASE BusDrain
    BY <1>5 DEF BusDrain
  <1>6. CASE BusSignal
    BY <1>6 DEF BusSignal
  <1>7. CASE BusNetif
    BY <1>7 DEF BusNetif
  <1>8. CASE BusPort2
    BY <1>8 DEF BusPort2
  <1>9. CASE Update
    BY <1>9 DEF Update
  <1>10. CASE InitPowerOn
    BY <1>10 DEF InitPowerOn
  <1>11. CASE InitDelay
    BY <1>11 DEF InitDelay
  <1>12. CASE InitElapsed
    <2>1. (pc' = "bus" /\ after' = "initDone" /\ goal' = [on |-> (~enabled \/ conf.continuous), l2 |-> TRUE]) \/ (pc' = "initDone" /\ UNCHANGED <<after, goal>>)
      BY <1>12 DEF InitElapsed
    <2>2. UNCHANGED <<enabled, notified, caller, load>> /\ pc = "initSleep"
      BY <1>12 DEF InitElapsed
    <2>3. ASSUME ~enabled, pc' = "bus" PROVE goal'.on
      <3> DEFINE power == ~enabled \/ conf.continuous
      <3>1. goal' = [on |-> power, l2 |-> TRUE]
        BY <2>1, <2>3
      <3>2. power
        BY <2>3
      <3> HIDE DEF power
      <3>3. goal'.on = power
        BY <3>1
      <3> QED BY <3>2, <3>3
    <2> HIDE DEF SetBusPower
    <2> QED
      BY <2>1, <2>2, <2>3
  <1>13. CASE InitDone
    BY <1>13 DEF InitDone
  <1>14. CASE SampleEarly
    BY <1>14 DEF SampleEarly
  <1>15. CASE SampleOver
    BY <1>15 DEF SampleOver
  <1>16. CASE SampleAdvance
    BY <1>16 DEF SampleAdvance
  <1>17. CASE SampleAggregate
    BY <1>17 DEF SampleAggregate
  <1>18. CASE SampleOn
    BY <1>18 DEF SampleOn
  <1>19. CASE SubsampleEarly
    BY <1>19 DEF SubsampleEarly, InSubsampling
  <1>20. CASE SubsampleOff
    BY <1>20 DEF SubsampleOff, InSubsampling
  <1>21. CASE SubsampleOn
    BY <1>21 DEF SubsampleOn, InSubsampling
  <1>22. CASE IdleDisabled
    BY <1>22 DEF IdleDisabled
  <1>23. CASE IdleNoTimebase
    BY <1>23 DEF IdleNoTimebase
  <1>24. CASE IdleOvertaken
    BY <1>24 DEF IdleOvertaken
  <1>25. CASE IdleAlign
    BY <1>25 DEF IdleAlign
  <1>26. CASE IdleCheck
    BY <1>26 DEF IdleCheck
  <1>27. CASE Sleep
    BY <1>27 DEF Sleep
  <1>28. CASE Wake
    BY <1>28 DEF Wake
  <1>29. CASE TakeAggregation
    BY <1>29 DEF TakeAggregation
  <1>30. CASE Tick
    BY <1>30 DEF Tick
  <1>31. ASSUME NEW c \in Callers, NEW e \in BOOLEAN, EnableFlag(c, e) PROVE DisabledInv'
    <2>1. caller'[c] # "idle"
      BY <1>31 DEF EnableFlag, TypeOK
    <2> QED
      BY <2>1
  <1>32. ASSUME NEW c \in Callers, EnableAlign(c) PROVE DisabledInv'
    BY <1>32 DEF EnableAlign
  <1>33. ASSUME NEW c \in Callers, EnableNotify(c) PROVE DisabledInv'
    BY <1>33 DEF EnableNotify
  <1>34. ASSUME NEW e \in BOOLEAN, SubsampleEnable(e) PROVE DisabledInv'
    BY <1>34 DEF SubsampleEnable
  <1>35. ASSUME NEW o \in RtcOffsets, SetRtc(o) PROVE DisabledInv'
    BY <1>35 DEF SetRtc
  <1>36. CASE UNCHANGED vars
    BY <1>36 DEF vars
  <1> HIDE DEF DisabledInv
  <1> QED
    BY <1>1, <1>2, <1>3, <1>4, <1>5, <1>6, <1>7, <1>8, <1>9, <1>10, <1>11, <1>12, <1>13,
       <1>14, <1>15, <1>16, <1>17, <1>18, <1>19, <1>20, <1>21, <1>22, <1>23, <1>24,
       <1>25, <1>26, <1>27, <1>28, <1>29, <1>30, <1>31, <1>32, <1>33, <1>34, <1>35,
       <1>36
    DEF Next, Task, Call

LEMMA ReadyStep == TypeOK /\ SupplyInv /\ ReadyInv /\ [Next]_vars => ReadyInv'
  BY InitStep, NetifStep, DisabledStep DEF ReadyInv

LEMMA ReadyAlways == Spec => []ReadyInv
  BY ReadyInit, ReadyStep, TypeCorrect, SupplyAlways, PTL DEF Spec

(* No disable of a controller with a timebase is lost, whichever step of   *)
(* the task it falls between, for any number of tasks calling and any      *)
(* configuration.                                                          *)
THEOREM DisablingPowers == Spec => []DisabledMeansPowered
  <1>1. TypeOK /\ SupplyInv /\ ReadyInv => DisabledMeansPowered
    <2> SUFFICES ASSUME SupplyInv, ReadyInv, Quiet, ~enabled
                 PROVE  load /\ bits = {ON} /\ netif /\ ~port2
      BY DEF DisabledMeansPowered
    <2>1. pc = "wait" /\ ~Pending
      BY DEF Quiet
    <2>2. load
      BY <2>1 DEF ReadyInv, DisabledInv
    <2>3. bits = {ON}
      BY <2>1, <2>2 DEF SupplyInv, Halfway
    <2>4. netif /\ ~port2
      BY <2>1, <2>2 DEF ReadyInv, NetifInv
    <2> QED BY <2>2, <2>3, <2>4
  <1> QED BY <1>1, TypeCorrect, SupplyAlways, ReadyAlways, PTL
=============================================================================
