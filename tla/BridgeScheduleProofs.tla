------------------------- MODULE BridgeScheduleProofs -------------------------
(***************************************************************************)
(* Proofs for BridgePower about the schedule, for every configuration,     *)
(* alignment and clock.                                                    *)
(*                                                                         *)
(* Without hypotheses: a sleeping controller that waits for a timebase has *)
(* the bus off, and no window of a steady one stays dark.  The invariants  *)
(* follow what a call of powerControlEnable() may still change (Pending)   *)
(* and how long each branch of _update() may sleep.                        *)
(*                                                                         *)
(* Left alone (no calls, no clock set again), and with two hypotheses on   *)
(* the constants: the bus is on exactly on schedule, and no interval is    *)
(* skipped.  IDLE_S <= 1 is TIMEBASE_NOT_SET_SLEEP_MS = 1000               *)
(* (bridgePowerController.h:93); a task that looks for the clock less      *)
(* often can find the timebase and sleep past the first start.  NoOverrun  *)
(* is about the configurations: the run subsample_overrun shows what the   *)
(* controller does with one that breaks it.                                *)
(***************************************************************************)
EXTENDS BridgePowerProofs

(* Before the first switching nothing has signalled the bus yet. *)
First == ~initDone /\ (pc \in {"update", "init"} \/ (pc = "bus" /\ after = "initDelay"))

(* A bus that is off has said so, and taken its L2 interface with it, as   *)
(* soon as it has been switched at all; only the switching of              *)
(* handleInitState() leaves L2 out.                                        *)
OffInv ==
  /\ pc \notin Halfway /\ bits = {} => First
  /\ pc \notin Halfway \union {"netif"} /\ ~load /\ netif => First
  /\ pc \in Switching /\ ~goal.l2 => after = "initDelay"

(* A timebase is found only after the boot delay and once the clock is     *)
(* set, is there wherever handleSampleState() is on the way, and without   *)
(* one the task looks again after IDLE_S.                                  *)
TimebaseInv ==
  /\ Heading \in {"init", "initDelay", "initSleep", "initDone"} => ~initDone
  /\ ~initDone /\ Heading # "initDone" => ~timebaseSet
  /\ Heading = "idleAlign" => ~timebaseSet
  /\ Heading \in {"sample", "advance", "aggregate", "sleep"} => timebaseSet
  /\ timebaseSet => conf.ticksSampling \/ rtcSet
  /\ Heading \in {"idleAlign", "idleCheck"} /\ ~timebaseSet => sleepS = IDLE_S
  /\ Heading = "initDone" /\ ~timebaseSet => sleepS = 0 /\ pc = "initDone"

(* Unless a notification is on its way, the task of an enabled controller  *)
(* is not in the branch of a disabled one, and has the bus off while it    *)
(* waits for a timebase.                                                   *)
EnabledInv ==
  enabled /\ ~Pending =>
    /\ Heading = "idle" => ~timebaseSet
    /\ pc \in Switching => after # "idleCheck"
    /\ ~conf.continuous =>
         /\ pc \in Switching /\ after = "idleAlign" => ~goal.on
         /\ pc \in {"idleAlign", "idleCheck"} => ~load
         /\ pc = "wait" /\ ~timebaseSet /\ ticks < wakeAt => ~load

(* Enabled on a clock that is not set again. *)
Steady == enabled /\ timebaseSet /\ ~Pending /\ jumps = 0 /\ toggles = 0

(* In a steady controller a sleep with the bus off is over by the start of *)
(* the next window, or IDLE_S after it.                                    *)
WindowInv ==
  Steady /\ ~subsampling =>
    /\ pc \in Switching /\ after = "sleep" => goal.on
    /\ pc = "sleep" => load
    /\ pc = "advance" => cycle = Now
    /\ Heading \in {"initDone", "aggregate", "idleCheck"} =>
         sleepS = 0 \/ Now + sleepS <= sampleStart + IDLE_S
    /\ pc = "wait" /\ ticks < wakeAt =>
         load \/ Now + wakeAt <= sampleStart + IDLE_S + ticks

(* The bus off, step by step: only BusFall and BusSignal have something to *)
(* do.                                                                     *)
LEMMA OffStep ==
  ASSUME TypeOK, SupplyInv, InitInv, NetifInv, OffInv, [Next]_vars
  PROVE  OffInv'
<1> USE DEF fields, pins, locals, callers, clocks, SetBusPower, SleepFor, Heading,
            Switching, Returns, Running
<1> USE DEF OffInv, First, Halfway, SupplyInv, InitInv, NetifInv, TypeOK
<1>1. CASE BusKept
  BY <1>1 DEF BusKept
<1>2. CASE BusRise
  BY <1>2 DEF BusRise
<1>3. CASE BusClose
  BY <1>3 DEF BusClose
<1>4. CASE BusFall
  BY <1>4 DEF BusFall
<1>5. CASE BusDrain
  BY <1>5 DEF BusDrain
<1>6. CASE BusSignal
  BY <1>6 DEF BusSignal
<1>7. CASE BusNetif
  BY <1>7 DEF BusNetif
<1>8. CASE BusPort2
  BY <1>8 DEF BusPort2
<1>9. CASE Update
  BY <1>9 DEF Update
<1>10. CASE InitPowerOn
  BY <1>10 DEF InitPowerOn
<1>11. CASE InitDelay
  BY <1>11 DEF InitDelay
<1>12. CASE InitElapsed
  BY <1>12 DEF InitElapsed, CheckTimebase
<1>13. CASE InitDone
  BY <1>13 DEF InitDone
<1>14. CASE SampleEarly
  BY <1>14 DEF SampleEarly
<1>15. CASE SampleOver
  BY <1>15 DEF SampleOver
<1>16. CASE SampleAdvance
  BY <1>16 DEF SampleAdvance
<1>17. CASE SampleAggregate
  BY <1>17 DEF SampleAggregate
<1>18. CASE SampleOn
  BY <1>18 DEF SampleOn
<1>19. CASE SubsampleEarly
  BY <1>19 DEF SubsampleEarly, InSubsampling
<1>20. CASE SubsampleOff
  BY <1>20 DEF SubsampleOff, InSubsampling
<1>21. CASE SubsampleOn
  BY <1>21 DEF SubsampleOn, InSubsampling
<1>22. CASE IdleDisabled
  BY <1>22 DEF IdleDisabled
<1>23. CASE IdleNoTimebase
  BY <1>23 DEF IdleNoTimebase
<1>24. CASE IdleOvertaken
  BY <1>24 DEF IdleOvertaken
<1>25. CASE IdleAlign
  BY <1>25 DEF IdleAlign, CheckTimebase
<1>26. CASE IdleCheck
  BY <1>26 DEF IdleCheck, CheckTimebase
<1>27. CASE Sleep
  BY <1>27 DEF Sleep
<1>28. CASE Wake
  BY <1>28 DEF Wake
<1>29. CASE TakeAggregation
  BY <1>29 DEF TakeAggregation
<1>30. CASE Tick
  BY <1>30 DEF Tick
<1>31. ASSUME NEW c \in Callers, NEW e \in BOOLEAN, EnableFlag(c, e) PROVE OffInv'
  BY <1>31 DEF EnableFlag
<1>32. ASSUME NEW c \in Callers, EnableAlign(c) PROVE OffInv'
  BY <1>32 DEF EnableAlign
<1>33. ASSUME NEW c \in Callers, EnableNotify(c) PROVE OffInv'
  BY <1>33 DEF EnableNotify
<1>34. ASSUME NEW e \in BOOLEAN, SubsampleEnable(e) PROVE OffInv'
  BY <1>34 DEF SubsampleEnable
<1>35. ASSUME NEW o \in RtcOffsets, SetRtc(o) PROVE OffInv'
  BY <1>35 DEF SetRtc
<1>36. CASE UNCHANGED vars
  BY <1>36 DEF vars
<1> HIDE DEF OffInv
<1> QED
  BY <1>1, <1>2, <1>3, <1>4, <1>5, <1>6, <1>7, <1>8, <1>9, <1>10, <1>11,
     <1>12, <1>13, <1>14, <1>15, <1>16, <1>17, <1>18, <1>19, <1>20, <1>21,
     <1>22, <1>23, <1>24, <1>25, <1>26, <1>27, <1>28, <1>29, <1>30, <1>31,
     <1>32, <1>33, <1>34, <1>35, <1>36
  DEF Next, Task, Call

(* The timebase, step by step: CheckTimebase() sets it, nothing clears it. *)
LEMMA TimebaseStep ==
  ASSUME TypeOK, InitInv, TimebaseInv, [Next]_vars
  PROVE  TimebaseInv'
<1> USE DEF fields, pins, locals, callers, clocks, SetBusPower, SleepFor, Heading,
            Switching, Returns
<1> USE DEF TimebaseInv, InitInv, Running
<1>1. CASE BusKept
  BY <1>1 DEF BusKept
<1>2. CASE BusRise
  BY <1>2 DEF BusRise
<1>3. CASE BusClose
  BY <1>3 DEF BusClose
<1>4. CASE BusFall
  BY <1>4 DEF BusFall
<1>5. CASE BusDrain
  BY <1>5 DEF BusDrain
<1>6. CASE BusSignal
  BY <1>6 DEF BusSignal
<1>7. CASE BusNetif
  BY <1>7 DEF BusNetif
<1>8. CASE BusPort2
  BY <1>8 DEF BusPort2
<1>9. CASE Update
  BY <1>9 DEF Update
<1>10. CASE InitPowerOn
  BY <1>10 DEF InitPowerOn
<1>11. CASE InitDelay
  BY <1>11 DEF InitDelay
<1>12. CASE InitElapsed
  BY <1>12 DEF InitElapsed, CheckTimebase, TypeOK
<1>13. CASE InitDone
  BY <1>13 DEF InitDone
<1>14. CASE SampleEarly
  BY <1>14 DEF SampleEarly
<1>15. CASE SampleOver
  BY <1>15 DEF SampleOver
<1>16. CASE SampleAdvance
  BY <1>16 DEF SampleAdvance
<1>17. CASE SampleAggregate
  BY <1>17 DEF SampleAggregate
<1>18. CASE SampleOn
  BY <1>18 DEF SampleOn
<1>19. CASE SubsampleEarly
  BY <1>19 DEF SubsampleEarly, InSubsampling
<1>20. CASE SubsampleOff
  BY <1>20 DEF SubsampleOff, InSubsampling
<1>21. CASE SubsampleOn
  BY <1>21 DEF SubsampleOn, InSubsampling
<1>22. CASE IdleDisabled
  BY <1>22 DEF IdleDisabled
<1>23. CASE IdleNoTimebase
  BY <1>23 DEF IdleNoTimebase
<1>24. CASE IdleOvertaken
  BY <1>24 DEF IdleOvertaken
<1>25. CASE IdleAlign
  BY <1>25 DEF IdleAlign, CheckTimebase
<1>26. CASE IdleCheck
  BY <1>26 DEF IdleCheck, CheckTimebase
<1>27. CASE Sleep
  BY <1>27 DEF Sleep
<1>28. CASE Wake
  BY <1>28 DEF Wake
<1>29. CASE TakeAggregation
  BY <1>29 DEF TakeAggregation
<1>30. CASE Tick
  BY <1>30 DEF Tick
<1>31. ASSUME NEW c \in Callers, NEW e \in BOOLEAN, EnableFlag(c, e) PROVE TimebaseInv'
  BY <1>31 DEF EnableFlag
<1>32. ASSUME NEW c \in Callers, EnableAlign(c) PROVE TimebaseInv'
  BY <1>32 DEF EnableAlign
<1>33. ASSUME NEW c \in Callers, EnableNotify(c) PROVE TimebaseInv'
  BY <1>33 DEF EnableNotify
<1>34. ASSUME NEW e \in BOOLEAN, SubsampleEnable(e) PROVE TimebaseInv'
  BY <1>34 DEF SubsampleEnable
<1>35. ASSUME NEW o \in RtcOffsets, SetRtc(o) PROVE TimebaseInv'
  BY <1>35 DEF SetRtc
<1>36. CASE UNCHANGED vars
  BY <1>36 DEF vars
<1> HIDE DEF TimebaseInv
<1> QED
  BY <1>1, <1>2, <1>3, <1>4, <1>5, <1>6, <1>7, <1>8, <1>9, <1>10, <1>11,
     <1>12, <1>13, <1>14, <1>15, <1>16, <1>17, <1>18, <1>19, <1>20, <1>21,
     <1>22, <1>23, <1>24, <1>25, <1>26, <1>27, <1>28, <1>29, <1>30, <1>31,
     <1>32, <1>33, <1>34, <1>35, <1>36
  DEF Next, Task, Call

(* The enabled controller, step by step: a call of powerControlEnable() is *)
(* pending until the task has been notified.                               *)
LEMMA EnabledStep ==
  ASSUME TypeOK, SupplyInv, InitInv, NetifInv, TimebaseInv, EnabledInv, [Next]_vars
  PROVE  EnabledInv'
<1> USE DEF fields, pins, locals, callers, clocks, SetBusPower, SleepFor, Heading,
            Switching, Returns
<1> USE DEF EnabledInv, TimebaseInv, InitInv, Running, SupplyInv, NetifInv, Halfway,
            Pending
<1>1. CASE BusKept
  BY <1>1 DEF BusKept
<1>2. CASE BusRise
  BY <1>2 DEF BusRise
<1>3. CASE BusClose
  BY <1>3 DEF BusClose
<1>4. CASE BusFall
  BY <1>4 DEF BusFall
<1>5. CASE BusDrain
  BY <1>5 DEF BusDrain
<1>6. CASE BusSignal
  BY <1>6 DEF BusSignal
<1>7. CASE BusNetif
  BY <1>7 DEF BusNetif
<1>8. CASE BusPort2
  BY <1>8 DEF BusPort2
<1>9. CASE Update
  BY <1>9 DEF Update
<1>10. CASE InitPowerOn
  BY <1>10 DEF InitPowerOn
<1>11. CASE InitDelay
  BY <1>11 DEF InitDelay
<1>12. CASE InitElapsed
  BY <1>12 DEF InitElapsed, CheckTimebase
<1>13. CASE InitDone
  <2>1. timebaseSet' = timebaseSet /\ pc = "initDone" /\ pc' = "wait"
    BY <1>13 DEF InitDone
  <2>2. ~timebaseSet => ticks' >= wakeAt'
    BY <1>13 DEF InitDone, TypeOK
  <2>3. ticks' \in Nat /\ wakeAt' \in Nat
    BY <1>13 DEF InitDone, TypeOK
  <2> QED
    BY <2>1, <2>2, <2>3
<1>14. CASE SampleEarly
  BY <1>14 DEF SampleEarly
<1>15. CASE SampleOver
  BY <1>15 DEF SampleOver
<1>16. CASE SampleAdvance
  BY <1>16 DEF SampleAdvance
<1>17. CASE SampleAggregate
  BY <1>17 DEF SampleAggregate
<1>18. CASE SampleOn
  BY <1>18 DEF SampleOn
<1>19. CASE SubsampleEarly
  BY <1>19 DEF SubsampleEarly, InSubsampling
<1>20. CASE SubsampleOff
  BY <1>20 DEF SubsampleOff, InSubsampling
<1>21. CASE SubsampleOn
  BY <1>21 DEF SubsampleOn, InSubsampling
<1>22. CASE IdleDisabled
  BY <1>22 DEF IdleDisabled
<1>23. CASE IdleNoTimebase
  BY <1>23 DEF IdleNoTimebase
<1>24. CASE IdleOvertaken
  BY <1>24 DEF IdleOvertaken
<1>25. CASE IdleAlign
  BY <1>25 DEF IdleAlign, CheckTimebase
<1>26. CASE IdleCheck
  BY <1>26 DEF IdleCheck, CheckTimebase
<1>27. CASE Sleep
  BY <1>27 DEF Sleep
<1>28. CASE Wake
  BY <1>28 DEF Wake
<1>29. CASE TakeAggregation
  BY <1>29 DEF TakeAggregation
<1>30. CASE Tick
  BY <1>30 DEF Tick, TypeOK
<1>31. ASSUME NEW c \in Callers, NEW e \in BOOLEAN, EnableFlag(c, e) PROVE EnabledInv'
  <2>1. caller'[c] # "idle"
    BY <1>31 DEF EnableFlag, TypeOK
  <2> QED
    BY <2>1
<1>32. ASSUME NEW c \in Callers, EnableAlign(c) PROVE EnabledInv'
  BY <1>32 DEF EnableAlign
<1>33. ASSUME NEW c \in Callers, EnableNotify(c) PROVE EnabledInv'
  BY <1>33 DEF EnableNotify
<1>34. ASSUME NEW e \in BOOLEAN, SubsampleEnable(e) PROVE EnabledInv'
  BY <1>34 DEF SubsampleEnable
<1>35. ASSUME NEW o \in RtcOffsets, SetRtc(o) PROVE EnabledInv'
  BY <1>35 DEF SetRtc
<1>36. CASE UNCHANGED vars
  BY <1>36 DEF vars
<1> HIDE DEF EnabledInv
<1> QED
  BY <1>1, <1>2, <1>3, <1>4, <1>5, <1>6, <1>7, <1>8, <1>9, <1>10, <1>11,
     <1>12, <1>13, <1>14, <1>15, <1>16, <1>17, <1>18, <1>19, <1>20, <1>21,
     <1>22, <1>23, <1>24, <1>25, <1>26, <1>27, <1>28, <1>29, <1>30, <1>31,
     <1>32, <1>33, <1>34, <1>35, <1>36
  DEF Next, Task, Call

(* The next start is not in the past. *)
LEMMA NextIsNotPast ==
  ASSUME TypeOK
  PROVE  /\ Now \in Nat
         /\ \A n \in Nat : NextStart(n) \in Nat /\ NextStart(n) >= n
<1>1. Now \in Nat
  BY NowIsTime
<1>2. \A n \in Nat : NextStart(n) \in Nat /\ NextStart(n) >= n
  BY NextStartAligned DEF TypeOK, NextStart, Config
<1> QED
  BY <1>1, <1>2

(* The windows, step by step. *)
LEMMA WindowStep ==
  ASSUME TypeOK, SupplyInv, InitInv, NetifInv, TimebaseInv, EnabledInv, WindowInv,
         [Next]_vars
  PROVE  WindowInv'
<1> USE DEF fields, pins, locals, callers, clocks, SetBusPower, SleepFor, Heading,
            Switching, Returns
<1> USE DEF WindowInv, Steady, TimebaseInv, EnabledInv, InitInv, Running, SupplyInv,
            NetifInv, Halfway, Pending
<1>a. Now \in Nat /\ \A n \in Nat : NextStart(n) \in Nat /\ NextStart(n) >= n
  BY NextIsNotPast
<1>b. SampleRemaining \in Nat /\ IDLE_S \in Nat
  BY RemainingIsTime, BridgePowerAssumption
<1>c. /\ sampleStart \in Nat /\ sleepS \in Nat /\ wakeAt \in Nat /\ ticks \in Nat
      /\ cycle \in Nat /\ jumps \in Nat /\ toggles \in Nat
  BY DEF TypeOK
<1>1. CASE BusKept
  BY <1>1 DEF BusKept, Now
<1>2. CASE BusRise
  BY <1>2 DEF BusRise, Now
<1>3. CASE BusClose
  BY <1>3 DEF BusClose, Now
<1>4. CASE BusFall
  BY <1>4 DEF BusFall, Now
<1>5. CASE BusDrain
  BY <1>5 DEF BusDrain, Now
<1>6. CASE BusSignal
  BY <1>6 DEF BusSignal, Now
<1>7. CASE BusNetif
  BY <1>7 DEF BusNetif, Now
<1>8. CASE BusPort2
  BY <1>8 DEF BusPort2, Now
<1>9. CASE Update
  BY <1>9 DEF Update, Now
<1>10. CASE InitPowerOn
  BY <1>10 DEF InitPowerOn, Now
<1>11. CASE InitDelay
  BY <1>11 DEF InitDelay, Now
<1>12. CASE InitElapsed
  <2>1. Now' = Now /\ pc = "initSleep" /\ ~timebaseSet
    BY <1>12 DEF InitElapsed, CheckTimebase, Now
  <2>2. timebaseSet' => sampleStart' = NextStart(Now)
    BY <1>12, <2>1 DEF InitElapsed, CheckTimebase
  <2>3. /\ pc' = "initDone" \/ (pc' = "bus" /\ after' = "initDone")
        /\ sleepS' = 0 \/ sleepS' = sampleStart' - Now
    BY <1>12 DEF InitElapsed
  <2> QED
    BY <1>a, <1>b, <2>1, <2>2, <2>3
<1>13. CASE InitDone
  BY <1>13, <1>a, <1>b, <1>c DEF InitDone, Now
<1>14. CASE SampleEarly
  BY <1>14, <1>a, <1>b, <1>c DEF SampleEarly, Now
<1>15. CASE SampleOver
  BY <1>15, <1>a, <1>b, <1>c DEF SampleOver, Now
<1>16. CASE SampleAdvance
  BY <1>16, <1>a, <1>b, <1>c DEF SampleAdvance, Now
<1>17. CASE SampleAggregate
  BY <1>17, <1>a, <1>b, <1>c DEF SampleAggregate, Now
<1>18. CASE SampleOn
  BY <1>18, <1>a, <1>b, <1>c DEF SampleOn, Now
<1>19. CASE SubsampleEarly
  BY <1>19, <1>a, <1>b, <1>c DEF SubsampleEarly, InSubsampling, Now
<1>20. CASE SubsampleOff
  BY <1>20 DEF SubsampleOff, InSubsampling, Now
<1>21. CASE SubsampleOn
  BY <1>21 DEF SubsampleOn, InSubsampling, Now
<1>22. CASE IdleDisabled
  BY <1>22 DEF IdleDisabled, Now
<1>23. CASE IdleNoTimebase
  BY <1>23 DEF IdleNoTimebase, Now
<1>24. CASE IdleOvertaken
  BY <1>24 DEF IdleOvertaken, Now
<1>25. CASE IdleAlign
  <2>1. Now' = Now /\ pc = "idleAlign" /\ ~timebaseSet /\ sleepS = IDLE_S
    BY <1>25 DEF IdleAlign, CheckTimebase, Now
  <2>2. timebaseSet' => sampleStart' = NextStart(Now)
    BY <1>25, <2>1 DEF IdleAlign, CheckTimebase
  <2>3. pc' = "idleCheck" /\ (sleepS' = IDLE_S \/ sleepS' = sampleStart' - Now)
    BY <1>25, <2>1 DEF IdleAlign
  <2> QED
    BY <1>a, <1>b, <2>1, <2>2, <2>3
<1>26. CASE IdleCheck
  <2>1. Now' = Now /\ pc = "idleCheck" /\ pc' = "wait"
    BY <1>26 DEF IdleCheck, CheckTimebase, Now
  <2>2. /\ ticks' = ticks /\ wakeAt' = ticks + sleepS
        /\ UNCHANGED <<enabled, subsampling, jumps, toggles, notified, caller>>
    BY <1>26 DEF IdleCheck
  <2>3. CASE timebaseSet
    BY <1>26, <1>a, <1>b, <1>c, <2>1, <2>2, <2>3 DEF IdleCheck, CheckTimebase
  <2>4. CASE ~timebaseSet
    <3>1. timebaseSet' => sampleStart' = NextStart(Now)
      BY <1>26, <2>4 DEF IdleCheck, CheckTimebase
    <3>2. sleepS = IDLE_S
      BY <2>1, <2>4
    <3> QED
      BY <1>a, <1>b, <1>c, <2>1, <2>2, <3>1, <3>2
  <2> QED
    BY <2>3, <2>4
<1>27. CASE Sleep
  BY <1>27, <1>a, <1>b, <1>c DEF Sleep, Now
<1>28. CASE Wake
  BY <1>28, <1>a, <1>b, <1>c DEF Wake, Now
<1>29. CASE TakeAggregation
  BY <1>29 DEF TakeAggregation, Now
<1>30. CASE Tick
  <2>1. Now' = Now + 1
    BY <1>30, <1>c DEF Tick, Now, TypeOK
  <2> QED
    BY <1>30, <1>a, <1>b, <1>c, <2>1 DEF Tick, Asleep
<1>31. ASSUME NEW c \in Callers, NEW e \in BOOLEAN, EnableFlag(c, e) PROVE WindowInv'
  <2>1. caller'[c] # "idle"
    BY <1>31 DEF EnableFlag, TypeOK
  <2> QED
    BY <2>1
<1>32. ASSUME NEW c \in Callers, EnableAlign(c) PROVE WindowInv'
  BY <1>32 DEF EnableAlign, Now
<1>33. ASSUME NEW c \in Callers, EnableNotify(c) PROVE WindowInv'
  BY <1>33 DEF EnableNotify, Now
<1>34. ASSUME NEW e \in BOOLEAN, SubsampleEnable(e) PROVE WindowInv'
  BY <1>34, <1>a, <1>b, <1>c DEF SubsampleEnable, Now
<1>35. ASSUME NEW o \in RtcOffsets, SetRtc(o) PROVE WindowInv'
  BY <1>35, <1>a, <1>b, <1>c DEF SetRtc, Now
<1>36. CASE UNCHANGED vars
  BY <1>36 DEF vars, Now
<1> HIDE DEF WindowInv
<1> QED
  BY <1>1, <1>2, <1>3, <1>4, <1>5, <1>6, <1>7, <1>8, <1>9, <1>10, <1>11,
     <1>12, <1>13, <1>14, <1>15, <1>16, <1>17, <1>18, <1>19, <1>20, <1>21,
     <1>22, <1>23, <1>24, <1>25, <1>26, <1>27, <1>28, <1>29, <1>30, <1>31,
     <1>32, <1>33, <1>34, <1>35, <1>36
  DEF Next, Task, Call

-----------------------------------------------------------------------------
(* A product grows with its factor. *)
LEMMA Multiples ==
  ASSUME NEW s \in Seconds, NEW a \in Nat, NEW b \in Nat, a <= b
  PROVE  /\ s * a \in Nat /\ s * b \in Nat
         /\ s * a <= s * b
         /\ s * (a + 1) = s * a + s
<1>1. PICK k \in Nat : b = a + k
  <2>1. b - a \in Nat /\ b = a + (b - a)
    OBVIOUS
  <2> QED
    BY <2>1
<1>2. s * b = s * a + s * k /\ s * k \in Nat /\ s * a \in Nat /\ s * b \in Nat
  BY <1>1 DEF Seconds
<1>3. s * (a + 1) = s * a + s
  BY DEF Seconds
<1> QED
  BY <1>2, <1>3

(* The remainder of a number between two multiples. *)
LEMMA Remainder ==
  ASSUME NEW s \in Seconds, NEW m \in Nat, NEW r \in 0..(s - 1)
  PROVE  (s * m + r) % s = r
<1> DEFINE x == s * m + r
           q == x \div s
           e == x % s
<1>1. s \in Nat /\ s * m \in Nat /\ x \in Nat
  BY Multiples DEF Seconds
<1>2. q \in Nat /\ x = s * q + e /\ e \in 0..(s - 1)
  BY <1>1, DivMod
<1>3. x = s * m + r
  OBVIOUS
<1> SUFFICES e = r
  OBVIOUS
<1> HIDE DEF x, q, e
<1>4. CASE m = q
  <2>1. s * q = s * m
    BY <1>4
  <2> QED
    BY <1>1, <1>2, <1>3, <2>1
<1>5. CASE m < q
  <2>1. s * m + s <= s * q
    <3>1. m + 1 <= q /\ m + 1 \in Nat
      BY <1>2, <1>5
    <3>2. s * (m + 1) <= s * q /\ s * (m + 1) = s * m + s
      BY <1>2, <3>1, Multiples
    <3> QED
      BY <3>2
  <2>2. s * q \in Nat
    BY <1>2, Multiples
  <2> QED
    BY <1>1, <1>2, <1>3, <2>1, <2>2
<1>6. CASE m > q
  <2>1. s * q + s <= s * m
    <3>1. q + 1 <= m /\ q + 1 \in Nat
      BY <1>2, <1>6
    <3>2. s * (q + 1) <= s * m /\ s * (q + 1) = s * q + s
      BY <1>2, <3>1, Multiples
    <3> QED
      BY <3>2
  <2>2. s * q \in Nat
    BY <1>2, Multiples
  <2> QED
    BY <1>1, <1>2, <1>3, <2>1, <2>2
<1> QED
  BY <1>2, <1>4, <1>5, <1>6

(* The last of the subsamples that start within a window ends within it.   *)
LEMMA LastFits ==
  ASSUME NEW s \in Seconds, NEW d \in Nat, NEW on \in Nat, NEW m \in Nat,
         on <= s, s * m < d, d % s = 0 \/ d % s >= on
  PROVE  s * m + on <= d
<1> DEFINE q == d \div s
           e == d % s
<1>1. q \in Nat /\ d = s * q + e /\ e \in 0..(s - 1)
  BY DivMod
<1>2. s \in Nat /\ s * m \in Nat /\ s * q \in Nat /\ (e = 0 \/ e >= on)
  BY <1>1, Multiples DEF Seconds
<1> HIDE DEF q, e
<1>3. CASE m < q
  <2>1. m + 1 <= q /\ m + 1 \in Nat
    BY <1>1, <1>3
  <2>2. s * (m + 1) <= s * q /\ s * (m + 1) = s * m + s
    BY <1>1, <2>1, Multiples
  <2> QED
    BY <1>1, <1>2, <2>2
<1>4. CASE m = q
  <2>1. s * q = s * m
    BY <1>4
  <2> QED
    BY <1>1, <1>2, <2>1
<1>5. CASE m > q
  <2>1. q + 1 <= m /\ q + 1 \in Nat
    BY <1>1, <1>5
  <2>2. s * (q + 1) <= s * m /\ s * (q + 1) = s * q + s
    BY <1>1, <2>1, Multiples
  <2> QED
    BY <1>1, <1>2, <2>2
<1> QED
  BY <1>1, <1>3, <1>4, <1>5

(* What the next start is: later than now when there was none yet, and one *)
(* interval on, aligned, when the last one is not longer ago.              *)
LEMMA NextStartFollows ==
  ASSUME NEW now \in Nat, NEW last \in Nat, NEW step \in Seconds, NEW alignment \in Nat
  PROVE  LET next == AlignNextInterval(now, last, step, alignment)
         IN /\ next > 0
            /\ last = 0 => next > now
            /\ last # 0 /\ now <= last + step => next = RoundUp(last + step, alignment)
<1> DEFINE base == LastStart(now, last, step) + step
           first == FirstNotPast(base, now, step)
<1>1. base \in Nat /\ base > 0 /\ (last = 0 => base > now) /\ (last # 0 => base = last + step)
  <2>1. CASE last = 0
    <3>1. now % step \in 0..(step - 1) /\ now % step <= now
      <4>1. /\ now \div step \in Nat /\ now = step * (now \div step) + (now % step)
            /\ now % step \in 0..(step - 1)
        BY DivMod
      <4>2. step * (now \div step) \in Nat
        BY <4>1, Multiples
      <4> QED
        BY <4>1, <4>2 DEF Seconds
    <3> QED
      BY <2>1, <3>1 DEF LastStart, Seconds
  <2>2. CASE last # 0
    BY <2>2 DEF LastStart, Seconds
  <2> QED
    BY <2>1, <2>2
<1> HIDE DEF base
<1>2. first \in Nat /\ first >= now /\ (base >= now => first = base)
  BY <1>1, FirstIsNotPast DEF FirstNotPast
<1>3. first > 0
  BY <1>1, <1>2
<1> HIDE DEF first
<1>4. RoundUp(first, alignment) \in Nat /\ RoundUp(first, alignment) >= first
  BY <1>2, RoundUpAligns
<1>5. AlignNextInterval(now, last, step, alignment) = RoundUp(first, alignment)
  BY DEF AlignNextInterval, first, base
<1> QED
  BY <1>1, <1>2, <1>3, <1>4, <1>5

-----------------------------------------------------------------------------
(* A valid configuration, which stays.                                     *)
ConfInv ==
  /\ conf.sampleDurationS <= conf.sampleIntervalS
  /\ conf.subsampleDurationS <= conf.subsampleIntervalS
  /\ toggles = 0 => subsampling = conf.subsampling

(* validateConfig() makes the configuration valid. *)
LEMMA ConfInit == Init => ConfInv
<1> SUFFICES ASSUME Init PROVE ConfInv
  OBVIOUS
<1>1. PICK c \in RawConfigs : conf = ValidateConfig(c)
  BY DEF Init
<1>2. c \in RawConfig
  BY BridgePowerAssumption
<1> QED
  BY <1>1, <1>2, ValidConfig DEF Init, ConfInv

(* Nobody writes the configuration, and only subsampleEnable() the flag.   *)
LEMMA ConfSteps ==
  ASSUME [Next]_vars
  PROVE  /\ conf' = conf
         /\ \/ UNCHANGED <<subsampling, toggles>>
            \/ \E e \in BOOLEAN : SubsampleEnable(e)
<1> USE DEF fields, callers
<1>1. CASE Task
  BY <1>1 DEF Task, BusKept, BusRise, BusClose, BusFall, BusDrain, BusSignal, BusNetif,
              BusPort2, Update, InitPowerOn, InitDelay, InitElapsed, InitDone,
              SampleEarly,
              SampleOver, SampleAdvance, SampleAggregate, SampleOn, SubsampleEarly,
              SubsampleOff, SubsampleOn, IdleDisabled, IdleNoTimebase, IdleOvertaken,
              IdleAlign, IdleCheck, Sleep, Wake
<1>2. CASE \E c \in Callers : Call(c)
  BY <1>2 DEF Call, EnableFlag, EnableAlign, EnableNotify
<1>3. CASE TakeAggregation \/ Tick \/ UNCHANGED vars
  BY <1>3 DEF TakeAggregation, Tick, vars
<1>4. CASE (\E e \in BOOLEAN : SubsampleEnable(e)) \/ (\E o \in RtcOffsets : SetRtc(o))
  BY <1>4 DEF SubsampleEnable, SetRtc
<1> QED
  BY <1>1, <1>2, <1>3, <1>4 DEF Next

(* It stays so. *)
LEMMA ConfStep == TypeOK /\ ConfInv /\ [Next]_vars => ConfInv'
<1> SUFFICES ASSUME TypeOK, ConfInv, [Next]_vars PROVE ConfInv'
  OBVIOUS
<1>1. conf' = conf
  BY ConfSteps
<1>2. CASE UNCHANGED <<subsampling, toggles>>
  BY <1>1, <1>2 DEF ConfInv
<1>3. CASE \E e \in BOOLEAN : SubsampleEnable(e)
  <2>1. toggles' # 0
    BY <1>3 DEF SubsampleEnable, TypeOK
  <2> QED
    BY <1>1, <2>1 DEF ConfInv
<1> QED
  BY <1>2, <1>3, ConfSteps

-----------------------------------------------------------------------------
(* Before the first call of powerControlEnable, only a timebase gives a    *)
(* start.                                                                  *)
AloneInv == calls = 0 => ~Pending /\ (timebaseSet <=> sampleStart # 0)

(* The next start, by the schedule's own start. *)
LEMMA NextStartLater ==
  ASSUME TypeOK
  PROVE  /\ Now \in Nat
         /\ \A n \in Nat :
              /\ NextStart(n) \in Nat /\ NextStart(n) > 0
              /\ sampleStart = 0 => NextStart(n) > n
              /\ sampleStart # 0 /\ n <= sampleStart + conf.sampleIntervalS =>
                   NextStart(n) = RoundUp(sampleStart + conf.sampleIntervalS,
                                          conf.alignmentS)
<1>1. Now \in Nat /\ \A n \in Nat : NextStart(n) \in Nat
  BY NowIsTime
<1>2. /\ sampleStart \in Nat /\ conf.sampleIntervalS \in Seconds
      /\ conf.alignmentS \in Nat
  BY DEF TypeOK, Config
<1> QED
  BY <1>1, <1>2, NextStartFollows DEF NextStart

(* The start, step by step: each one that is stored is not 0. *)
LEMMA AloneStep ==
  ASSUME TypeOK, TimebaseInv, AloneInv, [Next]_vars
  PROVE  AloneInv'
<1> USE DEF fields, pins, locals, callers, clocks, SetBusPower, SleepFor
<1> USE DEF AloneInv, Pending
<1>a. Now \in Nat /\ \A n \in Nat : NextStart(n) \in Nat /\ NextStart(n) > 0
  BY NextStartLater
<1>b. calls \in Nat /\ cycle \in Nat
  BY DEF TypeOK
<1>1. CASE BusKept
  BY <1>1 DEF BusKept
<1>2. CASE BusRise
  BY <1>2 DEF BusRise
<1>3. CASE BusClose
  BY <1>3 DEF BusClose
<1>4. CASE BusFall
  BY <1>4 DEF BusFall
<1>5. CASE BusDrain
  BY <1>5 DEF BusDrain
<1>6. CASE BusSignal
  BY <1>6 DEF BusSignal
<1>7. CASE BusNetif
  BY <1>7 DEF BusNetif
<1>8. CASE BusPort2
  BY <1>8 DEF BusPort2
<1>9. CASE Update
  BY <1>9 DEF Update
<1>10. CASE InitPowerOn
  BY <1>10 DEF InitPowerOn
<1>11. CASE InitDelay
  BY <1>11 DEF InitDelay
<1>12. CASE InitElapsed
  BY <1>12, <1>a, <1>b DEF InitElapsed, CheckTimebase
<1>13. CASE InitDone
  BY <1>13 DEF InitDone
<1>14. CASE SampleEarly
  BY <1>14 DEF SampleEarly
<1>15. CASE SampleOver
  BY <1>15 DEF SampleOver
<1>16. CASE SampleAdvance
  BY <1>16, <1>a, <1>b DEF SampleAdvance, TimebaseInv, Heading, Switching
<1>17. CASE SampleAggregate
  BY <1>17 DEF SampleAggregate
<1>18. CASE SampleOn
  BY <1>18 DEF SampleOn
<1>19. CASE SubsampleEarly
  BY <1>19 DEF SubsampleEarly, InSubsampling
<1>20. CASE SubsampleOff
  BY <1>20 DEF SubsampleOff, InSubsampling
<1>21. CASE SubsampleOn
  BY <1>21 DEF SubsampleOn, InSubsampling
<1>22. CASE IdleDisabled
  BY <1>22 DEF IdleDisabled
<1>23. CASE IdleNoTimebase
  BY <1>23 DEF IdleNoTimebase
<1>24. CASE IdleOvertaken
  BY <1>24 DEF IdleOvertaken
<1>25. CASE IdleAlign
  BY <1>25, <1>a, <1>b DEF IdleAlign, CheckTimebase
<1>26. CASE IdleCheck
  BY <1>26, <1>a, <1>b DEF IdleCheck, CheckTimebase
<1>27. CASE Sleep
  BY <1>27 DEF Sleep
<1>28. CASE Wake
  BY <1>28 DEF Wake
<1>29. CASE TakeAggregation
  BY <1>29 DEF TakeAggregation
<1>30. CASE Tick
  BY <1>30 DEF Tick
<1>31. ASSUME NEW c \in Callers, NEW e \in BOOLEAN, EnableFlag(c, e) PROVE AloneInv'
  BY <1>31, <1>a, <1>b DEF EnableFlag
<1>32. ASSUME NEW c \in Callers, EnableAlign(c) PROVE AloneInv'
  BY <1>32 DEF EnableAlign
<1>33. ASSUME NEW c \in Callers, EnableNotify(c) PROVE AloneInv'
  BY <1>33 DEF EnableNotify
<1>34. ASSUME NEW e \in BOOLEAN, SubsampleEnable(e) PROVE AloneInv'
  BY <1>34 DEF SubsampleEnable
<1>35. ASSUME NEW o \in RtcOffsets, SetRtc(o) PROVE AloneInv'
  BY <1>35 DEF SetRtc
<1>36. CASE UNCHANGED vars
  BY <1>36 DEF vars
<1> HIDE DEF AloneInv
<1> QED
  BY <1>1, <1>2, <1>3, <1>4, <1>5, <1>6, <1>7, <1>8, <1>9, <1>10, <1>11,
     <1>12, <1>13, <1>14, <1>15, <1>16, <1>17, <1>18, <1>19, <1>20, <1>21,
     <1>22, <1>23, <1>24, <1>25, <1>26, <1>27, <1>28, <1>29, <1>30, <1>31,
     <1>32, <1>33, <1>34, <1>35, <1>36
  DEF Next, Task, Call

-----------------------------------------------------------------------------
(* The controller left alone: no calls, a steady clock, a timebase.        *)
Alone == calls = 0 /\ jumps = 0 /\ toggles = 0 /\ timebaseSet /\ enabled

(* A step that finds the timebase gives the first start, in the future. *)
FindsTimebase ==
  /\ InitElapsed \/ IdleAlign \/ IdleCheck
  /\ ~timebaseSet /\ Now' = Now /\ NextStart(Now) > Now
  /\ sampleStart' = NextStart(Now) /\ subStart' = sampleStart'

(* The steps that can make the schedule of a controller left alone, and    *)
(* what the clock does meanwhile.                                          *)
LeftAlone ==
  Alone' =>
    /\ UNCHANGED <<conf, subsampling, enabled>> /\ (timebaseSet => Alone)
    /\ Now' = Now \/ (Tick /\ Now' = Now + 1)
    /\ \/ UNCHANGED <<sampleStart, subStart, timebaseSet>>
       \/ timebaseSet /\ (SampleAdvance \/ SubsampleOff)
       \/ FindsTimebase

(* Left alone, the start moves only when an interval is over, or found. *)
LEMMA ScheduleSteps ==
  ASSUME TypeOK, TimebaseInv, AloneInv, [Next]_vars
  PROVE  LeftAlone
<1> USE DEF fields, pins, locals, callers, clocks, SetBusPower, SleepFor
<1> USE DEF LeftAlone, Alone, Now
<1>a. Now \in Nat /\ (sampleStart = 0 => NextStart(Now) > Now)
  BY NextStartLater
<1>b. calls \in Nat /\ jumps \in Nat /\ toggles \in Nat
  BY DEF TypeOK
<1>c. calls = 0 => ~Pending /\ (~timebaseSet => sampleStart = 0)
  BY DEF AloneInv
<1>d. /\ timebaseSet => conf.ticksSampling \/ rtcSet
      /\ Heading = "advance" => timebaseSet
      /\ Heading = "sample" => timebaseSet
  BY DEF TimebaseInv
<1>e. ticks \in Nat /\ rtcOffset \in Nat
  BY DEF TypeOK
<1>1. CASE BusKept
  BY <1>1 DEF BusKept
<1>2. CASE BusRise
  BY <1>2 DEF BusRise
<1>3. CASE BusClose
  BY <1>3 DEF BusClose
<1>4. CASE BusFall
  BY <1>4 DEF BusFall
<1>5. CASE BusDrain
  BY <1>5 DEF BusDrain
<1>6. CASE BusSignal
  BY <1>6 DEF BusSignal
<1>7. CASE BusNetif
  BY <1>7 DEF BusNetif
<1>8. CASE BusPort2
  BY <1>8 DEF BusPort2
<1>9. CASE Update
  BY <1>9 DEF Update
<1>10. CASE InitPowerOn
  BY <1>10 DEF InitPowerOn
<1>11. CASE InitDelay
  BY <1>11 DEF InitDelay
<1>12. CASE InitElapsed
  BY <1>12, <1>a, <1>b, <1>c, <1>d DEF InitElapsed, CheckTimebase, FindsTimebase
<1>13. CASE InitDone
  BY <1>13 DEF InitDone
<1>14. CASE SampleEarly
  BY <1>14 DEF SampleEarly
<1>15. CASE SampleOver
  BY <1>15 DEF SampleOver
<1>16. CASE SampleAdvance
  BY <1>16, <1>d DEF SampleAdvance, Heading, Switching
<1>17. CASE SampleAggregate
  BY <1>17 DEF SampleAggregate
<1>18. CASE SampleOn
  BY <1>18 DEF SampleOn
<1>19. CASE SubsampleEarly
  BY <1>19 DEF SubsampleEarly, InSubsampling
<1>20. CASE SubsampleOff
  BY <1>20, <1>d DEF SubsampleOff, InSubsampling, Heading, Switching
<1>21. CASE SubsampleOn
  BY <1>21 DEF SubsampleOn, InSubsampling
<1>22. CASE IdleDisabled
  BY <1>22 DEF IdleDisabled
<1>23. CASE IdleNoTimebase
  BY <1>23 DEF IdleNoTimebase
<1>24. CASE IdleOvertaken
  BY <1>24 DEF IdleOvertaken
<1>25. CASE IdleAlign
  BY <1>25, <1>a, <1>b, <1>c, <1>d DEF IdleAlign, CheckTimebase, FindsTimebase
<1>26. CASE IdleCheck
  BY <1>26, <1>a, <1>b, <1>c, <1>d DEF IdleCheck, CheckTimebase, FindsTimebase
<1>27. CASE Sleep
  BY <1>27 DEF Sleep
<1>28. CASE Wake
  BY <1>28 DEF Wake
<1>29. CASE TakeAggregation
  BY <1>29 DEF TakeAggregation
<1>30. CASE Tick
  BY <1>30, <1>e DEF Tick
<1>31. ASSUME NEW c \in Callers, NEW e \in BOOLEAN, EnableFlag(c, e) PROVE LeftAlone
  BY <1>31, <1>b, <1>c, <1>d DEF EnableFlag
<1>32. ASSUME NEW c \in Callers, EnableAlign(c) PROVE LeftAlone
  BY <1>32, <1>b, <1>c, <1>d DEF EnableAlign, Pending
<1>33. ASSUME NEW c \in Callers, EnableNotify(c) PROVE LeftAlone
  BY <1>33, <1>b, <1>c, <1>d DEF EnableNotify, Pending
<1>34. ASSUME NEW e \in BOOLEAN, SubsampleEnable(e) PROVE LeftAlone
  BY <1>34, <1>b, <1>c, <1>d DEF SubsampleEnable
<1>35. ASSUME NEW o \in RtcOffsets, SetRtc(o) PROVE LeftAlone
  BY <1>35, <1>b, <1>c, <1>d DEF SetRtc
<1>36. CASE UNCHANGED vars
  BY <1>36 DEF vars
<1> HIDE DEF LeftAlone
<1> QED
  BY <1>1, <1>2, <1>3, <1>4, <1>5, <1>6, <1>7, <1>8, <1>9, <1>10, <1>11,
     <1>12, <1>13, <1>14, <1>15, <1>16, <1>17, <1>18, <1>19, <1>20, <1>21,
     <1>22, <1>23, <1>24, <1>25, <1>26, <1>27, <1>28, <1>29, <1>30, <1>31,
     <1>32, <1>33, <1>34, <1>35, <1>36
  DEF Next, Task, Call

-----------------------------------------------------------------------------
(* The subsamples of a window start at multiples of their interval, and the *)
(* one before the next has had its time.                                   *)
SubInv ==
  Alone /\ subsampling =>
    \E m \in Nat :
      /\ subStart = sampleStart + conf.subsampleIntervalS * m
      /\ m = 0 \/ Now + conf.subsampleIntervalS >= subStart + conf.subsampleDurationS

(* The subsamples, step by step. *)
LEMMA SubStep ==
  ASSUME TypeOK, TimebaseInv, AloneInv, SubInv, [Next]_vars
  PROVE  SubInv'
<1> SUFFICES ASSUME Alone', subsampling'
             PROVE  SubInv'
  BY DEF SubInv
<1>1. LeftAlone
  BY ScheduleSteps
<1>2. /\ Now \in Nat /\ sampleStart \in Nat /\ subStart \in Nat
      /\ conf.subsampleIntervalS \in Seconds /\ conf.subsampleDurationS \in Seconds
      /\ cycle \in Nat
      /\ \A n \in Nat : NextStart(n) \in Nat
  BY NowIsTime DEF TypeOK, Config
<1>3. conf' = conf /\ subsampling' = subsampling /\ (Now' = Now \/ Now' = Now + 1)
  BY <1>1 DEF LeftAlone
<1>4. ASSUME sampleStart' \in Nat, subStart' = sampleStart'
      PROVE  SubInv'
  <2>1. subStart' = sampleStart' + conf.subsampleIntervalS * 0
    BY <1>2, <1>4 DEF Seconds
  <2> QED
    BY <1>3, <2>1 DEF SubInv
<1>5. CASE FindsTimebase
  BY <1>2, <1>4, <1>5 DEF FindsTimebase
<1>6. CASE SampleAdvance
  BY <1>2, <1>4, <1>6 DEF SampleAdvance
<1>7. CASE timebaseSet /\ UNCHANGED <<sampleStart, subStart>>
  <2>1. PICK m \in Nat :
          /\ subStart = sampleStart + conf.subsampleIntervalS * m
          /\ m = 0 \/ Now + conf.subsampleIntervalS >= subStart + conf.subsampleDurationS
    BY <1>1, <1>3, <1>7 DEF LeftAlone, SubInv
  <2>2. m = 0 \/ Now' + conf.subsampleIntervalS >= subStart + conf.subsampleDurationS
    BY <1>2, <1>3, <2>1 DEF Seconds
  <2> QED
    BY <1>3, <1>7, <2>1, <2>2 DEF SubInv
<1>8. CASE timebaseSet /\ SubsampleOff
  <2>1. PICK m \in Nat : subStart = sampleStart + conf.subsampleIntervalS * m
    BY <1>1, <1>3, <1>8 DEF LeftAlone, SubInv
  <2>2. /\ subStart' = subStart + conf.subsampleIntervalS /\ sampleStart' = sampleStart
        /\ SubsampleRemaining = 0
    BY <1>8 DEF SubsampleOff
  <2>3. conf.subsampleIntervalS * (m + 1) =
          conf.subsampleIntervalS * m + conf.subsampleIntervalS
    BY <1>2, Multiples
  <2>4. subStart' = sampleStart' + conf.subsampleIntervalS * (m + 1)
    <3>1. conf.subsampleIntervalS * m \in Nat
      BY <1>2, Multiples
    <3> QED
      BY <1>2, <2>1, <2>2, <2>3, <3>1 DEF Seconds
  <2>5. Now' + conf.subsampleIntervalS >= subStart' + conf.subsampleDurationS
    BY <1>2, <1>3, <2>2 DEF SubsampleRemaining, TimeRemaining, Seconds
  <2> QED
    BY <1>3, <2>4, <2>5 DEF SubInv
<1>9. timebaseSet \/ FindsTimebase
  BY <1>1 DEF LeftAlone, Alone
<1> QED
  BY <1>1, <1>5, <1>6, <1>7, <1>8, <1>9 DEF LeftAlone

(* Every subsample that starts in a window ends in it.                     *)
Fits(c) ==
  c.subsampling =>
    \/ c.sampleDurationS % c.subsampleIntervalS = 0
    \/ c.sampleDurationS % c.subsampleIntervalS >= c.subsampleDurationS

(* Then a subsample that runs ends in the window. *)
LEMMA SubsampleFits ==
  ASSUME TypeOK, ConfInv, Fits(conf), SubInv, Alone, InSubsampling
  PROVE  /\ subStart >= sampleStart
         /\ subStart <= Now =>
              subStart + conf.subsampleDurationS <= sampleStart + conf.sampleDurationS
<1>1. /\ Now \in Nat /\ sampleStart \in Nat /\ subStart \in Nat
      /\ conf.subsampleIntervalS \in Seconds /\ conf.subsampleDurationS \in Nat
      /\ conf.sampleDurationS \in Nat
  BY NowIsTime DEF TypeOK, Config, Seconds
<1>2. /\ conf.subsampling /\ conf.subsampleDurationS <= conf.subsampleIntervalS
      /\ Now < sampleStart + conf.sampleDurationS
  <2>1. conf.subsampling /\ conf.subsampleDurationS <= conf.subsampleIntervalS
    BY DEF InSubsampling, Alone, ConfInv
  <2>2. SampleRemaining > 0
    BY DEF InSubsampling
  <2> QED
    BY <1>1, <2>1, <2>2 DEF SampleRemaining, TimeRemaining
<1>3. PICK m \in Nat : subStart = sampleStart + conf.subsampleIntervalS * m
  BY DEF SubInv, InSubsampling
<1>4. conf.subsampleIntervalS * m \in Nat
  BY <1>1, Multiples
<1>5. ASSUME subStart <= Now
      PROVE  conf.subsampleIntervalS * m + conf.subsampleDurationS <= conf.sampleDurationS
  <2>1. conf.subsampleIntervalS * m < conf.sampleDurationS
    BY <1>1, <1>2, <1>3, <1>4, <1>5
  <2> QED
    BY <1>1, <1>2, <2>1, LastFits DEF Fits
<1> QED
  BY <1>1, <1>3, <1>4, <1>5

-----------------------------------------------------------------------------
(* A sleep cut to what is left of the window. *)
LEMMA ShorterSleep ==
  ASSUME NEW left \in Nat, NEW start \in Nat, NEW now \in Nat
  PROVE  LET s == Smaller(left, IF start > now THEN start - now ELSE 0)
         IN /\ s \in Nat /\ s <= left
            /\ IF start > now THEN s <= start - now ELSE s = 0
<1>1. CASE start > now
  BY <1>1 DEF Smaller
<1>2. CASE ~(start > now)
  BY <1>2 DEF Smaller
<1> QED
  BY <1>1, <1>2

(* The labels from which the task goes to sleep for sleepS. *)
Sleepers == {"sleep", "aggregate", "idleCheck", "initDone"}

(* A subsample never lasts until the next interval.                        *)
InTime(c) == Fits(c) \/ c.sampleDurationS + c.subsampleDurationS <= c.sampleIntervalS

(* The task is back before the interval is over.                           *)
LateInv ==
  Alone =>
    /\ Now <= sampleStart + conf.sampleIntervalS
    /\ pc = "advance" => cycle = Now /\ sampleStart <= cycle
    /\ Heading \in Sleepers => Now + sleepS <= sampleStart + conf.sampleIntervalS
    /\ pc = "wait" => Now + wakeAt <= sampleStart + conf.sampleIntervalS + ticks

(* Back in time, step by step: each branch sleeps no longer than what is   *)
(* left of the interval.                                                   *)
LEMMA LateStep ==
  ASSUME IDLE_S <= 1, TypeOK, ConfInv, InTime(conf), InitInv, TimebaseInv, EnabledInv,
         AloneInv, SubInv, LateInv, [Next]_vars
  PROVE  LateInv'
<1> USE DEF fields, pins, locals, callers, clocks, SetBusPower, SleepFor, Heading,
            Switching, Returns
<1> USE DEF LateInv, Alone, Sleepers, InitInv, TimebaseInv, Running
<1> SUFFICES ASSUME Alone'
             PROVE  LateInv'
  BY DEF LateInv
<1>c. /\ Now \in Nat /\ sampleStart \in Nat /\ subStart \in Nat /\ cycle \in Nat
      /\ sleepS \in Nat /\ wakeAt \in Nat /\ ticks \in Nat
      /\ conf.sampleIntervalS \in Nat /\ conf.sampleDurationS \in Nat
      /\ conf.subsampleDurationS \in Nat /\ conf.subsampleIntervalS \in Nat
      /\ conf.sampleDurationS <= conf.sampleIntervalS
      /\ SampleRemaining \in Nat /\ SubsampleRemaining \in Nat
      /\ calls \in Nat /\ jumps \in Nat /\ toggles \in Nat
  BY NowIsTime, RemainingIsTime DEF TypeOK, Config, Seconds, ConfInv
<1>d. /\ calls' = 0 /\ timebaseSet' /\ NextStart(Now) \in Nat
      /\ calls = 0 /\ ~timebaseSet => NextStart(Now) > Now
  BY <1>c, NextStartLater DEF Alone, AloneInv
<1>1. CASE BusKept
  BY <1>1 DEF BusKept, Now
<1>2. CASE BusRise
  BY <1>2 DEF BusRise, Now
<1>3. CASE BusClose
  BY <1>3 DEF BusClose, Now
<1>4. CASE BusFall
  BY <1>4 DEF BusFall, Now
<1>5. CASE BusDrain
  BY <1>5 DEF BusDrain, Now
<1>6. CASE BusSignal
  BY <1>6 DEF BusSignal, Now
<1>7. CASE BusNetif
  BY <1>7 DEF BusNetif, Now
<1>8. CASE BusPort2
  BY <1>8 DEF BusPort2, Now
<1>9. CASE Update
  BY <1>9 DEF Update, Now
<1>10. CASE InitPowerOn
  BY <1>10 DEF InitPowerOn, Now
<1>11. CASE InitDelay
  BY <1>11 DEF InitDelay, Now
<1>12. CASE InitElapsed
  <2>1. Now' = Now /\ UNCHANGED conf /\ pc = "initSleep" /\ ~timebaseSet
    BY <1>12 DEF InitElapsed, CheckTimebase, Now
  <2>2. sampleStart' = NextStart(Now) /\ sampleStart' > Now /\ sampleStart' \in Nat
    <3>1. sampleStart' = NextStart(Now) /\ calls = 0
      BY <1>12, <1>d, <2>1 DEF InitElapsed, CheckTimebase
    <3> QED
      BY <1>d, <2>1, <3>1
  <2>3. /\ pc' = "initDone" \/ (pc' = "bus" /\ after' = "initDone")
        /\ sleepS' = 0 \/ sleepS' = sampleStart' - Now
    BY <1>12 DEF InitElapsed
  <2> QED
    BY <1>c, <2>1, <2>2, <2>3
<1>13. CASE InitDone
  BY <1>13, <1>c DEF InitDone, Now
<1>14. CASE SampleEarly
  BY <1>14, <1>c DEF SampleEarly, Now
<1>15. CASE SampleOver
  BY <1>15, <1>c DEF SampleOver, Now
<1>16. CASE SampleAdvance
  <2>1. Now' = Now /\ UNCHANGED conf /\ timebaseSet /\ cycle = Now
    BY <1>16 DEF SampleAdvance, Now
  <2>2. sampleStart' \in Nat /\ sampleStart' >= Now
    BY <1>16, <1>c, <2>1, NextIsNotPast DEF SampleAdvance
  <2>3. sleepS' = 0 \/ sleepS' = sampleStart' - Now
    BY <1>16, <2>1 DEF SampleAdvance
  <2>4. pc' # "advance" /\ pc' # "wait"
    BY <1>16 DEF SampleAdvance
  <2> QED
    BY <1>c, <2>1, <2>2, <2>3, <2>4
<1>17. CASE SampleAggregate
  BY <1>17, <1>c DEF SampleAggregate, Now
<1>18. CASE SampleOn
  <2>1. Now' = Now /\ timebaseSet /\ UNCHANGED sampleStart
    BY <1>18 DEF SampleOn, Now
  <2>2. Now + SampleRemaining <= sampleStart + conf.sampleIntervalS
    BY <1>18, <1>c DEF SampleOn, SampleRemaining, TimeRemaining
  <2>3. sleepS' = SampleRemaining /\ pc' = "bus" /\ after' = "sleep"
    BY <1>18 DEF SampleOn
  <2> QED
    BY <1>18, <1>c, <2>1, <2>2, <2>3 DEF SampleOn
<1>19. CASE SubsampleEarly
  <2>1. Now' = Now /\ timebaseSet /\ UNCHANGED sampleStart
    BY <1>19 DEF SubsampleEarly, InSubsampling, Now
  <2>2. Now + SampleRemaining <= sampleStart + conf.sampleIntervalS
    BY <1>19, <1>c DEF SubsampleEarly, InSubsampling, SampleRemaining, TimeRemaining
  <2> DEFINE s == Smaller(SampleRemaining, subStart - Now)
  <2>3. wakeAt' = ticks + s /\ ticks' = ticks /\ pc' = "wait"
    BY <1>19 DEF SubsampleEarly
  <2>4. s \in Nat /\ s <= SampleRemaining
    BY <1>19, <1>c DEF SubsampleEarly, Smaller
  <2> HIDE DEF s
  <2> QED
    BY <1>19, <1>c, <2>1, <2>2, <2>3, <2>4 DEF SubsampleEarly
<1>20. CASE SubsampleOff
  <2>1. Now' = Now /\ timebaseSet /\ UNCHANGED sampleStart
    BY <1>20 DEF SubsampleOff, InSubsampling, Now
  <2>2. Now + SampleRemaining <= sampleStart + conf.sampleIntervalS
    BY <1>20, <1>c DEF SubsampleOff, InSubsampling, SampleRemaining, TimeRemaining
  <2>3. sleepS' \in Nat /\ sleepS' <= SampleRemaining
    <3>1. subStart' \in Nat
      BY <1>20, <1>c DEF SubsampleOff
    <3>2. sleepS' = Smaller(SampleRemaining,
                            IF subStart' > Now THEN subStart' - Now ELSE 0)
      BY <1>20 DEF SubsampleOff
    <3> QED
      BY <1>c, <3>1, <3>2, ShorterSleep
  <2>4. pc' \in {"sleep", "bus"} /\ (pc' = "bus" => after' = "sleep")
    BY <1>20 DEF SubsampleOff
  <2> QED
    BY <1>20, <1>c, <2>1, <2>2, <2>3, <2>4 DEF SubsampleOff, InSubsampling
<1>21. CASE SubsampleOn
  <2>1. Now' = Now /\ timebaseSet /\ UNCHANGED sampleStart /\ Alone
    BY <1>21 DEF SubsampleOn, InSubsampling, Now
  <2>2. Now + SubsampleRemaining <= sampleStart + conf.sampleIntervalS
    <3>1. Now + SubsampleRemaining = subStart + conf.subsampleDurationS
      BY <1>21, <1>c DEF SubsampleOn, SubsampleRemaining, TimeRemaining
    <3>2. CASE Fits(conf)
      <4>1. subStart + conf.subsampleDurationS <= sampleStart + conf.sampleDurationS
        BY <1>21, <2>1, <3>2, SubsampleFits DEF SubsampleOn
      <4> QED
        BY <1>c, <3>1, <4>1
    <3>3. CASE conf.sampleDurationS + conf.subsampleDurationS <= conf.sampleIntervalS
      <4>1. Now < sampleStart + conf.sampleDurationS /\ subStart <= Now
        BY <1>21, <1>c DEF SubsampleOn, InSubsampling, SampleRemaining, TimeRemaining
      <4> QED
        BY <1>c, <3>1, <3>3, <4>1
    <3> QED
      BY <3>2, <3>3 DEF InTime
  <2>3. sleepS' = SubsampleRemaining /\ pc' = "bus" /\ after' = "sleep"
    BY <1>21 DEF SubsampleOn
  <2> QED
    BY <1>21, <1>c, <2>1, <2>2, <2>3 DEF SubsampleOn, InSubsampling
<1>22. CASE IdleDisabled
  BY <1>22 DEF IdleDisabled, Now
<1>23. CASE IdleNoTimebase
  BY <1>23 DEF IdleNoTimebase, Now
<1>24. CASE IdleOvertaken
  BY <1>24 DEF IdleOvertaken, AloneInv, EnabledInv
<1>25. CASE IdleAlign
  <2>1. Now' = Now /\ UNCHANGED conf /\ pc = "idleAlign" /\ ~timebaseSet
    BY <1>25 DEF IdleAlign, CheckTimebase, Now
  <2>2. sampleStart' = NextStart(Now) /\ sampleStart' > Now /\ sampleStart' \in Nat
    <3>1. sampleStart' = NextStart(Now) /\ calls = 0
      BY <1>25, <1>d, <2>1 DEF IdleAlign, CheckTimebase
    <3> QED
      BY <1>d, <2>1, <3>1
  <2>3. pc' = "idleCheck" /\ sleepS' = sampleStart' - Now
    BY <1>25, <2>2 DEF IdleAlign
  <2> QED
    BY <1>c, <2>1, <2>2, <2>3
<1>26. CASE IdleCheck
  <2>1. /\ Now' = Now /\ UNCHANGED conf /\ pc = "idleCheck" /\ pc' = "wait"
        /\ ticks' = ticks /\ wakeAt' = ticks + sleepS
    BY <1>26 DEF IdleCheck, CheckTimebase, Now
  <2>2. CASE timebaseSet
    BY <1>26, <1>c, <2>1, <2>2 DEF IdleCheck, CheckTimebase
  <2>3. CASE ~timebaseSet
    <3>1. sampleStart' = NextStart(Now) /\ sampleStart' > Now /\ sampleStart' \in Nat
      <4>1. sampleStart' = NextStart(Now) /\ calls = 0
        BY <1>26, <1>d, <2>3 DEF IdleCheck, CheckTimebase
      <4> QED
        BY <1>d, <2>3, <4>1
    <3>2. sleepS <= 1
      BY <2>1, <2>3
    <3> QED
      BY <1>c, <2>1, <3>1, <3>2
  <2> QED
    BY <2>2, <2>3
<1>27. CASE Sleep
  BY <1>27, <1>c DEF Sleep, Now
<1>28. CASE Wake
  BY <1>28, <1>c DEF Wake, Now
<1>29. CASE TakeAggregation
  BY <1>29 DEF TakeAggregation, Now
<1>30. CASE Tick
  <2>1. Now' = Now + 1
    BY <1>30 DEF Tick, Now, TypeOK
  <2> QED
    BY <1>30, <1>c, <2>1 DEF Tick, Asleep
<1>31. ASSUME NEW c \in Callers, NEW e \in BOOLEAN, EnableFlag(c, e) PROVE LateInv'
  BY <1>31, <1>c DEF EnableFlag, Now
<1>32. ASSUME NEW c \in Callers, EnableAlign(c) PROVE LateInv'
  BY <1>32 DEF EnableAlign, AloneInv, Pending
<1>33. ASSUME NEW c \in Callers, EnableNotify(c) PROVE LateInv'
  BY <1>33 DEF EnableNotify, Now
<1>34. ASSUME NEW e \in BOOLEAN, SubsampleEnable(e) PROVE LateInv'
  BY <1>34, <1>c DEF SubsampleEnable, Now
<1>35. ASSUME NEW o \in RtcOffsets, SetRtc(o) PROVE LateInv'
  BY <1>35, <1>c DEF SetRtc, Now
<1>36. CASE UNCHANGED vars
  BY <1>36 DEF vars, Now
<1> HIDE DEF LateInv
<1> QED
  BY <1>1, <1>2, <1>3, <1>4, <1>5, <1>6, <1>7, <1>8, <1>9, <1>10, <1>11,
     <1>12, <1>13, <1>14, <1>15, <1>16, <1>17, <1>18, <1>19, <1>20, <1>21,
     <1>22, <1>23, <1>24, <1>25, <1>26, <1>27, <1>28, <1>29, <1>30, <1>31,
     <1>32, <1>33, <1>34, <1>35, <1>36
  DEF Next, Task, Call

-----------------------------------------------------------------------------
(* What the schedule wants of the bus at second t, if nothing changes it.  *)
On(t) ==
  /\ sampleStart <= t /\ t < sampleStart + conf.sampleDurationS
  /\ subsampling => (t - sampleStart) % conf.subsampleIntervalS < conf.subsampleDurationS

(* The bus as it is, or will be when the switching is over.                *)
Wanted == IF pc \in Switching THEN goal.on ELSE load

(* The start the bus waits for. *)
NextOn == IF subsampling THEN subStart ELSE sampleStart

(* A bus that is left as b for s seconds is as the schedule wants it. *)
Follows(s, b) == \A t \in Nat : Now <= t /\ t < Now + s => (b <=> On(t))

(* Each sleep is no longer than the schedule wants the bus as it is left,  *)
(* and before the start it waits for the bus is off.                       *)
OnInv ==
  Alone /\ ~conf.continuous =>
    /\ Heading \in Sleepers => Follows(sleepS, Wanted)
    /\ pc = "wait" => Follows(wakeAt - ticks, load)
    /\ Now < NextOn => ~Wanted

(* The next multiple. *)
LEMMA Multiple ==
  ASSUME NEW s \in Seconds, NEW a \in Nat
  PROVE  s * a \in Nat /\ s * (a + 1) = s * a + s
BY DEF Seconds

(* Between two starts of subsamples the bus is wanted for the first        *)
(* seconds, while the window lasts.                                        *)
LEMMA SubsampleOnAt ==
  ASSUME TypeOK, subsampling, NEW k \in Nat, NEW t \in Nat,
         sampleStart + conf.subsampleIntervalS * k <= t,
         t < sampleStart + conf.subsampleIntervalS * k + conf.subsampleIntervalS
  PROVE  On(t) <=> /\ t < sampleStart + conf.sampleDurationS
                   /\ t < sampleStart + conf.subsampleIntervalS * k
                            + conf.subsampleDurationS
<1>1. /\ sampleStart \in Nat /\ conf.subsampleIntervalS \in Seconds
      /\ conf.subsampleDurationS \in Nat /\ conf.subsampleIntervalS * k \in Nat
  BY Multiples DEF TypeOK, Config, Seconds
<1> DEFINE r == t - sampleStart - conf.subsampleIntervalS * k
<1>2. r \in 0..(conf.subsampleIntervalS - 1)
  BY <1>1 DEF Seconds
<1>3. t - sampleStart = conf.subsampleIntervalS * k + r
  BY <1>1
<1>4. (t - sampleStart) % conf.subsampleIntervalS = r
  BY <1>1, <1>2, <1>3, Remainder
<1>5. /\ sampleStart <= t
      /\ r < conf.subsampleDurationS <=>
           t < sampleStart + conf.subsampleIntervalS * k + conf.subsampleDurationS
  BY <1>1
<1> HIDE DEF r
<1> QED
  BY <1>4, <1>5 DEF On

(* Before the next subsample the bus is not wanted. *)
LEMMA OffBeforeSubsample ==
  ASSUME TypeOK, ConfInv, SubInv, Alone, subsampling, NEW t \in Nat, Now <= t,
         t < subStart
  PROVE  ~On(t)
<1>1. /\ Now \in Nat /\ sampleStart \in Nat /\ subStart \in Nat
      /\ conf.subsampleIntervalS \in Seconds /\ conf.subsampleIntervalS \in Nat
      /\ conf.subsampleDurationS \in Nat
      /\ conf.subsampleDurationS <= conf.subsampleIntervalS
  BY NowIsTime DEF TypeOK, Config, Seconds, ConfInv
<1>2. PICK m \in Nat :
        /\ subStart = sampleStart + conf.subsampleIntervalS * m
        /\ m = 0 \/ Now + conf.subsampleIntervalS >= subStart + conf.subsampleDurationS
  BY DEF SubInv
<1>3. CASE m = 0
  <2>1. conf.subsampleIntervalS * m = 0
    BY <1>1, <1>3
  <2> QED
    BY <1>1, <1>2, <2>1 DEF On
<1>4. CASE m # 0
  <2> PICK k \in Nat : m = k + 1
    <3>1. m - 1 \in Nat /\ m = (m - 1) + 1
      BY <1>4
    <3> QED
      BY <3>1
  <2>1. /\ conf.subsampleIntervalS * k \in Nat
        /\ conf.subsampleIntervalS * m =
             conf.subsampleIntervalS * k + conf.subsampleIntervalS
    <3>1. /\ conf.subsampleIntervalS * k \in Nat
          /\ conf.subsampleIntervalS * (k + 1) =
               conf.subsampleIntervalS * k + conf.subsampleIntervalS
      BY <1>1, Multiple
    <3> QED
      BY <3>1
  <2>2. /\ sampleStart + conf.subsampleIntervalS * k <= t
        /\ t < sampleStart + conf.subsampleIntervalS * k + conf.subsampleIntervalS
        /\ ~(t < sampleStart + conf.subsampleIntervalS * k + conf.subsampleDurationS)
    BY <1>1, <1>2, <1>4, <2>1
  <2> QED
    BY <2>2, SubsampleOnAt
<1> QED
  BY <1>3, <1>4

(* A step that leaves the schedule, the clock and what is wanted of the bus *)
(* as they are.                                                            *)
LEMMA OnKept ==
  ASSUME OnInv, Alone' => Alone, Now' = Now, Wanted' <=> Wanted,
         UNCHANGED <<conf, subsampling, sampleStart, subStart, sleepS>>,
         Heading' \in Sleepers => Heading' = Heading,
         pc' = "wait" => UNCHANGED <<pc, wakeAt, ticks, load>>
  PROVE  OnInv'
<1>1. \A t \in Nat : On(t)' <=> On(t)
  BY DEF On
<1>2. NextOn' = NextOn
  BY DEF NextOn
<1> SUFFICES ASSUME Alone', ~conf.continuous'
             PROVE  OnInv'
  BY DEF OnInv
<1>3. Alone /\ ~conf.continuous
  OBVIOUS
<1>4. Heading' \in Sleepers => Follows(sleepS, Wanted)'
  <2> SUFFICES ASSUME Heading' \in Sleepers
               PROVE  Follows(sleepS, Wanted)'
    OBVIOUS
  <2>1. Follows(sleepS, Wanted)
    BY <1>3 DEF OnInv
  <2> QED
    BY <1>1, <2>1 DEF Follows
<1>5. pc' = "wait" => Follows(wakeAt - ticks, load)'
  <2> SUFFICES ASSUME pc' = "wait"
               PROVE  Follows(wakeAt - ticks, load)'
    OBVIOUS
  <2>1. Follows(wakeAt - ticks, load)
    BY <1>3 DEF OnInv
  <2> QED
    BY <1>1, <2>1 DEF Follows
<1>6. Now' < NextOn' => ~Wanted'
  BY <1>2, <1>3 DEF OnInv
<1> QED
  BY <1>4, <1>5, <1>6 DEF OnInv

(* A step into the sleep that leaves the bus as the schedule wants it.     *)
LEMMA OnSleeps ==
  ASSUME OnInv, Alone' => Alone, Now' = Now,
         UNCHANGED <<conf, subsampling, sampleStart, subStart, ticks, load>>,
         pc \notin Switching, pc' = "wait", ticks \in Nat,
         NEW s \in Nat, wakeAt' = ticks + s,
         Alone /\ ~conf.continuous => Follows(s, load)
  PROVE  OnInv'
<1>1. \A t \in Nat : On(t)' <=> On(t)
  BY DEF On
<1>2. NextOn' = NextOn /\ Wanted = load /\ Wanted' = load /\ Heading' \notin Sleepers
  BY DEF NextOn, Wanted, Heading, Switching, Sleepers
<1> SUFFICES ASSUME Alone', ~conf.continuous'
             PROVE  OnInv'
  BY DEF OnInv
<1>3. Follows(s, load) /\ (Now < NextOn => ~load)
  BY <1>2 DEF OnInv
<1>4. wakeAt' - ticks' = s
  OBVIOUS
<1>5. Follows(wakeAt - ticks, load)'
  BY <1>1, <1>3, <1>4 DEF Follows
<1> QED
  BY <1>2, <1>3, <1>5 DEF OnInv

(* What is below a sum that fits is below the bound. *)
LEMMA LessThrough ==
  ASSUME NEW t \in Nat, NEW a \in Nat, NEW s \in Nat, NEW b \in Nat, t < a + s, a + s <= b
  PROVE  t < b
OBVIOUS

(* A difference, added back. *)
LEMMA SumOfDifference ==
  ASSUME NEW a \in Nat, NEW b \in Nat
  PROVE  a + (b - a) = b
OBVIOUS

(* The bus is off, or going off, for a sleep until the start.              *)
LEMMA OnOffUntilStart ==
  ASSUME ~Wanted', Now' \in Nat, sampleStart' \in Nat, Now' < sampleStart',
         sleepS' = sampleStart' - Now', pc' # "wait"
  PROVE  OnInv'
<1>1. \A t \in Nat : t < sampleStart' => ~On(t)'
  BY DEF On
<1>2. \A t \in Nat : Now' <= t /\ t < Now' + sleepS' => ~On(t)'
  <2>1. Now' + sleepS' = sampleStart'
    BY SumOfDifference
  <2> QED
    BY <1>1, <2>1
<1>3. Follows(sleepS, Wanted)'
  BY <1>2 DEF Follows
<1> QED
  BY <1>3 DEF OnInv

(* Between two steps of the task, the bus follows the schedule. *)
LEMMA OnStep ==
  ASSUME IDLE_S <= 1, TypeOK, ConfInv, Fits(conf), SupplyInv, InitInv, NetifInv,
         TimebaseInv, EnabledInv, AloneInv, SubInv, LateInv, OnInv, [Next]_vars
  PROVE  OnInv'
<1> USE DEF fields, pins, locals, callers, clocks, SetBusPower, SleepFor
<1> SUFFICES ASSUME Alone', ~conf.continuous
             PROVE  OnInv'
  BY ConfSteps DEF OnInv
<1>c. /\ Now \in Nat /\ sampleStart \in Nat /\ subStart \in Nat /\ cycle \in Nat
      /\ sleepS \in Nat /\ wakeAt \in Nat /\ ticks \in Nat
      /\ conf.sampleIntervalS \in Nat /\ conf.sampleDurationS \in Nat
      /\ conf.subsampleDurationS \in Nat /\ conf.subsampleIntervalS \in Nat
      /\ SampleRemaining \in Nat /\ SubsampleRemaining \in Nat
      /\ calls \in Nat /\ jumps \in Nat /\ toggles \in Nat
  BY NowIsTime, RemainingIsTime DEF TypeOK, Config, Seconds
<1>s. conf.subsampleIntervalS \in Seconds /\ conf.subsampleDurationS <= conf.subsampleIntervalS
  BY DEF TypeOK, Config, ConfInv
<1>l. LeftAlone
  BY ScheduleSteps
<1>d. /\ conf' = conf /\ subsampling' = subsampling /\ enabled /\ enabled' = enabled
      /\ calls' = 0 /\ jumps' = 0 /\ toggles' = 0 /\ timebaseSet'
      /\ (timebaseSet => Alone)
  BY <1>l DEF LeftAlone, Alone
<1>e. calls = 0 => ~Pending
  BY DEF AloneInv
<1>f. timebaseSet /\ subsampling => sampleStart <= subStart
  <2> SUFFICES ASSUME timebaseSet, subsampling
               PROVE  sampleStart <= subStart
    OBVIOUS
  <2>1. PICK m \in Nat : subStart = sampleStart + conf.subsampleIntervalS * m
    BY <1>d DEF SubInv
  <2>2. conf.subsampleIntervalS * m \in Nat
    BY <1>s, Multiple
  <2> QED
    BY <1>c, <2>1, <2>2
<1>1. CASE BusKept
  <2>1. /\ UNCHANGED <<conf, subsampling, sampleStart, subStart, sleepS, timebaseSet>>
        /\ Now' = Now
    BY <1>1 DEF BusKept, Now
  <2>2. /\ Wanted' <=> Wanted
        /\ Heading' \in Sleepers => Heading' = Heading
        /\ pc' = "wait" => UNCHANGED <<pc, wakeAt, ticks, load>>
    BY <1>1 DEF BusKept, Wanted, Heading, Switching, Sleepers, InitInv, Returns,
                SupplyInv, NetifInv, Halfway, TypeOK
  <2> QED
    BY <1>d, <2>1, <2>2, OnKept
<1>2. CASE BusRise
  <2>1. /\ UNCHANGED <<conf, subsampling, sampleStart, subStart, sleepS, timebaseSet>>
        /\ Now' = Now
    BY <1>2 DEF BusRise, Now
  <2>2. /\ Wanted' <=> Wanted
        /\ Heading' \in Sleepers => Heading' = Heading
        /\ pc' = "wait" => UNCHANGED <<pc, wakeAt, ticks, load>>
    BY <1>2 DEF BusRise, Wanted, Heading, Switching, Sleepers, InitInv, Returns,
                SupplyInv, NetifInv, Halfway, TypeOK
  <2> QED
    BY <1>d, <2>1, <2>2, OnKept
<1>3. CASE BusClose
  <2>1. /\ UNCHANGED <<conf, subsampling, sampleStart, subStart, sleepS, timebaseSet>>
        /\ Now' = Now
    BY <1>3 DEF BusClose, Now
  <2>2. /\ Wanted' <=> Wanted
        /\ Heading' \in Sleepers => Heading' = Heading
        /\ pc' = "wait" => UNCHANGED <<pc, wakeAt, ticks, load>>
    BY <1>3 DEF BusClose, Wanted, Heading, Switching, Sleepers, InitInv, Returns,
                SupplyInv, NetifInv, Halfway, TypeOK
  <2> QED
    BY <1>d, <2>1, <2>2, OnKept
<1>4. CASE BusFall
  <2>1. /\ UNCHANGED <<conf, subsampling, sampleStart, subStart, sleepS, timebaseSet>>
        /\ Now' = Now
    BY <1>4 DEF BusFall, Now
  <2>2. /\ Wanted' <=> Wanted
        /\ Heading' \in Sleepers => Heading' = Heading
        /\ pc' = "wait" => UNCHANGED <<pc, wakeAt, ticks, load>>
    BY <1>4 DEF BusFall, Wanted, Heading, Switching, Sleepers, InitInv, Returns,
                SupplyInv, NetifInv, Halfway, TypeOK
  <2> QED
    BY <1>d, <2>1, <2>2, OnKept
<1>5. CASE BusDrain
  <2>1. /\ UNCHANGED <<conf, subsampling, sampleStart, subStart, sleepS, timebaseSet>>
        /\ Now' = Now
    BY <1>5 DEF BusDrain, Now
  <2>2. /\ Wanted' <=> Wanted
        /\ Heading' \in Sleepers => Heading' = Heading
        /\ pc' = "wait" => UNCHANGED <<pc, wakeAt, ticks, load>>
    BY <1>5 DEF BusDrain, Wanted, Heading, Switching, Sleepers, InitInv, Returns,
                SupplyInv, NetifInv, Halfway, TypeOK
  <2> QED
    BY <1>d, <2>1, <2>2, OnKept
<1>6. CASE BusSignal
  <2>1. /\ UNCHANGED <<conf, subsampling, sampleStart, subStart, sleepS, timebaseSet>>
        /\ Now' = Now
    BY <1>6 DEF BusSignal, Now
  <2>2. /\ Wanted' <=> Wanted
        /\ Heading' \in Sleepers => Heading' = Heading
        /\ pc' = "wait" => UNCHANGED <<pc, wakeAt, ticks, load>>
    BY <1>6 DEF BusSignal, Wanted, Heading, Switching, Sleepers, InitInv, Returns,
                SupplyInv, NetifInv, Halfway, TypeOK
  <2> QED
    BY <1>d, <2>1, <2>2, OnKept
<1>7. CASE BusNetif
  <2>1. /\ UNCHANGED <<conf, subsampling, sampleStart, subStart, sleepS, timebaseSet>>
        /\ Now' = Now
    BY <1>7 DEF BusNetif, Now
  <2>2. /\ Wanted' <=> Wanted
        /\ Heading' \in Sleepers => Heading' = Heading
        /\ pc' = "wait" => UNCHANGED <<pc, wakeAt, ticks, load>>
    BY <1>7 DEF BusNetif, Wanted, Heading, Switching, Sleepers, InitInv, Returns,
                SupplyInv, NetifInv, Halfway, TypeOK
  <2> QED
    BY <1>d, <2>1, <2>2, OnKept
<1>8. CASE BusPort2
  <2>1. /\ UNCHANGED <<conf, subsampling, sampleStart, subStart, sleepS, timebaseSet>>
        /\ Now' = Now
    BY <1>8 DEF BusPort2, Now
  <2>2. /\ Wanted' <=> Wanted
        /\ Heading' \in Sleepers => Heading' = Heading
        /\ pc' = "wait" => UNCHANGED <<pc, wakeAt, ticks, load>>
    BY <1>8 DEF BusPort2, Wanted, Heading, Switching, Sleepers, InitInv, Returns,
                SupplyInv, NetifInv, Halfway, TypeOK
  <2> QED
    BY <1>d, <2>1, <2>2, OnKept
<1>9. CASE Update
  <2>1. /\ UNCHANGED <<conf, subsampling, sampleStart, subStart, sleepS, timebaseSet>>
        /\ Now' = Now
    BY <1>9 DEF Update, Now
  <2>2. /\ Wanted' <=> Wanted
        /\ Heading' \in Sleepers => Heading' = Heading
        /\ pc' = "wait" => UNCHANGED <<pc, wakeAt, ticks, load>>
    BY <1>9 DEF Update, Wanted, Heading, Switching, Sleepers, InitInv, Returns,
                SupplyInv, NetifInv, Halfway, TypeOK
  <2> QED
    BY <1>d, <2>1, <2>2, OnKept
<1>10. CASE InitPowerOn
  BY <1>10, <1>d DEF InitPowerOn, TimebaseInv, Heading, Switching
<1>11. CASE InitDelay
  BY <1>11, <1>d DEF InitDelay, TimebaseInv, Heading, Switching
<1>12. CASE InitElapsed
  <2>1. Now' = Now /\ pc = "initSleep" /\ ~timebaseSet
    BY <1>12 DEF InitElapsed, CheckTimebase, Now, TimebaseInv, Heading, Switching, InitInv
  <2>2. sampleStart' = NextStart(Now) /\ sampleStart' \in Nat /\ sampleStart' > Now
    <3>1. FindsTimebase
      BY <1>d, <1>l, <2>1 DEF LeftAlone, Alone
    <3> QED
      BY <1>c, <3>1, NextStartLater DEF FindsTimebase
  <2>3. /\ sleepS' = sampleStart' - Now
        /\ pc' = "bus" /\ after' = "initDone" /\ ~goal'.on
    <3>1. /\ sleepS' = sampleStart' - Now /\ pc' = "bus" /\ after' = "initDone"
          /\ goal' = [on |-> ~enabled \/ conf.continuous, l2 |-> TRUE]
      BY <1>12, <1>d, <2>2 DEF InitElapsed, SetBusPower
    <3>2. goal' = [on |-> FALSE, l2 |-> TRUE]
      BY <1>d, <3>1
    <3> QED
      BY <3>1, <3>2
  <2> QED
    BY <1>c, <2>1, <2>2, <2>3, OnOffUntilStart DEF Wanted, Heading, Switching
<1>13. CASE InitDone
  <2>1. /\ UNCHANGED <<conf, subsampling, sampleStart, subStart, ticks, load,
                       timebaseSet>>
        /\ Now' = Now /\ pc' = "wait" /\ wakeAt' = ticks + sleepS
        /\ pc \in Sleepers /\ pc \notin Switching
    BY <1>13 DEF InitDone, Now, Sleepers, Switching
  <2>2. Alone /\ ~conf.continuous => Follows(sleepS, load)
    BY <2>1 DEF OnInv, Heading, Wanted
  <2> QED
    BY <1>c, <1>d, <2>1, <2>2, OnSleeps
<1>14. CASE SampleEarly
  <2> DEFINE s == sampleStart - Now
  <2>1. /\ UNCHANGED <<conf, subsampling, sampleStart, subStart, ticks, load,
                       timebaseSet>>
        /\ Now' = Now /\ pc' = "wait" /\ wakeAt' = ticks + s
        /\ pc \notin Switching /\ pc = "sample" /\ Now < sampleStart
    BY <1>14 DEF SampleEarly, Now, Switching
  <2>2. timebaseSet
    BY <2>1 DEF TimebaseInv, Heading
  <2>3. s \in Nat /\ ~load
    BY <1>c, <1>d, <1>f, <2>1, <2>2 DEF OnInv, NextOn, Wanted
  <2>4. Follows(s, load)
    BY <1>c, <2>3 DEF Follows, On
  <2> HIDE DEF s
  <2> QED
    BY <1>c, <1>d, <2>1, <2>2, <2>3, <2>4, OnSleeps
<1>15. CASE SampleOver
  <2>1. /\ UNCHANGED <<conf, subsampling, sampleStart, subStart, sleepS, timebaseSet>>
        /\ Now' = Now
    BY <1>15 DEF SampleOver, Now
  <2>2. /\ Wanted' <=> Wanted
        /\ Heading' \in Sleepers => Heading' = Heading
        /\ pc' = "wait" => UNCHANGED <<pc, wakeAt, ticks, load>>
    BY <1>15 DEF SampleOver, Wanted, Heading, Switching, Sleepers, InitInv, Returns,
                 SupplyInv, NetifInv, Halfway, TypeOK
  <2> QED
    BY <1>d, <2>1, <2>2, OnKept
<1>16. CASE SampleAdvance
  <2>1. /\ Now' = Now /\ timebaseSet /\ Alone /\ cycle = Now
        /\ sampleStart' \in Nat /\ sampleStart' >= Now /\ subStart' = sampleStart'
    BY <1>16, <1>c, <1>d, NextIsNotPast DEF SampleAdvance, Now, TimebaseInv, LateInv,
         Heading, Switching
  <2>2. CASE sampleStart' > Now
    <3>1. /\ sleepS' = sampleStart' - Now
          /\ pc' = "bus" /\ after' = "aggregate" /\ ~goal'.on
      BY <1>16, <2>1, <2>2 DEF SampleAdvance, SetBusPower
    <3> QED
      BY <1>c, <2>1, <2>2, <3>1, OnOffUntilStart DEF Wanted, Heading, Switching
  <2>3. CASE sampleStart' = Now
    <3>1. sleepS' = 0 /\ pc' = "aggregate" /\ NextOn' = Now
      BY <1>16, <1>c, <2>1, <2>3 DEF SampleAdvance, NextOn
    <3>2. Follows(sleepS, Wanted)'
      BY <1>c, <2>1, <3>1 DEF Follows
    <3> QED
      BY <1>c, <2>1, <3>1, <3>2 DEF OnInv
  <2> QED
    BY <1>c, <2>1, <2>2, <2>3
<1>17. CASE SampleAggregate
  <2>1. /\ UNCHANGED <<conf, subsampling, sampleStart, subStart, ticks, load,
                       timebaseSet>>
        /\ Now' = Now /\ pc' = "wait" /\ wakeAt' = ticks + sleepS
        /\ pc \in Sleepers /\ pc \notin Switching
    BY <1>17 DEF SampleAggregate, Now, Sleepers, Switching
  <2>2. Alone /\ ~conf.continuous => Follows(sleepS, load)
    BY <2>1 DEF OnInv, Heading, Wanted
  <2> QED
    BY <1>c, <1>d, <2>1, <2>2, OnSleeps
<1>18. CASE SampleOn
  <2>1. /\ UNCHANGED <<sampleStart, subStart>> /\ Now' = Now
        /\ ~subsampling /\ Now >= sampleStart
        /\ sleepS' = SampleRemaining /\ pc' = "bus" /\ after' = "sleep" /\ goal'.on
    BY <1>18 DEF SampleOn, SetBusPower, Now
  <2>2. Wanted' /\ NextOn' = sampleStart /\ pc' # "wait"
    BY <1>d, <2>1 DEF Wanted, NextOn, Switching
  <2>3. \A t \in Nat : Now <= t /\ t < Now + SampleRemaining => On(t)'
    BY <1>c, <1>d, <2>1 DEF On, SampleRemaining, TimeRemaining
  <2>4. Follows(sleepS, Wanted)'
    BY <2>1, <2>2, <2>3 DEF Follows
  <2> QED
    <3>1. ~(Now' < NextOn')
      BY <1>c, <2>1, <2>2
    <3> QED
      BY <2>2, <2>4, <3>1 DEF OnInv
<1>19. CASE SubsampleEarly
  <2> DEFINE s == Smaller(SampleRemaining, subStart - Now)
  <2>1. /\ UNCHANGED <<conf, subsampling, sampleStart, subStart, ticks, load,
                       timebaseSet>>
        /\ Now' = Now /\ pc' = "wait" /\ wakeAt' = ticks + s
        /\ pc \notin Switching /\ pc = "sample" /\ Now < subStart /\ subsampling
    BY <1>19 DEF SubsampleEarly, InSubsampling, Now, Switching
  <2>2. timebaseSet
    BY <2>1 DEF TimebaseInv, Heading
  <2>3. s \in Nat /\ s <= subStart - Now
    BY <1>c, <2>1 DEF Smaller
  <2>4. ~load
    BY <1>d, <2>1, <2>2 DEF OnInv, NextOn, Wanted
  <2> HIDE DEF s
  <2>5. ASSUME NEW t \in Nat, Now <= t, t < Now + s
        PROVE  ~On(t)
    <3>1. t < subStart
      BY <1>c, <2>3, <2>5
    <3> QED
      BY <1>d, <2>1, <2>2, <2>5, <3>1, OffBeforeSubsample
  <2>6. Follows(s, load)
    BY <2>4, <2>5 DEF Follows
  <2> QED
    BY <1>c, <1>d, <2>1, <2>2, <2>3, <2>6, OnSleeps
<1>20. CASE SubsampleOff
  <2>1. /\ UNCHANGED sampleStart /\ Now' = Now /\ pc = "sample"
        /\ subsampling /\ Now >= subStart /\ SubsampleRemaining = 0
        /\ subStart' = subStart + conf.subsampleIntervalS
    BY <1>20 DEF SubsampleOff, InSubsampling, Now
  <2>2. timebaseSet /\ Alone /\ NextOn' = subStart'
    BY <1>d, <2>1 DEF TimebaseInv, Heading, Switching, NextOn
  <2>3. /\ sleepS' \in Nat
        /\ IF subStart' > Now THEN sleepS' <= subStart' - Now ELSE sleepS' = 0
    <3>1. subStart' \in Nat
      BY <1>c, <2>1
    <3>2. sleepS' = Smaller(SampleRemaining,
                            IF subStart' > Now THEN subStart' - Now ELSE 0)
      BY <1>20 DEF SubsampleOff
    <3> QED
      BY <1>c, <3>1, <3>2, ShorterSleep
  <2>4. CASE subStart' > Now
    <3>1. pc' = "bus" /\ after' = "sleep" /\ ~goal'.on
      BY <1>20, <2>4 DEF SubsampleOff, SetBusPower
    <3>2. ~Wanted' /\ pc' # "wait"
      BY <3>1 DEF Wanted, Switching
    <3>3. PICK m \in Nat : subStart = sampleStart + conf.subsampleIntervalS * m
      BY <2>1, <2>2 DEF SubInv
    <3>4. ASSUME NEW t \in Nat, Now <= t, t < Now + sleepS'
          PROVE  ~On(t)'
      <4>0. subStart + conf.subsampleDurationS <= Now /\ t < subStart'
        <5>1. Now + sleepS' <= subStart'
          BY <1>c, <2>1, <2>3, <2>4
        <5>2. subStart + conf.subsampleDurationS <= Now
          BY <1>c, <2>1 DEF SubsampleRemaining, TimeRemaining
        <5>3. /\ Now \in Nat /\ sleepS' \in Nat /\ subStart' \in Nat
          BY <1>c, <2>1, <2>3
        <5>4. t < Now + sleepS'
          BY <3>4
        <5>5. t < subStart'
          BY <5>1, <5>3, <5>4, LessThrough
        <5> QED
          BY <5>2, <5>5
      <4>1. subStart + conf.subsampleDurationS <= t /\ t < subStart + conf.subsampleIntervalS
        BY <1>c, <2>1, <3>4, <4>0
      <4>2. conf.subsampleIntervalS * m \in Nat
        BY <1>s, Multiple
      <4>3. /\ sampleStart + conf.subsampleIntervalS * m <= t
            /\ t < sampleStart + conf.subsampleIntervalS * m + conf.subsampleIntervalS
            /\ ~(t < sampleStart + conf.subsampleIntervalS * m + conf.subsampleDurationS)
        BY <1>c, <3>3, <4>1, <4>2
      <4>4. ~On(t)
        BY <2>1, <4>3, SubsampleOnAt
      <4> QED
        BY <1>d, <2>1, <4>4 DEF On
    <3>5. Follows(sleepS, Wanted)'
      BY <2>1, <3>2, <3>4 DEF Follows
    <3> QED
      BY <3>2, <3>5 DEF OnInv
  <2>5. CASE ~(subStart' > Now)
    <3>1. sleepS' = 0 /\ pc' = "sleep"
      BY <1>20, <2>3, <2>5 DEF SubsampleOff
    <3>2. Follows(sleepS, Wanted)'
      BY <1>c, <2>1, <3>1 DEF Follows
    <3> QED
      BY <1>c, <2>1, <2>2, <2>5, <3>1, <3>2 DEF OnInv
  <2> QED
    BY <2>4, <2>5
<1>21. CASE SubsampleOn
  <2>1. /\ UNCHANGED <<sampleStart, subStart>> /\ Now' = Now
        /\ subsampling /\ Now >= subStart /\ SubsampleRemaining > 0 /\ pc = "sample"
        /\ sleepS' = SubsampleRemaining /\ pc' = "bus" /\ after' = "sleep" /\ goal'.on
    BY <1>21 DEF SubsampleOn, InSubsampling, SetBusPower, Now
  <2>2. Wanted' /\ NextOn' = subStart /\ pc' # "wait"
    BY <1>d, <2>1 DEF Wanted, NextOn, Switching
  <2>3. timebaseSet /\ Alone
    BY <1>d, <2>1 DEF TimebaseInv, Heading, Switching
  <2>4. subStart + conf.subsampleDurationS <= sampleStart + conf.sampleDurationS
    BY <1>21, <2>1, <2>3, SubsampleFits DEF SubsampleOn
  <2>5. PICK m \in Nat : subStart = sampleStart + conf.subsampleIntervalS * m
    BY <2>1, <2>3 DEF SubInv
  <2>6. ASSUME NEW t \in Nat, Now <= t, t < Now + SubsampleRemaining
        PROVE  On(t)'
    <3>1. t < subStart + conf.subsampleDurationS /\ subStart <= t
      BY <1>c, <2>1, <2>6 DEF SubsampleRemaining, TimeRemaining
    <3>2. /\ conf.subsampleDurationS <= conf.subsampleIntervalS
          /\ conf.subsampleIntervalS * m \in Nat
      BY <1>s, Multiple
    <3>3. /\ sampleStart + conf.subsampleIntervalS * m <= t
          /\ t < sampleStart + conf.subsampleIntervalS * m + conf.subsampleIntervalS
          /\ t < sampleStart + conf.subsampleIntervalS * m + conf.subsampleDurationS
          /\ t < sampleStart + conf.sampleDurationS
      BY <1>c, <2>4, <2>5, <3>1, <3>2
    <3>4. On(t)
      BY <2>1, <3>3, SubsampleOnAt
    <3> QED
      BY <1>d, <2>1, <3>4 DEF On
  <2>7. Follows(sleepS, Wanted)'
    BY <2>1, <2>2, <2>6 DEF Follows
  <2> QED
    <3>1. ~(Now' < NextOn')
      BY <1>c, <2>1, <2>2
    <3> QED
      BY <2>2, <2>7, <3>1 DEF OnInv
<1>22. CASE IdleDisabled
  BY <1>22, <1>d DEF IdleDisabled
<1>23. CASE IdleNoTimebase
  BY <1>23, <1>d DEF IdleNoTimebase
<1>24. CASE IdleOvertaken
  BY <1>24, <1>d, <1>e DEF IdleOvertaken, EnabledInv, Heading, Switching, Alone
<1>25. CASE IdleAlign
  <2>1. Now' = Now /\ pc = "idleAlign" /\ ~timebaseSet /\ load' = load
    BY <1>25 DEF IdleAlign, Now, TimebaseInv, Heading, Switching, pins
  <2>2. sampleStart' = NextStart(Now) /\ sampleStart' \in Nat /\ sampleStart' > Now
    <3>1. FindsTimebase
      BY <1>d, <1>l, <2>1 DEF LeftAlone, Alone
    <3> QED
      BY <1>c, <3>1, NextStartLater DEF FindsTimebase
  <2>3. sleepS' = sampleStart' - Now /\ pc' = "idleCheck"
    BY <1>25, <1>d, <2>2 DEF IdleAlign
  <2>4. ~load
    BY <1>25, <1>d, <1>e, <2>1 DEF IdleAlign, EnabledInv
  <2> QED
    BY <1>c, <2>1, <2>2, <2>3, <2>4, OnOffUntilStart DEF Wanted, Switching
<1>26. CASE IdleCheck
  <2>1. /\ Now' = Now /\ UNCHANGED <<conf, ticks, load>> /\ pc = "idleCheck"
        /\ pc' = "wait" /\ wakeAt' = ticks + sleepS
    BY <1>26 DEF IdleCheck, CheckTimebase, Now
  <2>2. CASE timebaseSet
    <3>1. /\ UNCHANGED <<subsampling, sampleStart, subStart, timebaseSet>>
          /\ pc \in Sleepers /\ pc \notin Switching
      BY <1>26, <2>1, <2>2 DEF IdleCheck, CheckTimebase, Sleepers, Switching
    <3>2. Alone /\ ~conf.continuous => Follows(sleepS, load)
      BY <3>1 DEF OnInv, Heading, Wanted
    <3> QED
      BY <1>c, <1>d, <2>1, <3>1, <3>2, OnSleeps
  <2>3. CASE ~timebaseSet
    <3>1. sampleStart' = NextStart(Now) /\ sampleStart' \in Nat /\ sampleStart' > Now
      <4>1. FindsTimebase
        BY <1>d, <1>l, <2>3 DEF LeftAlone, Alone
      <4> QED
        BY <1>c, <4>1, NextStartLater DEF FindsTimebase
    <3>2. sleepS <= 1 /\ ~load /\ calls = 0
      BY <1>26, <1>d, <1>e, <2>1, <2>3 DEF IdleCheck, EnabledInv, TimebaseInv, Heading,
           Switching
    <3>3. ~Wanted' /\ Heading' \notin Sleepers
      BY <2>1, <3>2 DEF Wanted, Heading, Switching, Sleepers
    <3>4. wakeAt' - ticks' <= 1
      BY <1>c, <2>1, <3>2
    <3>5. Follows(wakeAt - ticks, load)'
      BY <1>c, <2>1, <3>1, <3>2, <3>4 DEF Follows, On
    <3> QED
      BY <3>3, <3>5 DEF OnInv
  <2> QED
    BY <2>2, <2>3
<1>27. CASE Sleep
  <2>1. /\ UNCHANGED <<conf, subsampling, sampleStart, subStart, ticks, load,
                       timebaseSet>>
        /\ Now' = Now /\ pc' = "wait" /\ wakeAt' = ticks + sleepS
        /\ pc \in Sleepers /\ pc \notin Switching
    BY <1>27 DEF Sleep, Now, Sleepers, Switching
  <2>2. Alone /\ ~conf.continuous => Follows(sleepS, load)
    BY <2>1 DEF OnInv, Heading, Wanted
  <2> QED
    BY <1>c, <1>d, <2>1, <2>2, OnSleeps
<1>28. CASE Wake
  <2>1. /\ UNCHANGED <<conf, subsampling, sampleStart, subStart, sleepS, timebaseSet>>
        /\ Now' = Now
    BY <1>28 DEF Wake, Now
  <2>2. /\ Wanted' <=> Wanted
        /\ Heading' \in Sleepers => Heading' = Heading
        /\ pc' = "wait" => UNCHANGED <<pc, wakeAt, ticks, load>>
    BY <1>28 DEF Wake, Wanted, Heading, Switching, Sleepers, InitInv, Returns,
                 SupplyInv, NetifInv, Halfway, TypeOK
  <2> QED
    BY <1>d, <2>1, <2>2, OnKept
<1>29. CASE TakeAggregation
  <2>1. /\ UNCHANGED <<conf, subsampling, sampleStart, subStart, sleepS, timebaseSet>>
        /\ Now' = Now
    BY <1>29 DEF TakeAggregation, Now
  <2>2. /\ Wanted' <=> Wanted
        /\ Heading' \in Sleepers => Heading' = Heading
        /\ pc' = "wait" => UNCHANGED <<pc, wakeAt, ticks, load>>
    BY <1>29 DEF TakeAggregation, Wanted, Heading, Switching, Sleepers, InitInv,
                 Returns, SupplyInv, NetifInv, Halfway, TypeOK
  <2> QED
    BY <1>d, <2>1, <2>2, OnKept
<1>30. CASE Tick
  <2>1. /\ Now' = Now + 1 /\ ticks' = ticks + 1 /\ pc' = pc
        /\ UNCHANGED <<sampleStart, subStart, load, wakeAt, timebaseSet>>
        /\ pc \in {"wait", "initSleep"}
    BY <1>30 DEF Tick, Asleep, Now, TypeOK
  <2>2. pc = "wait" /\ Alone
    BY <1>d, <2>1 DEF TimebaseInv, Heading, Switching
  <2>3. /\ Follows(wakeAt - ticks, load) /\ (Now < NextOn => ~load)
    BY <2>2 DEF OnInv, Wanted, Switching
  <2>4. Now + (wakeAt - ticks) = Now' + (wakeAt' - ticks')
    BY <1>c, <2>1
  <2>5. Follows(wakeAt - ticks, load)'
    BY <1>c, <1>d, <2>1, <2>3, <2>4 DEF Follows, On
  <2>6. /\ NextOn' = NextOn /\ NextOn \in Nat /\ (Wanted' <=> load)
        /\ Heading' \notin Sleepers
    BY <1>c, <1>d, <2>1, <2>2 DEF NextOn, Wanted, Heading, Switching, Sleepers
  <2> QED
    BY <1>c, <2>1, <2>3, <2>5, <2>6 DEF OnInv
<1>31. ASSUME NEW c \in Callers, NEW e \in BOOLEAN, EnableFlag(c, e) PROVE OnInv'
  BY <1>31, <1>c, <1>d DEF EnableFlag
<1>32. ASSUME NEW c \in Callers, EnableAlign(c) PROVE OnInv'
  BY <1>32, <1>d, <1>e DEF EnableAlign, Pending
<1>33. ASSUME NEW c \in Callers, EnableNotify(c) PROVE OnInv'
  BY <1>33, <1>d, <1>e DEF EnableNotify, Pending
<1>34. ASSUME NEW e \in BOOLEAN, SubsampleEnable(e) PROVE OnInv'
  BY <1>34, <1>c, <1>d DEF SubsampleEnable
<1>35. ASSUME NEW o \in RtcOffsets, SetRtc(o) PROVE OnInv'
  <2>1. /\ UNCHANGED <<conf, subsampling, sampleStart, subStart, sleepS, timebaseSet>>
        /\ Now' = Now
    BY <1>35, <1>c, <1>d DEF SetRtc, Now, TimebaseInv
  <2>2. /\ Wanted' <=> Wanted
        /\ Heading' \in Sleepers => Heading' = Heading
        /\ pc' = "wait" => UNCHANGED <<pc, wakeAt, ticks, load>>
    BY <1>35 DEF SetRtc, Wanted, Heading, Switching, Sleepers, InitInv, Returns,
                 SupplyInv, NetifInv, Halfway, TypeOK
  <2> QED
    BY <1>d, <2>1, <2>2, OnKept
<1>36. CASE UNCHANGED vars
  <2>1. /\ UNCHANGED <<conf, subsampling, sampleStart, subStart, sleepS, timebaseSet>>
        /\ Now' = Now
    BY <1>36 DEF vars, Now
  <2>2. /\ Wanted' <=> Wanted
        /\ Heading' \in Sleepers => Heading' = Heading
        /\ pc' = "wait" => UNCHANGED <<pc, wakeAt, ticks, load>>
    BY <1>36 DEF vars, Wanted, Heading, Switching, Sleepers, InitInv, Returns,
                 SupplyInv, NetifInv, Halfway, TypeOK
  <2> QED
    BY <1>d, <2>1, <2>2, OnKept
<1> HIDE DEF OnInv
<1> QED
  BY <1>1, <1>2, <1>3, <1>4, <1>5, <1>6, <1>7, <1>8, <1>9, <1>10, <1>11,
     <1>12, <1>13, <1>14, <1>15, <1>16, <1>17, <1>18, <1>19, <1>20, <1>21,
     <1>22, <1>23, <1>24, <1>25, <1>26, <1>27, <1>28, <1>29, <1>30, <1>31,
     <1>32, <1>33, <1>34, <1>35, <1>36
  DEF Next, Task, Call

-----------------------------------------------------------------------------
(* The schedule starts from a controller without a timebase.               *)
LEMMA ScheduleInit ==
  Init => /\ OffInv /\ TimebaseInv /\ EnabledInv /\ WindowInv
          /\ ConfInv /\ AloneInv /\ SubInv /\ LateInv /\ OnInv
<1> SUFFICES ASSUME Init
             PROVE  /\ OffInv /\ TimebaseInv /\ EnabledInv /\ WindowInv
                    /\ ConfInv /\ AloneInv /\ SubInv /\ LateInv /\ OnInv
  OBVIOUS
<1>1. /\ pc = "update" /\ ~initDone /\ ~timebaseSet /\ sampleStart = 0 /\ ~notified
      /\ caller = [c \in Callers |-> "idle"] /\ Heading = "update"
  BY DEF Init, Heading, Switching
<1>2. OffInv /\ TimebaseInv /\ EnabledInv
  BY <1>1 DEF OffInv, First, Switching, TimebaseInv, EnabledInv
<1>3. WindowInv /\ SubInv /\ LateInv /\ OnInv
  BY <1>1 DEF WindowInv, Steady, SubInv, LateInv, OnInv, Alone
<1>4. AloneInv
  BY <1>1 DEF AloneInv, Pending
<1> QED
  BY <1>2, <1>3, <1>4, ConfInit

(* The invariants of the schedule that need no hypothesis.                 *)
TimesInv == OffInv /\ TimebaseInv /\ EnabledInv /\ WindowInv

(* They hold, whatever the calls and the clock do. *)
LEMMA TimesAlways == Spec => []TimesInv
<1>1. Init => TimesInv
  BY ScheduleInit DEF TimesInv
<1>2. TypeOK /\ SupplyInv /\ ReadyInv /\ TimesInv /\ [Next]_vars => TimesInv'
  BY OffStep, TimebaseStep, EnabledStep, WindowStep DEF TimesInv, ReadyInv
<1> QED
  BY <1>1, <1>2, TypeCorrect, SupplyAlways, ReadyAlways, PTL DEF Spec

(* Enabled without a timebase, the sleeping controller has the bus off:    *)
(* the branch of _update() that waits for the clock switched it off, and   *)
(* no call, however it interleaves with that branch, leaves it on.         *)
THEOREM NoTimebaseMeansBusOff == Spec => []NoTimebaseMeansOff
<1>1. TypeOK /\ SupplyInv /\ TimesInv => NoTimebaseMeansOff
  <2> SUFFICES ASSUME TypeOK, SupplyInv, TimesInv,
                      Quiet /\ ticks < wakeAt /\ enabled /\ ~timebaseSet /\ ~conf.continuous
               PROVE  ~load /\ bits = {OFF} /\ ~netif
    BY DEF NoTimebaseMeansOff
  <2>1. pc = "wait" /\ ~Pending
    BY DEF Quiet
  <2>2. ~load
    BY <2>1 DEF TimesInv, EnabledInv
  <2>3. pc \notin Halfway \union {"netif"} /\ ~First
    BY <2>1 DEF Halfway, First
  <2>4. bits \subseteq {OFF}
    BY <2>2, <2>3 DEF SupplyInv
  <2>5. bits # {} /\ ~netif
    BY <2>2, <2>3 DEF TimesInv, OffInv
  <2> QED
    BY <2>2, <2>4, <2>5
<1> QED
  BY <1>1, TypeCorrect, SupplyAlways, TimesAlways, PTL

(* With a steady clock no sample window stays dark, whatever enables and   *)
(* disables came before: a task that sleeps with the bus off is to be back *)
(* by the start of the next window, or IDLE_S after it.                    *)
THEOREM WindowsArePowered == Spec => []WindowIsPowered
<1>1. TypeOK /\ SupplyInv /\ ReadyInv /\ TimesInv => WindowIsPowered
  <2> SUFFICES ASSUME TypeOK, SupplyInv, ReadyInv, TimesInv,
                      Scheduled /\ ~subsampling /\ InWindow /\ sampleStart + IDLE_S <= Now
               PROVE  load /\ bits = {ON} /\ netif
    BY DEF WindowIsPowered
  <2>1. pc = "wait" /\ ~Pending /\ ticks < wakeAt /\ Steady /\ ~subsampling
    BY DEF Scheduled, Quiet, Steady
  <2>2. load \/ Now + wakeAt <= sampleStart + IDLE_S + ticks
    BY <2>1 DEF TimesInv, WindowInv
  <2>3. /\ Now \in Nat /\ sampleStart \in Nat /\ IDLE_S \in Nat
        /\ ticks \in Nat /\ wakeAt \in Nat
    BY NowIsTime, BridgePowerAssumption DEF TypeOK
  <2>4. load
    BY <2>1, <2>2, <2>3
  <2>5. bits = {ON} /\ netif
    BY <2>1, <2>4 DEF SupplyInv, ReadyInv, NetifInv, Halfway
  <2> QED
    BY <2>4, <2>5
<1> QED
  BY <1>1, TypeCorrect, SupplyAlways, ReadyAlways, TimesAlways, PTL

-----------------------------------------------------------------------------
(* Every subsample of every configuration is over before the interval is.  *)
EndInTime == \A c \in RawConfigs : InTime(ValidateConfig(c))

(* What holds of the schedule of a controller left alone.                  *)
LateAlwaysInv == ConfInv /\ InTime(conf) /\ AloneInv /\ SubInv /\ LateInv

(* Left alone, the task is back in time. *)
LEMMA LateAlways ==
  ASSUME IDLE_S <= 1, EndInTime
  PROVE  Spec => []LateAlwaysInv
<1>1. Init => LateAlwaysInv
  <2>1. Init => InTime(conf)
    BY DEF Init, EndInTime
  <2> QED
    BY <2>1, ScheduleInit DEF LateAlwaysInv
<1>2. TypeOK /\ ReadyInv /\ TimesInv /\ LateAlwaysInv /\ [Next]_vars => LateAlwaysInv'
  <2> SUFFICES ASSUME TypeOK, ReadyInv, TimesInv, LateAlwaysInv, [Next]_vars
               PROVE  LateAlwaysInv'
    OBVIOUS
  <2>1. /\ InitInv /\ TimebaseInv /\ EnabledInv
        /\ ConfInv /\ InTime(conf) /\ AloneInv /\ SubInv /\ LateInv
    BY DEF ReadyInv, TimesInv, LateAlwaysInv
  <2>2. InTime(conf)'
    BY <2>1, ConfSteps DEF InTime, Fits
  <2>3. ConfInv' /\ AloneInv' /\ SubInv'
    BY <2>1, ConfStep, AloneStep, SubStep
  <2>4. LateInv'
    BY <2>1, LateStep
  <2> QED
    BY <2>2, <2>3, <2>4 DEF LateAlwaysInv
<1> QED
  BY <1>1, <1>2, TypeCorrect, ReadyAlways, TimesAlways, PTL DEF Spec

(* No configuration has a subsample that starts in the window and ends     *)
(* after it: otherwise the task sleeps through the end of the window with  *)
(* the bus on.                                                             *)
NoOverrun == \A c \in RawConfigs : Fits(ValidateConfig(c))

(* Left alone, the bus is left as the schedule wants it. *)
LEMMA OnAlways ==
  ASSUME IDLE_S <= 1, NoOverrun
  PROVE  Spec => []OnInv
<1>1. EndInTime
  BY DEF NoOverrun, EndInTime, InTime
<1>2. Init => OnInv /\ Fits(conf)
  BY ScheduleInit DEF Init, NoOverrun
<1>3. /\ TypeOK /\ SupplyInv /\ ReadyInv /\ TimesInv /\ LateAlwaysInv
      /\ OnInv /\ Fits(conf) /\ [Next]_vars
      => OnInv' /\ Fits(conf)'
  <2> SUFFICES ASSUME TypeOK, SupplyInv, ReadyInv, TimesInv, LateAlwaysInv, OnInv,
                      Fits(conf), [Next]_vars
               PROVE  OnInv' /\ Fits(conf)'
    OBVIOUS
  <2>1. /\ InitInv /\ NetifInv /\ TimebaseInv /\ EnabledInv
        /\ ConfInv /\ AloneInv /\ SubInv /\ LateInv
    BY DEF ReadyInv, TimesInv, LateAlwaysInv
  <2>2. Fits(conf)'
    BY ConfSteps DEF Fits
  <2>3. OnInv'
    BY <2>1, OnStep
  <2> QED
    BY <2>2, <2>3
<1> QED
  BY <1>1, <1>2, <1>3, TypeCorrect, SupplyAlways, ReadyAlways, TimesAlways,
     LateAlways, PTL DEF Spec

(* Left alone with a steady clock, the bus is on exactly in the sample     *)
(* windows, and within them exactly in the subsample windows: each branch  *)
(* of _update() sleeps no longer than the schedule wants the bus as the    *)
(* branch leaves it.                                                       *)
THEOREM BusOnSchedule ==
  ASSUME IDLE_S <= 1, NoOverrun
  PROVE  Spec => []OnSchedule
<1>1. TypeOK /\ OnInv => OnSchedule
  <2> SUFFICES ASSUME TypeOK, OnInv, Scheduled, calls = 0, ~conf.continuous
               PROVE  load <=> /\ InWindow
                               /\ subsampling =>
                                    (Now - sampleStart) % conf.subsampleIntervalS
                                      < conf.subsampleDurationS
    BY DEF OnSchedule
  <2>1. pc = "wait" /\ ticks < wakeAt /\ Alone
    BY DEF Scheduled, Quiet, Alone
  <2>2. Follows(wakeAt - ticks, load)
    BY <2>1 DEF OnInv
  <2>3. Now \in Nat /\ ticks \in Nat /\ wakeAt \in Nat
    BY NowIsTime DEF TypeOK
  <2>4. load <=> On(Now)
    BY <2>1, <2>2, <2>3 DEF Follows
  <2> QED
    BY <2>4 DEF On, InWindow
<1> QED
  BY <1>1, TypeCorrect, OnAlways, PTL

(* Who moves the start of the interval.                                    *)
LEMMA StartSteps ==
  ASSUME [Next]_vars, sampleStart' # sampleStart
  PROVE  \/ ~timebaseSet
         \/ SampleAdvance
         \/ \E c \in Callers : EnableAlign(c)
<1> USE DEF fields
<1>1. CASE Task
  <2>1. \/ SampleAdvance \/ InitElapsed \/ IdleAlign \/ IdleCheck
    BY <1>1 DEF Task, BusKept, BusRise, BusClose, BusFall, BusDrain, BusSignal,
                BusNetif, BusPort2, Update, InitPowerOn, InitDelay, InitDone,
                SampleEarly, SampleOver, SampleAggregate, SampleOn, SubsampleEarly,
                SubsampleOff, SubsampleOn, IdleDisabled, IdleNoTimebase,
                IdleOvertaken, Sleep, Wake
  <2> QED
    BY <2>1 DEF InitElapsed, IdleAlign, IdleCheck, CheckTimebase
<1>2. CASE \E c \in Callers : Call(c)
  BY <1>2 DEF Call, EnableFlag, EnableNotify
<1>3. CASE TakeAggregation \/ Tick \/ UNCHANGED vars
  BY <1>3 DEF TakeAggregation, Tick, vars
<1>4. CASE (\E e \in BOOLEAN : SubsampleEnable(e)) \/ (\E o \in RtcOffsets : SetRtc(o))
  BY <1>4 DEF SubsampleEnable, SetRtc
<1> QED
  BY <1>1, <1>2, <1>3, <1>4 DEF Next

(* Left alone, the controller skips no interval: the task is back before   *)
(* the next interval is over, so that the loop of _alignNextInterval()     *)
(* has nothing to catch up with.                                           *)
THEOREM IntervalsInTurn ==
  ASSUME IDLE_S <= 1, EndInTime
  PROVE  Spec => NoIntervalSkipped
<1>1. TypeOK /\ ReadyInv /\ LateAlwaysInv /\ [Next]_vars =>
        (timebaseSet /\ calls = 0 /\ jumps = 0 /\ toggles = 0 /\ sampleStart' # sampleStart
           => sampleStart' = RoundUp(sampleStart + conf.sampleIntervalS, conf.alignmentS))
  <2> SUFFICES ASSUME TypeOK, ReadyInv, LateAlwaysInv, [Next]_vars,
                      timebaseSet, calls = 0, jumps = 0, toggles = 0,
                      sampleStart' # sampleStart
               PROVE  sampleStart' =
                        RoundUp(sampleStart + conf.sampleIntervalS, conf.alignmentS)
    OBVIOUS
  <2>1. ~Pending /\ sampleStart # 0
    BY DEF LateAlwaysInv, AloneInv
  <2>2. ~(\E c \in Callers : EnableAlign(c))
    BY <2>1 DEF EnableAlign, Pending
  <2>3. SampleAdvance
    BY <2>2, StartSteps
  <2>4. pc = "advance" /\ sampleStart' = NextStart(cycle)
    BY <2>3 DEF SampleAdvance
  <2>5. enabled
    BY <2>1, <2>4 DEF ReadyInv, DisabledInv, Heading, Switching
  <2>6. cycle = Now /\ Now <= sampleStart + conf.sampleIntervalS
    BY <2>4, <2>5 DEF LateAlwaysInv, LateInv, Alone
  <2> QED
    BY <2>1, <2>4, <2>6, NextStartLater
<1> QED
  BY <1>1, TypeCorrect, ReadyAlways, LateAlways, PTL DEF Spec, NoIntervalSkipped
=============================================================================
