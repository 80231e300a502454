----------------------------- MODULE BridgePower -----------------------------
(***************************************************************************)
(* The bridge power controller (apps/bridge/bridgePowerController.cpp):    *)
(* the task that switches the Bristlemouth bus by the sampling schedule,   *)
(* and the calls that other tasks make into it while it runs.              *)
(*                                                                         *)
(* The task is a program counter with one action between two points where  *)
(* another task's step matters; a call of setBusPowerAndSetSignal() is the *)
(* actions Bus..., entered with pc = "bus" and left to pc = after.         *)
(*                                                                         *)
(* Time: ticks counts seconds of uptime.  A handler and the 15 ms charge   *)
(* delay take no time on that scale, so ticks advances only while the task *)
(* sleeps and no call is half way.  The schedule reads ticks or the RTC    *)
(* (ticks + rtcOffset), which may be set at any moment; sleeping is always *)
(* measured in ticks.                                                      *)
(***************************************************************************)
EXTENDS PowerTiming, FiniteSets

CONSTANTS
  RawConfigs,  (* configurations the flash may hold at boot                *)
  Callers,     (* tasks that call powerControlEnable (NCP processor, CLI...) *)
  ON, OFF,     (* bits of the event group                                  *)
  INIT_S,      (* INIT_POWER_ON_TIMEOUT_MS                                 *)
  IDLE_S,      (* TIMEBASE_NOT_SET_SLEEP_MS                                *)
  RtcOffsets,  (* what the RTC may be set to, relative to ticks            *)
  MaxTicks,    (* bound: seconds of uptime explored                        *)
  MaxCalls,    (* bound: calls of powerControlEnable                       *)
  MaxToggles,  (* bound: calls of subsampleEnable                          *)
  MaxJumps     (* bound: times a set RTC is set again                      *)

ASSUME BridgePowerAssumption ==
  /\ RawConfigs \subseteq RawConfig
  /\ INIT_S \in Nat /\ IDLE_S \in Nat
  /\ RtcOffsets \subseteq Nat
  /\ {MaxTicks, MaxCalls, MaxToggles, MaxJumps} \subseteq Nat
  /\ ON # OFF

VARIABLES
  \* fields of the controller
  conf, enabled, subsampling, sampleStart, subStart, timebaseSet, initDone,
  \* pins, event group, and the L2 interface the controller powers
  load, boost, bits, netif, port2,
  \* the controller's task: where it is, its locals, its notification state
  pc, after, goal, cycle, sleepS, wakeAt, notified,
  \* the notification bit of the sensor controller's task
  aggregation,
  \* the other tasks inside powerControlEnable, and the clocks
  caller, calls, toggles, ticks, rtcOffset, rtcSet, jumps

fields  == <<conf, enabled, subsampling, sampleStart, subStart, timebaseSet, initDone>>
pins    == <<load, boost, bits, netif, port2>>
locals  == <<after, goal, cycle, sleepS, wakeAt>>
callers == <<caller, calls, toggles>>
clocks  == <<ticks, rtcOffset, rtcSet, jumps>>
vars    == <<fields, pins, pc, locals, notified, aggregation, callers, clocks>>

(* getCurrentTimeS() *)
Now == IF conf.ticksSampling THEN ticks ELSE ticks + rtcOffset

NextStart(now) == AlignNextInterval(now, sampleStart, conf.sampleIntervalS, conf.alignmentS)

Init ==
  /\ \E c \in RawConfigs : conf = ValidateConfig(c)
  /\ enabled = conf.enabled
  /\ subsampling = conf.subsampling
  /\ sampleStart = 0 /\ subStart = 0
  /\ timebaseSet = FALSE /\ initDone = FALSE
  /\ load = FALSE /\ boost = FALSE /\ bits = {}
  /\ netif = TRUE       (* bcl_init() has powered the interface already *)
  /\ port2 = FALSE      (* app_main has disabled port 2                 *)
  /\ pc = "update" /\ after = "update"
  /\ goal = [on |-> FALSE, l2 |-> FALSE]
  /\ cycle = 0 /\ sleepS = 0 /\ wakeAt = 0
  /\ notified = FALSE /\ aggregation = FALSE
  /\ caller = [c \in Callers |-> "idle"] /\ calls = 0 /\ toggles = 0
  /\ ticks = 0 /\ jumps = 0
  /\ rtcSet \in BOOLEAN (* the RTC survives a reset on its battery *)
  /\ rtcOffset \in IF rtcSet THEN RtcOffsets ELSE {0}

-----------------------------------------------------------------------------
(* setBusPowerAndSetSignal(on, l2), continuing at label next *)
SetBusPower(on, l2, next) ==
  /\ goal' = [on |-> on, l2 |-> l2]
  /\ after' = next
  /\ pc' = "bus"

(* The task blocks in xTaskNotifyWait for s seconds. *)
SleepFor(s) ==
  /\ wakeAt' = ticks + s
  /\ pc' = "wait"

(* The bus is already as wanted: nothing happens, no bit is touched. *)
BusKept ==
  /\ pc = "bus" /\ load = goal.on
  /\ pc' = after
  /\ UNCHANGED <<fields, pins, locals, notified, aggregation, callers, clocks>>

(* Mutant: OFF stays raised while the bus powers up. *)
BusRiseKeepsOff ==
  /\ pc = "bus" /\ ~load /\ goal.on
  /\ boost' = TRUE
  /\ pc' = "charge"
  /\ UNCHANGED <<fields, load, bits, netif, port2, locals, notified, aggregation, callers, clocks>>

BusRise ==
  /\ pc = "bus" /\ ~load /\ goal.on
  /\ bits' = bits \ {OFF}
  /\ boost' = TRUE
  /\ pc' = "charge"
  /\ UNCHANGED <<fields, load, netif, port2, locals, notified, aggregation, callers, clocks>>

BusClose ==
  /\ pc = "charge"
  /\ load' = TRUE
  /\ pc' = "signal"
  /\ UNCHANGED <<fields, boost, bits, netif, port2, locals, notified, aggregation, callers,
                 clocks>>

(* Mutant: ON stays raised while the bus powers down. *)
BusFallKeepsOn ==
  /\ pc = "bus" /\ load /\ ~goal.on
  /\ load' = FALSE
  /\ pc' = "drain"
  /\ UNCHANGED <<fields, boost, bits, netif, port2, locals, notified, aggregation, callers, clocks>>

BusFall ==
  /\ pc = "bus" /\ load /\ ~goal.on
  /\ bits' = bits \ {ON}
  /\ load' = FALSE
  /\ pc' = "drain"
  /\ UNCHANGED <<fields, boost, netif, port2, locals, notified, aggregation, callers, clocks>>

BusDrain ==
  /\ pc = "drain"
  /\ boost' = FALSE
  /\ pc' = "signal"
  /\ UNCHANGED <<fields, load, bits, netif, port2, locals, notified, aggregation, callers,
                 clocks>>

BusSignal ==
  /\ pc = "signal"
  /\ bits' = bits \union {IF goal.on THEN ON ELSE OFF}
  /\ pc' = "netif"
  /\ UNCHANGED <<fields, load, boost, netif, port2, locals, notified, aggregation, callers,
                 clocks>>

(* The L2 interface follows the bus, except for the first power-up; powering *)
(* it brings both of its ports up ...                                       *)
BusNetif ==
  /\ pc = "netif"
  /\ IF goal.l2 THEN netif' = goal.on /\ port2' = goal.on
                ELSE UNCHANGED <<netif, port2>>
  /\ pc' = IF goal.l2 /\ goal.on THEN "port2" ELSE after
  /\ UNCHANGED <<fields, load, boost, bits, locals, notified, aggregation, callers, clocks>>

(* ... of which the bridge does not use port 2. *)
BusPort2 ==
  /\ pc = "port2"
  /\ port2' = FALSE
  /\ pc' = after
  /\ UNCHANGED <<fields, load, boost, bits, netif, locals, notified, aggregation, callers,
                 clocks>>

-----------------------------------------------------------------------------
(* checkAndUpdateTimebase() *)
CheckTimebase ==
  IF (rtcSet \/ conf.ticksSampling) /\ ~timebaseSet
  THEN /\ sampleStart' = NextStart(Now)
       /\ subStart' = sampleStart'
       /\ timebaseSet' = TRUE
  ELSE UNCHANGED <<sampleStart, subStart, timebaseSet>>

(* Mutant: a disabled controller goes on sampling. *)
UpdateSamplesAnyway ==
  /\ pc = "update"
  /\ pc' = CASE ~initDone -> "init"
             [] initDone /\ timebaseSet -> "sample"
             [] OTHER -> "idle"
  /\ UNCHANGED <<fields, pins, locals, notified, aggregation, callers, clocks>>

(* _update() picks its branch. *)
Update ==
  /\ pc = "update"
  /\ pc' = CASE ~initDone -> "init"
             [] initDone /\ enabled /\ timebaseSet -> "sample"
             [] OTHER -> "idle"
  /\ UNCHANGED <<fields, pins, locals, notified, aggregation, callers, clocks>>

(* handleInitState(): bus on, without telling L2, for INIT_S seconds that no *)
(* notification can cut short.                                              *)
InitPowerOn ==
  /\ pc = "init"
  /\ SetBusPower(TRUE, FALSE, "initDelay")
  /\ UNCHANGED <<fields, pins, cycle, sleepS, wakeAt, notified, aggregation, callers, clocks>>

InitDelay ==
  /\ pc = "initDelay"
  /\ wakeAt' = ticks + INIT_S
  /\ pc' = "initSleep"
  /\ UNCHANGED <<fields, pins, after, goal, cycle, sleepS, notified, aggregation, callers,
                 clocks>>

InitElapsed ==
  /\ pc = "initSleep" /\ ticks >= wakeAt
  /\ CheckTimebase
  /\ IF timebaseSet' /\ sampleStart' > Now
     THEN /\ sleepS' = sampleStart' - Now
          /\ SetBusPower(~enabled \/ conf.continuous, TRUE, "initDone")
     ELSE /\ sleepS' = 0
          /\ pc' = "initDone"
          /\ UNCHANGED <<after, goal>>
  /\ UNCHANGED <<conf, enabled, subsampling, initDone, pins, cycle, wakeAt, notified,
                 aggregation, callers, clocks>>

InitDone ==
  /\ pc = "initDone"
  /\ initDone' = TRUE
  /\ SleepFor(sleepS)
  /\ UNCHANGED <<conf, enabled, subsampling, sampleStart, subStart, timebaseSet, pins, after,
                 goal, cycle, sleepS, notified, aggregation, callers, clocks>>

-----------------------------------------------------------------------------
(* handleSampleState() *)
SampleRemaining == TimeRemaining(sampleStart, Now, conf.sampleDurationS)
SubsampleRemaining == TimeRemaining(subStart, Now, conf.subsampleDurationS)

(* Mutant: an early wake sleeps a whole interval. *)
SampleEarlyOversleeps ==
  /\ pc = "sample" /\ Now < sampleStart
  /\ SleepFor(conf.sampleIntervalS)
  /\ UNCHANGED <<fields, pins, after, goal, cycle, sleepS, notified, aggregation, callers,
                 clocks>>

(* Woken before the interval starts: sleep on, the bus stays as it is. *)
SampleEarly ==
  /\ pc = "sample" /\ Now < sampleStart
  /\ SleepFor(sampleStart - Now)
  /\ UNCHANGED <<fields, pins, after, goal, cycle, sleepS, notified, aggregation, callers,
                 clocks>>

(* The window is over; the start is read again, and moved, in SampleAdvance. *)
SampleOver ==
  /\ pc = "sample" /\ Now >= sampleStart /\ SampleRemaining = 0
  /\ cycle' = Now
  /\ pc' = "advance"
  /\ UNCHANGED <<fields, pins, after, goal, sleepS, wakeAt, notified, aggregation, callers,
                 clocks>>

(* Mutant: the aggregation is notified only when the bus is switched off. *)
SampleAdvanceQuietly ==
  /\ pc = "advance"
  /\ sampleStart' = NextStart(cycle)
  /\ subStart' = sampleStart'
  /\ sleepS' = IF cycle < sampleStart' THEN sampleStart' - cycle ELSE 0
  /\ IF sampleStart' > cycle /\ ~conf.continuous
     THEN SetBusPower(FALSE, TRUE, "aggregate")
     ELSE pc' = "sleep" /\ UNCHANGED <<after, goal>>
  /\ UNCHANGED <<conf, enabled, subsampling, timebaseSet, initDone, pins, cycle, wakeAt,
                 notified, aggregation, callers, clocks>>

SampleAdvance ==
  /\ pc = "advance"
  /\ sampleStart' = NextStart(cycle)
  /\ subStart' = sampleStart'
  /\ sleepS' = IF cycle < sampleStart' THEN sampleStart' - cycle ELSE 0
  /\ IF sampleStart' > cycle /\ ~conf.continuous
     THEN SetBusPower(FALSE, TRUE, "aggregate")
     ELSE pc' = "aggregate" /\ UNCHANGED <<after, goal>>
  /\ UNCHANGED <<conf, enabled, subsampling, timebaseSet, initDone, pins, cycle, wakeAt,
                 notified, aggregation, callers, clocks>>

SampleAggregate ==
  /\ pc = "aggregate"
  /\ aggregation' = TRUE
  /\ SleepFor(sleepS)
  /\ UNCHANGED <<fields, pins, after, goal, cycle, sleepS, notified, callers, clocks>>

SampleOn ==
  /\ pc = "sample" /\ Now >= sampleStart /\ SampleRemaining > 0
  /\ ~subsampling
  /\ sleepS' = SampleRemaining
  /\ SetBusPower(TRUE, TRUE, "sleep")
  /\ UNCHANGED <<fields, pins, cycle, wakeAt, notified, aggregation, callers, clocks>>

(* handleSubsamplingState(), with a sample window running *)
InSubsampling ==
  /\ pc = "sample" /\ Now >= sampleStart /\ SampleRemaining > 0
  /\ subsampling

SubsampleEarly ==
  /\ InSubsampling /\ Now < subStart
  /\ SleepFor(Smaller(SampleRemaining, subStart - Now))
  /\ UNCHANGED <<fields, pins, after, goal, cycle, sleepS, notified, aggregation, callers,
                 clocks>>

(* Mutant: the next subsample is counted from now, so late wakes add up. *)
SubsampleOffDrifts ==
  /\ InSubsampling /\ Now >= subStart /\ SubsampleRemaining = 0
  /\ subStart' = Now + conf.subsampleIntervalS
  /\ sleepS' = Smaller(SampleRemaining, subStart' - Now)
  /\ SetBusPower(FALSE, TRUE, "sleep")
  /\ UNCHANGED <<conf, enabled, subsampling, sampleStart, timebaseSet, initDone, pins, cycle,
                 wakeAt, notified, aggregation, callers, clocks>>

SubsampleOff ==
  /\ InSubsampling /\ Now >= subStart /\ SubsampleRemaining = 0
  /\ subStart' = subStart + conf.subsampleIntervalS
  /\ sleepS' = Smaller(SampleRemaining, IF subStart' > Now THEN subStart' - Now ELSE 0)
  /\ IF subStart' > Now
     THEN SetBusPower(FALSE, TRUE, "sleep")
     ELSE pc' = "sleep" /\ UNCHANGED <<after, goal>>
  /\ UNCHANGED <<conf, enabled, subsampling, sampleStart, timebaseSet, initDone, pins, cycle,
                 wakeAt, notified, aggregation, callers, clocks>>

SubsampleOn ==
  /\ InSubsampling /\ Now >= subStart /\ SubsampleRemaining > 0
  /\ sleepS' = SubsampleRemaining
  /\ SetBusPower(TRUE, TRUE, "sleep")
  /\ UNCHANGED <<fields, pins, cycle, wakeAt, notified, aggregation, callers, clocks>>

-----------------------------------------------------------------------------

(* Mutant: disabling leaves the bus as it is. *)
IdleDisabledKeepsBus ==
  /\ pc = "idle" /\ ~enabled
  /\ sleepS' = IDLE_S
  /\ pc' = "idleCheck"
  /\ UNCHANGED <<fields, pins, after, goal, cycle, wakeAt, notified, aggregation, callers,
                 clocks>>

(* The else branch of _update(): disabled, or no timebase yet. *)
IdleDisabled ==
  /\ pc = "idle" /\ ~enabled
  /\ sleepS' = IDLE_S
  /\ IF load THEN pc' = "idleCheck" /\ UNCHANGED <<after, goal>>
             ELSE SetBusPower(TRUE, TRUE, "idleCheck")
  /\ UNCHANGED <<fields, pins, cycle, wakeAt, notified, aggregation, callers, clocks>>

(* Mutant: without a timebase the bus is left on. *)
IdleNoTimebaseKeepsBus ==
  /\ pc = "idle" /\ enabled /\ ~timebaseSet
  /\ sleepS' = IDLE_S
  /\ pc' = "idleAlign"
  /\ UNCHANGED <<fields, pins, after, goal, cycle, wakeAt, notified, aggregation, callers,
                 clocks>>

IdleNoTimebase ==
  /\ pc = "idle" /\ enabled /\ ~timebaseSet
  /\ sleepS' = IDLE_S
  /\ IF load /\ ~conf.continuous
     THEN SetBusPower(FALSE, TRUE, "idleAlign")
     ELSE pc' = "idleAlign" /\ UNCHANGED <<after, goal>>
  /\ UNCHANGED <<fields, pins, cycle, wakeAt, notified, aggregation, callers, clocks>>

(* Enabled by another task since the branch was picked. *)
IdleOvertaken ==
  /\ pc = "idle" /\ enabled /\ timebaseSet
  /\ sleepS' = IDLE_S
  /\ pc' = "idleCheck"
  /\ UNCHANGED <<fields, pins, after, goal, cycle, wakeAt, notified, aggregation, callers,
                 clocks>>

(* Mutant: the sleep is computed even when no timebase was found. *)
IdleAlignUnguarded ==
  /\ pc = "idleAlign"
  /\ CheckTimebase
  /\ sleepS' = sampleStart' - Now
  /\ pc' = "idleCheck"
  /\ UNCHANGED <<conf, enabled, subsampling, initDone, pins, after, goal, cycle, wakeAt,
                 notified, aggregation, callers, clocks>>

IdleAlign ==
  /\ pc = "idleAlign"
  /\ CheckTimebase
  /\ sleepS' = IF timebaseSet' /\ sampleStart' > Now THEN sampleStart' - Now ELSE sleepS
  /\ pc' = "idleCheck"
  /\ UNCHANGED <<conf, enabled, subsampling, initDone, pins, after, goal, cycle, wakeAt,
                 notified, aggregation, callers, clocks>>

IdleCheck ==
  /\ pc = "idleCheck"
  /\ CheckTimebase
  /\ SleepFor(sleepS)
  /\ UNCHANGED <<conf, enabled, subsampling, initDone, pins, after, goal, cycle, sleepS,
                 notified, aggregation, callers, clocks>>

Sleep ==
  /\ pc = "sleep"
  /\ SleepFor(sleepS)
  /\ UNCHANGED <<fields, pins, after, goal, cycle, sleepS, notified, aggregation, callers,
                 clocks>>

(* xTaskNotifyWait returns: notified (at once, if it was before), or timed out. *)
Wake ==
  /\ pc = "wait" /\ (notified \/ ticks >= wakeAt)
  /\ notified' = FALSE
  /\ pc' = "update"
  /\ UNCHANGED <<fields, pins, locals, aggregation, callers, clocks>>

Task ==
  \/ BusKept \/ BusRise \/ BusClose \/ BusFall \/ BusDrain \/ BusSignal \/ BusNetif
  \/ BusPort2
  \/ Update \/ InitPowerOn \/ InitDelay \/ InitElapsed \/ InitDone
  \/ SampleEarly \/ SampleOver \/ SampleAdvance \/ SampleAggregate \/ SampleOn
  \/ SubsampleEarly \/ SubsampleOff \/ SubsampleOn
  \/ IdleDisabled \/ IdleNoTimebase \/ IdleOvertaken \/ IdleAlign \/ IdleCheck
  \/ Sleep \/ Wake

-----------------------------------------------------------------------------
(* powerControlEnable(e) by another task, in the order of its effects: the *)
(* flag, the realignment when enabling, the notification of the task.      *)
EnableFlag(c, e) ==
  /\ caller[c] = "idle" /\ calls < MaxCalls
  /\ enabled' = e
  /\ caller' = [caller EXCEPT ![c] = IF e THEN "align" ELSE "notify"]
  /\ calls' = calls + 1
  /\ UNCHANGED <<conf, subsampling, sampleStart, subStart, timebaseSet, initDone, pins, pc,
                 locals, notified, aggregation, toggles, clocks>>

EnableAlign(c) ==
  /\ caller[c] = "align"
  /\ IF sampleStart < Now
     THEN /\ sampleStart' = NextStart(Now)
          /\ subStart' = sampleStart'
     ELSE UNCHANGED <<sampleStart, subStart>>
  /\ caller' = [caller EXCEPT ![c] = "notify"]
  /\ UNCHANGED <<conf, enabled, subsampling, timebaseSet, initDone, pins, pc, locals,
                 notified, aggregation, calls, toggles, clocks>>

(* Mutant: the task is not notified. *)
EnableUnnotified(c) ==
  /\ caller[c] = "notify"
  /\ caller' = [caller EXCEPT ![c] = "idle"]
  /\ UNCHANGED <<fields, pins, pc, locals, notified, aggregation, calls, toggles, clocks>>

EnableNotify(c) ==
  /\ caller[c] = "notify"
  /\ notified' = TRUE
  /\ caller' = [caller EXCEPT ![c] = "idle"]
  /\ UNCHANGED <<fields, pins, pc, locals, aggregation, calls, toggles, clocks>>

(* subsampleEnable(e), from the CLI: the task is not told. *)
SubsampleEnable(e) ==
  /\ toggles < MaxToggles
  /\ subsampling' = e
  /\ toggles' = toggles + 1
  /\ UNCHANGED <<conf, enabled, sampleStart, subStart, timebaseSet, initDone, pins, pc, locals,
                 notified, aggregation, caller, calls, clocks>>

(* The sensor controller's task consumes its notification bit. *)
TakeAggregation ==
  /\ aggregation
  /\ aggregation' = FALSE
  /\ UNCHANGED <<fields, pins, pc, locals, notified, callers, clocks>>

(* The RTC is set by a UTC message, by the NCP host or by the CLI. *)
SetRtc(offset) ==
  /\ rtcSet => jumps < MaxJumps
  /\ rtcSet' = TRUE
  /\ rtcOffset' = offset
  /\ jumps' = IF rtcSet THEN jumps + 1 ELSE jumps
  /\ UNCHANGED <<fields, pins, pc, locals, notified, aggregation, callers, ticks>>

Asleep == pc \in {"wait", "initSleep"} /\ ticks < wakeAt /\ ~(pc = "wait" /\ notified)

Tick ==
  /\ Asleep /\ ticks < MaxTicks
  /\ \A c \in Callers : caller[c] = "idle"
  /\ ticks' = ticks + 1
  /\ UNCHANGED <<fields, pins, pc, locals, notified, aggregation, callers, rtcOffset, rtcSet,
                 jumps>>

Call(c) == (\E e \in BOOLEAN : EnableFlag(c, e)) \/ EnableAlign(c) \/ EnableNotify(c)

Next ==
  \/ Task
  \/ \E c \in Callers : Call(c)
  \/ \E e \in BOOLEAN : SubsampleEnable(e)
  \/ TakeAggregation
  \/ \E o \in RtcOffsets : SetRtc(o)
  \/ Tick

Spec == Init /\ [][Next]_vars

(* The scheduler runs the task and half-finished calls, and time passes; *)
(* whether anyone calls, or sets the RTC, is up to the environment.      *)
Fairness ==
  /\ WF_vars(Task)
  /\ WF_vars(Tick)
  /\ WF_vars(TakeAggregation)
  /\ \A c \in Callers : WF_vars(EnableAlign(c) \/ EnableNotify(c))

FairSpec == Spec /\ Fairness

-----------------------------------------------------------------------------
Labels ==
  {"update", "bus", "charge", "drain", "signal", "netif", "port2", "init", "initDelay",
   "initSleep", "initDone", "sample", "advance", "aggregate", "sleep", "idle", "idleAlign",
   "idleCheck", "wait"}

(* The labels a call of setBusPowerAndSetSignal() returns to. *)
Returns == {"initDelay", "initDone", "aggregate", "sleep", "idleAlign", "idleCheck"}

(* Type invariant: times never run below zero, and the task is at a label. *)
TypeOK ==
  /\ conf \in Config
  /\ enabled \in BOOLEAN /\ subsampling \in BOOLEAN
  /\ sampleStart \in Nat /\ subStart \in Nat
  /\ timebaseSet \in BOOLEAN /\ initDone \in BOOLEAN
  /\ load \in BOOLEAN /\ boost \in BOOLEAN /\ bits \subseteq {ON, OFF}
  /\ netif \in BOOLEAN /\ port2 \in BOOLEAN
  /\ pc \in Labels /\ after \in Returns \union {"update"}
  /\ goal \in [on: BOOLEAN, l2: BOOLEAN]
  /\ cycle \in Nat /\ sleepS \in Nat /\ wakeAt \in Nat
  /\ notified \in BOOLEAN /\ aggregation \in BOOLEAN
  /\ caller \in [Callers -> {"idle", "align", "notify"}]
  /\ calls \in Nat /\ toggles \in Nat
  /\ ticks \in Nat /\ rtcOffset \in Nat /\ rtcSet \in BOOLEAN /\ jumps \in Nat

(* Supply sequencing as the tasks waiting on the event group see it: the   *)
(* load switch never closes on a dead boost converter, a task woken by the *)
(* ON bit finds the bus powered, and one woken by OFF finds it down to the *)
(* boost converter, at every step of every switching.                      *)
SignalHonest ==
  /\ load => boost
  /\ ON \in bits => load
  /\ OFF \in bits => ~load /\ ~boost

(* A call of powerControlEnable is under way, or its notification waits. *)
Pending == notified \/ \E c \in Callers : caller[c] # "idle"

(* The task sleeps, and only the clock will wake it. *)
Quiet == pc = "wait" /\ ~Pending

(* "If the power control is disabled (and timebase is set) the bus is ON"  *)
(* (bridgePowerController.cpp:91), and no disable is ever lost: whatever   *)
(* the task was doing when another task disabled the controller, it never  *)
(* goes back to sleep leaving the bus without power, without its ON bit,   *)
(* or without its L2 interface.                                            *)
DisabledMeansPowered ==
  Quiet /\ ~enabled /\ timebaseSet => load /\ bits = {ON} /\ netif /\ ~port2

(* What the comment says of the other case, "If the the power control is   *)
(* disabled and timebase is not set, the bus is OFF"                       *)
(* (bridgePowerController.cpp:92), between two looks at the clock.         *)
DisabledWithoutTimebaseIsOff ==
  Quiet /\ ticks < wakeAt /\ ~enabled /\ ~timebaseSet => ~load

(* Enabled without a timebase, and not continuous, the bus is off between  *)
(* two looks at the clock (the first look right after boot excepted).      *)
NoTimebaseMeansOff ==
  Quiet /\ ticks < wakeAt /\ enabled /\ ~timebaseSet /\ ~conf.continuous
    => ~load /\ bits = {OFF} /\ ~netif

Scheduled == Quiet /\ ticks < wakeAt /\ enabled /\ timebaseSet /\ jumps = 0 /\ toggles = 0

InWindow == sampleStart <= Now /\ Now < sampleStart + conf.sampleDurationS

(* With a steady clock no sample window stays dark: whatever calls came    *)
(* before, a sleeping controller has the bus on while a window is open.    *)
(* (A timebase found with the start at this very second sleeps IDLE_S.)    *)
WindowIsPowered ==
  Scheduled /\ ~subsampling /\ InWindow /\ sampleStart + IDLE_S <= Now
    => load /\ bits = {ON} /\ netif

(* Left alone, the bus is on exactly in the sample windows, and within     *)
(* them exactly in the subsample windows when subsampling.                 *)
OnSchedule ==
  Scheduled /\ calls = 0 /\ ~conf.continuous =>
    (load <=> /\ InWindow
              /\ subsampling => (Now - sampleStart) % conf.subsampleIntervalS
                                   < conf.subsampleDurationS)

(* Left alone, the controller skips no interval: each start is the one     *)
(* before plus the interval, delayed at most to the next aligned second.   *)
NoIntervalSkipped ==
  [][timebaseSet /\ calls = 0 /\ jumps = 0 /\ toggles = 0 /\ sampleStart' # sampleStart
       => sampleStart' = RoundUp(sampleStart + conf.sampleIntervalS, conf.alignmentS)]_vars

(* The switching sequences implement the abstract supply that the modules  *)
(* of the tasks waiting on the event group are written against.            *)
Stage ==
  CASE pc = "charge" -> "charging"
    [] pc = "drain"  -> "opened"
    [] pc = "signal" -> IF goal.on THEN "closed" ELSE "drained"
    [] OTHER         -> "rest"

Bus == INSTANCE BusPower WITH stage <- Stage

(* The controller's pins and event bits behave as BusPower specifies,      *)
(* whatever the schedule, the calls and the clocks do.                     *)
ImplementsBusPower == Bus!BusSpec

(* Disabled, and no step decided while enabled is left that could switch   *)
(* the bus off.                                                            *)
Settled ==
  /\ ~enabled
  /\ pc \notin {"sample", "advance"}
  /\ pc = "bus" => goal.on

Control == INSTANCE PowerControl WITH stage <- Stage, settled <- Settled

(* Towards a task that disables it, the controller behaves as PowerControl *)
(* specifies: the bus may still go down until the task has settled, which  *)
(* it never unsettles, and from then on stays up until the next enable.    *)
ImplementsPowerControl == Control!ControlSpec

(* What the update front end relies on, "disable power control here (which *)
(* will leave the bus ON, allowing a node to be updated)"                  *)
(* (ncp_dfu.cpp:155): once powerControlEnable(false) has returned with the *)
(* bus on, it stays on until the controller is enabled again.              *)
DisableLeavesBusOn ==
  [][~enabled /\ load /\ (\A c \in Callers : caller[c] = "idle")
       => load' \/ enabled']_vars

(* What the handler's comment says of subsampling, "operates only during   *)
(* the duration period" (bridgePowerController.cpp:262-267): left alone,   *)
(* the bus of a subsampling controller has no power outside the window.    *)
SubsamplingWithinDuration ==
  Scheduled /\ calls = 0 /\ conf.subsampling /\ ~conf.continuous /\ load => InWindow

(* What the comment on sampling says, "The difference between the sampling *)
(* interval a duration is the amount of time the Bristlemouth network will *)
(* be off" (bridgePowerController.cpp:322-324), with a steady clock.       *)
OffOutsideDuration ==
  Scheduled /\ ~conf.continuous /\ ~subsampling /\ load => InWindow

(* Once disabled after boot, with a timebase, the bus comes on unless      *)
(* enabled again.                                                          *)
DisableTakesEffect == initDone /\ ~enabled /\ timebaseSet ~> load \/ enabled

(* Every window the controller opens ends in an aggregation, if no other   *)
(* task realigns the schedule and the clock runs steadily to its end.      *)
WindowAggregated ==
  (InWindow /\ Scheduled /\ calls = 0
     /\ ticks + TimeRemaining(sampleStart, Now, conf.sampleDurationS) <= MaxTicks)
    ~> (aggregation \/ calls > 0 \/ jumps > 0 \/ toggles > 0)
=============================================================================
