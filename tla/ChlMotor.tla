------------------------------ MODULE ChlMotor ------------------------------
(***************************************************************************)
(* The wiper of the chlorophyll sensor (apps/bm_devkit/CHL_Setup): the     *)
(* cleaning cycle in motor_code.cpp and the loop of user_code.cpp that     *)
(* advances it, starts it and reads the sensor.                            *)
(*                                                                         *)
(* One task runs the loop.  A pass is motorService(), the cleaning timer,  *)
(* the reading and a delay.  Time passes in a conversion and in the delay, *)
(* which also stands for the time of the other calls.  It is an unsigned   *)
(* number of M values.  Any command on the I2C bus may fail and is then    *)
(* not carried out.                                                        *)
(*                                                                         *)
(* The servo is external: it takes Reach from one end to the other and     *)
(* stops where it is when it is released.                                  *)
(***************************************************************************)
EXTENDS Integers

CONSTANTS
  M,              (* values of an uint32_t                                 *)
  Travel,         (* MOTOR_SWEEP_TRAVEL_MS                                 *)
  Reach,          (* time the servo needs                                  *)
  Sweeps,         (* MOTOR_CLEAN_SWEEPS                                    *)
  CleanPeriod,    (* MOTOR_CLEAN_PERIOD_MS                                 *)
  ReadPeriod,     (* CHL_READ_PERIOD_MS                                    *)
  MaxConversion,  (* ADS1115_CONVERSION_POLL_MS times ..._TRIES            *)
  MaxDelay        (* longest rest of a pass                                *)

ASSUME ChlMotorAssumption ==
  /\ M \in Nat /\ Travel \in Nat /\ Reach \in 1..Travel /\ 2 * Travel < M
  /\ Sweeps \in 1..255 /\ CleanPeriod \in Nat /\ ReadPeriod \in Nat
  /\ MaxConversion \in 0..(M - 1) /\ MaxDelay \in 1..(M - 1)

VARIABLES
  pc,         (* the step of the loop                                      *)
  now,        (* (uint32_t)uptimeGetMs()                                   *)
  motorReady, state, remaining, next,   (* of motor_code.cpp               *)
  cleanTimer, readTimer, busyBefore,    (* of loop()                       *)
  servo,      (* the output of the controller: "off" or an end             *)
  at,         (* where the wiper is: an end, or "between"                  *)
  left,       (* time that the movement still takes, 0 at rest             *)
  failed,     (* the last motor command has failed                         *)
  kept,       (* the last motorRelease() has failed                        *)
  overlapped, (* the wiper moved during the conversion of this pass        *)
  log         (* the reading of this pass: "none", "clear" or "tagged"     *)

motor   == <<motorReady, state, remaining, next>>
timers  == <<cleanTimer, readTimer, busyBefore>>
wiper   == <<servo, at, left>>
failures == <<failed, kept>>
reading == <<overlapped, log>>
vars    == <<pc, now, motor, timers, wiper, failures, reading>>

Ends == {"park", "sweep"}
Time == 0..(M - 1)

TypeOK ==
  /\ pc \in {"service", "clean", "read", "convert", "delay"} /\ now \in Time
  /\ motorReady \in BOOLEAN /\ state \in {"idle", "to_sweep", "to_park"}
  /\ remaining \in 0..255 /\ next \in Time
  /\ cleanTimer \in Time /\ readTimer \in Time /\ busyBefore \in BOOLEAN
  /\ servo \in Ends \union {"off"} /\ at \in Ends \union {"between"} /\ left \in 0..Reach
  /\ failed \in BOOLEAN /\ kept \in BOOLEAN /\ overlapped \in BOOLEAN
  /\ log \in {"none", "clear", "tagged"}

-----------------------------------------------------------------------------
(* Unsigned addition and subtraction. *)
Plus(a, b)  == IF a + b < M THEN a + b ELSE a + b - M
Minus(a, b) == IF a >= b THEN a - b ELSE a - b + M

(* The outcomes of motorInit(): no controller, a wiper that could not be   *)
(* parked, and one that was parked and let go, or not.                     *)
Init ==
  /\ pc = "service" /\ now = 0 /\ cleanTimer = 0 /\ readTimer = 0 /\ busyBefore = FALSE
  /\ state = "idle" /\ remaining = 0 /\ next = 0
  /\ motorReady \in BOOLEAN /\ failed \in BOOLEAN /\ left = 0
  /\ \/ servo = "off" /\ at \in Ends \union {"between"} /\ (motorReady => failed)
     \/ servo = "off" /\ at = "park" /\ motorReady /\ ~failed
     \/ servo = "park" /\ at = "park" /\ motorReady /\ failed
  /\ kept = (servo # "off") /\ overlapped = FALSE /\ log = "none"

(* The wiper while time passes. *)
Pass(d) ==
  /\ now' = Plus(now, d)
  /\ left' = IF left > d THEN left - d ELSE 0
  /\ at' = IF left \in 1..d THEN servo ELSE at
  /\ UNCHANGED servo

(* motorSetAngle() of an end. *)
Drive(end) ==
  /\ servo' = end /\ failed' = FALSE /\ UNCHANGED kept
  /\ IF at = end THEN left' = 0 /\ UNCHANGED at ELSE left' = Reach /\ at' = "between"

(* motorRelease() *)
Release ==
  \/ servo' = "off" /\ left' = 0 /\ failed' = FALSE /\ kept' = FALSE /\ UNCHANGED at
  \/ failed' = TRUE /\ kept' = TRUE /\ UNCHANGED wiper

(* Mutant: the leg is timed from the end of the last one. *)
StartLegDrifts(end) ==
  /\ Drive(end)
  /\ state' = IF end = "sweep" THEN "to_sweep" ELSE "to_park"
  /\ next' = Plus(next, Travel)

(* A leg of the cycle, timed from its command. *)
StartLeg(end) ==
  /\ Drive(end)
  /\ state' = IF end = "sweep" THEN "to_sweep" ELSE "to_park"
  /\ next' = Plus(now, Travel)

(* Mutant: an aborted cycle keeps the servo driven. *)
AbortDriven == state' = "idle" /\ failed' = TRUE /\ UNCHANGED <<next, wiper, kept>>

(* The command of a leg fails, and motorRelease() may fail too. *)
Abort == state' = "idle" /\ Release /\ UNCHANGED next

(* Mutant: plain comparison. *)
NotYetPlain == now < next

(* motorNextStepMs is ahead: the unsigned difference is above UINT32_MAX / 2. *)
NotYet == Minus(now, next) > (M - 1) \div 2

(* motorService() has nothing to do. *)
ServiceWaits ==
  /\ pc = "service" /\ (state = "idle" \/ NotYet) /\ pc' = "clean"
  /\ UNCHANGED <<now, motor, timers, wiper, failures, reading>>

(* Mutant: the cycle counts as over with the command to return. *)
SweepEndsIdle ==
  /\ pc = "service" /\ state = "to_sweep" /\ ~NotYet /\ pc' = "clean"
  /\ Drive("park") /\ state' = "idle"
  /\ UNCHANGED <<now, motorReady, remaining, next, timers, reading>>

(* At the far end: head back. *)
SweepEnds ==
  /\ pc = "service" /\ state = "to_sweep" /\ ~NotYet /\ pc' = "clean"
  /\ StartLeg("park") \/ Abort
  /\ UNCHANGED <<now, motorReady, remaining, timers, reading>>

(* Back at park: out once more ... *)
PassEnds ==
  /\ pc = "service" /\ state = "to_park" /\ ~NotYet /\ remaining > 1 /\ pc' = "clean"
  /\ remaining' = remaining - 1
  /\ StartLeg("sweep") \/ Abort
  /\ UNCHANGED <<now, motorReady, timers, reading>>

(* ... or the cycle is complete, and the servo let go. *)
CycleEnds ==
  /\ pc = "service" /\ state = "to_park" /\ ~NotYet /\ remaining = 1 /\ pc' = "clean"
  /\ remaining' = 0 /\ state' = "idle" /\ Release
  /\ UNCHANGED <<now, motorReady, next, timers, reading>>

-----------------------------------------------------------------------------
(* The cleaning timer, which runs again even if the cycle cannot start. *)
CleanNotDue ==
  /\ pc = "clean" /\ Minus(now, cleanTimer) < CleanPeriod /\ pc' = "read"
  /\ UNCHANGED <<now, motor, timers, wiper, failures, reading>>

(* motorStartCleaningCycle(): without a controller, or with a cycle under  *)
(* way, it is refused ...                                                  *)
CleanRefused ==
  /\ pc = "clean" /\ Minus(now, cleanTimer) >= CleanPeriod /\ pc' = "read"
  /\ ~motorReady \/ state # "idle"
  /\ cleanTimer' = now
  /\ UNCHANGED <<now, motor, readTimer, busyBefore, wiper, failures, reading>>

(* ... or the first sweep is commanded, which may fail. *)
CleanStarts ==
  /\ pc = "clean" /\ Minus(now, cleanTimer) >= CleanPeriod /\ pc' = "read"
  /\ motorReady /\ state = "idle"
  /\ cleanTimer' = now
  /\ \/ StartLeg("sweep") /\ remaining' = Sweeps
     \/ failed' = TRUE /\ UNCHANGED <<state, remaining, next, wiper, kept>>
  /\ UNCHANGED <<now, motorReady, readTimer, busyBefore, reading>>

(* The reading, when it is due. *)
ReadNotDue ==
  /\ pc = "read" /\ Minus(now, readTimer) < ReadPeriod /\ pc' = "delay"
  /\ UNCHANGED <<now, motor, timers, wiper, failures, reading>>

ReadStarts ==
  /\ pc = "read" /\ Minus(now, readTimer) >= ReadPeriod /\ pc' = "convert"
  /\ readTimer' = now /\ busyBefore' = (state # "idle")
  /\ overlapped' = (left > 0) /\ log' = "none"
  /\ UNCHANGED <<now, motor, cleanTimer, wiper, failures>>

(* readVoltage(), and what is logged if it does not fail. *)
Convert ==
  /\ pc = "convert" /\ pc' = "delay"
  /\ \E d \in 0..MaxConversion : Pass(d)
  /\ \/ UNCHANGED log
     \/ log' = IF busyBefore \/ state # "idle" THEN "tagged" ELSE "clear"
  /\ UNCHANGED <<motor, timers, failures, overlapped>>

(* The rest of the pass. *)
Delay ==
  /\ pc = "delay" /\ pc' = "service"
  /\ \E d \in 1..MaxDelay : Pass(d)
  /\ busyBefore' = FALSE /\ overlapped' = FALSE /\ log' = "none"
  /\ UNCHANGED <<motor, cleanTimer, readTimer, failures>>

Next ==
  \/ ServiceWaits \/ SweepEnds \/ PassEnds \/ CycleEnds
  \/ CleanNotDue \/ CleanRefused \/ CleanStarts
  \/ ReadNotDue \/ ReadStarts \/ Convert \/ Delay

Spec == Init /\ [][Next]_vars /\ WF_vars(Next)

-----------------------------------------------------------------------------
(* A reading without the tag "During Motor" was taken while the wiper was  *)
(* at rest: the state of the cycle covers the whole movement.              *)
MovingIsTagged == log = "clear" => ~overlapped

(* Without a cycle the servo holds no torque, however the last one ended,  *)
(* unless motorRelease() itself has failed.                                *)
IdleIsReleased == state = "idle" => servo = "off" \/ kept

(* No leg is cut short: a cycle leaves an end only when the wiper has      *)
(* reached it, also when the clock rolls over in the middle of a leg.      *)
StrokesFinished ==
  [][/\ (state = "to_sweep" /\ state' # state => at = "sweep")
     /\ (state = "to_park" /\ state' # state => at = "park")]_vars

(* A controller that is there wipes again and again, unless its commands   *)
(* keep failing, and no cycle goes on for ever.                            *)
WipesAgain ==
  motorReady /\ <>[]~failed => []<>(state = "to_sweep") /\ []<>(state = "idle")
=============================================================================
