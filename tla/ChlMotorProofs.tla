--------------------------- MODULE ChlMotorProofs ---------------------------
(***************************************************************************)
(* Proofs for ChlMotor, for every clock width, travel time and period that *)
(* the assumptions allow: an idle wiper is released, no leg is cut short,  *)
(* and no reading is taken of a moving wiper without its tag.              *)
(*                                                                         *)
(* The argument is about time: while the wiper moves, the time it still    *)
(* needs is at most the time up to the next step of the cycle (InTime), so *)
(* the cycle takes that step, or ends, with a wiper at rest.               *)
(***************************************************************************)
EXTENDS ChlMotor, TLAPS

(* A wiper that moves is driven, and one without a cycle rests. *)
Driven == left > 0 => servo \in Ends
IdleRests == state = "idle" => left = 0

(* The cycle knows where the wiper goes, and where it is once it rests. *)
OnItsWay ==
  /\ state = "to_sweep" => servo = "sweep" /\ (left = 0 => at = "sweep")
  /\ state = "to_park" => servo = "park" /\ (left = 0 => at = "park")

(* The wiper arrives before the next step is due. *)
InTime == left > 0 => left <= Minus(next, now) /\ Minus(next, now) <= Travel

(* A conversion that began while the wiper moved will be tagged. *)
WillBeTagged == pc = "convert" /\ overlapped => busyBefore

IInv ==
  /\ TypeOK /\ Driven /\ IdleRests /\ OnItsWay /\ InTime /\ WillBeTagged
  /\ IdleIsReleased /\ MovingIsTagged

(* Unsigned sums and differences are times, and a difference to a sum is   *)
(* the number added.                                                       *)
LEMMA ClockArithmetic ==
  ASSUME NEW a \in Time, NEW b \in Time, NEW d \in 0..(M - 1)
  PROVE  /\ Plus(a, d) \in Time /\ Minus(a, b) \in Time
         /\ Minus(Plus(a, d), a) = d
         /\ d <= Minus(b, a) => Minus(b, Plus(a, d)) = Minus(b, a) - d
BY ChlMotorAssumption DEF Plus, Minus, Time

LEMMA InitIInv == Init => IInv
  <1> SUFFICES ASSUME Init
               PROVE  IInv
    OBVIOUS
  <1>1. /\ motorReady \in BOOLEAN /\ failed \in BOOLEAN /\ kept \in BOOLEAN
        /\ overlapped \in BOOLEAN /\ busyBefore \in BOOLEAN
    BY DEF Init
  <1>2. TypeOK
    BY <1>1, ChlMotorAssumption DEF Init, TypeOK, Ends, Time
  <1>3. IdleIsReleased
    BY DEF Init, IdleIsReleased
  <1>4. Driven /\ IdleRests /\ OnItsWay /\ InTime /\ WillBeTagged /\ MovingIsTagged
    BY DEF Init, Driven, IdleRests, OnItsWay, InTime, WillBeTagged, MovingIsTagged
  <1> QED BY <1>2, <1>3, <1>4 DEF IInv

(* While the wiper moves, the next step is not due. *)
LEMMA MovesNotYet ==
  ASSUME IInv, left > 0
  PROVE  NotYet
  <1>1. /\ now \in Time /\ next \in Time /\ left \in Nat
        /\ left <= Minus(next, now) /\ Minus(next, now) <= Travel
    BY ChlMotorAssumption DEF IInv, TypeOK, InTime
  <1>2. Minus(now, next) = M - Minus(next, now)
    BY <1>1, ChlMotorAssumption DEF Minus, Time
  <1>3. 2 * ((M - 1) \div 2) <= M - 1
    BY ChlMotorAssumption
  <1> QED BY <1>1, <1>2, <1>3, ChlMotorAssumption, ClockArithmetic DEF NotYet, Time

(* When a step of the cycle is due, the wiper is where the cycle sent it. *)
LEMMA ArrivedWhenDue ==
  ASSUME IInv, ~NotYet
  PROVE  /\ left = 0
         /\ state = "to_sweep" => at = "sweep"
         /\ state = "to_park" => at = "park"
  <1>1. left \in Nat
    BY ChlMotorAssumption DEF IInv, TypeOK
  <1> QED BY <1>1, MovesNotYet DEF IInv, OnItsWay

(* A new leg starts with the time it needs. *)
LEMMA StartLegStep ==
  ASSUME IInv, NEW end \in Ends, StartLeg(end), now' = now, UNCHANGED motorReady
  PROVE  /\ state' = IF end = "sweep" THEN "to_sweep" ELSE "to_park"
         /\ next' \in Time /\ servo' = end /\ left' \in 0..Reach
         /\ at' \in Ends \union {"between"} /\ failed' = FALSE /\ kept' = kept
         /\ Driven' /\ IdleRests' /\ OnItsWay' /\ InTime'
  <1>1. now \in Time /\ Travel \in 0..(M - 1) /\ next' = Plus(now, Travel)
    BY ChlMotorAssumption DEF IInv, TypeOK, StartLeg
  <1>2. next' \in Time /\ Minus(next', now') = Travel
    BY <1>1, ClockArithmetic
  <1>3. /\ servo' = end /\ failed' = FALSE /\ kept' = kept
        /\ left' \in {0, Reach} /\ at' \in {end, "between"}
        /\ left' = 0 => at' = end
    BY ChlMotorAssumption DEF StartLeg, Drive
  <1>4. InTime'
    BY <1>2, <1>3, ChlMotorAssumption DEF InTime, Minus
  <1> QED BY <1>2, <1>3, <1>4, ChlMotorAssumption
       DEF StartLeg, Driven, IdleRests, OnItsWay, Ends

(* A cycle that ends at a due step leaves a wiper at rest. *)
LEMMA StopStep ==
  ASSUME IInv, ~NotYet, state' = "idle", Release
  PROVE  /\ servo' \in Ends \union {"off"} /\ left' = 0 /\ at' = at
         /\ failed' \in BOOLEAN /\ kept' \in BOOLEAN
         /\ Driven' /\ IdleRests' /\ OnItsWay' /\ InTime' /\ IdleIsReleased'
  <1>1. left = 0 /\ servo \in Ends \union {"off"}
    BY ArrivedWhenDue DEF IInv, TypeOK
  <1>2. failed' \in BOOLEAN /\ kept' \in BOOLEAN /\ IdleIsReleased'
    BY DEF Release, IdleIsReleased
  <1>3. servo' \in Ends \union {"off"} /\ left' = 0 /\ at' = at
    BY <1>1 DEF Release, wiper
  <1> QED BY <1>2, <1>3 DEF Driven, IdleRests, OnItsWay, InTime

(* Time brings the wiper and the next step nearer by as much. *)
LEMMA PassStep ==
  ASSUME IInv, NEW d \in 0..(M - 1), Pass(d), UNCHANGED motor
  PROVE  /\ now' \in Time /\ left' \in 0..Reach /\ at' \in Ends \union {"between"}
         /\ servo' = servo
         /\ Driven' /\ IdleRests' /\ OnItsWay' /\ InTime'
  <1>1. /\ now \in Time /\ next \in Time /\ left \in 0..Reach /\ Reach \in Nat /\ d \in Nat
        /\ at \in Ends \union {"between"}
    BY ChlMotorAssumption DEF IInv, TypeOK
  <1>2. /\ now' = Plus(now, d) /\ next' = next /\ servo' = servo /\ state' = state
        /\ left' = IF left > d THEN left - d ELSE 0
        /\ at' = IF left \in 1..d THEN servo ELSE at
    BY DEF Pass, motor
  <1>3. now' \in Time /\ left' \in 0..Reach
    BY <1>1, <1>2, ClockArithmetic
  <1>4. Driven' /\ IdleRests'
    BY <1>1, <1>2 DEF IInv, Driven, IdleRests
  <1>5. at' \in Ends \union {"between"}
    BY <1>1, <1>2 DEF IInv, Driven
  <1>6. OnItsWay'
    BY <1>1, <1>2 DEF IInv, OnItsWay
  <1>7. InTime'
    <2> SUFFICES ASSUME left' > 0
                 PROVE  left' <= Minus(next', now') /\ Minus(next', now') <= Travel
      BY DEF InTime
    <2>1. left > d /\ left' = left - d /\ left <= Minus(next, now) /\ Minus(next, now) <= Travel
      BY <1>1, <1>2 DEF IInv, InTime
    <2>2. Minus(next, now) \in Nat
      BY <1>1, ClockArithmetic, ChlMotorAssumption DEF Time
    <2>3. Minus(next', now') = Minus(next, now) - d
      BY <1>1, <1>2, <2>1, <2>2, ClockArithmetic
    <2> QED BY <1>1, <2>1, <2>2, <2>3, ChlMotorAssumption
  <1> QED BY <1>2, <1>3, <1>4, <1>5, <1>6, <1>7

(* A step outside the conversion keeps the reading it has. *)
LEMMA TagStep ==
  ASSUME IInv, pc' # "convert", UNCHANGED reading
  PROVE  WillBeTagged' /\ MovingIsTagged'
  BY DEF IInv, reading, WillBeTagged, MovingIsTagged

LEMMA NextIInv == IInv /\ [Next]_vars => IInv'
  <1> SUFFICES ASSUME IInv, [Next]_vars
               PROVE  IInv'
    OBVIOUS
  <1> USE DEF failures, timers, reading, motor
  <1>1. CASE ServiceWaits
    BY <1>1 DEF ServiceWaits, IInv, TypeOK, Driven, IdleRests, OnItsWay, InTime, WillBeTagged,
         IdleIsReleased, MovingIsTagged, wiper, Minus
  <1>2. CASE SweepEnds
    <2>1. CASE StartLeg("park")
      BY <1>2, <2>1, StartLegStep DEF SweepEnds, IInv, TypeOK, WillBeTagged, IdleIsReleased,
           MovingIsTagged, Ends
    <2>2. CASE Abort
      <3>1. /\ Release /\ ~NotYet /\ state' = "idle" /\ next' = next /\ pc' = "clean"
            /\ UNCHANGED <<now, motorReady, timers, reading>> /\ remaining' \in 0..255
        BY <1>2, <2>2 DEF SweepEnds, Abort, IInv, TypeOK
      <3>2. /\ servo' \in Ends \union {"off"} /\ left' = 0 /\ at' = at
            /\ failed' \in BOOLEAN /\ kept' \in BOOLEAN
        BY <3>1, StopStep
      <3>3. TypeOK'
        BY <3>1, <3>2, ChlMotorAssumption DEF IInv, TypeOK
      <3> QED BY <3>1, <3>3, StopStep, TagStep DEF IInv
    <2> QED BY <1>2, <2>1, <2>2 DEF SweepEnds
  <1>3. CASE PassEnds
    <2>1. CASE StartLeg("sweep")
      <3>1. /\ pc' = "clean" /\ UNCHANGED <<now, motorReady, timers, reading>>
            /\ remaining' \in 0..255
        BY <1>3 DEF PassEnds, IInv, TypeOK
      <3>2. TypeOK' /\ IdleIsReleased'
        BY <2>1, <3>1, StartLegStep DEF IInv, TypeOK, IdleIsReleased, Ends
      <3> QED BY <2>1, <3>1, <3>2, StartLegStep, TagStep DEF IInv, Ends
    <2>2. CASE Abort
      <3>1. /\ Release /\ ~NotYet /\ state' = "idle" /\ next' = next /\ pc' = "clean"
            /\ UNCHANGED <<now, motorReady, timers, reading>> /\ remaining' \in 0..255
        BY <1>3, <2>2 DEF PassEnds, Abort, IInv, TypeOK
      <3>2. /\ servo' \in Ends \union {"off"} /\ left' = 0 /\ at' = at
            /\ failed' \in BOOLEAN /\ kept' \in BOOLEAN
        BY <3>1, StopStep
      <3>3. TypeOK'
        BY <3>1, <3>2, ChlMotorAssumption DEF IInv, TypeOK
      <3> QED BY <3>1, <3>3, StopStep, TagStep DEF IInv
    <2> QED BY <1>3, <2>1, <2>2 DEF PassEnds
  <1>4. CASE CycleEnds
    <2>1. /\ Release /\ ~NotYet /\ state' = "idle" /\ next' = next /\ pc' = "clean"
          /\ UNCHANGED <<now, motorReady, timers, reading>> /\ remaining' \in 0..255
      BY <1>4 DEF CycleEnds
    <2>2. /\ servo' \in Ends \union {"off"} /\ left' = 0 /\ at' = at
          /\ failed' \in BOOLEAN /\ kept' \in BOOLEAN
      BY <2>1, StopStep
    <2>3. TypeOK'
      BY <2>1, <2>2, ChlMotorAssumption DEF IInv, TypeOK
    <2> QED BY <2>1, <2>3, StopStep, TagStep DEF IInv
  <1>5. CASE CleanNotDue
    BY <1>5 DEF CleanNotDue, IInv, TypeOK, Driven, IdleRests, OnItsWay, InTime, WillBeTagged,
         IdleIsReleased, MovingIsTagged, wiper, Minus
  <1>6. CASE CleanRefused
    BY <1>6 DEF CleanRefused, IInv, TypeOK, Driven, IdleRests, OnItsWay, InTime, WillBeTagged,
         IdleIsReleased, MovingIsTagged, wiper, Minus
  <1>7. CASE CleanStarts
    <2>1. CASE StartLeg("sweep") /\ remaining' = Sweeps
      <3>1. Sweeps \in 0..255
        BY ChlMotorAssumption
      <3> QED BY <1>7, <2>1, <3>1, StartLegStep DEF CleanStarts, IInv, TypeOK, WillBeTagged,
               IdleIsReleased, MovingIsTagged, Ends
    <2>2. CASE failed' = TRUE /\ UNCHANGED <<state, remaining, next, wiper, kept>>
      BY <1>7, <2>2 DEF CleanStarts, IInv, TypeOK, Driven, IdleRests, OnItsWay, InTime,
           WillBeTagged, IdleIsReleased, MovingIsTagged, wiper, Minus
    <2> QED BY <1>7, <2>1, <2>2 DEF CleanStarts
  <1>8. CASE ReadNotDue
    BY <1>8 DEF ReadNotDue, IInv, TypeOK, Driven, IdleRests, OnItsWay, InTime, WillBeTagged,
         IdleIsReleased, MovingIsTagged, wiper, Minus
  <1>9. CASE ReadStarts
    BY <1>9, ChlMotorAssumption DEF ReadStarts, IInv, TypeOK, Driven, IdleRests, OnItsWay, InTime,
         WillBeTagged, IdleIsReleased, MovingIsTagged, wiper, Minus
  <1>10. CASE Convert
    <2>1. PICK d \in 0..MaxConversion : Pass(d)
      BY <1>10 DEF Convert
    <2>2. d \in 0..(M - 1) /\ UNCHANGED motor
      BY <1>10, ChlMotorAssumption DEF Convert
    <2> QED BY <1>10, <2>1, <2>2, PassStep DEF Convert, IInv, TypeOK, WillBeTagged,
             IdleIsReleased, MovingIsTagged
  <1>11. CASE Delay
    <2>1. PICK d \in 1..MaxDelay : Pass(d)
      BY <1>11 DEF Delay
    <2>2. d \in 0..(M - 1) /\ UNCHANGED motor
      BY <1>11, ChlMotorAssumption DEF Delay
    <2>3. /\ now' \in Time /\ left' \in 0..Reach /\ at' \in Ends \union {"between"}
          /\ servo' = servo /\ Driven' /\ IdleRests' /\ OnItsWay' /\ InTime'
      BY <2>1, <2>2, PassStep
    <2>4. TypeOK' /\ IdleIsReleased'
      BY <1>11, <2>3 DEF Delay, IInv, TypeOK, IdleIsReleased
    <2>5. WillBeTagged' /\ MovingIsTagged'
      BY <1>11 DEF Delay, WillBeTagged, MovingIsTagged
    <2> QED BY <2>3, <2>4, <2>5 DEF IInv
  <1>12. CASE UNCHANGED vars
    BY <1>12 DEF vars, wiper, IInv, TypeOK, Driven, IdleRests, OnItsWay, InTime, WillBeTagged,
         IdleIsReleased, MovingIsTagged, Minus
  <1> QED BY <1>1, <1>2, <1>3, <1>4, <1>5, <1>6, <1>7, <1>8, <1>9, <1>10, <1>11, <1>12 DEF Next

THEOREM Inductive == Spec => []IInv
  BY InitIInv, NextIInv, PTL DEF Spec

(* Every variable keeps to its type: the unsigned clock arithmetic of the  *)
(* loop, and sweeps that are counted down to zero and no further.          *)
THEOREM TypeCorrect == Spec => []TypeOK
  BY Inductive, PTL DEF IInv

(* A reading that is logged without the tag was taken of a wiper at rest,  *)
(* whatever the periods and wherever the clock rolls over.                 *)
THEOREM ReadingsTagged == Spec => []MovingIsTagged
  BY Inductive, PTL DEF IInv

(* However a cycle ends, the servo is let go unless motorRelease() fails. *)
THEOREM Released == Spec => []IdleIsReleased
  BY Inductive, PTL DEF IInv

LEMMA StrokeStep ==
  ASSUME IInv, [Next]_vars
  PROVE  /\ state = "to_sweep" /\ state' # state => at = "sweep"
         /\ state = "to_park" /\ state' # state => at = "park"
  <1>1. CASE ~NotYet
    BY <1>1, ArrivedWhenDue
  <1>2. CASE NotYet
    BY <1>2 DEF Next, vars, motor, ServiceWaits, SweepEnds, PassEnds, CycleEnds, CleanNotDue,
         CleanRefused, CleanStarts, ReadNotDue, ReadStarts, Convert, Delay
  <1> QED BY <1>1, <1>2

(* No leg of a cycle is cut short, for any clock width of more than twice  *)
(* the travel time and wherever the clock rolls over.                      *)
THEOREM StrokesAreFinished == Spec => StrokesFinished
  <1>1. IInv /\ [Next]_vars =>
          [/\ (state = "to_sweep" /\ state' # state => at = "sweep")
           /\ (state = "to_park" /\ state' # state => at = "park")]_vars
    BY StrokeStep
  <1> QED BY <1>1, Inductive, PTL DEF Spec, StrokesFinished
=============================================================================
