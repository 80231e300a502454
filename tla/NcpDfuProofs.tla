---------------------------- MODULE NcpDfuProofs ----------------------------
(***************************************************************************)
(* Proofs for NcpDfu with a patient host, for any number of starts, resets *)
(* and calls of the CLI: no start is answered twice, success is confirmed, *)
(* and the power controller is held for a node and given back.             *)
(*                                                                         *)
(* The argument is about who works on the open start.  One place at a time *)
(* does (OneAtWork), while the bridge is up (WorksWhileUp) and the start   *)
(* is open (StartIsOpen); what that place goes on to do with the           *)
(* controller, and with the slots, then depends on it alone.               *)
(***************************************************************************)
EXTENDS NcpDfu, TLAPS

Idle(t) == fin[t] = "idle"
Telling(t) == fin[t] \in {"clear", "send"}

(* A start is in the hands of the processor, of the library, or of one     *)
(* task that finishes it.                                                  *)
OneAtWork ==
  /\ pc # "idle" => bmDfu = "idle" /\ \A t \in Tasks : Idle(t)
  /\ bmDfu = "updating" => \A t \in Tasks : Idle(t)
  /\ \A t, u \in Tasks : Idle(t) \/ Idle(u) \/ t = u

WorksWhileUp ==
  /\ (pc # "idle" \/ bmDfu = "updating" \/ ~Idle("ncp") \/ ~Idle("dfu")) => up = "run"
  /\ ~Idle("main") => up \in {"run", "reverting"}

(* Whatever works on a start, or will after a reset, works on an open one. *)
StartIsOpen ==
  /\ (pc # "idle" \/ bmDfu = "updating" \/ reboot # "none") => request = "open" /\ ~lost
  /\ \A t \in Tasks : Telling(t) => request = "open" /\ ~lost
  /\ \A t \in Tasks : fin[t] = "send" => reboot = "none"
  /\ request = "open" => told = "none"

(* Only the library and the boot check can report a success.               *)
AsAsked ==
  /\ pc # "idle" => asked = target
  /\ pc \in {"disable", "mark", "wait", "lookup", "initiate"} => target = "node"
  /\ (bmDfu = "updating" \/ ~Idle("dfu")) => asked = "node"
  /\ Telling("ncp") => ~verdict["ncp"]

(* An image that was found good stays until the next start.                *)
Good == image = "new" /\ confirmed /\ ~pending
Trial ==
  /\ Telling("main") /\ verdict["main"] => Good
  /\ told = "success" /\ asked = "bridge" => Good
  /\ pending => up = "boot" \/ pc = "reset"

(* The controller is enabled, unless a start for a node holds it; whoever  *)
(* finishes that start knows it.                                           *)
Held == pc \in {"wait", "lookup", "initiate"} \/ bmDfu = "updating" \/ ~Idle("dfu")
Hold ==
  touches = 0 =>
    /\ pc = "mark" => ~enabled
    /\ Held => ~enabled /\ wasEnabled
    /\ pc # "mark" /\ ~Held => enabled \/ (~Idle("ncp") /\ wasEnabled)

IInv ==
  /\ TypeOK /\ AnsweredOnce
  /\ OneAtWork /\ WorksWhileUp /\ StartIsOpen /\ AsAsked /\ Trial /\ Hold

(* The bridge starts with nothing to do. *)
LEMMA InitIInv == Init => IInv
  <1> SUFFICES ASSUME Init
               PROVE  IInv
    OBVIOUS
  <1>1. TypeOK
    <2>1. /\ wasEnabled \in BOOLEAN /\ enabled \in BOOLEAN /\ settled \in BOOLEAN
          /\ pending \in BOOLEAN /\ confirmed \in BOOLEAN /\ lost \in BOOLEAN
          /\ verdict \in [Tasks -> BOOLEAN]
      BY DEF Init
    <2> QED BY <2>1 DEF Init, TypeOK, Bootable, Contents
  <1>5. AnsweredOnce
    BY DEF Init, AnsweredOnce
  <1>2. OneAtWork /\ WorksWhileUp /\ StartIsOpen /\ AsAsked
    BY DEF Init, OneAtWork, WorksWhileUp, StartIsOpen, AsAsked, Idle, Telling,
           Tasks
  <1>3. Trial /\ Hold
    BY DEF Init, Trial, Hold, Held, Idle, Telling, Tasks
  <1> QED BY <1>1, <1>2, <1>3, <1>5 DEF IInv

(* A message of the host: nobody works on a start.                           *)
LEMMA HostStep ==
  ASSUME ~Impatient, IInv,
         \/ \E c \in Contents : HostChunk(c)
         \/ \E t \in {"bridge", "node"} : HostStart(t)
  PROVE  IInv'
  <1> USE DEF Idle, Telling, Tasks
  <1>1. lost' \in BOOLEAN
    BY DEF HostChunk, HostStart, IInv, TypeOK, host
  <1>2. TypeOK' /\ AnsweredOnce'
    BY <1>1 DEF HostChunk, HostStart, IInv, TypeOK, AnsweredOnce, control,
                controlVars, finish, slots, host, bounds
  <1>3. OneAtWork' /\ WorksWhileUp'
    BY DEF HostChunk, HostStart, HostMay, IInv, TypeOK, OneAtWork,
           WorksWhileUp, StartIsOpen, finish
  <1>4. StartIsOpen' /\ AsAsked'
    BY DEF HostChunk, HostStart, HostMay, IInv, StartIsOpen, AsAsked, finish,
           host
  <1>5. Trial'
    BY DEF HostChunk, HostStart, HostMay, IInv, Trial, Good, finish, slots,
           host
  <1>6. Hold'
    BY DEF HostChunk, HostStart, HostMay, IInv, Hold, Held, control,
           controlVars, finish, bounds
  <1> QED BY <1>2, <1>3, <1>4, <1>5, <1>6 DEF IInv

(* The processor ends a start.                                               *)
LEMMA FailStep ==
  ASSUME ~Impatient, IInv,
         NEW from \in {"crc", "erase", "copy", "wait", "lookup", "initiate"},
         Fail(from)
  PROVE  IInv'
  <1> USE DEF Idle, Telling, Tasks
  <1>1. verdict' \in [Tasks -> BOOLEAN]
    BY DEF Fail, IInv, TypeOK
  <1>2. TypeOK' /\ AnsweredOnce'
    BY <1>1 DEF Fail, Goto, IInv, TypeOK, AnsweredOnce, control, controlVars,
                slots, host, bounds
  <1>3. OneAtWork' /\ WorksWhileUp'
    BY DEF Fail, Goto, IInv, OneAtWork, WorksWhileUp
  <1>4. StartIsOpen' /\ AsAsked'
    BY DEF Fail, Goto, IInv, TypeOK, StartIsOpen, AsAsked, host
  <1>5. Trial'
    BY DEF Fail, Goto, IInv, Trial, Good, slots, host
  <1>6. Hold'
    BY DEF Fail, Goto, IInv, TypeOK, Hold, Held, control, controlVars, bounds
  <1> QED BY <1>2, <1>3, <1>4, <1>5, <1>6 DEF IInv

(* Steps of the processor for the bridge itself.                             *)
LEMMA SelfStep ==
  ASSUME ~Impatient, IInv, GoodCrc \/ SelfErase \/ SelfCopied \/ SelfPending
  PROVE  IInv'
  <1> USE DEF Idle, Telling, Tasks
  <1>1. pending' \in BOOLEAN
    BY DEF GoodCrc, SelfErase, SelfCopied, SelfPending, IInv, TypeOK, slots
  <1>2. TypeOK' /\ AnsweredOnce'
    BY <1>1 DEF GoodCrc, SelfErase, SelfCopied, SelfPending, Goto, IInv,
                TypeOK, AnsweredOnce, Contents, Bootable, control,
                controlVars, finish, slots, host, bounds
  <1>3. OneAtWork' /\ WorksWhileUp'
    BY DEF GoodCrc, SelfErase, SelfCopied, SelfPending, Goto, IInv, OneAtWork,
           WorksWhileUp, finish
  <1>4. StartIsOpen' /\ AsAsked'
    BY DEF GoodCrc, SelfErase, SelfCopied, SelfPending, Goto, IInv, TypeOK,
           OneAtWork, StartIsOpen, AsAsked, finish, host
  <1>5. Trial'
    BY DEF GoodCrc, SelfErase, SelfCopied, SelfPending, Goto, IInv, TypeOK,
           OneAtWork, StartIsOpen, Trial, Good, finish, slots, host
  <1>6. Hold'
    BY DEF GoodCrc, SelfErase, SelfCopied, SelfPending, Goto, IInv, Hold,
           Held, control, controlVars, finish, bounds
  <1> QED BY <1>2, <1>3, <1>4, <1>5, <1>6 DEF IInv

(* Steps of the processor for a node ...                                     *)
LEMMA NodeStep ==
  ASSUME ~Impatient, IInv, Mark \/ BusOn \/ NodeKnown \/ Initiated
  PROVE  IInv'
  <1> USE DEF Idle, Telling, Tasks
  <1>1. wasEnabled' \in BOOLEAN
    BY DEF Mark, BusOn, NodeKnown, Initiated, IInv, TypeOK
  <1>2. TypeOK' /\ AnsweredOnce'
    BY <1>1 DEF Mark, BusOn, NodeKnown, Initiated, Goto, IInv, TypeOK,
                AnsweredOnce, control, controlVars, finish, slots, host,
                bounds
  <1>3. OneAtWork' /\ WorksWhileUp'
    BY DEF Mark, BusOn, NodeKnown, Initiated, Goto, IInv, OneAtWork,
           WorksWhileUp, finish
  <1>4. StartIsOpen' /\ AsAsked'
    BY DEF Mark, BusOn, NodeKnown, Initiated, Goto, IInv, StartIsOpen,
           AsAsked, finish, host
  <1>5. Trial'
    BY DEF Mark, BusOn, NodeKnown, Initiated, Goto, IInv, Trial, Good, finish,
           slots, host
  <1>6. Hold'
    BY DEF Mark, BusOn, NodeKnown, Initiated, Goto, IInv, Hold, Held, control,
           controlVars, bounds
  <1> QED BY <1>2, <1>3, <1>4, <1>5, <1>6 DEF IInv

(* ... of which this one takes the controller.                               *)
LEMMA DisableStep ==
  ASSUME ~Impatient, IInv, Disable
  PROVE  IInv'
  <1> USE DEF Idle, Telling, Tasks
  <1>1. wasEnabled' \in BOOLEAN /\ enabled' \in BOOLEAN /\ settled' \in BOOLEAN
    BY DEF Disable, PowerControlEnable, IInv, TypeOK, control, controlVars
  <1>2. TypeOK' /\ AnsweredOnce'
    BY <1>1 DEF Disable, Goto, IInv, TypeOK, AnsweredOnce, finish, slots,
                host, bounds
  <1>3. OneAtWork' /\ WorksWhileUp'
    BY DEF Disable, Goto, IInv, OneAtWork, WorksWhileUp, finish
  <1>4. StartIsOpen' /\ AsAsked'
    BY DEF Disable, Goto, IInv, StartIsOpen, AsAsked, finish, host
  <1>5. Trial'
    BY DEF Disable, Goto, IInv, Trial, Good, finish, slots, host
  <1>6. Hold'
    BY DEF Disable, Goto, PowerControlEnable, IInv, OneAtWork, Hold, Held,
           finish, bounds
  <1> QED BY <1>2, <1>3, <1>4, <1>5, <1>6 DEF IInv

(* The library is done with the node.                                        *)
LEMMA NodeDoneStep ==
  ASSUME ~Impatient, IInv, NEW s \in BOOLEAN, NodeDone(s)
  PROVE  IInv'
  <1> USE DEF Idle, Telling, Tasks
  <1>1. verdict' \in [Tasks -> BOOLEAN]
    BY DEF NodeDone, IInv, TypeOK
  <1>2. TypeOK' /\ AnsweredOnce'
    BY <1>1 DEF NodeDone, IInv, TypeOK, AnsweredOnce, control, controlVars,
                start, slots, host, bounds
  <1>3. OneAtWork' /\ WorksWhileUp'
    BY DEF NodeDone, IInv, OneAtWork, WorksWhileUp, start
  <1>4. StartIsOpen' /\ AsAsked'
    BY DEF NodeDone, IInv, StartIsOpen, AsAsked, start, host
  <1>5. Trial'
    BY DEF NodeDone, IInv, Trial, Good, start, slots, host
  <1>6. Hold'
    BY DEF NodeDone, IInv, TypeOK, Hold, Held, control, controlVars, start,
           bounds
  <1> QED BY <1>2, <1>3, <1>4, <1>5, <1>6 DEF IInv

(* _ncp_dfu_finish() in any task: forget the reboot, ...                     *)
LEMMA ClearStep ==
  ASSUME ~Impatient, IInv, NEW t \in Tasks, FinishClear(t)
  PROVE  IInv'
  <1> USE DEF Idle, Telling, Tasks
  <1>2. TypeOK' /\ AnsweredOnce'
    BY DEF FinishClear, IInv, TypeOK, AnsweredOnce, control, controlVars,
           start, slots, host, bounds
  <1>3. OneAtWork' /\ WorksWhileUp'
    BY DEF FinishClear, IInv, OneAtWork, WorksWhileUp, start
  <1>4. StartIsOpen' /\ AsAsked'
    BY DEF FinishClear, IInv, StartIsOpen, AsAsked, start, host
  <1>5. Trial'
    BY DEF FinishClear, IInv, Trial, Good, start, slots, host
  <1>6. Hold'
    BY DEF FinishClear, IInv, Hold, Held, control, controlVars, start, bounds
  <1> QED BY <1>2, <1>3, <1>4, <1>5, <1>6 DEF IInv

(* ... answer the start, ...                                                 *)
LEMMA SendStep ==
  ASSUME ~Impatient, IInv, NEW t \in Tasks, FinishSend(t)
  PROVE  IInv'
  <1> USE DEF Idle, Telling, Tasks
  <1>2. TypeOK' /\ AnsweredOnce'
    BY DEF FinishSend, IInv, TypeOK, AnsweredOnce, StartIsOpen, control,
           controlVars, start, slots, bounds
  <1>3. OneAtWork' /\ WorksWhileUp'
    BY DEF FinishSend, IInv, OneAtWork, WorksWhileUp, start
  <1>4. StartIsOpen' /\ AsAsked'
    BY DEF FinishSend, IInv, TypeOK, OneAtWork, StartIsOpen, AsAsked, start
  <1>5. Trial'
    BY DEF FinishSend, IInv, AsAsked, Trial, Good, start, slots
  <1>6. Hold'
    BY DEF FinishSend, IInv, Hold, Held, control, controlVars, start, bounds
  <1> QED BY <1>2, <1>3, <1>4, <1>5, <1>6 DEF IInv

(* ... and give the controller back.                                         *)
LEMMA RestoreStep ==
  ASSUME ~Impatient, IInv, NEW t \in Tasks, FinishRestore(t)
  PROVE  IInv'
  <1> USE DEF Idle, Telling, Tasks
  <1>1. enabled' \in BOOLEAN /\ settled' \in BOOLEAN
    BY DEF FinishRestore, PowerControlEnable, IInv, TypeOK, control,
           controlVars
  <1>2. TypeOK' /\ AnsweredOnce'
    BY <1>1 DEF FinishRestore, IInv, TypeOK, AnsweredOnce, start, slots, host,
                bounds
  <1>3. OneAtWork' /\ WorksWhileUp'
    BY DEF FinishRestore, IInv, OneAtWork, WorksWhileUp, start
  <1>4. StartIsOpen' /\ AsAsked'
    BY DEF FinishRestore, IInv, StartIsOpen, AsAsked, start, host
  <1>5. Trial'
    BY DEF FinishRestore, IInv, Trial, Good, start, slots, host
  <1>6. Hold'
    BY DEF FinishRestore, PowerControlEnable, IInv, TypeOK, OneAtWork, Hold,
           Held, control, controlVars, start, bounds
  <1> QED BY <1>2, <1>3, <1>4, <1>5, <1>6 DEF IInv

(* The check at boot: only a tried image gets a verdict.                     *)
LEMMA CheckStep ==
  ASSUME ~Impatient, IInv, NothingTried \/ ConfirmImage \/ WrongVersion
  PROVE  IInv'
  <1> USE DEF Idle, Telling, Tasks
  <1>1. confirmed' \in BOOLEAN /\ verdict' \in [Tasks -> BOOLEAN]
    BY DEF NothingTried, ConfirmImage, WrongVersion, Bootable, IInv, TypeOK,
           control, controlVars, start, finish, slots, host, bounds
  <1>2. TypeOK' /\ AnsweredOnce'
    BY <1>1 DEF NothingTried, ConfirmImage, WrongVersion, IInv, TypeOK,
                AnsweredOnce, control, controlVars, start, finish, slots,
                host, bounds
  <1>3. OneAtWork' /\ WorksWhileUp'
    BY DEF NothingTried, ConfirmImage, WrongVersion, IInv, TypeOK, OneAtWork,
           WorksWhileUp, start, finish
  <1>4. StartIsOpen' /\ AsAsked'
    BY DEF NothingTried, ConfirmImage, WrongVersion, Bootable, IInv, TypeOK,
           StartIsOpen, AsAsked, start, finish, host
  <1>5. Trial'
    BY DEF NothingTried, ConfirmImage, WrongVersion, Bootable, IInv, TypeOK,
           WorksWhileUp, Trial, Good, finish, slots, host
  <1>6. Hold'
    BY DEF NothingTried, ConfirmImage, WrongVersion, IInv, TypeOK, Hold, Held,
           control, controlVars, start, finish, bounds
  <1> QED BY <1>2, <1>3, <1>4, <1>5, <1>6 DEF IInv

(* A reset or power loss, with or without the reboot info.                   *)
LEMMA GoDownStep ==
  ASSUME ~Impatient, IInv, NEW kept \in {reboot, "none"},
         GoDown(kept), crashes' \in Nat
  PROVE  IInv'
  <1> USE DEF Idle, Telling, Tasks
  <1>1. /\ lost' \in BOOLEAN /\ wasEnabled' \in BOOLEAN
        /\ enabled' \in BOOLEAN /\ settled' \in BOOLEAN
    BY DEF GoDown
  <1>2. TypeOK' /\ AnsweredOnce'
    BY <1>1 DEF GoDown, IInv, TypeOK, AnsweredOnce, slots
  <1>3. OneAtWork' /\ WorksWhileUp'
    BY DEF GoDown, OneAtWork, WorksWhileUp
  <1>4. StartIsOpen' /\ AsAsked'
    BY DEF GoDown, IInv, StartIsOpen, AsAsked
  <1>5. Trial'
    BY DEF GoDown, IInv, Trial, Good, slots
  <1>6. Hold'
    BY DEF GoDown, Hold, Held
  <1> QED BY <1>2, <1>3, <1>4, <1>5, <1>6 DEF IInv

(* MCUboot leaves a confirmed image alone.                                   *)
LEMMA McuBootStep ==
  ASSUME ~Impatient, IInv, McuBoot
  PROVE  IInv'
  <1> USE DEF Idle, Telling, Tasks
  <1>1. pending' \in BOOLEAN /\ confirmed' \in BOOLEAN
    BY DEF McuBoot, SwapSlots, IInv, TypeOK, slots
  <1>2. TypeOK' /\ AnsweredOnce'
    BY <1>1 DEF McuBoot, SwapSlots, IInv, TypeOK, AnsweredOnce, control,
                controlVars, start, finish, slots, host, bounds
  <1>3. OneAtWork' /\ WorksWhileUp'
    BY DEF McuBoot, IInv, OneAtWork, WorksWhileUp, start, finish
  <1>4. StartIsOpen' /\ AsAsked'
    BY DEF McuBoot, IInv, StartIsOpen, AsAsked, start, finish, host
  <1>5. Trial'
    BY DEF McuBoot, SwapSlots, IInv, Trial, Good, finish, slots, host
  <1>6. Hold'
    BY DEF McuBoot, IInv, Hold, Held, control, controlVars, start, finish,
           bounds
  <1> QED BY <1>2, <1>3, <1>4, <1>5, <1>6 DEF IInv

(* The host gives up a start nobody works on any more.                       *)
LEMMA GivesUpStep ==
  ASSUME ~Impatient, IInv, HostGivesUp
  PROVE  IInv'
  <1> USE DEF Idle, Telling, Tasks
  <1>1. lost' \in BOOLEAN
    BY DEF HostGivesUp
  <1>2. TypeOK' /\ AnsweredOnce'
    BY <1>1 DEF HostGivesUp, IInv, TypeOK, AnsweredOnce, control, controlVars,
                start, finish, slots, bounds
  <1>3. OneAtWork' /\ WorksWhileUp'
    BY DEF HostGivesUp, IInv, OneAtWork, WorksWhileUp, start, finish
  <1>4. StartIsOpen' /\ AsAsked'
    BY DEF HostGivesUp, IInv, StartIsOpen, AsAsked, start, finish
  <1>5. Trial'
    BY DEF HostGivesUp, IInv, Trial, Good, start, finish, slots
  <1>6. Hold'
    BY DEF HostGivesUp, IInv, Hold, Held, control, controlVars, start, finish,
           bounds
  <1> QED BY <1>2, <1>3, <1>4, <1>5, <1>6 DEF IInv

(* A call of the CLI.                                                        *)
LEMMA OperatorStep ==
  ASSUME ~Impatient, IInv, NEW e \in BOOLEAN, Operator(e)
  PROVE  IInv'
  <1> USE DEF Idle, Telling, Tasks
  <1>1. enabled' \in BOOLEAN /\ settled' \in BOOLEAN
    BY DEF Operator, PowerControlEnable, IInv, TypeOK
  <1>2. TypeOK' /\ AnsweredOnce'
    BY <1>1 DEF Operator, IInv, TypeOK, AnsweredOnce, start, finish, slots,
                host
  <1>3. OneAtWork' /\ WorksWhileUp'
    BY DEF Operator, IInv, OneAtWork, WorksWhileUp, start, finish
  <1>4. StartIsOpen' /\ AsAsked'
    BY DEF Operator, IInv, StartIsOpen, AsAsked, start, finish, host
  <1>5. Trial'
    BY DEF Operator, IInv, Trial, Good, start, finish, slots, host
  <1>6. Hold'
    BY DEF Operator, IInv, TypeOK, Hold
  <1> QED BY <1>2, <1>3, <1>4, <1>5, <1>6 DEF IInv

(* The task of the power controller does not touch its enable flag.          *)
LEMMA ControllerStep ==
  ASSUME ~Impatient, IInv, Controller
  PROVE  IInv'
  <1> USE DEF Idle, Telling, Tasks
  <1>1. enabled' \in BOOLEAN /\ settled' \in BOOLEAN
    BY DEF Controller, ControlTask, Rise, Fall, Switch, Settle, MaySettle,
           IInv, TypeOK
  <1>2. TypeOK' /\ AnsweredOnce'
    BY <1>1 DEF Controller, IInv, TypeOK, AnsweredOnce, start, finish, slots,
                host, bounds
  <1>3. OneAtWork' /\ WorksWhileUp'
    BY DEF Controller, IInv, OneAtWork, WorksWhileUp, start, finish
  <1>4. StartIsOpen' /\ AsAsked'
    BY DEF Controller, IInv, StartIsOpen, AsAsked, start, finish, host
  <1>5. Trial'
    BY DEF Controller, IInv, Trial, Good, start, finish, slots, host
  <1>6. Hold'
    BY DEF Controller, ControlTask, Rise, Fall, Switch, Settle, IInv, Hold,
           Held, start, finish, bounds
  <1> QED BY <1>2, <1>3, <1>4, <1>5, <1>6 DEF IInv

(* Every step keeps the invariant, if the host waits for its answers. *)
LEMMA NextIInv == ~Impatient /\ IInv /\ [Next]_vars => IInv'
  <1> SUFFICES ASSUME ~Impatient, IInv, [Next]_vars
               PROVE  IInv'
    OBVIOUS
  <1>1. CASE \/ \E c \in Contents : HostChunk(c)
             \/ \E t \in {"bridge", "node"} : HostStart(t)
    BY <1>1, HostStep
  <1>2. CASE Processor
    BY <1>2, FailStep, SelfStep, NodeStep, DisableStep
       DEF Processor, BadCrc, SelfFails, BusStaysOff, NodeUnknown, Refused
  <1>3. CASE \E s \in BOOLEAN : NodeDone(s)
    BY <1>3, NodeDoneStep
  <1>4. CASE \E t \in Tasks : Finish(t)
    BY <1>4, ClearStep, SendStep, RestoreStep DEF Finish
  <1>5. CASE NothingTried \/ ConfirmImage \/ WrongVersion
    BY <1>5, CheckStep
  <1>6. CASE ResetSystem
    BY <1>6, GoDownStep DEF ResetSystem, IInv, TypeOK
  <1>7. CASE McuBoot
    BY <1>7, McuBootStep
  <1>8. CASE \E kept \in {reboot, "none"} : Crash(kept)
    BY <1>8, GoDownStep DEF Crash, IInv, TypeOK
  <1>9. CASE HostGivesUp
    BY <1>9, GivesUpStep
  <1>10. CASE \E e \in BOOLEAN : Operator(e)
    BY <1>10, OperatorStep
  <1>11. CASE Controller
    BY <1>11, ControllerStep
  <1>12. CASE UNCHANGED vars
    <2>1. TypeOK' /\ AnsweredOnce'
      BY <1>12 DEF vars, IInv, TypeOK, AnsweredOnce, control, controlVars,
                   start, finish, slots, host, bounds
    <2>2. OneAtWork' /\ WorksWhileUp' /\ StartIsOpen' /\ AsAsked'
      BY <1>12 DEF vars, IInv, OneAtWork, WorksWhileUp, StartIsOpen, AsAsked,
                   Idle, Telling, start, finish, host
    <2>3. Trial' /\ Hold'
      BY <1>12 DEF vars, IInv, Trial, Good, Hold, Held, Idle, Telling,
                   control, controlVars, start, finish, slots, host, bounds
    <2> QED BY <2>1, <2>2, <2>3 DEF IInv
  <1> QED BY <1>1, <1>2, <1>3, <1>4, <1>5, <1>6, <1>7, <1>8, <1>9, <1>10, <1>11, <1>12
       DEF Next, Main

(* With a patient host the invariant holds throughout. *)
THEOREM Inductive ==
  ASSUME ~Impatient
  PROVE  Spec => []IInv
  <1>1. IInv /\ [Next]_vars => IInv'
    BY NextIInv
  <1> QED BY <1>1, InitIInv, PTL DEF Spec

(* Every variable of the update keeps to its type. *)
THEOREM TypeCorrect ==
  ASSUME ~Impatient
  PROVE  Spec => []TypeOK
  BY Inductive, PTL DEF IInv

(* What the invariant says of the controller and of a success. *)
LEMMA Consequences ==
  ASSUME IInv
  PROVE  ControllerHeld /\ ControllerGivenBack /\ SuccessIsConfirmed
  <1>1. ControllerHeld
    BY DEF IInv, Hold, Held, ControllerHeld
  <1>2. ControllerGivenBack
    BY DEF IInv, Hold, Held, Idle, Tasks, AtRest, ControllerGivenBack
  <1>3. SuccessIsConfirmed
    BY DEF IInv, Trial, Good, SuccessIsConfirmed
  <1> QED BY <1>1, <1>2, <1>3

(* Whatever resets fall between the copy, the confirmation and the report,  *)
(* no start is answered twice.                                              *)
THEOREM StartsAnsweredOnce ==
  ASSUME ~Impatient
  PROVE  Spec => []AnsweredOnce
  BY Inductive, PTL DEF IInv

(* The power controller stays disabled from the start of a node's update to *)
(* its finish, unless the CLI interferes.                                   *)
THEOREM NodeKeepsController ==
  ASSUME ~Impatient
  PROVE  Spec => []ControllerHeld
  BY Inductive, Consequences, PTL

(* Whatever way the starts ended, and whatever resets came between, the     *)
(* power controller is enabled again when no start is open.                 *)
THEOREM ControllerComesBack ==
  ASSUME ~Impatient
  PROVE  Spec => []ControllerGivenBack
  BY Inductive, Consequences, PTL

(* A success on the bridge is told only of the image asked for, and that    *)
(* image is confirmed, and stays so through later resets.                   *)
THEOREM SuccessStays ==
  ASSUME ~Impatient
  PROVE  Spec => []SuccessIsConfirmed
  BY Inductive, Consequences, PTL
=============================================================================
