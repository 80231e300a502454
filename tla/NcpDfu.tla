------------------------------- MODULE NcpDfu -------------------------------
(***************************************************************************)
(* The update front end of the bridge (lib/bm_ncp/ncp_dfu.cpp): the host   *)
(* has loaded an image into the DFU partition and asks to start.  An image *)
(* for a node is sent over the bus while the power controller is held      *)
(* disabled; one for the bridge itself is copied to the secondary slot and *)
(* tried by a reset.  Every start is answered by a finish message.         *)
(*                                                                         *)
(* Three tasks call _ncp_dfu_finish(): "ncp", the NCP processor that runs  *)
(* ncp_dfu_start_cb(); "dfu", the event task of the Bristlemouth DFU       *)
(* library (external), through _update_success_cb(); and "main", which     *)
(* looks for a tried image at boot.  The power controller is PowerControl, *)
(* which BridgePower implements.                                           *)
(***************************************************************************)
EXTENDS PowerControl, Naturals

CONSTANTS
  Impatient,   (* the host may send a start that it should wait with     *)
  MaxStarts,   (* bound: start messages                                  *)
  MaxCrashes,  (* bound: resets and power losses                         *)
  MaxTouches   (* bound: powerControlEnable calls from the CLI           *)

ASSUME NcpDfuAssumption ==
  /\ Impatient \in BOOLEAN
  /\ {MaxStarts, MaxCrashes, MaxTouches} \subseteq Nat
  /\ ON # OFF

VARIABLES
  wasEnabled,  (* _ctx.power_controller_was_enabled                       *)
  pc,          (* the NCP processor inside ncp_dfu_start_cb()             *)
  target,      (* node of the start message in hand: "bridge" or "node"   *)
  content,     (* what image the DFU partition really holds               *)
  bmDfu,       (* Bristlemouth DFU library: "idle" or "updating" a node   *)
  fin,         (* each task inside _ncp_dfu_finish()                      *)
  verdict,     (* and the success flag it reports                         *)
  reboot,      (* _reboot_info.gitSHA, or "none" without the magic        *)
  up,          (* "boot" (in MCUboot), "check", "run" or "reverting"      *)
  image, secondary, pending, confirmed,      (* the two slots of MCUboot  *)
  request, asked, told, lost,     (* the host: is a start open, for whom, *)
                                  (* the last answer, did a reset hit it  *)
  starts, answers, crashes, touches

control == controlVars
start   == <<wasEnabled, pc, target, content>>
finish  == <<fin, verdict>>
slots   == <<image, secondary, pending, confirmed>>
host    == <<request, asked, told, lost, starts, answers>>
bounds  == <<crashes, touches>>
vars    == <<control, start, bmDfu, finish, reboot, up, slots, host, bounds>>

Tasks == {"ncp", "dfu", "main"}

(* The image the host asks for has SHA "new"; the partition may hold an    *)
(* image of another version, or one that MCUboot does not accept.          *)
Contents == {"new", "other", "bad"}
Bootable == {"old", "new", "other"}

Init ==
  /\ ControlInit /\ enabled = TRUE /\ settled = FALSE
  /\ wasEnabled = FALSE /\ pc = "idle" /\ target = "node" /\ content = "new"
  /\ bmDfu = "idle"
  /\ fin = [t \in Tasks |-> "idle"] /\ verdict = [t \in Tasks |-> FALSE]
  /\ reboot = "none" /\ up = "check"
  /\ image = "old" /\ secondary = "bad" /\ pending = FALSE /\ confirmed = TRUE
  /\ request = "none" /\ asked = "node" /\ told = "none" /\ lost = FALSE
  /\ starts = 0 /\ answers = 0 /\ crashes = 0 /\ touches = 0

-----------------------------------------------------------------------------
(* A message of the host reaches the idle NCP processor.  A patient host    *)
(* has waited for the answer to its last start, and after a boot for the   *)
(* reboot message that follows the check for an update.  The event task of *)
(* the library has priority over the processor: its finish is not          *)
(* interrupted.                                                            *)
HostMay ==
  /\ up \in {"run", "reverting"} /\ pc = "idle"
  /\ fin["ncp"] = "idle" /\ fin["dfu"] = "idle"
  /\ Impatient \/ (request = "none" /\ up = "run" /\ fin["main"] = "idle")
  /\ starts < MaxStarts

(* ncp_dfu_chunk_cb(): chunks make the partition hold another image. *)
HostChunk(c) ==
  /\ HostMay /\ content # c
  /\ content' = c
  /\ UNCHANGED <<control, wasEnabled, pc, target, bmDfu, finish, reboot, up, slots, host, bounds>>

HostStart(t) ==
  /\ HostMay
  /\ target' = t /\ pc' = "crc"
  /\ request' = "open" /\ asked' = t /\ told' = "none" /\ lost' = FALSE
  /\ starts' = starts + 1
  /\ UNCHANGED <<control, wasEnabled, content, bmDfu, finish, reboot, up, slots, answers, bounds>>

(* The processor takes its step from one label to the next. *)
Goto(from, to) == fin["dfu"] = "idle" /\ pc = from /\ pc' = to

(* An early end: ncp_dfu_start_cb() goes to _ncp_dfu_finish() with rval false. *)
Fail(from) ==
  /\ Goto(from, "idle")
  /\ fin' = [fin EXCEPT !["ncp"] = "clear"]
  /\ verdict' = [verdict EXCEPT !["ncp"] = FALSE]
  /\ UNCHANGED <<control, wasEnabled, target, content, bmDfu, reboot, up, slots, host, bounds>>

(* Mutant: an image with a bad CRC is dropped without a finish message. *)
BadCrcSilently ==
  /\ Goto("crc", "idle")
  /\ UNCHANGED <<control, wasEnabled, target, content, bmDfu, finish, reboot, up, slots, host,
                 bounds>>

(* crc16() fails, or the image does not have the CRC of the message. *)
BadCrc == Fail("crc")

GoodCrc ==
  /\ Goto("crc", IF target = "bridge" THEN "erase" ELSE "disable")
  /\ UNCHANGED <<control, wasEnabled, target, content, bmDfu, finish, reboot, up, slots, host,
                 bounds>>

(* _do_self_update(): open, erase, copy; any of them may fail. *)
SelfFails == Fail("erase") \/ Fail("copy")

SelfErase ==
  /\ Goto("erase", "copy")
  /\ secondary' = "bad"
  /\ UNCHANGED <<control, wasEnabled, target, content, bmDfu, finish, reboot, up, image, pending,
                 confirmed, host, bounds>>

(* Mutant: the SHA of the copied image is noted, not the one asked for. *)
SelfCopiedOwnSha ==
  /\ Goto("copy", "pend")
  /\ secondary' = content
  /\ reboot' = content
  /\ UNCHANGED <<control, wasEnabled, target, content, bmDfu, finish, up, image, pending,
                 confirmed, host, bounds>>

SelfCopied ==
  /\ Goto("copy", "pend")
  /\ secondary' = content
  /\ reboot' = "new"
  /\ UNCHANGED <<control, wasEnabled, target, content, bmDfu, finish, up, image, pending,
                 confirmed, host, bounds>>

SelfPending ==
  /\ Goto("pend", "reset")
  /\ pending' = TRUE
  /\ UNCHANGED <<control, wasEnabled, target, content, bmDfu, finish, reboot, up, image,
                 secondary, confirmed, host, bounds>>

(* Mutant: the controller is marked as held but never disabled. *)
DisableForgotten ==
  /\ Goto("disable", IF enabled THEN "mark" ELSE "wait")
  /\ wasEnabled' = IF enabled THEN wasEnabled ELSE FALSE
  /\ UNCHANGED <<control, target, content, bmDfu, finish, reboot, up, slots, host, bounds>>

(* Hold the controller disabled, unless it already is; the flag that says  *)
(* so is written only after the call.                                      *)
Disable ==
  /\ Goto("disable", IF enabled THEN "mark" ELSE "wait")
  /\ IF enabled THEN PowerControlEnable(FALSE) /\ UNCHANGED wasEnabled
                ELSE wasEnabled' = FALSE /\ UNCHANGED control
  /\ UNCHANGED <<target, content, bmDfu, finish, reboot, up, slots, host, bounds>>

(* Mutant: the controller's state is not remembered. *)
MarkForgotten ==
  /\ Goto("mark", "wait")
  /\ UNCHANGED <<control, wasEnabled, target, content, bmDfu, finish, reboot, up, slots, host,
                 bounds>>

Mark ==
  /\ Goto("mark", "wait")
  /\ wasEnabled' = TRUE
  /\ UNCHANGED <<control, target, content, bmDfu, finish, reboot, up, slots, host, bounds>>

(* waitForSignal(true) sees ON, or times out; a timeout counts as a failure *)
(* only when OFF is set.                                                   *)
BusOn ==
  /\ Goto("wait", "lookup")
  /\ OFF \notin bits
  /\ UNCHANGED <<control, wasEnabled, target, content, bmDfu, finish, reboot, up, slots, host,
                 bounds>>

BusStaysOff == ON \notin bits /\ OFF \in bits /\ Fail("wait")

(* _do_bcmp_update(): no topology, or the node is not in it; the library   *)
(* refuses, or takes the update and will call back.                        *)
NodeUnknown == Fail("lookup")

NodeKnown ==
  /\ Goto("lookup", "initiate")
  /\ UNCHANGED <<control, wasEnabled, target, content, bmDfu, finish, reboot, up, slots, host,
                 bounds>>

Refused == Fail("initiate")

(* Mutant: an update that was taken is reported as failed. *)
InitiatedAsFailure ==
  /\ Goto("initiate", "idle") /\ bmDfu = "idle"
  /\ bmDfu' = "updating"
  /\ fin' = [fin EXCEPT !["ncp"] = "clear"]
  /\ UNCHANGED <<control, wasEnabled, target, content, verdict, reboot, up, slots, host, bounds>>

Initiated ==
  /\ Goto("initiate", "idle") /\ bmDfu = "idle"
  /\ bmDfu' = "updating"
  /\ UNCHANGED <<control, wasEnabled, target, content, finish, reboot, up, slots, host, bounds>>

(* The library is done with the node, at the latest after its timeout. *)
NodeDone(success) ==
  /\ up # "boot" /\ bmDfu = "updating" /\ fin["dfu"] = "idle"
  /\ bmDfu' = "idle"
  /\ fin' = [fin EXCEPT !["dfu"] = "clear"]
  /\ verdict' = [verdict EXCEPT !["dfu"] = success]
  /\ UNCHANGED <<control, start, reboot, up, slots, host, bounds>>

-----------------------------------------------------------------------------
(* _ncp_dfu_finish() in task t: forget the reboot, tell the host, ... *)
FinishClear(t) ==
  /\ up # "boot" /\ fin[t] = "clear"
  /\ reboot' = "none"
  /\ fin' = [fin EXCEPT ![t] = "send"]
  /\ UNCHANGED <<control, start, bmDfu, verdict, up, slots, host, bounds>>

FinishSend(t) ==
  /\ up # "boot" /\ fin[t] = "send"
  /\ answers' = answers + 1
  /\ request' = "none"
  /\ told' = IF verdict[t] THEN "success" ELSE "failure"
  /\ fin' = [fin EXCEPT ![t] = "restore"]
  /\ UNCHANGED <<control, start, bmDfu, verdict, reboot, up, slots, asked, lost, starts, bounds>>

(* ... and hand the controller back if it was enabled. *)
FinishRestore(t) ==
  /\ up # "boot" /\ fin[t] = "restore"
  /\ IF wasEnabled THEN PowerControlEnable(TRUE) ELSE UNCHANGED control
  /\ fin' = [fin EXCEPT ![t] = "idle"]
  /\ UNCHANGED <<start, bmDfu, verdict, reboot, up, slots, host, bounds>>

-----------------------------------------------------------------------------
(* ncp_dfu_check_for_update(), at the end of ncpInit() *)
NothingTried ==
  /\ up = "check" /\ reboot = "none" /\ fin["main"] = "idle"
  /\ up' = "run"
  /\ UNCHANGED <<control, start, bmDfu, finish, reboot, slots, host, bounds>>

(* Mutant: the image is reported as good without being confirmed. *)
ReportUnconfirmed ==
  /\ up = "check" /\ reboot = image
  /\ up' = "run"
  /\ fin' = [fin EXCEPT !["main"] = "clear"]
  /\ verdict' = [verdict EXCEPT !["main"] = TRUE]
  /\ UNCHANGED <<control, start, bmDfu, reboot, slots, host, bounds>>

ConfirmImage ==
  /\ up = "check" /\ reboot = image
  /\ confirmed' = TRUE
  /\ up' = "run"
  /\ fin' = [fin EXCEPT !["main"] = "clear"]
  /\ verdict' = [verdict EXCEPT !["main"] = TRUE]
  /\ UNCHANGED <<control, start, bmDfu, reboot, image, secondary, pending, host, bounds>>

(* Mutant: a wrong image is reported, and kept. *)
WrongVersionStays ==
  /\ up = "check" /\ reboot \notin {"none", image}
  /\ up' = "run"
  /\ fin' = [fin EXCEPT !["main"] = "clear"]
  /\ verdict' = [verdict EXCEPT !["main"] = FALSE]
  /\ UNCHANGED <<control, start, bmDfu, reboot, slots, host, bounds>>

WrongVersion ==
  /\ up = "check" /\ reboot \notin {"none", image}
  /\ up' = "reverting"
  /\ fin' = [fin EXCEPT !["main"] = "clear"]
  /\ verdict' = [verdict EXCEPT !["main"] = FALSE]
  /\ UNCHANGED <<control, start, bmDfu, reboot, slots, host, bounds>>

(* The processor goes down: RAM is lost but for the reboot info, which is  *)
(* in a section that a reset leaves alone; the pins go low.                *)
GoDown(kept) ==
  /\ up' = "boot"
  /\ reboot' = kept
  /\ load' = FALSE /\ boost' = FALSE /\ bits' = {} /\ stage' = "rest"
  /\ enabled' = TRUE /\ settled' = FALSE
  /\ wasEnabled' = FALSE /\ pc' = "idle" /\ bmDfu' = "idle"
  /\ fin' = [t \in Tasks |-> "idle"] /\ verdict' = [t \in Tasks |-> FALSE]
  /\ lost' = (request = "open" /\ kept = "none")
  /\ UNCHANGED <<target, content, slots, request, asked, told, starts, answers, touches>>

(* resetSystem() after a copy, and after the delay that follows a report of *)
(* a wrong version.                                                        *)
ResetSystem ==
  /\ up # "boot"
  /\ pc = "reset" \/ (up = "reverting" /\ fin["main"] = "idle")
  /\ GoDown(reboot)
  /\ UNCHANGED crashes

(* A watchdog reset keeps the reboot info, a power loss does not. *)
Crash(kept) ==
  /\ up # "boot" /\ crashes < MaxCrashes
  /\ GoDown(kept)
  /\ crashes' = crashes + 1

(* MCUboot: swap in a pending image, or swap back one never confirmed. *)
SwapSlots(ok) ==
  /\ image' = secondary /\ secondary' = image
  /\ pending' = FALSE /\ confirmed' = ok

McuBoot ==
  /\ up = "boot" /\ up' = "check"
  /\ CASE pending /\ secondary \in Bootable -> SwapSlots(FALSE)
       [] pending /\ secondary \notin Bootable ->
            pending' = FALSE /\ UNCHANGED <<image, secondary, confirmed>>
       [] ~pending /\ ~confirmed /\ secondary \in Bootable -> SwapSlots(TRUE)
       [] OTHER -> UNCHANGED slots
  /\ UNCHANGED <<control, start, bmDfu, finish, reboot, host, bounds>>

(* The host gives a start up that a reset has swallowed. *)
HostGivesUp ==
  /\ lost /\ up = "run" /\ request = "open"
  /\ request' = "none" /\ lost' = FALSE
  /\ UNCHANGED <<control, start, bmDfu, finish, reboot, up, slots, asked, told, starts, answers,
                 bounds>>

(* The CLI enables or disables the controller. *)
Operator(e) ==
  /\ up # "boot" /\ touches < MaxTouches
  /\ PowerControlEnable(e)
  /\ touches' = touches + 1
  /\ UNCHANGED <<start, bmDfu, finish, reboot, up, slots, host, crashes>>

Controller ==
  /\ up # "boot"
  /\ ControlTask
  /\ UNCHANGED <<start, bmDfu, finish, reboot, up, slots, host, bounds>>

Processor ==
  \/ BadCrc \/ GoodCrc
  \/ SelfFails \/ SelfErase \/ SelfCopied \/ SelfPending
  \/ Disable \/ Mark \/ BusOn \/ BusStaysOff
  \/ NodeUnknown \/ NodeKnown \/ Refused \/ Initiated

Finish(t) == FinishClear(t) \/ FinishSend(t) \/ FinishRestore(t)

Main == NothingTried \/ ConfirmImage \/ WrongVersion \/ ResetSystem \/ McuBoot

Next ==
  \/ \E c \in Contents : HostChunk(c)
  \/ \E t \in {"bridge", "node"} : HostStart(t)
  \/ Processor
  \/ \E s \in BOOLEAN : NodeDone(s)
  \/ \E t \in Tasks : Finish(t)
  \/ Main
  \/ \E kept \in {reboot, "none"} : Crash(kept)
  \/ HostGivesUp
  \/ \E e \in BOOLEAN : Operator(e)
  \/ Controller

(* The tasks run, waits and library updates time out, the boot goes on. *)
Fairness ==
  /\ WF_vars(Processor)
  /\ WF_vars(\E s \in BOOLEAN : NodeDone(s))
  /\ \A t \in Tasks : WF_vars(Finish(t))
  /\ WF_vars(Main)
  /\ WF_vars(Controller)

Spec == Init /\ [][Next]_vars /\ Fairness

-----------------------------------------------------------------------------
TypeOK ==
  /\ wasEnabled \in BOOLEAN /\ enabled \in BOOLEAN /\ settled \in BOOLEAN
  /\ pc \in {"idle", "crc", "erase", "copy", "pend", "reset", "disable", "mark", "wait",
             "lookup", "initiate"}
  /\ target \in {"bridge", "node"} /\ content \in Contents
  /\ bmDfu \in {"idle", "updating"}
  /\ fin \in [Tasks -> {"idle", "clear", "send", "restore"}]
  /\ verdict \in [Tasks -> BOOLEAN]
  /\ reboot \in {"none", "new"} /\ up \in {"boot", "check", "run", "reverting"}
  /\ image \in Bootable /\ secondary \in Bootable \union {"bad"}
  /\ pending \in BOOLEAN /\ confirmed \in BOOLEAN
  /\ request \in {"none", "open"} /\ asked \in {"bridge", "node"}
  /\ told \in {"none", "success", "failure"} /\ lost \in BOOLEAN
  /\ starts \in Nat /\ answers \in Nat /\ crashes \in Nat /\ touches \in Nat

(* No start is answered twice: neither when the library takes the update,  *)
(* nor when a reset comes between the confirmation and the report.         *)
AnsweredOnce == answers + (IF request = "open" THEN 1 ELSE 0) <= starts

(* While a node is updated the controller is disabled, so that the bus     *)
(* stays on, as "We want to disable power control here (which will leave   *)
(* the bus ON, allowing a node to be updated)" (ncp_dfu.cpp:155) says.     *)
ControllerHeld == bmDfu = "updating" /\ touches = 0 => ~enabled

AtRest == up = "run" /\ pc = "idle" /\ bmDfu = "idle" /\ \A t \in Tasks : fin[t] = "idle"

(* Whatever way a start ended, the controller is enabled again after it,   *)
(* as it was before, and no reset leaves it disabled.                      *)
ControllerGivenBack == AtRest /\ touches = 0 => enabled

(* The host is told of success on the bridge only when the image it asked  *)
(* for runs and will stay.                                                 *)
SuccessIsConfirmed ==
  told = "success" /\ asked = "bridge" => image = "new" /\ confirmed

(* Every start is answered, unless a reset other than that of the update   *)
(* hits it.                                                                *)
EveryStartAnswered == request = "open" ~> request = "none" \/ lost

(* An image of the wrong version never stays, unless a crash has made the  *)
(* bridge forget that it was on trial.                                     *)
RejectedImageLeaves ==
  (image = "other" /\ ~confirmed /\ crashes = 0) ~> (image # "other" \/ crashes > 0)
=============================================================================
