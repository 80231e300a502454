------------------------------ MODULE BusPower ------------------------------
(***************************************************************************)
(* What the tasks of the bridge may rely on about the Bristlemouth bus     *)
(* supply and its event group: the abstract specification of               *)
(* setBusPowerAndSetSignal() (apps/bridge/bridgePowerController.cpp), with *)
(* no word on when and why the bus is switched.                            *)
(*                                                                         *)
(* The boost converter feeds the load switch.  It comes up first and goes  *)
(* down last; an event bit is raised only after the switch has reached the *)
(* position the bit announces, and lowered before the switch leaves it.    *)
(***************************************************************************)
CONSTANTS ON, OFF

VARIABLES
  load,   (* load switch enable pin: the bus has power  *)
  boost,  (* boost converter enable pin                 *)
  bits,   (* the ON and OFF bits of _busPowerEventGroup *)
  stage   (* how far a switching sequence has come      *)

busVars == <<load, boost, bits, stage>>

BusInit ==
  /\ load = FALSE
  /\ boost = FALSE
  /\ bits = {}          (* neither bit is set before the first switching *)
  /\ stage = "rest"

(* Power up: lower OFF and start the boost converter ... *)
StartRise ==
  /\ stage = "rest" /\ ~load
  /\ bits' = bits \ {OFF}
  /\ boost' = TRUE
  /\ stage' = "charging"
  /\ UNCHANGED load

(* ... close the load switch once the capacitors are charged ... *)
CloseSwitch ==
  /\ stage = "charging"
  /\ load' = TRUE
  /\ stage' = "closed"
  /\ UNCHANGED <<boost, bits>>

(* ... and announce it. *)
AnnounceOn ==
  /\ stage = "closed"
  /\ bits' = bits \union {ON}
  /\ stage' = "rest"
  /\ UNCHANGED <<load, boost>>

(* Power down: lower ON and open the load switch ... *)
StartFall ==
  /\ stage = "rest" /\ load
  /\ bits' = bits \ {ON}
  /\ load' = FALSE
  /\ stage' = "opened"
  /\ UNCHANGED boost

(* ... stop the boost converter ... *)
StopBoost ==
  /\ stage = "opened"
  /\ boost' = FALSE
  /\ stage' = "drained"
  /\ UNCHANGED <<load, bits>>

(* ... and announce it. *)
AnnounceOff ==
  /\ stage = "drained"
  /\ bits' = bits \union {OFF}
  /\ stage' = "rest"
  /\ UNCHANGED <<load, boost>>

BusNext ==
  StartRise \/ CloseSwitch \/ AnnounceOn \/ StartFall \/ StopBoost \/ AnnounceOff

BusSpec == BusInit /\ [][BusNext]_busVars
=============================================================================
