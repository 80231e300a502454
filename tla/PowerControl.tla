---------------------------- MODULE PowerControl ----------------------------
(***************************************************************************)
(* The bridge power controller as the tasks that disable it see it: the    *)
(* enable flag and the supply of BusPower, with no word on the schedule    *)
(* (apps/bridge/bridgePowerController.cpp).                                *)
(*                                                                         *)
(* A call of powerControlEnable(false) only sets the flag and notifies the *)
(* task.  What the task decided while it was enabled it still carries out, *)
(* so the bus may go down once more before the disable has settled.        *)
(***************************************************************************)
EXTENDS BusPower

VARIABLES
  enabled,  (* _powerControlEnabled                                    *)
  settled   (* disabled, and nothing decided before that is left to do *)

controlVars == <<busVars, enabled, settled>>

ControlInit ==
  /\ BusInit
  /\ enabled \in BOOLEAN
  /\ settled \in {FALSE, ~enabled}

(* A step of the task may carry out the last decision of an enabled one. *)
MaySettle == settled' \in {settled, ~enabled}

Rise == StartRise /\ MaySettle /\ UNCHANGED enabled

Fall == ~settled /\ StartFall /\ MaySettle /\ UNCHANGED enabled

Switch ==
  /\ CloseSwitch \/ AnnounceOn \/ StopBoost \/ AnnounceOff
  /\ MaySettle
  /\ UNCHANGED enabled

Settle == MaySettle /\ UNCHANGED <<busVars, enabled>>

(* powerControlEnable(e) *)
PowerControlEnable(e) ==
  /\ enabled' = e
  /\ settled' \in IF e THEN {FALSE} ELSE {settled, TRUE}
  /\ UNCHANGED busVars

ControlTask == Rise \/ Fall \/ Switch \/ Settle

ControlNext == ControlTask \/ \E e \in BOOLEAN : PowerControlEnable(e)

ControlSpec == ControlInit /\ [][ControlNext]_controlVars
=============================================================================
