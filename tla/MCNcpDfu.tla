------------------------------ MODULE MCNcpDfu ------------------------------
(* A small instance of NcpDfu: a few starts, a crash, one call of the CLI. *)
EXTENDS NcpDfu

(* All starts of the instance have been dealt with. *)
Done == AtRest /\ starts = MaxStarts /\ UNCHANGED vars

MCSpec == Init /\ [][Next \/ Done]_vars /\ Fairness
=============================================================================
