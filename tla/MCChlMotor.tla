------------------------------ MODULE MCChlMotor ------------------------------
(* A small instance of ChlMotor: two sweeps of legs of three units, a       *)
(* cleaning period that is shorter than a cycle, so that a start is also    *)
(* refused, and a clock that rolls over every sixteen units.                *)
EXTENDS ChlMotor
=============================================================================
