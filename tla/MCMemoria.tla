----------------------------- MODULE MCMemoria -----------------------------
(* Instances of the memory for TLC. *)
EXTENDS Memoria

CONSTANTS p1, p2

DosProcesos == {p1, p2}
=============================================================================
