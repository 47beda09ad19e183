------------------------------ MODULE MCAbort ------------------------------
(* Instances of Abort for TLC. *)
EXTENDS Abort

CONSTANTS r1, r2, r3
============================================================================
