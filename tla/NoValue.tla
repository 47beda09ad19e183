------------------------------ MODULE NoValue -------------------------------
(* None, for the modules of the pipeline that are put together. *)
CONSTANT Null
=============================================================================
