---------------------------- MODULE MCSupervise ----------------------------
(* Small instances of Supervise. *)
EXTENDS Supervise
=============================================================================
