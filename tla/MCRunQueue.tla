----------------------------- MODULE MCRunQueue -----------------------------
(* Small instances of RunQueue. *)
EXTENDS RunQueue
=============================================================================
