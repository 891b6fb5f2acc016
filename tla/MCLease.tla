------------------------------ MODULE MCLease ------------------------------
(* Small instances of Lease. *)
EXTENDS Lease
=============================================================================
