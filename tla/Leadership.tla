----------------------------- MODULE Leadership -----------------------------
(***************************************************************************)
(* What the election promises the rest of ForgeSync: at any moment at most *)
(* one controller acts, and between two leaders there is a moment at which *)
(* nobody leads.  The lease protocol of module Lease implements it.        *)
(***************************************************************************)
CONSTANTS
  Process,     \* the controllers' processes
  Nobody       \* no process leads

VARIABLE leader

Init == leader = Nobody

\* A process begins to act; only when nobody does.
Take(p) ==
  /\ leader = Nobody
  /\ leader' = p

\* The leader's lease runs out, is given up, or its process dies.
Lose ==
  /\ leader # Nobody
  /\ leader' = Nobody

Next == Lose \/ \E p \in Process : Take(p)

Spec == Init /\ [][Next]_leader
=============================================================================
