----------------------------- MODULE MCHandoff -----------------------------
(* Small instances of Handoff. *)
EXTENDS Handoff, TLC
CONSTANTS P, R1, R2, main, b, c, d, m, sq
\* d is c's child; of c and b, m is the merge and sq, on top of b, the squash.
Merged == b :> {b} @@ c :> {c} @@ d :> {c, d} @@ m :> {b, c, m} @@ sq :> {b, sq}
Sites == P :> {b, None} @@ R1 :> {c, d, None} @@ R2 :> {c}
Apart == P :> {b} @@ R1 :> {c}
Fork == b :> {b} @@ c :> {c}
=============================================================================
