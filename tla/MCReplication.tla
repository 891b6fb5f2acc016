--------------------------- MODULE MCReplication ---------------------------
(* A small instance of Replication: a branch and a tag that are pushed     *)
(* together, and users who act Edits times.                                *)
EXTENDS Replication, TLC
CONSTANTS a, b, c, Edits
VARIABLE edits

\* b and c are two children of a.
Fork == a :> {a} @@ b :> {a, b} @@ c :> {a, c}

BoundedInit == Init /\ edits = Edits
Step(w) ==
  \/ BeginPass(w) /\ edits' = edits
  \/ FetchPrimary(w) /\ edits' = edits
  \/ GiveUp(w) /\ edits' = edits
  \/ \E n \in Replica : \/ SkipReplica(w, n) /\ edits' = edits
                        \/ ListReplica(w, n) /\ edits' = edits
                        \/ Recreate(w, n) /\ edits' = edits
  \/ Forget(w) /\ edits' = edits
  \/ FetchReplica(w) /\ edits' = edits
  \/ PushReplica(w) /\ edits' = edits
  \/ PushFails(w) /\ edits' = edits
  \/ TakeOver(w) /\ edits' = edits
  \/ TakeOverFails(w) /\ edits' = edits
  \/ Record(w) /\ edits' = edits
  \/ EndPass(w) /\ edits' = edits
  \/ Crash(w) /\ edits' = edits
Act == edits > 0 /\ edits' = edits - 1
BoundedNext ==
  \/ \E w \in Runner : Step(w)
  \/ \E n \in Node, f \in Ref, v \in Value : UserSets(n, f, v) /\ Act
  \/ \E n \in Replica : CopyDeleted(n) /\ Act
  \/ Rest /\ edits' = 0
BoundedSpec ==
  /\ BoundedInit /\ [][BoundedNext]_<<vars, edits>>
  /\ \A w \in Runner : WF_vars(Replicate(w))
=============================================================================
