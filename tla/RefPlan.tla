------------------------------- MODULE RefPlan -------------------------------
(***************************************************************************)
(* What internal/replication/plan.go decides about one branch or tag of a  *)
(* replica, from its value there, on the primary and in the base: what     *)
(* ForgeSync last knew it left on the replica.                             *)
(*                                                                         *)
(* A commit stands for its history: Reach[c] is c and everything it        *)
(* contains.                                                               *)
(***************************************************************************)

CONSTANTS
  Ref, Tag,       \* the refs replicated, and those of them that are tags
  Commit, None,   \* what a ref can point at, and the value of no ref
  Reach           \* Reach[c]: the commits in c's history, c included

ASSUME RefAssumption ==
  /\ Tag \subseteq Ref
  /\ None \notin Commit
  /\ Reach \in [Commit -> SUBSET Commit]
  /\ \A c \in Commit : c \in Reach[c]
  /\ \A c \in Commit : \A d \in Reach[c] : Reach[d] \subseteq Reach[c]

Value == Commit \cup {None}
Refs == [Ref -> Value]
History(c) == IF c = None THEN {} ELSE Reach[c]

ActionKind == {"create", "fast_forward", "delete"}
ConflictKinds == {"git_replica_ahead", "git_diverged", "git_primary_rewrote",
                  "git_replica_changed", "git_replica_extra_ref"}

(* Plan: what to do with one ref, from its value p on the primary, r on the *)
(* replica and b in the base.  Of blind commits git cannot tell.            *)

\* planChange, for a tag that differs.  A mutant follows the primary.
TagFollows(r, b) == IF b = r THEN "fast_forward" ELSE "git_replica_changed"
TagVerdict(r, b) == IF b = r THEN "git_primary_rewrote" ELSE "git_replica_changed"

\* planChange, for a branch that differs; what git cannot tell is diverged.
BranchVerdict(p, r, b, blind) ==
  IF {p, r} \cap blind # {} THEN "git_diverged"
  ELSE IF r \in Reach[p] THEN "fast_forward"
  ELSE IF b = r THEN "git_primary_rewrote"
  ELSE IF p \in Reach[r] THEN "git_replica_ahead"
  ELSE "git_diverged"

\* Plan, for a ref only the replica has.  One mutant deletes it whenever there
\* is a base, one says nothing of a value that changed.
DeleteKnown(r, b) == IF b = None THEN "git_replica_extra_ref" ELSE "delete"
IgnoreChanged(r, b) ==
  IF b = None THEN "git_replica_extra_ref" ELSE IF b = r THEN "delete" ELSE "in_sync"
OnlyOnReplica(r, b) ==
  IF b = None THEN "git_replica_extra_ref"
  ELSE IF b = r THEN "delete" ELSE "git_replica_changed"

Plan(f, p, r, b, blind) ==
  IF p = r THEN "in_sync"
  ELSE IF r = None THEN "create"
  ELSE IF p = None THEN OnlyOnReplica(r, b)
  ELSE IF f \in Tag THEN TagVerdict(r, b)
  ELSE BranchVerdict(p, r, b, blind)
=============================================================================
