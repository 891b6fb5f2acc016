------------------------------ MODULE Handoff ------------------------------
(***************************************************************************)
(* Diverged branches handed to the owner: internal/replication/handoff.go  *)
(* (applyDecisions, resetReplicas, handOff, extendHandoff, openHandoff,    *)
(* deleteHandoffBranch) and the rows of internal/store/handoffs.go, for    *)
(* one branch and a run at a time.  How a run compares a replica is module *)
(* Replication's; here a replica's turn is one step.                       *)
(***************************************************************************)
EXTENDS Integers, RefPlan

CONSTANTS
  Node, Primary,  \* the nodes, and the repository's primary among them
  Branch,         \* the branch
  Pulls,          \* bound: pull requests that may be opened on the primary
  Names,          \* bound: hand-off branches named after one replica
  Acts,           \* bound: things people do
  Faults,         \* bound: calls that fail, and crashes
  Pushed,         \* bound: Pushed[n] is what people set the branch to on node n
  Unsaved         \* can an UpdateHandoff be what fails?

ASSUME HandoffAssumption ==
  /\ Primary \in Node /\ Node # {Primary}
  /\ Branch \in Ref \ Tag
  /\ Pulls \in Nat /\ Names \in Nat \ {0} /\ Acts \in Nat /\ Faults \in Nat
  /\ Pushed \in [Node -> SUBSET Value]
  /\ Unsaved \in BOOLEAN

Replica == Node \ {Primary}
Pull == 1..Pulls

\* refs/heads/forgesync/conflict/<replica>/<branch>, then <branch>-2, ...
Slot == Replica \X (1..Names)

VARIABLES
  refs,    \* refs[n]: the branch on node n
  base,    \* base[n]: its value in replicated_refs
  hand,    \* the hand-off branches, on the primary
  pulls,   \* pull requests there, in the order they were opened
  rows,    \* conflict_handoffs; a row has the number of its pull request
  run,     \* the local state of the run
  acts, faults,
  had      \* history: commits the owner has had on the branch, or people let go of

vars == <<refs, base, hand, pulls, rows, run, acts, faults, had>>

NoPull == [state |-> "none", slot |-> CHOOSE s \in Slot : TRUE]
NoRow == [state |-> "none", sha |-> None, nodes |-> {}, over |-> FALSE]
Row == [state : {"none", "open", "merged", "gone", "kept_primary", "expired"},
        sha : Value, nodes : SUBSET Replica, over : BOOLEAN]

\* todo are the rows to decide, fresh the replicas to compare, next and left the
\* replicas to reset and those that could not be; diverged[n] is what replica n
\* has that goes to the owner; k, v and slot are what is being worked on.
Phase == {"idle", "run", "drop", "dropped", "reset", "extended", "open", "pull",
          "undo", "insert"}
Idle == [at |-> "idle", pRef |-> None, listed |-> [s \in Slot |-> None],
         hs |-> [k \in Pull |-> NoRow], todo |-> {}, fresh |-> {},
         next |-> {}, left |-> {}, diverged |-> [n \in Replica |-> None],
         again |-> FALSE, k |-> 0, v |-> None, slot |-> NoPull.slot]
Local == [at : Phase, pRef : Value, listed : [Slot -> Value], hs : [Pull -> Row],
          todo : SUBSET Pull, fresh : SUBSET Replica, next : SUBSET Replica,
          left : SUBSET Replica, diverged : [Replica -> Value], again : BOOLEAN,
          k : 0..Pulls, v : Value, slot : Slot]

\* Branches, pull requests, their rows and what the run carries stay in their
\* types.
TypeOK ==
  /\ refs \in [Node -> Value]
  /\ base \in [Replica -> Value]
  /\ hand \in [Slot -> Value]
  /\ pulls \in [Pull -> [state : {"none", "open", "merged", "closed", "deleted"}, slot : Slot]]
  /\ rows \in [Pull -> Row]
  /\ run \in Local
  /\ run.at = "reset" => run.next \cup run.left \subseteq run.hs[run.k].nodes
  /\ acts \in 0..Acts /\ faults \in 0..Faults
  /\ had \subseteq Commit

Init ==
  /\ refs = [n \in Node |-> None]
  /\ base = [n \in Replica |-> None]
  /\ hand = Idle.listed
  /\ pulls = [k \in Pull |-> NoPull]
  /\ rows = Idle.hs
  /\ run = Idle
  /\ acts = 0 /\ faults = 0
  /\ had = {}

\* A call that fails, and one that must succeed.
Fault == faults < Faults /\ faults' = faults + 1
Fine == UNCHANGED faults

\* conflict_handoffs_open, a unique index: one open row for each version.
OneOpenEach(table) ==
  \A j, k \in Pull : j # k /\ table[j].state = "open" /\ table[k].state = "open"
                     => table[j].sha # table[k].sha

\* saveHandoff: that it fails is logged and nothing more.
Saved(k, row) == [rows EXCEPT ![k] = row]
Save(k, row) ==
  \/ rows' = (IF OneOpenEach(Saved(k, row)) THEN Saved(k, row) ELSE rows) /\ Fine
  \/ Unsaved /\ Fault /\ UNCHANGED rows

-----------------------------------------------------------------------------
(* runOnce reads the primary and the active rows.                          *)

Active(row) == row.state \in {"open", "kept_primary"}

Begin ==
  /\ run.at = "idle"
  /\ run' = [Idle EXCEPT !.at = "run", !.pRef = refs[Primary], !.listed = hand,
                         !.hs = [k \in Pull |-> IF Active(rows[k]) THEN rows[k] ELSE NoRow],
                         !.todo = {k \in Pull : Active(rows[k])}, !.fresh = Replica]
  /\ UNCHANGED <<refs, base, hand, pulls, rows, acts, faults, had>>

-----------------------------------------------------------------------------
(* applyDecisions: the rows in their order, then the replicas.             *)

Deciding(k) == run.at = "run" /\ k \in run.todo /\ \A j \in run.todo : k <= j
Decided(k, row) == [run EXCEPT !.at = "run", !.k = 0, !.todo = @ \ {k}, !.hs[k] = row]

\* Mutants: of Expired, any backup; of AtHandedOff below, any version.
AnyBackup(k) == run.hs[k].state = "kept_primary"
Expired(k) == run.hs[k].state = "kept_primary" /\ run.hs[k].over
Answered(k, answer) == run.hs[k].state = "open" /\ pulls[k].state = answer

\* Nothing to do for the row yet, or the pull request could not be read.
LeaveRow(k) ==
  /\ Deciding(k)
  /\ \/ run.hs[k].state = "kept_primary" /\ ~Expired(k) /\ Fine
     \/ Answered(k, "open") /\ Fine
     \/ run.hs[k].state = "open" /\ Fault
  /\ run' = Decided(k, run.hs[k])
  /\ UNCHANGED <<refs, base, hand, pulls, rows, acts, had>>

\* The pull request is gone: the branch is handed off again.
PullGone(k) ==
  /\ Deciding(k) /\ Answered(k, "deleted")
  /\ Save(k, [run.hs[k] EXCEPT !.state = "gone"])
  /\ run' = Decided(k, NoRow)
  /\ UNCHANGED <<refs, base, hand, pulls, acts, had>>

\* The owner merged it, or the backup is over: the hand-off branch goes.
StartDrop(k) ==
  /\ Deciding(k) /\ (Answered(k, "merged") \/ Expired(k))
  /\ run' = [run EXCEPT !.at = IF run.listed[pulls[k].slot] = None THEN "dropped" ELSE "drop",
                        !.k = k]
  /\ UNCHANGED <<refs, base, hand, pulls, rows, acts, faults, had>>

\* deleteHandoffBranch: from what was listed.
Dropped(s) == [hand EXCEPT ![s] = IF @ = run.listed[s] THEN None ELSE @]
Drop ==
  LET s == pulls[run.k].slot IN
  /\ run.at = "drop"
  /\ \/ /\ hand' = Dropped(s) /\ Fine
        /\ run' = [run EXCEPT !.at = "dropped",
                              !.listed[s] = IF hand[s] = @ THEN None ELSE @]
     \/ /\ hand' \in {hand, Dropped(s)} /\ Fault
        /\ run' = [run EXCEPT !.at = "dropped"]
  /\ UNCHANGED <<refs, base, pulls, rows, acts, had>>

SaveDropped ==
  LET row == run.hs[run.k] IN
  /\ run.at = "dropped"
  /\ Save(run.k, [row EXCEPT !.state = IF @ = "open" THEN "merged" ELSE "expired"])
  /\ run' = Decided(run.k, NoRow)
  /\ UNCHANGED <<refs, base, hand, pulls, acts, had>>

\* The owner closed it: the primary's version is kept.  The mutant of StartReset
\* turns to every replica.
ResetAll(k) ==
  /\ Deciding(k) /\ Answered(k, "closed")
  /\ run' = [run EXCEPT !.at = "reset", !.k = k, !.next = Replica, !.left = {}]
  /\ UNCHANGED <<refs, base, hand, pulls, rows, acts, faults, had>>
StartReset(k) ==
  /\ Deciding(k) /\ Answered(k, "closed")
  /\ run' = [run EXCEPT !.at = "reset", !.k = k, !.next = run.hs[k].nodes, !.left = {}]
  /\ UNCHANGED <<refs, base, hand, pulls, rows, acts, faults, had>>

\* resetReplicas, one replica: done, or no longer at the handed-off commit; or
\* unhealthy, or the push failed or its answer was lost.
AnyVersion(n) == TRUE
AtHandedOff(n) == refs[n] = run.hs[run.k].sha
Reset(n) == [refs EXCEPT ![n] = IF AtHandedOff(n) THEN run.pRef ELSE @]
ResetReplica(n) ==
  /\ run.at = "reset" /\ n \in run.next
  /\ \/ /\ refs' = Reset(n) /\ Fine
        /\ run' = [run EXCEPT !.next = @ \ {n}]
     \/ /\ refs' \in {refs, Reset(n)} /\ Fault
        /\ run' = [run EXCEPT !.next = @ \ {n}, !.left = @ \cup {n}]
  /\ UNCHANGED <<base, hand, pulls, rows, acts, had>>

SaveReset ==
  LET row == [run.hs[run.k] EXCEPT !.nodes = run.left,
                                   !.state = IF run.left = {} THEN "kept_primary" ELSE @] IN
  /\ run.at = "reset" /\ run.next = {}
  /\ Save(run.k, row)
  /\ run' = [Decided(run.k, row) EXCEPT !.left = {}]
  /\ UNCHANGED <<refs, base, hand, pulls, acts, had>>
-----------------------------------------------------------------------------
(* Each replica is compared and brought along (replicate, autoFix).        *)

Comparing(n) == run.at = "run" /\ run.todo = {} /\ n \in run.fresh
Verdict(n) == Plan(Branch, run.pRef, refs[n], base[n], {})
Compared(n) == [run EXCEPT !.fresh = @ \ {n}]

\* The replica is, or is brought, where the primary is.
Follow(n) ==
  /\ Comparing(n) /\ Verdict(n) \in ActionKind \cup {"in_sync"}
  /\ refs' = [refs EXCEPT ![n] = run.pRef]
  /\ base' = [base EXCEPT ![n] = run.pRef]
  /\ run' = Compared(n)
  /\ UNCHANGED <<hand, pulls, rows, acts, faults, had>>

\* autoFix takes what only the replica has to the primary, if that is where it
\* was; the run is then repeated.
TakeOver(n) ==
  /\ Comparing(n) /\ Verdict(n) \in {"git_replica_ahead", "git_replica_extra_ref"}
  /\ IF refs[Primary] \in {run.pRef, refs[n]}
     THEN /\ refs' = [refs EXCEPT ![Primary] = refs[n]]
          /\ had' = had \cup History(refs[n])
          /\ run' = [Compared(n) EXCEPT !.pRef = refs[n], !.again = TRUE]
     ELSE run' = Compared(n) /\ UNCHANGED <<refs, had>>
  /\ UNCHANGED <<base, hand, pulls, rows, acts, faults>>

\* handOffKind: it goes to the owner.  (What else differs is a conflict only.)
Differ(n) ==
  /\ Comparing(n)
  /\ \/ /\ Verdict(n) \in {"git_diverged", "git_primary_rewrote"}
        /\ run' = [Compared(n) EXCEPT !.diverged[n] = refs[n]]
     \/ /\ Verdict(n) = "git_replica_changed"
        /\ run' = Compared(n)
  /\ UNCHANGED <<refs, base, hand, pulls, rows, acts, faults, had>>

\* The replica is unhealthy or cannot be read.
Skip(n) ==
  /\ Comparing(n) /\ Fault
  /\ run' = Compared(n)
  /\ UNCHANGED <<refs, base, hand, pulls, rows, acts, had>>

-----------------------------------------------------------------------------
(* handOff: each diverged version, with the replicas that have it.         *)

Group(v) == {n \in Replica : run.diverged[n] = v}
HandingOff(v) ==
  /\ run.at = "run" /\ run.todo = {} /\ run.fresh = {} /\ ~run.again
  /\ v \in Commit /\ Group(v) # {}

\* The row of version v, and the row that can be moved along to it.  A mutant
\* of HandedOff counts the rows that are no longer open.
EverHandedOff(v) == {k \in Pull : Active(run.hs[k]) /\ run.hs[k].sha = v}
HandedOff(v) == {k \in Pull : run.hs[k].state = "open" /\ run.hs[k].sha = v}
Extensible(v) ==
  {k \in Pull : /\ run.hs[k].state = "open"
                /\ run.listed[pulls[k].slot] = run.hs[k].sha
                /\ run.hs[k].nodes = Group(v)
                /\ run.hs[k].sha \in Reach[v]}
First(S) == CHOOSE k \in S : \A j \in S : k <= j

Done(v) == [run EXCEPT !.at = "run", !.k = 0, !.v = None, !.slot = NoPull.slot,
                       !.diverged = [n \in Replica |-> IF @[n] = v THEN None ELSE @[n]]]

\* It is before the owner already; more replicas may have come to it.
StillOpen(v) ==
  LET k == First(HandedOff(v))
      row == [run.hs[k] EXCEPT !.nodes = @ \cup Group(v)] IN
  /\ HandingOff(v) /\ HandedOff(v) # {}
  /\ IF row = run.hs[k] THEN Fine /\ UNCHANGED rows ELSE Save(k, row)
  /\ run' = [Done(v) EXCEPT !.hs[k] = row]
  /\ UNCHANGED <<refs, base, hand, pulls, acts, had>>

\* extendHandoff: the replicas carried on committing.  When the push fails, a
\* hand-off of its own is opened.
Extended(k, v) == [hand EXCEPT ![pulls[k].slot] = IF @ \in {run.hs[k].sha, v} THEN v ELSE @]
Extend(v) ==
  LET k == First(Extensible(v)) IN
  /\ HandingOff(v) /\ HandedOff(v) = {} /\ Extensible(v) # {}
  /\ \/ /\ hand' = Extended(k, v) /\ Fine
        /\ run' = [run EXCEPT !.at = IF Extended(k, v)[pulls[k].slot] = v
                                     THEN "extended" ELSE "open",
                              !.k = k, !.v = v]
     \/ /\ hand' \in {hand, Extended(k, v)} /\ Fault
        /\ run' = [run EXCEPT !.at = "open", !.v = v]
  /\ UNCHANGED <<refs, base, pulls, rows, acts, had>>

SaveExtended ==
  LET row == [run.hs[run.k] EXCEPT !.sha = run.v] IN
  /\ run.at = "extended"
  /\ Save(run.k, row)
  /\ run' = [Done(run.v) EXCEPT !.hs[run.k] = row]
  /\ UNCHANGED <<refs, base, hand, pulls, acts, had>>

\* openHandoff: the first of the names that is not listed.
FreeNames(n) == {i \in 1..Names : run.listed[<<n, i>>] = None}
FreeSlot(nodes) == LET n == CHOOSE n \in nodes : TRUE IN <<n, First(FreeNames(n))>>
Opened(s, v) == [hand EXCEPT ![s] = IF @ = None THEN v ELSE @]
Opening(v) ==
  \/ run.at = "open" /\ v = run.v
  \/ HandingOff(v) /\ HandedOff(v) = {} /\ Extensible(v) = {}
HasName(v) == FreeNames(CHOOSE n \in Group(v) : TRUE) # {}

OpenBranch(v) ==
  LET s == FreeSlot(Group(v)) IN
  /\ Opening(v) /\ HasName(v)
  /\ \/ /\ hand' = Opened(s, v) /\ Fine
        /\ run' = IF Opened(s, v)[s] = v
                  THEN [run EXCEPT !.at = "pull", !.k = 0, !.v = v, !.slot = s, !.listed[s] = v]
                  ELSE Done(v)
     \/ /\ hand' \in {hand, Opened(s, v)} /\ Fault
        /\ run' = Done(v)
  /\ UNCHANGED <<refs, base, pulls, rows, acts, had>>

\* Past the bounds nothing is handed off.
Unused == {k \in Pull : pulls[k].state = "none"}
NoMore(v) ==
  /\ Opening(v) /\ ~HasName(v)
  /\ run' = Done(v)
  /\ UNCHANGED <<refs, base, hand, pulls, rows, acts, faults, had>>

\* CreatePullRequest, into a branch that must be there; an error may hide a pull
\* request that was opened.
NewPull == [pulls EXCEPT ![First(Unused)] = [state |-> "open", slot |-> run.slot]]
OpenPull ==
  /\ run.at = "pull"
  /\ \/ /\ refs[Primary] # None /\ Unused # {}
        /\ pulls' = NewPull /\ Fine
        /\ run' = [run EXCEPT !.at = "insert", !.k = First(Unused)]
     \/ /\ refs[Primary] = None \/ Unused = {}
        /\ UNCHANGED pulls /\ Fine
        /\ run' = [run EXCEPT !.at = "undo"]
     \/ /\ refs[Primary] # None /\ Unused # {} /\ Fault
        /\ pulls' \in {pulls, NewPull}
        /\ run' = [run EXCEPT !.at = "undo"]
  /\ UNCHANGED <<refs, base, hand, rows, acts, had>>

\* A branch is not left without its pull request, if that can be helped.
Undone == [hand EXCEPT ![run.slot] = IF @ = run.v THEN None ELSE @]
UndoBranch ==
  /\ run.at = "undo"
  /\ \/ hand' = Undone /\ Fine
     \/ hand' \in {hand, Undone} /\ Fault
  /\ run' = [Done(run.v) EXCEPT !.listed[run.slot] = None]
  /\ UNCHANGED <<refs, base, pulls, rows, acts, had>>

\* SaveHandoff.
Insert ==
  LET row == [state |-> "open", sha |-> run.v, nodes |-> Group(run.v), over |-> FALSE] IN
  /\ run.at = "insert"
  /\ \/ /\ OneOpenEach(Saved(run.k, row))
        /\ rows' = Saved(run.k, row) /\ Fine
        /\ run' = [Done(run.v) EXCEPT !.hs[run.k] = row]
     \/ /\ UNCHANGED rows
        /\ IF OneOpenEach(Saved(run.k, row)) THEN Fault ELSE Fine
        /\ run' = Done(run.v)
  /\ UNCHANGED <<refs, base, hand, pulls, acts, had>>

\* The run is over; what the primary took over is for the next one.
End ==
  /\ run.at = "run" /\ run.todo = {} /\ run.fresh = {}
  /\ run.again \/ \A n \in Replica : run.diverged[n] = None
  /\ run' = Idle
  /\ UNCHANGED <<refs, base, hand, pulls, rows, acts, faults, had>>

\* The controller dies in the middle of it.
Crash ==
  /\ run.at # "idle" /\ Fault
  /\ run' = Idle
  /\ UNCHANGED <<refs, base, hand, pulls, rows, acts, had>>

-----------------------------------------------------------------------------
(* The owner, the users of the nodes, and time.                            *)

Act == acts < Acts /\ acts' = acts + 1

\* Somebody pushes, force-pushes, creates or deletes the branch on a node.
Write(n, v) ==
  /\ Act /\ refs[n] # v
  /\ refs' = [refs EXCEPT ![n] = v]
  /\ had' = had \cup (History(refs[n]) \ History(v))
                 \cup (IF n = Primary THEN History(v) ELSE {})
  /\ UNCHANGED <<base, hand, pulls, rows, run, faults>>

\* The owner merges a pull request; the merge commit may be a squash.
Merge(k, m) ==
  LET s == pulls[k].slot IN
  /\ Act /\ pulls[k].state = "open"
  /\ hand[s] # None /\ refs[Primary] # None
  /\ refs[Primary] \in Reach[m] /\ refs[Primary] # m
  /\ pulls' = [pulls EXCEPT ![k].state = "merged"]
  /\ refs' = [refs EXCEPT ![Primary] = m]
  /\ had' = had \cup Reach[m] \cup Reach[hand[s]]
  /\ UNCHANGED <<base, hand, rows, run, faults>>

\* The owner closes one, opens one again, or removes one.
Decide(k) ==
  /\ Act
  /\ \/ pulls[k].state = "open" /\ \E d \in {"closed", "deleted"} :
          pulls' = [pulls EXCEPT ![k].state = d]
     \/ pulls[k].state = "closed" /\ pulls' = [pulls EXCEPT ![k].state = "open"]
  /\ UNCHANGED <<refs, base, hand, rows, run, faults, had>>

\* The owner adds commits to a hand-off branch while the last pull request that
\* was opened from it is open.  (Not once it is a backup: that is deleted as it
\* is when BackupFor has passed, also when the pull request was opened again.)
Latest(k) == \A j \in Pull : j > k /\ pulls[j].state # "none" => pulls[j].slot # pulls[k].slot
Amend(k, v) ==
  LET s == pulls[k].slot IN
  /\ Act /\ pulls[k].state = "open" /\ Latest(k)
  /\ rows[k].state # "kept_primary"
  /\ hand[s] # None /\ hand[s] # v /\ hand[s] \in Reach[v]
  /\ hand' = [hand EXCEPT ![s] = v]
  /\ UNCHANGED <<refs, base, pulls, rows, run, faults, had>>

\* BackupFor has passed.
BackupEnds(k) ==
  /\ rows[k].state = "kept_primary" /\ ~rows[k].over
  /\ rows' = [rows EXCEPT ![k].over = TRUE]
  /\ had' = had \cup History(hand[pulls[k].slot])
  /\ UNCHANGED <<refs, base, hand, pulls, run, acts, faults>>

Work ==
  \/ Begin
  \/ \E k \in Pull : LeaveRow(k) \/ PullGone(k) \/ StartDrop(k) \/ StartReset(k)
  \/ Drop \/ SaveDropped \/ SaveReset
  \/ \E n \in Replica : ResetReplica(n) \/ Follow(n) \/ TakeOver(n) \/ Differ(n) \/ Skip(n)
  \/ \E v \in Commit : StillOpen(v) \/ Extend(v) \/ OpenBranch(v) \/ NoMore(v)
  \/ SaveExtended \/ OpenPull \/ UndoBranch \/ Insert \/ End

People ==
  \/ \E n \in Node : \E v \in Pushed[n] : Write(n, v)
  \/ \E k \in Pull : Decide(k) \/ \E v \in Commit : Merge(k, v) \/ Amend(k, v)

Next == Work \/ Crash \/ People \/ \E k \in Pull : BackupEnds(k)

Spec == Init /\ [][Next]_vars

(* Fairness: runs come again and again, and each call in a run returns.     *)
LiveSpec == Spec /\ WF_vars(Work)

-----------------------------------------------------------------------------
(* Properties.                                                             *)

Everything ==
  (UNION {History(refs[n]) : n \in Node}) \cup (UNION {History(hand[s]) : s \in Slot})

\* "Never lose work": what a run takes off a replica, the primary or a hand-off
\* branch is still somewhere, unless the owner has had it on the branch or
\* people have let it go.
KeepsWork == [][run' # run => Everything \ Everything' \subseteq had]_vars

\* "Keeps the hand-off branch as a backup for BackupFor": while the owner's
\* choice of the primary's version can be regretted, the replicas' is there.
BackupKept ==
  \A k \in Pull :
    rows[k].state = "kept_primary" /\ ~rows[k].over
      => rows[k].sha \in History(hand[pulls[k].slot])

Waiting(n) ==
  \E k \in Pull : /\ rows[k].state = "open" /\ pulls[k].state = "open"
                  /\ rows[k].sha = refs[n] /\ n \in rows[k].nodes
Exhausted == Unused = {} \/ \E n \in Replica : \A i \in 1..Names : hand[<<n, i>>] # None
Resolved ==
  /\ \A n \in Replica :
       \/ refs[n] = refs[Primary] \/ Waiting(n) \/ Exhausted
       \/ refs[Primary] = None /\ base[n] \notin {None, refs[n]}
  /\ \A k \in Pull : rows[k].state = "open" => pulls[k].state = "open"

\* When people and failures rest, each replica has the primary's version or its
\* own is before the owner; no decision waits to be carried out.
Resolves == <>[]Resolved
=============================================================================
