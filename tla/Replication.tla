---------------------------- MODULE Replication ----------------------------
(***************************************************************************)
(* The replication of one repository's branches and tags:                  *)
(* internal/replication/engine.go (runPasses, runOnce, replicate), git.go  *)
(* (LsRemote, Fetch, Push) and handoff.go (autoFix), over plan.go (module  *)
(* RefPlan) and the base kept by internal/store/replication.go.            *)
(*                                                                         *)
(* A Runner is a controller that replicates this repository; a controller  *)
(* runs it once at a time (module RunQueue), two controllers may overlap,  *)
(* as module Supervise shows.                                              *)
(***************************************************************************)
EXTENDS Integers, RefPlan

CONSTANTS
  Node, Primary,  \* the nodes, and the repository's primary among them
  Runner,         \* controllers that run this repository
  AutoFix,        \* Options.AutoFix
  Writers,        \* nodes whose users write: {Primary} under protect_replicas
  Fragile,        \* replicas whose copy of the repository may be deleted there
  Faulty          \* can calls fail, and controllers crash?

ASSUME ReplicationAssumption ==
  /\ Primary \in Node
  /\ AutoFix \in BOOLEAN
  /\ Writers \subseteq Node
  /\ Fragile \subseteq Node \ {Primary}
  /\ Faulty \in BOOLEAN

Replica == Node \ {Primary}

VARIABLES
  refs,       \* refs[n][f]: where f points on node n
  present,    \* does replica n have the repository?
  base,       \* replicated_refs: what ForgeSync last knew it left on a replica
  conflicts,  \* the refs with an open git conflict
  run,        \* run[w]: the local state of controller w's run
  busy,       \* do users still work, and may things still fail?
  had         \* history: had[f] is every commit f ever held on the primary

store == <<base, conflicts>>
vars  == <<refs, present, base, conflicts, run, busy, had>>

NoRefs == [f \in Ref |-> None]
Values(R) == {R[f] : f \in Ref} \ {None}
Histories(R) == UNION {Reach[c] : c \in Values(R)}

Issue == ConflictKinds \X Ref

\* The replica being worked on is node; was is its base as read and, after the
\* push, the base to record; blind are listed commits not in git's cache.
Phase == {"idle", "again", "fetch", "next", "forget", "list", "fetchReplica",
          "push", "takeover", "record"}
Local == [at : Phase, pass : 0..2, todo : SUBSET Replica, node : Node,
          pRefs : Refs, rRefs : Refs, was : Refs, blind : SUBSET Commit,
          issues : SUBSET Issue, found : SUBSET Ref,
          conclusive : BOOLEAN, again : BOOLEAN]
Idle == [at |-> "idle", pass |-> 0, todo |-> {}, node |-> Primary,
         pRefs |-> NoRefs, rRefs |-> NoRefs, was |-> NoRefs, blind |-> {},
         issues |-> {}, found |-> {}, conclusive |-> TRUE, again |-> FALSE]

\* Refs, bases, conflicts and what each run carries stay in their types.
TypeOK ==
  /\ refs \in [Node -> Refs]
  /\ present \in [Replica -> BOOLEAN]
  /\ base \in [Replica -> Refs]
  /\ conflicts \subseteq Ref
  /\ run \in [Runner -> Local]
  /\ busy \in BOOLEAN
  /\ had \in [Ref -> SUBSET Commit]

Init ==
  /\ refs = [n \in Node |-> NoRefs]
  /\ present = [n \in Replica |-> TRUE]
  /\ base = [n \in Replica |-> NoRefs]
  /\ conflicts = {}
  /\ run = [w \in Runner |-> Idle]
  /\ busy = TRUE
  /\ had = [f \in Ref |-> {}]

-----------------------------------------------------------------------------
(* What Plan says of the values a run has read.                           *)

Verdict(w, f) ==
  Plan(f, run[w].pRefs[f], run[w].rRefs[f], run[w].was[f], run[w].blind)
Changes(w) == {f \in Ref : Verdict(w, f) \in ActionKind}
Issues(w) == {i \in Issue : i[1] = Verdict(w, i[2])}

\* What autoFix takes to the primary.
Fixable(issues) ==
  {f \in Ref : <<"git_replica_ahead", f>> \in issues \/ <<"git_replica_extra_ref", f>> \in issues}

-----------------------------------------------------------------------------
(* git push of the refs S from their values in `from` to those in `to`.     *)

\* The refs that move: each is a compare-and-swap.  A mutant forces them.
MovedByForce(n, S, from) == S
Moved(n, S, from) == {f \in S : refs[n][f] = from[f]}

\* git does not send a ref that is already where it is to go; a ref it does
\* send needs its commit in the cache, or nothing is sent at all.
InPlace(n, S, to) == {f \in S : to[f] # None /\ refs[n][f] = to[f]}
Refuses(n, S, from, to, blind) == \E f \in Moved(n, S, from) : to[f] \in blind

\* ... and then, unless it has something to say of another ref, it reports
\* nothing, which Push takes for a failure.
Silent(n, S, from, to, blind) == Refuses(n, S, from, to, blind) /\ Moved(n, S, from) = S

\* The refs a node takes: all of those sent, or fewer when it may refuse some.
MayFail == Faulty /\ busy
Taken(n, S, from, to, blind) ==
  IF Refuses(n, S, from, to, blind) THEN {{}} ELSE IF MayFail THEN SUBSET S ELSE {S}

\* The refs reported done when the node takes `got`: those in place are, too.
Done(n, S, got, from, to) == Moved(n, got, from) \cup InPlace(n, S, to)

Pushed(n, S, to) == [refs EXCEPT ![n] = [f \in Ref |-> IF f \in S THEN to[f] ELSE @[f]]]

-----------------------------------------------------------------------------
(* A run: runPasses, runOnce, replicate.                                   *)

\* LsRemote of the primary starts a pass; a run is one pass or two.
BeginPass(w) ==
  /\ run[w].at \in {"idle", "again"}
  /\ run' = [run EXCEPT ![w] =
               [Idle EXCEPT !.at = "fetch", !.pass = run[w].pass + 1,
                            !.todo = Replica, !.pRefs = refs[Primary]]]
  /\ UNCHANGED <<refs, present, store, busy, had>>

\* What a fetch of node n leaves missing of the refs listed: what n no longer
\* has, unless an earlier fetch left it in the cache.
Missing(n, listed) == {{}, Values(listed) \ Histories(refs[n])}

FetchPrimary(w) ==
  /\ run[w].at = "fetch"
  /\ \E missing \in Missing(Primary, run[w].pRefs) :
       run' = [run EXCEPT ![w].at = "next", ![w].blind = missing]
  /\ UNCHANGED <<refs, present, store, busy, had>>

\* The primary cannot be read: nothing is compared.
GiveUp(w) ==
  /\ run[w].at = "fetch" /\ MayFail
  /\ run' = [run EXCEPT ![w] = Idle]
  /\ UNCHANGED <<refs, present, store, busy, had>>

\* The replica's turn is over: what no later step reads is dropped.
PrimaryAfter(w, n) == IF run[w].todo = {n} THEN NoRefs ELSE run[w].pRefs
Leave(w, n) == [run[w] EXCEPT !.at = "next", !.todo = @ \ {n}, !.node = Primary,
                              !.rRefs = NoRefs, !.was = NoRefs, !.issues = {},
                              !.pRefs = PrimaryAfter(w, n),
                              !.blind = @ \cap Values(PrimaryAfter(w, n))]
LeaveUncompared(w, n) == [Leave(w, n) EXCEPT !.conclusive = FALSE]

\* The replica is unhealthy, or a call about it failed before the push.
SkipReplica(w, n) ==
  /\ n \in run[w].todo
  /\ \/ run[w].at = "next" /\ MayFail
     \/ run[w].at = "forget" /\ run[w].node = n /\ MayFail
     \/ run[w].at = "list" /\ run[w].node = n /\ (MayFail \/ ~present[n])
     \/ run[w].at = "fetchReplica" /\ run[w].node = n /\ (MayFail \/ ~present[n])
  /\ run' = [run EXCEPT ![w] = LeaveUncompared(w, n)]
  /\ UNCHANGED <<refs, present, store, busy, had>>

\* LsRemote of the replica.
ListReplica(w, n) ==
  /\ \/ run[w].at = "next" /\ n \in run[w].todo
     \/ run[w].at = "list" /\ run[w].node = n
  /\ present[n]
  /\ run' = [run EXCEPT ![w].node = n, ![w].rRefs = refs[n], ![w].at = "fetchReplica"]
  /\ UNCHANGED <<refs, present, store, busy, had>>

\* The replica does not have the repository: it is created there, empty.
Recreate(w, n) ==
  /\ run[w].at = "next" /\ n \in run[w].todo
  /\ ~present[n]
  /\ present' = [present EXCEPT ![n] = TRUE]
  /\ run' = [run EXCEPT ![w].node = n, ![w].at = "forget"]
  /\ UNCHANGED <<refs, store, busy, had>>

\* ForgetReplicatedRefs: what was written to the earlier copy is gone.
Forget(w) ==
  /\ run[w].at = "forget"
  /\ base' = [base EXCEPT ![run[w].node] = NoRefs]
  /\ run' = [run EXCEPT ![w].at = "list"]
  /\ UNCHANGED <<refs, present, conflicts, busy, had>>

\* Fetch of the replica, unless it has no refs; then ReplicatedRefs, the base.
FetchReplica(w) ==
  LET n == run[w].node IN
  /\ run[w].at = "fetchReplica"
  /\ present[n] \/ run[w].rRefs = NoRefs
  /\ \E missing \in Missing(n, run[w].rRefs) :
       run' = [run EXCEPT ![w].at = "push", ![w].was = base[n],
                          ![w].blind = (@ \ Histories(refs[n])) \cup missing]
  /\ UNCHANGED <<refs, present, store, busy, had>>

\* The new base: refs in sync, plus what was just written; refs with issues or
\* failed pushes keep their old base.  A mutant takes the replica as it is.
NextBaseAsRead(w, done) ==
  [f \in Ref |-> IF f \in done THEN run[w].pRefs[f] ELSE run[w].rRefs[f]]
NextBase(w, done) ==
  [f \in Ref |-> IF f \in done \/ run[w].pRefs[f] = run[w].rRefs[f]
                 THEN run[w].pRefs[f] ELSE run[w].was[f]]

\* The push to the replica is answered.
PushReplica(w) ==
  LET n == run[w].node  S == Changes(w) IN
  /\ run[w].at = "push"
  /\ S # {} => present[n] /\ ~Silent(n, S, run[w].rRefs, run[w].pRefs, run[w].blind)
  /\ \E got \in Taken(n, S, run[w].rRefs, run[w].pRefs, run[w].blind) :
       /\ refs' = Pushed(n, Moved(n, got, run[w].rRefs), run[w].pRefs)
       /\ run' = [run EXCEPT
                    ![w].was = NextBase(w, Done(n, S, got, run[w].rRefs, run[w].pRefs)),
                    ![w].issues = Issues(w),
                    ![w].at = "takeover"]
  /\ UNCHANGED <<present, store, busy, had>>

\* The push fails, or its answer is lost: the base stays as it was.
PushFails(w) ==
  LET n == run[w].node  S == Changes(w) IN
  /\ run[w].at = "push" /\ S # {}
  /\ IF ~present[n] \/ Silent(n, S, run[w].rRefs, run[w].pRefs, run[w].blind)
     THEN UNCHANGED refs
     ELSE /\ MayFail
          /\ \E got \in Taken(n, S, run[w].rRefs, run[w].pRefs, run[w].blind) :
               refs' = Pushed(n, Moved(n, got, run[w].rRefs), run[w].pRefs)
  /\ run' = [run EXCEPT ![w] = LeaveUncompared(w, n)]
  /\ UNCHANGED <<present, store, busy, had>>

\* The primary moves the refs S to the replica's values.
PrimaryTakes(w, S) ==
  /\ refs' = Pushed(Primary, S, run[w].rRefs)
  /\ had' = [f \in Ref |-> IF f \in S THEN had[f] \cup History(run[w].rRefs[f]) ELSE had[f]]

\* autoFix: what only the replica has goes to the primary, and a second pass
\* will carry it to the other replicas.
TakenOver(w, fixed) ==
  run' = [run EXCEPT
            ![w].at = "record", ![w].rRefs = NoRefs,
            ![w].pRefs = [f \in Ref |-> IF f \in fixed THEN run[w].rRefs[f] ELSE run[w].pRefs[f]],
            ![w].issues = {i \in run[w].issues : i[2] \notin fixed},
            ![w].again = run[w].again \/ fixed # {}]
TakeOver(w) ==
  LET S == Fixable(run[w].issues) IN
  /\ run[w].at = "takeover" /\ AutoFix /\ S # {}
  /\ ~Silent(Primary, S, run[w].pRefs, run[w].rRefs, run[w].blind)
  /\ \E got \in Taken(Primary, S, run[w].pRefs, run[w].rRefs, run[w].blind) :
       /\ PrimaryTakes(w, Moved(Primary, got, run[w].pRefs))
       /\ TakenOver(w, Done(Primary, S, got, run[w].pRefs, run[w].rRefs))
  /\ UNCHANGED <<present, store, busy>>

\* autoFix's push fails, or its answer is lost: every issue stays.
TakeOverFails(w) ==
  LET S == Fixable(run[w].issues) IN
  /\ run[w].at = "takeover" /\ AutoFix /\ S # {}
  /\ IF Silent(Primary, S, run[w].pRefs, run[w].rRefs, run[w].blind)
     THEN UNCHANGED <<refs, had>>
     ELSE /\ MayFail
          /\ \E got \in Taken(Primary, S, run[w].pRefs, run[w].rRefs, run[w].blind) : PrimaryTakes(w, Moved(Primary, got, run[w].pRefs))
  /\ run' = [run EXCEPT ![w].at = "record", ![w].rRefs = NoRefs]
  /\ UNCHANGED <<present, store, busy>>

\* SaveReplicaSync, when nothing is left to take over.  That it fails is logged and nothing more.
Record(w) ==
  /\ \/ run[w].at = "record"
     \/ run[w].at = "takeover" /\ ~(AutoFix /\ Fixable(run[w].issues) # {})
  /\ \/ base' = [base EXCEPT ![run[w].node] = run[w].was]
     \/ MayFail /\ UNCHANGED base
  /\ run' = [run EXCEPT ![w] = [Leave(w, run[w].node) EXCEPT
                                  !.found = @ \cup {i[2] : i \in run[w].issues}]]
  /\ UNCHANGED <<refs, present, conflicts, busy, had>>

\* SyncConflicts: what was found is open and, unless every replica was compared,
\* so is what was open before.
OpenAfter(w) == run[w].found \cup (IF run[w].conclusive THEN {} ELSE conflicts)

\* runPasses: a second pass, never a third.  The mutant goes on.
PassWhileAgain(w) == run[w].again
AnotherPass(w) == run[w].again /\ run[w].pass = 1

EndPass(w) ==
  /\ run[w].at = "next" /\ run[w].todo = {}
  /\ \/ /\ conflicts' = OpenAfter(w)
        /\ run' = [run EXCEPT ![w] = IF AnotherPass(w)
                                     THEN [Idle EXCEPT !.at = "again", !.pass = run[w].pass]
                                     ELSE Idle]
     \/ /\ MayFail
        /\ run' = [run EXCEPT ![w] = Idle]
        /\ UNCHANGED conflicts
  /\ UNCHANGED <<refs, present, base, busy, had>>

\* The controller dies in the middle of a run.
Crash(w) ==
  /\ MayFail /\ run[w].at # "idle"
  /\ run' = [run EXCEPT ![w] = Idle]
  /\ UNCHANGED <<refs, present, store, busy, had>>

-----------------------------------------------------------------------------
(* The users of the nodes.                                                 *)

\* A ref is pushed, force-pushed, created or deleted on one node.
UserSets(n, f, v) ==
  /\ busy /\ n \in Writers /\ refs[n][f] # v
  /\ n # Primary => present[n]
  /\ refs' = [refs EXCEPT ![n][f] = v]
  /\ had' = IF n = Primary THEN [had EXCEPT ![f] = @ \cup History(v)] ELSE had
  /\ UNCHANGED <<present, store, run, busy>>

\* Somebody deletes a replica's copy of the repository.
CopyDeleted(n) ==
  /\ busy /\ n \in Fragile /\ present[n]
  /\ present' = [present EXCEPT ![n] = FALSE]
  /\ refs' = [refs EXCEPT ![n] = NoRefs]
  /\ UNCHANGED <<store, run, busy, had>>

\* From here on users leave the repository alone and nothing fails.
Rest ==
  /\ busy
  /\ busy' = FALSE
  /\ UNCHANGED <<refs, present, store, run, had>>

Replicate(w) ==
  \/ BeginPass(w) \/ FetchPrimary(w) \/ GiveUp(w)
  \/ \E n \in Replica : SkipReplica(w, n) \/ ListReplica(w, n) \/ Recreate(w, n)
  \/ Forget(w) \/ FetchReplica(w)
  \/ PushReplica(w) \/ PushFails(w) \/ TakeOver(w) \/ TakeOverFails(w)
  \/ Record(w) \/ EndPass(w)

Next ==
  \/ \E w \in Runner : Replicate(w) \/ Crash(w)
  \/ \E n \in Node, f \in Ref, v \in Value : UserSets(n, f, v)
  \/ \E n \in Replica : CopyDeleted(n)
  \/ Rest

Spec == Init /\ [][Next]_vars

(* Fairness.  Engine.Run's rounds start a run of every repository again and *)
(* again, and each call in a run returns.                                   *)
LiveSpec == Spec /\ \A w \in Runner : WF_vars(Replicate(w))

-----------------------------------------------------------------------------
(* Properties.                                                             *)

\* "It never overwrites work" (plan.go): whatever a run takes off a ref, the
\* new value contains it or, on a replica, the primary has held it under that
\* ref.  Nothing made on a replica is ever lost to replication.
LosesNothing ==
  [][run' # run =>
       \A n \in Node, f \in Ref :
         History(refs[n][f]) \subseteq
           History(refs'[n][f]) \cup (IF n = Primary THEN {} ELSE had[f])]_vars

\* The base never holds what only a replica had, so a deletion it justifies is
\* of something the primary has held (plan.go: "the last value it wrote").
BaseFromPrimary ==
  \A n \in Replica, f \in Ref : base[n][f] \in had[f] \cup {None}

\* Tags "aren't expected to move" (plan.go): a run creates one or deletes one,
\* on any node, and never makes one point at something else.
TagsStay ==
  [][run' # run =>
       \A n \in Node, f \in Tag :
         refs[n][f] # None => refs'[n][f] \in {refs[n][f], None}]_vars

Settled ==
  \A n \in Replica, f \in Ref :
    present[n] /\ (refs[n][f] = refs[Primary][f] \/ f \in conflicts)

\* Once users and failures rest, every ref ends up the same everywhere or in
\* the list of conflicts for a person, for good.
Settles == <>~busy => <>[]Settled

\* What plan.go says of history rewritten on the primary: it needs a person.  A
\* run never brings back commits the owner has taken off the primary's ref.
RewriteStands ==
  [][run' # run =>
       \A f \in Ref :
         (History(refs'[Primary][f]) \ History(refs[Primary][f])) \cap had[f] = {}]_vars
=============================================================================
