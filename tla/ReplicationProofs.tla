------------------------- MODULE ReplicationProofs -------------------------
(* What is proved of module Replication, for every value of its constants. *)
EXTENDS Replication, TLAPS

USE ReplicationAssumption, RefAssumption

\* The primary's history is whole: with a commit comes all it contains.
HadWhole == \A f \in Ref : \A d \in had[f] : Reach[d] \subseteq had[f]

\* The primary's own refs are part of its history.
PrimaryHad == \A f \in Ref : refs[Primary][f] \in had[f] \cup {None}

\* A run's local state l, against the primary's history h: what it has read of
\* the primary and of the base is in h; past its first call about a replica it
\* has one in hand; what autoFix takes over is new to the primary's ref, or
\* builds on it, and never moves a tag; and it makes two passes at most.
LocalOK(l, h) ==
  /\ \A f \in Ref : l.pRefs[f] \in h[f] \cup {None} /\ l.was[f] \in h[f] \cup {None}
  /\ l.at \in {"forget", "list", "fetchReplica", "push", "takeover", "record"}
       => l.node \in Replica
  /\ l.at = "takeover" =>
       \A f \in Fixable(l.issues) :
         /\ l.rRefs[f] # None
         /\ \/ l.pRefs[f] = None
            \/ f \notin Tag /\ l.pRefs[f] \in Reach[l.rRefs[f]]
  /\ l.at = "idle" => l.pass = 0
  /\ l.at = "again" => l.pass = 1
RunOK == \A w \in Runner : LocalOK(run[w], had)

Inv == TypeOK /\ HadWhole /\ PrimaryHad /\ BaseFromPrimary /\ RunOK

LEMMA IdleLocal == Idle \in Local
  BY DEF Idle, Local, NoRefs, Refs, Value, Phase

LEMMA PlanFacts ==
  ASSUME NEW f \in Ref, NEW p \in Value, NEW r \in Value, NEW b \in Value, NEW blind
  PROVE  /\ Plan(f, p, r, b, blind) = "create" => p # None /\ r = None
         /\ Plan(f, p, r, b, blind) = "fast_forward" =>
              p # None /\ r # None /\ f \notin Tag /\ r \in Reach[p]
         /\ Plan(f, p, r, b, blind) = "delete" => p = None /\ r # None /\ b = r
         /\ Plan(f, p, r, b, blind) = "git_replica_ahead" =>
              p # None /\ r # None /\ f \notin Tag /\ p \in Reach[r]
         /\ Plan(f, p, r, b, blind) = "git_replica_extra_ref" => p = None /\ r # None
  BY DEF Plan, OnlyOnReplica, TagVerdict, BranchVerdict

LEMMA InitInv == Init => Inv
<1> SUFFICES ASSUME Init PROVE Inv
  OBVIOUS
<1> USE DEF Init
<1>1. TypeOK
  BY IdleLocal DEF TypeOK, Refs, Value, NoRefs
<1>2. HadWhole /\ PrimaryHad /\ BaseFromPrimary
  BY DEF HadWhole, PrimaryHad, BaseFromPrimary, NoRefs, Replica
<1>3. RunOK
  BY DEF RunOK, LocalOK, Idle, NoRefs
<1> QED BY <1>1, <1>2, <1>3 DEF Inv

-----------------------------------------------------------------------------
(* The steps of a run.                                                     *)

\* A step that gives run w the local state l keeps the other runs sound, when
\* the primary's history only grows.
LEMMA SetRun ==
  ASSUME TypeOK, RunOK, NEW w \in Runner, NEW l \in Local,
         run' = [run EXCEPT ![w] = l],
         \A f \in Ref : had[f] \subseteq had'[f],
         LocalOK(l, had')
  PROVE  run' \in [Runner -> Local] /\ RunOK'
<1>1. run' \in [Runner -> Local]
  BY DEF TypeOK
<1>2. ASSUME NEW v \in Runner PROVE LocalOK(run[v], had) => LocalOK(run[v], had')
  BY DEF LocalOK
<1>3. ASSUME NEW v \in Runner PROVE LocalOK(run'[v], had')
  BY <1>2 DEF RunOK, TypeOK
<1> QED BY <1>1, <1>3 DEF RunOK

\* The steps that leave the primary and its history alone.
LEMMA QuietStep ==
  ASSUME Inv, NEW w \in Runner, NEW l \in Local,
         run' = [run EXCEPT ![w] = l], LocalOK(l, had),
         refs' \in [Node -> Refs], refs'[Primary] = refs[Primary],
         UNCHANGED <<busy, had>>,
         present' \in [Replica -> BOOLEAN], conflicts' \subseteq Ref,
         base' \in [Replica -> Refs], BaseFromPrimary'
  PROVE  Inv'
<1>1. run' \in [Runner -> Local] /\ RunOK'
  BY SetRun DEF Inv
<1>2. TypeOK'
  BY <1>1 DEF Inv, TypeOK
<1> QED BY <1>1, <1>2 DEF Inv, HadWhole, PrimaryHad

LEMMA LocalState == ASSUME Inv, NEW w \in Runner PROVE run[w] \in Local /\ LocalOK(run[w], had)
  BY DEF Inv, TypeOK, RunOK

LEMMA LeaveLocal ==
  ASSUME Inv, NEW w \in Runner, NEW n \in Node
  PROVE  Leave(w, n) \in Local /\ LocalOK(Leave(w, n), had)
<1>1. PrimaryAfter(w, n) \in Refs
  BY DEF Inv, TypeOK, Local, PrimaryAfter, NoRefs, Refs, Value
<1>2. \A f \in Ref : PrimaryAfter(w, n)[f] \in had[f] \cup {None}
  BY DEF Inv, RunOK, LocalOK, PrimaryAfter, NoRefs
<1>3. NoRefs \in Refs
  BY DEF NoRefs, Refs, Value
<1>4. Leave(w, n) \in Local
  BY <1>1, <1>3, LocalState, ReplicationAssumption, RefAssumption DEF Leave, Local, Phase
<1>5. LocalOK(Leave(w, n), had)
  BY <1>2 DEF LocalOK, Leave, NoRefs, Inv, TypeOK, Local
<1> QED BY <1>4, <1>5

LEMMA IdleOK == LocalOK(Idle, had)
  BY DEF LocalOK, Idle, NoRefs

LEMMA BeginPassInv ==
  ASSUME Inv, NEW w \in Runner, BeginPass(w) PROVE Inv'
<1> DEFINE l == [Idle EXCEPT !.at = "fetch", !.pass = run[w].pass + 1,
                             !.todo = Replica, !.pRefs = refs[Primary]]
<1>1. run' = [run EXCEPT ![w] = l] /\ UNCHANGED <<refs, present, base, conflicts, busy, had>>
  BY DEF BeginPass, store
<1>2. run[w].pass \in {0, 1}
  BY DEF BeginPass, Inv, RunOK, LocalOK
<1>3. l \in Local
  <2>1. refs[Primary] \in Refs
    BY DEF Inv, TypeOK
  <2>2. run[w].pass + 1 \in 0..2
    BY <1>2
  <2> QED BY <2>1, <2>2, IdleLocal DEF Local, Phase
<1>4. LocalOK(l, had)
  BY DEF LocalOK, Idle, NoRefs, Inv, PrimaryHad
<1> HIDE DEF l
<1> QED BY <1>1, <1>3, <1>4, QuietStep DEF Inv, TypeOK, BaseFromPrimary

LEMMA FetchPrimaryInv ==
  ASSUME Inv, NEW w \in Runner, FetchPrimary(w) PROVE Inv'
<1>1. PICK missing \in Missing(Primary, run[w].pRefs) :
        run' = [run EXCEPT ![w].at = "next", ![w].blind = missing]
  BY DEF FetchPrimary
<1>2. missing \subseteq Commit
  BY <1>1 DEF Missing, Values, Inv, TypeOK, Local, Refs, Value
<1> DEFINE l == [run[w] EXCEPT !.at = "next", !.blind = missing]
<1>3. run' = [run EXCEPT ![w] = l]
  BY <1>1 DEF Inv, TypeOK, Local
<1>4. l \in Local
  BY <1>2, LocalState DEF Local, Phase
<1>5. LocalOK(l, had)
  BY LocalState DEF Local, LocalOK
<1> HIDE DEF l
<1> QED BY <1>3, <1>4, <1>5, QuietStep DEF FetchPrimary, store, Inv, TypeOK, BaseFromPrimary

LEMMA GiveUpInv ==
  ASSUME Inv, NEW w \in Runner, GiveUp(w) \/ Crash(w) PROVE Inv'
  BY IdleLocal, IdleOK, QuietStep DEF GiveUp, Crash, store, Inv, TypeOK, BaseFromPrimary

LEMMA SkipReplicaInv ==
  ASSUME Inv, NEW w \in Runner, NEW n \in Replica, SkipReplica(w, n) PROVE Inv'
<1> DEFINE l == LeaveUncompared(w, n)
<1>1. Leave(w, n) \in Local /\ LocalOK(Leave(w, n), had)
  BY LeaveLocal DEF Replica
<1>2. l \in Local /\ LocalOK(l, had)
  BY <1>1 DEF LeaveUncompared, Local, LocalOK
<1> HIDE DEF l
<1>3. run' = [run EXCEPT ![w] = l]
  BY DEF SkipReplica, l
<1> QED BY <1>2, <1>3, QuietStep DEF SkipReplica, store, Inv, TypeOK, BaseFromPrimary

LEMMA ListReplicaInv ==
  ASSUME Inv, NEW w \in Runner, NEW n \in Replica, ListReplica(w, n) PROVE Inv'
<1> DEFINE l == [run[w] EXCEPT !.node = n, !.rRefs = refs[n], !.at = "fetchReplica"]
<1>1. n \in Node /\ refs[n] \in Refs
  BY DEF Inv, TypeOK, Replica
<1>2. l \in Local
  BY <1>1, LocalState DEF Local, Phase
<1>3. LocalOK(l, had)
  BY LocalState DEF Local, LocalOK
<1>4. run' = [run EXCEPT ![w] = l]
  BY DEF ListReplica, Inv, TypeOK, Local
<1> HIDE DEF l
<1> QED BY <1>2, <1>3, <1>4, QuietStep DEF ListReplica, store, Inv, TypeOK, BaseFromPrimary

LEMMA RecreateInv ==
  ASSUME Inv, NEW w \in Runner, NEW n \in Replica, Recreate(w, n) PROVE Inv'
<1> DEFINE l == [run[w] EXCEPT !.node = n, !.at = "forget"]
<1>1. l \in Local
  BY LocalState DEF Local, Phase, Replica
<1>2. LocalOK(l, had)
  BY LocalState DEF Local, LocalOK
<1>3. run' = [run EXCEPT ![w] = l]
  BY DEF Recreate, Inv, TypeOK, Local
<1>4. present' \in [Replica -> BOOLEAN]
  BY DEF Recreate, Inv, TypeOK
<1> HIDE DEF l
<1> QED BY <1>1, <1>2, <1>3, <1>4, QuietStep DEF Recreate, store, Inv, TypeOK, BaseFromPrimary

LEMMA ForgetInv ==
  ASSUME Inv, NEW w \in Runner, Forget(w) PROVE Inv'
<1> DEFINE l == [run[w] EXCEPT !.at = "list"]
<1>1. l \in Local
  BY LocalState DEF Local, Phase
<1>2. LocalOK(l, had) /\ run[w].node \in Replica
  BY LocalState DEF Local, LocalOK, Forget
<1>3. run' = [run EXCEPT ![w] = l]
  BY DEF Forget, Inv, TypeOK, Local
<1>4. base' \in [Replica -> Refs] /\ BaseFromPrimary'
  BY <1>2 DEF Forget, Inv, TypeOK, BaseFromPrimary, NoRefs, Refs, Value
<1> HIDE DEF l
<1> QED BY <1>1, <1>2, <1>3, <1>4, QuietStep DEF Forget, Inv, TypeOK

LEMMA FetchReplicaInv ==
  ASSUME Inv, NEW w \in Runner, FetchReplica(w) PROVE Inv'
<1> DEFINE n == run[w].node
<1>1. PICK missing \in Missing(n, run[w].rRefs) :
        run' = [run EXCEPT ![w].at = "push", ![w].was = base[n],
                           ![w].blind = (@ \ Histories(refs[n])) \cup missing]
  BY DEF FetchReplica
<1>2. missing \subseteq Commit
  <2>1. run[w].rRefs \in Refs
    BY LocalState DEF Local
  <2> QED BY <1>1, <2>1 DEF Missing, Values, Refs, Value
<1>3. n \in Replica
  BY LocalState DEF LocalOK, FetchReplica
<1> DEFINE B == (run[w].blind \ Histories(refs[n])) \cup missing
           l == [run[w] EXCEPT !.at = "push", !.was = base[n], !.blind = B]
<1>4. run' = [run EXCEPT ![w] = l]
  BY <1>1 DEF Inv, TypeOK, Local
<1>5. base[n] \in Refs /\ \A f \in Ref : base[n][f] \in had[f] \cup {None}
  BY <1>3 DEF Inv, TypeOK, BaseFromPrimary
<1>6. l \in Local
  <2>1. B \in SUBSET Commit
    BY <1>2, LocalState DEF Local
  <2>2. run[w] \in Local /\ base[n] \in Refs
    BY <1>5, LocalState
  <2>3. ASSUME NEW k \in Local, NEW b \in Refs, NEW S \in SUBSET Commit
        PROVE  [k EXCEPT !.at = "push", !.was = b, !.blind = S] \in Local
    BY DEF Local, Phase
  <2> HIDE DEF n, B
  <2> QED BY <2>1, <2>2, <2>3
<1>7. LocalOK(l, had)
  BY <1>3, <1>5, LocalState DEF Local, LocalOK
<1> HIDE DEF l, n
<1> QED BY <1>4, <1>6, <1>7, QuietStep DEF FetchReplica, store, Inv, TypeOK, BaseFromPrimary

LEMMA RecordInv ==
  ASSUME Inv, NEW w \in Runner, Record(w) PROVE Inv'
<1> DEFINE n == run[w].node
           l == [Leave(w, n) EXCEPT !.found = @ \cup {i[2] : i \in run[w].issues}]
<1>1. n \in Replica
  BY LocalState DEF LocalOK, Record
<1>2. Leave(w, n) \in Local /\ LocalOK(Leave(w, n), had)
  BY <1>1, LeaveLocal DEF Replica
<1>3. {i[2] : i \in run[w].issues} \subseteq Ref
  BY LocalState DEF Local, Issue
<1>4. l \in Local
  BY <1>2, <1>3 DEF Local
<1>5. LocalOK(l, had)
  BY <1>2 DEF Local, LocalOK
<1>6. run' = [run EXCEPT ![w] = l]
  BY DEF Record
<1>7. base' \in [Replica -> Refs] /\ BaseFromPrimary'
  <2>1. run[w].was \in Refs /\ \A f \in Ref : run[w].was[f] \in had[f] \cup {None}
    BY LocalState DEF Local, LocalOK
  <2> QED BY <1>1, <2>1 DEF Record, Inv, TypeOK, BaseFromPrimary
<1> HIDE DEF l, n
<1> QED BY <1>4, <1>5, <1>6, <1>7, QuietStep DEF Record, Inv, TypeOK

LEMMA EndPassInv ==
  ASSUME Inv, NEW w \in Runner, EndPass(w) PROVE Inv'
<1> DEFINE l == [Idle EXCEPT !.at = "again", !.pass = run[w].pass]
<1>1. run' = [run EXCEPT ![w] = Idle] \/ (AnotherPass(w) /\ run' = [run EXCEPT ![w] = l])
  BY DEF EndPass
<1>2. conflicts' \subseteq Ref
  BY LocalState DEF EndPass, OpenAfter, Local, Inv, TypeOK
<1>3. CASE run' = [run EXCEPT ![w] = Idle]
  BY <1>2, <1>3, IdleLocal, IdleOK, QuietStep DEF EndPass, Inv, TypeOK, BaseFromPrimary
<1>4. CASE AnotherPass(w) /\ run' = [run EXCEPT ![w] = l]
  <2>1. run[w].pass = 1
    BY <1>4 DEF AnotherPass
  <2>2. l \in Local
    <3>1. run[w].pass \in 0..2
      BY <2>1
    <3> QED BY <3>1, IdleLocal DEF Local, Phase
  <2>3. LocalOK(l, had)
    BY <2>1 DEF LocalOK, Idle, NoRefs
  <2> HIDE DEF l
  <2> QED BY <1>2, <1>4, <2>2, <2>3, QuietStep DEF EndPass, Inv, TypeOK, BaseFromPrimary
<1> QED BY <1>1, <1>3, <1>4

-----------------------------------------------------------------------------
(* The steps that move refs.                                               *)

\* A push moves some of its refs, each from the value it expects.
LEMMA MovedRefs ==
  ASSUME TypeOK, NEW n \in Node, NEW S \in SUBSET Ref, NEW got \in SUBSET S, NEW from
  PROVE  /\ Moved(n, got, from) \subseteq S
         /\ \A f \in Moved(n, got, from) : refs[n][f] = from[f]
  BY DEF Moved

LEMMA TakenSubset ==
  ASSUME NEW n, NEW S, NEW from, NEW to, NEW blind, NEW got \in Taken(n, S, from, to, blind)
  PROVE  got \in SUBSET S
  BY DEF Taken

\* What Plan's answers say of the values a run works with.
LEMMA VerdictFacts ==
  ASSUME Inv, NEW w \in Runner, NEW f \in Ref
  PROVE  LET p == run[w].pRefs[f]  r == run[w].rRefs[f]  b == run[w].was[f] IN
         /\ Verdict(w, f) = "create" => p # None /\ r = None
         /\ Verdict(w, f) = "fast_forward" => p # None /\ r # None /\ f \notin Tag /\ r \in Reach[p]
         /\ Verdict(w, f) = "delete" => p = None /\ r # None /\ b = r
         /\ Verdict(w, f) = "git_replica_ahead" =>
              p # None /\ r # None /\ f \notin Tag /\ p \in Reach[r]
         /\ Verdict(w, f) = "git_replica_extra_ref" => p = None /\ r # None
<1>1. run[w].pRefs[f] \in Value /\ run[w].rRefs[f] \in Value /\ run[w].was[f] \in Value
  BY LocalState DEF Local, Refs
<1> QED BY <1>1, PlanFacts DEF Verdict

\* A push to a replica takes nothing off it that the new value lacks and the
\* primary never held, and moves no tag.
LEMMA ReplicaPushKeeps ==
  ASSUME Inv, NEW w \in Runner, run[w].at = "push",
         NEW got \in SUBSET Changes(w),
         refs' = Pushed(run[w].node, Moved(run[w].node, got, run[w].rRefs), run[w].pRefs)
  PROVE  /\ run[w].node \in Replica
         /\ refs' \in [Node -> Refs] /\ refs'[Primary] = refs[Primary]
         /\ \A n \in Node, f \in Ref :
              /\ refs'[n][f] # refs[n][f] => n # Primary
              /\ History(refs[n][f]) \subseteq History(refs'[n][f]) \cup had[f]
              /\ f \in Tag /\ refs[n][f] # None => refs'[n][f] \in {refs[n][f], None}
<1> DEFINE n == run[w].node
           M == Moved(n, got, run[w].rRefs)
<1>1. n \in Replica
  BY LocalState DEF LocalOK
<1>2. n \in Node /\ n # Primary
  BY <1>1 DEF Replica
<1>3. TypeOK /\ run[w].pRefs \in Refs /\ run[w].rRefs \in Refs
  BY LocalState DEF Inv, Local
<1>4. Changes(w) \subseteq Ref
  BY DEF Changes
<1>5. M \subseteq Changes(w) /\ \A f \in M : refs[n][f] = run[w].rRefs[f]
  BY <1>2, <1>3, <1>4, MovedRefs
<1> HIDE DEF M, n
<1>6. /\ refs' \in [Node -> Refs]
      /\ \A m \in Node, f \in Ref :
           refs'[m][f] = IF m = n /\ f \in M THEN run[w].pRefs[f] ELSE refs[m][f]
  <2>1. M \in SUBSET Ref
    BY <1>4, <1>5
  <2>2. refs' = Pushed(n, M, run[w].pRefs)
    BY DEF M, n
  <2>3. /\ Pushed(n, M, run[w].pRefs) \in [Node -> Refs]
        /\ \A m \in Node, f \in Ref :
             Pushed(n, M, run[w].pRefs)[m][f] =
               IF m = n /\ f \in M THEN run[w].pRefs[f] ELSE refs[m][f]
    <3> HIDE DEF M, n
    <3> QED BY <1>2, <1>3, <2>1 DEF Pushed, TypeOK, Refs
  <2> QED BY <2>2, <2>3
<1>7. refs'[Primary] = refs[Primary]
  BY <1>2, <1>6, ReplicationAssumption, RefAssumption DEF Inv, TypeOK, Refs
<1>8. ASSUME NEW m \in Node, NEW f \in Ref
      PROVE  /\ refs'[m][f] # refs[m][f] => m # Primary
             /\ History(refs[m][f]) \subseteq History(refs'[m][f]) \cup had[f]
             /\ f \in Tag /\ refs[m][f] # None => refs'[m][f] \in {refs[m][f], None}
  <2>1. CASE m # n \/ f \notin M
    BY <1>6, <2>1
  <2>2. CASE m = n /\ f \in M
    <3> DEFINE p == run[w].pRefs[f]  r == run[w].rRefs[f]
    <3>1. refs[m][f] = r /\ refs'[m][f] = p /\ m # Primary
      BY <1>2, <1>5, <1>6, <2>2
    <3>2. Verdict(w, f) \in {"create", "fast_forward", "delete"}
      BY <1>5, <2>2 DEF Changes, ActionKind
    <3>3. CASE Verdict(w, f) = "create"
      <4>1. r = None
        BY <3>3, VerdictFacts
      <4> QED BY <3>1, <4>1 DEF History
    <3>4. CASE Verdict(w, f) = "fast_forward"
      <4>1. p # None /\ f \notin Tag /\ r \in Reach[p] /\ r # None
        BY <3>4, VerdictFacts
      <4>2. p \in Commit
        BY <1>3, <4>1 DEF Refs, Value
      <4>3. Reach[r] \subseteq Reach[p]
        BY <4>1, <4>2, ReplicationAssumption, RefAssumption
      <4> QED BY <3>1, <4>1, <4>3 DEF History
    <3>5. CASE Verdict(w, f) = "delete"
      <4>1. p = None /\ run[w].was[f] = r /\ r # None
        BY <3>5, VerdictFacts
      <4>2. r \in had[f]
        BY <4>1, LocalState DEF LocalOK
      <4>3. Reach[r] \subseteq had[f]
        BY <4>2 DEF Inv, HadWhole
      <4> QED BY <3>1, <4>1, <4>3 DEF History
    <3> QED BY <3>2, <3>3, <3>4, <3>5
  <2> QED BY <2>1, <2>2
<1> QED BY <1>1, <1>6, <1>7, <1>8 DEF n

LEMMA PushReplicaInv ==
  ASSUME Inv, NEW w \in Runner, PushReplica(w) PROVE Inv'
<1> DEFINE n == run[w].node
           done(got) == Done(n, Changes(w), got, run[w].rRefs, run[w].pRefs)
           l(got) == [run[w] EXCEPT !.was = NextBase(w, done(got)), !.issues = Issues(w),
                                    !.at = "takeover"]
<1>1. PICK got \in Taken(n, Changes(w), run[w].rRefs, run[w].pRefs, run[w].blind) :
        /\ refs' = Pushed(n, Moved(n, got, run[w].rRefs), run[w].pRefs)
        /\ run' = [run EXCEPT ![w].was = NextBase(w, done(got)), ![w].issues = Issues(w),
                              ![w].at = "takeover"]
  BY DEF PushReplica
<1>2. got \in SUBSET Changes(w) /\ run[w].at = "push"
  BY <1>1, TakenSubset DEF PushReplica
<1>3. n \in Replica /\ refs' \in [Node -> Refs] /\ refs'[Primary] = refs[Primary]
  BY <1>1, <1>2, ReplicaPushKeeps
<1>4. /\ NextBase(w, done(got)) \in Refs
      /\ \A f \in Ref : NextBase(w, done(got))[f] \in had[f] \cup {None}
  <2>1. /\ run[w].pRefs \in Refs /\ run[w].was \in Refs
        /\ \A f \in Ref : run[w].pRefs[f] \in had[f] \cup {None}
                            /\ run[w].was[f] \in had[f] \cup {None}
    BY LocalState DEF Local, LocalOK
  <2> QED BY <2>1 DEF NextBase, Refs
<1>5. Issues(w) \in SUBSET Issue
  BY DEF Issues
<1>6. l(got) \in Local
  <2>1. ASSUME NEW k \in Local, NEW b \in Refs, NEW I \in SUBSET Issue
        PROVE  [k EXCEPT !.was = b, !.issues = I, !.at = "takeover"] \in Local
    BY DEF Local, Phase
  <2> QED BY <1>4, <1>5, <2>1, LocalState
<1>7. \A f \in Fixable(Issues(w)) :
        /\ run[w].rRefs[f] # None
        /\ \/ run[w].pRefs[f] = None
           \/ f \notin Tag /\ run[w].pRefs[f] \in Reach[run[w].rRefs[f]]
  <2> SUFFICES ASSUME NEW f \in Fixable(Issues(w))
               PROVE  /\ run[w].rRefs[f] # None
                      /\ \/ run[w].pRefs[f] = None
                         \/ f \notin Tag /\ run[w].pRefs[f] \in Reach[run[w].rRefs[f]]
    OBVIOUS
  <2>1. f \in Ref /\ Verdict(w, f) \in {"git_replica_ahead", "git_replica_extra_ref"}
    BY DEF Fixable, Issues
  <2> QED BY <2>1, VerdictFacts
<1>8. LocalOK(l(got), had)
  <2>1. /\ l(got).pRefs = run[w].pRefs /\ l(got).was = NextBase(w, done(got))
        /\ l(got).at = "takeover" /\ l(got).node = n
        /\ l(got).rRefs = run[w].rRefs /\ l(got).issues = Issues(w)
    BY LocalState DEF Local
  <2>2. \A f \in Ref : run[w].pRefs[f] \in had[f] \cup {None}
    BY LocalState DEF LocalOK
  <2> HIDE DEF l, done, n
  <2> QED BY <1>3, <1>4, <1>7, <2>1, <2>2 DEF LocalOK
<1>9. run' = [run EXCEPT ![w] = l(got)]
  BY <1>1 DEF Inv, TypeOK, Local
<1> HIDE DEF l, done, n
<1> QED BY <1>3, <1>6, <1>8, <1>9, QuietStep DEF PushReplica, store, Inv, TypeOK, BaseFromPrimary

LEMMA PushFailsInv ==
  ASSUME Inv, NEW w \in Runner, PushFails(w) PROVE Inv'
<1> DEFINE n == run[w].node
           l == LeaveUncompared(w, n)
<1>1. /\ run' = [run EXCEPT ![w] = l]
      /\ run[w].at = "push"
      /\ UNCHANGED <<present, base, conflicts, busy, had>>
  BY DEF PushFails, store
<1>2. n \in Replica
  BY <1>1, LocalState DEF LocalOK
<1>3. l \in Local /\ LocalOK(l, had)
  <2>1. Leave(w, n) \in Local /\ LocalOK(Leave(w, n), had)
    BY <1>2, LeaveLocal DEF Replica
  <2> QED BY <2>1 DEF LeaveUncompared, Local, LocalOK
<1>4. refs' \in [Node -> Refs] /\ refs'[Primary] = refs[Primary]
  <2>1. CASE UNCHANGED refs
    BY <2>1 DEF Inv, TypeOK
  <2>2. CASE \E got \in SUBSET Changes(w) :
               refs' = Pushed(n, Moved(n, got, run[w].rRefs), run[w].pRefs)
    <3>1. PICK got \in SUBSET Changes(w) :
            refs' = Pushed(n, Moved(n, got, run[w].rRefs), run[w].pRefs)
      BY <2>2
    <3>2. got \in SUBSET Changes(w)
      BY TakenSubset
    <3> QED BY <1>1, <3>1, <3>2, ReplicaPushKeeps
  <2> QED BY <2>1, <2>2, TakenSubset DEF PushFails
<1> HIDE DEF l, n
<1> QED BY <1>1, <1>3, <1>4, QuietStep DEF Inv, TypeOK, BaseFromPrimary

\* A push to the primary adds to its refs and its history, and moves no tag.
LEMMA PrimaryTakesKeeps ==
  ASSUME Inv, NEW w \in Runner, run[w].at = "takeover",
         NEW got \in SUBSET Fixable(run[w].issues),
         PrimaryTakes(w, Moved(Primary, got, run[w].pRefs))
  PROVE  /\ refs' \in [Node -> Refs] /\ had' \in [Ref -> SUBSET Commit]
         /\ \A f \in Ref : had[f] \subseteq had'[f]
         /\ HadWhole' /\ PrimaryHad'
         /\ \A n \in Node, f \in Ref :
              /\ n # Primary => refs'[n][f] = refs[n][f]
              /\ History(refs[n][f]) \subseteq History(refs'[n][f])
              /\ f \in Tag /\ refs[n][f] # None => refs'[n][f] = refs[n][f]
              /\ n = Primary /\ f \in Moved(Primary, got, run[w].pRefs) =>
                   had'[f] = had[f] \cup History(run[w].rRefs[f])
<1> DEFINE M == Moved(Primary, got, run[w].pRefs)
<1>1. TypeOK /\ run[w].pRefs \in Refs /\ run[w].rRefs \in Refs
  BY LocalState DEF Inv, Local
<1>2. Primary \in Node /\ Fixable(run[w].issues) \subseteq Ref
  BY ReplicationAssumption, RefAssumption DEF Fixable
<1>3. /\ M \subseteq Fixable(run[w].issues) /\ M \in SUBSET Ref
      /\ \A f \in M : refs[Primary][f] = run[w].pRefs[f]
  BY <1>1, <1>2, MovedRefs
<1>4. /\ refs' = Pushed(Primary, M, run[w].rRefs)
      /\ had' = [f \in Ref |-> IF f \in M THEN had[f] \cup History(run[w].rRefs[f]) ELSE had[f]]
  BY DEF PrimaryTakes
<1>5. \A f \in M : /\ run[w].rRefs[f] \in Commit
                   /\ \/ run[w].pRefs[f] = None
                      \/ f \notin Tag /\ run[w].pRefs[f] \in Reach[run[w].rRefs[f]]
  BY <1>1, <1>3, LocalState DEF LocalOK, Refs, Value
<1> HIDE DEF M
<1>6. /\ refs' \in [Node -> Refs]
      /\ \A m \in Node, f \in Ref :
           refs'[m][f] = IF m = Primary /\ f \in M THEN run[w].rRefs[f] ELSE refs[m][f]
  <2>1. /\ Pushed(Primary, M, run[w].rRefs) \in [Node -> Refs]
        /\ \A m \in Node, f \in Ref :
             Pushed(Primary, M, run[w].rRefs)[m][f] =
               IF m = Primary /\ f \in M THEN run[w].rRefs[f] ELSE refs[m][f]
    BY <1>1, <1>2, <1>3 DEF Pushed, TypeOK, Refs
  <2> QED BY <1>4, <2>1
<1>7. \A f \in Ref : /\ had[f] \subseteq Commit /\ had[f] \subseteq had'[f] /\ had'[f] \subseteq Commit
                     /\ f \notin M => had'[f] = had[f]
                     /\ f \in M => had'[f] = had[f] \cup Reach[run[w].rRefs[f]]
  BY <1>1, <1>4, <1>5, ReplicationAssumption, RefAssumption DEF TypeOK, History
<1>8. had' \in [Ref -> SUBSET Commit]
  BY <1>4, <1>7
<1>9. HadWhole'
  <2> SUFFICES ASSUME NEW f \in Ref, NEW d \in had'[f] PROVE Reach[d] \subseteq had'[f]
    BY DEF HadWhole
  <2>1. CASE d \in had[f]
    BY <1>7, <2>1 DEF Inv, HadWhole
  <2>2. CASE d \notin had[f]
    <3>1. f \in M /\ d \in Reach[run[w].rRefs[f]]
      BY <1>7, <2>2
    <3>2. Reach[d] \subseteq Reach[run[w].rRefs[f]]
      BY <1>5, <3>1, ReplicationAssumption, RefAssumption
    <3> QED BY <1>7, <3>1, <3>2
  <2> QED BY <2>1, <2>2
<1>10. PrimaryHad'
  <2> SUFFICES ASSUME NEW f \in Ref PROVE refs'[Primary][f] \in had'[f] \cup {None}
    BY DEF PrimaryHad
  <2>1. CASE f \in M
    <3>1. refs'[Primary][f] = run[w].rRefs[f] /\ run[w].rRefs[f] \in Commit
      BY <1>2, <1>5, <1>6, <2>1
    <3> QED BY <1>7, <2>1, <3>1, ReplicationAssumption, RefAssumption
  <2>2. CASE f \notin M
    BY <1>2, <1>6, <1>7, <2>2 DEF Inv, PrimaryHad
  <2> QED BY <2>1, <2>2
<1>11. ASSUME NEW n \in Node, NEW f \in Ref
       PROVE  /\ n # Primary => refs'[n][f] = refs[n][f]
              /\ History(refs[n][f]) \subseteq History(refs'[n][f])
              /\ f \in Tag /\ refs[n][f] # None => refs'[n][f] = refs[n][f]
              /\ n = Primary /\ f \in M => had'[f] = had[f] \cup History(run[w].rRefs[f])
  <2>1. CASE ~(n = Primary /\ f \in M)
    BY <1>6, <2>1
  <2>2. CASE n = Primary /\ f \in M
    <3>1. /\ refs[n][f] = run[w].pRefs[f] /\ refs'[n][f] = run[w].rRefs[f]
          /\ run[w].rRefs[f] # None /\ run[w].rRefs[f] \in Commit
          /\ \/ run[w].pRefs[f] = None
             \/ f \notin Tag /\ run[w].pRefs[f] \in Reach[run[w].rRefs[f]]
      BY <1>3, <1>5, <1>6, <2>2, ReplicationAssumption, RefAssumption
    <3>2. CASE run[w].pRefs[f] = None
      BY <1>7, <2>2, <3>1, <3>2 DEF History
    <3>3. CASE run[w].pRefs[f] # None
      <4>1. f \notin Tag /\ run[w].pRefs[f] \in Reach[run[w].rRefs[f]]
        BY <3>1, <3>3
      <4>2. Reach[run[w].pRefs[f]] \subseteq Reach[run[w].rRefs[f]]
        BY <3>1, <4>1, ReplicationAssumption, RefAssumption
      <4> QED BY <1>7, <2>2, <3>1, <3>3, <4>1, <4>2 DEF History
    <3> QED BY <3>2, <3>3
  <2> QED BY <2>1, <2>2
<1> QED BY <1>6, <1>7, <1>8, <1>9, <1>10, <1>11 DEF M

\* What changes the primary's history, and keeps it whole, keeps the invariant.
LEMMA GrowStep ==
  ASSUME Inv, NEW w \in Runner, NEW l \in Local,
         run' = [run EXCEPT ![w] = l], LocalOK(l, had'),
         refs' \in [Node -> Refs], had' \in [Ref -> SUBSET Commit],
         \A f \in Ref : had[f] \subseteq had'[f],
         HadWhole', PrimaryHad', UNCHANGED <<present, base, conflicts, busy>>
  PROVE  Inv'
<1>1. run' \in [Runner -> Local] /\ RunOK'
  BY SetRun DEF Inv
<1>2. TypeOK'
  BY <1>1 DEF Inv, TypeOK
<1>3. BaseFromPrimary'
  BY DEF Inv, BaseFromPrimary
<1> QED BY <1>1, <1>2, <1>3 DEF Inv

LEMMA TakeOverInv ==
  ASSUME Inv, NEW w \in Runner, TakeOver(w) PROVE Inv'
<1> DEFINE S == Fixable(run[w].issues)
           fixed(got) == Done(Primary, S, got, run[w].pRefs, run[w].rRefs)
           P(got) == [f \in Ref |-> IF f \in fixed(got) THEN run[w].rRefs[f] ELSE run[w].pRefs[f]]
           I(got) == {i \in run[w].issues : i[2] \notin fixed(got)}
           A(got) == run[w].again \/ fixed(got) # {}
           l(got) == [run[w] EXCEPT !.at = "record", !.rRefs = NoRefs, !.pRefs = P(got),
                                    !.issues = I(got), !.again = A(got)]
<1>1. PICK got \in Taken(Primary, S, run[w].pRefs, run[w].rRefs, run[w].blind) :
        /\ PrimaryTakes(w, Moved(Primary, got, run[w].pRefs))
        /\ TakenOver(w, fixed(got))
  BY DEF TakeOver
<1>2. got \in SUBSET Fixable(run[w].issues) /\ run[w].at = "takeover"
  BY <1>1, TakenSubset DEF TakeOver
<1>3. /\ refs' \in [Node -> Refs] /\ had' \in [Ref -> SUBSET Commit]
      /\ \A f \in Ref : had[f] \subseteq had'[f]
      /\ HadWhole' /\ PrimaryHad'
  BY <1>1, <1>2, PrimaryTakesKeeps
<1>4. run' = [run EXCEPT ![w] = l(got)]
  BY <1>1 DEF TakenOver, Inv, TypeOK, Local
<1>5. run[w] \in Local /\ LocalOK(run[w], had)
  BY LocalState
<1>6. run[w].rRefs \in Refs /\ run[w].pRefs \in Refs /\ run[w].node \in Replica
  BY <1>2, <1>5 DEF Local, LocalOK
<1>7. P(got) \in Refs /\ \A f \in Ref : P(got)[f] \in had'[f] \cup {None}
  <2>1. P(got) \in Refs
    BY <1>6 DEF Refs
  <2>2. ASSUME NEW f \in Ref PROVE P(got)[f] \in had'[f] \cup {None}
    <3>1. CASE f \notin fixed(got)
      BY <1>3, <1>5, <3>1 DEF LocalOK
    <3>2. CASE f \in Moved(Primary, got, run[w].pRefs)
      <4>1. had'[f] = had[f] \cup History(run[w].rRefs[f])
        BY <1>1, <1>2, <3>2, PrimaryTakesKeeps, ReplicationAssumption, RefAssumption
      <4>2. run[w].rRefs[f] = None \/ run[w].rRefs[f] \in History(run[w].rRefs[f])
        BY <1>6, ReplicationAssumption, RefAssumption DEF History, Refs, Value
      <4>3. f \in fixed(got)
        BY <3>2 DEF Done
      <4> QED BY <4>1, <4>2, <4>3
    <3>3. CASE refs[Primary][f] = run[w].rRefs[f] /\ f \in fixed(got)
      <4>1. refs[Primary][f] \in had[f] \cup {None}
        BY DEF Inv, PrimaryHad
      <4> QED BY <1>3, <3>3, <4>1
    <3> QED BY <3>1, <3>2, <3>3 DEF Done, InPlace
  <2> QED BY <2>1, <2>2
<1>8. l(got) \in Local
  <2>1. ASSUME NEW k \in Local, NEW r \in Refs, NEW p \in Refs, NEW i \in SUBSET Issue,
               NEW a \in BOOLEAN
        PROVE  [k EXCEPT !.at = "record", !.rRefs = r, !.pRefs = p, !.issues = i, !.again = a]
                 \in Local
    BY DEF Local, Phase
  <2>2. I(got) \in SUBSET Issue
    BY <1>5 DEF Local
  <2>3. NoRefs \in Refs
    BY DEF NoRefs, Refs, Value
  <2>4. A(got) \in BOOLEAN
    BY <1>5 DEF Local
  <2> HIDE DEF P, I, A, fixed, S
  <2> QED BY <1>5, <1>7, <2>1, <2>2, <2>3, <2>4
<1>9. LocalOK(l(got), had')
  <2>1. /\ l(got).pRefs = P(got) /\ l(got).was = run[w].was /\ l(got).at = "record"
        /\ l(got).node = run[w].node
    BY <1>5 DEF Local
  <2>2. \A f \in Ref : run[w].was[f] \in had'[f] \cup {None}
    BY <1>3, <1>5 DEF LocalOK
  <2> HIDE DEF P, l
  <2> QED BY <1>6, <1>7, <2>1, <2>2 DEF LocalOK
<1> HIDE DEF l
<1> QED BY <1>3, <1>4, <1>8, <1>9, GrowStep DEF TakeOver, store

LEMMA TakeOverFailsInv ==
  ASSUME Inv, NEW w \in Runner, TakeOverFails(w) PROVE Inv'
<1> DEFINE l == [run[w] EXCEPT !.at = "record", !.rRefs = NoRefs]
<1>1. run' = [run EXCEPT ![w] = l] /\ run[w].at = "takeover"
  BY DEF TakeOverFails, Inv, TypeOK, Local
<1>2. l \in Local
  <2>1. ASSUME NEW k \in Local, NEW r \in Refs
        PROVE  [k EXCEPT !.at = "record", !.rRefs = r] \in Local
    BY DEF Local, Phase
  <2>2. NoRefs \in Refs
    BY DEF NoRefs, Refs, Value
  <2> QED BY <2>1, <2>2, LocalState
<1>3. LocalOK(l, had)
  BY <1>1, LocalState DEF Local, LocalOK
<1> HIDE DEF l
<1>4. CASE UNCHANGED <<refs, had>>
  BY <1>1, <1>2, <1>3, <1>4, QuietStep DEF TakeOverFails, store, Inv, TypeOK, BaseFromPrimary
<1>5. CASE \E got \in SUBSET Fixable(run[w].issues) :
             PrimaryTakes(w, Moved(Primary, got, run[w].pRefs))
  <2>1. PICK got \in SUBSET Fixable(run[w].issues) :
          PrimaryTakes(w, Moved(Primary, got, run[w].pRefs))
    BY <1>5
  <2>2. /\ refs' \in [Node -> Refs] /\ had' \in [Ref -> SUBSET Commit]
        /\ \A f \in Ref : had[f] \subseteq had'[f]
        /\ HadWhole' /\ PrimaryHad'
    BY <1>1, <2>1, PrimaryTakesKeeps
  <2>3. LocalOK(l, had')
    BY <1>3, <2>2 DEF LocalOK
  <2> QED BY <1>1, <1>2, <2>2, <2>3, GrowStep DEF TakeOverFails, store
<1> QED BY <1>4, <1>5, TakenSubset DEF TakeOverFails

-----------------------------------------------------------------------------
(* The users' steps.                                                       *)

LEMMA UserSetsInv ==
  ASSUME Inv, NEW n \in Node, NEW f \in Ref, NEW v \in Value, UserSets(n, f, v)
  PROVE  Inv'
<1>1. refs' = [refs EXCEPT ![n][f] = v] /\ UNCHANGED <<present, base, conflicts, run, busy>>
  BY DEF UserSets, store
<1>2. History(v) \subseteq Commit /\ (v # None => v \in History(v))
  BY ReplicationAssumption, RefAssumption DEF History, Value
<1>3. had' \in [Ref -> SUBSET Commit]
  BY <1>2 DEF UserSets, Inv, TypeOK
<1>4. \A g \in Ref : had[g] \subseteq had'[g]
  BY DEF UserSets, Inv, TypeOK
<1>5. refs' \in [Node -> Refs]
  BY <1>1 DEF Inv, TypeOK, Refs
<1>6. TypeOK'
  BY <1>1, <1>3, <1>5 DEF Inv, TypeOK
<1>7. HadWhole'
  <2>1. \A d \in History(v) : Reach[d] \subseteq History(v)
    BY ReplicationAssumption, RefAssumption DEF History, Value
  <2> QED BY <2>1 DEF HadWhole, UserSets, Inv, TypeOK
<1>8. PrimaryHad'
  BY <1>1, <1>2, <1>4 DEF PrimaryHad, UserSets, Inv, TypeOK, Refs
<1>9. BaseFromPrimary'
  BY <1>1, <1>4 DEF Inv, BaseFromPrimary
<1>10. RunOK'
  BY <1>1, <1>4 DEF Inv, RunOK, LocalOK
<1> QED BY <1>6, <1>7, <1>8, <1>9, <1>10 DEF Inv

LEMMA CopyDeletedInv ==
  ASSUME Inv, NEW n \in Replica, CopyDeleted(n) PROVE Inv'
<1>1. /\ refs' \in [Node -> Refs] /\ refs'[Primary] = refs[Primary]
      /\ present' \in [Replica -> BOOLEAN]
  BY DEF CopyDeleted, Inv, TypeOK, Replica, NoRefs, Refs, Value
<1> QED BY <1>1 DEF CopyDeleted, store, Inv, TypeOK, HadWhole, PrimaryHad, BaseFromPrimary, RunOK

LEMMA RestInv == ASSUME Inv, Rest \/ UNCHANGED vars PROVE Inv'
<1>1. TypeOK'
  BY DEF Rest, vars, store, Inv, TypeOK
<1>2. HadWhole' /\ PrimaryHad' /\ BaseFromPrimary'
  BY DEF Rest, vars, store, Inv, HadWhole, PrimaryHad, BaseFromPrimary
<1>3. RunOK'
  BY DEF Rest, vars, store, Inv, RunOK, LocalOK
<1> QED BY <1>1, <1>2, <1>3 DEF Inv

LEMMA ReplicateInv ==
  ASSUME Inv, NEW w \in Runner, Replicate(w) PROVE Inv'
<1>1. CASE BeginPass(w)       BY <1>1, BeginPassInv
<1>2. CASE FetchPrimary(w)    BY <1>2, FetchPrimaryInv
<1>3. CASE GiveUp(w)          BY <1>3, GiveUpInv
<1>4. CASE \E n \in Replica : SkipReplica(w, n) \/ ListReplica(w, n) \/ Recreate(w, n)
  BY <1>4, SkipReplicaInv, ListReplicaInv, RecreateInv
<1>5. CASE Forget(w)          BY <1>5, ForgetInv
<1>6. CASE FetchReplica(w)    BY <1>6, FetchReplicaInv
<1>7. CASE PushReplica(w)     BY <1>7, PushReplicaInv
<1>8. CASE PushFails(w)       BY <1>8, PushFailsInv
<1>9. CASE TakeOver(w)        BY <1>9, TakeOverInv
<1>10. CASE TakeOverFails(w)  BY <1>10, TakeOverFailsInv
<1>11. CASE Record(w)         BY <1>11, RecordInv
<1>12. CASE EndPass(w)        BY <1>12, EndPassInv
<1> QED BY <1>1, <1>2, <1>3, <1>4, <1>5, <1>6, <1>7, <1>8, <1>9, <1>10, <1>11, <1>12
        DEF Replicate

LEMMA NextInv == Inv /\ [Next]_vars => Inv'
<1> SUFFICES ASSUME Inv, [Next]_vars PROVE Inv'
  OBVIOUS
<1>1. ASSUME NEW w \in Runner, Replicate(w) \/ Crash(w) PROVE Inv'
  BY <1>1, ReplicateInv, GiveUpInv
<1>2. ASSUME NEW n \in Node, NEW f \in Ref, NEW v \in Value, UserSets(n, f, v) PROVE Inv'
  BY <1>2, UserSetsInv
<1>3. ASSUME NEW n \in Replica, CopyDeleted(n) PROVE Inv'
  BY <1>3, CopyDeletedInv
<1>4. CASE Rest \/ UNCHANGED vars
  BY <1>4, RestInv
<1> QED BY <1>1, <1>2, <1>3, <1>4 DEF Next

LEMMA Invariance == Spec => []Inv
  BY InitInv, NextInv, PTL DEF Spec

\* What every step of a run does to the refs, wherever they are: no replica
\* loses what the primary never held, the primary loses nothing, tags stay.
LEMMA RunKeeps ==
  ASSUME Inv, [Next]_vars, run' # run, NEW n \in Node, NEW f \in Ref
  PROVE  /\ History(refs[n][f]) \subseteq
              History(refs'[n][f]) \cup (IF n = Primary THEN {} ELSE had[f])
         /\ f \in Tag /\ refs[n][f] # None => refs'[n][f] \in {refs[n][f], None}
<1>1. CASE UNCHANGED refs
  BY <1>1
<1>2. ASSUME NEW w \in Runner, run[w].at = "push",
             \E got \in SUBSET Changes(w) :
               refs' = Pushed(run[w].node, Moved(run[w].node, got, run[w].rRefs), run[w].pRefs)
      PROVE  /\ History(refs[n][f]) \subseteq
                  History(refs'[n][f]) \cup (IF n = Primary THEN {} ELSE had[f])
             /\ f \in Tag /\ refs[n][f] # None => refs'[n][f] \in {refs[n][f], None}
  <2>1. PICK got \in SUBSET Changes(w) :
          refs' = Pushed(run[w].node, Moved(run[w].node, got, run[w].rRefs), run[w].pRefs)
    BY <1>2
  <2>2. /\ refs'[n][f] # refs[n][f] => n # Primary
        /\ History(refs[n][f]) \subseteq History(refs'[n][f]) \cup had[f]
        /\ f \in Tag /\ refs[n][f] # None => refs'[n][f] \in {refs[n][f], None}
    BY <1>2, <2>1, ReplicaPushKeeps
  <2> QED BY <2>2
<1>3. ASSUME NEW w \in Runner, run[w].at = "takeover",
             \E got \in SUBSET Fixable(run[w].issues) :
               PrimaryTakes(w, Moved(Primary, got, run[w].pRefs))
      PROVE  /\ History(refs[n][f]) \subseteq
                  History(refs'[n][f]) \cup (IF n = Primary THEN {} ELSE had[f])
             /\ f \in Tag /\ refs[n][f] # None => refs'[n][f] \in {refs[n][f], None}
  <2>1. PICK got \in SUBSET Fixable(run[w].issues) :
          PrimaryTakes(w, Moved(Primary, got, run[w].pRefs))
    BY <1>3
  <2>2. /\ History(refs[n][f]) \subseteq History(refs'[n][f])
        /\ f \in Tag /\ refs[n][f] # None => refs'[n][f] = refs[n][f]
    BY <1>3, <2>1, PrimaryTakesKeeps
  <2> QED BY <2>2
<1>4. ASSUME NEW w \in Runner, Replicate(w)
      PROVE  \/ UNCHANGED refs
             \/ /\ run[w].at = "push"
                /\ \E got \in SUBSET Changes(w) :
                     refs' = Pushed(run[w].node, Moved(run[w].node, got, run[w].rRefs),
                                    run[w].pRefs)
             \/ /\ run[w].at = "takeover"
                /\ \E got \in SUBSET Fixable(run[w].issues) :
                     PrimaryTakes(w, Moved(Primary, got, run[w].pRefs))
  <2>1. CASE PushReplica(w)
    BY <2>1, TakenSubset DEF PushReplica
  <2>2. CASE PushFails(w)
    BY <2>2, TakenSubset DEF PushFails
  <2>3. CASE TakeOver(w)
    BY <2>3, TakenSubset DEF TakeOver
  <2>4. CASE TakeOverFails(w)
    BY <2>4, TakenSubset DEF TakeOverFails
  <2>5. CASE BeginPass(w) \/ FetchPrimary(w) \/ GiveUp(w) \/ Forget(w) \/ FetchReplica(w)
               \/ Record(w) \/ EndPass(w)
    BY <2>5 DEF BeginPass, FetchPrimary, GiveUp, Forget, FetchReplica, Record, EndPass
  <2>6. ASSUME NEW m \in Replica, SkipReplica(w, m) \/ ListReplica(w, m) \/ Recreate(w, m)
        PROVE  UNCHANGED refs
    BY <2>6 DEF SkipReplica, ListReplica, Recreate
  <2> QED BY <1>4, <2>1, <2>2, <2>3, <2>4, <2>5, <2>6 DEF Replicate
<1>5. ASSUME NEW w \in Runner, Crash(w) PROVE UNCHANGED refs
  BY <1>5 DEF Crash
<1>6. ASSUME NEW m \in Node, NEW g \in Ref, NEW v \in Value, UserSets(m, g, v) PROVE FALSE
  BY <1>6 DEF UserSets
<1>7. ASSUME NEW m \in Replica, CopyDeleted(m) PROVE FALSE
  BY <1>7 DEF CopyDeleted
<1>8. CASE Rest \/ UNCHANGED vars
  BY <1>8 DEF Rest, vars
<1> QED BY <1>1, <1>2, <1>3, <1>4, <1>5, <1>6, <1>7, <1>8 DEF Next

-----------------------------------------------------------------------------
(* The theorems.                                                           *)

\* Type correctness: every variable keeps its type, a run's pass count with it.
THEOREM TypeCorrect == Spec => []TypeOK
  BY Invariance, PTL DEF Inv

\* What the base holds for a replica's ref, the primary has held under it, so
\* what Plan deletes on the strength of the base is never a replica's own work:
\* whoever pushes, whatever fails, crashes or overlaps, and with autoFix.
THEOREM BaseIsHistory == Spec => []BaseFromPrimary
  BY Invariance, PTL DEF Inv

\* No step of a run takes a commit off a ref that nothing else keeps: not off
\* the primary at all, and off a replica only when the primary has held it.
THEOREM NothingLost == Spec => LosesNothing
<1>1. Inv /\ [Next]_vars =>
        [run' # run =>
           \A n \in Node, f \in Ref :
             History(refs[n][f]) \subseteq
               History(refs'[n][f]) \cup (IF n = Primary THEN {} ELSE had[f])]_vars
  BY RunKeeps
<1> QED BY <1>1, Invariance, PTL DEF Spec, LosesNothing

\* No step of a run moves a tag that exists, on any node.
THEOREM TagsNeverMove == Spec => TagsStay
<1>1. Inv /\ [Next]_vars =>
        [run' # run =>
           \A n \in Node, f \in Tag :
             refs[n][f] # None => refs'[n][f] \in {refs[n][f], None}]_vars
  BY RunKeeps
<1> QED BY <1>1, Invariance, PTL DEF Spec, TagsStay
=============================================================================
