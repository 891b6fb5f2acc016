----------------------------- MODULE PartCalls ------------------------------
(***************************************************************************)
(* What each kind of part asks of a node, on top of the pass of module     *)
(* Parts, and what the passes promise together.                            *)
(*                                                                         *)
(* A call says whether it is made at all (asked), whether the node can     *)
(* take it as things stand there now (can), and what the node holds after  *)
(* it.  A call that is not answered may have landed all the same.          *)
(***************************************************************************)
EXTENDS Parts

Skip(n) == [asked |-> FALSE, can |-> FALSE, after |-> on[n]]
Ask(c, S) == [asked |-> TRUE, can |-> c, after |-> S]
\* Deleting what is already gone is not an error.
Delete(S) == Ask(TRUE, S)

\* A grant is written as an update, so it lands whatever was there.
CollaboratorCall(n, op, m) ==
    IF op = "remove" THEN Delete(Off(on[n], NameOf(m))) ELSE Ask(TRUE, Put(on[n], m))

\* Mutant of RuleCall: a rule is always created, never edited.
RuleCreated(n, op, m) ==
    LET x == NameOf(m)
    IN  IF op = "remove" THEN Delete(Off(on[n], x))
        ELSE Ask(~HasName(on[n], x), Put(on[n], m))

\* A rule that was read here by that name is edited, another one created.
RuleCall(n, op, m) ==
    LET x == NameOf(m)
    IN  IF op = "remove" THEN Delete(Off(on[n], x))
        ELSE Ask(HasName(pass.seen[n], x) = HasName(on[n], x), Put(on[n], m))

\* A release waits for its tag; one that is here is edited, files and all.
ReleaseCall(n, op, m) ==
    LET x == NameOf(m)
        here == x \in pass.here[n]
    IN  IF op = "remove" THEN IF here THEN Delete(Off(on[n], x)) ELSE Skip(n)
        ELSE IF n \in pass.tagged THEN Ask(here = HasName(on[n], x), Put(on[n], m)) ELSE Skip(n)

\* A file waits for its release.
AssetCall(n, op, m) ==
    IF NameOf(m) \notin pass.here[n] THEN Skip(n)
    ELSE IF op = "remove" THEN Delete(on[n] \ {m})
         ELSE Ask(HasName(on[n], NameOf(m)), on[n] \cup {m})

VariableCall(n, op, m) ==
    LET x == NameOf(m)
    IN  IF op = "remove" THEN Delete(Off(on[n], x))
        ELSE Ask(HasName(pass.seen[n], x) = HasName(on[n], x), Put(on[n], m))

\* All of a version's files going takes the version; one file alone can be
\* deleted in the generic registry only; a container image is not carried.
WholeVersion(n) == Removes(pass, n) = pass.seen[n]
PackageCall(n, op, m) ==
    LET x == NameOf(m)
    IN  IF op = "add" THEN IF ptype = "container" THEN Skip(n)
                           ELSE Ask(~HasName(on[n], x), Put(on[n], m))
        ELSE IF WholeVersion(n) THEN Ask(on[n] # {}, {})
        ELSE IF ptype = "generic" THEN Ask(HasName(on[n], x), Off(on[n], x)) ELSE Skip(n)

\* A team is created under its name or deleted with the people in it.
TeamCall(n, op, m) ==
    LET x == NameOf(m)
    IN  IF op = "add" THEN Ask(~HasName(on[n], x), Put(on[n], m))
        ELSE IF x \in pass.here[n] THEN Delete(Off(on[n], x)) ELSE Skip(n)

MembershipCall(n, op, m) ==
    IF NameOf(m) \notin pass.here[n] THEN Skip(n)
    ELSE IF op = "remove" THEN Delete(on[n] \ {m})
    ELSE Ask(HasName(on[n], NameOf(m)), on[n] \cup {m})

CallOf(n, op, m) ==
    CASE kind = "collaborators"          -> CollaboratorCall(n, op, m)
      [] kind = "protection"             -> RuleCall(n, op, m)
      [] kind = "releases" /\ Outer(m)   -> ReleaseCall(n, op, m)
      [] kind = "releases" /\ Inner(m)   -> AssetCall(n, op, m)
      [] kind = "variables"              -> VariableCall(n, op, m)
      [] kind = "packages"               -> PackageCall(n, op, m)
      [] kind = "teams" /\ Outer(m)      -> TeamCall(n, op, m)
      [] kind = "teams" /\ Inner(m)      -> MembershipCall(n, op, m)

\* Removals come before additions; for teams themselves it is the other way.
FirstOp == IF kind = "teams" /\ pass.ph = "outer" THEN "add" ELSE "remove"
InTurn(op) == op = FirstOp \/ ~\E e \in pass.left : e[1] = FirstOp

\* What the pass believes and knows of n after an answer.
Believed(op, m) ==
    IF op = "add" THEN pass.have[N] \cup {m}
    ELSE IF kind = "packages" /\ WholeVersion(N) THEN {} ELSE pass.have[N] \ {m}
NowHere(op, m) ==
    IF kind \notin Nested \/ Inner(m) THEN pass.here[N]
    ELSE IF op = "add" THEN pass.here[N] \cup {NameOf(m)} ELSE pass.here[N] \ {NameOf(m)}

\* A package file that could not be carried, or cannot go alone, is a conflict.
Reports(m, op, asked) ==
    IF kind = "packages" /\ (op = "add") = asked THEN {NameOf(m)} ELSE {}

Been(S) == [hist EXCEPT !.been[N] = @ \cup S]

Answered(op, m, c) ==
    /\ c.asked /\ c.can
    /\ on' = [on EXCEPT ![N] = c.after] /\ hist' = Been(c.after)
    /\ pass' = [pass EXCEPT !.left = @ \ {<<op, m>>}, !.have[N] = Believed(op, m),
                            !.here[N] = NowHere(op, m)]
    /\ UNCHANGED faults

\* Skipped, refused by the node as things stand, or left without an answer.
Unanswered(op, m, c) ==
    /\ \/ ~c.asked /\ UNCHANGED <<on, faults, hist>>
       \/ c.asked /\ ~c.can /\ UNCHANGED <<on, faults, hist>>
       \/ /\ c.asked /\ faults > 0 /\ faults' = faults - 1
          /\ \/ UNCHANGED <<on, hist>>
             \/ c.can /\ on' = [on EXCEPT ![N] = c.after] /\ hist' = Been(c.after)
    /\ pass' = [pass EXCEPT !.left = @ \ {<<op, m>>}, !.found = @ \cup Reports(m, op, c.asked)]

Call(op, m) ==
    /\ pass.ph \in {"outer", "inner"} /\ SetKind
    /\ <<op, m>> \in pass.left /\ InTurn(op)
    /\ LET c == CallOf(N, op, m) IN Answered(op, m, c) \/ Unanswered(op, m, c)
    /\ UNCHANGED <<kind, ptype, copies, off, tags, base, told, edits>>

-----------------------------------------------------------------------------
(* Topics are written as a whole list; a node that refuses it is read      *)
(* again, so that the base does not move.                                  *)

Wanted(n) == (pass.seen[n] \ Removes(pass, n)) \cup Adds(pass, n)

SetTopics ==
    /\ pass.ph = "outer" /\ kind = "topics" /\ pass.at <= Len(Order)
    /\ LET due == N \in DOMAIN pass.seen /\ Wanted(N) # pass.seen[N]
           Next1(S) == pass' = [pass EXCEPT !.at = @ + 1, !.have[N] = S]
       IN  \/ /\ ~due /\ pass' = [pass EXCEPT !.at = @ + 1] /\ UNCHANGED <<on, faults, hist>>
           \/ /\ due /\ on' = [on EXCEPT ![N] = Wanted(N)] /\ hist' = Been(Wanted(N))
              /\ Next1(Wanted(N)) /\ UNCHANGED faults
           \* refused and read again -- or the node is away for both calls
           \/ /\ due /\ faults > 0 /\ faults' = faults - 1 /\ UNCHANGED <<on, hist>>
              /\ Next1(on[N]) \/ Next1(Wanted(N))
    /\ UNCHANGED <<kind, ptype, copies, off, tags, base, told, edits>>

TopicsWritten ==
    /\ pass.ph = "outer" /\ kind = "topics" /\ pass.at > Len(Order)
    /\ pass' = [pass EXCEPT !.ph = "save"]
    /\ UNCHANGED <<kind, ptype, on, copies, off, tags, base, told, edits, faults, hist>>

-----------------------------------------------------------------------------
(* Settings are single values (metadata.go, and an organization's profile  *)
(* in orgs.go): one new value wins, two are a conflict.  The base takes    *)
(* the value whether or not every node was read or took it.                *)

ValueOf(S, x) == (CHOOSE m \in S : NameOf(m) = x /\ Outer(m))[2]
Vals(x) == [n \in DOMAIN pass.seen |-> ValueOf(pass.seen[n], x)]
FieldNames == {x \in Name : HasName(base, x)}
Conflicting(x) == FieldConflict(Vals(x), ValueOf(base, x))
FieldDue(n) == {x \in FieldNames : ~Conflicting(x) /\ n \in FieldWrites(Vals(x), ValueOf(base, x))}

WriteField(x) ==
    /\ pass.ph = "outer" /\ kind = "fields" /\ pass.at <= Len(Order)
    /\ N \in DOMAIN pass.seen /\ x \in FieldDue(N)
    /\ LET after == Put(on[N], <<x, FieldValue(Vals(x), ValueOf(base, x))>>)
       IN  \/ on' = [on EXCEPT ![N] = after] /\ hist' = Been(after) /\ UNCHANGED faults
           \/ faults > 0 /\ faults' = faults - 1 /\ UNCHANGED <<on, hist>>
    /\ pass' = [pass EXCEPT !.at = @ + 1]
    /\ UNCHANGED <<kind, ptype, copies, off, tags, base, told, edits>>

NoField ==
    /\ pass.ph = "outer" /\ kind = "fields" /\ pass.at <= Len(Order)
    /\ N \notin DOMAIN pass.seen \/ FieldDue(N) = {}
    /\ pass' = [pass EXCEPT !.at = @ + 1]
    /\ UNCHANGED <<kind, ptype, on, copies, off, tags, base, told, edits, faults, hist>>

SaveFields ==
    /\ pass.ph = "outer" /\ kind = "fields" /\ pass.at > Len(Order)
    /\ base' = {<<x, IF Conflicting(x) THEN ValueOf(base, x)
                     ELSE FieldValue(Vals(x), ValueOf(base, x))>> : x \in FieldNames}
    /\ pass' = [pass EXCEPT !.ph = "tell", !.found = {x \in FieldNames : Conflicting(x)}]
    /\ UNCHANGED <<kind, ptype, on, copies, off, tags, told, edits, faults, hist>>

-----------------------------------------------------------------------------
(* The guard is a rule over every branch of a replica, never of the        *)
(* primary, with the service account on its whitelist.  Reading it back    *)
(* shows the rule but never the whitelist.                                 *)

GuardFull == {<<GuardRule, Right>>} \cup ({GuardRule} \X Sub)
GuardWants(n) == IF n = Order[1] THEN {} ELSE GuardFull

BeginGuard ==
    /\ kind = "guard" /\ pass.ph = "idle"
    /\ pass' = [NoPass EXCEPT !.ph = "guard", !.at = 1]
    /\ UNCHANGED <<kind, ptype, on, copies, off, tags, base, told, edits, faults, hist>>

GuardRead ==
    /\ pass.ph = "guard" /\ pass.at <= Len(Order)
    /\ \/ pass' = [pass EXCEPT !.ph = "guarding", !.seen = With(<< >>, N, on[N])] /\ UNCHANGED faults
       \/ faults > 0 /\ faults' = faults - 1 /\ pass' = [pass EXCEPT !.at = @ + 1]
    /\ UNCHANGED <<kind, ptype, on, copies, off, tags, base, told, edits, hist>>

\* Taken off the primary; made on a replica that has none, edited where it
\* reads wrong; a call the node refuses is left for the next run.
GuardWrite ==
    /\ pass.ph = "guarding"
    /\ LET there == pass.seen[N] # {}
           wrong == <<GuardRule, Right>> \notin pass.seen[N]
           due == IF N = Order[1] THEN there ELSE wrong
           can == (on[N] # {}) = there
       IN  \/ due /\ can /\ on' = [on EXCEPT ![N] = GuardWants(N)] /\ UNCHANGED faults
           \/ ~(due /\ can) /\ UNCHANGED <<on, faults>>
           \/ due /\ faults > 0 /\ faults' = faults - 1 /\ UNCHANGED on
    /\ pass' = [pass EXCEPT !.ph = "guard", !.at = @ + 1]
    /\ UNCHANGED <<kind, ptype, copies, off, tags, base, told, edits, hist>>

EndGuard ==
    /\ pass.ph = "guard" /\ pass.at > Len(Order) /\ pass' = NoPass
    /\ UNCHANGED <<kind, ptype, on, copies, off, tags, base, told, edits, faults, hist>>

\* withoutGuard: a forced write to a replica lifts the guard first ...
LiftGuard(n) ==
    /\ kind = "guard" /\ pass.ph = "idle" /\ n # Order[1] /\ on[n] # {}
    /\ edits > 0 /\ edits' = edits - 1
    /\ on' = [on EXCEPT ![n] = {}]
    /\ pass' = [NoPass EXCEPT !.ph = "lifted", !.missing = {n}]
    /\ UNCHANGED <<kind, ptype, copies, off, tags, base, told, faults, hist>>

\* ... and puts it back after, unless that call fails.
PutGuardBack ==
    /\ pass.ph = "lifted"
    /\ \E n \in pass.missing :
         \/ on' = [on EXCEPT ![n] = IF @ = {} THEN GuardFull ELSE @] /\ UNCHANGED faults
         \/ faults > 0 /\ faults' = faults - 1 /\ UNCHANGED on
    /\ pass' = NoPass
    /\ UNCHANGED <<kind, ptype, copies, off, tags, base, told, edits, hist>>

\* reassertGuard: a refused push is how an emptied whitelist shows.
ReassertGuard(n) ==
    /\ kind = "guard" /\ pass.ph = "idle" /\ n # Order[1]
    /\ on[n] \notin {{}, GuardFull}
    /\ on' = [on EXCEPT ![n] = GuardFull]
    /\ UNCHANGED <<kind, ptype, copies, off, tags, base, told, pass, edits, faults, hist>>

\* followPrivate: private on any node is private on every node; there is no
\* base, and it never goes the other way.
FollowPrivate ==
    /\ pass.ph = "outer" /\ kind = "private" /\ pass.at <= Len(Order)
    /\ LET private == UNION {pass.seen[n] : n \in DOMAIN pass.seen}
           due == N \in DOMAIN pass.seen /\ pass.seen[N] # private
       IN  \/ due /\ on' = [on EXCEPT ![N] = private] /\ UNCHANGED faults
           \/ ~due /\ UNCHANGED <<on, faults>>
           \/ due /\ faults > 0 /\ faults' = faults - 1 /\ UNCHANGED on
    /\ pass' = IF pass.at = Len(Order) THEN NoPass ELSE [pass EXCEPT !.at = @ + 1]
    /\ UNCHANGED <<kind, ptype, copies, off, tags, base, told, edits, hist>>

-----------------------------------------------------------------------------
People ==
    \/ \E n \in Node, x \in Used[kind], v \in Val : Give(n, x, v)
    \/ \E n \in Node, x \in Used[kind] : TakeAway(n, x)
    \/ \E n \in Node, x \in Used[kind], s \in Sub : Change(n, x, s)
    \/ \E n \in Node, S \in {{}, {<<GuardRule, Right>>}} : Tamper(n, S)
    \/ \E n \in Node : TurnOff(n)

Pass ==
    \/ Begin \/ ReadNode \/ ReadFails \/ Compare
    \/ \E n \in Node : CreateOrg(n)
    \/ \E op \in {"add", "remove"}, m \in Member : Call(op, m)
    \/ NextTurn \/ SetTopics \/ TopicsWritten
    \/ \E x \in Name : WriteField(x)
    \/ NoField \/ SaveFields \/ FollowPrivate
    \/ BeginGuard \/ GuardRead \/ GuardWrite \/ EndGuard \/ PutGuardBack
    \/ \E n \in Node : ReassertGuard(n)
    \/ Save \/ Tell

Next == People \/ Pass \/ CutOff \/ TagArrives \/ \E n \in Node : LiftGuard(n)

\* The controller's rounds come every interval while it holds the lease, and
\* replication brings the tags: both are only waited for.
Fairness == WF_vars(Pass) /\ WF_vars(TagArrives)

Spec == Init /\ [][Next]_vars /\ Fairness

\* The same with copies that go and are made again.
SpecCopies == Init /\ [][Next \/ \E n \in Node : CopyLost(n) \/ CopyMade(n)]_vars

-----------------------------------------------------------------------------
(* Properties.                                                             *)

\* Every variable keeps its type, and no node ever holds one name twice, however
\* creating and editing it cross what people do (put, create and edit calls).
PartsTypeOK ==
    /\ kind \in Kinds /\ ptype \in {"none", "generic", "maven", "container"}
    /\ on \in [Node -> SUBSET Member] /\ base \subseteq Member
    /\ copies \subseteq Node /\ off \subseteq Node /\ tags \subseteq Node
    /\ told \subseteq Name /\ edits \in 0 .. MaxEdits /\ faults \in 0 .. MaxFaults
    /\ pass.left \subseteq {"add", "remove"} \X Member
    /\ \A n \in Node : \A x \in Name : Cardinality({m \in Named(on[n], x) : Outer(m)}) <= 1

\* A step of ForgeSync's, as against a person's.
Ours == edits' = edits
Read(n) == IF n \in DOMAIN pass.seen THEN pass.seen[n] ELSE {}

\* A pass takes a name it had read off a node only when a person took that
\* name away somewhere -- or when two values of it were being spread at
\* once.  With variables and packages even that is no excuse (set.go
\* Decide and Settle, settle.go, contestedVariables, contestedPackageFiles).
OnlyPeopleRemove ==
    [][ Ours /\ kind \in InPlace \cup {"packages"} /\ on' # on =>
          \A n \in Node, m \in Member :
            (m \in on[n] /\ Outer(m) /\ m \in Read(n) /\ ~HasName(on'[n], NameOf(m)))
              => \/ m \in hist.taken
                 \/ NameOf(m) \in hist.clashed /\ kind \notin {"variables", "packages"} ]_vars

\* What the docs say without the excuse: an absence is someone's change.
TakenByPeople ==
    [][ Ours /\ on' # on =>
          \A n \in Node, m \in Member :
            (m \in on[n] /\ m \in Read(n) /\ Named(on'[n], NameOf(m)) = {})
              => m \in hist.taken ]_vars

\* A member is in the base only if every node that is compared has had it:
\* only then can its absence mean that someone took it away (set.go Settle).
BaseWasEverywhere ==
    kind \in InPlace \cup {"packages"} =>
      \A m \in base, n \in copies \ off : m \in hist.been[n]

\* A value is written over, as read, only when every node has once had it:
\* a new value nobody else has seen is never the one that goes.
NewValueStands ==
    [][ Ours /\ kind = "variables" /\ on' # on =>
          \A n \in Node, m \in Member :
            (m \in on[n] \ on'[n] /\ m \in Read(n))
              => \A o \in copies \ off : m \in hist.been[o] ]_vars

Agreed ==
    IF kind = "guard"
    THEN \A n \in Node : IF n = Order[1] THEN on[n] = {} ELSE <<GuardRule, Right>> \in on[n]
    ELSE \A n, o \in copies \ off, x \in Name :
           Named(on[n], x) = Named(on[o], x) \/ x \in told

\* Once people and failures stop, the nodes come to agree on a name or its
\* difference is an open conflict; the guard is on every replica.
Settles == kind # "teams" => <>[]Agreed
=============================================================================
