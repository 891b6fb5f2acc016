------------------------------- MODULE Parts --------------------------------
(***************************************************************************)
(* One repository's (or owner's) parts: who may use it, the rules on its   *)
(* branches, its releases and their files, its Actions variables, topics   *)
(* and settings, an owner's packages, an organization's teams and who is   *)
(* in them, and ForgeSync's own guard on the replicas.  Every one of them  *)
(* is brought together by the same kind of pass: read the nodes one by     *)
(* one, compare with the base, write node by node, record the base.        *)
(*                                                                         *)
(* This module has the pass and the people; PartCalls has what each kind   *)
(* writes.  A step is one call to one node or to the store, so people, and *)
(* failures, come between any two of them.                                 *)
(***************************************************************************)
EXTENDS SetMerge, Sequences

CONSTANTS
    Node,        \* the nodes that have, or may get, a copy
    Order,       \* e.order: the nodes in the order a pass visits them
    Name,        \* what people name: a login, a rule, a tag, a file ...
    Val,         \* what a name can hold
    Sub,         \* what hangs off a name: a release's files, a team's people
    GuardRule,   \* the rule over every branch ("**")
    Right,       \* the value of what is only there or not, and of a whole guard
    Kinds,       \* the kinds of part a run looks at
    Used,        \* Used[k]: the names people use for parts of kind k
    MaxEdits,    \* bound on what people change
    MaxFaults    \* bound on failed reads, failed writes and cut-off passes

PerRepository == {"collaborators", "protection", "releases", "variables", "topics", "fields", "private", "guard"}
PerOwner == {"packages", "teams"}

ASSUME PartsAssumption ==
    /\ Kinds \subseteq PerRepository \cup PerOwner
    /\ Node # {} /\ Order \in Seq(Node) /\ {Order[i] : i \in DOMAIN Order} = Node
    /\ \A i, j \in DOMAIN Order : Order[i] = Order[j] => i = j
    /\ Name \cap (Val \cup Sub) = {} /\ Val \cap Sub = {}
    /\ GuardRule \in Name /\ Right \in Val
    /\ Used \in [Kinds -> SUBSET Name]
    /\ MaxEdits \in Nat /\ MaxFaults \in Nat

VARIABLES
    kind,        \* which part this is
    ptype,       \* for packages: the registry the package is in
    on,          \* on[n]: the members node n holds
    copies,      \* the nodes recorded as having the repository (hasRepo)
    off,         \* the nodes whose owner has the feature turned off (404)
    tags,        \* the nodes git replication has put the tag on
    base,        \* the base the store has
    told,        \* the names with an open conflict
    pass,        \* the pass in progress
    edits, faults,
    hist         \* what people took away, what clashed, what each node ever had

vars == <<kind, ptype, on, copies, off, tags, base, told, pass, edits, faults, hist>>

Member == Name \X (Val \cup Sub)
Outer(m) == m[2] \in Val
Inner(m) == m[2] \in Sub

Named(S, x) == {m \in S : NameOf(m) = x}
HasName(S, x) == \E m \in S : NameOf(m) = x /\ Outer(m)
\* Mutant of Put: the old value stays beside the new one.
PutBeside(S, m) == S \cup {m}

\* A name holds one value at a time; what hangs off it stays.
Put(S, m) == {k \in S : ~(NameOf(k) = NameOf(m) /\ Outer(k))} \cup {m}
\* Taking a name away takes what hangs off it too.
Off(S, x) == S \ Named(S, x)

Nested == {"releases", "teams"}              \* kinds with a second layer
InPlace == {"collaborators", "protection", "releases", "variables"}
Plain == {"topics", "private"}               \* kinds whose members hold nothing
CanBeOff == {"releases", "variables"}

\* A pass: its phase, the node it is at, what it read, what it believes each
\* node has by now, and what is left to ask of that node.
NoPass == [ph |-> "idle", at |-> 0, unread |-> 0, seen |-> << >>, have |-> << >>,
           tagged |-> {}, here |-> << >>, left |-> {}, missing |-> {}, found |-> {}]

N == Order[pass.at]

\* The nodes a pass asks: those with the repository, or all for an owner.
Asked(n) == n \in copies \/ kind \in PerOwner

Init ==
    /\ kind \in Kinds
    /\ ptype \in IF kind = "packages" THEN {"generic", "maven", "container"} ELSE {"none"}
    /\ off = {}
    /\ \E x \in Used[kind], v \in Val :
         base \in CASE kind = "fields"   -> {{<<x, v>>}}
                    [] kind \in Nested   -> {{}} \cup {{<<x, v>>, <<x, s>>} : s \in Sub}
                    [] kind = "packages" -> {{}, {<<y, v>> : y \in Used[kind]}}
                    [] kind \in {"guard", "private"} -> {{}}
                    [] OTHER             -> {{}, {<<x, v>>}} \ IF kind \in Plain /\ v # Right THEN {{<<x, v>>}} ELSE {}
    /\ copies \in IF kind = "teams" /\ base = {} THEN {Node, {Order[1]}} ELSE {Node}
    /\ tags \in IF kind = "releases" /\ base = {} THEN {{}, Node} ELSE {Node}
    /\ on = [n \in Node |-> base]
    /\ told = {} /\ pass = NoPass
    /\ edits = MaxEdits /\ faults = MaxFaults
    /\ hist = [taken |-> {}, clashed |-> {}, been |-> on]

-----------------------------------------------------------------------------
(* People.  They work on any node at any time, on what they see there.     *)

Person(n, S, gone) ==
    /\ edits > 0 /\ edits' = edits - 1
    /\ n \in copies /\ S # on[n]
    /\ on' = [on EXCEPT ![n] = S]
    /\ hist' = [hist EXCEPT !.been[n] = @ \cup S, !.taken = @ \cup gone]
    /\ UNCHANGED <<kind, ptype, copies, off, base, told, pass, faults>>

\* Give a name a value, or another one.  A published file is not replaced,
\* and publishing a release puts its tag on that node.
Give(n, x, v) ==
    /\ kind # "guard"
    /\ kind = "packages" => ~HasName(on[n], x)
    /\ kind = "fields" => HasName(on[n], x)
    /\ kind \in Plain => v = Right
    /\ Person(n, Put(on[n], <<x, v>>), {})
    /\ tags' = tags \cup {n}

\* Take a name away.
TakeAway(n, x) ==
    /\ kind \notin {"fields", "guard"} /\ HasName(on[n], x)
    /\ Person(n, Off(on[n], x), Named(Member, x))
    /\ UNCHANGED tags

\* Add or remove a file of a release, or a person of a team.
Change(n, x, s) ==
    /\ kind \in Nested /\ HasName(on[n], x)
    /\ IF <<x, s>> \in on[n] THEN Person(n, on[n] \ {<<x, s>>}, {<<x, s>>})
                             ELSE Person(n, on[n] \cup {<<x, s>>}, {})
    /\ UNCHANGED tags

\* The owner of a replica deletes ForgeSync's guard there, or changes it.
Tamper(n, S) ==
    /\ kind = "guard" /\ Person(n, S, {})
    /\ UNCHANGED tags

\* The feature is turned off on a node: its endpoints answer 404.
TurnOff(n) ==
    /\ edits > 0 /\ edits' = edits - 1
    /\ kind \in CanBeOff /\ n \notin off /\ off' = off \cup {n}
    /\ UNCHANGED <<kind, ptype, on, copies, tags, base, told, pass, faults, hist>>

\* Git replication brings the tag to the other nodes.
TagArrives ==
    /\ tags \notin {{}, Node} /\ tags' = Node
    /\ UNCHANGED <<kind, ptype, on, copies, off, base, told, pass, edits, faults, hist>>

\* A copy goes and is made again, empty, by provisioning.  Only the
\* specification that says so takes these two steps.
CopyLost(n) ==
    /\ copies = Node /\ pass.ph = "idle" /\ kind \in InPlace /\ edits > 0
    /\ edits' = edits - 1
    /\ copies' = copies \ {n} /\ on' = [on EXCEPT ![n] = {}]
    /\ UNCHANGED <<kind, ptype, off, tags, base, told, pass, faults, hist>>

CopyMade(n) ==
    /\ n \notin copies /\ pass.ph = "idle" /\ copies' = copies \cup {n}
    /\ UNCHANGED <<kind, ptype, on, off, tags, base, told, pass, edits, faults, hist>>

-----------------------------------------------------------------------------
(* The pass.                                                               *)

Begin ==
    /\ pass.ph = "idle" /\ kind # "guard"
    /\ pass' = [NoPass EXCEPT !.ph = "read", !.at = 1]
    /\ UNCHANGED <<kind, ptype, on, copies, off, tags, base, told, edits, faults, hist>>

\* What was read of one more node.
With(f, n, S) == [o \in DOMAIN f \cup {n} |-> IF o = n THEN S ELSE f[o]]

\* What answers with something to compare.
Counted(n) == n \in copies /\ n \notin off

\* One node is read, or is not asked at all.
ReadNode ==
    /\ pass.ph = "read" /\ pass.at <= Len(Order)
    /\ pass' = IF Counted(N)
               THEN [pass EXCEPT !.at = @ + 1,
                       !.seen = With(@, N, on[N]), !.have = With(@, N, on[N]),
                       !.here = With(@, N, {x \in Name : HasName(on[N], x)}),
                       !.tagged = IF N \in tags THEN @ \cup {N} ELSE @]
               ELSE [pass EXCEPT !.at = @ + 1,
                       !.missing = IF kind = "teams" THEN @ \cup {N} ELSE @]
    /\ UNCHANGED <<kind, ptype, on, copies, off, tags, base, told, edits, faults, hist>>

\* One that should have been is unhealthy, or its answer is an error.
ReadFails ==
    /\ pass.ph = "read" /\ pass.at <= Len(Order) /\ Asked(N)
    /\ faults > 0 /\ faults' = faults - 1
    /\ pass' = [pass EXCEPT !.at = @ + 1, !.unread = @ + 1]
    /\ UNCHANGED <<kind, ptype, on, copies, off, tags, base, told, edits, hist>>

\* Names nobody's value of is written over.
Waits(p) == CASE kind = "variables" -> ContestedChanges(p.seen, base)
              [] kind = "packages"  -> ContestedFiles(p.seen)
              [] OTHER              -> {}

Adds(p, n) == {m \in AddTo(p.seen, base, n) : NameOf(m) \notin Waits(p)}
Removes(p, n) == {m \in RemoveFrom(p.seen, base, n) : NameOf(m) \notin Waits(p)}

\* Removals that are one half of a change: not made, the write replaces them.
Changing(p, n) == {m \in Removes(p, n) : kind \in InPlace /\ Outer(m) /\
                     \E a \in Adds(p, n) : Outer(a) /\ NameOf(a) = NameOf(m)}

\* What is to be asked of node n: first of the names, then of what hangs off.
Todo(p, n, ph) ==
    LET Layer(S) == {m \in S : IF ph = "outer" THEN Outer(m) ELSE Inner(m)}
    IN  IF n \notin DOMAIN p.seen THEN {}
        ELSE ({"remove"} \X (Layer(Removes(p, n)) \ Changing(p, n)))
             \cup ({"add"} \X Layer(Adds(p, n)))

\* Node i's turn: members that are changing leave the belief at once.
TurnOf(p, i, ph) ==
    LET n == Order[i]
    IN  [p EXCEPT !.at = i, !.ph = ph, !.left = Todo(p, n, ph),
           !.have = IF n \in DOMAIN p.have /\ ph = "outer"
                    THEN [p.have EXCEPT ![n] = p.have[n] \ Changing(p, n)] ELSE p.have]

SetKind == kind \notin {"fields", "topics", "private", "guard"}

\* The comparison is made, on two nodes or more, and the writing begins.
Compared(p) ==
    /\ pass' = IF Cardinality(DOMAIN p.seen) < 2
               THEN IF kind = "teams" /\ p.seen # << >> THEN [p EXCEPT !.ph = "tell"] ELSE NoPass
               ELSE IF SetKind THEN TurnOf(p, 1, "outer") ELSE [p EXCEPT !.ph = "outer", !.at = 1]
    /\ hist' = IF SetKind
               THEN [hist EXCEPT !.clashed = @ \cup ContestedChanges(p.seen, base)]
               ELSE hist

Compare ==
    /\ pass.ph = "read" /\ pass.at > Len(Order)
    /\ IF pass.missing # {} /\ pass.seen # << >>
       THEN pass' = [pass EXCEPT !.ph = "orgs"] /\ UNCHANGED hist
       ELSE Compared(pass)
    /\ UNCHANGED <<kind, ptype, on, copies, off, tags, base, told, edits, faults>>

\* The organization is made where it is missing, and read back; a node where
\* that fails takes no part this time.
Rest(p) == IF p.missing = {} THEN Compared(p) ELSE pass' = p /\ UNCHANGED hist

CreateOrg(n) ==
    /\ pass.ph = "orgs" /\ n \in pass.missing
    /\ \/ /\ n \notin copies /\ copies' = copies \cup {n}
          /\ Rest([pass EXCEPT !.missing = @ \ {n}, !.seen = With(@, n, on[n]),
                    !.have = With(@, n, on[n]), !.here = With(@, n, {})])
          /\ UNCHANGED faults
       \/ /\ faults > 0 /\ faults' = faults - 1 /\ UNCHANGED copies
          /\ Rest([pass EXCEPT !.missing = @ \ {n}])
    /\ UNCHANGED <<kind, ptype, on, off, tags, base, told, edits>>

\* The node's turn is over.
NextTurn ==
    /\ pass.ph \in {"outer", "inner"} /\ SetKind /\ pass.left = {}
    /\ pass' = CASE pass.at < Len(Order) -> TurnOf(pass, pass.at + 1, pass.ph)
                 [] pass.at = Len(Order) /\ pass.ph = "outer" /\ kind \in Nested
                                         -> TurnOf(pass, 1, "inner")
                 [] OTHER                -> [pass EXCEPT !.ph = "save"]
    /\ UNCHANGED <<kind, ptype, on, copies, off, tags, base, told, edits, faults, hist>>

\* The conflicts a pass reports.
Reported ==
    CASE kind = "variables" -> Waits(pass)
      [] kind = "packages"  -> Waits(pass) \cup pass.found \cup
           (IF ptype = "container"
            THEN UNION {{NameOf(m) : m \in AddTo(pass.seen, base, n)} : n \in DOMAIN pass.seen}
            ELSE {})
      [] OTHER              -> pass.found

\* The base is recorded ...
Save ==
    /\ pass.ph = "save" /\ kind # "fields"
    /\ base' = SettleRead(pass.unread, pass.have, base)
    /\ pass' = [pass EXCEPT !.ph = "tell"]
    /\ UNCHANGED <<kind, ptype, on, copies, off, tags, told, edits, faults, hist>>

\* ... and then the conflicts: opened, seen again, or cleared.
Tell ==
    /\ pass.ph = "tell"
    /\ told' = Reported /\ pass' = NoPass
    /\ UNCHANGED <<kind, ptype, on, copies, off, tags, base, edits, faults, hist>>

\* The pass is cut off -- the lease is lost, the process stops, the store
\* does not answer -- and records nothing more.
CutOff ==
    /\ pass.ph # "idle" /\ faults > 0 /\ faults' = faults - 1
    /\ pass' = NoPass
    /\ UNCHANGED <<kind, ptype, on, copies, off, tags, base, told, edits, hist>>
=============================================================================
