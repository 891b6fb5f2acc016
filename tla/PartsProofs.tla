----------------------------- MODULE PartsProofs ------------------------------
(***************************************************************************)
(* What the merges of module SetMerge compute, and what every kind of part *)
(* keeps, for any nodes, names, values and bounds.                         *)
(***************************************************************************)
EXTENDS PartCalls, FiniteSetTheorems, TLAPS

-----------------------------------------------------------------------------
(* The merge of sets.                                                      *)

\* What node n holds once every addition and removal on it is made.
Applied(have, base0, n) == (have[n] \ RemoveFrom(have, base0, n)) \cup AddTo(have, base0, n)

\* Once every change Decide asks for is made, all nodes that were read hold the
\* same members: those of the base that every node still had, and all that were
\* new anywhere.  Settle then records exactly these, and asks for nothing more.
THEOREM MergeConverges ==
  ASSUME NEW have, NEW base0, DOMAIN have # {}
  PROVE  LET after == [n \in DOMAIN have |-> Applied(have, base0, n)]
         IN  /\ \A n, o \in DOMAIN have : after[n] = after[o]
             /\ \A n \in DOMAIN have : Settle(after, base0) = after[n]
             /\ \A n \in DOMAIN have : /\ AddTo(after, Settle(after, base0), n) = {}
                                       /\ RemoveFrom(after, Settle(after, base0), n) = {}
<1> DEFINE after == [n \in DOMAIN have |-> Applied(have, base0, n)]
           all == {m \in base0 : \A n \in DOMAIN have : m \in have[n]}
                  \cup ((UNION {have[n] : n \in DOMAIN have}) \ base0)
<1>1. ASSUME NEW n \in DOMAIN have PROVE after[n] = all
  <2>1. ASSUME NEW m \in base0 PROVE m \in after[n] <=> m \in all
    BY <2>1, <1>1 DEF Applied, RemoveFrom, AddTo
  <2>2. ASSUME NEW m, m \notin base0 PROVE m \in after[n] <=> m \in all
    BY <2>2, <1>1 DEF Applied, RemoveFrom, AddTo
  <2> QED
    BY <2>1, <2>2
<1>2. DOMAIN after = DOMAIN have
  OBVIOUS
<1> HIDE DEF after
<1>3. Settle(after, base0) = all
  <2>1. ASSUME NEW m PROVE m \in Settle(after, base0) <=> m \in all
    BY <1>1, <1>2 DEF Settle, Members
  <2> QED
    BY <2>1
<1>4. ASSUME NEW n \in DOMAIN have
      PROVE  /\ AddTo(after, Settle(after, base0), n) = {}
             /\ RemoveFrom(after, Settle(after, base0), n) = {}
  BY <1>1, <1>2, <1>3, <1>4 DEF AddTo, RemoveFrom
<1>5. /\ \A n, o \in DOMAIN have : after[n] = after[o]
      /\ \A n \in DOMAIN have : Settle(after, base0) = after[n]
      /\ \A n \in DOMAIN have : /\ AddTo(after, Settle(after, base0), n) = {}
                                /\ RemoveFrom(after, Settle(after, base0), n) = {}
  BY <1>1, <1>3, <1>4
<1> QED
  BY <1>5 DEF after

\* A member gets into the base only from every node, and leaves it only when no
\* node holds it; silence of a node moves nothing.
LEMMA SettleFacts ==
  ASSUME NEW have, NEW base0, NEW unread \in Nat, NEW m
  PROVE  /\ m \in SettleRead(unread, have, base0) =>
              \/ m \in base0
              \/ unread = 0 /\ DOMAIN have # {} /\ \A n \in DOMAIN have : m \in have[n]
         /\ unread > 0 => SettleRead(unread, have, base0) = base0
<1>1. CASE unread > 0
  BY <1>1 DEF SettleRead
<1>2. CASE unread = 0
  <2>1. SettleRead(unread, have, base0) = Settle(have, base0)
    BY <1>2 DEF SettleRead
  <2>2. m \in Settle(have, base0) => m \in base0 \/ (DOMAIN have # {} /\ \A n \in DOMAIN have : m \in have[n])
    BY DEF Settle
  <2> QED
    BY <1>2, <2>1, <2>2
<1> QED
  BY <1>1, <1>2

-----------------------------------------------------------------------------
(* The invariant.                                                          *)

Snap == UNION {[D -> SUBSET Member] : D \in SUBSET Node}
Names == UNION {[D -> SUBSET Name] : D \in SUBSET Node}
Calls == {"add", "remove"} \X Member

\* What a pass has in its hands.
Phase == {"idle", "read", "orgs", "outer", "inner", "save", "tell", "guard", "guarding", "lifted"}
NodeSets == SUBSET Node
NameSets == SUBSET Name
CallSets == SUBSET Calls
Hands ==
    [ph : Phase, at : Nat, unread : Nat, seen : Snap, have : Snap, tagged : NodeSets,
     here : Names, left : CallSets, missing : NodeSets, found : NameSets]

Hists == [taken : SUBSET Member, clashed : SUBSET Name, been : [Node -> SUBSET Member]]

AllTyped ==
    /\ kind \in Kinds /\ ptype \in {"none", "generic", "maven", "container"}
    /\ on \in [Node -> SUBSET Member] /\ base \subseteq Member
    /\ copies \subseteq Node /\ off \subseteq Node /\ tags \subseteq Node
    /\ told \subseteq Name /\ edits \in 0 .. MaxEdits /\ faults \in 0 .. MaxFaults
    /\ hist \in Hists
    /\ pass \in Hands /\ (pass.ph \in {"read", "guard"} => pass.at > 0)
    /\ pass.ph \in {"guard", "guarding", "lifted"} => kind = "guard"

\* What a node may hold: a name has one value, what is only there or not is
\* Right, variables have nothing under them, and a setting is always there.
OneValue(S) == \A m, k \in S : Outer(m) /\ Outer(k) /\ NameOf(m) = NameOf(k) => m = k
Sound(k, F, S) ==
    /\ S \subseteq Member /\ OneValue(S)
    /\ k \in Plain => \A m \in S : m[2] = Right
    /\ k = "variables" => \A m \in S : Outer(m)
    /\ k = "fields" => \A x \in F : HasName(S, x)

AllSound == /\ \A n \in Node : Sound(kind, FieldNames, on[n])
            /\ \A n \in DOMAIN pass.seen : Sound(kind, FieldNames, pass.seen[n])

\* The pass is at a node while it makes its calls, and these are what Decide
\* asked for on what was read.
CallsMeant ==
    SetKind /\ pass.ph \in {"outer", "inner"} =>
      /\ pass.at \in DOMAIN Order
      /\ pass.ph = "inner" => kind \in Nested
      /\ \A e \in pass.left : /\ IF pass.ph = "outer" THEN Outer(e[2]) ELSE Inner(e[2])
                              /\ e[1] = "add" => e[2] \in Adds(pass, N)
                              /\ e[1] = "remove" => e[2] \in Removes(pass, N)

\* The kinds whose base is about what every node has had.
Tracked == kind \in InPlace \cup {"packages"}

\* Their passes have no phases but these, and all they read is in their belief.
Phases ==
    Tracked => /\ pass.ph \in {"idle", "read", "outer", "inner", "save", "tell"}
               /\ pass.missing = {} /\ DOMAIN pass.have = DOMAIN pass.seen

\* With nothing unread, whoever has the repository was read.
ReadAll ==
    Tracked /\ pass.unread = 0 =>
      /\ pass.ph = "read" => \A i \in DOMAIN Order :
           i < pass.at /\ Order[i] \in copies \ off => Order[i] \in DOMAIN pass.have
      /\ pass.ph \in {"outer", "inner", "save"} => copies \ off \subseteq DOMAIN pass.have

\* A node has had what it has, what it showed, and what it is believed to have.
HasHad ==
    Tracked => /\ \A n \in Node : on[n] \subseteq hist.been[n]
               /\ \A n \in DOMAIN pass.seen : pass.seen[n] \subseteq hist.been[n]
               /\ \A n \in DOMAIN pass.have : pass.have[n] \subseteq hist.been[n]

PartsInv == AllTyped /\ AllSound /\ CallsMeant /\ Phases /\ ReadAll /\ HasHad /\ BaseWasEverywhere

-----------------------------------------------------------------------------
(* Lemmas about what a node holds and what a pass has read.                *)

LEMMA MemberFacts ==
  ASSUME NEW m \in Member
  PROVE  /\ m = <<m[1], m[2]>> /\ m[1] \in Name /\ m[2] \in Val \cup Sub
         /\ NameOf(m) \in Name /\ (Outer(m) <=> ~Inner(m))
  BY PartsAssumption DEF Member, NameOf, Outer, Inner

LEMMA SnapFacts ==
  ASSUME NEW s \in Snap
  PROVE  DOMAIN s \subseteq Node /\ \A n \in DOMAIN s : s[n] \subseteq Member
  BY DEF Snap

LEMMA SnapWith ==
  ASSUME NEW s \in Snap, NEW n \in Node, NEW S \in SUBSET Member
  PROVE  /\ With(s, n, S) \in Snap /\ DOMAIN With(s, n, S) = DOMAIN s \cup {n}
         /\ With(s, n, S)[n] = S /\ \A o \in DOMAIN s : o # n => With(s, n, S)[o] = s[o]
<1>1. With(s, n, S) \in [DOMAIN s \cup {n} -> SUBSET Member] /\ DOMAIN s \cup {n} \in SUBSET Node
  BY SnapFacts DEF With
<1> QED
  BY <1>1 DEF Snap, With

LEMMA SnapExcept ==
  ASSUME NEW s \in Snap, NEW n, NEW S, n \in DOMAIN s => S \in SUBSET Member
  PROVE  [s EXCEPT ![n] = S] \in Snap /\ DOMAIN [s EXCEPT ![n] = S] = DOMAIN s
<1>1. [s EXCEPT ![n] = S] \in [DOMAIN s -> SUBSET Member] /\ DOMAIN s \in SUBSET Node
  BY DEF Snap
<1> QED
  BY <1>1 DEF Snap

LEMMA NamesWith ==
  ASSUME NEW s \in Names, NEW n \in Node, NEW S \in SUBSET Name
  PROVE  With(s, n, S) \in Names
<1>1. With(s, n, S) \in [DOMAIN s \cup {n} -> SUBSET Name] /\ DOMAIN s \cup {n} \in SUBSET Node
  BY DEF With, Names
<1> QED
  BY <1>1 DEF Names

LEMMA NamesExcept ==
  ASSUME NEW s \in Names, NEW n, NEW S, n \in DOMAIN s => S \in SUBSET Name
  PROVE  [s EXCEPT ![n] = S] \in Names
<1>1. [s EXCEPT ![n] = S] \in [DOMAIN s -> SUBSET Name] /\ DOMAIN s \in SUBSET Node
  BY DEF Names
<1> QED
  BY <1>1 DEF Names

LEMMA NothingRead == << >> \in Snap /\ << >> \in Names /\ DOMAIN << >> = {}
<1>1. << >> \in [{} -> SUBSET Member] /\ << >> \in [{} -> SUBSET Name] /\ {} \in SUBSET Node
  OBVIOUS
<1> QED
  BY <1>1 DEF Snap, Names

LEMMA HandsFacts ==
  ASSUME NEW p \in Hands
  PROVE  /\ p.ph \in Phase /\ p.at \in Nat /\ p.unread \in Nat /\ p.seen \in Snap /\ p.have \in Snap
         /\ p.tagged \in NodeSets /\ p.here \in Names /\ p.left \in CallSets
         /\ p.missing \in NodeSets /\ p.found \in NameSets
  BY DEF Hands

LEMMA IdleTyped == NoPass \in Hands
<1>1. << >> \in Snap /\ << >> \in Names /\ {} \in NodeSets /\ {} \in NameSets /\ {} \in CallSets
  BY NothingRead DEF NodeSets, NameSets, CallSets
<1>2. PICK e \in Snap, h \in Names, none \in NodeSets :
        none \in NameSets /\ none \in CallSets /\ e = << >> /\ h = << >> /\ none = {}
  BY <1>1
<1>3. [ph |-> "idle", at |-> 0, unread |-> 0, seen |-> e, have |-> e, tagged |-> none,
       here |-> h, left |-> none, missing |-> none, found |-> none] \in Hands
  BY <1>2 DEF Hands, Phase
<1>4. NoPass = [ph |-> "idle", at |-> 0, unread |-> 0, seen |-> e, have |-> e, tagged |-> none,
                here |-> h, left |-> none, missing |-> none, found |-> none]
  BY <1>2, Zenon DEF NoPass
<1> QED
  BY <1>3, <1>4

-----------------------------------------------------------------------------
(* Lemmas about sound sets of members.                                     *)

LEMMA PutSound ==
  ASSUME NEW k, NEW F, NEW S, Sound(k, F, S), NEW m \in Member, Outer(m), k \in Plain => m[2] = Right
  PROVE  Sound(k, F, Put(S, m)) /\ m \in Put(S, m)
<1>1. Put(S, m) \subseteq Member /\ m \in Put(S, m)
  BY DEF Put, Sound
<1>2. OneValue(Put(S, m))
  BY DEF Put, Sound, OneValue
<1>3. ASSUME NEW x, HasName(S, x) PROVE HasName(Put(S, m), x)
  BY <1>3 DEF HasName, Put
<1>4. \A e \in Put(S, m) : e \in S \/ e = m
  BY DEF Put
<1> QED
  BY <1>1, <1>2, <1>3, <1>4 DEF Sound

LEMMA LessSound ==
  ASSUME NEW k, NEW F, NEW S, Sound(k, F, S), k # "fields", NEW T \in SUBSET S
  PROVE  Sound(k, F, T)
  BY DEF Sound, OneValue

LEMMA InnerSound ==
  ASSUME NEW k \in Nested, NEW F, NEW S, Sound(k, F, S), NEW m \in Member, Inner(m)
  PROVE  Sound(k, F, S \cup {m})
<1>1. ~Outer(m)
  BY MemberFacts
<1>2. k \notin Plain /\ k # "variables" /\ k # "fields"
  BY DEF Nested, Plain
<1> QED
  BY <1>1, <1>2 DEF Sound, OneValue

LEMMA OffLess == ASSUME NEW S, NEW x PROVE Off(S, x) \subseteq S
  BY DEF Off

LEMMA GuardSound ==
  ASSUME NEW F, NEW S, S \in {{}, {<<GuardRule, Right>>}, GuardFull}
  PROVE  Sound("guard", F, S)
<1>1. GuardFull \subseteq Member /\ {<<GuardRule, Right>>} \subseteq GuardFull
  BY PartsAssumption DEF GuardFull, Member
<1>2. \A m \in GuardFull : Outer(m) => m = <<GuardRule, Right>>
  BY PartsAssumption DEF GuardFull, Outer
<1> QED
  BY <1>1, <1>2 DEF Sound, OneValue, Plain

LEMMA ClashNames ==
  ASSUME NEW s \in Snap, NEW b
  PROVE  ContestedChanges(s, b) \subseteq Name /\ ContestedFiles(s) \subseteq Name
<1>1. \A n \in DOMAIN s : \A m \in s[n] : NameOf(m) \in Name
  BY SnapFacts, MemberFacts
<1>2. ContestedFiles(s) \subseteq Name
  BY <1>1 DEF ContestedFiles
<1>3. ContestedChanges(s, b) \subseteq Name
  BY <1>1 DEF ContestedChanges, AddTo
<1> QED
  BY <1>2, <1>3

-----------------------------------------------------------------------------
(* The first state.                                                        *)

LEMMA FirstBase ==
  Init => /\ base \subseteq Member /\ Sound(kind, FieldNames, base)
<1> SUFFICES ASSUME Init PROVE base \subseteq Member /\ Sound(kind, FieldNames, base)
  OBVIOUS
<1> USE PartsAssumption
<1>1. PICK x \in Used[kind], v \in Val :
         base \in CASE kind = "fields"   -> {{<<x, v>>}}
                    [] kind \in Nested   -> {{}} \cup {{<<x, v>>, <<x, s>>} : s \in Sub}
                    [] kind = "packages" -> {{}, {<<y, v>> : y \in Used[kind]}}
                    [] kind \in {"guard", "private"} -> {{}}
                    [] OTHER             -> {{}, {<<x, v>>}} \ IF kind \in Plain /\ v # Right THEN {{<<x, v>>}} ELSE {}
  BY DEF Init
<1>2. kind \in Kinds /\ Used[kind] \subseteq Name /\ x \in Name
  BY DEF Init
<1>3. \A y \in Name : <<y, v>> \in Member /\ Outer(<<y, v>>) /\ NameOf(<<y, v>>) = y
  BY DEF Member, Outer, NameOf
<1>4. \A s \in Sub : <<x, s>> \in Member /\ ~Outer(<<x, s>>)
  BY <1>2 DEF Member, Outer
<1>5. CASE base = {}
  BY <1>5 DEF Sound, OneValue, FieldNames, HasName
<1>6. CASE base = {<<x, v>>} /\ (kind \in Plain => v = Right)
  BY <1>6, <1>2, <1>3 DEF Sound, OneValue, FieldNames
<1>7. CASE kind \in Nested /\ \E s \in Sub : base = {<<x, v>>, <<x, s>>}
  <2>1. kind \notin Plain /\ kind # "variables" /\ kind # "fields"
    BY <1>7 DEF Nested, Plain
  <2> QED
    BY <1>7, <2>1, <1>2, <1>3, <1>4 DEF Sound, OneValue
<1>8. CASE kind = "packages" /\ base = {<<y, v>> : y \in Used[kind]}
  BY <1>8, <1>2, <1>3 DEF Sound, OneValue, Plain
<1>9. \/ base = {}
      \/ base = {<<x, v>>} /\ (kind \in Plain => v = Right)
      \/ kind \in Nested /\ \E s \in Sub : base = {<<x, v>>, <<x, s>>}
      \/ kind = "packages" /\ base = {<<y, v>> : y \in Used[kind]}
  <2>1. CASE kind = "fields"
    BY <2>1, <1>1 DEF Plain
  <2>2. CASE kind # "fields" /\ kind \in Nested
    BY <2>2, <1>1
  <2>3. CASE kind = "packages"
    BY <2>3, <1>1 DEF Nested
  <2>4. CASE kind \in {"guard", "private"}
    BY <2>4, <1>1 DEF Nested
  <2>5. CASE kind \notin {"fields", "packages", "guard", "private"} \cup Nested
    BY <2>5, <1>1
  <2> QED
    BY <2>1, <2>2, <2>3, <2>4, <2>5
<1> QED
  BY <1>5, <1>6, <1>7, <1>8, <1>9 DEF Sound

LEMMA PartsInit == Init => PartsInv
<1> SUFFICES ASSUME Init PROVE PartsInv
  OBVIOUS
<1> USE PartsAssumption
<1>1. base \subseteq Member /\ Sound(kind, FieldNames, base)
  BY FirstBase
<1>2. /\ kind \in Kinds /\ on = [n \in Node |-> base] /\ pass = NoPass /\ told = {} /\ off = {}
      /\ copies \subseteq Node /\ tags \subseteq Node /\ edits = MaxEdits /\ faults = MaxFaults
      /\ hist = [taken |-> {}, clashed |-> {}, been |-> on]
      /\ ptype \in {"none", "generic", "maven", "container"}
  BY DEF Init
<1>3. /\ pass.seen = << >> /\ pass.have = << >> /\ pass.here = << >>
      /\ pass.ph = "idle" /\ pass.unread = 0 /\ pass.missing = {}
  BY <1>2 DEF NoPass
<1>4. AllTyped
  <2>1. pass \in Hands /\ pass.ph = "idle"
    BY <1>2, <1>3, IdleTyped
  <2> QED
    BY <1>1, <1>2, <2>1 DEF AllTyped, Hists
<1>5. AllSound
  BY <1>1, <1>2, <1>3, NothingRead DEF AllSound
<1>6. CallsMeant /\ Phases /\ ReadAll
  BY <1>3 DEF CallsMeant, Phases, ReadAll
<1>7. HasHad /\ BaseWasEverywhere
  BY <1>2, <1>3, NothingRead DEF HasHad, BaseWasEverywhere
<1> QED
  BY <1>4, <1>5, <1>6, <1>7 DEF PartsInv

-----------------------------------------------------------------------------
(* People.                                                                 *)

\* CallsMeant depends on nothing people touch.
LEMMA PersonKeeps ==
  ASSUME PartsInv, NEW n \in Node, NEW S, NEW gone \in SUBSET Member,
         Person(n, S, gone), tags' \subseteq Node, Sound(kind, FieldNames, S)
  PROVE  PartsInv'
<1>1. /\ edits \in 0 .. MaxEdits /\ edits > 0 /\ edits' = edits - 1 /\ S \subseteq Member
      /\ on' = [on EXCEPT ![n] = S]
      /\ hist' = [hist EXCEPT !.been[n] = @ \cup S, !.taken = @ \cup gone]
      /\ kind' = kind /\ ptype' = ptype /\ copies' = copies /\ off' = off /\ base' = base
      /\ told' = told /\ pass' = pass /\ faults' = faults
      /\ MaxEdits \in Nat
  BY PartsAssumption DEF PartsInv, AllTyped, Person, Sound
<1>2. on \in [Node -> SUBSET Member]
      /\ hist \in [taken : SUBSET Member, clashed : SUBSET Name, been : [Node -> SUBSET Member]]
  BY DEF PartsInv, AllTyped, Hists
<1>3. /\ hist'.been = [hist.been EXCEPT ![n] = @ \cup S]
      /\ hist'.taken = hist.taken \cup gone /\ hist'.clashed = hist.clashed
      /\ hist' \in [taken : SUBSET Member, clashed : SUBSET Name, been : [Node -> SUBSET Member]]
  BY <1>1, <1>2
<1>4. FieldNames' = FieldNames
  BY <1>1 DEF FieldNames
<1>5. AllTyped'
  BY <1>1, <1>2, <1>3 DEF PartsInv, AllTyped, Hists
<1>6. AllSound'
  BY <1>1, <1>2, <1>4 DEF PartsInv, AllSound
<1>7. CallsMeant'
  BY <1>1 DEF PartsInv, CallsMeant, SetKind, Adds, Removes, Waits, N
<1>8. Phases' /\ ReadAll'
  BY <1>1 DEF PartsInv, Phases, ReadAll, Tracked
<1>9. \A o \in Node : hist.been[o] \subseteq hist'.been[o]
  BY <1>2, <1>3
<1>10. HasHad'
  <2>1. Tracked' => \A o \in Node : on'[o] \subseteq hist'.been[o]
    BY <1>1, <1>2, <1>3 DEF PartsInv, HasHad, Tracked
  <2>2. Tracked' => /\ \A o \in DOMAIN pass'.seen : pass'.seen[o] \subseteq hist'.been[o]
                    /\ \A o \in DOMAIN pass'.have : pass'.have[o] \subseteq hist'.been[o]
    <3>1. DOMAIN pass.seen \subseteq Node /\ DOMAIN pass.have \subseteq Node
      BY SnapFacts DEF PartsInv, AllTyped, Hands
    <3> QED
      BY <1>1, <1>9, <3>1 DEF PartsInv, HasHad, Tracked
  <2> QED
    BY <2>1, <2>2 DEF HasHad
<1>11. BaseWasEverywhere'
  BY <1>1, <1>9 DEF PartsInv, AllTyped, BaseWasEverywhere
<1> QED
  BY <1>5, <1>6, <1>7, <1>8, <1>10, <1>11 DEF PartsInv

LEMMA PeopleKeep == PartsInv /\ People => PartsInv'
<1> SUFFICES ASSUME PartsInv, People PROVE PartsInv'
  OBVIOUS
<1> USE PartsAssumption
<1>1. /\ kind \in Kinds /\ Used[kind] \subseteq Name /\ tags \subseteq Node
      /\ \A n \in Node : Sound(kind, FieldNames, on[n])
  BY DEF PartsInv, AllTyped, AllSound
<1>2. ASSUME NEW n \in Node, NEW x \in Used[kind], NEW v \in Val, Give(n, x, v) PROVE PartsInv'
  <2>1. <<x, v>> \in Member /\ Outer(<<x, v>>) /\ (kind \in Plain => <<x, v>>[2] = Right)
    BY <1>1, <1>2 DEF Give, Member, Outer
  <2> QED
    BY <1>1, <1>2, <2>1, PutSound, PersonKeeps DEF Give
<1>3. ASSUME NEW n \in Node, NEW x \in Used[kind], TakeAway(n, x) PROVE PartsInv'
  <2>1. Sound(kind, FieldNames, Off(on[n], x))
    BY <1>1, <1>3, OffLess, LessSound DEF TakeAway
  <2>2. Named(Member, x) \in SUBSET Member
    BY DEF Named
  <2> QED
    BY <1>1, <1>3, <2>1, <2>2, PersonKeeps DEF TakeAway
<1>4. ASSUME NEW n \in Node, NEW x \in Used[kind], NEW s \in Sub, Change(n, x, s) PROVE PartsInv'
  <2>1. <<x, s>> \in Member /\ Inner(<<x, s>>) /\ kind \in Nested /\ kind # "fields"
    BY <1>1, <1>4 DEF Change, Member, Inner, Nested
  <2>2. Sound(kind, FieldNames, on[n] \ {<<x, s>>}) /\ Sound(kind, FieldNames, on[n] \cup {<<x, s>>})
    BY <1>1, <2>1, LessSound, InnerSound
  <2> QED
    BY <1>1, <1>4, <2>1, <2>2, PersonKeeps DEF Change
<1>5. ASSUME NEW n \in Node, NEW S \in {{}, {<<GuardRule, Right>>}}, Tamper(n, S) PROVE PartsInv'
  BY <1>1, <1>5, GuardSound, PersonKeeps DEF Tamper
<1>6. ASSUME NEW n \in Node, TurnOff(n) PROVE PartsInv'
  <2>1. /\ edits' \in 0 .. MaxEdits /\ off' = off \cup {n}
        /\ UNCHANGED <<kind, ptype, on, copies, tags, base, told, pass, faults, hist>>
    BY <1>6 DEF TurnOff, PartsInv, AllTyped
  <2>2. AllTyped'
    BY <2>1 DEF PartsInv, AllTyped
  <2>3. AllSound' /\ HasHad'
    BY <2>1 DEF PartsInv, AllSound, HasHad, FieldNames, Tracked
  <2>4. CallsMeant'
    BY <2>1 DEF PartsInv, CallsMeant, SetKind, Adds, Removes, Waits, N
  <2>5. Phases' /\ ReadAll' /\ BaseWasEverywhere'
    BY <2>1 DEF PartsInv, Phases, ReadAll, BaseWasEverywhere, Tracked
  <2> QED
    BY <2>2, <2>3, <2>4, <2>5 DEF PartsInv
<1> QED
  BY <1>2, <1>3, <1>4, <1>5, <1>6 DEF People

-----------------------------------------------------------------------------
(* The pass, as long as it writes nothing.                                 *)

\* A step that only moves the pass on has this to show.
LEMMA PassKeeps ==
  ASSUME PartsInv, UNCHANGED <<kind, ptype, on, off, base, edits>>, tags' \subseteq Node,
         told' \subseteq Name, faults' \in 0 .. MaxFaults, hist' \in Hists, hist'.been = hist.been,
         copies' \subseteq Node, Tracked => copies' = copies, pass' \in Hands,
         pass'.ph \in {"read", "guard"} => pass'.at > 0,
         pass'.ph \in {"guard", "guarding", "lifted"} => kind = "guard",
         \A n \in DOMAIN pass'.seen : Sound(kind, FieldNames, pass'.seen[n]),
         Tracked => /\ \A n \in DOMAIN pass'.seen : pass'.seen[n] \subseteq hist.been[n]
                    /\ \A n \in DOMAIN pass'.have : pass'.have[n] \subseteq hist.been[n],
         CallsMeant', Phases', ReadAll'
  PROVE  PartsInv'
<1>1. AllTyped'
  BY DEF PartsInv, AllTyped
<1>2. AllSound'
  BY DEF PartsInv, AllSound, FieldNames
<1>3. HasHad' /\ BaseWasEverywhere'
  BY DEF PartsInv, HasHad, BaseWasEverywhere, Tracked
<1> QED
  BY <1>1, <1>2, <1>3 DEF PartsInv

\* What PassKeeps asks of a pass p, written of any p.
Fit(p) ==
    /\ p \in Hands /\ (p.ph \in {"read", "guard"} => p.at > 0)
    /\ p.ph \in {"guard", "guarding", "lifted"} => kind = "guard"
    /\ \A n \in DOMAIN p.seen : Sound(kind, FieldNames, p.seen[n])
    /\ Tracked => /\ \A n \in DOMAIN p.seen : p.seen[n] \subseteq hist.been[n]
                  /\ \A n \in DOMAIN p.have : p.have[n] \subseteq hist.been[n]
                  /\ p.missing = {} /\ DOMAIN p.have = DOMAIN p.seen

LEMMA PassFits == PartsInv => Fit(pass)
  BY DEF PartsInv, AllTyped, AllSound, HasHad, Phases, Fit

LEMMA NoPassFits == Fit(NoPass) /\ NoPass.ph = "idle" /\ NoPass.unread = 0
<1>1. NoPass.seen = << >> /\ NoPass.have = << >> /\ NoPass.ph = "idle" /\ NoPass.unread = 0 /\ NoPass.missing = {}
  BY DEF NoPass
<1> QED
  BY <1>1, IdleTyped, NothingRead DEF Fit

\* A pass that makes no calls, and of a tracked kind has read all it should.
LEMMA QuietKeeps ==
  ASSUME PartsInv, UNCHANGED <<kind, ptype, on, off, base, edits>>, tags' \subseteq Node,
         told' \subseteq Name, faults' \in 0 .. MaxFaults, hist' \in Hists, hist'.been = hist.been,
         copies' \subseteq Node, Tracked => copies' = copies, Fit(pass'),
         SetKind => pass'.ph \notin {"outer", "inner"},
         Tracked => pass'.ph \in {"idle", "read", "save", "tell"}, ReadAll'
  PROVE  PartsInv'
<1>1. CallsMeant'
  BY DEF CallsMeant, SetKind
<1>2. Phases'
  BY DEF Phases, Fit, Tracked
<1> QED
  BY <1>1, <1>2, PassKeeps DEF Fit

LEMMA EndKeeps ==
  ASSUME PartsInv, UNCHANGED <<kind, ptype, on, off, base, edits>>, tags' \subseteq Node,
         told' \subseteq Name, faults' \in 0 .. MaxFaults, hist' \in Hists, hist'.been = hist.been,
         copies' \subseteq Node, Tracked => copies' = copies, pass' = NoPass
  PROVE  PartsInv'
<1>1. Fit(pass')
  BY NoPassFits DEF Fit
<1>2. pass'.ph = "idle"
  BY NoPassFits
<1>3. ReadAll'
  BY <1>2 DEF ReadAll, Tracked
<1> QED
  BY <1>1, <1>2, <1>3, QuietKeeps

LEMMA ReadingKeeps == PartsInv /\ (Begin \/ ReadNode \/ ReadFails) => PartsInv'
<1> SUFFICES ASSUME PartsInv, Begin \/ ReadNode \/ ReadFails PROVE PartsInv'
  OBVIOUS
<1>p. pass \in Hands
  BY DEF PartsInv, AllTyped
<1>f. Fit(pass)
  BY PassFits
<1>1. /\ hist \in Hists /\ copies \subseteq Node /\ tags \subseteq Node
      /\ told \subseteq Name /\ faults \in 0 .. MaxFaults /\ on \in [Node -> SUBSET Member]
      /\ \A n \in Node : Sound(kind, FieldNames, on[n])
      /\ Tracked => \A n \in Node : on[n] \subseteq hist.been[n]
  BY DEF PartsInv, AllTyped, AllSound, HasHad
<1>2. CASE Begin
  <2>1. pass' = [NoPass EXCEPT !.ph = "read", !.at = 1]
    BY <1>2 DEF Begin
  <2>2. /\ pass' \in Hands /\ pass'.ph = "read" /\ pass'.at = 1
        /\ pass'.seen = NoPass.seen /\ pass'.have = NoPass.have /\ pass'.missing = NoPass.missing
    BY <2>1, IdleTyped DEF Hands, Phase
  <2>3. Fit(pass')
    BY <2>2, NoPassFits DEF Fit
  <2>4. ReadAll'
    BY <2>2, PartsAssumption DEF ReadAll
  <2> QED
    BY <1>1, <1>2, <2>2, <2>3, <2>4, QuietKeeps DEF Begin
<1>3. CASE ReadNode /\ Counted(N)
  <2>1. /\ pass.ph = "read" /\ pass.at <= Len(Order) /\ pass.at \in Nat
        /\ pass' = [pass EXCEPT !.at = @ + 1,
                       !.seen = With(@, N, on[N]), !.have = With(@, N, on[N]),
                       !.here = With(@, N, {x \in Name : HasName(on[N], x)}),
                       !.tagged = IF N \in tags THEN @ \cup {N} ELSE @]
    BY <1>p, <1>3 DEF ReadNode, Hands
  <2>2. pass.at \in DOMAIN Order /\ N \in Node /\ N \in copies
    <3>1. Len(Order) \in Nat /\ DOMAIN Order = 1 .. Len(Order)
      BY PartsAssumption
    <3>2. pass.at \in DOMAIN Order
      BY <1>f, <2>1, <3>1 DEF Fit
    <3> QED
      BY <1>3, <3>2, PartsAssumption DEF Counted, N
  <2> DEFINE seen == With(pass.seen, N, on[N])
             have == With(pass.have, N, on[N])
             here == With(pass.here, N, {x \in Name : HasName(on[N], x)})
             tagged == IF N \in tags THEN pass.tagged \cup {N} ELSE pass.tagged
  <2>10. /\ pass.seen \in Snap /\ pass.have \in Snap /\ pass.here \in Names /\ pass.tagged \in NodeSets
        /\ on[N] \in SUBSET Member /\ {x \in Name : HasName(on[N], x)} \in SUBSET Name
    BY <1>1, <1>p, <2>2, HandsFacts
  <2>3. /\ seen \in Snap /\ DOMAIN seen = DOMAIN pass.seen \cup {N}
        /\ seen[N] = on[N] /\ \A o \in DOMAIN pass.seen : o # N => seen[o] = pass.seen[o]
    BY <2>2, <2>10, SnapWith
  <2>4. /\ have \in Snap /\ DOMAIN have = DOMAIN pass.have \cup {N}
        /\ have[N] = on[N] /\ \A o \in DOMAIN pass.have : o # N => have[o] = pass.have[o]
    BY <2>2, <2>10, SnapWith
  <2>5. here \in Names /\ tagged \in NodeSets
    BY <2>2, <2>10, NamesWith DEF NodeSets
  <2> HIDE DEF seen, have, here, tagged
  <2>6. pass' = [pass EXCEPT !.at = pass.at + 1, !.seen = seen, !.have = have, !.here = here, !.tagged = tagged]
    BY <2>1 DEF seen, have, here, tagged
  <2>7. /\ pass' \in Hands /\ pass'.ph = "read" /\ pass'.at = pass.at + 1 /\ pass'.unread = pass.unread
        /\ pass'.seen = seen /\ pass'.have = have /\ pass'.missing = pass.missing
    <3>1. /\ pass.at + 1 \in Nat /\ seen \in Snap /\ have \in Snap /\ here \in Names /\ tagged \in NodeSets
          /\ pass.ph = "read"
      BY <2>1, <2>3, <2>4, <2>5
    <3> QED
      BY <1>p, <2>6, <3>1 DEF Hands
  <2>8. Fit(pass')
    <3>1. pass' \in Hands /\ pass'.ph = "read" /\ pass'.at > 0
      BY <2>1, <2>7
    <3>2. \A n \in DOMAIN pass'.seen : Sound(kind, FieldNames, pass'.seen[n])
      BY <1>1, <1>f, <2>2, <2>3, <2>7 DEF Fit
    <3>3. Tracked => /\ \A n \in DOMAIN pass'.seen : pass'.seen[n] \subseteq hist.been[n]
                     /\ \A n \in DOMAIN pass'.have : pass'.have[n] \subseteq hist.been[n]
                     /\ pass'.missing = {} /\ DOMAIN pass'.have = DOMAIN pass'.seen
      BY <1>1, <1>f, <2>2, <2>3, <2>4, <2>7 DEF Fit
    <3> QED
      BY <3>1, <3>2, <3>3 DEF Fit
  <2>9. ReadAll'
    <3>1. \A i \in DOMAIN Order : i < pass.at + 1 => i < pass.at \/ Order[i] = N
      BY <2>1, PartsAssumption DEF N
    <3> QED
      BY <1>3, <2>1, <2>4, <2>7, <3>1 DEF ReadNode, PartsInv, ReadAll, Tracked
  <2> QED
    BY <1>1, <1>3, <2>7, <2>8, <2>9, QuietKeeps DEF ReadNode
<1>4. CASE ReadNode /\ ~Counted(N)
  <2>1. /\ pass.ph = "read" /\ pass.at <= Len(Order) /\ pass.at \in Nat
        /\ pass' = [pass EXCEPT !.at = @ + 1,
                       !.missing = IF kind = "teams" THEN @ \cup {N} ELSE @]
    BY <1>p, <1>4 DEF ReadNode, Hands
  <2>4. Len(Order) \in Nat /\ DOMAIN Order = 1 .. Len(Order)
    BY PartsAssumption
  <2>2. CASE pass.at \in DOMAIN Order
    <3>1. N \in Node
      BY <2>2, PartsAssumption DEF N
    <3> DEFINE missing == IF kind = "teams" THEN pass.missing \cup {N} ELSE pass.missing
    <3>2. missing \in NodeSets /\ (Tracked => missing = pass.missing)
      BY <1>p, <3>1 DEF Hands, NodeSets, Tracked, InPlace
    <3> HIDE DEF missing
    <3>3. pass' = [pass EXCEPT !.at = pass.at + 1, !.missing = missing]
      BY <2>1 DEF missing
    <3>4. /\ pass' \in Hands /\ pass'.ph = "read" /\ pass'.at = pass.at + 1 /\ pass'.unread = pass.unread
          /\ pass'.seen = pass.seen /\ pass'.have = pass.have /\ pass'.missing = missing
      <4>1. pass.at + 1 \in Nat /\ missing \in NodeSets /\ pass.ph = "read"
        BY <2>1, <3>2
      <4> QED
        BY <1>p, <3>3, <4>1 DEF Hands
    <3>5. Fit(pass')
      <4>1. pass'.at > 0 /\ pass'.ph = "read"
        BY <2>1, <3>4
      <4> QED
        BY <1>f, <3>2, <3>4, <4>1 DEF Fit
    <3>6. ReadAll'
      <4>1. \A i \in DOMAIN Order : i < pass.at + 1 => i < pass.at \/ Order[i] = N
        BY <2>1, PartsAssumption DEF N
      <4> QED
        BY <1>4, <2>1, <3>4, <4>1 DEF ReadNode, PartsInv, ReadAll, Tracked, Counted
    <3> QED
      BY <1>1, <1>4, <3>4, <3>5, <3>6, QuietKeeps DEF ReadNode
  <2>3. pass.at \in DOMAIN Order
    BY <1>f, <2>1, <2>4 DEF Fit
  <2> QED
    BY <2>2, <2>3
<1>5. CASE ReadFails
  <2>1. /\ pass.ph = "read" /\ pass.at \in Nat /\ pass.unread \in Nat
        /\ pass' = [pass EXCEPT !.at = pass.at + 1, !.unread = pass.unread + 1]
    BY <1>p, <1>5 DEF ReadFails, Hands
  <2>2. /\ pass' \in Hands /\ pass'.ph = "read" /\ pass'.at = pass.at + 1 /\ pass'.unread = pass.unread + 1
        /\ pass'.seen = pass.seen /\ pass'.have = pass.have /\ pass'.missing = pass.missing
    <3>1. pass.at + 1 \in Nat /\ pass.unread + 1 \in Nat /\ pass.ph = "read"
      BY <2>1, <1>p, HandsFacts
    <3>2. pass' = [pass EXCEPT !.at = pass.at + 1, !.unread = pass.unread + 1]
      BY <2>1
    <3> QED
      BY <1>p, <3>1, <3>2 DEF Hands
  <2>3. Fit(pass')
    BY <1>f, <2>1, <2>2 DEF Fit
  <2>4. ReadAll'
    BY <2>1, <2>2 DEF ReadAll
  <2>5. faults' \in 0 .. MaxFaults
    BY <1>1, <1>5, PartsAssumption DEF ReadFails
  <2> QED
    BY <1>1, <1>5, <2>2, <2>3, <2>4, <2>5, QuietKeeps DEF ReadFails
<1> QED
  BY <1>2, <1>3, <1>4, <1>5

\* A turn begins with exactly what Decide asks for, as far as it is made at all.
LEMMA TurnKeeps ==
  ASSUME PartsInv, SetKind, NEW p, Fit(p), NEW i \in DOMAIN Order, NEW ph \in {"outer", "inner"},
         ph = "inner" => kind \in Nested,
         Tracked /\ p.unread = 0 => copies \ off \subseteq DOMAIN p.have,
         UNCHANGED <<kind, ptype, on, off, base, edits>>, tags' \subseteq Node,
         told' \subseteq Name, faults' \in 0 .. MaxFaults, hist' \in Hists, hist'.been = hist.been,
         copies' \subseteq Node, Tracked => copies' = copies, pass' = TurnOf(p, i, ph)
  PROVE  PartsInv'
<1> DEFINE n == Order[i]
           have == IF n \in DOMAIN p.have /\ ph = "outer"
                   THEN [p.have EXCEPT ![n] = p.have[n] \ Changing(p, n)] ELSE p.have
           left == Todo(p, n, ph)
<1>p. p \in Hands
  BY DEF Fit
<1>1. n \in Node /\ i \in Nat /\ ph \in Phase
  BY PartsAssumption DEF Phase
<1>2. /\ have \in Snap /\ DOMAIN have = DOMAIN p.have
      /\ \A o \in DOMAIN have : have[o] \subseteq p.have[o]
  <2>1. p.have \in Snap
    BY <1>p, HandsFacts
  <2>2. CASE n \in DOMAIN p.have /\ ph = "outer"
    <3>1. p.have[n] \ Changing(p, n) \in SUBSET Member
      BY <2>1, <2>2, SnapFacts
    <3> QED
      BY <2>1, <2>2, <3>1, SnapExcept
  <2>3. CASE ~(n \in DOMAIN p.have /\ ph = "outer")
    BY <2>1, <2>3
  <2> QED
    BY <2>2, <2>3
<1>3. \A e \in left : /\ e \in Calls
                      /\ IF ph = "outer" THEN Outer(e[2]) ELSE Inner(e[2])
                      /\ e[1] = "add" => e[2] \in Adds(p, n)
                      /\ e[1] = "remove" => e[2] \in Removes(p, n)
  <2>1. ASSUME NEW m, m \in Adds(p, n) \cup Removes(p, n), n \in DOMAIN p.seen PROVE m \in Member
    <3>1. \A o \in DOMAIN p.seen : p.seen[o] \subseteq Member
      BY <1>p, HandsFacts, SnapFacts
    <3> QED
      BY <2>1, <3>1 DEF Adds, Removes, AddTo, RemoveFrom
  <2> QED
    BY <2>1 DEF Todo, Calls
<1>4. left \in CallSets
  BY <1>3 DEF CallSets
<1>5. pass' = [p EXCEPT !.at = i, !.ph = ph, !.left = left, !.have = have]
  BY Zenon DEF TurnOf
<1> HIDE DEF have, left
<1>6. /\ pass' \in Hands /\ pass'.ph = ph /\ pass'.at = i /\ pass'.unread = p.unread
      /\ pass'.seen = p.seen /\ pass'.have = have /\ pass'.left = left /\ pass'.missing = p.missing
  BY <1>p, <1>1, <1>2, <1>4, <1>5 DEF Hands
<1>7. CallsMeant'
  BY <1>3, <1>6 DEF CallsMeant, Adds, Removes, Waits, N
<1>8. Phases' /\ ReadAll'
  BY <1>2, <1>6 DEF Phases, ReadAll, Tracked, Fit
<1>9. /\ \A o \in DOMAIN pass'.seen : Sound(kind, FieldNames, pass'.seen[o])
      /\ Tracked => /\ \A o \in DOMAIN pass'.seen : pass'.seen[o] \subseteq hist.been[o]
                    /\ \A o \in DOMAIN pass'.have : pass'.have[o] \subseteq hist.been[o]
  BY <1>2, <1>6 DEF Fit
<1> QED
  BY <1>6, <1>7, <1>8, <1>9, PassKeeps

LEMMA ComparedKeeps ==
  ASSUME PartsInv, NEW p, Fit(p), p.ph # "idle",
         Tracked /\ p.unread = 0 => copies \ off \subseteq DOMAIN p.have,
         UNCHANGED <<kind, ptype, on, off, tags, base, told, edits>>, faults' \in 0 .. MaxFaults,
         copies' \subseteq Node, Tracked => copies' = copies, Compared(p)
  PROVE  PartsInv'
<1>p. p \in Hands
  BY DEF Fit
<1>1. tags' \subseteq Node /\ told' \subseteq Name
  BY DEF PartsInv, AllTyped
<1>2. hist' \in Hists /\ hist'.been = hist.been
  <2>1. hist \in Hists /\ ContestedChanges(p.seen, base) \subseteq Name
    BY <1>p, HandsFacts, ClashNames DEF PartsInv, AllTyped
  <2>2. hist' = [hist EXCEPT !.clashed = hist.clashed \cup ContestedChanges(p.seen, base)] \/ hist' = hist
    BY DEF Compared
  <2> QED
    BY <2>1, <2>2 DEF Hists
<1>3. 1 \in DOMAIN Order
  BY PartsAssumption
<1>4. \/ pass' = NoPass
      \/ pass' = [p EXCEPT !.ph = "tell"]
      \/ SetKind /\ pass' = TurnOf(p, 1, "outer")
      \/ ~SetKind /\ pass' = [p EXCEPT !.ph = "outer", !.at = 1]
  BY DEF Compared
<1>5. CASE pass' = NoPass
  BY <1>1, <1>2, <1>5, EndKeeps
<1>6. CASE pass' = [p EXCEPT !.ph = "tell"]
  <2>1. /\ pass' \in Hands /\ pass'.ph = "tell" /\ pass'.seen = p.seen
        /\ pass'.have = p.have /\ pass'.missing = p.missing
    BY <1>p, <1>6 DEF Hands, Phase
  <2>2. Fit(pass')
    BY <2>1 DEF Fit
  <2>3. ReadAll'
    BY <2>1 DEF ReadAll
  <2> QED
    BY <1>1, <1>2, <2>1, <2>2, <2>3, QuietKeeps
<1>7. CASE SetKind /\ pass' = TurnOf(p, 1, "outer")
  BY <1>1, <1>2, <1>3, <1>7, TurnKeeps
<1>8. CASE ~SetKind /\ pass' = [p EXCEPT !.ph = "outer", !.at = 1]
  <2>1. /\ pass' \in Hands /\ pass'.ph = "outer" /\ pass'.seen = p.seen
        /\ pass'.have = p.have /\ pass'.missing = p.missing
    BY <1>p, <1>8 DEF Hands, Phase
  <2>2. Fit(pass')
    BY <2>1 DEF Fit
  <2>3. ~Tracked
    BY <1>8 DEF SetKind, Tracked, InPlace
  <2>4. ReadAll'
    BY <2>3 DEF ReadAll, Tracked
  <2> QED
    BY <1>1, <1>2, <1>8, <2>2, <2>3, <2>4, QuietKeeps
<1> QED
  BY <1>4, <1>5, <1>6, <1>7, <1>8

LEMMA CompareKeeps == PartsInv /\ Compare => PartsInv'
<1> SUFFICES ASSUME PartsInv, Compare PROVE PartsInv'
  OBVIOUS
<1>1. /\ pass.ph = "read" /\ pass.at > Len(Order) /\ pass \in Hands /\ Fit(pass)
      /\ faults' \in 0 .. MaxFaults /\ copies' \subseteq Node /\ tags' \subseteq Node /\ told' \subseteq Name
      /\ hist \in Hists
      /\ UNCHANGED <<kind, ptype, on, copies, off, tags, base, told, edits, faults>>
  BY PassFits DEF Compare, PartsInv, AllTyped
<1>2. Tracked /\ pass.unread = 0 => copies \ off \subseteq DOMAIN pass.have
  <2>1. \A i \in DOMAIN Order : i < pass.at
    BY <1>1, PartsAssumption, HandsFacts
  <2>2. \A n \in Node : \E i \in DOMAIN Order : Order[i] = n
    BY PartsAssumption
  <2>3. copies \subseteq Node
    BY DEF PartsInv, AllTyped
  <2> QED
    BY <1>1, <2>1, <2>2, <2>3 DEF PartsInv, ReadAll
<1>3. CASE Compared(pass)
  BY <1>1, <1>2, <1>3, ComparedKeeps
<1>4. CASE pass.missing # {} /\ pass' = [pass EXCEPT !.ph = "orgs"] /\ UNCHANGED hist
  <2>1. /\ pass' \in Hands /\ pass'.ph = "orgs" /\ pass'.seen = pass.seen
        /\ pass'.have = pass.have /\ pass'.missing = pass.missing
    BY <1>1, <1>4 DEF Hands, Phase
  <2>2. Fit(pass')
    BY <1>1, <2>1 DEF Fit
  <2>3. ~Tracked
    BY <1>4 DEF PartsInv, Phases
  <2>4. ReadAll'
    BY <1>1, <2>3 DEF ReadAll, Tracked
  <2> QED
    BY <1>1, <1>4, <2>1, <2>2, <2>3, <2>4, QuietKeeps
<1> QED
  BY <1>3, <1>4 DEF Compare

LEMMA CreateKeeps == ASSUME NEW n \in Node, PartsInv, CreateOrg(n) PROVE PartsInv'
<1>p. pass \in Hands /\ Fit(pass)
  BY PassFits DEF PartsInv, AllTyped
<1>1. /\ copies \subseteq Node /\ tags \subseteq Node /\ told \subseteq Name /\ faults \in 0 .. MaxFaults
      /\ hist \in Hists /\ on[n] \in SUBSET Member /\ Sound(kind, FieldNames, on[n])
  BY DEF PartsInv, AllTyped, AllSound
<1>2. /\ pass.ph = "orgs" /\ UNCHANGED <<kind, ptype, on, off, tags, base, told, edits>>
      /\ copies' \subseteq Node
  BY <1>1 DEF CreateOrg
<1>3. faults' \in 0 .. MaxFaults
  BY <1>1, PartsAssumption DEF CreateOrg
<1>4. ~Tracked
  BY <1>2 DEF PartsInv, Phases
<1>5. ASSUME NEW p, p \in Hands, p.ph = "orgs", Rest(p),
             \A o \in DOMAIN p.seen : Sound(kind, FieldNames, p.seen[o])
      PROVE  PartsInv'
  <2>1. Fit(p)
    BY <1>4, <1>5 DEF Fit
  <2>2. CASE Compared(p)
    BY <1>2, <1>3, <1>4, <1>5, <2>1, <2>2, ComparedKeeps
  <2>3. CASE pass' = p /\ UNCHANGED hist
    <3>1. pass'.ph = "orgs" /\ Fit(pass')
      BY <1>4, <1>5, <2>3 DEF Fit
    <3>2. ReadAll'
      BY <1>2, <1>4 DEF ReadAll, Tracked
    <3> QED
      BY <1>1, <1>2, <1>3, <1>4, <2>3, <3>1, <3>2, QuietKeeps
  <2> QED
    BY <1>5, <2>2, <2>3 DEF Rest
<1> DEFINE seen == With(pass.seen, n, on[n])
           have == With(pass.have, n, on[n])
           here == With(pass.here, n, {})
           missing == pass.missing \ {n}
<1>6. /\ seen \in Snap /\ DOMAIN seen = DOMAIN pass.seen \cup {n}
      /\ seen[n] = on[n] /\ \A o \in DOMAIN pass.seen : o # n => seen[o] = pass.seen[o]
  BY <1>p, <1>1, HandsFacts, SnapWith
<1>7. have \in Snap /\ here \in Names /\ missing \in NodeSets
  BY <1>p, <1>1, HandsFacts, SnapWith, NamesWith DEF NodeSets
<1>8. CASE Rest([pass EXCEPT !.missing = missing, !.seen = seen, !.have = have, !.here = here])
  <2> HIDE DEF seen, have, here, missing
  <2>1. PICK p : p = [pass EXCEPT !.missing = missing, !.seen = seen, !.have = have, !.here = here]
    OBVIOUS
  <2>2. p \in Hands /\ p.ph = "orgs" /\ p.seen = seen
    BY <1>p, <1>2, <1>6, <1>7, <2>1 DEF Hands
  <2>3. \A o \in DOMAIN p.seen : Sound(kind, FieldNames, p.seen[o])
    BY <1>p, <1>1, <1>6, <2>2 DEF Fit
  <2>4. Rest(p)
    BY <1>8, <2>1 DEF Rest, Compared, TurnOf, Todo, Adds, Removes, Changing, Waits
  <2> QED
    BY <1>5, <2>2, <2>3, <2>4
<1>9. CASE Rest([pass EXCEPT !.missing = missing])
  <2> HIDE DEF missing
  <2>1. PICK p : p = [pass EXCEPT !.missing = missing]
    OBVIOUS
  <2>2. p \in Hands /\ p.ph = "orgs" /\ p.seen = pass.seen
    BY <1>p, <1>2, <1>7, <2>1 DEF Hands
  <2>3. \A o \in DOMAIN p.seen : Sound(kind, FieldNames, p.seen[o])
    BY <1>p, <2>2 DEF Fit
  <2>4. Rest(p)
    BY <1>9, <2>1 DEF Rest, Compared, TurnOf, Todo, Adds, Removes, Changing, Waits
  <2> QED
    BY <1>5, <2>2, <2>3, <2>4
<1> QED
  BY <1>8, <1>9 DEF CreateOrg

\* The turns of a pass, and its end.
LEMMA TurnsKeep == PartsInv /\ (NextTurn \/ TopicsWritten \/ NoField) => PartsInv'
<1> SUFFICES ASSUME PartsInv, NextTurn \/ TopicsWritten \/ NoField PROVE PartsInv'
  OBVIOUS
<1>p. pass \in Hands /\ Fit(pass)
  BY PassFits DEF PartsInv, AllTyped
<1>1. /\ copies' \subseteq Node /\ tags' \subseteq Node /\ told' \subseteq Name /\ faults' \in 0 .. MaxFaults
      /\ hist' \in Hists /\ hist'.been = hist.been
      /\ UNCHANGED <<kind, ptype, on, copies, off, tags, base, told, edits, faults, hist>>
  BY DEF PartsInv, AllTyped, NextTurn, TopicsWritten, NoField
<1>2. CASE NextTurn
  <2>1. /\ SetKind /\ pass.ph \in {"outer", "inner"} /\ pass.at \in DOMAIN Order
        /\ pass.ph = "inner" => kind \in Nested
        /\ Tracked /\ pass.unread = 0 => copies \ off \subseteq DOMAIN pass.have
    BY <1>2 DEF NextTurn, PartsInv, CallsMeant, ReadAll
  <2>2. Len(Order) \in Nat /\ DOMAIN Order = 1 .. Len(Order) /\ 1 \in DOMAIN Order
    BY PartsAssumption
  <2>3. CASE pass.at < Len(Order)
    <3>1. pass.at + 1 \in DOMAIN Order
      BY <2>1, <2>2, <2>3
    <3>2. pass' = TurnOf(pass, pass.at + 1, pass.ph)
      BY <1>2, <2>3 DEF NextTurn
    <3> QED
      BY <1>p, <1>1, <2>1, <3>1, <3>2, TurnKeeps
  <2>4. CASE pass.at = Len(Order) /\ pass.ph = "outer" /\ kind \in Nested
    <3>1. pass' = TurnOf(pass, 1, "inner")
      BY <1>2, <2>2, <2>4 DEF NextTurn
    <3> QED
      BY <1>p, <1>1, <2>1, <2>2, <2>4, <3>1, TurnKeeps
  <2>5. CASE pass.at >= Len(Order) /\ ~(pass.ph = "outer" /\ kind \in Nested)
    <3>1. pass' = [pass EXCEPT !.ph = "save"]
      BY <1>2, <2>1, <2>2, <2>5 DEF NextTurn
    <3>2. /\ pass' \in Hands /\ pass'.ph = "save" /\ pass'.seen = pass.seen /\ pass'.unread = pass.unread
          /\ pass'.have = pass.have /\ pass'.missing = pass.missing
      BY <1>p, <3>1 DEF Hands, Phase
    <3>3. Fit(pass')
      BY <1>p, <3>2 DEF Fit
    <3>4. ReadAll'
      BY <1>1, <2>1, <3>2 DEF ReadAll, Tracked
    <3> QED
      BY <1>1, <3>2, <3>3, <3>4, QuietKeeps
  <2> QED
    BY <2>1, <2>2, <2>3, <2>4, <2>5
<1>3. CASE TopicsWritten
  <2>1. pass' = [pass EXCEPT !.ph = "save"] /\ ~Tracked
    BY <1>3 DEF TopicsWritten, Tracked, InPlace
  <2>2. /\ pass' \in Hands /\ pass'.ph = "save" /\ pass'.seen = pass.seen
    BY <1>p, <2>1 DEF Hands, Phase
  <2>3. Fit(pass')
    BY <1>p, <2>1, <2>2 DEF Fit
  <2>4. ReadAll'
    BY <1>1, <2>1 DEF ReadAll, Tracked
  <2> QED
    BY <1>1, <2>2, <2>3, <2>4, QuietKeeps
<1>4. CASE NoField
  <2>1. pass.at + 1 \in Nat /\ pass.ph = "outer" /\ ~Tracked /\ ~SetKind
    BY <1>p, <1>4, HandsFacts DEF NoField, Tracked, InPlace, SetKind
  <2>2. pass' = [pass EXCEPT !.at = pass.at + 1]
    BY <1>4 DEF NoField
  <2>3. /\ pass' \in Hands /\ pass'.ph = "outer" /\ pass'.seen = pass.seen
    BY <1>p, <2>1, <2>2 DEF Hands
  <2>4. Fit(pass')
    BY <1>p, <2>1, <2>3 DEF Fit
  <2>5. ReadAll'
    BY <1>1, <2>1 DEF ReadAll, Tracked
  <2> QED
    BY <1>1, <2>1, <2>3, <2>4, <2>5, QuietKeeps
<1> QED
  BY <1>2, <1>3, <1>4

LEMMA EndsKeep == PartsInv /\ (Tell \/ CutOff \/ TagArrives \/ EndGuard \/ BeginGuard) => PartsInv'
<1> SUFFICES ASSUME PartsInv, Tell \/ CutOff \/ TagArrives \/ EndGuard \/ BeginGuard PROVE PartsInv'
  OBVIOUS
<1>p. pass \in Hands /\ Fit(pass)
  BY PassFits DEF PartsInv, AllTyped
<1>1. /\ copies' \subseteq Node /\ tags' \subseteq Node /\ faults' \in 0 .. MaxFaults
      /\ hist' \in Hists /\ hist'.been = hist.been
      /\ UNCHANGED <<kind, ptype, on, copies, off, base, edits, hist>>
  BY PartsAssumption DEF PartsInv, AllTyped, Tell, CutOff, TagArrives, EndGuard, BeginGuard
<1>2. CASE Tell
  <2>1. \A n \in DOMAIN pass.seen : \A m \in pass.seen[n] : NameOf(m) \in Name
    BY <1>p, HandsFacts, SnapFacts, MemberFacts
  <2>2. pass.found \in SUBSET Name /\ Waits(pass) \subseteq Name
    BY <1>p, HandsFacts, ClashNames DEF Waits, NameSets
  <2>3. Reported \subseteq Name
    BY <2>1, <2>2 DEF Reported, AddTo
  <2> QED
    BY <1>1, <1>2, <2>3, EndKeeps DEF Tell
<1>3. CASE CutOff \/ EndGuard
  <2>1. told' \subseteq Name /\ pass' = NoPass
    BY <1>3 DEF CutOff, EndGuard, PartsInv, AllTyped
  <2> QED
    BY <1>1, <2>1, EndKeeps
<1>4. CASE TagArrives
  <2>1. pass' = pass /\ told' \subseteq Name
    BY <1>4 DEF TagArrives, PartsInv, AllTyped
  <2>2. CallsMeant'
    BY <1>1, <2>1 DEF PartsInv, CallsMeant, SetKind, Adds, Removes, Waits, N
  <2>3. Phases' /\ ReadAll'
    BY <1>1, <2>1 DEF PartsInv, Phases, ReadAll, Tracked
  <2> QED
    BY <1>p, <1>1, <2>1, <2>2, <2>3, PassKeeps DEF Fit
<1>5. CASE BeginGuard
  <2>1. pass' = [NoPass EXCEPT !.ph = "guard", !.at = 1] /\ ~Tracked /\ ~SetKind
    BY <1>5 DEF BeginGuard, Tracked, InPlace, SetKind
  <2>2. pass' \in Hands /\ pass'.ph = "guard" /\ pass'.at = 1 /\ pass'.seen = NoPass.seen
    BY <2>1, IdleTyped DEF Hands, Phase
  <2>3. Fit(pass')
    BY <1>5, <2>1, <2>2, NoPassFits DEF Fit, BeginGuard
  <2>4. ReadAll' /\ told' \subseteq Name
    BY <1>1, <1>5, <2>1 DEF ReadAll, Tracked, BeginGuard, PartsInv, AllTyped
  <2> QED
    BY <1>1, <2>1, <2>2, <2>3, <2>4, QuietKeeps
<1> QED
  BY <1>2, <1>3, <1>4, <1>5

-----------------------------------------------------------------------------
(* The pass, where it writes.                                              *)

LEMMA WriteKeeps ==
  ASSUME PartsInv, UNCHANGED <<kind, ptype, copies, off, tags, base, told>>,
         edits' \in 0 .. MaxEdits, faults' \in 0 .. MaxFaults,
         on' \in [Node -> SUBSET Member], \A n \in Node : Sound(kind, FieldNames, on'[n]),
         hist' \in Hists, \A n \in Node : hist.been[n] \subseteq hist'.been[n],
         Tracked => \A n \in Node : on'[n] \subseteq hist'.been[n],
         pass' \in Hands, pass'.ph \in {"read", "guard"} => pass'.at > 0,
         pass'.ph \in {"guard", "guarding", "lifted"} => kind = "guard",
         \A n \in DOMAIN pass'.seen : Sound(kind, FieldNames, pass'.seen[n]),
         Tracked => /\ \A n \in DOMAIN pass'.seen : pass'.seen[n] \subseteq hist'.been[n]
                    /\ \A n \in DOMAIN pass'.have : pass'.have[n] \subseteq hist'.been[n],
         CallsMeant', Phases', ReadAll'
  PROVE  PartsInv'
<1>1. AllTyped'
  BY DEF PartsInv, AllTyped
<1>2. AllSound'
  BY DEF PartsInv, AllSound, FieldNames
<1>3. HasHad'
  BY DEF HasHad, Tracked
<1>4. BaseWasEverywhere'
  <2>1. copies \subseteq Node
    BY DEF PartsInv, AllTyped
  <2> QED
    BY <2>1 DEF PartsInv, BaseWasEverywhere
<1> QED
  BY <1>1, <1>2, <1>3, <1>4 DEF PartsInv

\* Kinds whose writing is not by calls on members, and which are not tracked.
LEMMA OtherKeeps ==
  ASSUME PartsInv, UNCHANGED <<kind, ptype, copies, off, tags, base, told>>, ~Tracked,
         edits' \in 0 .. MaxEdits, faults' \in 0 .. MaxFaults,
         NEW n \in Node, NEW S, Sound(kind, FieldNames, S),
         on' = on \/ on' = [on EXCEPT ![n] = S],
         hist' = hist \/ hist' = [hist EXCEPT !.been[n] = @ \cup S],
         pass' \in Hands, pass'.ph \in {"read", "guard"} => pass'.at > 0,
         pass'.ph \in {"guard", "guarding", "lifted"} => kind = "guard",
         \A o \in DOMAIN pass'.seen : Sound(kind, FieldNames, pass'.seen[o]), 
         SetKind => pass'.ph \notin {"outer", "inner"}
  PROVE  PartsInv'
<1>1. on \in [Node -> SUBSET Member] /\ hist \in Hists /\ S \in SUBSET Member
  BY DEF PartsInv, AllTyped, Sound
<1>2. on' \in [Node -> SUBSET Member] /\ \A o \in Node : Sound(kind, FieldNames, on'[o])
  BY <1>1 DEF PartsInv, AllSound
<1>3. hist' \in Hists /\ \A o \in Node : hist.been[o] \subseteq hist'.been[o]
  BY <1>1 DEF Hists
<1>4. CallsMeant' /\ Phases' /\ ReadAll'
  BY DEF CallsMeant, Phases, ReadAll, Tracked, SetKind
<1> QED
  BY <1>2, <1>3, <1>4, WriteKeeps

LEMMA GuardKeeps ==
  ASSUME PartsInv, GuardRead \/ GuardWrite \/ PutGuardBack
         \/ \E n \in Node : LiftGuard(n) \/ ReassertGuard(n)
  PROVE  PartsInv'
<1>p. pass \in Hands /\ Fit(pass)
  BY PassFits DEF PartsInv, AllTyped
<1>1. /\ edits \in 0 .. MaxEdits /\ faults \in 0 .. MaxFaults /\ on \in [Node -> SUBSET Member]
      /\ \A n \in Node : Sound(kind, FieldNames, on[n])
      /\ tags \subseteq Node /\ told \subseteq Name /\ copies \subseteq Node /\ hist \in Hists
  BY DEF PartsInv, AllTyped, AllSound
<1>2. \A k : k = "guard" => k \notin InPlace \cup {"packages", "fields"}
  BY DEF InPlace
<1>3. CASE GuardRead
  <2>1. pass.ph = "guard" /\ kind = "guard" /\ ~Tracked /\ pass.at \in Nat /\ pass.at > 0 /\ pass.at <= Len(Order)
    BY <1>p, <1>2, <1>3, HandsFacts DEF GuardRead, PartsInv, AllTyped, Tracked
  <2>2. N \in Node
    BY <2>1, PartsAssumption DEF N
  <2>3. With(<< >>, N, on[N]) \in Snap /\ DOMAIN With(<< >>, N, on[N]) = {N} /\ With(<< >>, N, on[N])[N] = on[N]
    <3>1. PICK e \in Snap : e = << >> /\ DOMAIN e = {}
      BY NothingRead
    <3>5. on[N] \in SUBSET Member
      BY <1>1, <2>2
    <3>2. With(e, N, on[N]) \in Snap /\ DOMAIN With(e, N, on[N]) = DOMAIN e \cup {N} /\ With(e, N, on[N])[N] = on[N]
      BY <2>2, <3>5, SnapWith
    <3> QED
      BY <3>1, <3>2
  <2> DEFINE seen == With(<< >>, N, on[N])
  <2> HIDE DEF seen
  <2>4. faults' \in 0 .. MaxFaults /\ UNCHANGED <<kind, ptype, on, copies, off, tags, base, told, edits, hist>>
    BY <1>1, <1>3, PartsAssumption DEF GuardRead
  <2>5. CASE pass' = [pass EXCEPT !.ph = "guarding", !.seen = seen]
    <3>1. pass' \in Hands /\ pass'.ph = "guarding" /\ pass'.seen = seen
      BY <1>p, <2>3, <2>5 DEF Hands, Phase, seen
    <3>2. Fit(pass') /\ ReadAll' /\ ~SetKind
      BY <1>1, <2>1, <2>2, <2>3, <2>4, <3>1 DEF Fit, ReadAll, Tracked, SetKind, seen
    <3> QED
      BY <1>1, <2>1, <2>4, <3>1, <3>2, QuietKeeps
  <2>6. CASE pass' = [pass EXCEPT !.at = pass.at + 1]
    <3>1. pass' \in Hands /\ pass'.ph = "guard" /\ pass'.at = pass.at + 1 /\ pass'.seen = pass.seen
      BY <1>p, <2>1, <2>6 DEF Hands
    <3>2. Fit(pass') /\ ReadAll' /\ ~SetKind
      BY <1>p, <2>1, <2>4, <3>1 DEF Fit, ReadAll, Tracked, SetKind
    <3> QED
      BY <1>1, <2>1, <2>4, <3>1, <3>2, QuietKeeps
  <2> QED
    BY <1>3, <2>5, <2>6 DEF GuardRead, seen
<1>4. CASE GuardWrite
  <2>1. pass.ph = "guarding" /\ kind = "guard" /\ ~Tracked /\ ~SetKind /\ pass.at \in Nat
    BY <1>p, <1>2, <1>4, HandsFacts DEF GuardWrite, PartsInv, AllTyped, Tracked, SetKind
  <2>2. /\ UNCHANGED <<kind, ptype, copies, off, tags, base, told, edits, hist>>
        /\ on' = on \/ on' = [on EXCEPT ![N] = GuardWants(N)]
        /\ pass' = [pass EXCEPT !.ph = "guard", !.at = pass.at + 1]
    BY <1>4 DEF GuardWrite
  <2>3. pass' \in Hands /\ pass'.ph = "guard" /\ pass'.at = pass.at + 1 /\ pass'.seen = pass.seen
    <3>1. pass.at + 1 \in Nat /\ "guard" \in Phase
      BY <2>1 DEF Phase
    <3>2. pass' = [pass EXCEPT !.ph = "guard", !.at = pass.at + 1]
      BY <2>2
    <3> QED
      BY <1>p, <3>1, <3>2 DEF Hands
  <2>4. faults' \in 0 .. MaxFaults
    BY <1>1, <1>4, PartsAssumption DEF GuardWrite
  <2>5. \E n \in Node, S \in {{}, GuardFull} : on' = on \/ on' = [on EXCEPT ![n] = S]
    <3>1. CASE N \in Node
      BY <2>2, <3>1 DEF GuardWants
    <3>2. CASE N \notin Node
      BY <1>1, <2>2, <3>2, PartsAssumption
    <3> QED
      BY <3>1, <3>2
  <2>6. PICK n \in Node, S \in {{}, GuardFull} : on' = on \/ on' = [on EXCEPT ![n] = S]
    BY <2>5
  <2>7. Sound(kind, FieldNames, S)
    BY <2>1, <2>6, GuardSound
  <2> QED
    BY <1>p, <1>1, <2>1, <2>2, <2>3, <2>4, <2>6, <2>7, OtherKeeps DEF Fit
<1>5. CASE PutGuardBack
  <2>1. kind = "guard" /\ ~Tracked /\ ~SetKind /\ pass.missing \subseteq Node
    BY <1>p, <1>2, <1>5, HandsFacts DEF PutGuardBack, PartsInv, AllTyped, Tracked, SetKind, NodeSets
  <2>2. /\ UNCHANGED <<kind, ptype, copies, off, tags, base, told, edits, hist>> /\ pass' = NoPass
        /\ faults' \in 0 .. MaxFaults
    BY <1>1, <1>5, PartsAssumption DEF PutGuardBack
  <2>3. PICK n \in Node : on' = on \/ on' = [on EXCEPT ![n] = IF @ = {} THEN GuardFull ELSE @]
    BY <1>5, <2>1 DEF PutGuardBack
  <2>4. PICK S : S = IF on[n] = {} THEN GuardFull ELSE on[n]
    OBVIOUS
  <2>5. Sound(kind, FieldNames, S) /\ (on' = on \/ on' = [on EXCEPT ![n] = S])
    BY <1>1, <2>1, <2>3, <2>4, GuardSound
  <2>6. pass' \in Hands /\ pass'.ph = "idle" /\ \A o \in DOMAIN pass'.seen : Sound(kind, FieldNames, pass'.seen[o])
    BY <2>2, NoPassFits DEF Fit
  <2> QED
    BY <1>1, <2>1, <2>2, <2>5, <2>6, OtherKeeps
<1>6. ASSUME NEW n \in Node, LiftGuard(n) PROVE PartsInv'
  <2>1. /\ kind = "guard" /\ ~Tracked /\ ~SetKind /\ on' = [on EXCEPT ![n] = {}] /\ edits' \in 0 .. MaxEdits
        /\ UNCHANGED <<kind, ptype, copies, off, tags, base, told, faults, hist>>
        /\ pass' = [NoPass EXCEPT !.ph = "lifted", !.missing = {n}]
    <3>1. edits' \in 0 .. MaxEdits
      <4>1. edits > 0 /\ edits' = edits - 1 /\ MaxEdits \in Nat
        BY <1>6, PartsAssumption DEF LiftGuard
      <4> QED
        BY <1>1, <4>1
    <3> QED
      BY <1>2, <1>6, <3>1 DEF LiftGuard, Tracked, SetKind
  <2>2. {n} \in NodeSets
    BY DEF NodeSets
  <2>3. pass' \in Hands /\ pass'.ph = "lifted" /\ pass'.seen = NoPass.seen
    BY <2>1, <2>2, IdleTyped DEF Hands, Phase
  <2>4. Sound(kind, FieldNames, {}) /\ \A o \in DOMAIN pass'.seen : Sound(kind, FieldNames, pass'.seen[o])
    BY <2>1, <2>3, GuardSound, NoPassFits DEF Fit
  <2> QED
    BY <1>1, <2>1, <2>3, <2>4, OtherKeeps
<1>7. ASSUME NEW n \in Node, ReassertGuard(n) PROVE PartsInv'
  <2>1. /\ kind = "guard" /\ ~Tracked /\ ~SetKind /\ on' = [on EXCEPT ![n] = GuardFull]
        /\ UNCHANGED <<kind, ptype, copies, off, tags, base, told, pass, edits, faults, hist>>
    BY <1>2, <1>7 DEF ReassertGuard, Tracked, SetKind
  <2>2. Sound(kind, FieldNames, GuardFull)
    BY <2>1, GuardSound
  <2> QED
    BY <1>p, <1>1, <2>1, <2>2, OtherKeeps DEF Fit
<1> QED
  BY <1>3, <1>4, <1>5, <1>6, <1>7

LEMMA PlainSound ==
  ASSUME NEW k \in Plain, NEW F, NEW S, S \subseteq Member, \A m \in S : m[2] = Right
  PROVE  Sound(k, F, S)
<1>1. k # "variables" /\ k # "fields"
  BY DEF Plain
<1>2. OneValue(S)
  BY MemberFacts DEF OneValue, NameOf
<1> QED
  BY <1>1, <1>2 DEF Sound

LEMMA PlainKeep == PartsInv /\ (SetTopics \/ FollowPrivate) => PartsInv'
<1> SUFFICES ASSUME PartsInv, SetTopics \/ FollowPrivate PROVE PartsInv'
  OBVIOUS
<1>p. pass \in Hands /\ Fit(pass)
  BY PassFits DEF PartsInv, AllTyped
<1>1. /\ edits \in 0 .. MaxEdits /\ faults \in 0 .. MaxFaults /\ on \in [Node -> SUBSET Member]
      /\ \A n \in Node : Sound(kind, FieldNames, on[n])
      /\ tags \subseteq Node /\ told \subseteq Name /\ copies \subseteq Node /\ hist \in Hists
  BY DEF PartsInv, AllTyped, AllSound
<1>2. /\ pass.seen \in Snap /\ pass.have \in Snap /\ pass.at \in Nat /\ pass.at + 1 \in Nat
      /\ DOMAIN pass.seen \subseteq Node /\ \A n \in DOMAIN pass.seen : pass.seen[n] \subseteq Member
  BY <1>p, HandsFacts, SnapFacts
<1>3. PICK o \in Node : TRUE
  BY PartsAssumption
<1>4. CASE SetTopics
  <2>1. /\ pass.ph = "outer" /\ kind = "topics" /\ kind \in Plain /\ ~Tracked /\ ~SetKind
        /\ UNCHANGED <<kind, ptype, copies, off, tags, base, told, edits>>
    BY <1>4 DEF SetTopics, Plain, Tracked, InPlace, SetKind
  <2>2. faults' \in 0 .. MaxFaults
    BY <1>1, <1>4, PartsAssumption DEF SetTopics
  <2>3. \A n \in DOMAIN pass.seen : \A m \in pass.seen[n] : m[2] = Right
    BY <1>p, <2>1 DEF Fit, Sound
  <2>4. ASSUME NEW n \in DOMAIN pass.seen
        PROVE  Wanted(n) \in SUBSET Member /\ Sound(kind, FieldNames, Wanted(n))
    <3>1. \A m \in Wanted(n) : \E i \in DOMAIN pass.seen : m \in pass.seen[i]
      BY <2>4 DEF Wanted, Adds, AddTo
    <3> QED
      BY <1>2, <2>1, <2>3, <3>1, PlainSound
  <2>5. ASSUME NEW S \in SUBSET Member, NEW n, pass' = [pass EXCEPT !.at = @ + 1, !.have[n] = S]
        PROVE  pass' \in Hands /\ pass'.ph = "outer" /\ pass'.seen = pass.seen
    <3>1. [pass.have EXCEPT ![n] = S] \in Snap
      BY <1>2, <2>5, SnapExcept
    <3>2. pass' = [pass EXCEPT !.at = pass.at + 1, !.have = [pass.have EXCEPT ![n] = S]]
      BY <2>5
    <3> QED
      BY <1>p, <1>2, <2>1, <3>1, <3>2 DEF Hands
  <2>6. CASE pass' = [pass EXCEPT !.at = pass.at + 1] /\ UNCHANGED <<on, hist>>
    <3>1. pass' \in Hands /\ pass'.ph = "outer" /\ pass'.seen = pass.seen
      BY <1>p, <1>2, <2>1, <2>6 DEF Hands
    <3> QED
      BY <1>p, <1>1, <1>3, <2>1, <2>2, <2>6, <3>1, OtherKeeps DEF Fit
  <2>7. ASSUME N \in DOMAIN pass.seen, NEW S \in SUBSET Member, pass' = [pass EXCEPT !.at = @ + 1, !.have[N] = S],
               \/ UNCHANGED <<on, hist>>
               \/ on' = [on EXCEPT ![N] = Wanted(N)] /\ hist' = Been(Wanted(N))
        PROVE  PartsInv'
    <3>1. pass' \in Hands /\ pass'.ph = "outer" /\ pass'.seen = pass.seen
      BY <2>5, <2>7
    <3>2. N \in Node /\ Sound(kind, FieldNames, Wanted(N))
      BY <1>2, <2>4, <2>7
    <3>3. PICK n \in Node : n = N
      BY <3>2
    <3>5. PICK S1 : S1 = Wanted(N)
      OBVIOUS
    <3>4. /\ on' = on \/ on' = [on EXCEPT ![n] = S1]
          /\ hist' = hist \/ hist' = [hist EXCEPT !.been[n] = @ \cup S1]
      BY <2>7, <3>3, <3>5 DEF Been
    <3> QED
      BY <1>p, <1>1, <2>1, <2>2, <3>1, <3>2, <3>5, <3>4, OtherKeeps DEF Fit
  <2>8. N \in DOMAIN pass.seen => Wanted(N) \in SUBSET Member /\ on[N] \in SUBSET Member
    BY <1>1, <1>2, <2>4
  <2> QED
    BY <1>4, <2>6, <2>7, <2>8 DEF SetTopics
<1>5. CASE FollowPrivate
  <2>1. /\ pass.ph = "outer" /\ kind = "private" /\ kind \in Plain /\ ~Tracked /\ ~SetKind
        /\ UNCHANGED <<kind, ptype, copies, off, tags, base, told, edits, hist>>
    BY <1>5 DEF FollowPrivate, Plain, Tracked, InPlace, SetKind
  <2>2. faults' \in 0 .. MaxFaults
    BY <1>1, <1>5, PartsAssumption DEF FollowPrivate
  <2>3. PICK S : S = UNION {pass.seen[n] : n \in DOMAIN pass.seen}
    OBVIOUS
  <2>4. Sound(kind, FieldNames, S)
    <3>1. \A n \in DOMAIN pass.seen : \A m \in pass.seen[n] : m[2] = Right
      BY <1>p, <2>1 DEF Fit, Sound
    <3> QED
      BY <1>2, <2>1, <2>3, <3>1, PlainSound
  <2>5. PICK n \in Node : on' = on \/ on' = [on EXCEPT ![n] = S]
    BY <1>2, <1>3, <1>5, <2>3 DEF FollowPrivate
  <2>6. pass' \in Hands /\ pass'.ph \in {"idle", "outer"} /\ (pass'.seen = pass.seen \/ pass' = NoPass)
    <3>1. CASE pass' = NoPass
      BY <3>1, NoPassFits DEF Fit
    <3>2. CASE pass' = [pass EXCEPT !.at = pass.at + 1]
      BY <1>p, <1>2, <2>1, <3>2 DEF Hands
    <3> QED
      BY <1>5, <3>1, <3>2 DEF FollowPrivate
  <2>7. \A i \in DOMAIN pass'.seen : Sound(kind, FieldNames, pass'.seen[i])
    BY <1>p, <2>6, NoPassFits DEF Fit
  <2> QED
    BY <1>1, <2>1, <2>2, <2>4, <2>5, <2>6, <2>7, OtherKeeps
<1> QED
  BY <1>4, <1>5

LEMMA ValueFacts ==
  ASSUME NEW S, NEW x, HasName(S, x)
  PROVE  ValueOf(S, x) \in Val
<1>1. PICK m \in S : NameOf(m) = x /\ Outer(m)
  BY DEF HasName
<1>2. (CHOOSE k \in S : NameOf(k) = x /\ Outer(k)) \in {k \in S : NameOf(k) = x /\ Outer(k)}
  BY <1>1
<1> QED
  BY <1>2 DEF ValueOf, Outer

LEMMA FieldValueFacts ==
  ASSUME NEW vals, NEW b \in Val, \A n \in DOMAIN vals : vals[n] \in Val
  PROVE  FieldValue(vals, b) \in Val
<1> DEFINE changed == FieldChanges(vals, b)
<1>1. changed \subseteq Val
  BY DEF FieldChanges
<1>2. CASE Cardinality(changed) = 1
  <2>1. changed # {}
    BY <1>2, FS_EmptySet
  <2>2. (CHOOSE v \in changed : TRUE) \in changed
    BY <2>1
  <2> QED
    BY <1>1, <1>2, <2>2 DEF FieldValue
<1>3. CASE Cardinality(changed) # 1
  BY <1>3 DEF FieldValue
<1> QED
  BY <1>2, <1>3

LEMMA FieldFacts ==
  ASSUME PartsInv, kind = "fields", NEW x \in FieldNames
  PROVE  x \in Name /\ ValueOf(base, x) \in Val /\ FieldValue(Vals(x), ValueOf(base, x)) \in Val
<1>1. x \in Name /\ HasName(base, x)
  BY DEF FieldNames
<1>2. \A n \in DOMAIN pass.seen : HasName(pass.seen[n], x)
  BY DEF PartsInv, AllSound, Sound
<1>3. ValueOf(base, x) \in Val /\ \A n \in DOMAIN Vals(x) : Vals(x)[n] \in Val
  BY <1>1, <1>2, ValueFacts DEF Vals
<1> QED
  BY <1>1, <1>3, FieldValueFacts

LEMMA FieldsKeep == PartsInv /\ (SaveFields \/ \E x \in Name : WriteField(x)) => PartsInv'
<1> SUFFICES ASSUME PartsInv, SaveFields \/ \E x \in Name : WriteField(x) PROVE PartsInv'
  OBVIOUS
<1>p. pass \in Hands /\ Fit(pass)
  BY PassFits DEF PartsInv, AllTyped
<1>1. /\ edits \in 0 .. MaxEdits /\ faults \in 0 .. MaxFaults /\ on \in [Node -> SUBSET Member]
      /\ \A n \in Node : Sound(kind, FieldNames, on[n])
      /\ tags \subseteq Node /\ told \subseteq Name /\ copies \subseteq Node /\ hist \in Hists
  BY DEF PartsInv, AllTyped, AllSound
<1>2. /\ pass.seen \in Snap /\ pass.at \in Nat /\ pass.at + 1 \in Nat /\ DOMAIN pass.seen \subseteq Node
  BY <1>p, HandsFacts, SnapFacts
<1>3. ASSUME NEW x \in Name, WriteField(x) PROVE PartsInv'
  <2>1. /\ pass.ph = "outer" /\ kind = "fields" /\ ~Tracked /\ ~SetKind /\ N \in DOMAIN pass.seen /\ x \in FieldDue(N)
        /\ UNCHANGED <<kind, ptype, copies, off, tags, base, told, edits>>
        /\ pass' = [pass EXCEPT !.at = pass.at + 1]
    BY <1>3 DEF WriteField, Tracked, InPlace, SetKind
  <2>2. faults' \in 0 .. MaxFaults
    BY <1>1, <1>3, PartsAssumption DEF WriteField
  <2>3. PICK n \in Node : n = N
    BY <1>2, <2>1
  <2>4. PICK m : m = <<x, FieldValue(Vals(x), ValueOf(base, x))>>
    OBVIOUS
  <2>5. m \in Member /\ Outer(m)
    <3>1. x \in FieldNames
      BY <2>1 DEF FieldDue
    <3> QED
      BY <2>1, <2>4, <3>1, FieldFacts DEF Member, Outer
  <2>6. PICK S : S = Put(on[n], m)
    OBVIOUS
  <2>7. Sound(kind, FieldNames, S)
    <3>1. kind \notin Plain
      BY <2>1 DEF Plain
    <3> QED
      BY <1>1, <2>5, <2>6, <3>1, PutSound
  <2>8. /\ on' = on \/ on' = [on EXCEPT ![n] = S]
        /\ hist' = hist \/ hist' = [hist EXCEPT !.been[n] = @ \cup S]
    BY <1>3, <2>3, <2>4, <2>6 DEF WriteField, Been
  <2>9. pass' \in Hands /\ pass'.ph = "outer" /\ pass'.seen = pass.seen
    BY <1>p, <1>2, <2>1 DEF Hands
  <2> QED
    BY <1>p, <1>1, <2>1, <2>2, <2>7, <2>8, <2>9, OtherKeeps DEF Fit
<1>4. CASE SaveFields
  <2> DEFINE value(x) == IF Conflicting(x) THEN ValueOf(base, x) ELSE FieldValue(Vals(x), ValueOf(base, x))
             found == {x \in FieldNames : Conflicting(x)}
  <2>1. /\ pass.ph = "outer" /\ kind = "fields" /\ ~Tracked /\ ~SetKind
        /\ UNCHANGED <<kind, ptype, on, copies, off, tags, told, edits, faults, hist>>
        /\ base' = {<<x, value(x)>> : x \in FieldNames}
        /\ pass' = [pass EXCEPT !.ph = "tell", !.found = found]
    BY <1>4 DEF SaveFields, Tracked, InPlace, SetKind
  <2>2. \A x \in FieldNames : x \in Name /\ value(x) \in Val
    BY <2>1, FieldFacts
  <2> HIDE DEF value
  <2>3. base' \subseteq Member
    BY <2>1, <2>2 DEF Member
  <2>4. FieldNames' = FieldNames
    <3>1. ASSUME NEW x \in FieldNames PROVE HasName(base', x)
      <4>1. <<x, value(x)>> \in base'
        BY <2>1, <3>1
      <4> QED
        BY <2>2, <3>1, <4>1 DEF HasName, NameOf, Outer
    <3>2. ASSUME NEW x \in Name, HasName(base', x) PROVE x \in FieldNames
      <4>1. PICK m \in base' : NameOf(m) = x
        BY <3>2 DEF HasName
      <4>2. PICK y \in FieldNames : m = <<y, value(y)>>
        BY <2>1, <4>1
      <4> QED
        BY <4>1, <4>2 DEF NameOf
    <3> QED
      BY <3>1, <3>2, <2>2 DEF FieldNames
  <2>5. found \in NameSets
    BY DEF FieldNames, NameSets
  <2> HIDE DEF found
  <2>6. pass' \in Hands /\ pass'.ph = "tell" /\ pass'.seen = pass.seen
    BY <1>p, <2>1, <2>5 DEF Hands, Phase
  <2>7. AllTyped'
    BY <2>1, <2>3, <2>6 DEF PartsInv, AllTyped
  <2>8. AllSound'
    BY <2>1, <2>4, <2>6 DEF PartsInv, AllSound
  <2>9. CallsMeant' /\ Phases' /\ ReadAll' /\ HasHad' /\ BaseWasEverywhere'
    BY <2>1, <2>6 DEF CallsMeant, Phases, ReadAll, HasHad, BaseWasEverywhere, Tracked
  <2> QED
    BY <2>7, <2>8, <2>9 DEF PartsInv
<1> QED
  BY <1>3, <1>4

LEMMA SaveKeeps == PartsInv /\ Save => PartsInv'
<1> SUFFICES ASSUME PartsInv, Save PROVE PartsInv'
  OBVIOUS
<1>p. pass \in Hands /\ Fit(pass)
  BY PassFits DEF PartsInv, AllTyped
<1>1. /\ pass.ph = "save" /\ kind # "fields" /\ base' = SettleRead(pass.unread, pass.have, base)
      /\ pass' = [pass EXCEPT !.ph = "tell"]
      /\ UNCHANGED <<kind, ptype, on, copies, off, tags, told, edits, faults, hist>>
  BY DEF Save
<1>2. /\ pass' \in Hands /\ pass'.ph = "tell" /\ pass'.seen = pass.seen /\ pass'.have = pass.have
      /\ pass'.missing = pass.missing
  BY <1>p, <1>1 DEF Hands, Phase
<1>3. pass.unread \in Nat /\ pass.have \in Snap /\ \A n \in DOMAIN pass.have : pass.have[n] \subseteq Member
  BY <1>p, HandsFacts, SnapFacts
<1>4. \A m \in base' : \/ m \in base
                       \/ /\ pass.unread = 0 /\ DOMAIN pass.have # {}
                          /\ \A n \in DOMAIN pass.have : m \in pass.have[n]
  BY <1>1, <1>3, SettleFacts
<1>5. base' \subseteq Member
  BY <1>3, <1>4 DEF PartsInv, AllTyped
<1>6. AllTyped'
  BY <1>1, <1>2, <1>5 DEF PartsInv, AllTyped
<1>7. AllSound'
  BY <1>1, <1>2 DEF PartsInv, AllSound, Sound
<1>8. CallsMeant' /\ Phases' /\ ReadAll' /\ HasHad'
  BY <1>1, <1>2 DEF PartsInv, CallsMeant, Phases, ReadAll, HasHad, Tracked
<1>9. BaseWasEverywhere'
  <2>1. SUFFICES ASSUME Tracked, NEW m \in base', NEW n \in copies \ off
                 PROVE  m \in hist.been[n]
    BY <1>1 DEF BaseWasEverywhere, Tracked
  <2>2. CASE m \in base
    BY <2>1, <2>2 DEF PartsInv, BaseWasEverywhere, Tracked
  <2>3. CASE m \notin base
    <3>1. n \in DOMAIN pass.have /\ m \in pass.have[n]
      BY <1>1, <1>4, <2>1, <2>3 DEF PartsInv, ReadAll
    <3> QED
      BY <2>1, <3>1 DEF PartsInv, HasHad
  <2> QED
    BY <2>2, <2>3
<1> QED
  BY <1>6, <1>7, <1>8, <1>9 DEF PartsInv

\* What a call is about, while the pass is at a node.
LEMMA LeftFacts ==
  ASSUME PartsInv, SetKind, pass.ph \in {"outer", "inner"}, NEW op, NEW m, <<op, m>> \in pass.left
  PROVE  /\ N \in Node /\ m \in Member /\ op \in {"add", "remove"}
         /\ kind \in {"collaborators", "protection", "releases", "variables", "packages", "teams"}
         /\ Outer(m) \/ (Inner(m) /\ kind \in Nested)
         /\ op = "add" => m \in Adds(pass, N)
         /\ op = "remove" => m \in Removes(pass, N)
<1>1. /\ pass.at \in DOMAIN Order
      /\ pass.ph = "inner" => kind \in Nested
      /\ IF pass.ph = "outer" THEN Outer(m) ELSE Inner(m)
      /\ op = "add" => m \in Adds(pass, N)
      /\ op = "remove" => m \in Removes(pass, N)
  <2>1. PICK e : e = <<op, m>>
    OBVIOUS
  <2>2. e \in pass.left /\ e[1] = op /\ e[2] = m
    BY <2>1
  <2> QED
    BY <2>2 DEF PartsInv, CallsMeant
<1>2. N \in Node
  BY <1>1, PartsAssumption DEF N
<1>3. <<op, m>> \in Calls
  BY HandsFacts DEF PartsInv, AllTyped, CallSets
<1>4. m \in Member /\ op \in {"add", "remove"}
  BY <1>3 DEF Calls
<1>5. kind \in {"collaborators", "protection", "releases", "variables", "packages", "teams"}
  BY PartsAssumption DEF SetKind, PartsInv, AllTyped, PerRepository, PerOwner
<1> QED
  BY <1>1, <1>2, <1>4, <1>5

\* Whatever is asked leaves the node with something it may hold.
LEMMA CallSound ==
  ASSUME NEW k, k = kind, NEW F, NEW n, Sound(k, F, on[n]), NEW op \in {"add", "remove"}, NEW m \in Member,
         k \in {"collaborators", "protection", "releases", "variables", "packages", "teams"},
         Outer(m) \/ (Inner(m) /\ k \in Nested)
  PROVE  LET c == CallOf(n, op, m)
         IN  /\ Sound(k, F, c.after)
             /\ c.asked /\ c.can /\ op = "add" => m \in c.after
<1>1. k \notin Plain /\ k # "fields" /\ (Outer(m) => ~Inner(m))
  BY MemberFacts DEF Plain
<1>2. Outer(m) => Sound(k, F, Put(on[n], m)) /\ m \in Put(on[n], m)
  BY <1>1, PutSound
<1>3. k \in Nested /\ Inner(m) => Sound(k, F, on[n] \cup {m})
  BY InnerSound
<1>4. /\ Sound(k, F, Off(on[n], NameOf(m))) /\ Sound(k, F, on[n] \ {m}) /\ Sound(k, F, {})
  BY <1>1, OffLess, LessSound
<1>5. CASE k = "collaborators"
  BY <1>1, <1>2, <1>4, <1>5 DEF CallOf, CollaboratorCall, Ask, Delete, Nested
<1>6. CASE k = "protection"
  BY <1>1, <1>2, <1>4, <1>6 DEF CallOf, RuleCall, Ask, Delete, Nested
<1>7. CASE k = "variables"
  BY <1>1, <1>2, <1>4, <1>7 DEF CallOf, VariableCall, Ask, Delete, Nested
<1>8. CASE k = "packages"
  BY <1>1, <1>2, <1>4, <1>8 DEF CallOf, PackageCall, Ask, Skip, Nested
<1>9. CASE k = "releases" /\ Outer(m)
  BY <1>1, <1>2, <1>4, <1>9 DEF CallOf, ReleaseCall, Ask, Skip, Delete
<1>10. CASE k = "releases" /\ ~Outer(m)
  BY <1>1, <1>3, <1>4, <1>10 DEF CallOf, AssetCall, Ask, Skip, Delete
<1>11. CASE k = "teams" /\ Outer(m)
  BY <1>1, <1>2, <1>4, <1>11 DEF CallOf, TeamCall, Ask, Skip, Delete
<1>12. CASE k = "teams" /\ ~Outer(m)
  BY <1>1, <1>3, <1>4, <1>12 DEF CallOf, MembershipCall, Ask, Skip, Delete
<1> QED
  BY <1>5, <1>6, <1>7, <1>8, <1>9, <1>10, <1>11, <1>12

LEMMA CallKeeps == ASSUME NEW op \in {"add", "remove"}, NEW m \in Member, PartsInv, Call(op, m) PROVE PartsInv'
<1>p. pass \in Hands /\ Fit(pass)
  BY PassFits DEF PartsInv, AllTyped
<1>1. /\ edits \in 0 .. MaxEdits /\ faults \in 0 .. MaxFaults /\ on \in [Node -> SUBSET Member]
      /\ \A n \in Node : Sound(kind, FieldNames, on[n])
      /\ hist \in Hists
      /\ Tracked => \A n \in Node : on[n] \subseteq hist.been[n]
  BY DEF PartsInv, AllTyped, AllSound, HasHad
<1>2. /\ pass.ph \in {"outer", "inner"} /\ SetKind /\ <<op, m>> \in pass.left
      /\ UNCHANGED <<kind, ptype, copies, off, tags, base, told, edits>>
  BY DEF Call
<1>3. /\ N \in Node
      /\ Outer(m) \/ (Inner(m) /\ kind \in Nested)
      /\ kind \in {"collaborators", "protection", "releases", "variables", "packages", "teams"}
  BY <1>2, LeftFacts
<1>4. PICK n \in Node : n = N
  BY <1>3
<1>5. PICK c : c = CallOf(n, op, m)
  OBVIOUS
<1>6. /\ Sound(kind, FieldNames, c.after) /\ c.after \in SUBSET Member
      /\ c.asked /\ c.can /\ op = "add" => m \in c.after
  <2>1. Sound(kind, FieldNames, on[n])
    BY <1>1
  <2>2. /\ Sound(kind, FieldNames, CallOf(n, op, m).after)
        /\ CallOf(n, op, m).asked /\ CallOf(n, op, m).can /\ op = "add" => m \in CallOf(n, op, m).after
    BY <1>3, <2>1, CallSound
  <2> QED
    BY <1>5, <2>2 DEF Sound
<1> DEFINE left == pass.left \ {<<op, m>>}
           have == [pass.have EXCEPT ![n] = Believed(op, m)]
           here == [pass.here EXCEPT ![n] = NowHere(op, m)]
           found == pass.found \cup Reports(m, op, c.asked)
<1>7. left \in CallSets /\ left \subseteq pass.left
  BY <1>p, HandsFacts DEF CallSets
<1>8. NameOf(m) \in Name
  BY MemberFacts
<1>9. have \in Snap /\ DOMAIN have = DOMAIN pass.have
  <2>1. pass.have \in Snap
    BY <1>p, HandsFacts
  <2>2. n \in DOMAIN pass.have => Believed(op, m) \in SUBSET Member
    BY <1>4, <2>1, SnapFacts DEF Believed
  <2> QED
    BY <2>1, <2>2, SnapExcept
<1>10. here \in Names
  <2>1. pass.here \in Names
    BY <1>p, HandsFacts
  <2>2. n \in DOMAIN pass.here => NowHere(op, m) \in SUBSET Name
    BY <1>4, <1>8, <2>1 DEF NowHere, Names
  <2> QED
    BY <2>1, <2>2, NamesExcept
<1>11. found \in NameSets
  BY <1>p, <1>8, HandsFacts DEF NameSets, Reports
<1>12. \A o \in DOMAIN have : have[o] \subseteq pass.have[o] \/ (o = n /\ op = "add" /\ have[o] = pass.have[o] \cup {m})
  BY <1>4, <1>9 DEF Believed
<1>13. \/ /\ c.asked /\ c.can /\ on' = [on EXCEPT ![n] = c.after]
          /\ hist' = [hist EXCEPT !.been[n] = hist.been[n] \cup c.after] /\ faults' = faults
          /\ pass' = [pass EXCEPT !.left = left, !.have = have, !.here = here]
       \/ /\ \/ UNCHANGED <<on, hist>>
             \/ /\ on' = [on EXCEPT ![n] = c.after]
                /\ hist' = [hist EXCEPT !.been[n] = hist.been[n] \cup c.after]
          /\ faults' = faults \/ (faults > 0 /\ faults' = faults - 1)
          /\ pass' = [pass EXCEPT !.left = left, !.found = found]
  BY <1>4, <1>5 DEF Call, Answered, Unanswered, Been
<1>14. faults' \in 0 .. MaxFaults
  BY <1>1, <1>13, PartsAssumption
<1> HIDE DEF left, have, here, found
<1>15. /\ on' \in [Node -> SUBSET Member] /\ \A o \in Node : Sound(kind, FieldNames, on'[o])
       /\ hist' \in Hists /\ \A o \in Node : hist.been[o] \subseteq hist'.been[o]
       /\ Tracked => \A o \in Node : on'[o] \subseteq hist'.been[o]
  <2>1. CASE UNCHANGED <<on, hist>>
    BY <1>1, <2>1
  <2>2. CASE on' = [on EXCEPT ![n] = c.after] /\ hist' = [hist EXCEPT !.been[n] = hist.been[n] \cup c.after]
    <3>1. on' \in [Node -> SUBSET Member] /\ \A o \in Node : Sound(kind, FieldNames, on'[o])
      BY <1>1, <1>6, <2>2
    <3>2. hist' \in Hists /\ \A o \in Node : hist'.been[o] = IF o = n THEN hist.been[o] \cup c.after ELSE hist.been[o]
      BY <1>1, <1>6, <2>2 DEF Hists
    <3> QED
      BY <1>1, <2>2, <3>1, <3>2
  <2> QED
    BY <1>13, <2>1, <2>2
<1>16. CASE /\ c.asked /\ c.can /\ on' = [on EXCEPT ![n] = c.after]
            /\ hist' = [hist EXCEPT !.been[n] = hist.been[n] \cup c.after]
            /\ pass' = [pass EXCEPT !.left = left, !.have = have, !.here = here]
  <2>1. /\ pass' \in Hands /\ pass'.ph = pass.ph /\ pass'.at = pass.at /\ pass'.seen = pass.seen
        /\ pass'.have = have /\ pass'.left = left /\ pass'.unread = pass.unread /\ pass'.missing = pass.missing
    BY <1>p, <1>7, <1>9, <1>10, <1>16 DEF Hands
  <2>2. CallsMeant'
    BY <1>2, <1>7, <2>1 DEF PartsInv, CallsMeant, SetKind, Adds, Removes, Waits, N
  <2>3. Phases' /\ ReadAll'
    BY <1>2, <1>9, <2>1 DEF PartsInv, Phases, ReadAll, Tracked
  <2>4. DOMAIN pass.seen \subseteq Node /\ DOMAIN pass.have \subseteq Node
    BY <1>p, HandsFacts, SnapFacts
  <2>5. op = "add" => m \in hist'.been[n]
    BY <1>1, <1>6, <1>16 DEF Hists
  <2>6. Tracked => /\ \A o \in DOMAIN pass'.seen : pass'.seen[o] \subseteq hist'.been[o]
                   /\ \A o \in DOMAIN pass'.have : pass'.have[o] \subseteq hist'.been[o]
    BY <1>p, <1>9, <1>12, <1>15, <2>1, <2>4, <2>5 DEF Fit
  <2>7. \A o \in DOMAIN pass'.seen : Sound(kind, FieldNames, pass'.seen[o])
    BY <1>p, <2>1 DEF Fit
  <2> QED
    BY <1>1, <1>2, <1>14, <1>15, <2>1, <2>2, <2>3, <2>6, <2>7, WriteKeeps
<1>17. CASE pass' = [pass EXCEPT !.left = left, !.found = found]
  <2>1. /\ pass' \in Hands /\ pass'.ph = pass.ph /\ pass'.at = pass.at /\ pass'.seen = pass.seen
        /\ pass'.have = pass.have /\ pass'.left = left /\ pass'.unread = pass.unread /\ pass'.missing = pass.missing
    BY <1>p, <1>7, <1>11, <1>17 DEF Hands
  <2>2. CallsMeant'
    BY <1>2, <1>7, <2>1 DEF PartsInv, CallsMeant, SetKind, Adds, Removes, Waits, N
  <2>3. Phases' /\ ReadAll'
    BY <1>2, <2>1 DEF PartsInv, Phases, ReadAll, Tracked
  <2>4. DOMAIN pass.seen \subseteq Node /\ DOMAIN pass.have \subseteq Node
    BY <1>p, HandsFacts, SnapFacts
  <2>5. Tracked => /\ \A o \in DOMAIN pass'.seen : pass'.seen[o] \subseteq hist'.been[o]
                   /\ \A o \in DOMAIN pass'.have : pass'.have[o] \subseteq hist'.been[o]
    BY <1>p, <1>15, <2>1, <2>4 DEF Fit
  <2>6. \A o \in DOMAIN pass'.seen : Sound(kind, FieldNames, pass'.seen[o])
    BY <1>p, <2>1 DEF Fit
  <2> QED
    BY <1>1, <1>2, <1>14, <1>15, <2>1, <2>2, <2>3, <2>5, <2>6, WriteKeeps
<1> QED
  BY <1>13, <1>16, <1>17

-----------------------------------------------------------------------------
(* The theorems.                                                           *)

LEMMA PartsStep == PartsInv /\ [Next]_vars => PartsInv'
<1> SUFFICES ASSUME PartsInv, [Next]_vars PROVE PartsInv'
  OBVIOUS
<1>1. CASE People
  BY <1>1, PeopleKeep
<1>2. CASE Pass
  BY <1>2, ReadingKeeps, CompareKeeps, CreateKeeps, CallKeeps, TurnsKeep, PlainKeep, FieldsKeep,
     EndsKeep, GuardKeeps, SaveKeeps DEF Pass
<1>3. CASE CutOff \/ TagArrives
  BY <1>3, EndsKeep
<1>4. CASE \E n \in Node : LiftGuard(n)
  BY <1>4, GuardKeeps
<1>5. CASE UNCHANGED vars
  <2>1. AllTyped' /\ AllSound' /\ Phases' /\ ReadAll' /\ HasHad' /\ BaseWasEverywhere'
    BY <1>5 DEF vars, PartsInv, AllTyped, AllSound, FieldNames, Phases, ReadAll, HasHad, BaseWasEverywhere, Tracked
  <2>2. CallsMeant'
    BY <1>5 DEF vars, PartsInv, CallsMeant, SetKind, Adds, Removes, Waits, N
  <2> QED
    BY <2>1, <2>2 DEF PartsInv
<1> QED
  BY <1>1, <1>2, <1>3, <1>4, <1>5 DEF Next

LEMMA PartsAlways == Spec => []PartsInv
  BY PartsInit, PartsStep, PTL DEF Spec

\* PartsTypeOK: the types, and no node ever holds two values under one name.
THEOREM OneValuePerName == Spec => []PartsTypeOK
<1>1. PartsInv => PartsTypeOK
  <2> SUFFICES ASSUME PartsInv PROVE PartsTypeOK
    OBVIOUS
  <2>1. pass.left \subseteq {"add", "remove"} \X Member
    BY HandsFacts DEF PartsInv, AllTyped, CallSets, Calls
  <2>2. ASSUME NEW n \in Node, NEW x \in Name
        PROVE  Cardinality({m \in Named(on[n], x) : Outer(m)}) <= 1
    <3> DEFINE S == {m \in Named(on[n], x) : Outer(m)}
    <3>1. OneValue(on[n])
      BY DEF PartsInv, AllSound, Sound
    <3>2. CASE S = {}
      BY <3>2, FS_EmptySet
    <3>3. CASE S # {}
      <4>1. PICK m : m \in S
        BY <3>3
      <4>2. S = {m}
        BY <3>1, <4>1 DEF OneValue, Named
      <4> QED
        BY <4>2, FS_Singleton
    <3> QED
      BY <3>2, <3>3
  <2> QED
    BY <2>1, <2>2 DEF PartsInv, AllTyped, PartsTypeOK
<1> QED
  BY <1>1, PartsAlways, PTL

\* BaseWasEverywhere: an absence can mean a removal only of what was there.
THEOREM BaseIsShared == Spec => []BaseWasEverywhere
<1>1. PartsInv => BaseWasEverywhere
  BY DEF PartsInv
<1> QED
  BY <1>1, PartsAlways, PTL

\* Which steps of ForgeSync's write a variable.
LEMMA VariableWrites ==
  ASSUME PartsInv, [Next]_vars, Ours, kind = "variables", on' # on
  PROVE  \E op \in {"add", "remove"}, k \in Member : Call(op, k)
<1>1. edits \in Nat /\ pass.ph \notin {"guard", "guarding", "lifted"}
  BY PartsAssumption DEF PartsInv, AllTyped
<1>2. ~People
  <2>1. People => edits' = edits - 1
    BY DEF People, Give, TakeAway, Change, Tamper, TurnOff, Person
  <2> QED
    BY <1>1, <2>1 DEF Ours
<1>3. ~CutOff /\ ~TagArrives /\ ~UNCHANGED vars
  BY DEF CutOff, TagArrives, vars
<1>4. \A n \in Node : ~LiftGuard(n) /\ ~ReassertGuard(n) /\ ~CreateOrg(n)
  BY DEF LiftGuard, ReassertGuard, CreateOrg
<1>5. ~(Begin \/ ReadNode \/ ReadFails \/ Compare \/ NextTurn \/ TopicsWritten \/ NoField
        \/ SaveFields \/ BeginGuard \/ GuardRead \/ EndGuard \/ Save \/ Tell)
  BY DEF Begin, ReadNode, ReadFails, Compare, NextTurn, TopicsWritten, NoField, SaveFields, BeginGuard,
         GuardRead, EndGuard, Save, Tell
<1>6. ~(SetTopics \/ FollowPrivate \/ GuardWrite \/ PutGuardBack \/ \E x \in Name : WriteField(x))
  BY <1>1 DEF SetTopics, FollowPrivate, GuardWrite, PutGuardBack, WriteField
<1> QED
  BY <1>2, <1>3, <1>4, <1>5, <1>6 DEF Next, Pass

\* NewValueStands: a value that is written over was everywhere once.  What is
\* removed was in the base; what is replaced was too, or its name was contested.
THEOREM NewValuesKept == Spec => NewValueStands
<1>1. ASSUME PartsInv, [Next]_vars, Ours, kind = "variables", on' # on,
             NEW n \in Node, NEW m \in Member, m \in on[n] \ on'[n], m \in Read(n)
      PROVE  \A o \in copies \ off : m \in hist.been[o]
  <2>1. PICK op \in {"add", "remove"}, k \in Member : Call(op, k)
    BY <1>1, VariableWrites
  <2>2. /\ SetKind /\ pass.ph \in {"outer", "inner"} /\ <<op, k>> \in pass.left /\ "variables" \notin Nested
        /\ on' = [on EXCEPT ![N] = CallOf(N, op, k).after]
    BY <1>1, <2>1 DEF Call, Answered, Unanswered, Nested
  <2>3. /\ N \in Node /\ Outer(k)
        /\ op = "add" => k \in Adds(pass, N)
        /\ op = "remove" => k \in Removes(pass, N)
    BY <1>1, <2>2, LeftFacts
  <2>4. n = N /\ n \in DOMAIN pass.seen /\ m \in pass.seen[n]
    BY <1>1, <2>2, <2>3 DEF PartsInv, AllTyped, Read
  <2>5. /\ \A o \in DOMAIN pass.seen : OneValue(pass.seen[o]) /\ \A e \in pass.seen[o] : Outer(e)
        /\ Outer(m)
    BY <1>1, <2>4 DEF PartsInv, AllSound, Sound
  <2>6. CallOf(N, op, k).after = IF op = "remove" THEN Off(on[n], NameOf(k)) ELSE Put(on[n], k)
    BY <1>1, <2>4 DEF CallOf, VariableCall, Ask, Delete
  <2>7. m \notin CallOf(N, op, k).after
    BY <1>1, <2>2, <2>3, <2>4 DEF PartsInv, AllTyped
  <2>8. CASE op = "remove"
    <3>1. NameOf(m) = NameOf(k)
      BY <1>1, <2>6, <2>7, <2>8 DEF Off, Named
    <3>2. k \in pass.seen[n] /\ k \in base
      BY <2>3, <2>4, <2>8 DEF Removes, RemoveFrom
    <3>3. m = k
      BY <2>3, <2>4, <2>5, <3>1, <3>2 DEF OneValue
    <3> QED
      BY <1>1, <3>2, <3>3 DEF PartsInv, BaseWasEverywhere, InPlace
  <2>9. CASE op = "add"
    <3>1. NameOf(m) = NameOf(k) /\ m # k
      BY <1>1, <2>6, <2>7, <2>9 DEF Put
    <3>2. k \in AddTo(pass.seen, base, n) /\ NameOf(k) \notin ContestedChanges(pass.seen, base)
      BY <1>1, <2>3, <2>4, <2>9 DEF Adds, Waits
    <3>3. PICK o \in DOMAIN pass.seen : k \in pass.seen[o]
      BY <3>2 DEF AddTo
    <3>4. m \notin pass.seen[o]
      BY <2>3, <2>5, <3>1, <3>3 DEF OneValue
    <3>5. m \notin base => m \in AddTo(pass.seen, base, o)
      BY <2>4, <3>4 DEF AddTo
    <3>6. m \in base
      BY <2>4, <3>1, <3>2, <3>3, <3>5 DEF ContestedChanges
    <3> QED
      BY <1>1, <3>6 DEF PartsInv, BaseWasEverywhere, InPlace
  <2> QED
    BY <2>8, <2>9
<1>2. PartsInv /\ [Next]_vars =>
        (Ours /\ kind = "variables" /\ on' # on =>
           \A n \in Node, m \in Member :
             (m \in on[n] \ on'[n] /\ m \in Read(n)) => \A o \in copies \ off : m \in hist.been[o])
  BY <1>1
<1> QED
  BY <1>2, PartsAlways, PTL DEF Spec, NewValueStands

-----------------------------------------------------------------------------
(* Only people take a name away.                                           *)

\* People have taken the name away -- or two values of it clashed, where the
\* kind lets both be spread.
Excused(x) ==
    \/ \A k \in Member : NameOf(k) = x /\ Outer(k) => k \in hist.taken
    \/ x \in hist.clashed /\ kind \notin {"variables", "packages"}

\* What node n is taken to hold: by the read, the belief, the base.
Claims(n) ==
    Read(n) \cup (IF n \in DOMAIN pass.have THEN pass.have[n] ELSE {})
            \cup (IF n \in copies \ off THEN base ELSE {})

\* A name a node is taken to hold is there, or excused.
NamesKept ==
    \A n \in Node : \A m \in Claims(n) :
      Outer(m) /\ ~Excused(NameOf(m)) => HasName(on[n], NameOf(m))

\* A name of the base that a read did not find is excused.
SeenKept ==
    pass.ph \in {"read", "outer", "inner"} =>
      \A n \in DOMAIN pass.seen : \A m \in base :
        Outer(m) /\ ~Excused(NameOf(m)) => HasName(pass.seen[n], NameOf(m))

\* The base holds two values of a name only where they clashed.
BaseOne ==
    \A m, k \in base :
      Outer(m) /\ Outer(k) /\ NameOf(m) = NameOf(k) /\ m # k =>
        NameOf(m) \in hist.clashed /\ kind \notin {"variables", "packages"}

Changes(n) == Changing(pass, n)

\* Calls are made on a node that was read, and half a change is not one.
Asking ==
    /\ pass.ph \in {"outer", "inner"} /\ pass.left # {} => N \in DOMAIN pass.seen
    /\ pass.ph = "outer" =>
         \A i \in DOMAIN Order : i = pass.at =>
           \A e \in pass.left : e[1] = "remove" => e[2] \notin Changes(Order[i])

\* What is believed of a node is what it showed, and once its turn has come no
\* more than the calls make of that.
Turned(n) == (pass.seen[n] \ Changes(n)) \cup Adds(pass, n)
AsRead(i) ==
    \/ pass.ph = "read"
    \/ /\ pass.ph = "outer"
       /\ i > pass.at \/ (i = pass.at /\ \E e \in pass.left : e[1] = "remove")
AsTurned(i) ==
    \/ pass.ph \in {"inner", "save"}
    \/ pass.ph = "outer" /\ i <= pass.at
BeliefFrom ==
    \A i \in DOMAIN Order : Order[i] \in DOMAIN pass.have =>
      /\ AsRead(i) => pass.have[Order[i]] \subseteq pass.seen[Order[i]]
      /\ AsTurned(i) => pass.have[Order[i]] \subseteq Turned(Order[i])

\* The clashes of this pass are on record.
ClashNoted ==
    pass.ph \in {"outer", "inner", "save"} => ContestedChanges(pass.seen, base) \subseteq hist.clashed

TakenInv == Tracked => NamesKept /\ SeenKept /\ BaseOne /\ Asking /\ BeliefFrom /\ ClashNoted

LEMMA TrackedKinds ==
  ASSUME Tracked
  PROVE  /\ SetKind /\ kind # "guard" /\ kind \notin Plain /\ kind # "fields" /\ kind # "teams"
         /\ kind \in {"collaborators", "protection", "releases", "variables", "packages"}
         /\ kind \in InPlace \/ kind = "packages"
  BY DEF Tracked, SetKind, InPlace, Plain

\* An excuse stands for good.
LEMMA ExcuseStands ==
  ASSUME NEW x, kind' = kind, hist.taken \subseteq hist'.taken, hist.clashed \subseteq hist'.clashed,
         Excused(x)
  PROVE  Excused(x)'
  BY DEF Excused

\* What is taken off a node that was read, and is not changing there, is excused.
LEMMA RemovalExcused ==
  ASSUME PartsInv, TakenInv, Tracked, pass.ph \in {"outer", "inner"}, NEW n \in DOMAIN pass.seen,
         NEW m \in Removes(pass, n), Outer(m), m \notin Changing(pass, n)
  PROVE  Excused(NameOf(m))
<1> SUFFICES ASSUME ~Excused(NameOf(m)) PROVE FALSE
  OBVIOUS
<1>1. m \in base /\ m \in pass.seen[n] /\ NameOf(m) \notin Waits(pass)
  BY DEF Removes, RemoveFrom
<1>2. PICK o \in DOMAIN pass.seen : m \notin pass.seen[o]
  BY DEF Removes, RemoveFrom
<1>3. HasName(pass.seen[o], NameOf(m))
  BY <1>1 DEF TakenInv, SeenKept
<1>4. PICK a \in pass.seen[o] : NameOf(a) = NameOf(m) /\ Outer(a)
  BY <1>3 DEF HasName
<1>5. a # m /\ a \notin base
  BY <1>1, <1>2, <1>4 DEF TakenInv, BaseOne, Excused
<1>6. a \notin pass.seen[n]
  BY <1>1, <1>4, <1>5 DEF PartsInv, AllSound, Sound, OneValue
<1>7. a \in AddTo(pass.seen, base, n)
  BY <1>4, <1>5, <1>6 DEF AddTo
<1>8. CASE kind = "packages"
  <2>1. m \in UNION {pass.seen[k] : k \in DOMAIN pass.seen} /\ a \in UNION {pass.seen[k] : k \in DOMAIN pass.seen}
    BY <1>1, <1>4
  <2>2. NameOf(m) \in ContestedFiles(pass.seen)
    BY <1>4, <1>5, <2>1 DEF ContestedFiles
  <2> QED
    BY <1>1, <1>8, <2>2 DEF Waits
<1>9. CASE kind \in InPlace
  <2>1. a \in Adds(pass, n)
    BY <1>1, <1>4, <1>7 DEF Adds
  <2>2. m \in Changing(pass, n)
    BY <1>4, <1>9, <2>1 DEF Changing
  <2> QED
    BY <2>2
<1> QED
  BY <1>8, <1>9, TrackedKinds

\* A belief has two values of a name only where two new ones clashed.
LEMMA TwoTurned ==
  ASSUME PartsInv, Tracked, NEW n \in DOMAIN pass.seen, NEW m \in Turned(n), NEW k \in Turned(n),
         Outer(m), Outer(k), NameOf(m) = NameOf(k), m # k
  PROVE  NameOf(m) \in ContestedChanges(pass.seen, base) /\ kind \notin {"variables", "packages"}
<1>1. ASSUME NEW a, NEW b, {a, b} = {m, k}, a \in Adds(pass, n)
      PROVE  NameOf(m) \in ContestedChanges(pass.seen, base) /\ kind \notin {"variables", "packages"}
  <2> DEFINE added == UNION {AddTo(pass.seen, base, o) : o \in DOMAIN pass.seen}
             found == UNION {pass.seen[o] : o \in DOMAIN pass.seen}
  <2>1. /\ Outer(a) /\ Outer(b) /\ NameOf(a) = NameOf(b) /\ NameOf(a) = NameOf(m) /\ a # b
        /\ b \in Turned(n)
    BY <1>1
  <2>2. a \in AddTo(pass.seen, base, n) /\ NameOf(a) \notin Waits(pass)
    BY <1>1 DEF Adds
  <2>3. PICK o \in DOMAIN pass.seen : a \in pass.seen[o]
    BY <2>2 DEF AddTo
  <2>4. a \in added /\ a \in found /\ b \in found
    BY <2>1, <2>2, <2>3 DEF Turned, Adds, AddTo
  <2>5. b \in added
    <3>1. CASE b \in Adds(pass, n)
      BY <3>1 DEF Adds
    <3>2. CASE b \notin Adds(pass, n)
      <4>1. b \in pass.seen[n] /\ b \notin Changing(pass, n)
        BY <2>1, <3>2 DEF Turned, Changes
      <4>2. b \notin pass.seen[o]
        BY <2>1, <2>3 DEF PartsInv, AllSound, Sound, OneValue
      <4>3. b \notin base
        <5> SUFFICES ASSUME b \in base PROVE FALSE
          OBVIOUS
        <5>1. b \in Removes(pass, n)
          BY <2>1, <2>2, <2>3, <4>1, <4>2 DEF Removes, RemoveFrom
        <5>2. kind \notin InPlace
          BY <1>1, <2>1, <4>1, <5>1 DEF Changing
        <5>3. kind = "packages"
          BY <5>2, TrackedKinds
        <5>4. NameOf(a) \in ContestedFiles(pass.seen)
          BY <2>1, <2>4 DEF ContestedFiles
        <5> QED
          BY <2>2, <5>3, <5>4 DEF Waits
      <4>4. b \in AddTo(pass.seen, base, o)
        BY <4>1, <4>2, <4>3 DEF AddTo
      <4> QED
        BY <4>4
    <3> QED
      BY <3>1, <3>2
  <2>6. NameOf(a) \in ContestedChanges(pass.seen, base)
    BY <2>1, <2>4, <2>5 DEF ContestedChanges
  <2>7. NameOf(a) \in ContestedFiles(pass.seen)
    BY <2>1, <2>4 DEF ContestedFiles
  <2> QED
    BY <2>1, <2>2, <2>6, <2>7 DEF Waits
<1>2. CASE m \in Adds(pass, n)
  BY <1>1, <1>2
<1>3. CASE k \in Adds(pass, n)
  BY <1>1, <1>3
<1>4. CASE m \in pass.seen[n] /\ k \in pass.seen[n]
  BY <1>4 DEF PartsInv, AllSound, Sound, OneValue
<1> QED
  BY <1>2, <1>3, <1>4 DEF Turned

LEMMA SameSets ==
  ASSUME kind' = kind, base' = base, pass'.seen = pass.seen, NEW n
  PROVE  Changes(n)' = Changes(n) /\ Turned(n)' = Turned(n)
<1>1. Changes(n)' = Changes(n)
  BY DEF Changes, Changing, Adds, Removes, Waits
<1> QED
  BY <1>1 DEF Turned, Adds, Waits

LEMMA NamesStay ==
  ASSUME TakenInv, Tracked, UNCHANGED <<kind, on, base, copies>>, off \subseteq off',
         hist.taken \subseteq hist'.taken, hist.clashed \subseteq hist'.clashed,
         \A n \in Node : Read(n)' \subseteq Read(n) \cup on[n],
         \A n \in DOMAIN pass'.have :
           pass'.have[n] \subseteq (IF n \in DOMAIN pass.have THEN pass.have[n] ELSE {}) \cup on[n]
  PROVE  NamesKept' /\ BaseOne'
<1>1. ASSUME NEW n \in Node, NEW m \in Claims(n)', Outer(m), ~Excused(NameOf(m))'
      PROVE  HasName(on[n], NameOf(m))
  <2>1. ~Excused(NameOf(m))
    BY <1>1, ExcuseStands
  <2>2. m \in Claims(n) \/ m \in on[n]
    BY <1>1 DEF Claims
  <2> QED
    BY <1>1, <2>1, <2>2 DEF TakenInv, NamesKept, HasName
<1>2. NamesKept'
  BY <1>1 DEF NamesKept
<1>3. BaseOne'
  BY DEF TakenInv, BaseOne
<1> QED
  BY <1>2, <1>3

\* A pass that is over takes nothing for granted.
LEMMA EndTaken ==
  ASSUME TakenInv, UNCHANGED <<kind, on, base, copies>>, off \subseteq off', hist' = hist, pass' = NoPass
  PROVE  TakenInv'
<1> SUFFICES ASSUME Tracked PROVE TakenInv'
  BY DEF TakenInv, Tracked
<1>1. pass'.ph = "idle" /\ DOMAIN pass'.seen = {} /\ DOMAIN pass'.have = {}
  BY NothingRead DEF NoPass
<1>2. NamesKept' /\ BaseOne'
  BY <1>1, NamesStay DEF Read
<1>3. SeenKept' /\ Asking' /\ ClashNoted'
  BY <1>1 DEF SeenKept, Asking, ClashNoted
<1>4. BeliefFrom'
  BY <1>1 DEF BeliefFrom
<1> QED
  BY <1>2, <1>3, <1>4 DEF TakenInv

\* Steps that leave the pass and the base alone.
LEMMA AsideTaken ==
  ASSUME TakenInv, UNCHANGED <<kind, base, pass>>, NamesKept',
         hist.taken \subseteq hist'.taken, hist.clashed \subseteq hist'.clashed
  PROVE  TakenInv'
<1> SUFFICES ASSUME Tracked PROVE TakenInv'
  BY DEF TakenInv, Tracked
<1>1. SeenKept'
  BY ExcuseStands DEF TakenInv, SeenKept
<1>2. BaseOne' /\ ClashNoted'
  BY DEF TakenInv, BaseOne, ClashNoted
<1>3. Asking'
  BY SameSets DEF TakenInv, Asking, N
<1>4. BeliefFrom'
  BY SameSets DEF TakenInv, BeliefFrom, AsRead, AsTurned
<1> QED
  BY <1>1, <1>2, <1>3, <1>4 DEF TakenInv

LEMMA PutNames ==
  ASSUME NEW S, NEW m, Outer(m), NEW x, HasName(S, x) \/ x = NameOf(m)
  PROVE  HasName(Put(S, m), x)
  BY DEF Put, HasName

LEMMA OffNames ==
  ASSUME NEW S, NEW y, NEW x, HasName(S, x), x # y
  PROVE  HasName(Off(S, y), x)
  BY DEF Off, HasName, Named

LEMMA PersonTaken ==
  ASSUME PartsInv, TakenInv, NEW n \in Node, NEW S, NEW gone, Person(n, S, gone),
         \A x : HasName(on[n], x) => HasName(S, x) \/ Excused(x)'
  PROVE  TakenInv'
<1> SUFFICES ASSUME Tracked PROVE TakenInv'
  BY DEF TakenInv, Tracked, Person
<1>1. /\ on' = [on EXCEPT ![n] = S] /\ UNCHANGED <<kind, base, pass, copies, off>>
      /\ on \in [Node -> SUBSET Member]
      /\ hist' = [hist EXCEPT !.been[n] = @ \cup S, !.taken = @ \cup gone] /\ hist \in Hists
  BY DEF Person, PartsInv, AllTyped
<1>2. hist.taken \subseteq hist'.taken /\ hist'.clashed = hist.clashed
  BY <1>1 DEF Hists
<1>3. ASSUME NEW o \in Node, NEW m \in Claims(o)', Outer(m), ~Excused(NameOf(m))'
      PROVE  HasName(on'[o], NameOf(m))
  <2>1. ~Excused(NameOf(m))
    BY <1>1, <1>2, <1>3, ExcuseStands
  <2>2. m \in Claims(o)
    BY <1>1, <1>3 DEF Claims, Read
  <2>3. HasName(on[o], NameOf(m))
    BY <1>3, <2>1, <2>2 DEF TakenInv, NamesKept
  <2> QED
    BY <1>1, <1>3, <2>3
<1>4. NamesKept'
  BY <1>3 DEF NamesKept
<1> QED
  BY <1>1, <1>2, <1>4, AsideTaken

LEMMA PeopleTaken == PartsInv /\ TakenInv /\ People => TakenInv'
<1> SUFFICES ASSUME PartsInv, TakenInv, People PROVE TakenInv'
  OBVIOUS
<1>1. ASSUME NEW n \in Node, NEW x \in Used[kind], NEW v \in Val, Give(n, x, v) PROVE TakenInv'
  <2>1. Outer(<<x, v>>)
    BY DEF Outer
  <2> QED
    BY <1>1, <2>1, PutNames, PersonTaken DEF Give
<1>2. ASSUME NEW n \in Node, NEW x \in Used[kind], TakeAway(n, x) PROVE TakenInv'
  <2>1. Excused(x)'
    <3>1. hist' = [hist EXCEPT !.been[n] = @ \cup Off(on[n], x), !.taken = @ \cup Named(Member, x)]
          /\ hist \in Hists
      BY <1>2 DEF TakeAway, Person, PartsInv, AllTyped
    <3>2. Named(Member, x) \subseteq hist'.taken
      BY <3>1 DEF Hists
    <3> QED
      BY <3>2 DEF Excused, Named
  <2> QED
    BY <1>2, <2>1, OffNames, PersonTaken DEF TakeAway
<1>3. ASSUME NEW n \in Node, NEW x \in Used[kind], NEW s \in Sub, Change(n, x, s) PROVE TakenInv'
  <2>1. ~Outer(<<x, s>>)
    BY PartsAssumption DEF Outer
  <2>2. ASSUME NEW y, HasName(on[n], y) PROVE HasName(on[n] \ {<<x, s>>}, y) /\ HasName(on[n] \cup {<<x, s>>}, y)
    BY <2>1, <2>2 DEF HasName
  <2> QED
    BY <1>3, <2>2, PersonTaken DEF Change
<1>4. ASSUME NEW n \in Node, NEW S, Tamper(n, S) PROVE TakenInv'
  BY <1>4, TrackedKinds DEF Tamper, Person, TakenInv, Tracked
<1>5. ASSUME NEW n \in Node, TurnOff(n) PROVE TakenInv'
  <2> SUFFICES ASSUME Tracked PROVE TakenInv'
    BY <1>5 DEF TakenInv, Tracked, TurnOff
  <2>1. UNCHANGED <<kind, on, base, copies, pass, hist>> /\ off \subseteq off'
    BY <1>5 DEF TurnOff
  <2>2. NamesKept'
    BY <2>1, NamesStay DEF Read
  <2> QED
    BY <2>1, <2>2, AsideTaken
<1> QED
  BY <1>1, <1>2, <1>3, <1>4, <1>5 DEF People

\* A pass that reads on, or goes no further than what it read.
LEMMA ReadOnTaken ==
  ASSUME PartsInv, TakenInv, Tracked, UNCHANGED <<kind, on, base, copies, off, hist>>,
         pass'.ph = "read", pass.ph = "read", pass'.seen = pass.seen, pass'.have = pass.have
  PROVE  TakenInv'
<1>1. NamesKept' /\ BaseOne'
  BY NamesStay DEF Read
<1>2. SeenKept'
  BY ExcuseStands DEF TakenInv, SeenKept
<1>3. Asking' /\ ClashNoted'
  BY DEF Asking, ClashNoted
<1>4. BeliefFrom'
  BY DEF TakenInv, BeliefFrom, AsRead, AsTurned
<1> QED
  BY <1>1, <1>2, <1>3, <1>4 DEF TakenInv

LEMMA ReadingTaken == PartsInv /\ TakenInv /\ (Begin \/ ReadNode \/ ReadFails) => TakenInv'
<1> SUFFICES ASSUME PartsInv, TakenInv, Begin \/ ReadNode \/ ReadFails, Tracked PROVE TakenInv'
  BY DEF TakenInv, Tracked, Begin, ReadNode, ReadFails
<1>p. pass \in Hands /\ Fit(pass)
  BY PassFits DEF PartsInv, AllTyped
<1>1. CASE Begin
  <2>1. /\ pass'.ph = "read" /\ DOMAIN pass'.seen = {} /\ DOMAIN pass'.have = {}
        /\ UNCHANGED <<kind, on, base, copies, off, hist>>
    BY <1>1, NothingRead DEF Begin, NoPass
  <2>2. NamesKept' /\ BaseOne'
    BY <2>1, NamesStay DEF Read
  <2>3. SeenKept' /\ Asking' /\ ClashNoted'
    BY <2>1 DEF SeenKept, Asking, ClashNoted
  <2>4. BeliefFrom'
    BY <2>1 DEF BeliefFrom
  <2> QED
    BY <2>2, <2>3, <2>4 DEF TakenInv
<1>2. CASE ReadNode /\ Counted(N)
  <2>1. N \in copies \ off /\ N \in Node
    BY <1>2 DEF Counted, PartsInv, AllTyped
  <2>2. PICK n \in Node : n = N
    BY <2>1
  <2>3. PICK seen, have : seen = With(pass.seen, n, on[n]) /\ have = With(pass.have, n, on[n])
    OBVIOUS
  <2>4. pass.ph = "read" /\ UNCHANGED <<kind, on, base, copies, off, hist>>
    BY <1>2 DEF ReadNode
  <2>5. pass'.ph = "read" /\ pass'.seen = seen /\ pass'.have = have
    BY <1>p, <1>2, <2>2, <2>3 DEF ReadNode, Hands
  <2>6. /\ DOMAIN seen = DOMAIN pass.seen \cup {n} /\ seen[n] = on[n]
        /\ \A o \in DOMAIN pass.seen : o # n => seen[o] = pass.seen[o]
        /\ DOMAIN have = DOMAIN pass.have \cup {n} /\ have[n] = on[n]
        /\ \A o \in DOMAIN pass.have : o # n => have[o] = pass.have[o]
    BY <2>3 DEF With
  <2>7. NamesKept' /\ BaseOne'
    BY <2>4, <2>5, <2>6, NamesStay DEF Read
  <2>8. SeenKept'
    <3>1. ASSUME NEW o \in DOMAIN seen, NEW m \in base, Outer(m), ~Excused(NameOf(m))'
          PROVE  HasName(seen[o], NameOf(m))
      <4>1. ~Excused(NameOf(m))
        BY <2>4, <3>1, ExcuseStands
      <4>2. CASE o = n
        <5>1. m \in Claims(n)
          BY <2>1, <2>2 DEF Claims
        <5> QED
          BY <2>6, <3>1, <4>1, <4>2, <5>1 DEF TakenInv, NamesKept
      <4>3. CASE o # n
        BY <2>4, <2>6, <3>1, <4>1, <4>3 DEF TakenInv, SeenKept
      <4> QED
        BY <4>2, <4>3
    <3> QED
      BY <2>4, <2>5, <3>1 DEF SeenKept
  <2>9. Asking' /\ ClashNoted'
    BY <2>5 DEF Asking, ClashNoted
  <2>10. BeliefFrom'
    <3>1. ASSUME NEW i \in DOMAIN Order, Order[i] \in DOMAIN have PROVE have[Order[i]] \subseteq seen[Order[i]]
      BY <1>p, <2>4, <2>6, <3>1 DEF TakenInv, BeliefFrom, AsRead, Fit
    <3> QED
      BY <2>5, <3>1 DEF BeliefFrom, AsTurned
  <2> QED
    BY <2>7, <2>8, <2>9, <2>10 DEF TakenInv
<1>3. CASE (ReadNode /\ ~Counted(N)) \/ ReadFails
  <2>1. /\ pass.ph = "read" /\ pass'.ph = "read" /\ pass'.seen = pass.seen /\ pass'.have = pass.have
        /\ UNCHANGED <<kind, on, base, copies, off, hist>>
    BY <1>p, <1>3 DEF ReadNode, ReadFails, Hands
  <2> QED
    BY <2>1, ReadOnTaken
<1> QED
  BY <1>1, <1>2, <1>3

\* A node's turn begins.
LEMMA TurnTaken ==
  ASSUME PartsInv, TakenInv, Tracked, UNCHANGED <<kind, on, base, copies, off>>,
         hist'.taken = hist.taken, hist.clashed \subseteq hist'.clashed,
         ContestedChanges(pass.seen, base) \subseteq hist'.clashed,
         pass.ph \in {"read", "outer", "inner"},
         NEW i \in DOMAIN Order, NEW ph \in {"outer", "inner"}, pass' = TurnOf(pass, i, ph),
         \A j \in DOMAIN Order : Order[j] \in DOMAIN pass.have =>
           IF ph = "outer" /\ j >= i THEN pass.have[Order[j]] \subseteq pass.seen[Order[j]]
                                     ELSE pass.have[Order[j]] \subseteq Turned(Order[j])
  PROVE  TakenInv'
<1> DEFINE n == Order[i]
           have == IF n \in DOMAIN pass.have /\ ph = "outer"
                   THEN [pass.have EXCEPT ![n] = pass.have[n] \ Changes(n)] ELSE pass.have
           left == Todo(pass, n, ph)
<1>p. pass \in Hands
  BY DEF PartsInv, AllTyped
<1>1. pass' = [pass EXCEPT !.at = i, !.ph = ph, !.left = left, !.have = have]
  BY Zenon DEF TurnOf, Changes
<1>2. n \in Node /\ i \in Nat
  BY PartsAssumption
<1>3. /\ DOMAIN have = DOMAIN pass.have /\ \A o \in DOMAIN have : have[o] \subseteq pass.have[o]
      /\ ph = "outer" /\ n \in DOMAIN have => have[n] = pass.have[n] \ Changes(n)
  BY HandsFacts, <1>p
<1>4. /\ left # {} => n \in DOMAIN pass.seen
      /\ ph = "outer" => \A e \in left : e[1] = "remove" => e[2] \notin Changes(n)
  BY DEF Todo, Changes
<1> HIDE DEF have, left
<1>5. /\ pass'.ph = ph /\ pass'.at = i /\ pass'.seen = pass.seen /\ pass'.have = have /\ pass'.left = left
  BY <1>p, <1>1 DEF Hands
<1>6. NamesKept' /\ BaseOne'
  BY <1>3, <1>5, NamesStay DEF Read
<1>7. SeenKept'
  BY <1>5, ExcuseStands DEF TakenInv, SeenKept
<1>8. ClashNoted'
  BY <1>5 DEF ClashNoted
<1>9. Asking'
  <2>1. left # {} => N' \in DOMAIN pass.seen
    BY <1>4, <1>5 DEF N
  <2>2. ph = "outer" => \A j \in DOMAIN Order : j = i => \A e \in left : e[1] = "remove" => e[2] \notin Changes(Order[j])'
    BY <1>4, <1>5, SameSets
  <2> QED
    BY <1>5, <2>1, <2>2 DEF Asking, N
<1>10. BeliefFrom'
  <2>1. ASSUME NEW j \in DOMAIN Order, Order[j] \in DOMAIN have
        PROVE  /\ AsRead(j)' => have[Order[j]] \subseteq pass.seen[Order[j]]
               /\ AsTurned(j)' => have[Order[j]] \subseteq Turned(Order[j])
    <3>1. have[Order[j]] \subseteq pass.have[Order[j]] /\ Order[j] \in DOMAIN pass.have /\ j \in Nat
      BY <1>3, <2>1, PartsAssumption
    <3>2. CASE ph = "outer" /\ j > i
      BY <1>2, <1>5, <3>1, <3>2 DEF AsTurned
    <3>3. CASE ph = "outer" /\ j = i
      BY <1>2, <1>3, <1>5, <2>1, <3>1, <3>3 DEF Turned
    <3>4. CASE ~(ph = "outer" /\ j >= i)
      BY <1>2, <1>5, <3>1, <3>4 DEF AsRead
    <3> QED
      BY <1>2, <3>1, <3>2, <3>3, <3>4
  <2>2. \A j \in DOMAIN Order : Turned(Order[j])' = Turned(Order[j])
    BY <1>5, SameSets
  <2> QED
    BY <1>5, <2>1, <2>2 DEF BeliefFrom
<1> QED
  BY <1>6, <1>7, <1>8, <1>9, <1>10 DEF TakenInv

LEMMA CompareTaken == PartsInv /\ TakenInv /\ Compare => TakenInv'
<1> SUFFICES ASSUME PartsInv, TakenInv, Compare, Tracked PROVE TakenInv'
  BY DEF TakenInv, Tracked, Compare
<1>1. /\ pass.ph = "read" /\ Compared(pass) /\ UNCHANGED <<kind, on, copies, off, base>> /\ SetKind /\ kind # "teams"
  BY TrackedKinds DEF Compare, PartsInv, Phases
<1>2. /\ hist'.taken = hist.taken /\ hist'.clashed = hist.clashed \cup ContestedChanges(pass.seen, base)
      /\ hist' = [hist EXCEPT !.clashed = hist.clashed \cup ContestedChanges(pass.seen, base)]
  BY <1>1 DEF Compared, PartsInv, AllTyped, Hists
<1>3. CASE pass' = NoPass
  <2>1. pass'.ph = "idle" /\ DOMAIN pass'.seen = {} /\ DOMAIN pass'.have = {}
    BY <1>3, NothingRead DEF NoPass
  <2>2. NamesKept' /\ BaseOne'
    BY <1>1, <1>2, <2>1, NamesStay DEF Read
  <2>3. SeenKept' /\ Asking' /\ ClashNoted' /\ BeliefFrom'
    BY <2>1 DEF SeenKept, Asking, ClashNoted, BeliefFrom
  <2> QED
    BY <2>2, <2>3 DEF TakenInv
<1>4. CASE pass' = TurnOf(pass, 1, "outer")
  <2>1. 1 \in DOMAIN Order
    BY PartsAssumption
  <2>2. \A j \in DOMAIN Order : Order[j] \in DOMAIN pass.have => j >= 1 /\ pass.have[Order[j]] \subseteq pass.seen[Order[j]]
    BY <1>1, PartsAssumption DEF TakenInv, BeliefFrom, AsRead
  <2> QED
    BY <1>1, <1>2, <1>4, <2>1, <2>2, TurnTaken
<1> QED
  BY <1>1, <1>3, <1>4 DEF Compared

LEMMA NextTurnTaken == PartsInv /\ TakenInv /\ NextTurn => TakenInv'
<1> SUFFICES ASSUME PartsInv, TakenInv, NextTurn, Tracked PROVE TakenInv'
  BY DEF TakenInv, Tracked, NextTurn
<1>p. pass \in Hands
  BY DEF PartsInv, AllTyped
<1>1. /\ pass.ph \in {"outer", "inner"} /\ pass.left = {}
      /\ UNCHANGED <<kind, on, copies, off, base, hist>>
  BY DEF NextTurn
<1>2. pass.at \in DOMAIN Order /\ DOMAIN Order = 1 .. Len(Order) /\ Len(Order) \in Nat
  BY <1>1, TrackedKinds, PartsAssumption DEF PartsInv, CallsMeant
<1>3. ContestedChanges(pass.seen, base) \subseteq hist.clashed
  BY <1>1 DEF TakenInv, ClashNoted
<1>4. CASE pass.at < Len(Order) /\ pass' = TurnOf(pass, pass.at + 1, pass.ph)
  <2>1. PICK i \in DOMAIN Order : i = pass.at + 1
    BY <1>2, <1>4
  <2>2. \A j \in DOMAIN Order : Order[j] \in DOMAIN pass.have =>
           IF pass.ph = "outer" /\ j >= i THEN pass.have[Order[j]] \subseteq pass.seen[Order[j]]
                                          ELSE pass.have[Order[j]] \subseteq Turned(Order[j])
    <3> SUFFICES ASSUME NEW j \in DOMAIN Order, Order[j] \in DOMAIN pass.have
                 PROVE  IF pass.ph = "outer" /\ j >= i THEN pass.have[Order[j]] \subseteq pass.seen[Order[j]]
                                                       ELSE pass.have[Order[j]] \subseteq Turned(Order[j])
      OBVIOUS
    <3>1. pass.ph = "outer" /\ j >= i => AsRead(j)
      BY <1>2, <2>1 DEF AsRead
    <3>2. ~(pass.ph = "outer" /\ j >= i) => AsTurned(j)
      BY <1>1, <1>2, <2>1 DEF AsTurned
    <3> QED
      BY <3>1, <3>2 DEF TakenInv, BeliefFrom
  <2> QED
    BY <1>1, <1>3, <1>4, <2>1, <2>2, TurnTaken
<1>5. CASE pass.at = Len(Order) /\ pass.ph = "outer" /\ pass' = TurnOf(pass, 1, "inner")
  <2>1. 1 \in DOMAIN Order
    BY <1>2
  <2>2. \A j \in DOMAIN Order : Order[j] \in DOMAIN pass.have => pass.have[Order[j]] \subseteq Turned(Order[j])
    BY <1>2, <1>5 DEF TakenInv, BeliefFrom, AsTurned
  <2> QED
    BY <1>1, <1>3, <1>5, <2>1, <2>2, TurnTaken
<1>6. CASE pass.at = Len(Order) /\ pass' = [pass EXCEPT !.ph = "save"]
  <2>1. /\ pass'.ph = "save" /\ pass'.seen = pass.seen /\ pass'.have = pass.have
    BY <1>p, <1>6 DEF Hands
  <2>2. NamesKept' /\ BaseOne'
    BY <1>1, <2>1, NamesStay DEF Read
  <2>3. SeenKept' /\ Asking'
    BY <2>1 DEF SeenKept, Asking
  <2>4. ClashNoted'
    BY <1>1, <1>3, <2>1 DEF ClashNoted
  <2>5. \A j \in DOMAIN Order : Order[j] \in DOMAIN pass.have => pass.have[Order[j]] \subseteq Turned(Order[j])
    BY <1>1, <1>2, <1>6 DEF TakenInv, BeliefFrom, AsTurned
  <2>6. \A j \in DOMAIN Order : Turned(Order[j])' = Turned(Order[j])
    BY <1>1, <2>1, SameSets
  <2>7. BeliefFrom'
    BY <2>1, <2>5, <2>6 DEF BeliefFrom, AsRead
  <2> QED
    BY <2>2, <2>3, <2>4, <2>7 DEF TakenInv
<1>7. pass.at < Len(Order) \/ pass.at = Len(Order)
  BY <1>2
<1> QED
  BY <1>4, <1>5, <1>6, <1>7 DEF NextTurn

\* What is recorded was believed of every node.
LEMMA SaveTaken == PartsInv /\ TakenInv /\ Save => TakenInv'
<1> SUFFICES ASSUME PartsInv, TakenInv, Save, Tracked PROVE TakenInv'
  BY DEF TakenInv, Tracked, Save
<1>p. pass \in Hands /\ Fit(pass)
  BY PassFits DEF PartsInv, AllTyped
<1>1. /\ pass.ph = "save" /\ UNCHANGED <<kind, on, copies, off, hist>>
      /\ base' = SettleRead(pass.unread, pass.have, base)
      /\ pass'.ph = "tell" /\ pass'.seen = pass.seen /\ pass'.have = pass.have
  BY <1>p DEF Save, Hands
<1>2. ASSUME NEW m \in base' PROVE m \in base \/ (copies \ off \subseteq DOMAIN pass.have /\ \A n \in DOMAIN pass.have : m \in pass.have[n])
  <2>1. pass.unread \in Nat
    BY <1>p, HandsFacts
  <2> QED
    BY <1>1, <1>2, <2>1, SettleFacts DEF PartsInv, ReadAll
<1>3. NamesKept'
  <2>1. ASSUME NEW n \in Node, NEW m \in Claims(n)', Outer(m), ~Excused(NameOf(m))'
        PROVE  HasName(on[n], NameOf(m))
    <3>1. ~Excused(NameOf(m))
      BY <1>1, <2>1, ExcuseStands
    <3>2. m \in Claims(n)
      BY <1>1, <1>2, <2>1 DEF Claims, Read
    <3> QED
      BY <2>1, <3>1, <3>2 DEF TakenInv, NamesKept
  <2> QED
    BY <1>1, <2>1 DEF NamesKept
<1>4. BaseOne'
  <2>1. ASSUME NEW m \in base', NEW k \in base', Outer(m), Outer(k), NameOf(m) = NameOf(k), m # k
        PROVE  NameOf(m) \in hist.clashed /\ kind \notin {"variables", "packages"}
    <3>1. CASE m \in base /\ k \in base
      BY <2>1, <3>1 DEF TakenInv, BaseOne
    <3>2. CASE ~(m \in base /\ k \in base)
      <4>1. base' = Settle(pass.have, base) /\ DOMAIN pass.have # {}
        BY <1>1, <2>1, <3>2 DEF SettleRead, Settle
      <4>2. PICK n \in DOMAIN pass.have : m \in pass.have[n] /\ k \in pass.have[n]
        BY <2>1, <3>2, <4>1 DEF Settle
      <4>3. n \in Node
        BY <1>p, HandsFacts, SnapFacts
      <4>4. PICK i \in DOMAIN Order : Order[i] = n
        BY <4>3, PartsAssumption
      <4>5. pass.have[n] \subseteq Turned(n)
        BY <1>1, <4>4 DEF TakenInv, BeliefFrom, AsTurned
      <4>6. n \in DOMAIN pass.seen
        BY <1>p DEF Fit
      <4>7. NameOf(m) \in ContestedChanges(pass.seen, base) /\ kind \notin {"variables", "packages"}
        BY <2>1, <4>2, <4>5, <4>6, TwoTurned
      <4> QED
        BY <1>1, <4>7 DEF TakenInv, ClashNoted
    <3> QED
      BY <3>1, <3>2
  <2> QED
    BY <1>1, <2>1 DEF BaseOne
<1>5. SeenKept' /\ Asking' /\ ClashNoted'
  BY <1>1 DEF SeenKept, Asking, ClashNoted
<1>6. BeliefFrom'
  BY <1>1 DEF BeliefFrom, AsRead, AsTurned
<1> QED
  BY <1>3, <1>4, <1>5, <1>6 DEF TakenInv

\* What a call takes off the node it is made on is excused, whether the call is
\* answered or not.
LEMMA CallLeaves ==
  ASSUME PartsInv, TakenInv, Tracked, NEW op, NEW m, Call(op, m), NEW n \in Node, n = N,
         NEW k \in Claims(n), Outer(k), ~Excused(NameOf(k))
  PROVE  HasName(CallOf(n, op, m).after, NameOf(k))
<1>1. /\ pass.ph \in {"outer", "inner"} /\ <<op, m>> \in pass.left /\ InTurn(op)
      /\ kind \notin {"teams"}
  BY TrackedKinds DEF Call
<1>2. /\ m \in Member /\ op \in {"add", "remove"}
      /\ Outer(m) \/ (Inner(m) /\ kind \in Nested)
      /\ op = "add" => m \in Adds(pass, n)
      /\ op = "remove" => m \in Removes(pass, n)
  BY <1>1, TrackedKinds, LeftFacts
<1>3. HasName(on[n], NameOf(k))
  BY DEF TakenInv, NamesKept
<1>4. /\ pass.at \in DOMAIN Order /\ n = Order[pass.at] /\ n \in DOMAIN pass.seen
      /\ IF pass.ph = "outer" THEN Outer(m) ELSE Inner(m)
  <2>1. \A e \in pass.left : IF pass.ph = "outer" THEN Outer(e[2]) ELSE Inner(e[2])
    BY <1>1, TrackedKinds DEF PartsInv, CallsMeant
  <2>2. n \in DOMAIN pass.seen
    BY <1>1 DEF TakenInv, Asking
  <2> QED
    BY <1>1, <2>1, <2>2, TrackedKinds DEF PartsInv, CallsMeant, N
<1>5. HasName(Skip(n).after, NameOf(k))
  BY <1>3 DEF Skip
<1>6. Outer(m) => HasName(Put(on[n], m), NameOf(k))
  BY <1>3, PutNames
<1>7. ~Outer(m) => HasName(on[n] \ {m}, NameOf(k)) /\ HasName(on[n] \cup {m}, NameOf(k))
  BY <1>3 DEF HasName
<1>8. op = "remove" /\ Outer(m) => Excused(NameOf(m)) /\ HasName(Off(on[n], NameOf(m)), NameOf(k))
  <2> SUFFICES ASSUME op = "remove", Outer(m)
               PROVE  Excused(NameOf(m)) /\ HasName(Off(on[n], NameOf(m)), NameOf(k))
    OBVIOUS
  <2>1. pass.ph = "outer"
    BY <1>1, <1>2, <1>4, MemberFacts
  <2>2. PICK e \in pass.left : e = <<op, m>>
    BY <1>1
  <2>3. e[1] = "remove" /\ e[2] = m
    BY <2>2
  <2>4. m \notin Changing(pass, n)
    BY <1>4, <2>1, <2>3 DEF TakenInv, Asking, Changes
  <2>5. Excused(NameOf(m))
    BY <1>1, <1>2, <1>4, <2>4, RemovalExcused
  <2> QED
    BY <1>3, <2>5, OffNames
<1>9. CASE kind = "packages" /\ op = "remove" /\ WholeVersion(n)
  <2>1. Removes(pass, n) = pass.seen[n] /\ Changing(pass, n) = {}
    BY <1>9 DEF WholeVersion, Changing, InPlace
  <2>2. \A h \in pass.seen[n] : Outer(h) => Excused(NameOf(h))
    BY <1>1, <1>4, <2>1, RemovalExcused
  <2>3. pass.ph = "outer"
    BY <1>1, <1>2, <1>4, <1>9, MemberFacts DEF Nested
  <2>4. n \in DOMAIN pass.have => pass.have[n] \subseteq pass.seen[n]
    <3>1. PICK e \in pass.left : e = <<op, m>>
      BY <1>1
    <3>2. e[1] = "remove"
      BY <1>9, <3>1
    <3>3. AsRead(pass.at)
      BY <2>3, <3>2 DEF AsRead
    <3> QED
      BY <1>4, <3>3 DEF TakenInv, BeliefFrom
  <2>5. k \notin pass.seen[n]
    BY <2>2
  <2>6. k \in base
    BY <1>4, <2>4, <2>5 DEF Claims, Read
  <2>7. HasName(pass.seen[n], NameOf(k))
    BY <1>1, <1>4, <2>6 DEF TakenInv, SeenKept
  <2> QED
    BY <2>2, <2>7 DEF HasName
<1>10. CASE kind = "packages" /\ ~(op = "remove" /\ WholeVersion(n))
  BY <1>2, <1>5, <1>6, <1>8, <1>10 DEF CallOf, PackageCall, Ask, Nested
<1>11. CASE kind = "collaborators"
  BY <1>2, <1>6, <1>8, <1>11 DEF CallOf, CollaboratorCall, Ask, Delete, Nested
<1>12. CASE kind = "protection"
  BY <1>2, <1>6, <1>8, <1>12 DEF CallOf, RuleCall, Ask, Delete, Nested
<1>13. CASE kind = "variables"
  BY <1>2, <1>6, <1>8, <1>13 DEF CallOf, VariableCall, Ask, Delete, Nested
<1>14. CASE kind = "releases" /\ Outer(m)
  <2>1. CallOf(n, op, m) = ReleaseCall(n, op, m)
    BY <1>2, <1>14, MemberFacts DEF CallOf
  <2>2. ReleaseCall(n, op, m).after \in {on[n], Put(on[n], m), Off(on[n], NameOf(m))}
    BY DEF ReleaseCall, Ask, Delete, Skip
  <2>3. op = "add" => ReleaseCall(n, op, m).after \in {on[n], Put(on[n], m)}
    BY DEF ReleaseCall, Ask, Skip
  <2> QED
    BY <1>2, <1>3, <1>6, <1>8, <1>14, <2>1, <2>2, <2>3
<1>15. CASE kind = "releases" /\ ~Outer(m)
  BY <1>2, <1>5, <1>7, <1>15 DEF CallOf, AssetCall, Ask, Delete
<1> QED
  BY <1>9, <1>10, <1>11, <1>12, <1>13, <1>14, <1>15, TrackedKinds

\* What is believed after a call is what was believed, and what was added.
LEMMA CallTaken ==
  ASSUME NEW op \in {"add", "remove"}, NEW m \in Member, PartsInv, TakenInv, Call(op, m)
  PROVE  TakenInv'
<1> SUFFICES ASSUME Tracked PROVE TakenInv'
  BY DEF TakenInv, Tracked, Call
<1>p. pass \in Hands /\ Fit(pass)
  BY PassFits DEF PartsInv, AllTyped
<1>1. /\ pass.ph \in {"outer", "inner"} /\ SetKind /\ <<op, m>> \in pass.left /\ InTurn(op)
      /\ UNCHANGED <<kind, copies, off, base>>
      /\ on \in [Node -> SUBSET Member] /\ hist \in Hists
      /\ pass.at \in DOMAIN Order /\ pass.at \in Nat
  BY <1>p, HandsFacts DEF Call, PartsInv, AllTyped, CallsMeant
<1>2. /\ N \in Node
      /\ op = "add" => m \in Adds(pass, N)
      /\ Outer(m) \/ (Inner(m) /\ kind \in Nested)
  BY <1>1, LeftFacts
<1>3. PICK n \in Node : n = N
  BY <1>2
<1>4. PICK c : c = CallOf(n, op, m)
  OBVIOUS
<1>5. PICK left, belief : left = pass.left \ {<<op, m>>} /\ belief = [pass.have EXCEPT ![n] = Believed(op, m)]
  OBVIOUS
<1>6. /\ on' = on \/ on' = [on EXCEPT ![n] = c.after]
      /\ hist'.taken = hist.taken /\ hist'.clashed = hist.clashed
      /\ pass'.ph = pass.ph /\ pass'.at = pass.at /\ pass'.seen = pass.seen /\ pass'.left = left
      /\ \/ pass'.have = pass.have
         \/ pass'.have = belief /\ c.asked /\ c.can /\ on' = [on EXCEPT ![n] = c.after]
  BY <1>p, <1>1, <1>3, <1>4, <1>5 DEF Call, Answered, Unanswered, Been, Hands, Hists
<1>7. op = "add" /\ c.asked /\ c.can => m \in c.after
  <2>1. Sound(kind, FieldNames, on[n])
    BY DEF PartsInv, AllSound
  <2> QED
    BY <1>2, <1>4, <2>1, CallSound, TrackedKinds
<1>8. /\ DOMAIN belief = DOMAIN pass.have
      /\ \A o \in DOMAIN belief : belief[o] \subseteq pass.have[o] \/ (o = n /\ op = "add" /\ belief[o] = pass.have[o] \cup {m})
  BY <1>3, <1>5 DEF Believed
<1>9. ASSUME NEW o \in Node, NEW k \in Claims(o)', Outer(k), ~Excused(NameOf(k))'
      PROVE  HasName(on'[o], NameOf(k))
  <2>1. ~Excused(NameOf(k))
    BY <1>1, <1>6, <1>9, ExcuseStands
  <2>2. CASE k \in Claims(o)
    <3>1. HasName(on[o], NameOf(k))
      BY <1>9, <2>1, <2>2 DEF TakenInv, NamesKept
    <3>2. o = n => HasName(c.after, NameOf(k))
      BY <1>3, <1>4, <1>9, <2>1, <2>2, CallLeaves
    <3> QED
      BY <1>1, <1>6, <3>1, <3>2
  <2>3. CASE k \notin Claims(o)
    <3>1. /\ k = m /\ o = n /\ op = "add" /\ c.asked /\ c.can /\ on' = [on EXCEPT ![n] = c.after]
      BY <1>1, <1>6, <1>8, <1>9, <2>3 DEF Claims, Read
    <3> QED
      BY <1>1, <1>7, <1>9, <3>1 DEF HasName
  <2> QED
    BY <2>2, <2>3
<1>10. NamesKept'
  BY <1>9 DEF NamesKept
<1>11. SeenKept'
  BY <1>1, <1>6, ExcuseStands DEF TakenInv, SeenKept
<1>12. BaseOne' /\ ClashNoted'
  BY <1>1, <1>6 DEF TakenInv, BaseOne, ClashNoted
<1>13. \A o : Changes(o)' = Changes(o) /\ Turned(o)' = Turned(o)
  BY <1>1, <1>6, SameSets
<1>14. Asking'
  BY <1>1, <1>5, <1>6, <1>13 DEF TakenInv, Asking, N
<1>15. op = "add" /\ pass.ph = "outer" => \A e \in pass.left : e[1] # "remove"
  BY <1>1, TrackedKinds DEF InTurn, FirstOp
<1>16. BeliefFrom'
  <2> SUFFICES ASSUME NEW i \in DOMAIN Order, Order[i] \in DOMAIN pass.have
               PROVE  /\ AsRead(i)' => pass'.have[Order[i]] \subseteq pass.seen[Order[i]]
                      /\ AsTurned(i)' => pass'.have[Order[i]] \subseteq Turned(Order[i])
    BY <1>6, <1>8, <1>13 DEF BeliefFrom
  <2>1. /\ AsRead(i)' => AsRead(i)
        /\ AsTurned(i)' => AsTurned(i)
    BY <1>5, <1>6 DEF AsRead, AsTurned
  <2>2. CASE pass'.have[Order[i]] \subseteq pass.have[Order[i]]
    BY <2>1, <2>2 DEF TakenInv, BeliefFrom
  <2>3. CASE Order[i] = n /\ op = "add" /\ pass'.have[Order[i]] = pass.have[Order[i]] \cup {m}
    <3>1. i = pass.at
      BY <1>1, <1>3, <2>3, PartsAssumption DEF N
    <3>2. ~AsRead(i)'
      BY <1>1, <1>5, <1>6, <1>15, <2>3, <3>1 DEF AsRead
    <3>3. m \in Turned(Order[i])
      BY <1>2, <1>3, <2>3 DEF Turned
    <3> QED
      BY <2>1, <2>3, <3>2, <3>3 DEF TakenInv, BeliefFrom
  <2> QED
    BY <1>6, <1>8, <2>2, <2>3
<1> QED
  BY <1>10, <1>11, <1>12, <1>14, <1>16 DEF TakenInv

LEMMA TakenInit == Init => TakenInv
<1> SUFFICES ASSUME Init, Tracked PROVE TakenInv
  BY DEF TakenInv
<1>1. /\ on = [n \in Node |-> base] /\ pass = NoPass /\ off = {} /\ pass.ph = "idle"
      /\ DOMAIN pass.seen = {} /\ DOMAIN pass.have = {}
  BY NothingRead DEF Init, NoPass
<1>2. NamesKept
  BY <1>1 DEF NamesKept, Claims, Read, HasName
<1>3. BaseOne
  BY FirstBase DEF BaseOne, Sound, OneValue
<1>4. SeenKept /\ Asking /\ ClashNoted
  BY <1>1 DEF SeenKept, Asking, ClashNoted
<1>5. BeliefFrom
  BY <1>1 DEF BeliefFrom
<1> QED
  BY <1>2, <1>3, <1>4, <1>5 DEF TakenInv

LEMMA TakenStep == PartsInv /\ TakenInv /\ [Next]_vars => TakenInv'
<1> SUFFICES ASSUME PartsInv, TakenInv, [Next]_vars PROVE TakenInv'
  OBVIOUS
<1> SUFFICES ASSUME Tracked PROVE TakenInv'
  <2>1. ASSUME People PROVE kind' = kind
    BY <2>1 DEF People, Give, TakeAway, Change, Tamper, TurnOff, Person
  <2>2. ASSUME NEW n \in Node, CreateOrg(n) \/ ReassertGuard(n) \/ LiftGuard(n) PROVE kind' = kind
    BY <2>2 DEF CreateOrg, ReassertGuard, LiftGuard
  <2>3. ASSUME NEW op, NEW m, Call(op, m) PROVE kind' = kind
    BY <2>3 DEF Call
  <2>4. ASSUME NEW x, WriteField(x) PROVE kind' = kind
    BY <2>4 DEF WriteField
  <2>5. ASSUME Begin \/ ReadNode \/ ReadFails \/ Compare \/ NextTurn \/ SetTopics \/ TopicsWritten PROVE kind' = kind
    BY <2>5 DEF Begin, ReadNode, ReadFails, Compare, NextTurn, SetTopics, TopicsWritten
  <2>6. ASSUME NoField \/ SaveFields \/ FollowPrivate \/ BeginGuard \/ GuardRead \/ GuardWrite PROVE kind' = kind
    BY <2>6 DEF NoField, SaveFields, FollowPrivate, BeginGuard, GuardRead, GuardWrite
  <2>7. ASSUME EndGuard \/ PutGuardBack \/ Save \/ Tell \/ CutOff \/ TagArrives \/ UNCHANGED vars PROVE kind' = kind
    BY <2>7 DEF EndGuard, PutGuardBack, Save, Tell, CutOff, TagArrives, vars
  <2>8. ASSUME Pass PROVE kind' = kind
    BY <2>2, <2>3, <2>4, <2>5, <2>6, <2>7, <2>8 DEF Pass
  <2>9. kind' = kind
    BY <2>1, <2>2, <2>7, <2>8 DEF Next
  <2> QED
    BY <2>9 DEF TakenInv, Tracked
<1>1. pass.ph \notin {"orgs", "guard", "guarding", "lifted"}
  BY DEF PartsInv, Phases
<1>2. CASE People
  BY <1>2, PeopleTaken
<1>3. CASE Begin \/ ReadNode \/ ReadFails
  BY <1>3, ReadingTaken
<1>4. CASE Compare \/ NextTurn \/ Save
  BY <1>4, CompareTaken, NextTurnTaken, SaveTaken
<1>5. CASE \E op \in {"add", "remove"}, m \in Member : Call(op, m)
  BY <1>5, CallTaken
<1>6. CASE Tell \/ CutOff
  BY <1>6, EndTaken DEF Tell, CutOff
<1>7. CASE TagArrives \/ UNCHANGED vars
  <2>1. UNCHANGED <<kind, on, base, copies, off, pass, hist>>
    BY <1>7 DEF TagArrives, vars
  <2>2. NamesKept'
    BY <2>1, NamesStay DEF Read
  <2> QED
    BY <2>1, <2>2, AsideTaken
<1>8. /\ \A n \in Node : ~CreateOrg(n) /\ ~LiftGuard(n) /\ ~ReassertGuard(n)
      /\ ~SetTopics /\ ~TopicsWritten /\ ~NoField /\ ~SaveFields /\ ~FollowPrivate
      /\ \A x \in Name : ~WriteField(x)
      /\ ~BeginGuard /\ ~GuardRead /\ ~GuardWrite /\ ~EndGuard /\ ~PutGuardBack
  BY <1>1, TrackedKinds DEF CreateOrg, LiftGuard, ReassertGuard, SetTopics, TopicsWritten, NoField, SaveFields,
     FollowPrivate, WriteField, BeginGuard, GuardRead, GuardWrite, EndGuard, PutGuardBack, Plain
<1> QED
  BY <1>2, <1>3, <1>4, <1>5, <1>6, <1>7, <1>8 DEF Next, Pass

\* Which steps of ForgeSync's write a part of a tracked kind.
LEMMA TrackedWrites ==
  ASSUME PartsInv, [Next]_vars, Ours, Tracked, on' # on
  PROVE  \E op \in {"add", "remove"}, k \in Member : Call(op, k)
<1>1. edits \in Nat /\ pass.ph \notin {"guard", "guarding", "lifted"}
  BY PartsAssumption DEF PartsInv, AllTyped, Phases
<1>2. ~People
  <2>1. People => edits' = edits - 1
    BY DEF People, Give, TakeAway, Change, Tamper, TurnOff, Person
  <2> QED
    BY <1>1, <2>1 DEF Ours
<1>3. ~CutOff /\ ~TagArrives /\ ~UNCHANGED vars
  BY DEF CutOff, TagArrives, vars
<1>4. \A n \in Node : ~LiftGuard(n) /\ ~ReassertGuard(n) /\ ~CreateOrg(n)
  BY TrackedKinds DEF LiftGuard, ReassertGuard, CreateOrg
<1>5. ~(Begin \/ ReadNode \/ ReadFails \/ Compare \/ NextTurn \/ TopicsWritten \/ NoField
        \/ SaveFields \/ BeginGuard \/ GuardRead \/ EndGuard \/ Save \/ Tell)
  BY DEF Begin, ReadNode, ReadFails, Compare, NextTurn, TopicsWritten, NoField, SaveFields, BeginGuard,
         GuardRead, EndGuard, Save, Tell
<1>6. ~(SetTopics \/ FollowPrivate \/ GuardWrite \/ PutGuardBack \/ \E x \in Name : WriteField(x))
  BY <1>1, TrackedKinds DEF SetTopics, FollowPrivate, GuardWrite, PutGuardBack, WriteField, Plain
<1> QED
  BY <1>2, <1>3, <1>4, <1>5, <1>6 DEF Next, Pass

\* OnlyPeopleRemove: a name that was read on a node goes, by ForgeSync's hand,
\* only when people took it away somewhere, or two values of it clashed.
THEOREM PeopleRemove == Spec => OnlyPeopleRemove
<1>1. ASSUME PartsInv, TakenInv, [Next]_vars, Ours, Tracked, on' # on, NEW n \in Node, NEW m \in Member,
             m \in on[n], Outer(m), m \in Read(n), ~HasName(on'[n], NameOf(m))
      PROVE  m \in hist.taken \/ (NameOf(m) \in hist.clashed /\ kind \notin {"variables", "packages"})
  <2>1. PICK op \in {"add", "remove"}, k \in Member : Call(op, k)
    BY <1>1, TrackedWrites
  <2>2. on' = [on EXCEPT ![N] = CallOf(N, op, k).after] /\ on \in [Node -> SUBSET Member]
    BY <1>1, <2>1 DEF Call, Answered, Unanswered, PartsInv, AllTyped
  <2>3. m \in Claims(n)
    BY <1>1 DEF Claims
  <2>4. HasName(on[n], NameOf(m))
    BY <1>1 DEF HasName
  <2>5. n = N /\ ~HasName(CallOf(n, op, k).after, NameOf(m))
    BY <1>1, <2>2, <2>4
  <2>6. Excused(NameOf(m))
    BY <1>1, <2>1, <2>3, <2>5, CallLeaves
  <2> QED
    BY <1>1, <2>6 DEF Excused
<1>2. PartsInv /\ TakenInv /\ [Next]_vars =>
        (Ours /\ kind \in InPlace \cup {"packages"} /\ on' # on =>
           \A n \in Node, m \in Member :
             (m \in on[n] /\ Outer(m) /\ m \in Read(n) /\ ~HasName(on'[n], NameOf(m)))
               => \/ m \in hist.taken
                  \/ NameOf(m) \in hist.clashed /\ kind \notin {"variables", "packages"})
  BY <1>1 DEF Tracked
<1>3. Spec => []TakenInv
  BY PartsAlways, TakenInit, TakenStep, PTL DEF Spec
<1> QED
  BY <1>2, <1>3, PartsAlways, PTL DEF Spec, OnlyPeopleRemove
===============================================================================
