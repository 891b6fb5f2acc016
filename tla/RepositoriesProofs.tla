------------------------ MODULE RepositoriesProofs --------------------------
(***************************************************************************)
(* Proofs about Inventory and Repositories: what is recorded of the        *)
(* repositories, and what runs do to them, keeps names apart and points to *)
(* repositories that are there (RepositoriesTypeOK).                       *)
(***************************************************************************)
EXTENDS Repositories, WellFoundedInduction, FiniteSetTheorems, TLAPS

-----------------------------------------------------------------------------
(* Numbers, nodes and functions.                                           *)

\* A set of numbers has a least one.
LEMMA LowestIn ==
  ASSUME NEW S \in SUBSET Nat, S # {}
  PROVE  Lowest(S) \in S /\ \A k \in S : Lowest(S) <= k
<1> DEFINE R == {ss \in Nat \X Nat : ss[1] < ss[2]}
<1>1. IsWellFoundedOn(R, Nat)
  BY NatLessThanWellFounded, Zenon DEF OpToRel
<1>2. PICK k \in S : \A j \in S : <<j, k>> \notin R
  BY <1>1, WFMin, Zenon
<1>3. ASSUME NEW j \in S, ~(k <= j) PROVE FALSE
  <2>1. <<j, k>> \in Nat \X Nat /\ <<j, k>>[1] < <<j, k>>[2]
    BY <1>3
  <2> QED
    BY <2>1, <1>2, Zenon
<1> QED
  BY <1>3 DEF Lowest

\* Functions that are given on some members of S only.
Partial(S, T) == UNION {[D -> T] : D \in SUBSET S}

LEMMA PartialIs ==
  ASSUME NEW S, NEW T, NEW f \in Partial(S, T)
  PROVE  DOMAIN f \in SUBSET S /\ f \in [DOMAIN f -> T]
<1>1. PICK D \in SUBSET S : f \in [D -> T]
  BY DEF Partial
<1> QED
  BY <1>1

LEMMA IsPartial ==
  ASSUME NEW S, NEW T, NEW D \in SUBSET S, NEW f \in [D -> T]
  PROVE  f \in Partial(S, T)
BY DEF Partial

LEMMA EmptyPartial ==
  ASSUME NEW S, NEW T
  PROVE  << >> \in Partial(S, T) /\ DOMAIN << >> = {}
<1>1. DOMAIN << >> = {} /\ << >> = [x \in {} |-> << >>[x]]
  OBVIOUS
<1>2. << >> \in [{} -> T]
  BY <1>1
<1> QED
  BY <1>1, <1>2, IsPartial

-----------------------------------------------------------------------------
(* Names: those people give, and those of archives, of archives of         *)
(* archives, and so on.                                                    *)

Tower(g, m) == g = [k \in 0 .. m |-> IF k = 0 THEN Name ELSE g[k - 1] \cup (g[k - 1] \X Nat)]
Layers(m) == CHOOSE g : Tower(g, m)
AllNames == UNION {Layers(m)[m] : m \in Nat}

LEMMA TowerIs ==
  ASSUME NEW m \in Nat, NEW g, Tower(g, m), NEW k \in 0 .. m
  PROVE  /\ k = 0 => g[k] = Name
         /\ k # 0 => k - 1 \in 0 .. m /\ g[k] = g[k - 1] \cup (g[k - 1] \X Nat)
<1> DEFINE h == [j \in 0 .. m |-> IF j = 0 THEN Name ELSE g[j - 1] \cup (g[j - 1] \X Nat)]
<1>1. g = h
  BY DEF Tower
<1>2. h[k] = IF k = 0 THEN Name ELSE g[k - 1] \cup (g[k - 1] \X Nat)
  OBVIOUS
<1>3. g[k] = h[k]
  BY <1>1
<1> HIDE DEF h
<1> QED
  BY <1>2, <1>3

LEMMA TowerStands ==
  ASSUME NEW m \in Nat
  PROVE  \E g : Tower(g, m)
<1> DEFINE Bad == {j \in Nat : ~\E g : Tower(g, j)}
<1>1. SUFFICES ASSUME Bad # {} PROVE FALSE
  OBVIOUS
<1>2. PICK j \in Bad : \A k \in Bad : j <= k
  BY <1>1, LowestIn
<1>3. CASE j = 0
  <2> DEFINE h == [k \in 0 .. 0 |-> Name]
  <2>1. h = [k \in 0 .. 0 |-> IF k = 0 THEN Name ELSE h[k - 1] \cup (h[k - 1] \X Nat)]
    OBVIOUS
  <2> QED
    BY <2>1, <1>3, Zenon DEF Tower
<1>4. CASE j # 0
  <2>1. j - 1 \in Nat /\ j - 1 \notin Bad /\ j \in Nat
    BY <1>2, <1>4
  <2>2. PICK g : Tower(g, j - 1)
    BY <2>1
  <2> DEFINE h == [k \in 0 .. j |-> IF k = j THEN g[j - 1] \cup (g[j - 1] \X Nat) ELSE g[k]]
  <2>3. ASSUME NEW k \in 0 .. j
        PROVE  h[k] = IF k = 0 THEN Name ELSE h[k - 1] \cup (h[k - 1] \X Nat)
    <3>1. CASE k = j
      BY <3>1, <1>4, <2>1
    <3>2. CASE k # j
      <4>1. k \in 0 .. j - 1
        BY <3>2, <2>1
      <4>2. h[k] = g[k] /\ (k # 0 => h[k - 1] = g[k - 1])
        BY <4>1, <2>1
      <4>3. /\ k = 0 => g[k] = Name
            /\ k # 0 => g[k] = g[k - 1] \cup (g[k - 1] \X Nat)
        BY <4>1, <2>1, <2>2, TowerIs
      <4> HIDE DEF h
      <4> QED
        BY <4>2, <4>3
    <3> QED
      BY <3>1, <3>2
  <2>4. h = [k \in 0 .. j |-> h[k]]
    OBVIOUS
  <2> HIDE DEF h
  <2>5. h = [k \in 0 .. j |-> IF k = 0 THEN Name ELSE h[k - 1] \cup (h[k - 1] \X Nat)]
    BY <2>3, <2>4
  <2> QED
    BY <2>5, <1>2 DEF Tower
<1> QED
  BY <1>3, <1>4

LEMMA TowersAgree ==
  ASSUME NEW m \in Nat, NEW g, NEW h, Tower(g, m), Tower(h, m + 1)
  PROVE  g[m] = h[m]
<1> DEFINE Bad == {j \in 0 .. m : g[j] # h[j]}
<1>1. SUFFICES ASSUME Bad # {} PROVE FALSE
  OBVIOUS
<1>2. Bad \in SUBSET Nat
  OBVIOUS
<1>3. PICK j \in Bad : \A k \in Bad : j <= k
  BY <1>1, <1>2, LowestIn
<1>4. j \in 0 .. m /\ j \in 0 .. m + 1 /\ g[j] # h[j] /\ m + 1 \in Nat
  BY <1>3
<1>5. j # 0 => g[j - 1] = h[j - 1]
  BY <1>3
<1>6. /\ j = 0 => g[j] = Name
      /\ j # 0 => g[j] = g[j - 1] \cup (g[j - 1] \X Nat)
  BY <1>4, TowerIs
<1>7. /\ j = 0 => h[j] = Name
      /\ j # 0 => h[j] = h[j - 1] \cup (h[j - 1] \X Nat)
  BY <1>4, TowerIs
<1> QED
  BY <1>4, <1>5, <1>6, <1>7

LEMMA NamesClosed ==
  /\ Name \subseteq AllNames
  /\ \A x \in AllNames, k \in Nat : <<x, k>> \in AllNames
<1>1. ASSUME NEW m \in Nat PROVE Tower(Layers(m), m)
  BY TowerStands DEF Layers
<1>2. Layers(0)[0] = Name
  BY <1>1, TowerIs
<1>3. ASSUME NEW x \in AllNames, NEW k \in Nat PROVE <<x, k>> \in AllNames
  <2>1. PICK m \in Nat : x \in Layers(m)[m]
    BY DEF AllNames
  <2>2. Layers(m)[m] = Layers(m + 1)[m]
    BY <1>1, TowersAgree
  <2>3. m + 1 \in 0 .. m + 1 /\ m + 1 # 0 /\ (m + 1) - 1 = m /\ m + 1 \in Nat
    OBVIOUS
  <2>4. Layers(m + 1)[m + 1] = Layers(m + 1)[m] \cup (Layers(m + 1)[m] \X Nat)
    BY <1>1, <2>3, TowerIs
  <2>5. <<x, k>> \in Layers(m + 1)[m + 1]
    BY <2>1, <2>2, <2>4
  <2> QED
    BY <2>3, <2>5 DEF AllNames
<1> QED
  BY <1>2, <1>3 DEF AllNames

-----------------------------------------------------------------------------
(* Types.                                                                  *)

\* The order of the nodes has each of them once.
LEMMA Nodes ==
  /\ Order \in Seq(Node) /\ DOMAIN Order = 1 .. Len(Order) /\ Len(Order) \in Nat
  /\ \A k \in DOMAIN Order : Order[k] \in Node
  /\ Order[1] \in Node
<1>1. Order \in Seq(Node) /\ DOMAIN Order = 1 .. Len(Order) /\ Len(Order) \in Nat /\ Len(Order) > 0
  BY InventoryAssumption
<1>2. Order \in [DOMAIN Order -> Node]
  BY <1>1
<1> QED
  BY <1>1, <1>2

RepoT == [name : AllNames, place : {"live", "org", "gone"}, line : Nat \cup {None}, at : Nat]
RowT == [present : BOOLEAN, fid : Nat, name : AllNames]
RecT == [name : AllNames, primary : Node \cup {None}, manual : BOOLEAN, deleted : BOOLEAN, rep : Partial(Node, RowT)]
ArchiveT == [rec : Nat, node : Node, orig : AllNames, fid : Nat, state : {"renamed", "archived", "due", "purged"}]

RoundT ==
    [ph : {"idle", "scan", "assign", "run"}, listed : Partial(Node, Partial(Nat, RowT)), left : SUBSET Node,
     observed : SUBSET (Node \X Nat), merged : SUBSET Nat, list : Partial(Nat, RecT), todo : SUBSET Nat]
RecheckT ==
    [ph : {"idle", "ask", "assign"}, name : AllNames \cup {None}, node : Node \cup {None}, again : BOOLEAN,
     left : SUBSET Node, merged : SUBSET Nat]
JobT ==
    [ph : {"idle", "purge", "look", "undelete", "renamed?", "mark", "archive", "save", "seed", "seedPush", "copy", "push", "after"},
     id : Nat, rec : RecT \cup {<< >>}, left : Seq(Node), line : Nat \cup {None}, triggered : BOOLEAN]

\* The node a row or an archive speaks of has had the repository.
RowThere(n, row) == row.fid \in DOMAIN on[n]
RowsThere(r) == \A n \in DOMAIN r.rep : RowThere(n, r.rep[n])

OnOK ==
    /\ on \in [Node -> Seq(RepoT)]
    /\ \A n \in Node : \A i, j \in Live(n) : on[n][i].name = on[n][j].name => i = j

RecordsOK(R) ==
    /\ R \in Partial(Nat, RecT) /\ IsFiniteSet(DOMAIN R)
    /\ \A id \in DOMAIN R : RowsThere(R[id])
    /\ \A id, o \in DOMAIN R : R[id].name = R[o].name => id = o

AliasesOK(al, R) ==
    /\ al \in Partial(AllNames, Nat)
    /\ \A name \in DOMAIN al : al[name] \in DOMAIN R

ArchivesOK(A, R) ==
    /\ A \subseteq ArchiveT
    /\ \A a \in A : a.rec \in DOMAIN R /\ a.fid \in DOMAIN on[a.node]

RoundOK(r) ==
    /\ r \in RoundT
    /\ \A n \in DOMAIN r.listed : \A i \in DOMAIN r.listed[n] : RowThere(n, r.listed[n][i])
    /\ \A id \in DOMAIN r.list : RowsThere(r.list[id])
    /\ \A id \in r.todo : id \in DOMAIN r.list /\ r.list[id].primary # None

\* The job at hand: whose it is, which node is next, and what was renamed away.
JobOK(j) ==
    /\ j \in JobT
    /\ j.ph # "idle" => j.rec \in RecT /\ j.rec.primary \in Node /\ RowsThere(j.rec)
    /\ j.ph \in PerNode => j.left # << >>
    /\ j.ph = "save" => j.line \in DOMAIN on[Head(j.left)]
    /\ j.ph = "seedPush" => Present(j.rec) \ {j.rec.primary} # {}

RestOK ==
    /\ home \in Node \cup {None} /\ scanOk \in [Node -> BOOLEAN] /\ made \in Nat
    /\ edits \in 0 .. MaxEdits /\ faults \in 0 .. MaxFaults /\ rechecks \in 0 .. MaxRechecks
    /\ hist \in [next : Nat, lines : SUBSET Nat, ended : SUBSET (Nat \cup {None}),
                 taken : BOOLEAN, moved : BOOLEAN, stale : BOOLEAN]

TypeInv ==
    /\ OnOK /\ RecordsOK(recs) /\ AliasesOK(aliases, recs) /\ ArchivesOK(archives, recs)
    /\ RoundOK(round) /\ recheck \in RecheckT /\ JobOK(job) /\ RestOK

-----------------------------------------------------------------------------
(* What is recorded.                                                       *)

LEMMA RecordsAre ==
  ASSUME NEW R, RecordsOK(R)
  PROVE  /\ DOMAIN R \in SUBSET Nat /\ R \in [DOMAIN R -> RecT]
         /\ \A id \in DOMAIN R : /\ R[id] \in RecT /\ DOMAIN R[id].rep \in SUBSET Node
                                 /\ R[id].rep \in [DOMAIN R[id].rep -> RowT]
<1>1. DOMAIN R \in SUBSET Nat /\ R \in [DOMAIN R -> RecT]
  BY PartialIs DEF RecordsOK
<1>2. ASSUME NEW id \in DOMAIN R
      PROVE  R[id] \in RecT /\ DOMAIN R[id].rep \in SUBSET Node /\ R[id].rep \in [DOMAIN R[id].rep -> RowT]
  <2>1. R[id] \in RecT
    BY <1>1
  <2>2. R[id].rep \in Partial(Node, RowT)
    BY <2>1 DEF RecT
  <2> QED
    BY <2>1, <2>2, PartialIs
<1> QED
  BY <1>1, <1>2

\* The records are sound if each is, and no two share a name.
LEMMA SoundRecords ==
  ASSUME NEW D \in SUBSET Nat, IsFiniteSet(D), NEW R \in [D -> RecT],
         \A id \in D : RowsThere(R[id]),
         \A id, o \in D : R[id].name = R[o].name => id = o
  PROVE  RecordsOK(R)
<1>1. R \in Partial(Nat, RecT) /\ DOMAIN R = D
  BY IsPartial
<1> QED
  BY <1>1 DEF RecordsOK

\* The id of a new record is a number no record has.
LEMMA NewIdIsNew ==
  ASSUME NEW R, RecordsOK(R), hist.next \in Nat
  PROVE  NewId(R) \in Nat /\ NewId(R) \notin DOMAIN R
<1> DEFINE D == DOMAIN R
           c == Cardinality(D)
           a == hist.next
           S == {k \in a .. a + c : k \notin D}
<1>1. IsFiniteSet(D) /\ c \in Nat /\ a \in Nat
  BY FS_CardinalityType DEF RecordsOK
<1>2. S # {}
  <2>1. SUFFICES ASSUME S = {} PROVE FALSE
    OBVIOUS
  <2>2. a .. a + c \subseteq D
    BY <2>1
  <2>3. Cardinality(a .. a + c) <= c
    BY <1>1, <2>2, FS_Subset
  <2>4. a + c \in Int /\ a \in Int
    BY <1>1
  <2>5. Cardinality(a .. a + c) = c + 1
    BY <1>1, <2>4, FS_Interval
  <2> QED
    BY <1>1, <2>3, <2>5
<1>3. S \in SUBSET Nat
  BY <1>1
<1>4. Lowest(S) \in S
  BY <1>2, <1>3, LowestIn
<1>5. NewId(R) = Lowest(S)
  BY DEF NewId
<1> HIDE DEF S
<1>6. NewId(R) \in S
  BY <1>4, <1>5
<1> QED
  BY <1>3, <1>6 DEF S

LEMMA KnownIs ==
  ASSUME NEW name \in AllNames
  PROVE  Known(name) \in RecT /\ RowsThere(Known(name)) /\ Known(name).name = name
<1>1. << >> \in Partial(Node, RowT) /\ DOMAIN << >> = {}
  BY EmptyPartial
<1>2. Known(name).rep = << >>
  BY DEF Known
<1>3. Known(name) \in RecT
  BY <1>1 DEF Known, RecT
<1> QED
  BY <1>1, <1>2, <1>3 DEF RowsThere, Known

LEMMA WithRowIs ==
  ASSUME NEW R, RecordsOK(R), NEW id \in DOMAIN R, NEW n \in Node, NEW row \in RowT, RowThere(n, row)
  PROVE  RecordsOK(WithRow(R, id, n, row)) /\ DOMAIN WithRow(R, id, n, row) = DOMAIN R
<1> DEFINE r == R[id]
           rep == [o \in DOMAIN r.rep \cup {n} |-> IF o = n THEN row ELSE r.rep[o]]
           s == [r EXCEPT !.rep = rep]
           Q == WithRow(R, id, n, row)
<1>1. /\ DOMAIN R \in SUBSET Nat /\ R \in [DOMAIN R -> RecT] /\ r \in RecT
      /\ DOMAIN r.rep \in SUBSET Node /\ r.rep \in [DOMAIN r.rep -> RowT]
  BY RecordsAre
<1>2. Q = [R EXCEPT ![id] = s]
  BY <1>1 DEF WithRow, RecT
<1>3. rep \in [DOMAIN r.rep \cup {n} -> RowT] /\ DOMAIN r.rep \cup {n} \in SUBSET Node
  BY <1>1
<1>4. rep \in Partial(Node, RowT)
  BY <1>3, IsPartial
<1>5. s \in RecT /\ s.rep = rep /\ s.name = r.name
  BY <1>1, <1>4 DEF RecT
<1>6. RowsThere(s)
  <2>1. RowsThere(r)
    BY DEF RecordsOK
  <2> QED
    BY <2>1, <1>5, <1>3 DEF RowsThere
<1> HIDE DEF s, rep
<1>7. DOMAIN Q = DOMAIN R /\ Q \in [DOMAIN R -> RecT]
  BY <1>1, <1>2, <1>5
<1>8. \A k \in DOMAIN R : RowsThere(Q[k]) /\ Q[k].name = R[k].name
  BY <1>1, <1>2, <1>5, <1>6 DEF RecordsOK
<1> HIDE DEF Q
<1>9. IsFiniteSet(DOMAIN R) /\ \A k, o \in DOMAIN R : Q[k].name = Q[o].name => k = o
  BY <1>8 DEF RecordsOK
<1>10. RecordsOK(Q)
  BY <1>1, <1>7, <1>8, <1>9, SoundRecords
<1> QED
  BY <1>7, <1>10 DEF Q

\* One row recorded.
LEMMA RecordedIs ==
  ASSUME NEW R, RecordsOK(R), AliasesOK(aliases, R), hist.next \in Nat,
         NEW n \in Node, NEW row \in RowT, RowThere(n, row), NEW names
  PROVE  /\ RecordsOK(Recorded(R, n, row, names))
         /\ DOMAIN R \subseteq DOMAIN Recorded(R, n, row, names)
<1> DEFINE ids == Owning(R, n, row.name, names)
           id == IF ids # {} THEN Lowest(ids) ELSE NewId(R)
           R1 == IF ids # {} THEN R ELSE [k \in DOMAIN R \cup {id} |-> IF k = id THEN Known(row.name) ELSE R[k]]
<1>1. DOMAIN R \in SUBSET Nat /\ R \in [DOMAIN R -> RecT] /\ row.name \in AllNames
  BY RecordsAre DEF RowT
<1>2. RecordsOK(R1) /\ DOMAIN R \subseteq DOMAIN R1 /\ id \in DOMAIN R1
  <2>1. CASE ids # {}
    <3>1. ids \subseteq DOMAIN R
      BY DEF Owning, ByName, AliasesOK
    <3>2. Lowest(ids) \in ids
      BY <3>1, <2>1, <1>1, LowestIn
    <3> QED
      BY <3>1, <3>2, <2>1
  <2>2. CASE ids = {}
    <3>1. ByName(R, row.name) = {}
      BY <2>2 DEF Owning
    <3>2. id = NewId(R) /\ NewId(R) \in Nat /\ NewId(R) \notin DOMAIN R
      BY <2>2, NewIdIsNew
    <3>3. Known(row.name) \in RecT /\ RowsThere(Known(row.name)) /\ Known(row.name).name = row.name
      BY <1>1, KnownIs
    <3> DEFINE D == DOMAIN R \cup {NewId(R)}
               Q == [k \in D |-> IF k = NewId(R) THEN Known(row.name) ELSE R[k]]
    <3>4. R1 = Q
      BY <2>2
    <3>5. D \in SUBSET Nat /\ IsFiniteSet(D)
      BY <1>1, <3>2, FS_AddElement DEF RecordsOK
    <3>6. Q \in [D -> RecT]
      BY <1>1, <3>3
    <3>7. \A k \in D : RowsThere(Q[k])
      BY <3>3 DEF RecordsOK
    <3>8. \A k, o \in D : Q[k].name = Q[o].name => k = o
      BY <3>1, <3>3 DEF RecordsOK, ByName
    <3>9. RecordsOK(Q)
      BY <3>5, <3>6, <3>7, <3>8, SoundRecords
    <3> HIDE DEF R1, id
    <3> QED
      BY <3>2, <3>4, <3>9
  <2> QED
    BY <2>1, <2>2
<1>3. Recorded(R, n, row, names) = WithRow(R1, id, n, row)
  BY DEF Recorded
<1> HIDE DEF R1, id
<1> QED
  BY <1>2, <1>3, WithRowIs

\* All rows of a scan recorded, one after the other.
LEMMA RecordedAllIs ==
  ASSUME NEW R, RecordsOK(R), AliasesOK(aliases, R), hist.next \in Nat, NEW n \in Node, Len(on[n]) \in Nat,
         NEW rows, \A i \in DOMAIN rows : rows[i] \in RowT /\ RowThere(n, rows[i])
  PROVE  /\ RecordsOK(RecordedAll(R, n, rows))
         /\ DOMAIN R \subseteq DOMAIN RecordedAll(R, n, rows)
<1> DEFINE names == {rows[i].name : i \in DOMAIN rows}
           Step(Q, i) == IF i \in DOMAIN rows THEN Recorded(Q, n, rows[i], names) ELSE Q
           Solves(g, m) == g = [i \in 0 .. m |->
               IF i = 0 THEN R ELSE IF i \in DOMAIN rows THEN Recorded(g[i - 1], n, rows[i], names) ELSE g[i - 1]]
           Good(Q) == RecordsOK(Q) /\ DOMAIN R \subseteq DOMAIN Q
<1>1. ASSUME NEW Q, Good(Q), NEW i PROVE Good(Step(Q, i))
  <2>1. AliasesOK(aliases, Q)
    BY <1>1 DEF AliasesOK
  <2>2. CASE i \in DOMAIN rows
    <3>1. RecordsOK(Recorded(Q, n, rows[i], names)) /\ DOMAIN Q \subseteq DOMAIN Recorded(Q, n, rows[i], names)
      BY <1>1, <2>1, <2>2, RecordedIs
    <3> QED
      BY <3>1, <2>2, <1>1
  <2> QED
    BY <1>1, <2>2
<1>2. ASSUME NEW m \in Nat, NEW g, Solves(g, m), NEW i \in 0 .. m
      PROVE  g[i] = IF i = 0 THEN R ELSE Step(g[i - 1], i)
  <2> DEFINE h == [k \in 0 .. m |->
               IF k = 0 THEN R ELSE IF k \in DOMAIN rows THEN Recorded(g[k - 1], n, rows[k], names) ELSE g[k - 1]]
  <2>1. g = h
    BY <1>2
  <2>2. h[i] = IF i = 0 THEN R ELSE Step(g[i - 1], i)
    OBVIOUS
  <2>3. g[i] = h[i]
    BY <2>1
  <2> HIDE DEF h, Step
  <2> QED
    BY <2>2, <2>3
<1>3. ASSUME NEW m \in Nat PROVE \E g : Solves(g, m)
  <2> DEFINE Bad == {j \in Nat : ~\E g : Solves(g, j)}
  <2>1. SUFFICES ASSUME Bad # {} PROVE FALSE
    OBVIOUS
  <2>2. PICK j \in Bad : \A k \in Bad : j <= k
    BY <2>1, LowestIn
  <2> HIDE DEF Solves
  <2>3. CASE j = 0
    <3> DEFINE h == [i \in 0 .. 0 |-> R]
    <3>1. Solves(h, 0)
      BY DEF Solves
    <3> QED
      BY <3>1, <2>3
  <2>4. CASE j # 0
    <3>1. j - 1 \in Nat /\ j - 1 \notin Bad /\ j \in Nat
      BY <2>2, <2>4
    <3>2. PICK g : Solves(g, j - 1)
      BY <3>1
    <3> DEFINE h == [k \in 0 .. j |-> IF k = j THEN Step(g[j - 1], j) ELSE g[k]]
    <3>3. ASSUME NEW k \in 0 .. j
          PROVE  h[k] = IF k = 0 THEN R ELSE Step(h[k - 1], k)
      <4>1. CASE k = j
        <5>1. h[k] = Step(g[j - 1], j) /\ h[k - 1] = g[j - 1]
          BY <4>1, <2>4, <3>1
        <5> HIDE DEF h, Step
        <5> QED
          BY <5>1, <4>1, <2>4
      <4>2. CASE k # j
        <5>1. k \in 0 .. j - 1
          BY <4>2, <3>1
        <5>2. h[k] = g[k] /\ (k # 0 => h[k - 1] = g[k - 1])
          BY <5>1, <3>1
        <5> HIDE DEF h, Step
        <5>3. g[k] = IF k = 0 THEN R ELSE Step(g[k - 1], k)
          BY <5>1, <3>1, <3>2, <1>2
        <5> QED
          BY <5>2, <5>3
      <4> QED
        BY <4>1, <4>2
    <3>4. h = [k \in 0 .. j |-> h[k]]
      OBVIOUS
    <3> HIDE DEF h
    <3>5. Solves(h, j)
      BY <3>3, <3>4 DEF Solves
    <3> QED
      BY <3>5, <2>2
  <2> QED
    BY <2>3, <2>4
<1>4. ASSUME NEW m \in Nat, NEW g, Solves(g, m) PROVE Good(g[m])
  <2> DEFINE Bad == {j \in 0 .. m : ~Good(g[j])}
  <2>1. SUFFICES ASSUME Bad # {} PROVE FALSE
    OBVIOUS
  <2>2. Bad \in SUBSET Nat
    OBVIOUS
  <2>3. PICK j \in Bad : \A k \in Bad : j <= k
    BY <2>1, <2>2, LowestIn
  <2>4. j \in 0 .. m /\ (j # 0 => j - 1 \in 0 .. m /\ j - 1 \notin Bad) /\ ~Good(g[j])
    BY <2>3
  <2>5. j # 0 => Good(g[j - 1])
    BY <2>4
  <2>6. Good(R)
    OBVIOUS
  <2> HIDE DEF Good, Step, Solves
  <2>7. g[j] = IF j = 0 THEN R ELSE Step(g[j - 1], j)
    BY <1>2, <1>4, <2>4
  <2> QED
    BY <2>4, <2>5, <2>6, <2>7, <1>1
<1> DEFINE after == CHOOSE g : Solves(g, Len(on[n]))
<1>5. RecordedAll(R, n, rows) = after[Len(on[n])]
  BY DEF RecordedAll
<1> HIDE DEF Solves, Good
<1>6. Solves(after, Len(on[n]))
  BY <1>3
<1>7. Good(after[Len(on[n])])
  BY <1>4, <1>6
<1> QED
  BY <1>5, <1>7 DEF Good

\* A row that says a copy is gone.
LEMMA GoneIs ==
  ASSUME NEW r \in RecT, RowsThere(r), NEW n \in DOMAIN r.rep
  PROVE  LET s == [r EXCEPT !.rep[n].present = FALSE]
         IN  s \in RecT /\ RowsThere(s) /\ s.name = r.name
<1> DEFINE row == [r.rep[n] EXCEPT !.present = FALSE]
           rep == [r.rep EXCEPT ![n] = row]
           s == [r EXCEPT !.rep = rep]
<1>1. DOMAIN r.rep \in SUBSET Node /\ r.rep \in [DOMAIN r.rep -> RowT]
  BY PartialIs DEF RecT
<1>2. row \in RowT /\ row.fid = r.rep[n].fid
  BY <1>1 DEF RowT
<1>3. rep \in [DOMAIN r.rep -> RowT] /\ \A o \in DOMAIN r.rep : rep[o].fid = r.rep[o].fid
  BY <1>1, <1>2
<1>4. rep \in Partial(Node, RowT) /\ DOMAIN rep = DOMAIN r.rep
  BY <1>1, <1>3, IsPartial
<1> HIDE DEF rep
<1>5. s \in RecT /\ s.rep = rep /\ s.name = r.name
  BY <1>4 DEF RecT
<1>6. RowsThere(s)
  BY <1>1, <1>3, <1>4, <1>5 DEF RowsThere, RowThere
<1>7. s = [r EXCEPT !.rep[n].present = FALSE]
  BY DEF rep
<1> HIDE DEF s
<1> QED
  BY <1>5, <1>6, <1>7

\* Records each of which is kept or replaced by one of its name.
LEMMA RecordsReplaced ==
  ASSUME NEW R, RecordsOK(R), NEW Q, Q = [id \in DOMAIN R |-> Q[id]],
         \A id \in DOMAIN R : Q[id] \in RecT /\ RowsThere(Q[id]) /\ Q[id].name = R[id].name
  PROVE  RecordsOK(Q) /\ DOMAIN Q = DOMAIN R
<1>1. Q \in [DOMAIN R -> RecT] /\ DOMAIN Q = DOMAIN R
  OBVIOUS
<1>2. /\ DOMAIN R \in SUBSET Nat /\ IsFiniteSet(DOMAIN R)
      /\ \A id, o \in DOMAIN R : Q[id].name = Q[o].name => id = o
  BY RecordsAre DEF RecordsOK
<1> QED
  BY <1>1, <1>2, SoundRecords

\* What was not found is marked gone.
LEMMA MissingIs ==
  ASSUME NEW R, RecordsOK(R), NEW n, NEW rows, NEW spared
  PROVE  RecordsOK(Missing(R, n, rows, spared)) /\ DOMAIN Missing(R, n, rows, spared) = DOMAIN R
<1> DEFINE names == {rows[i].name : i \in DOMAIN rows}
           found == {Lowest(Owning(R, n, name, names)) : name \in names}
           gone(id) == n \in DOMAIN R[id].rep /\ id \notin spared \cup found
           Q == [id \in DOMAIN R |-> IF gone(id) THEN [R[id] EXCEPT !.rep[n].present = FALSE] ELSE R[id]]
<1>1. Missing(R, n, rows, spared) = Q /\ Q = [id \in DOMAIN R |-> Q[id]]
  BY DEF Missing
<1>2. \A id \in DOMAIN R : gone(id) => n \in DOMAIN R[id].rep
  OBVIOUS
<1> HIDE DEF gone
<1>3. \A id \in DOMAIN R : Q[id] \in RecT /\ RowsThere(Q[id]) /\ Q[id].name = R[id].name
  BY <1>2, GoneIs, RecordsAre DEF RecordsOK
<1> HIDE DEF Q
<1> QED
  BY <1>1, <1>3, RecordsReplaced

-----------------------------------------------------------------------------
(* Choices: the earliest copy, the first rename, the other nodes, a free   *)
(* name.                                                                   *)

\* The copies of a record that are there have an age, so one is the oldest.
LEMMA EarliestIn ==
  ASSUME OnOK, NEW r \in RecT, RowsThere(r), NEW S \in SUBSET DOMAIN r.rep, S # {}
  PROVE  (CHOOSE n \in S : \A o \in S : Born(r, n) <= Born(r, o)) \in S
<1>1. DOMAIN r.rep \in SUBSET Node /\ r.rep \in [DOMAIN r.rep -> RowT]
  BY PartialIs DEF RecT
<1>2. ASSUME NEW n \in S PROVE Born(r, n) \in Nat
  <2>1. n \in Node /\ r.rep[n].fid \in DOMAIN on[n]
    BY <1>1 DEF RowsThere, RowThere
  <2>2. on[n] \in Seq(RepoT)
    BY <2>1 DEF OnOK
  <2>3. on[n][r.rep[n].fid] \in RepoT
    BY <2>1, <2>2
  <2> QED
    BY <2>3 DEF Born, RepoT
<1> DEFINE B == {Born(r, n) : n \in S}
<1>3. B \in SUBSET Nat /\ B # {}
  BY <1>2
<1>4. Lowest(B) \in B /\ \A k \in B : Lowest(B) <= k
  BY <1>3, LowestIn
<1>5. PICK n \in S : Born(r, n) = Lowest(B)
  BY <1>4
<1>6. \A o \in S : Born(r, n) <= Born(r, o)
  BY <1>4, <1>5
<1> QED
  BY <1>6

\* A repository gets a node for its primary, or keeps what it has.
LEMMA AssignedIs ==
  ASSUME OnOK, RestOK, NEW r \in RecT, RowsThere(r)
  PROVE  Assigned(r) \in RecT /\ RowsThere(Assigned(r)) /\ Assigned(r).name = r.name
<1> DEFINE n == CHOOSE n \in Present(r) : \A o \in Present(r) : Born(r, n) <= Born(r, o)
<1>1. DOMAIN r.rep \in SUBSET Node
  BY PartialIs DEF RecT
<1>2. Present(r) \in SUBSET DOMAIN r.rep
  BY DEF Present
<1>3. Present(r) # {} => n \in Node
  BY <1>1, <1>2, EarliestIn
<1>4. home # None => home \in Node
  BY DEF RestOK
<1>5. ASSUME NEW m \in Node
      PROVE  LET s == [r EXCEPT !.primary = m] IN s \in RecT /\ s.rep = r.rep /\ s.name = r.name
  BY DEF RecT
<1>6. \/ Assigned(r) = r
      \/ home # None /\ Assigned(r) = [r EXCEPT !.primary = home]
      \/ Present(r) # {} /\ Assigned(r) = [r EXCEPT !.primary = n]
  BY DEF Assigned
<1> HIDE DEF n
<1>7. CASE Assigned(r) = r
  BY <1>7
<1>8. CASE home # None /\ Assigned(r) = [r EXCEPT !.primary = home]
  BY <1>4, <1>5, <1>8 DEF RowsThere
<1>9. CASE Present(r) # {} /\ Assigned(r) = [r EXCEPT !.primary = n]
  BY <1>3, <1>5, <1>9 DEF RowsThere
<1> QED
  BY <1>6, <1>7, <1>8, <1>9

LEMMA AllAssigned ==
  ASSUME OnOK, RestOK, NEW R, RecordsOK(R)
  PROVE  RecordsOK([id \in DOMAIN R |-> Assigned(R[id])])
<1> DEFINE Q == [id \in DOMAIN R |-> Assigned(R[id])]
<1>1. /\ DOMAIN R \in SUBSET Nat /\ IsFiniteSet(DOMAIN R)
      /\ \A id \in DOMAIN R : R[id] \in RecT /\ RowsThere(R[id])
      /\ \A id, o \in DOMAIN R : R[id].name = R[o].name => id = o
  BY RecordsAre DEF RecordsOK
<1>2. \A id \in DOMAIN R : Q[id] \in RecT /\ RowsThere(Q[id]) /\ Q[id].name = R[id].name
  BY <1>1, AssignedIs
<1>3. Q = [id \in DOMAIN R |-> Q[id]]
  OBVIOUS
<1> HIDE DEF Q
<1>4. Q \in [DOMAIN R -> RecT]
  BY <1>2, <1>3
<1>5. RecordsOK(Q)
  BY <1>1, <1>2, <1>4, SoundRecords
<1> QED
  BY <1>5 DEF Q

\* Of the renames found one is the first.
LEMMA FirstIn ==
  ASSUME NEW S \in SUBSET (Nat \X Nat), S # {}
  PROVE  First(S) \in S
<1> DEFINE A == {p[1] : p \in S}
           a == Lowest(A)
           B == {p[2] : p \in {q \in S : q[1] = a}}
           b == Lowest(B)
<1>1. A \in SUBSET Nat /\ A # {}
  OBVIOUS
<1>2. a \in A /\ \A k \in A : a <= k
  BY <1>1, LowestIn
<1>3. B \in SUBSET Nat /\ B # {}
  BY <1>2
<1>4. b \in B /\ \A k \in B : b <= k
  BY <1>3, LowestIn
<1>5. PICK p \in S : p[1] = a /\ p[2] = b
  BY <1>4
<1>6. ASSUME NEW q \in S PROVE p[1] < q[1] \/ (p[1] = q[1] /\ p[2] <= q[2])
  <2>1. q[1] \in Nat /\ a \in Nat /\ a <= q[1]
    BY <1>1, <1>2
  <2>2. q[1] = a => b <= q[2]
    BY <1>4
  <2> QED
    BY <1>5, <2>1, <2>2
<1> QED
  BY <1>6 DEF First

LEMMA RenamesAre ==
  ASSUME RecordsOK(recs), NEW done, Fresh(done) # {}
  PROVE  LET p == First(Fresh(done))
         IN  p[1] \in DOMAIN recs /\ p[2] \in DOMAIN recs /\ p[1] # p[2]
<1>1. Renames \subseteq (DOMAIN recs) \X (DOMAIN recs) /\ \A p \in Renames : p[1] # p[2]
  BY DEF Renames
<1>2. Fresh(done) \subseteq Renames
  BY DEF Fresh
<1>3. Fresh(done) \in SUBSET (Nat \X Nat)
  BY <1>1, <1>2, RecordsAre
<1>4. First(Fresh(done)) \in Fresh(done)
  BY <1>3, FirstIn
<1> QED
  BY <1>1, <1>2, <1>4

\* The nodes but the primary.
LEMMA ReplicasAre ==
  ASSUME NEW r \in RecT, r.primary \in Node
  PROVE  Replicas(r) \in Seq(Node)
<1> DEFINE k == CHOOSE i \in DOMAIN Order : Order[i] = r.primary
<1>1. \E i \in DOMAIN Order : Order[i] = r.primary
  BY DEF Node
<1>2. k \in DOMAIN Order
  BY <1>1
<1>3. k \in 1 .. Len(Order) /\ Len(Order) \in Nat /\ Order \in Seq(Node)
  BY <1>2, Nodes
<1>4. Replicas(r) = SubSeq(Order, 1, k - 1) \o SubSeq(Order, k + 1, Len(Order))
  BY DEF Replicas
<1> HIDE DEF k
<1>5. SubSeq(Order, 1, k - 1) \in Seq(Node)
  BY <1>3
<1>6. SubSeq(Order, k + 1, Len(Order)) \in Seq(Node)
  BY <1>3
<1> QED
  BY <1>4, <1>5, <1>6

\* There is a name for an archive, and no repository there has it.
LEMMA ArchivedIsFree ==
  ASSUME OnOK, NEW n \in Node, NEW name \in AllNames
  PROVE  Archived(n, name) \in AllNames /\ Named(n, Archived(n, name)) = {}
<1> DEFINE m == Len(on[n])
           S == {k \in 1 .. m + 1 : Named(n, <<name, k>>) = {}}
<1>1. on[n] \in Seq(RepoT) /\ m \in Nat /\ DOMAIN on[n] = 1 .. m
  BY DEF OnOK
<1>2. S # {}
  <2>1. SUFFICES ASSUME S = {} PROVE FALSE
    OBVIOUS
  <2> DEFINE f == [k \in 1 .. m + 1 |-> CHOOSE i \in Live(n) : on[n][i].name = <<name, k>>]
  <2>2. ASSUME NEW k \in 1 .. m + 1
        PROVE  f[k] \in Live(n) /\ on[n][f[k]].name = <<name, k>>
    BY <2>1 DEF Named
  <2>3. Live(n) \subseteq 1 .. m
    BY <1>1 DEF Live
  <2>4. f \in [1 .. m + 1 -> 1 .. m]
    BY <2>2, <2>3
  <2>5. /\ IsFiniteSet(1 .. m + 1) /\ IsFiniteSet(1 .. m)
        /\ Cardinality(1 .. m) < Cardinality(1 .. m + 1)
    <3>1. m \in Int /\ m + 1 \in Int /\ 1 \in Int /\ m >= 0
      BY <1>1
    <3> HIDE DEF m
    <3>2. IsFiniteSet(1 .. m) /\ Cardinality(1 .. m) = m
      BY <3>1, FS_Interval
    <3>3. IsFiniteSet(1 .. m + 1) /\ Cardinality(1 .. m + 1) = m + 1
      BY <3>1, FS_Interval
    <3> QED
      BY <3>1, <3>2, <3>3
  <2> HIDE DEF f
  <2>6. PICK k, l \in 1 .. m + 1 : k # l /\ f[k] = f[l]
    BY <2>4, <2>5, FS_PigeonHole
  <2>7. <<name, k>> = <<name, l>>
    BY <2>2, <2>6
  <2> QED
    BY <2>6, <2>7
<1>3. S \in SUBSET Nat
  BY <1>1
<1>4. Lowest(S) \in S
  BY <1>2, <1>3, LowestIn
<1>5. Archived(n, name) = <<name, Lowest(S)>>
  BY DEF Archived
<1> HIDE DEF m
<1>6. Lowest(S) \in Nat /\ Named(n, <<name, Lowest(S)>>) = {}
  BY <1>3, <1>4
<1> QED
  BY <1>5, <1>6, NamesClosed

-----------------------------------------------------------------------------
(* Renames.                                                                *)

LEMMA MergedRowsAre ==
  ASSUME NEW old \in RecT, NEW new \in RecT, RowsThere(old), RowsThere(new)
  PROVE  /\ MergedRows(old, new) \in Partial(Node, RowT)
         /\ \A n \in DOMAIN MergedRows(old, new) : RowThere(n, MergedRows(old, new)[n])
<1> DEFINE taken == {n \in DOMAIN new.rep : \/ n \notin DOMAIN old.rep
                                            \/ new.rep[n].present /\ (n = old.primary \/ ~old.rep[n].present)}
           D == DOMAIN old.rep \cup taken
           f == [n \in D |-> IF n \in taken THEN new.rep[n] ELSE old.rep[n]]
<1>1. /\ DOMAIN old.rep \in SUBSET Node /\ old.rep \in [DOMAIN old.rep -> RowT]
      /\ DOMAIN new.rep \in SUBSET Node /\ new.rep \in [DOMAIN new.rep -> RowT]
  BY PartialIs DEF RecT
<1>2. MergedRows(old, new) = f
  BY DEF MergedRows
<1>3. taken \subseteq DOMAIN new.rep
  OBVIOUS
<1> HIDE DEF taken
<1>4. D \in SUBSET Node /\ f \in [D -> RowT]
  BY <1>1, <1>3
<1>5. \A n \in D : RowThere(n, f[n])
  BY <1>3 DEF RowsThere
<1> HIDE DEF f, D
<1>6. f \in Partial(Node, RowT) /\ DOMAIN f = D
  BY <1>4, IsPartial
<1> QED
  BY <1>2, <1>5, <1>6

\* Old names of what is there no more are forgotten.
LEMMA NeededAre ==
  ASSUME NEW al, NEW R, AliasesOK(al, R), NEW D \in SUBSET DOMAIN al
  PROVE  AliasesOK([name \in D |-> al[name]], R)
<1> DEFINE f == [name \in D |-> al[name]]
<1>1. DOMAIN al \in SUBSET AllNames /\ al \in [DOMAIN al -> Nat]
  BY PartialIs DEF AliasesOK
<1>2. f \in [D -> Nat] /\ D \in SUBSET AllNames
  BY <1>1
<1>3. f \in Partial(AllNames, Nat)
  BY <1>2, IsPartial
<1> QED
  BY <1>3 DEF AliasesOK

\* Two records become one.
LEMMA ApplyRenameIs ==
  ASSUME RecordsOK(recs), AliasesOK(aliases, recs), ArchivesOK(archives, recs),
         NEW p, p[1] \in DOMAIN recs, p[2] \in DOMAIN recs, p[1] # p[2], ApplyRename(p)
  PROVE  RecordsOK(recs') /\ AliasesOK(aliases', recs') /\ ArchivesOK(archives', recs')
<1> DEFINE old == recs[p[1]]
           new == recs[p[2]]
           D == (DOMAIN recs) \ {p[2]}
           merged == [old EXCEPT !.name = new.name, !.rep = MergedRows(old, new)]
           R == [id \in D |-> IF id = p[1] THEN merged ELSE recs[id]]
           kept == {name \in DOMAIN aliases : aliases[name] # p[2]}
           E == kept \cup {old.name}
           al == [name \in E |-> IF name = old.name THEN p[1] ELSE aliases[name]]
<1>1. /\ recs' = R /\ aliases' = [name \in Needed(al, R) |-> al[name]]
      /\ archives' = {a \in archives : a.rec # p[2]}
  BY DEF ApplyRename
<1>2. /\ DOMAIN recs \in SUBSET Nat /\ recs \in [DOMAIN recs -> RecT] /\ IsFiniteSet(DOMAIN recs)
      /\ \A id \in DOMAIN recs : recs[id] \in RecT /\ RowsThere(recs[id])
      /\ \A id, o \in DOMAIN recs : recs[id].name = recs[o].name => id = o
  BY RecordsAre DEF RecordsOK
<1>3. old \in RecT /\ new \in RecT /\ RowsThere(old) /\ RowsThere(new)
  BY <1>2
<1>4. /\ MergedRows(old, new) \in Partial(Node, RowT)
      /\ \A n \in DOMAIN MergedRows(old, new) : RowThere(n, MergedRows(old, new)[n])
  BY <1>3, MergedRowsAre
<1>5. merged \in RecT /\ RowsThere(merged) /\ merged.name = new.name
  BY <1>3, <1>4 DEF RecT, RowsThere
<1>6. D \in SUBSET Nat /\ IsFiniteSet(D) /\ p[1] \in D
  BY <1>2, FS_Subset
<1> HIDE DEF merged
<1>7. R \in [D -> RecT]
  BY <1>2, <1>5
<1>8. \A id \in D : RowsThere(R[id]) /\ R[id].name = IF id = p[1] THEN new.name ELSE recs[id].name
  BY <1>2, <1>5
<1>9. \A id, o \in D : R[id].name = R[o].name => id = o
  BY <1>2, <1>8
<1>10. DOMAIN R = D
  OBVIOUS
<1>11. RecordsOK(R)
  BY <1>6, <1>7, <1>8, <1>9, SoundRecords
<1>12. AliasesOK(al, R)
  <2>1. DOMAIN aliases \in SUBSET AllNames /\ aliases \in [DOMAIN aliases -> Nat]
    BY PartialIs DEF AliasesOK
  <2>2. old.name \in AllNames
    BY <1>3 DEF RecT
  <2>3. al \in [E -> Nat] /\ E \in SUBSET AllNames /\ DOMAIN al = E
    BY <2>1, <2>2, <1>2
  <2>4. al \in Partial(AllNames, Nat)
    BY <2>3, IsPartial
  <2>5. \A name \in E : al[name] \in D
    BY <1>6 DEF AliasesOK
  <2> QED
    BY <2>3, <2>4, <2>5, <1>10 DEF AliasesOK
<1>13. Needed(al, R) \in SUBSET DOMAIN al
  BY DEF Needed
<1> HIDE DEF R, al
<1>14. AliasesOK([name \in Needed(al, R) |-> al[name]], R)
  BY <1>12, <1>13, NeededAre
<1>15. ArchivesOK({a \in archives : a.rec # p[2]}, R)
  BY <1>10 DEF ArchivesOK
<1> QED
  BY <1>1, <1>11, <1>14, <1>15

-----------------------------------------------------------------------------
(* Steps.                                                                  *)

\* Repositories are never forgotten by their node, only gone.
Grows == \A n \in Node : DOMAIN on[n] \subseteq DOMAIN on'[n]

LEMMA AllKept ==
  ASSUME Grows, OnOK', RestOK', RecordsOK(recs'), AliasesOK(aliases', recs'), ArchivesOK(archives', recs'),
         RoundOK(round'), recheck' \in RecheckT, JobOK(job')
  PROVE  TypeInv'
<1>1. ASSUME NEW n \in Node, NEW row, RowThere(n, row) PROVE row.fid \in DOMAIN on'[n]
  BY <1>1 DEF RowThere, Grows
<1>2. ASSUME NEW r \in RecT, RowsThere(r) PROVE \A n \in DOMAIN r.rep : r.rep[n].fid \in DOMAIN on'[n]
  <2>1. DOMAIN r.rep \in SUBSET Node
    BY PartialIs DEF RecT
  <2> QED
    BY <1>1, <1>2, <2>1 DEF RowsThere
<1>3. RecordsOK(recs)'
  <2>1. \A id \in DOMAIN recs' : \A n \in DOMAIN recs'[id].rep : recs'[id].rep[n].fid \in DOMAIN on'[n]
    BY <1>2, RecordsAre DEF RecordsOK
  <2> QED
    BY <2>1 DEF RecordsOK, RowsThere, RowThere
<1>4. AliasesOK(aliases, recs)'
  BY DEF AliasesOK
<1>5. ArchivesOK(archives, recs)'
  BY DEF ArchivesOK, ArchiveT, Grows
<1>6. RoundOK(round)'
  <2>1. /\ round'.listed \in Partial(Node, Partial(Nat, RowT)) /\ round'.list \in Partial(Nat, RecT)
    BY DEF RoundOK, RoundT
  <2>2. DOMAIN round'.listed \in SUBSET Node /\ \A id \in DOMAIN round'.list : round'.list[id] \in RecT
    BY <2>1, PartialIs
  <2>3. \A n \in DOMAIN round'.listed : \A i \in DOMAIN round'.listed[n] : round'.listed[n][i].fid \in DOMAIN on'[n]
    BY <1>1, <2>2 DEF RoundOK
  <2>4. \A id \in DOMAIN round'.list : \A n \in DOMAIN round'.list[id].rep : round'.list[id].rep[n].fid \in DOMAIN on'[n]
    BY <1>2, <2>2 DEF RoundOK
  <2> QED
    BY <2>3, <2>4 DEF RoundOK, RowsThere, RowThere
<1>7. JobOK(job)'
  <2>1. job'.ph # "idle" => \A n \in DOMAIN job'.rec.rep : job'.rec.rep[n].fid \in DOMAIN on'[n]
    BY <1>2 DEF JobOK
  <2>2. job'.ph = "save" => job'.line \in DOMAIN on'[Head(job'.left)]
    <3>1. SUFFICES ASSUME job'.ph = "save" PROVE Head(job'.left) \in Node
      BY DEF JobOK, Grows
    <3>2. job'.left \in Seq(Node) /\ job'.left # << >>
      BY <3>1 DEF JobOK, JobT, PerNode
    <3> QED
      BY <3>2
  <2> QED
    BY <2>1, <2>2 DEF JobOK, RowsThere, RowThere
<1> QED
  BY <1>3, <1>4, <1>5, <1>6, <1>7 DEF TypeInv

LEMMA OnSame ==
  ASSUME OnOK, on' = on
  PROVE  OnOK' /\ Grows
BY DEF OnOK, Grows, Live

\* A repository is made, under a name that is free.
LEMMA OnAppends ==
  ASSUME OnOK, NEW n \in Node, NEW x \in RepoT, Named(n, x.name) = {}, on' = [on EXCEPT ![n] = Append(@, x)]
  PROVE  OnOK' /\ Grows
<1>1. on \in [Node -> Seq(RepoT)] /\ on[n] \in Seq(RepoT) /\ DOMAIN on[n] = 1 .. Len(on[n]) /\ Len(on[n]) \in Nat
  BY DEF OnOK
<1>2. Append(on[n], x) \in Seq(RepoT)
  BY <1>1
<1>3. on' \in [Node -> Seq(RepoT)]
  BY <1>1, <1>2
<1>4. on'[n] = Append(on[n], x) /\ \A m \in Node : m # n => on'[m] = on[m]
  BY <1>1
<1>5. /\ DOMAIN on'[n] = DOMAIN on[n] \cup {Len(on[n]) + 1}
      /\ on'[n][Len(on[n]) + 1] = x
      /\ \A i \in DOMAIN on[n] : on'[n][i] = on[n][i]
  BY <1>1, <1>4
<1>6. Grows
  BY <1>4, <1>5 DEF Grows
<1>7. ASSUME NEW m \in Node, NEW i \in Live(m)', NEW j \in Live(m)', on'[m][i].name = on'[m][j].name
      PROVE  i = j
  <2>1. CASE m # n
    BY <2>1, <1>4, <1>7 DEF OnOK, Live
  <2>2. CASE m = n
    <3>1. \A k \in Live(n)' : k \in Live(n) \/ k = Len(on[n]) + 1
      BY <1>5 DEF Live
    <3>2. \A k \in Live(n) : on'[n][k].name = on[n][k].name /\ on[n][k].name # x.name
      BY <1>5 DEF Live, Named
    <3>3. i \in Live(n)' /\ j \in Live(n)' /\ on'[n][i].name = on'[n][j].name
      BY <2>2, <1>7
    <3>4. CASE i \in Live(n) /\ j \in Live(n)
      <4>1. on[n][i].name = on[n][j].name
        BY <3>2, <3>3, <3>4
      <4> QED
        BY <4>1, <3>4 DEF OnOK
    <3>5. CASE i = Len(on[n]) + 1 /\ j \in Live(n)
      BY <3>2, <3>3, <3>5, <1>5
    <3>6. CASE j = Len(on[n]) + 1 /\ i \in Live(n)
      BY <3>2, <3>3, <3>6, <1>5
    <3> QED
      BY <3>1, <3>3, <3>4, <3>5, <3>6
  <2> QED
    BY <2>1, <2>2
<1> QED
  BY <1>3, <1>6, <1>7 DEF OnOK

\* A repository is changed, and takes no name another one has.
LEMMA OnChanges ==
  ASSUME OnOK, NEW n \in Node, NEW i \in DOMAIN on[n], NEW y \in RepoT,
         y.place = "live" => Named(n, y.name) \subseteq {i},
         on' = [on EXCEPT ![n][i] = y]
  PROVE  OnOK' /\ Grows /\ \A m \in Node : DOMAIN on'[m] = DOMAIN on[m]
<1>1. on \in [Node -> Seq(RepoT)] /\ on[n] \in Seq(RepoT)
  BY DEF OnOK
<1>2. [on[n] EXCEPT ![i] = y] \in Seq(RepoT)
  BY <1>1
<1>3. on' \in [Node -> Seq(RepoT)]
  BY <1>1, <1>2
<1>4. on'[n] = [on[n] EXCEPT ![i] = y] /\ \A m \in Node : m # n => on'[m] = on[m]
  BY <1>1
<1>5. DOMAIN on'[n] = DOMAIN on[n] /\ on'[n][i] = y /\ \A k \in DOMAIN on[n] : k # i => on'[n][k] = on[n][k]
  BY <1>4
<1>6. Grows /\ \A m \in Node : DOMAIN on'[m] = DOMAIN on[m]
  BY <1>4, <1>5 DEF Grows
<1>7. ASSUME NEW m \in Node, NEW k \in Live(m)', NEW l \in Live(m)', on'[m][k].name = on'[m][l].name
      PROVE  k = l
  <2>1. CASE m # n
    BY <2>1, <1>4, <1>7 DEF OnOK, Live
  <2>2. CASE m = n
    <3>1. \A o \in Live(n)' : (o \in Live(n) /\ o # i) \/ (o = i /\ y.place = "live")
      BY <1>5 DEF Live
    <3>2. \A o \in Live(n) : o # i => on'[n][o].name = on[n][o].name
      BY <1>5 DEF Live
    <3>3. \A o \in Live(n) : y.place = "live" /\ o # i => on[n][o].name # y.name
      BY DEF Named
    <3> QED
      BY <2>2, <3>1, <3>2, <3>3, <1>5, <1>7 DEF OnOK
  <2> QED
    BY <2>1, <2>2
<1> QED
  BY <1>3, <1>6, <1>7 DEF OnOK

-----------------------------------------------------------------------------
(* The job, from one step to the next.                                     *)

\* A job of a record, not at a node.
LEMMA JobBetween ==
  ASSUME NEW j \in JobT, j.rec \in RecT, j.rec.primary \in Node, RowsThere(j.rec), j.ph \notin PerNode \cup {"seedPush"}
  PROVE  JobOK(j)
BY DEF JobOK, PerNode

LEMMA NoJobIs == JobOK(NoJob)
<1>1. NoJob \in JobT
  BY DEF NoJob, JobT
<1> QED
  BY <1>1 DEF JobOK, NoJob, PerNode

LEMMA JobHas ==
  ASSUME JobOK(job), job.ph # "idle"
  PROVE  job \in JobT /\ job.rec \in RecT /\ P \in Node /\ RowsThere(job.rec) /\ job.rec.name \in AllNames
BY DEF JobOK, P, RecT

LEMMA JobAt ==
  ASSUME JobOK(job), job.ph \in PerNode
  PROVE  /\ job.ph # "idle" /\ Head1 \in Node /\ job.left \in Seq(Node) /\ job.left # << >> /\ Rest1 \in Seq(Node)
<1>1. job.left \in Seq(Node) /\ job.left # << >> /\ job.ph # "idle"
  BY DEF JobOK, JobT, PerNode
<1> QED
  BY <1>1 DEF Head1, Rest1

LEMMA DoneIs ==
  ASSUME JobOK(job), job.ph # "idle"
  PROVE  JobOK(Done) /\ Done.ph \in {"idle", "after"}
<1>1. job \in JobT /\ job.rec \in RecT /\ job.rec.primary \in Node /\ RowsThere(job.rec)
  BY JobHas DEF P
<1>2. JobOK([job EXCEPT !.ph = "after"])
  <2>1. /\ [job EXCEPT !.ph = "after"] \in JobT /\ [job EXCEPT !.ph = "after"].rec = job.rec
        /\ [job EXCEPT !.ph = "after"].ph = "after"
    BY <1>1 DEF JobT
  <2> QED
    BY <2>1, <1>1, JobBetween DEF PerNode
<1>3. [job EXCEPT !.ph = "after"].ph = "after" /\ NoJob.ph = "idle"
  BY <1>1 DEF JobT, NoJob
<1> QED
  BY <1>2, <1>3, NoJobIs DEF Done

LEMMA ToPhaseIs ==
  ASSUME JobOK(job), job.ph # "idle", NEW ph \in {"look", "renamed?", "mark", "seed"}
  PROVE  JobOK(ToPhase(ph))
<1>1. job \in JobT /\ job.rec \in RecT /\ job.rec.primary \in Node /\ RowsThere(job.rec)
  BY JobHas DEF P
<1>2. ToPhase(ph) \in JobT /\ ToPhase(ph).rec = job.rec /\ ToPhase(ph).ph = ph
  BY <1>1 DEF JobT, ToPhase
<1> QED
  BY <1>1, <1>2, JobBetween DEF PerNode

\* A job at a node.
LEMMA AtNode ==
  ASSUME NEW j \in JobT, j.rec \in RecT, j.rec.primary \in Node, RowsThere(j.rec), j.left # << >>, j.ph \notin {"save", "seedPush"}
  PROVE  JobOK(j)
BY DEF JobOK

LEMMA PushIs ==
  ASSUME JobOK(job), job.ph = "copy"
  PROVE  JobOK(ToPhase("push"))
<1>1. job \in JobT /\ job.rec \in RecT /\ job.rec.primary \in Node /\ RowsThere(job.rec) /\ job.left # << >>
  BY JobHas, JobAt DEF P, PerNode
<1>2. ToPhase("push") \in JobT /\ ToPhase("push").rec = job.rec /\ ToPhase("push").left = job.left /\ ToPhase("push").ph = "push"
  BY <1>1 DEF JobT, ToPhase
<1> QED
  BY <1>1, <1>2, AtNode

LEMMA FirstNodeIs ==
  ASSUME JobOK(job), job.ph # "idle", NEW ph \in {"copy", "archive"}, NEW line \in Nat \cup {None}
  PROVE  JobOK(FirstNode(ph, line))
<1>1. job \in JobT /\ job.rec \in RecT /\ job.rec.primary \in Node /\ RowsThere(job.rec)
  BY JobHas DEF P
<1>2. CASE Replicas(job.rec) = << >>
  BY <1>2, DoneIs DEF FirstNode
<1>3. CASE Replicas(job.rec) # << >>
  <2> DEFINE j == [job EXCEPT !.ph = ph, !.left = Replicas(job.rec), !.line = line]
  <2>1. FirstNode(ph, line) = j
    BY <1>3 DEF FirstNode
  <2>2. Replicas(job.rec) \in Seq(Node)
    BY <1>1, ReplicasAre
  <2>3. j \in JobT /\ j.rec = job.rec /\ j.ph = ph /\ j.left = Replicas(job.rec)
    BY <1>1, <2>2 DEF JobT
  <2> HIDE DEF j
  <2> QED
    BY <1>1, <1>3, <2>1, <2>3, AtNode
<1> QED
  BY <1>2, <1>3

\* On to the next node.
LEMMA NextNodeIs ==
  ASSUME JobOK(job), job.ph \in PerNode
  PROVE  /\ job.ph # "save" => JobOK(NextNode)
         /\ JobOK([NextNode EXCEPT !.ph = IF @ = "push" THEN "copy" ELSE @]) \/ job.ph = "save"
         /\ JobOK(SaveFails)
<1>1. job \in JobT /\ job.rec \in RecT /\ job.rec.primary \in Node /\ RowsThere(job.rec) /\ Rest1 \in Seq(Node)
  BY JobHas, JobAt DEF P
<1>2. CASE Rest1 = << >>
  <2>1. NextNode = Done /\ JobOK(Done) /\ Done.ph \in {"idle", "after"}
    BY <1>2, DoneIs, JobAt DEF NextNode
  <2>2. Done \in JobT
    BY <2>1 DEF JobOK
  <2>3. [Done EXCEPT !.ph = IF @ = "push" THEN "copy" ELSE @] = Done
    BY <2>1, <2>2 DEF JobT
  <2> DEFINE s == [Done EXCEPT !.ph = IF @ = "save" THEN "archive" ELSE @, !.line = None]
  <2>4. s \in JobT /\ s.ph = Done.ph /\ s.rec = Done.rec
    BY <2>1, <2>2 DEF JobT
  <2>5. JobOK(s)
    BY <2>1, <2>4 DEF JobOK, PerNode
  <2> QED
    BY <2>1, <2>3, <2>5 DEF SaveFails
<1>3. CASE Rest1 # << >>
  <2> DEFINE j == [job EXCEPT !.left = Rest1]
  <2>1. NextNode = j
    BY <1>3 DEF NextNode
  <2>2. j \in JobT /\ j.rec = job.rec /\ j.ph = job.ph /\ j.left = Rest1
    BY <1>1 DEF JobT
  <2> HIDE DEF j
  <2>3. job.ph # "save" => JobOK(j)
    BY <1>1, <1>3, <2>2, AtNode DEF PerNode
  <2> DEFINE c == [j EXCEPT !.ph = IF @ = "push" THEN "copy" ELSE @]
             s == [j EXCEPT !.ph = IF @ = "save" THEN "archive" ELSE @, !.line = None]
  <2>4. c \in JobT /\ c.rec = job.rec /\ c.left = Rest1 /\ (job.ph # "save" => c.ph \notin {"save", "seedPush"})
    BY <2>2 DEF JobT, PerNode
  <2>5. s \in JobT /\ s.rec = job.rec /\ s.left = Rest1 /\ s.ph \notin {"save", "seedPush"}
    BY <2>2 DEF JobT, PerNode
  <2> HIDE DEF c, s
  <2>6. (job.ph # "save" => JobOK(c)) /\ JobOK(s)
    BY <1>1, <1>3, <2>4, <2>5, AtNode
  <2>7. SaveFails = s /\ [NextNode EXCEPT !.ph = IF @ = "push" THEN "copy" ELSE @] = c
    BY <2>1 DEF SaveFails, c, s
  <2> QED
    BY <2>1, <2>3, <2>6, <2>7
<1> QED
  BY <1>2, <1>3

-----------------------------------------------------------------------------
(* People.                                                                 *)

LEMMA TypedBounds == MaxEdits \in Nat /\ MaxRechecks \in Nat /\ MaxFaults \in Nat
BY InventoryAssumption

LEMMA RepoIs ==
  ASSUME NEW name \in AllNames, NEW line \in Nat \cup {None}, made \in Nat
  PROVE  Repo(name, line) \in RepoT /\ Repo(name, line).name = name
BY DEF Repo, RepoT

LEMMA PersonKeeps ==
  ASSUME RestOK, Person
  PROVE  edits' \in 0 .. MaxEdits
BY TypedBounds DEF RestOK, Person

LEMMA CopyIs ==
  ASSUME OnOK, NEW n \in Node, NEW i \in DOMAIN on[n]
  PROVE  on[n][i] \in RepoT
BY DEF OnOK

LEMMA MakeKeeps ==
  ASSUME TypeInv, NEW n \in Node, NEW name \in Name, Make(n, name)
  PROVE  TypeInv'
<1> USE DEF TypeInv
<1>1. Repo(name, made + 1) \in RepoT /\ Repo(name, made + 1).name = name
  BY NamesClosed, RepoIs DEF RestOK
<1>2. OnOK' /\ Grows
  BY <1>1, OnAppends DEF Make
<1> DEFINE t == hist.taken \/ Taken(n, name)
<1>3. t \in BOOLEAN /\ made + 1 \in Nat
  BY DEF RestOK
<1>4. hist' = [hist EXCEPT !.lines = @ \cup {made + 1}, !.taken = t]
  BY DEF Make
<1> HIDE DEF t
<1>5. hist' \in [next : Nat, lines : SUBSET Nat, ended : SUBSET (Nat \cup {None}),
                 taken : BOOLEAN, moved : BOOLEAN, stale : BOOLEAN]
  <2>1. hist.lines \cup {made + 1} \in SUBSET Nat
    BY <1>3 DEF RestOK
  <2> QED
    BY <1>3, <1>4, <2>1 DEF RestOK
<1>7. edits' \in 0 .. MaxEdits
  BY PersonKeeps DEF Make
<1>6. RestOK'
  BY <1>3, <1>5, <1>7 DEF RestOK, Make, Person
<1> QED
  BY <1>2, <1>6, AllKept DEF Make, Person

LEMMA EndsTyped ==
  ASSUME OnOK, NEW n \in Node, NEW i \in DOMAIN on[n]
  PROVE  Ends(n, i) \subseteq Nat \cup {None}
<1>1. \A m \in Node : \A k \in DOMAIN on[m] : on[m][k].line \in Nat \cup {None}
  BY CopyIs DEF RepoT
<1>2. ASSUME NEW id, NEW line \in Work(id) PROVE line \in Nat \cup {None}
  <2>1. PICK m \in Node : line \in {on[m][k].line : k \in {j \in DOMAIN on[m] : Belongs(id, m, j)}}
    BY DEF Work
  <2>2. PICK k \in DOMAIN on[m] : line = on[m][k].line
    BY <2>1
  <2> QED
    BY <1>1, <2>2
<1>3. ASSUME NEW line \in Ends(n, i) PROVE line \in Nat \cup {None}
  <2> DEFINE ours == {k \in DOMAIN recs : recs[k].primary = n /\ Belongs(k, n, i)}
             last == {w \in {on[n][i].line} : \A m \in Node : \A k \in DOMAIN on[m] :
                        on[m][k].line = w /\ on[m][k].place # "gone" => <<m, k>> = <<n, i>>}
  <2>1. Ends(n, i) = (UNION {Work(id) : id \in ours}) \cup last
    BY DEF Ends
  <2>2. last \subseteq {on[n][i].line}
    OBVIOUS
  <2> HIDE DEF ours, last
  <2>3. line \in last \/ \E id \in ours : line \in Work(id)
    BY <2>1
  <2> QED
    BY <1>1, <1>2, <2>2, <2>3
<1> QED
  BY <1>3

LEMMA RemoveKeeps ==
  ASSUME TypeInv, NEW n \in Node, NEW i \in DOMAIN on[n], Remove(n, i)
  PROVE  TypeInv'
<1> USE DEF TypeInv
<1> DEFINE y == [on[n][i] EXCEPT !.place = "gone"]
<1>1. y \in RepoT /\ y.place # "live"
  BY CopyIs DEF RepoT
<1>2. on' = [on EXCEPT ![n][i] = y]
  BY DEF Remove
<1> HIDE DEF y
<1>3. OnOK' /\ Grows
  BY <1>1, <1>2, OnChanges
<1>4. RestOK'
  BY EndsTyped, PersonKeeps DEF RestOK, Remove, Person
<1> QED
  BY <1>3, <1>4, AllKept DEF Remove, Person

LEMMA RenameKeeps ==
  ASSUME TypeInv, NEW n \in Node, NEW i \in DOMAIN on[n], NEW name \in Name, Rename(n, i, name)
  PROVE  TypeInv'
<1> USE DEF TypeInv
<1> DEFINE y == [on[n][i] EXCEPT !.name = name]
<1>1. y \in RepoT /\ y.name = name
  BY CopyIs, NamesClosed DEF RepoT
<1>2. on' = [on EXCEPT ![n][i] = y] /\ Named(n, name) = {}
  BY DEF Rename
<1> HIDE DEF y
<1>3. OnOK' /\ Grows
  BY <1>1, <1>2, OnChanges
<1>4. RestOK'
  BY PersonKeeps DEF RestOK, Rename, Person
<1> QED
  BY <1>3, <1>4, AllKept DEF Rename, Person

\* A record of a changed record.
LEMMA RecordChanged ==
  ASSUME NEW R, RecordsOK(R), NEW id \in DOMAIN R, NEW r \in RecT, RowsThere(r), r.name = R[id].name
  PROVE  RecordsOK([R EXCEPT ![id] = r]) /\ DOMAIN [R EXCEPT ![id] = r] = DOMAIN R
<1> DEFINE Q == [R EXCEPT ![id] = r]
<1>1. /\ DOMAIN R \in SUBSET Nat /\ R \in [DOMAIN R -> RecT] /\ IsFiniteSet(DOMAIN R)
      /\ \A k \in DOMAIN R : RowsThere(R[k])
      /\ \A k, o \in DOMAIN R : R[k].name = R[o].name => k = o
  BY RecordsAre DEF RecordsOK
<1>2. DOMAIN Q = DOMAIN R /\ Q \in [DOMAIN R -> RecT]
  BY <1>1
<1>3. \A k \in DOMAIN R : RowsThere(Q[k]) /\ Q[k].name = R[k].name
  BY <1>1
<1> HIDE DEF Q
<1>4. \A k, o \in DOMAIN R : Q[k].name = Q[o].name => k = o
  BY <1>1, <1>3
<1>5. RecordsOK(Q)
  BY <1>1, <1>2, <1>3, <1>4, SoundRecords
<1> QED
  BY <1>2, <1>5 DEF Q

LEMMA ChooseKeeps ==
  ASSUME TypeInv, NEW id \in DOMAIN recs, NEW n \in Node, Choose(id, n)
  PROVE  TypeInv'
<1> USE DEF TypeInv
<1> DEFINE r == [recs[id] EXCEPT !.primary = n, !.manual = TRUE]
<1>1. recs[id] \in RecT /\ RowsThere(recs[id]) /\ recs \in [DOMAIN recs -> RecT]
  BY RecordsAre DEF RecordsOK
<1>2. r \in RecT /\ r.rep = recs[id].rep /\ r.name = recs[id].name
  BY <1>1 DEF RecT
<1>3. recs' = [recs EXCEPT ![id] = r]
  BY <1>1 DEF Choose, RecT
<1> HIDE DEF r
<1>4. RowsThere(r)
  BY <1>1, <1>2 DEF RowsThere
<1>5. RecordsOK(recs') /\ DOMAIN recs' = DOMAIN recs
  BY <1>1, <1>2, <1>3, <1>4, RecordChanged
<1>6. AliasesOK(aliases', recs') /\ ArchivesOK(archives', recs')
  BY <1>5 DEF Choose, Person, AliasesOK, ArchivesOK
<1>7. RestOK'
  BY PersonKeeps DEF RestOK, Choose, Person
<1>8. OnOK' /\ Grows
  BY OnSame DEF Choose
<1> QED
  BY <1>5, <1>6, <1>7, <1>8, AllKept DEF Choose, Person

LEMMA MoveKeeps ==
  ASSUME TypeInv, NEW n \in Node, Move(n)
  PROVE  TypeInv'
<1> USE DEF TypeInv
<1>1. RestOK'
  BY PersonKeeps DEF RestOK, Move, Person
<1>2. OnOK' /\ Grows
  BY OnSame DEF Move
<1> QED
  BY <1>1, <1>2, AllKept DEF Move, Person

LEMMA PeopleKeep ==
  ASSUME TypeInv, People
  PROVE  TypeInv'
BY MakeKeeps, RemoveKeeps, RenameKeeps, MoveKeeps, ChooseKeeps DEF People

-----------------------------------------------------------------------------
(* Scans.                                                                  *)

LEMMA BeginRoundKeeps ==
  ASSUME TypeInv, BeginRound
  PROVE  TypeInv'
<1> USE DEF TypeInv
<1>1. << >> \in Partial(Node, Partial(Nat, RowT)) /\ << >> \in Partial(Nat, RecT) /\ DOMAIN << >> = {}
  BY EmptyPartial
<1>2. RoundOK(round')
  BY <1>1 DEF BeginRound, NoRound, RoundOK, RoundT
<1>3. OnOK' /\ Grows
  BY OnSame DEF BeginRound, outside
<1>4. RestOK'
  BY DEF BeginRound, outside, store, RestOK
<1> QED
  BY <1>2, <1>3, <1>4, AllKept DEF BeginRound, outside, store

LEMMA RowIs ==
  ASSUME OnOK, NEW n \in Node, NEW i \in DOMAIN on[n]
  PROVE  Row(n, i) \in RowT /\ RowThere(n, Row(n, i)) /\ Row(n, i).name = on[n][i].name
<1>1. on[n][i] \in RepoT /\ i \in Nat
  BY CopyIs DEF OnOK
<1> QED
  BY <1>1 DEF Row, RowT, RowThere, RepoT

LEMMA ListNodeKeeps ==
  ASSUME TypeInv, NEW n \in Node, ListNode(n)
  PROVE  TypeInv'
<1> USE DEF TypeInv
<1> DEFINE rows == [i \in Live(n) |-> Row(n, i)]
           listed == [o \in {n} |-> rows]
<1>1. round \in RoundT /\ round' = [round EXCEPT !.listed = listed, !.observed = {}]
  BY DEF ListNode, RoundOK
<1>2. Live(n) \subseteq DOMAIN on[n] /\ Live(n) \in SUBSET Nat
  BY DEF Live, OnOK
<1>3. rows \in [Live(n) -> RowT] /\ \A i \in Live(n) : RowThere(n, rows[i])
  BY <1>2, RowIs
<1>4. rows \in Partial(Nat, RowT) /\ DOMAIN rows = Live(n)
  BY <1>2, <1>3, IsPartial
<1> HIDE DEF rows
<1>5. listed \in [{n} -> Partial(Nat, RowT)] /\ listed[n] = rows
  BY <1>4
<1>6. listed \in Partial(Node, Partial(Nat, RowT)) /\ DOMAIN listed = {n}
  BY <1>5, IsPartial
<1> HIDE DEF listed
<1>7. round' \in RoundT /\ round'.listed = listed /\ round'.list = round.list /\ round'.todo = round.todo
  BY <1>1, <1>6 DEF RoundT
<1>8. RoundOK(round')
  BY <1>3, <1>4, <1>5, <1>6, <1>7 DEF RoundOK
<1>9. OnOK' /\ Grows
  BY OnSame DEF ListNode, outside
<1>10. RestOK'
  BY DEF ListNode, outside, store, RestOK
<1> QED
  BY <1>8, <1>9, <1>10, AllKept DEF ListNode, outside, store

\* The scan of a node is over.
LEMMA ScanOver ==
  ASSUME TypeInv, NEW n, round' = [round EXCEPT !.left = @ \ {n}, !.listed = << >>, !.observed = {}]
  PROVE  RoundOK(round')
<1>1. << >> \in Partial(Node, Partial(Nat, RowT)) /\ DOMAIN << >> = {}
  BY EmptyPartial
<1>2. round' \in RoundT /\ round'.listed = << >> /\ round'.list = round.list /\ round'.todo = round.todo
  BY <1>1 DEF RoundT, RoundOK, TypeInv
<1> QED
  BY <1>1, <1>2 DEF RoundOK, TypeInv

LEMMA RecordScanKeeps ==
  ASSUME TypeInv, NEW n \in Node, RecordScan(n)
  PROVE  TypeInv'
<1> USE DEF TypeInv
<1> DEFINE rows == round.listed[n]
           R == RecordedAll(recs, n, rows)
<1>1. PICK spared : recs' = Missing(R, n, rows, spared)
  BY DEF RecordScan
<1>2. \A i \in DOMAIN rows : rows[i] \in RowT /\ RowThere(n, rows[i])
  <2>1. round.listed \in Partial(Node, Partial(Nat, RowT)) /\ n \in DOMAIN round.listed
    BY DEF RecordScan, RoundOK, RoundT
  <2>2. rows \in Partial(Nat, RowT)
    BY <2>1, PartialIs
  <2>3. rows \in [DOMAIN rows -> RowT]
    BY <2>2, PartialIs
  <2> QED
    BY <2>1, <2>3 DEF RoundOK
<1>3. Len(on[n]) \in Nat /\ hist.next \in Nat
  BY DEF OnOK, RestOK
<1> HIDE DEF rows
<1>4. RecordsOK(R) /\ DOMAIN recs \subseteq DOMAIN R
  BY <1>2, <1>3, RecordedAllIs
<1> HIDE DEF R
<1>5. RecordsOK(recs') /\ DOMAIN recs' = DOMAIN R
  BY <1>1, <1>4, MissingIs
<1>6. AliasesOK(aliases', recs') /\ ArchivesOK(archives', recs')
  BY <1>4, <1>5 DEF RecordScan, AliasesOK, ArchivesOK
<1>7. RoundOK(round')
  BY ScanOver DEF RecordScan
<1>8. hist' \in [next : Nat, lines : SUBSET Nat, ended : SUBSET (Nat \cup {None}),
                 taken : BOOLEAN, moved : BOOLEAN, stale : BOOLEAN]
  <2>1. IsFiniteSet(1 .. (hist.next - 1)) /\ IsFiniteSet(DOMAIN recs')
    BY <1>3, <1>5, FS_Interval DEF RecordsOK
  <2>2. IsFiniteSet((DOMAIN recs') \cup 1 .. (hist.next - 1))
    BY <2>1, FS_Union
  <2>3. Cardinality((DOMAIN recs') \cup 1 .. (hist.next - 1)) \in Nat
    BY <2>2, FS_CardinalityType
  <2> DEFINE c == Cardinality((DOMAIN recs') \cup 1 .. (hist.next - 1))
  <2>4. hist' = [hist EXCEPT !.next = c + 1]
    BY DEF RecordScan
  <2> HIDE DEF c
  <2>5. c + 1 \in Nat
    BY <2>3 DEF c
  <2> QED
    BY <2>4, <2>5 DEF RestOK
<1>9. RestOK'
  BY <1>8 DEF RecordScan, RestOK
<1>10. OnOK' /\ Grows
  BY OnSame DEF RecordScan
<1> QED
  BY <1>5, <1>6, <1>7, <1>9, <1>10, AllKept DEF RecordScan

LEMMA ScanFailsKeeps ==
  ASSUME TypeInv, NEW n \in Node, ScanFails(n)
  PROVE  TypeInv'
<1> USE DEF TypeInv
<1>1. RoundOK(round')
  BY ScanOver DEF ScanFails
<1>2. faults' \in 0 .. MaxFaults
  BY TypedBounds DEF ScanFails, RestOK
<1>5. scanOk' \in [Node -> BOOLEAN]
  BY DEF ScanFails, RestOK
<1>3. RestOK'
  BY <1>2, <1>5 DEF ScanFails, outside, RestOK
<1>4. OnOK' /\ Grows
  BY OnSame DEF ScanFails, outside
<1> QED
  BY <1>1, <1>3, <1>4, AllKept DEF ScanFails, outside

LEMMA ForgetKeeps ==
  ASSUME TypeInv, ForgetAliases
  PROVE  RecordsOK(recs') /\ AliasesOK(aliases', recs') /\ ArchivesOK(archives', recs')
<1>1. Needed(aliases, recs) \in SUBSET DOMAIN aliases
  BY DEF Needed
<1>2. AliasesOK([name \in Needed(aliases, recs) |-> aliases[name]], recs)
  BY <1>1, NeededAre DEF TypeInv
<1> QED
  BY <1>2 DEF ForgetAliases, TypeInv

LEMMA DetectRenamesKeeps ==
  ASSUME TypeInv, DetectRenames
  PROVE  TypeInv'
<1> USE DEF TypeInv
<1>1. /\ RecordsOK(recs') /\ AliasesOK(aliases', recs') /\ ArchivesOK(archives', recs') /\ RoundOK(round')
  <2> DEFINE p == First(Fresh(round.merged))
  <2>1. CASE AllOk /\ Fresh(round.merged) # {}
    <3>1. ApplyRename(p) /\ round' = [round EXCEPT !.merged = @ \cup {p[1], p[2]}]
      BY <2>1 DEF DetectRenames
    <3>2. p[1] \in DOMAIN recs /\ p[2] \in DOMAIN recs /\ p[1] # p[2]
      BY <2>1, RenamesAre
    <3>3. p[1] \in Nat /\ p[2] \in Nat
      BY <3>2, RecordsAre
    <3> HIDE DEF p
    <3>4. RecordsOK(recs') /\ AliasesOK(aliases', recs') /\ ArchivesOK(archives', recs')
      BY <3>1, <3>2, ApplyRenameIs
    <3>5. /\ round' \in RoundT /\ round'.listed = round.listed /\ round'.list = round.list /\ round'.todo = round.todo
      BY <3>1, <3>3 DEF RoundOK, RoundT
    <3> QED
      BY <3>4, <3>5 DEF RoundOK
  <2>2. CASE ~(AllOk /\ Fresh(round.merged) # {})
    <3>1. round' = [round EXCEPT !.ph = "assign"] /\ (ForgetAliases \/ UNCHANGED <<recs, aliases, archives>>)
      BY <2>2 DEF DetectRenames
    <3>2. /\ round' \in RoundT /\ round'.listed = round.listed /\ round'.list = round.list /\ round'.todo = round.todo
      BY <3>1 DEF RoundOK, RoundT
    <3>3. RecordsOK(recs') /\ AliasesOK(aliases', recs') /\ ArchivesOK(archives', recs')
      BY <3>1, ForgetKeeps
    <3> QED
      BY <3>2, <3>3 DEF RoundOK
  <2> QED
    BY <2>1, <2>2
<1>2. OnOK' /\ Grows
  BY OnSame DEF DetectRenames, outside
<1>3. RestOK'
  BY DEF DetectRenames, outside, RestOK
<1> QED
  BY <1>1, <1>2, <1>3, AllKept DEF DetectRenames, outside

\* The records with the primaries they are given.
LEMMA AssignedKeeps ==
  ASSUME TypeInv, recs' = [id \in (DOMAIN recs) |-> Assigned(recs[id])] \/ recs' = recs,
         aliases' = aliases, archives' = archives
  PROVE  RecordsOK(recs') /\ AliasesOK(aliases', recs') /\ ArchivesOK(archives', recs')
<1>1. RecordsOK(recs') /\ DOMAIN recs' = DOMAIN recs
  BY AllAssigned DEF TypeInv
<1> QED
  BY <1>1 DEF AliasesOK, ArchivesOK, TypeInv

LEMMA AssignPrimariesKeeps ==
  ASSUME TypeInv, AssignPrimaries
  PROVE  TypeInv'
<1> USE DEF TypeInv
<1>1. RecordsOK(recs') /\ AliasesOK(aliases', recs') /\ ArchivesOK(archives', recs')
  BY AssignedKeeps DEF AssignPrimaries
<1>2. round' = [NoRound EXCEPT !.ph = "run", !.list = recs', !.todo = {id \in DOMAIN recs' : recs'[id].primary # None}]
  BY DEF AssignPrimaries
<1>3. << >> \in Partial(Node, Partial(Nat, RowT)) /\ DOMAIN << >> = {}
  BY EmptyPartial
<1>4. recs' \in Partial(Nat, RecT) /\ DOMAIN recs' \in SUBSET Nat
  BY <1>1, RecordsAre DEF RecordsOK
<1> DEFINE todo == {id \in DOMAIN recs' : recs'[id].primary # None}
<1>5. todo \in SUBSET Nat
  BY <1>4
<1> HIDE DEF todo
<1>6. round' = [ph |-> "run", listed |-> << >>, left |-> {}, observed |-> {}, merged |-> {}, list |-> recs', todo |-> todo]
  BY <1>2 DEF NoRound, todo
<1>7. round' \in RoundT /\ round'.listed = << >> /\ round'.list = recs' /\ round'.todo = todo
  BY <1>3, <1>4, <1>5, <1>6 DEF RoundT
<1>8. RoundOK(round')
  BY <1>1, <1>3, <1>7 DEF RoundOK, RecordsOK, todo
<1>9. OnOK' /\ Grows
  BY OnSame DEF AssignPrimaries, outside
<1>10. RestOK'
  BY DEF AssignPrimaries, outside, RestOK
<1> QED
  BY <1>1, <1>8, <1>9, <1>10, AllKept DEF AssignPrimaries, outside

LEMMA ScanKeeps ==
  ASSUME TypeInv, Scan
  PROVE  TypeInv'
BY BeginRoundKeeps, DetectRenamesKeeps, AssignPrimariesKeeps, ListNodeKeeps, RecordScanKeeps DEF Scan

-----------------------------------------------------------------------------
(* Looks at one name.                                                      *)

LEMMA LookIs ==
  ASSUME NEW name \in AllNames, NEW node \in Node \cup {None}, NEW again \in BOOLEAN
  PROVE  Look(name, node, again) \in RecheckT
BY DEF Look, NoRecheck, RecheckT

LEMMA NoRecheckIs == NoRecheck \in RecheckT
BY DEF NoRecheck, RecheckT

LEMMA HearKeeps ==
  ASSUME TypeInv, NEW n \in Node, NEW name \in Name, Hear(n, name)
  PROVE  TypeInv'
<1> USE DEF TypeInv
<1>1. recheck' \in RecheckT
  BY NamesClosed, LookIs DEF Hear
<1>2. rechecks' \in 0 .. MaxRechecks
  BY TypedBounds DEF Hear, RestOK
<1>3. OnOK' /\ Grows
  BY OnSame DEF Hear, outside
<1>4. RestOK'
  BY <1>2 DEF Hear, outside, store, RestOK
<1> QED
  BY <1>1, <1>3, <1>4, AllKept DEF Hear, outside, store

LEMMA AskFailsKeeps ==
  ASSUME TypeInv, NEW n \in Node, AskFails(n)
  PROVE  TypeInv'
<1> USE DEF TypeInv
<1>1. recheck' \in RecheckT
  BY DEF AskFails, RecheckT
<1>2. faults' \in 0 .. MaxFaults
  BY TypedBounds DEF AskFails, RestOK
<1>3. OnOK' /\ Grows
  BY OnSame DEF AskFails, outside
<1>4. RestOK'
  BY <1>2 DEF AskFails, outside, store, RestOK
<1> QED
  BY <1>1, <1>3, <1>4, AllKept DEF AskFails, outside, store

LEMMA LookedKeeps ==
  ASSUME TypeInv, Looked
  PROVE  TypeInv'
<1> USE DEF TypeInv
<1>1. recheck' \in RecheckT
  <2>1. CASE recheck' = NoRecheck
    BY <2>1, NoRecheckIs
  <2>2. CASE recheck' = [recheck EXCEPT !.ph = "assign"]
    BY <2>2 DEF RecheckT
  <2>3. ASSUME NEW name \in Previous(recheck.node, recheck.name), recheck' = Look(name, recheck.node, TRUE)
        PROVE  recheck' \in RecheckT
    <3> DEFINE n == recheck.node
    <3>1. n \in Node \cup {None}
      BY DEF RecheckT
    <3>2. PICK id \in DOMAIN recs : Seen(recs[id], n) /\ name = recs[id].rep[n].name
      BY <2>3 DEF Previous
    <3>3. recs[id].rep \in [DOMAIN recs[id].rep -> RowT] /\ n \in DOMAIN recs[id].rep
      BY <3>2, RecordsAre DEF Seen
    <3>4. name \in AllNames
      BY <3>2, <3>3 DEF RowT
    <3> QED
      BY <2>3, <3>1, <3>4, LookIs
  <2> QED
    BY <2>1, <2>2, <2>3 DEF Looked
<1>2. OnOK' /\ Grows
  BY OnSame DEF Looked, outside
<1>3. RestOK'
  BY DEF Looked, outside, store, RestOK
<1> QED
  BY <1>1, <1>2, <1>3, AllKept DEF Looked, outside, store

LEMMA RenameSoonKeeps ==
  ASSUME TypeInv, RenameSoon
  PROVE  TypeInv'
<1> USE DEF TypeInv
<1> DEFINE p == First(Fresh(recheck.merged))
<1>1. ApplyRename(p) /\ recheck' = [recheck EXCEPT !.merged = @ \cup {p[1], p[2]}]
  BY DEF RenameSoon
<1>2. p[1] \in DOMAIN recs /\ p[2] \in DOMAIN recs /\ p[1] # p[2]
  BY RenamesAre DEF RenameSoon
<1>3. p[1] \in Nat /\ p[2] \in Nat
  BY <1>2, RecordsAre
<1> HIDE DEF p
<1>4. RecordsOK(recs') /\ AliasesOK(aliases', recs') /\ ArchivesOK(archives', recs')
  BY <1>1, <1>2, ApplyRenameIs
<1>5. recheck' \in RecheckT
  BY <1>1, <1>3 DEF RecheckT
<1>6. OnOK' /\ Grows
  BY OnSame DEF RenameSoon, outside
<1>7. RestOK'
  BY DEF RenameSoon, outside, RestOK
<1> QED
  BY <1>4, <1>5, <1>6, <1>7, AllKept DEF RenameSoon, outside

LEMMA AssignSoonKeeps ==
  ASSUME TypeInv, AssignSoon
  PROVE  TypeInv'
<1> USE DEF TypeInv
<1>1. RecordsOK(recs') /\ AliasesOK(aliases', recs') /\ ArchivesOK(archives', recs')
  BY AssignedKeeps DEF AssignSoon
<1>2. recheck' \in RecheckT
  BY NoRecheckIs DEF AssignSoon
<1>3. OnOK' /\ Grows
  BY OnSame DEF AssignSoon, outside
<1>4. RestOK'
  BY DEF AssignSoon, outside, RestOK
<1> QED
  BY <1>1, <1>2, <1>3, <1>4, AllKept DEF AssignSoon, outside

LEMMA ObserveKeeps ==
  ASSUME TypeInv, NEW n \in Node, Observe(n)
  PROVE  TypeInv'
<1> USE DEF TypeInv
<1> DEFINE row == IF Named(n, recheck.name) = {} THEN None ELSE Row(n, IdOf(n, recheck.name))
           gone == {id \in (DOMAIN recs) : Seen(recs[id], n) /\ recs[id].rep[n].name = recheck.name}
           Q == [id \in (DOMAIN recs) |-> IF id \in gone THEN [recs[id] EXCEPT !.rep[n].present = FALSE] ELSE recs[id]]
           R == IF row = None THEN Q ELSE Recorded(recs, n, row, {recheck.name})
           seen == {<<n, id>> : id \in {k \in DOMAIN R : k \notin (DOMAIN recs) \/ R[k] # recs[k]}}
           c == Cardinality(DOMAIN R \cup 1 .. (hist.next - 1))
           stale == hist.stale \/ HalfSeen(n, row, gone, R)
<1>1. /\ recs' = R /\ hist' = [hist EXCEPT !.next = c + 1, !.stale = stale]
      /\ round' = round \/ round' = [round EXCEPT !.observed = @ \cup seen]
  BY DEF Observe
<1>2. RecordsOK(R) /\ DOMAIN recs \subseteq DOMAIN R
  <2>1. CASE row = None
    <3>1. \A id \in DOMAIN recs : Q[id] \in RecT /\ RowsThere(Q[id]) /\ Q[id].name = recs[id].name
      <4>1. \A id \in gone : n \in DOMAIN recs[id].rep
        BY DEF Seen
      <4> HIDE DEF gone
      <4> QED
        BY <4>1, GoneIs, RecordsAre DEF RecordsOK
    <3>2. Q = [id \in DOMAIN recs |-> Q[id]]
      OBVIOUS
    <3>3. R = Q
      BY <2>1
    <3> HIDE DEF Q, R
    <3> QED
      BY <3>1, <3>2, <3>3, RecordsReplaced
  <2>2. CASE row # None
    <3>1. Named(n, recheck.name) # {} /\ row = Row(n, IdOf(n, recheck.name))
      BY <2>2
    <3>2. IdOf(n, recheck.name) \in Live(n)
      BY <3>1 DEF Named, IdOf
    <3>3. IdOf(n, recheck.name) \in DOMAIN on[n]
      BY <3>2 DEF Live
    <3>4. row \in RowT /\ RowThere(n, row)
      BY <3>1, <3>3, RowIs
    <3>5. R = Recorded(recs, n, row, {recheck.name}) /\ hist.next \in Nat
      BY <2>2 DEF RestOK
    <3> HIDE DEF row, R
    <3> QED
      BY <3>4, <3>5, RecordedIs
  <2> QED
    BY <2>1, <2>2
<1>3. stale \in BOOLEAN
  BY DEF RestOK
<1> HIDE DEF R, stale
<1>4. c + 1 \in Nat
  <2>1. IsFiniteSet(1 .. (hist.next - 1)) /\ IsFiniteSet(DOMAIN R)
    BY <1>2, FS_Interval DEF RecordsOK, RestOK
  <2>2. IsFiniteSet(DOMAIN R \cup 1 .. (hist.next - 1))
    BY <2>1, FS_Union
  <2> QED
    BY <2>2, FS_CardinalityType
<1>5. seen \in SUBSET (Node \X Nat)
  BY <1>2, RecordsAre
<1> HIDE DEF c, seen
<1>6. RoundOK(round')
  <2>1. /\ round' \in RoundT /\ round'.listed = round.listed /\ round'.list = round.list /\ round'.todo = round.todo
    BY <1>1, <1>5 DEF RoundOK, RoundT
  <2> QED
    BY <2>1 DEF RoundOK
<1>7. AliasesOK(aliases', recs') /\ ArchivesOK(archives', recs')
  BY <1>1, <1>2 DEF Observe, AliasesOK, ArchivesOK
<1>8. hist' \in [next : Nat, lines : SUBSET Nat, ended : SUBSET (Nat \cup {None}),
                 taken : BOOLEAN, moved : BOOLEAN, stale : BOOLEAN]
  BY <1>1, <1>3, <1>4 DEF RestOK
<1>9. RestOK'
  BY <1>8 DEF Observe, RestOK
<1>10. recheck' \in RecheckT
  BY DEF Observe, RecheckT
<1>11. OnOK' /\ Grows
  BY OnSame DEF Observe
<1> QED
  BY <1>1, <1>2, <1>6, <1>7, <1>9, <1>10, <1>11, AllKept DEF Observe

LEMMA LookAtKeeps ==
  ASSUME TypeInv, LookAt
  PROVE  TypeInv'
BY LookedKeeps, RenameSoonKeeps, AssignSoonKeeps, ObserveKeeps DEF LookAt

-----------------------------------------------------------------------------
(* Runs.                                                                   *)

LEMMA StartedIs ==
  ASSUME NEW id \in Nat, NEW r \in RecT, r.primary # None, RowsThere(r), NEW triggered \in BOOLEAN
  PROVE  JobOK(Started(id, r, triggered))
<1> DEFINE ph == IF Due(id) # {} \/ AllPurged(id, r) THEN "purge" ELSE "look"
           j == [NoJob EXCEPT !.ph = ph, !.id = id, !.rec = r, !.triggered = triggered]
<1>1. Started(id, r, triggered) = j
  BY DEF Started
<1>2. ph \in {"purge", "look"}
  OBVIOUS
<1> HIDE DEF ph
<1>3. j \in JobT /\ j.rec = r /\ j.ph = ph
  <2>1. NoJob \in JobT
    BY NoJobIs DEF JobOK
  <2> QED
    BY <1>2, <2>1 DEF JobT
<1>4. r.primary \in Node
  BY DEF RecT
<1> HIDE DEF j
<1>5. JobOK(j)
  BY <1>2, <1>3, <1>4, JobBetween DEF PerNode
<1> QED
  BY <1>1, <1>5

LEMMA StartListedKeeps ==
  ASSUME TypeInv, NEW id \in round.todo, StartListed(id)
  PROVE  TypeInv'
<1> USE DEF TypeInv
<1>1. round \in RoundT /\ id \in Nat /\ id \in DOMAIN round.list /\ round.list[id].primary # None
  BY DEF RoundOK, RoundT
<1>2. round.list[id] \in RecT /\ RowsThere(round.list[id])
  <2>1. round.list \in Partial(Nat, RecT)
    BY <1>1 DEF RoundT
  <2> QED
    BY <1>1, <2>1, PartialIs DEF RoundOK
<1>3. JobOK(job')
  BY <1>1, <1>2, StartedIs DEF StartListed
<1>4. RoundOK(round')
  <2>1. /\ round' \in RoundT /\ round'.listed = round.listed /\ round'.list = round.list
        /\ round'.todo = round.todo \ {id}
    BY <1>1 DEF StartListed, RoundT
  <2> QED
    BY <2>1 DEF RoundOK
<1>5. OnOK' /\ Grows
  BY OnSame DEF StartListed, outside
<1>6. RestOK'
  BY DEF StartListed, outside, store, RestOK
<1> QED
  BY <1>3, <1>4, <1>5, <1>6, AllKept DEF StartListed, outside, store

LEMMA NoRoundIs == RoundOK(NoRound)
<1>1. << >> \in Partial(Node, Partial(Nat, RowT)) /\ << >> \in Partial(Nat, RecT) /\ DOMAIN << >> = {}
  BY EmptyPartial
<1> QED
  BY <1>1 DEF NoRound, RoundOK, RoundT

LEMMA RoundEndsKeeps ==
  ASSUME TypeInv, RoundEnds
  PROVE  TypeInv'
<1> USE DEF TypeInv
<1>1. RoundOK(round')
  BY NoRoundIs DEF RoundEnds
<1>2. OnOK' /\ Grows
  BY OnSame DEF RoundEnds, outside
<1>3. RestOK'
  BY DEF RoundEnds, outside, store, RestOK
<1> QED
  BY <1>1, <1>2, <1>3, AllKept DEF RoundEnds, outside, store

LEMMA TriggerKeeps ==
  ASSUME TypeInv, NEW id \in DOMAIN recs, Trigger(id)
  PROVE  TypeInv'
<1> USE DEF TypeInv
<1>1. id \in Nat /\ recs[id] \in RecT /\ RowsThere(recs[id])
  BY RecordsAre DEF RecordsOK
<1>2. JobOK(job')
  BY <1>1, StartedIs DEF Trigger
<1>3. OnOK' /\ Grows
  BY OnSame DEF Trigger, outside
<1>4. rechecks' \in 0 .. MaxRechecks
  BY TypedBounds DEF Trigger, RestOK
<1>5. RestOK'
  BY <1>4 DEF Trigger, outside, store, RestOK
<1> QED
  BY <1>2, <1>3, <1>5, AllKept DEF Trigger, outside, store

LEMMA AfterKeeps ==
  ASSUME TypeInv, After
  PROVE  TypeInv'
<1> USE DEF TypeInv
<1>1. job.rec.name \in AllNames
  BY JobHas DEF After
<1>2. recheck' \in RecheckT
  BY <1>1, LookIs DEF After
<1>3. JobOK(job')
  BY NoJobIs DEF After
<1>4. OnOK' /\ Grows
  BY OnSame DEF After, outside
<1>5. RestOK'
  BY DEF After, outside, store, RestOK
<1> QED
  BY <1>2, <1>3, <1>4, <1>5, AllKept DEF After, outside, store

LEMMA FindKeeps ==
  ASSUME TypeInv, Find
  PROVE  TypeInv'
<1> USE DEF TypeInv
<1>1. job \in JobT /\ P \in Node /\ job.ph # "idle"
  BY JobHas DEF Find
<1>2. JobOK(job')
  <2>1. CASE Named(P, job.rec.name) # {}
    <3> DEFINE line == on[P][IdOf(P, job.rec.name)].line
    <3>1. IdOf(P, job.rec.name) \in DOMAIN on[P]
      BY <2>1 DEF Named, IdOf, Live
    <3>2. line \in Nat \cup {None}
      BY <1>1, <3>1, CopyIs DEF RepoT
    <3>3. job' = IF job.rec.deleted THEN [job EXCEPT !.ph = "undelete", !.line = line] ELSE FirstNode("copy", line)
      BY <2>1 DEF Find
    <3> HIDE DEF line
    <3>4. JobOK([job EXCEPT !.ph = "undelete", !.line = line])
      <4> DEFINE j == [job EXCEPT !.ph = "undelete", !.line = line]
      <4>1. j \in JobT /\ j.rec = job.rec /\ j.ph = "undelete"
        BY <1>1, <3>2 DEF JobT
      <4>2. job.rec \in RecT /\ job.rec.primary \in Node /\ RowsThere(job.rec)
        BY <1>1, JobHas DEF P
      <4> HIDE DEF j
      <4>3. JobOK(j)
        BY <4>1, <4>2, JobBetween DEF PerNode
      <4> QED
        BY <4>3 DEF j
    <3>5. JobOK(FirstNode("copy", line))
      BY <1>1, <3>2, FirstNodeIs
    <3> QED
      BY <3>3, <3>4, <3>5
  <2>2. CASE Named(P, job.rec.name) = {}
    <3>1. job' \in {FirstNode("archive", None), ToPhase("renamed?"), Done, ToPhase("seed")}
      BY <2>2 DEF Find
    <3> QED
      BY <1>1, <3>1, FirstNodeIs, ToPhaseIs, DoneIs
  <2> QED
    BY <2>1, <2>2
<1>3. OnOK' /\ Grows
  BY OnSame DEF Find, Reads
<1>4. RestOK'
  BY DEF Find, Reads, Calls, RestOK
<1> QED
  BY <1>2, <1>3, <1>4, AllKept DEF Find, Reads, Calls

LEMMA AskRenamedKeeps ==
  ASSUME TypeInv, AskRenamed
  PROVE  TypeInv'
<1> USE DEF TypeInv
<1>1. JobOK(job')
  BY DoneIs, ToPhaseIs DEF AskRenamed
<1>2. OnOK' /\ Grows
  BY OnSame DEF AskRenamed, Reads
<1>3. RestOK'
  BY DEF AskRenamed, Reads, Calls, RestOK
<1> QED
  BY <1>1, <1>2, <1>3, AllKept DEF AskRenamed, Reads, Calls

\* A repository is marked deleted, or not deleted, if it is known.
LEMMA MarkedKeeps ==
  ASSUME TypeInv, NEW deleted \in BOOLEAN, Marked(deleted), aliases' = aliases, archives' = archives
  PROVE  RecordsOK(recs') /\ AliasesOK(aliases', recs') /\ ArchivesOK(archives', recs')
<1> DEFINE Q == [id \in DOMAIN recs |-> IF id = job.id THEN [recs[id] EXCEPT !.deleted = deleted] ELSE recs[id]]
<1>1. recs' = Q /\ Q = [id \in DOMAIN recs |-> Q[id]]
  BY DEF Marked
<1>2. ASSUME NEW id \in DOMAIN recs
      PROVE  Q[id] \in RecT /\ RowsThere(Q[id]) /\ Q[id].name = recs[id].name
  <2>1. recs[id] \in RecT /\ RowsThere(recs[id])
    BY RecordsAre DEF RecordsOK, TypeInv
  <2> DEFINE s == [recs[id] EXCEPT !.deleted = deleted]
  <2>2. s \in RecT /\ s.rep = recs[id].rep /\ s.name = recs[id].name
    BY <2>1 DEF RecT
  <2>3. Q[id] = s \/ Q[id] = recs[id]
    OBVIOUS
  <2> HIDE DEF s, Q
  <2> QED
    BY <2>1, <2>2, <2>3 DEF RowsThere
<1> HIDE DEF Q
<1>3. RecordsOK(Q) /\ DOMAIN Q = DOMAIN recs
  BY <1>1, <1>2, RecordsReplaced DEF TypeInv
<1> QED
  BY <1>1, <1>3 DEF TypeInv, AliasesOK, ArchivesOK

LEMMA UndeleteKeeps ==
  ASSUME TypeInv, Undelete
  PROVE  TypeInv'
<1>1. RecordsOK(recs') /\ AliasesOK(aliases', recs') /\ ArchivesOK(archives', recs')
  BY MarkedKeeps DEF Undelete, Writes, Calls
<1> USE DEF TypeInv
<1>2. job.line \in Nat \cup {None}
  BY DEF JobOK, JobT
<1>3. JobOK(job')
  BY <1>2, FirstNodeIs DEF Undelete
<1>4. OnOK' /\ Grows
  BY OnSame DEF Undelete, Writes
<1>5. RestOK'
  BY DEF Undelete, Writes, Calls, RestOK
<1> QED
  BY <1>1, <1>3, <1>4, <1>5, AllKept DEF Undelete, Writes, Calls

LEMMA MarkKeeps ==
  ASSUME TypeInv, Mark
  PROVE  TypeInv'
<1>1. RecordsOK(recs') /\ AliasesOK(aliases', recs') /\ ArchivesOK(archives', recs')
  BY MarkedKeeps DEF Mark, Calls
<1> USE DEF TypeInv
<1>2. JobOK(job')
  BY FirstNodeIs DEF Mark
<1>3. OnOK' /\ Grows
  BY OnSame DEF Mark
<1> DEFINE stale == hist.stale \/ ~Current
<1>4. stale \in BOOLEAN /\ hist' = [hist EXCEPT !.stale = stale]
  BY DEF Mark, RestOK
<1> HIDE DEF stale
<1>5. RestOK'
  BY <1>4 DEF Mark, Calls, RestOK
<1> QED
  BY <1>1, <1>2, <1>3, <1>5, AllKept DEF Mark, Calls

LEMMA RepoIsThere ==
  ASSUME OnOK, NEW n \in Node, NEW name, Named(n, name) # {}
  PROVE  /\ IdOf(n, name) \in DOMAIN on[n] /\ IdOf(n, name) \in Nat /\ on[n][IdOf(n, name)] \in RepoT
         /\ on[n][IdOf(n, name)].name = name /\ on[n][IdOf(n, name)].place = "live"
<1>1. IdOf(n, name) \in Live(n) /\ on[n][IdOf(n, name)].name = name
  BY DEF Named, IdOf
<1>2. IdOf(n, name) \in DOMAIN on[n] /\ on[n][IdOf(n, name)].place = "live"
  BY <1>1 DEF Live
<1>3. IdOf(n, name) \in Nat
  BY <1>2 DEF OnOK
<1> QED
  BY <1>1, <1>2, <1>3, CopyIs

\* An archive and the records stay as they are, or its state goes on.
LEMMA ArchiveGoesOn ==
  ASSUME TypeInv, NEW a \in archives, NEW state \in {"renamed", "archived", "due", "purged"}
  PROVE  ArchivesOK((archives \ {a}) \cup {[a EXCEPT !.state = state]}, recs)
<1> DEFINE b == [a EXCEPT !.state = state]
<1>1. a \in ArchiveT
  BY DEF TypeInv, ArchivesOK
<1>2. b \in ArchiveT /\ b.rec = a.rec /\ b.node = a.node /\ b.fid = a.fid
  BY <1>1 DEF ArchiveT
<1> HIDE DEF b
<1>3. ArchivesOK((archives \ {a}) \cup {b}, recs)
  BY <1>2 DEF TypeInv, ArchivesOK
<1> QED
  BY <1>3 DEF b

LEMMA ExpireKeeps ==
  ASSUME TypeInv, NEW a \in archives, Expire(a)
  PROVE  TypeInv'
<1>1. ArchivesOK(archives', recs')
  BY ArchiveGoesOn DEF Expire
<1> USE DEF TypeInv
<1>2. OnOK' /\ Grows
  BY OnSame DEF Expire, outside
<1>3. RestOK'
  BY DEF Expire, outside, RestOK
<1> QED
  BY <1>1, <1>2, <1>3, AllKept DEF Expire, outside

\* A copy's place or work changes.
LEMMA CopyChanges ==
  ASSUME OnOK, NEW n \in Node, NEW i \in DOMAIN on[n], NEW y \in RepoT, y.name = on[n][i].name,
         y.place = "live" => on[n][i].place = "live", on' = [on EXCEPT ![n][i] = y]
  PROVE  OnOK' /\ Grows /\ \A m \in Node : DOMAIN on'[m] = DOMAIN on[m]
<1>1. y.place = "live" => Named(n, y.name) \subseteq {i}
  BY DEF OnOK, Named, Live
<1> QED
  BY <1>1, OnChanges

LEMMA PurgeKeeps ==
  ASSUME TypeInv, Purge
  PROVE  TypeInv'
<1>1. PICK a \in Due(job.id) : /\ on' = [on EXCEPT ![a.node][a.fid].place = "gone"]
                               /\ archives' = (archives \ {a}) \cup {[a EXCEPT !.state = "purged"]}
  BY DEF Purge
<1>2. a \in archives
  BY DEF Due, Ours
<1>3. ArchivesOK(archives', recs')
  BY <1>1, <1>2, ArchiveGoesOn DEF Purge
<1> USE DEF TypeInv
<1>4. a.node \in Node /\ a.fid \in DOMAIN on[a.node]
  BY <1>2 DEF ArchivesOK, ArchiveT
<1> DEFINE y == [on[a.node][a.fid] EXCEPT !.place = "gone"]
<1>5. y \in RepoT /\ y.name = on[a.node][a.fid].name /\ y.place = "gone"
  BY <1>4, CopyIs DEF RepoT
<1>6. on' = [on EXCEPT ![a.node][a.fid] = y]
  BY <1>1
<1> HIDE DEF y
<1>7. OnOK' /\ Grows
  BY <1>4, <1>5, <1>6, CopyChanges
<1>8. RestOK'
  BY DEF Purge, Calls, RestOK
<1> QED
  BY <1>3, <1>7, <1>8, AllKept DEF Purge, Calls

\* A repository is forgotten, with its archives and its old names.
LEMMA PurgedKeeps ==
  ASSUME TypeInv, Purged
  PROVE  TypeInv'
<1> USE DEF TypeInv
<1>1. /\ RecordsOK(recs') /\ AliasesOK(aliases', recs') /\ ArchivesOK(archives', recs') /\ JobOK(job')
  <2>1. CASE job' = ToPhase("look") /\ UNCHANGED <<recs, archives, aliases>>
    BY <2>1, ToPhaseIs DEF Purged
  <2>2. CASE /\ recs' = [id \in DOMAIN recs \ {job.id} |-> recs[id]]
             /\ archives' = archives \ Ours(job.id)
             /\ aliases' = [name \in {o \in DOMAIN aliases : aliases[o] # job.id} |-> aliases[name]]
             /\ job' = Done
    <3> DEFINE D == DOMAIN recs \ {job.id}
               R == [id \in D |-> recs[id]]
               E == {o \in DOMAIN aliases : aliases[o] # job.id}
               al == [name \in E |-> aliases[name]]
    <3>1. RecordsOK(R) /\ DOMAIN R = D
      <4>1. /\ DOMAIN recs \in SUBSET Nat /\ recs \in [DOMAIN recs -> RecT] /\ IsFiniteSet(DOMAIN recs)
            /\ \A id \in DOMAIN recs : RowsThere(recs[id])
            /\ \A id, o \in DOMAIN recs : recs[id].name = recs[o].name => id = o
        BY RecordsAre DEF RecordsOK
      <4>2. D \in SUBSET Nat /\ IsFiniteSet(D) /\ R \in [D -> RecT]
        BY <4>1, FS_Subset
      <4> QED
        BY <4>1, <4>2, SoundRecords
    <3>2. AliasesOK(al, R)
      <4>1. AliasesOK(al, recs)
        BY NeededAre
      <4> QED
        BY <3>1, <4>1 DEF AliasesOK
    <3>3. ArchivesOK(archives \ Ours(job.id), R)
      BY <3>1 DEF ArchivesOK, Ours
    <3>4. JobOK(Done)
      BY DoneIs DEF Purged
    <3> QED
      BY <2>2, <3>1, <3>2, <3>3, <3>4
  <2> QED
    BY <2>1, <2>2 DEF Purged
<1>2. OnOK' /\ Grows
  BY OnSame DEF Purged, outside
<1>3. RestOK'
  BY DEF Purged, outside, RestOK
<1> QED
  BY <1>1, <1>2, <1>3, AllKept DEF Purged, outside

LEMMA RenameAwayKeeps ==
  ASSUME TypeInv, RenameAway
  PROVE  TypeInv'
<1> USE DEF TypeInv
<1>1. /\ job \in JobT /\ job.rec \in RecT /\ job.rec.primary \in Node /\ RowsThere(job.rec)
      /\ Head1 \in Node /\ job.left # << >> /\ job.rec.name \in AllNames
  BY JobHas, JobAt DEF RenameAway, PerNode, P
<1>2. OnOK' /\ Grows /\ JobOK(job')
  <2>1. CASE Named(Head1, job.rec.name) = {}
    <3>1. job' = NextNode /\ on' = on
      BY <2>1 DEF RenameAway
    <3> QED
      BY <3>1, NextNodeIs, OnSame DEF RenameAway, PerNode
  <2>2. CASE Named(Head1, job.rec.name) # {}
    <3> DEFINE n == Head1
               i == IdOf(n, job.rec.name)
               name == Archived(n, job.rec.name)
               y == [on[n][i] EXCEPT !.name = name]
               j == [job EXCEPT !.ph = "save", !.line = i]
    <3>1. i \in DOMAIN on[n] /\ i \in Nat /\ on[n][i] \in RepoT
      BY <1>1, <2>2, RepoIsThere
    <3>2. name \in AllNames /\ Named(n, name) = {}
      BY <1>1, ArchivedIsFree
    <3>3. on' = [on EXCEPT ![n][i].name = name] /\ job' = j
      BY <2>2 DEF RenameAway
    <3> HIDE DEF i, name, n
    <3>4. y \in RepoT /\ y.name = name /\ on' = [on EXCEPT ![n][i] = y]
      BY <3>1, <3>2, <3>3 DEF RepoT
    <3>5. j \in JobT /\ j.rec = job.rec /\ j.ph = "save" /\ j.line = i /\ j.left = job.left
      BY <1>1, <3>1 DEF JobT
    <3> HIDE DEF y, j
    <3>6. OnOK' /\ Grows
      BY <1>1, <3>1, <3>2, <3>4, OnChanges DEF n
    <3>7. i \in DOMAIN on[Head(j.left)]
      BY <3>1, <3>5 DEF n, Head1
    <3>8. JobOK(j)
      BY <1>1, <3>5, <3>7 DEF JobOK
    <3> QED
      BY <3>3, <3>6, <3>8
  <2> QED
    BY <2>1, <2>2
<1>3. RestOK'
  BY DEF RenameAway, Calls, RestOK
<1> QED
  BY <1>2, <1>3, AllKept DEF RenameAway, Calls

LEMMA SaveRenamedKeeps ==
  ASSUME TypeInv, SaveRenamed
  PROVE  TypeInv'
<1> USE DEF TypeInv
<1>1. /\ job \in JobT /\ job.rec \in RecT /\ job.rec.primary \in Node /\ RowsThere(job.rec)
      /\ Head1 \in Node /\ job.left # << >> /\ job.rec.name \in AllNames
  BY JobHas, JobAt DEF SaveRenamed, PerNode, P
<1>2. ArchivesOK(archives', recs') /\ JobOK(job')
  <2>1. CASE job.id \in DOMAIN recs
    <3> DEFINE a == [rec |-> job.id, node |-> Head1, orig |-> job.rec.name, fid |-> job.line, state |-> "renamed"]
               j == [job EXCEPT !.ph = "archive", !.line = None]
    <3>1. archives' = archives \cup {a} /\ job' = j /\ recs' = recs
      BY <2>1 DEF SaveRenamed
    <3>2. job.line \in DOMAIN on[Head1]
      BY DEF JobOK, SaveRenamed, Head1
    <3>3. job.line \in Nat /\ job.id \in Nat
      BY <1>1, <3>2 DEF OnOK, JobT
    <3>4. a \in ArchiveT
      BY <1>1, <3>3 DEF ArchiveT
    <3>5. ArchivesOK(archives', recs')
      BY <2>1, <3>1, <3>2, <3>4 DEF ArchivesOK
    <3>6. j \in JobT /\ j.rec = job.rec /\ j.ph = "archive" /\ j.left = job.left
      BY <1>1 DEF JobT
    <3> HIDE DEF j
    <3>7. JobOK(j)
      BY <1>1, <3>6, AtNode
    <3> QED
      BY <3>1, <3>5, <3>7
  <2>2. CASE job.id \notin DOMAIN recs
    <3>1. job' = SaveFails /\ archives' = archives /\ recs' = recs
      BY <2>2 DEF SaveRenamed
    <3>2. JobOK(SaveFails)
      BY NextNodeIs DEF SaveRenamed, PerNode
    <3> QED
      BY <3>1, <3>2
  <2> QED
    BY <2>1, <2>2
<1>3. OnOK' /\ Grows
  BY OnSame DEF SaveRenamed, Writes
<1>4. RestOK'
  BY DEF SaveRenamed, Writes, Calls, RestOK
<1> QED
  BY <1>2, <1>3, <1>4, AllKept DEF SaveRenamed, Writes, Calls

LEMMA MoveAwayKeeps ==
  ASSUME TypeInv, MoveAway
  PROVE  TypeInv'
<1> USE DEF TypeInv
<1>1. PICK a \in Archive :
         \/ /\ a.state = "renamed" /\ on[a.node][a.fid].place = "live"
            /\ on' = [on EXCEPT ![a.node][a.fid].place = "org"] /\ UNCHANGED <<archives, job>>
         \/ /\ archives' = (archives \ {a}) \cup {[a EXCEPT !.state = "archived"]}
            /\ job' = NextNode /\ UNCHANGED on
         \/ job' = NextNode /\ UNCHANGED <<on, archives>>
  BY DEF MoveAway
<1>2. a \in archives /\ recs' = recs
  BY DEF Archive, Ours, MoveAway
<1>3. a.node \in Node /\ a.fid \in DOMAIN on[a.node]
  BY <1>2 DEF ArchivesOK, ArchiveT
<1>4. JobOK(NextNode)
  BY NextNodeIs DEF MoveAway, PerNode
<1>5. ArchivesOK((archives \ {a}) \cup {[a EXCEPT !.state = "archived"]}, recs)
  BY <1>2, ArchiveGoesOn
<1>6. ArchivesOK(archives', recs') /\ JobOK(job')
  BY <1>1, <1>2, <1>4, <1>5
<1>7. OnOK' /\ Grows
  <2>1. CASE on' = on
    BY <2>1, OnSame
  <2>2. CASE on' = [on EXCEPT ![a.node][a.fid].place = "org"]
    <3> DEFINE y == [on[a.node][a.fid] EXCEPT !.place = "org"]
    <3>1. y \in RepoT /\ y.name = on[a.node][a.fid].name /\ y.place = "org"
      BY <1>3, CopyIs DEF RepoT
    <3>2. on' = [on EXCEPT ![a.node][a.fid] = y]
      BY <2>2
    <3> HIDE DEF y
    <3> QED
      BY <1>3, <3>1, <3>2, CopyChanges
  <2> QED
    BY <1>1, <2>1, <2>2
<1>8. RestOK'
  BY DEF MoveAway, Calls, RestOK
<1> QED
  BY <1>6, <1>7, <1>8, AllKept DEF MoveAway, Calls

\* A repository is made where its name is free.
LEMMA CreateKeeps ==
  ASSUME OnOK, made \in Nat, NEW n \in Node, NEW name \in AllNames, Named(n, name) = {}, Create(n, name)
  PROVE  OnOK' /\ Grows /\ made' \in Nat
<1> DEFINE x == [Repo(name, None) EXCEPT !.line = None]
<1>1. Repo(name, None) \in RepoT /\ Repo(name, None).name = name
  BY RepoIs
<1>2. x \in RepoT /\ x.name = name
  BY <1>1 DEF RepoT
<1>3. on' = [on EXCEPT ![n] = Append(@, x)] /\ made' = made + 1
  BY DEF Create
<1> HIDE DEF x
<1>4. OnOK' /\ Grows
  BY <1>2, <1>3, OnAppends
<1>5. made' \in Nat
  BY <1>3
<1> QED
  BY <1>4, <1>5

\* An empty copy is given work.
LEMMA FilledKeeps ==
  ASSUME OnOK, NEW n \in Node, NEW name, Named(n, name) # {}, NEW line \in Nat \cup {None}, Filled(n, name, line)
  PROVE  OnOK' /\ Grows /\ \A m \in Node : DOMAIN on'[m] = DOMAIN on[m]
<1> DEFINE i == IdOf(n, name)
           w == IF on[n][i].line = None THEN line ELSE on[n][i].line
           y == [on[n][i] EXCEPT !.line = w]
<1>1. i \in DOMAIN on[n] /\ on[n][i] \in RepoT
  BY RepoIsThere
<1>2. w \in Nat \cup {None}
  BY <1>1 DEF RepoT
<1>3. on' = [on EXCEPT ![n][i] = y]
  BY DEF Filled
<1> HIDE DEF i, w
<1>4. y \in RepoT /\ y.name = on[n][i].name /\ y.place = on[n][i].place
  BY <1>1, <1>2 DEF RepoT
<1> HIDE DEF y
<1> QED
  BY <1>1, <1>3, <1>4, CopyChanges

LEMMA SourceIs ==
  ASSUME OnOK, JobOK(job), job.ph # "idle", Present(job.rec) \ {P} # {}
  PROVE  Source \in Node
<1> DEFINE having == Present(job.rec) \ {P}
<1>1. job.rec \in RecT /\ RowsThere(job.rec)
  BY JobHas
<1>2. DOMAIN job.rec.rep \in SUBSET Node
  BY <1>1, PartialIs DEF RecT
<1>3. having \in SUBSET DOMAIN job.rec.rep /\ having # {}
  BY DEF Present
<1>4. Source = CHOOSE n \in having : \A o \in having : Born(job.rec, n) <= Born(job.rec, o)
  BY DEF Source
<1> HIDE DEF having
<1>5. Source \in having
  BY <1>1, <1>3, <1>4, EarliestIn
<1> QED
  BY <1>2, <1>3, <1>5

LEMMA SeedCreateKeeps ==
  ASSUME TypeInv, SeedCreate
  PROVE  TypeInv'
<1> USE DEF TypeInv
<1>1. job \in JobT /\ job.rec \in RecT /\ P \in Node /\ RowsThere(job.rec) /\ job.rec.name \in AllNames
  BY JobHas DEF SeedCreate
<1>2. OnOK' /\ Grows /\ made' \in Nat /\ JobOK(job')
  <2>1. CASE Source = None \/ (Source # None /\ Named(Source, job.rec.name) = {})
    <3>1. job' = Done /\ on' = on /\ made' = made
      BY <2>1 DEF SeedCreate
    <3> QED
      BY <3>1, DoneIs, OnSame DEF SeedCreate, RestOK
  <2>2. CASE ~(Source = None \/ (Source # None /\ Named(Source, job.rec.name) = {}))
    <3>1. /\ IF Named(P, job.rec.name) = {} THEN Create(P, job.rec.name) ELSE UNCHANGED <<on, made>>
          /\ job' = ToPhase("seedPush")
      BY <2>2 DEF SeedCreate
    <3>2. Present(job.rec) \ {P} # {}
      BY <2>2 DEF Source
    <3> DEFINE j == ToPhase("seedPush")
    <3>3. j \in JobT /\ j.rec = job.rec /\ j.ph = "seedPush"
      BY <1>1 DEF JobT, ToPhase
    <3> HIDE DEF j
    <3>4. JobOK(j)
      BY <1>1, <3>2, <3>3 DEF JobOK, PerNode, P
    <3>5. OnOK' /\ Grows /\ made' \in Nat
      BY <1>1, <3>1, CreateKeeps, OnSame DEF RestOK
    <3> QED
      BY <3>1, <3>4, <3>5 DEF j
  <2> QED
    BY <2>1, <2>2
<1>3. RestOK'
  BY <1>2 DEF SeedCreate, Calls, RestOK
<1> QED
  BY <1>2, <1>3, AllKept DEF SeedCreate, Calls

LEMMA SeedPushKeeps ==
  ASSUME TypeInv, SeedPush
  PROVE  TypeInv'
<1> USE DEF TypeInv
<1>1. P \in Node /\ job.ph # "idle"
  BY JobHas DEF SeedPush
<1>2. OnOK' /\ Grows /\ JobOK(job')
  <2>1. CASE Named(P, job.rec.name) = {} \/ Named(Source, job.rec.name) = {}
    <3>1. job' = Done /\ on' = on
      BY <2>1 DEF SeedPush
    <3> QED
      BY <1>1, <3>1, DoneIs, OnSame
  <2>2. CASE ~(Named(P, job.rec.name) = {} \/ Named(Source, job.rec.name) = {})
    <3> DEFINE name == job.rec.name
               line == on[Source][IdOf(Source, name)].line
               i == IdOf(P, name)
               now == on'[P][i].line
    <3>1. Filled(P, name, line) /\ job' = FirstNode("copy", now)
      BY <2>2 DEF SeedPush
    <3>2. Source \in Node
      BY <1>1, SourceIs DEF SeedPush, JobOK, P
    <3>3. line \in Nat \cup {None}
      BY <2>2, <3>2, RepoIsThere DEF RepoT
    <3> HIDE DEF line
    <3>4. OnOK' /\ Grows /\ \A m \in Node : DOMAIN on'[m] = DOMAIN on[m]
      BY <1>1, <2>2, <3>1, <3>3, FilledKeeps
    <3>5. i \in DOMAIN on'[P]
      BY <1>1, <2>2, <3>4, RepoIsThere
    <3>6. on'[P] \in Seq(RepoT)
      BY <1>1, <3>4 DEF OnOK
    <3> HIDE DEF i
    <3>7. now \in Nat \cup {None}
      <4>1. on'[P][i] \in RepoT
        BY <3>5, <3>6
      <4> QED
        BY <4>1 DEF RepoT
    <3> HIDE DEF now
    <3> QED
      BY <1>1, <3>1, <3>4, <3>7, FirstNodeIs
  <2> QED
    BY <2>1, <2>2
<1>3. RestOK'
  BY DEF SeedPush, Calls, RestOK
<1> QED
  BY <1>2, <1>3, AllKept DEF SeedPush, Calls

LEMMA RenameCopyKeeps ==
  ASSUME TypeInv, RenameCopy
  PROVE  TypeInv'
<1> USE DEF TypeInv
<1>1. job \in JobT /\ job.rec.name \in AllNames /\ Head1 \in Node
  BY JobHas, JobAt DEF RenameCopy, PerNode
<1>2. OnOK' /\ Grows /\ JobOK(job')
  <2>1. CASE Named(Head1, job.rec.name) # {}
    <3>1. job' = NextNode /\ on' = on
      BY <2>1 DEF RenameCopy
    <3> QED
      BY <3>1, NextNodeIs, OnSame DEF RenameCopy, PerNode
  <2>2. CASE Named(Head1, job.rec.name) = {}
    <3> DEFINE n == Head1
               i == IdOf(n, OldName(n))
               name == job.rec.name
               y == [on[n][i] EXCEPT !.name = name]
    <3>1. on' = [on EXCEPT ![n][i].name = name] /\ job' = ToPhase("push")
      BY <2>2 DEF RenameCopy
    <3>2. i \in DOMAIN on[n] /\ on[n][i] \in RepoT
      BY <1>1, RepoIsThere DEF RenameCopy
    <3> HIDE DEF i, n
    <3>3. y \in RepoT /\ y.name = name /\ on' = [on EXCEPT ![n][i] = y]
      BY <1>1, <3>1, <3>2 DEF RepoT
    <3> HIDE DEF y
    <3>4. OnOK' /\ Grows
      BY <1>1, <2>2, <3>2, <3>3, OnChanges DEF n
    <3> QED
      BY <3>1, <3>4, PushIs DEF RenameCopy
  <2> QED
    BY <2>1, <2>2
<1>3. RestOK'
  BY DEF RenameCopy, Calls, RestOK
<1> QED
  BY <1>2, <1>3, AllKept DEF RenameCopy, Calls

LEMMA CreateCopyKeeps ==
  ASSUME TypeInv, CreateCopy
  PROVE  TypeInv'
<1> USE DEF TypeInv
<1>1. job.rec.name \in AllNames /\ Head1 \in Node /\ made \in Nat
  BY JobHas, JobAt DEF CreateCopy, PerNode, RestOK
<1>2. JobOK(job')
  BY PushIs, NextNodeIs DEF CreateCopy, PerNode
<1>3. OnOK' /\ Grows /\ made' \in Nat
  <2>1. CASE UNCHANGED <<on, made>>
    BY <1>1, <2>1, OnSame
  <2>2. CASE Named(Head1, job.rec.name) = {} /\ Create(Head1, job.rec.name)
    BY <1>1, <2>2, CreateKeeps
  <2> QED
    BY <2>1, <2>2 DEF CreateCopy
<1>4. RestOK'
  BY <1>3 DEF CreateCopy, Calls, RestOK
<1> QED
  BY <1>2, <1>3, <1>4, AllKept DEF CreateCopy, Calls

LEMMA PushCopyKeeps ==
  ASSUME TypeInv, PushCopy
  PROVE  TypeInv'
<1> USE DEF TypeInv
<1>1. P \in Node /\ Head1 \in Node /\ job.line \in Nat \cup {None}
  BY JobHas, JobAt DEF PushCopy, PerNode, JobOK, JobT
<1>2. JobOK(job')
  BY NextNodeIs DEF PushCopy, PerNode
<1>3. OnOK' /\ Grows
  <2> DEFINE name == job.rec.name
             theirs == on[Head1][IdOf(Head1, name)].line
  <2>1. CASE on' = on
    BY <2>1, OnSame
  <2>2. CASE Named(Head1, name) # {} /\ Filled(Head1, name, job.line)
    BY <1>1, <2>2, FilledKeeps
  <2>3. CASE Named(Head1, name) # {} /\ Named(P, name) # {} /\ Filled(P, name, theirs)
    <3>1. theirs \in Nat \cup {None}
      BY <1>1, <2>3, RepoIsThere DEF RepoT
    <3> HIDE DEF theirs
    <3> QED
      BY <1>1, <2>3, <3>1, FilledKeeps
  <2> QED
    BY <2>1, <2>2, <2>3 DEF PushCopy
<1>4. RestOK'
  BY DEF PushCopy, Calls, RestOK
<1> QED
  BY <1>2, <1>3, <1>4, AllKept DEF PushCopy, Calls

LEMMA EngineKeeps ==
  ASSUME TypeInv, Engine
  PROVE  TypeInv'
BY StartListedKeeps, RoundEndsKeeps, AfterKeeps, PurgeKeeps, PurgedKeeps, FindKeeps, UndeleteKeeps, AskRenamedKeeps,
   MarkKeeps, RenameAwayKeeps, SaveRenamedKeeps, MoveAwayKeeps, SeedCreateKeeps, SeedPushKeeps, RenameCopyKeeps,
   CreateCopyKeeps, PushCopyKeeps DEF Engine

LEMMA JobFailsKeeps ==
  ASSUME TypeInv, JobFails
  PROVE  TypeInv'
<1> USE DEF TypeInv
<1>1. JobOK(job')
  <2>1. CASE job.ph = "save"
    BY <2>1, NextNodeIs DEF JobFails, PerNode
  <2>2. CASE job.ph \in PerNode /\ job.ph # "save"
    BY <2>2, NextNodeIs DEF JobFails
  <2>3. CASE job.ph \notin PerNode
    BY <2>3, DoneIs DEF JobFails, PerNode
  <2> QED
    BY <2>1, <2>2, <2>3
<1>2. OnOK' /\ Grows
  BY OnSame DEF JobFails, outside
<1>3. faults' \in 0 .. MaxFaults
  BY TypedBounds DEF JobFails, RestOK
<1>4. RestOK'
  BY <1>3 DEF JobFails, outside, store, RestOK
<1> QED
  BY <1>1, <1>2, <1>4, AllKept DEF JobFails, outside, store

LEMMA CrashKeeps ==
  ASSUME TypeInv, Crash
  PROVE  TypeInv'
<1> USE DEF TypeInv
<1>1. RoundOK(round') /\ recheck' \in RecheckT /\ JobOK(job')
  BY NoRoundIs, NoRecheckIs, NoJobIs DEF Crash
<1>2. OnOK' /\ Grows
  BY OnSame DEF Crash, outside
<1>3. faults' \in 0 .. MaxFaults
  BY TypedBounds DEF Crash, RestOK
<1>4. RestOK'
  BY <1>3 DEF Crash, outside, store, RestOK
<1> QED
  BY <1>1, <1>2, <1>4, AllKept DEF Crash, outside, store

LEMMA EnvironmentKeeps ==
  ASSUME TypeInv, Environment
  PROVE  TypeInv'
BY PeopleKeep, CrashKeeps, JobFailsKeeps, ScanFailsKeeps, AskFailsKeeps, HearKeeps, TriggerKeeps, ExpireKeeps DEF Environment

LEMMA StutterKeeps ==
  ASSUME TypeInv, UNCHANGED vars
  PROVE  TypeInv'
<1> USE DEF TypeInv
<1>1. OnOK' /\ Grows
  BY OnSame DEF vars
<1>2. RestOK'
  BY DEF vars, RestOK
<1> QED
  BY <1>1, <1>2, AllKept DEF vars

\* An organization without repositories.
LEMMA EmptyIs ==
  ASSUME on = [n \in Node |-> << >>], recs = << >>
  PROVE  OnOK /\ RecordsOK(recs)
<1>1. << >> \in Seq(RepoT) /\ DOMAIN << >> = {}
  OBVIOUS
<1>2. OnOK
  BY <1>1 DEF OnOK, Live
<1>3. recs \in Partial(Nat, RecT) /\ DOMAIN recs = {}
  BY EmptyPartial
<1>4. IsFiniteSet({})
  BY FS_EmptySet
<1> QED
  BY <1>2, <1>3, <1>4 DEF RecordsOK

\* An owner's repository, on every node.
LEMMA OneIs ==
  ASSUME NEW name \in Name,
         on = [n \in Node |-> <<[name |-> name, place |-> "live", line |-> 1, at |-> IF n = Order[1] THEN 1 ELSE 2]>>],
         recs = [id \in {1} |-> [Known(name) EXCEPT !.primary = Order[1], !.rep = [n \in Node |-> Row(n, 1)]]]
  PROVE  OnOK /\ RecordsOK(recs)
<1> DEFINE x(n) == [name |-> name, place |-> "live", line |-> 1, at |-> IF n = Order[1] THEN 1 ELSE 2]
           rep == [n \in Node |-> Row(n, 1)]
           r == [Known(name) EXCEPT !.primary = Order[1], !.rep = rep]
<1>1. name \in AllNames
  BY NamesClosed
<1>2. \A n \in Node : x(n) \in RepoT
  BY <1>1 DEF RepoT
<1>3. \A n \in Node : on[n] = <<x(n)>>
  OBVIOUS
<1> HIDE DEF x
<1>4. \A n \in Node : on[n] \in Seq(RepoT) /\ DOMAIN on[n] = {1}
  <2>1. ASSUME NEW n \in Node PROVE <<x(n)>> \in Seq(RepoT) /\ DOMAIN <<x(n)>> = {1}
    BY <1>2
  <2> QED
    BY <1>3, <2>1
<1>5. on = [n \in Node |-> on[n]]
  OBVIOUS
<1>6. OnOK
  BY <1>4, <1>5 DEF OnOK, Live
<1>7. \A n \in Node : Row(n, 1) \in RowT /\ RowThere(n, Row(n, 1))
  BY <1>4, <1>6, RowIs
<1>8. rep \in [Node -> RowT]
  BY <1>7
<1>9. rep \in Partial(Node, RowT)
  BY <1>8, IsPartial
<1> HIDE DEF rep
<1>10. r \in RecT /\ r.rep = rep
  <2>1. Known(name) \in RecT /\ Order[1] \in Node
    BY <1>1, KnownIs, Nodes
  <2> QED
    BY <1>9, <2>1 DEF RecT
<1>11. RowsThere(r)
  BY <1>7, <1>8, <1>10 DEF RowsThere, rep
<1>12. recs = [id \in {1} |-> r]
  BY DEF rep
<1> HIDE DEF r
<1>13. IsFiniteSet({1})
  BY FS_Singleton
<1>14. {1} \in SUBSET Nat
  OBVIOUS
<1>15. recs \in [{1} -> RecT] /\ recs[1] = r
  BY <1>10, <1>12
<1>16. \A id \in {1} : id = 1 /\ RowsThere(recs[id])
  BY <1>11, <1>15
<1>17. \A id, o \in {1} : recs[id].name = recs[o].name => id = o
  OBVIOUS
<1>18. RecordsOK(recs)
  BY <1>13, <1>14, <1>15, <1>16, <1>17, SoundRecords
<1> QED
  BY <1>6, <1>18

LEMMA InitIs == Init => TypeInv
<1> SUFFICES ASSUME Init PROVE TypeInv
  OBVIOUS
<1>1. OnOK /\ RecordsOK(recs)
  <2>1. CASE on = [n \in Node |-> << >>] /\ recs = << >>
    BY <2>1, EmptyIs
  <2>2. ASSUME NEW name \in Name,
               on = [n \in Node |-> <<[name |-> name, place |-> "live", line |-> 1, at |-> IF n = Order[1] THEN 1 ELSE 2]>>],
               recs = [id \in {1} |-> [Known(name) EXCEPT !.primary = Order[1], !.rep = [n \in Node |-> Row(n, 1)]]]
        PROVE  OnOK /\ RecordsOK(recs)
    BY <2>2, OneIs
  <2> QED
    BY <2>1, <2>2, Zenon DEF Init
<1>11. made \in Nat /\ home \in Node \cup {None}
  BY Nodes DEF Init
<1>2. AliasesOK(aliases, recs) /\ ArchivesOK(archives, recs)
  BY EmptyPartial DEF Init, AliasesOK, ArchivesOK
<1>3. RoundOK(round) /\ recheck \in RecheckT /\ JobOK(job)
  BY NoRoundIs, NoRecheckIs, NoJobIs DEF Init
<1> DEFINE next == Cardinality(DOMAIN recs) + 1
           lines == IF made = 0 THEN {} ELSE {1}
<1>4. next \in Nat
  BY <1>1, FS_CardinalityType DEF RecordsOK
<1>5. hist = [next |-> next, lines |-> lines, ended |-> {}, taken |-> FALSE, moved |-> FALSE, stale |-> FALSE]
  BY DEF Init
<1>6. lines \in SUBSET Nat
  OBVIOUS
<1> HIDE DEF next, lines
<1>7. hist \in [next : Nat, lines : SUBSET Nat, ended : SUBSET (Nat \cup {None}),
                taken : BOOLEAN, moved : BOOLEAN, stale : BOOLEAN]
  BY <1>4, <1>5, <1>6
<1>8. edits \in 0 .. MaxEdits /\ faults \in 0 .. MaxFaults /\ rechecks \in 0 .. MaxRechecks
  BY TypedBounds DEF Init
<1>9. scanOk \in [Node -> BOOLEAN]
  BY DEF Init
<1>10. RestOK
  BY <1>7, <1>8, <1>9, <1>11 DEF RestOK
<1> QED
  BY <1>1, <1>2, <1>3, <1>10 DEF TypeInv

LEMMA TypeInvIs == TypeInv => RepositoriesTypeOK
<1> SUFFICES ASSUME TypeInv PROVE RepositoriesTypeOK
  OBVIOUS
<1>1. \A id \in DOMAIN recs : recs[id] \in RecT /\ RowsThere(recs[id])
  BY RecordsAre DEF TypeInv, RecordsOK
<1> QED
  BY <1>1 DEF TypeInv, RepositoriesTypeOK, OnOK, RecordsOK, AliasesOK, ArchivesOK, RestOK, RowsThere, RowThere, RecT

\* No node has two repositories of one name and no two records share one, and
\* what is recorded, archived or on hand names repositories their node has had,
\* in whatever order scans, looks, renames, archiving and people come.
THEOREM NamesApart == Spec => []RepositoriesTypeOK
<1>1. TypeInv /\ [Next]_vars => TypeInv'
  BY ScanKeeps, LookAtKeeps, EngineKeeps, EnvironmentKeeps, StutterKeeps DEF Next
<1> QED
  BY <1>1, InitIs, TypeInvIs, PTL DEF Spec

-----------------------------------------------------------------------------
(* What ForgeSync does to the repositories that are there.                 *)

\* A job's nodes are not the primary, and what it archives was read as lost
\* or as deleted.
WayOK(j) ==
    /\ j.ph \in PerNode => \A k \in DOMAIN j.left : j.left[k] # j.rec.primary
    /\ j.ph \in {"renamed?", "mark"} => Lost(j.rec)
    /\ j.ph \in {"archive", "save"} => Lost(j.rec) \/ j.rec.deleted

\* What was archived is not among the live repositories.
AwayOK == \A a \in archives : a.state # "renamed" => on[a.node][a.fid].place # "live"

GentleInv == TypeInv /\ WayOK(job) /\ AwayOK

\* What a step does to a repository that is there.
WorkStays(x, y) == x.line \in {None, y.line}
NoReturn(x, y) == y.place = "live" => x.place = "live"
GoesAs(n, i, x, y) ==
    y.place = "gone" /\ x.place # "gone" => x.place = "org" /\ \E a \in archives : a.node = n /\ a.fid = i /\ a.state = "due"
NamedAs(n, x, y) ==
    y.name # x.name =>
      /\ job.ph # "idle" /\ n # job.rec.primary
      /\ \/ x.name = job.rec.rep[n].name /\ y.name = job.rec.name
         \/ x.name = job.rec.name /\ (Lost(job.rec) \/ job.rec.deleted)
Gentle(n, i, x, y) == WorkStays(x, y) /\ NoReturn(x, y) /\ GoesAs(n, i, x, y) /\ NamedAs(n, x, y)
AllGentle == \A n \in Node : \A i \in DOMAIN on[n] : Gentle(n, i, on[n][i], on'[n][i])

LEMMA SameIsGentle == ASSUME NEW n, NEW i, NEW x PROVE Gentle(n, i, x, x)
BY DEF Gentle, WorkStays, NoReturn, GoesAs, NamedAs

LEMMA UnchangedIsGentle == on' = on => AllGentle
BY SameIsGentle DEF AllGentle

LEMMA OneIsGentle ==
  ASSUME OnOK, NEW n \in Node, NEW i \in DOMAIN on[n], NEW y, on' = [on EXCEPT ![n][i] = y], Gentle(n, i, on[n][i], y)
  PROVE  AllGentle
<1> SUFFICES ASSUME NEW m \in Node, NEW k \in DOMAIN on[m] PROVE Gentle(m, k, on[m][k], on'[m][k])
  BY DEF AllGentle
<1>1. on'[m][k] = IF m = n /\ k = i THEN y ELSE on[m][k]
  BY DEF OnOK
<1>2. CASE m = n /\ k = i
  BY <1>1, <1>2
<1>3. CASE ~(m = n /\ k = i)
  BY <1>1, <1>3, SameIsGentle
<1> QED
  BY <1>2, <1>3

LEMMA EndIsGentle ==
  ASSUME OnOK, NEW n \in Node, NEW x, on' = [on EXCEPT ![n] = Append(@, x)]
  PROVE  AllGentle
<1> SUFFICES ASSUME NEW m \in Node, NEW k \in DOMAIN on[m] PROVE Gentle(m, k, on[m][k], on'[m][k])
  BY DEF AllGentle
<1>1. on'[m][k] = on[m][k]
  BY DEF OnOK
<1> QED
  BY <1>1, SameIsGentle

LEMMA FilledIsGentle ==
  ASSUME OnOK, NEW n \in Node, NEW name, Named(n, name) # {}, NEW line, Filled(n, name, line)
  PROVE  AllGentle
<1> DEFINE i == IdOf(n, name)
           w == IF on[n][i].line = None THEN line ELSE on[n][i].line
           y == [on[n][i] EXCEPT !.line = w]
<1>1. i \in DOMAIN on[n] /\ on[n][i] \in RepoT
  BY RepoIsThere
<1>2. on' = [on EXCEPT ![n][i] = y]
  BY DEF Filled
<1>3. on[n][i].line = None \/ w = on[n][i].line
  OBVIOUS
<1> HIDE DEF i, w
<1>4. y.line = w /\ y.name = on[n][i].name /\ y.place = on[n][i].place
  BY <1>1 DEF RepoT
<1> HIDE DEF y
<1>5. Gentle(n, i, on[n][i], y)
  BY <1>3, <1>4 DEF Gentle, WorkStays, NoReturn, GoesAs, NamedAs
<1> QED
  BY <1>1, <1>2, <1>5, OneIsGentle

LEMMA PurgeIsGentle == ASSUME TypeInv, AwayOK, Purge PROVE AllGentle
<1>1. PICK a \in Due(job.id) : on' = [on EXCEPT ![a.node][a.fid].place = "gone"]
  BY DEF Purge
<1>2. a \in archives /\ a.state = "due"
  BY DEF Due, Ours
<1>3. a.node \in Node /\ a.fid \in DOMAIN on[a.node]
  BY <1>2 DEF ArchivesOK, ArchiveT, TypeInv
<1> DEFINE n == a.node
           i == a.fid
           y == [on[n][i] EXCEPT !.place = "gone"]
<1>4. on[n][i] \in RepoT /\ on[n][i].place # "live"
  BY <1>2, <1>3, CopyIs DEF AwayOK, TypeInv
<1>5. y.line = on[n][i].line /\ y.name = on[n][i].name /\ y.place = "gone"
  BY <1>4 DEF RepoT
<1>6. on' = [on EXCEPT ![n][i] = y]
  BY <1>1
<1> HIDE DEF y
<1>7. on[n][i].place \in {"org", "gone"}
  BY <1>4 DEF RepoT
<1>8. Gentle(n, i, on[n][i], y)
  BY <1>2, <1>5, <1>7 DEF Gentle, WorkStays, NoReturn, GoesAs, NamedAs
<1> QED
  BY <1>3, <1>6, <1>8, OneIsGentle DEF TypeInv

LEMMA MoveAwayIsGentle == ASSUME TypeInv, MoveAway PROVE AllGentle
<1>1. CASE on' = on
  BY <1>1, UnchangedIsGentle
<1>2. CASE on' # on
  <2>1. PICK a \in Archive : on[a.node][a.fid].place = "live" /\ on' = [on EXCEPT ![a.node][a.fid].place = "org"]
    BY <1>2 DEF MoveAway
  <2>2. a \in archives
    BY DEF Archive, Ours
  <2>3. a.node \in Node /\ a.fid \in DOMAIN on[a.node]
    BY <2>2 DEF ArchivesOK, ArchiveT, TypeInv
  <2> DEFINE n == a.node
             i == a.fid
             y == [on[n][i] EXCEPT !.place = "org"]
  <2>4. on[n][i] \in RepoT
    BY <2>3, CopyIs DEF TypeInv
  <2>5. y.line = on[n][i].line /\ y.name = on[n][i].name /\ y.place = "org"
    BY <2>4 DEF RepoT
  <2>6. on' = [on EXCEPT ![n][i] = y]
    BY <2>1
  <2> HIDE DEF y
  <2>7. Gentle(n, i, on[n][i], y)
    BY <2>5 DEF Gentle, WorkStays, NoReturn, GoesAs, NamedAs
  <2> QED
    BY <2>3, <2>6, <2>7, OneIsGentle DEF TypeInv
<1> QED
  BY <1>1, <1>2

\* A copy on a node of the job's is given another name.
LEMMA NewNameIsGentle ==
  ASSUME TypeInv, WayOK(job), job.ph \in PerNode, NEW name, Named(Head1, name) # {}, NEW new,
         on' = [on EXCEPT ![Head1][IdOf(Head1, name)].name = new],
         \/ name = job.rec.rep[Head1].name /\ new = job.rec.name
         \/ name = job.rec.name /\ (Lost(job.rec) \/ job.rec.deleted)
  PROVE  AllGentle
<1> DEFINE n == Head1
           i == IdOf(n, name)
           y == [on[n][i] EXCEPT !.name = new]
<1>1. n \in Node /\ job.ph # "idle" /\ job.left \in Seq(Node) /\ job.left # << >>
  BY JobAt DEF TypeInv
<1>2. n # job.rec.primary
  <2>1. 1 \in DOMAIN job.left /\ n = job.left[1]
    BY <1>1 DEF Head1
  <2> QED
    BY <2>1 DEF WayOK
<1>3. i \in DOMAIN on[n] /\ on[n][i] \in RepoT /\ on[n][i].name = name
  BY <1>1, RepoIsThere DEF TypeInv
<1>4. on' = [on EXCEPT ![n][i] = y]
  OBVIOUS
<1> HIDE DEF n, i
<1>5. y.line = on[n][i].line /\ y.name = new /\ y.place = on[n][i].place
  BY <1>3 DEF RepoT
<1> HIDE DEF y
<1>6. Gentle(n, i, on[n][i], y)
  BY <1>1, <1>2, <1>3, <1>5 DEF Gentle, WorkStays, NoReturn, GoesAs, NamedAs, n
<1> QED
  BY <1>1, <1>3, <1>4, <1>6, OneIsGentle DEF TypeInv

LEMMA RenameAwayIsGentle == ASSUME TypeInv, WayOK(job), RenameAway PROVE AllGentle
<1>1. CASE Named(Head1, job.rec.name) = {}
  BY <1>1, UnchangedIsGentle DEF RenameAway
<1>2. CASE Named(Head1, job.rec.name) # {}
  <2> DEFINE new == Archived(Head1, job.rec.name)
  <2>1. on' = [on EXCEPT ![Head1][IdOf(Head1, job.rec.name)].name = new]
    BY <1>2 DEF RenameAway
  <2>2. job.ph \in PerNode /\ (Lost(job.rec) \/ job.rec.deleted)
    BY DEF RenameAway, WayOK, PerNode
  <2> HIDE DEF new
  <2> QED
    BY <1>2, <2>1, <2>2, NewNameIsGentle
<1> QED
  BY <1>1, <1>2

LEMMA RenameCopyIsGentle == ASSUME TypeInv, WayOK(job), RenameCopy PROVE AllGentle
<1>1. CASE Named(Head1, job.rec.name) # {}
  BY <1>1, UnchangedIsGentle DEF RenameCopy
<1>2. CASE Named(Head1, job.rec.name) = {}
  <2>1. on' = [on EXCEPT ![Head1][IdOf(Head1, OldName(Head1))].name = job.rec.name]
    BY <1>2 DEF RenameCopy
  <2>2. job.ph \in PerNode /\ OldName(Head1) = job.rec.rep[Head1].name /\ Named(Head1, OldName(Head1)) # {}
    BY DEF RenameCopy, PerNode, OldName
  <2> QED
    BY <2>1, <2>2, NewNameIsGentle
<1> QED
  BY <1>1, <1>2

LEMMA CreateIsGentle == ASSUME OnOK, NEW n \in Node, NEW name, Create(n, name) PROVE AllGentle
BY EndIsGentle DEF Create

LEMMA SeedCreateIsGentle == ASSUME TypeInv, SeedCreate PROVE AllGentle
<1>1. P \in Node
  BY JobHas DEF SeedCreate, TypeInv
<1> QED
  BY <1>1, CreateIsGentle, UnchangedIsGentle DEF SeedCreate, TypeInv

LEMMA SeedPushIsGentle == ASSUME TypeInv, SeedPush PROVE AllGentle
<1>1. P \in Node
  BY JobHas DEF SeedPush, TypeInv
<1> QED
  BY <1>1, FilledIsGentle, UnchangedIsGentle DEF SeedPush, TypeInv

LEMMA CreateCopyIsGentle == ASSUME TypeInv, CreateCopy PROVE AllGentle
<1>1. Head1 \in Node
  BY JobAt DEF CreateCopy, TypeInv, PerNode
<1> QED
  BY <1>1, CreateIsGentle, UnchangedIsGentle DEF CreateCopy, TypeInv

LEMMA PushCopyIsGentle == ASSUME TypeInv, PushCopy PROVE AllGentle
<1>1. Head1 \in Node /\ P \in Node
  BY JobAt, JobHas DEF PushCopy, TypeInv, PerNode
<1> QED
  BY <1>1, FilledIsGentle, UnchangedIsGentle DEF PushCopy, TypeInv

LEMMA EngineIsGentle == ASSUME TypeInv, WayOK(job), AwayOK, Engine PROVE AllGentle
<1>1. CASE \/ (\E id \in round.todo : StartListed(id)) \/ RoundEnds \/ After \/ Purged \/ Find \/ Undelete
           \/ AskRenamed \/ Mark \/ SaveRenamed
  BY <1>1, UnchangedIsGentle
     DEF StartListed, RoundEnds, After, Purged, Find, Undelete, AskRenamed, Mark, SaveRenamed, outside, Reads, Writes
<1> QED
  BY <1>1, PurgeIsGentle, RenameAwayIsGentle, MoveAwayIsGentle, SeedCreateIsGentle, SeedPushIsGentle,
     RenameCopyIsGentle, CreateCopyIsGentle, PushCopyIsGentle DEF Engine

LEMMA ForgeSyncIsGentle == ASSUME TypeInv, WayOK(job), AwayOK, [Next]_vars, ByForgeSync PROVE AllGentle
<1>1. CASE Scan \/ LookAt
  BY <1>1, UnchangedIsGentle
     DEF Scan, LookAt, BeginRound, DetectRenames, AssignPrimaries, ListNode, RecordScan, Looked, RenameSoon, AssignSoon,
         Observe, outside
<1>2. CASE Environment
  <2>1. ~Person
    BY TypedBounds DEF Person, ByForgeSync, TypeInv, RestOK
  <2>2. ~People
    BY <2>1 DEF People, Make, Remove, Rename, Move, Choose
  <2> QED
    BY <1>2, <2>2, UnchangedIsGentle
       DEF Environment, Crash, JobFails, ScanFails, AskFails, Hear, Trigger, Expire, outside
<1>3. CASE UNCHANGED vars
  BY <1>3, UnchangedIsGentle DEF vars
<1> QED
  BY <1>1, <1>2, <1>3, EngineIsGentle DEF Next

\* What people do brings nothing back into the live repositories either.
LEMMA NothingReturns ==
  ASSUME TypeInv, WayOK(job), AwayOK, [Next]_vars, NEW n \in Node, NEW i \in DOMAIN on[n]
  PROVE  NoReturn(on[n][i], on'[n][i])
<1>1. CASE ByForgeSync
  BY <1>1, ForgeSyncIsGentle DEF AllGentle, Gentle
<1>2. CASE ~ByForgeSync
  <2>1. People
    BY <1>2 DEF ByForgeSync, Next, Scan, LookAt, BeginRound, DetectRenames, AssignPrimaries, ListNode, RecordScan, Looked,
      RenameSoon, AssignSoon, Observe, outside, Environment, Crash, JobFails, ScanFails, AskFails, Hear, Trigger, Expire,
      Engine, StartListed, RoundEnds, After, Purge, Purged, Find, Undelete, AskRenamed, Mark, RenameAway, SaveRenamed,
      MoveAway, SeedCreate, SeedPush, RenameCopy, CreateCopy, PushCopy, Calls, Reads, Writes, vars
  <2>2. CASE on' = on
    BY <2>2 DEF NoReturn
  <2>3. ASSUME NEW m \in Node, NEW name, Make(m, name) PROVE NoReturn(on[n][i], on'[n][i])
    <3>1. on'[n][i] = on[n][i]
      BY <2>3 DEF Make, TypeInv, OnOK
    <3> QED
      BY <3>1 DEF NoReturn
  <2>4. ASSUME NEW m \in Node, NEW k \in DOMAIN on[m], Remove(m, k) PROVE NoReturn(on[n][i], on'[n][i])
    <3> DEFINE y == [on[m][k] EXCEPT !.place = "gone"]
    <3>1. on'[n][i] = on[n][i] \/ on'[n][i] = y
      BY <2>4 DEF Remove, TypeInv, OnOK
    <3>2. y.place = "gone"
      BY CopyIs DEF TypeInv, RepoT
    <3> HIDE DEF y
    <3> QED
      BY <3>1, <3>2 DEF NoReturn
  <2>5. ASSUME NEW m \in Node, NEW k \in DOMAIN on[m], NEW name, Rename(m, k, name) PROVE NoReturn(on[n][i], on'[n][i])
    <3> DEFINE y == [on[m][k] EXCEPT !.name = name]
    <3>1. on'[n][i] = on[n][i] \/ (m = n /\ k = i /\ on'[n][i] = y)
      BY <2>5 DEF Rename, TypeInv, OnOK
    <3>2. y.place = on[m][k].place
      BY CopyIs DEF TypeInv, RepoT
    <3> HIDE DEF y
    <3> QED
      BY <3>1, <3>2 DEF NoReturn
  <2> QED
    BY <2>1, <2>2, <2>3, <2>4, <2>5 DEF People, Choose, Move
<1> QED
  BY <1>1, <1>2

-----------------------------------------------------------------------------
(* That the job keeps its way, and archives stay away.                     *)

LEMMA ReplicasDiffer ==
  ASSUME NEW r \in RecT, r.primary \in Node
  PROVE  \A j \in DOMAIN Replicas(r) : Replicas(r)[j] # r.primary
<1> DEFINE k == CHOOSE i \in DOMAIN Order : Order[i] = r.primary
           s == SubSeq(Order, 1, k - 1)
           t == SubSeq(Order, k + 1, Len(Order))
<1>1. \E i \in DOMAIN Order : Order[i] = r.primary
  BY DEF Node
<1>2. k \in DOMAIN Order /\ Order[k] = r.primary
  BY <1>1
<1>3. k \in 1 .. Len(Order) /\ Len(Order) \in Nat /\ Order \in Seq(Node) /\ DOMAIN Order = 1 .. Len(Order)
  BY <1>2, Nodes
<1>4. \A i \in DOMAIN Order : Order[i] = Order[k] => i = k
  BY <1>2, InventoryAssumption
<1>5. Replicas(r) = s \o t
  BY DEF Replicas
<1> HIDE DEF k
<1>6. s \in Seq(Node) /\ Len(s) = k - 1 /\ \A i \in 1 .. k - 1 : s[i] = Order[i]
  BY <1>3
<1>7. t \in Seq(Node) /\ Len(t) = Len(Order) - k /\ \A i \in 1 .. Len(Order) - k : t[i] = Order[k + i]
  <2>1. k + 1 \in 1 .. Len(Order) + 1 /\ Len(Order) - (k + 1) + 1 = Len(Order) - k
    BY <1>3
  <2>2. t = [i \in 1 .. Len(Order) - (k + 1) + 1 |-> Order[i + (k + 1) - 1]]
    BY <1>3, <2>1 DEF SubSeq
  <2>3. t \in Seq(Node)
    BY <1>3, <2>1
  <2>4. \A i \in 1 .. Len(Order) - k : i + (k + 1) - 1 = k + i
    BY <1>3
  <2>5. Len(t) = Len(Order) - k
    <3> DEFINE l == Len(Order) - k
    <3>1. l \in Nat /\ DOMAIN t = 1 .. l
      BY <1>3, <2>1, <2>2
    <3>2. Len(t) \in Nat /\ DOMAIN t = 1 .. Len(t)
      BY <2>3
    <3> HIDE DEF l, t
    <3>3. ~(l < Len(t)) /\ ~(Len(t) < l)
      <4>1. l < Len(t) => Len(t) \in 1 .. Len(t) /\ Len(t) \notin 1 .. l
        BY <3>1, <3>2
      <4>2. Len(t) < l => l \in 1 .. l /\ l \notin 1 .. Len(t)
        BY <3>1, <3>2
      <4> QED
        BY <3>1, <3>2, <4>1, <4>2
    <3>4. Len(t) = l
      BY <3>1, <3>2, <3>3
    <3> QED
      BY <3>4 DEF l
  <2> HIDE DEF t
  <2> QED
    BY <2>1, <2>2, <2>3, <2>4, <2>5
<1> HIDE DEF s, t
<1> SUFFICES ASSUME NEW j \in DOMAIN (s \o t) PROVE (s \o t)[j] # r.primary
  BY <1>5
<1>8. j \in 1 .. Len(s) + Len(t) /\ (s \o t)[j] = IF j <= Len(s) THEN s[j] ELSE t[j - Len(s)]
  BY <1>6, <1>7
<1>9. CASE j <= Len(s)
  <2>1. j \in 1 .. k - 1 /\ j \in DOMAIN Order /\ j # k
    BY <1>3, <1>6, <1>8, <1>9
  <2> QED
    BY <1>2, <1>4, <1>6, <1>8, <1>9, <2>1
<1>10. CASE ~(j <= Len(s))
  <2> DEFINE i == j - Len(s)
  <2>1. i \in 1 .. Len(Order) - k /\ k + i \in DOMAIN Order /\ k + i # k
    BY <1>3, <1>6, <1>7, <1>8, <1>10
  <2> QED
    BY <1>2, <1>4, <1>7, <1>8, <1>10, <2>1
<1> QED
  BY <1>9, <1>10

LEMMA WayBetween == ASSUME NEW j, j.ph \notin PerNode \cup {"renamed?", "mark"} PROVE WayOK(j)
BY DEF WayOK, PerNode

LEMMA DoneWay == ASSUME JobOK(job), job.ph # "idle" PROVE WayOK(Done)
BY DoneIs, WayBetween DEF PerNode

LEMMA ToPhaseWay ==
  ASSUME JobOK(job), NEW ph, ph \notin PerNode, ph \in {"renamed?", "mark"} => Lost(job.rec)
  PROVE  WayOK(ToPhase(ph))
<1>1. ToPhase(ph).ph = ph /\ ToPhase(ph).rec = job.rec
  BY DEF JobOK, JobT, ToPhase
<1> QED
  BY <1>1 DEF WayOK, PerNode

LEMMA FirstNodeWay ==
  ASSUME JobOK(job), job.ph # "idle", NEW ph, NEW line, ph = "copy" \/ (ph = "archive" /\ (Lost(job.rec) \/ job.rec.deleted))
  PROVE  WayOK(FirstNode(ph, line))
<1>1. job \in JobT /\ job.rec \in RecT /\ job.rec.primary \in Node
  BY JobHas DEF P
<1>2. CASE Replicas(job.rec) = << >>
  BY <1>2, DoneWay DEF FirstNode
<1>3. CASE Replicas(job.rec) # << >>
  <2> DEFINE j == [job EXCEPT !.ph = ph, !.left = Replicas(job.rec), !.line = line]
  <2>1. FirstNode(ph, line) = j
    BY <1>3 DEF FirstNode
  <2>2. j.rec = job.rec /\ j.ph = ph /\ j.left = Replicas(job.rec)
    BY <1>1 DEF JobT
  <2> HIDE DEF j
  <2>3. \A k \in DOMAIN j.left : j.left[k] # j.rec.primary
    BY <1>1, <2>2, ReplicasDiffer
  <2> QED
    BY <2>1, <2>2, <2>3 DEF WayOK
<1> QED
  BY <1>2, <1>3

\* On to the next node, in the same phase, or from pushing to copying.
LEMMA NextNodeWay ==
  ASSUME JobOK(job), WayOK(job), job.ph \in PerNode
  PROVE  /\ WayOK(NextNode) /\ WayOK(SaveFails)
         /\ WayOK([NextNode EXCEPT !.ph = IF @ = "push" THEN "copy" ELSE @])
<1>1. job \in JobT /\ job.left \in Seq(Node) /\ job.left # << >> /\ job.ph # "idle"
  BY JobHas, JobAt
<1>2. CASE Rest1 = << >>
  <2>1. NextNode = Done /\ Done.ph \in {"idle", "after"} /\ Done \in JobT
    BY <1>1, <1>2, DoneIs DEF NextNode, JobOK
  <2>2. /\ [Done EXCEPT !.ph = IF @ = "push" THEN "copy" ELSE @].ph \in {"idle", "after"}
        /\ [Done EXCEPT !.ph = IF @ = "save" THEN "archive" ELSE @, !.line = None].ph \in {"idle", "after"}
    BY <2>1 DEF JobT
  <2> QED
    BY <2>1, <2>2, WayBetween DEF PerNode, SaveFails
<1>3. CASE Rest1 # << >>
  <2>1. \A k \in DOMAIN Rest1 : Rest1[k] # job.rec.primary
    <3>1. \A k \in DOMAIN Rest1 : k + 1 \in DOMAIN job.left /\ Rest1[k] = job.left[k + 1]
      BY <1>1 DEF Rest1
    <3> QED
      BY <3>1 DEF WayOK
  <2> DEFINE j == [job EXCEPT !.left = Rest1]
             c == [j EXCEPT !.ph = IF @ = "push" THEN "copy" ELSE @]
             s == [j EXCEPT !.ph = IF @ = "save" THEN "archive" ELSE @, !.line = None]
  <2>2. NextNode = j
    BY <1>3 DEF NextNode
  <2>3. j.rec = job.rec /\ j.left = Rest1 /\ j.ph = job.ph /\ DOMAIN j = DOMAIN job
    BY <1>1 DEF JobT
  <2>4. /\ c.rec = job.rec /\ c.left = Rest1 /\ (c.ph = job.ph \/ c.ph = "copy")
        /\ s.rec = job.rec /\ s.left = Rest1 /\ (s.ph = job.ph \/ (job.ph = "save" /\ s.ph = "archive"))
    BY <1>1, <2>3 DEF JobT
  <2> HIDE DEF j
  <2>5. SaveFails = s /\ [NextNode EXCEPT !.ph = IF @ = "push" THEN "copy" ELSE @] = c
    BY <2>2 DEF SaveFails
  <2> HIDE DEF c, s
  <2>6. WayOK(j) /\ WayOK(c) /\ WayOK(s)
    BY <2>1, <2>3, <2>4 DEF WayOK, PerNode
  <2> QED
    BY <2>2, <2>5, <2>6
<1> QED
  BY <1>2, <1>3

\* The job goes on to a copy on the same node.
LEMMA SameNodeWay ==
  ASSUME JobOK(job), WayOK(job), job.ph = "copy"
  PROVE  WayOK(ToPhase("push"))
<1>1. ToPhase("push").ph = "push" /\ ToPhase("push").rec = job.rec /\ ToPhase("push").left = job.left
  BY DEF JobOK, JobT, ToPhase
<1>2. \A k \in DOMAIN job.left : job.left[k] # job.rec.primary
  BY DEF WayOK, PerNode
<1> QED
  BY <1>1, <1>2 DEF WayOK

\* The job goes on to save what it renamed, and back.
LEMMA SaveWay ==
  ASSUME JobOK(job), WayOK(job), job.ph \in {"archive", "save"}, NEW ph \in {"archive", "save"}, NEW line
  PROVE  WayOK([job EXCEPT !.ph = ph, !.line = line])
<1> DEFINE j == [job EXCEPT !.ph = ph, !.line = line]
<1>1. j.ph = ph /\ j.rec = job.rec /\ j.left = job.left
  BY DEF JobOK, JobT
<1>2. (\A k \in DOMAIN job.left : job.left[k] # job.rec.primary) /\ (Lost(job.rec) \/ job.rec.deleted)
  BY DEF WayOK, PerNode
<1> HIDE DEF j
<1>3. WayOK(j)
  BY <1>1, <1>2 DEF WayOK
<1> QED
  BY <1>3 DEF j

LEMMA FindWay == ASSUME TypeInv, Find PROVE WayOK(job')
<1>1. JobOK(job) /\ job.ph = "look" /\ job \in JobT
  BY JobHas DEF TypeInv, Find
<1>2. CASE Named(P, job.rec.name) # {}
  <2> DEFINE line == on[P][IdOf(P, job.rec.name)].line
             j == [job EXCEPT !.ph = "undelete", !.line = line]
  <2>1. job' = j \/ job' = FirstNode("copy", line)
    BY <1>2 DEF Find
  <2>2. j.ph = "undelete"
    BY <1>1 DEF JobT
  <2> HIDE DEF j, line
  <2> QED
    BY <1>1, <2>1, <2>2, WayBetween, FirstNodeWay DEF PerNode
<1>3. CASE Named(P, job.rec.name) = {}
  <2>1. \/ job.rec.deleted /\ job' = FirstNode("archive", None)
        \/ GoneThere /\ job' = ToPhase("renamed?")
        \/ job' = Done \/ job' = ToPhase("seed")
    BY <1>3 DEF Find
  <2>2. GoneThere => Lost(job.rec)
    BY DEF GoneThere, Had, P, Lost
  <2> QED
    BY <1>1, <2>1, <2>2, FirstNodeWay, ToPhaseWay, DoneWay DEF PerNode
<1> QED
  BY <1>2, <1>3

LEMMA DeletionWay ==
  ASSUME TypeInv, WayOK(job), AskRenamed \/ Mark \/ RenameAway \/ SaveRenamed \/ MoveAway
  PROVE  WayOK(job')
<1> USE DEF TypeInv
<1>1. CASE AskRenamed
  <2>1. Lost(job.rec)
    BY <1>1 DEF AskRenamed, WayOK
  <2> QED
    BY <1>1, <2>1, DoneWay, ToPhaseWay DEF AskRenamed, PerNode
<1>2. CASE Mark
  <2>1. Lost(job.rec)
    BY <1>2 DEF Mark, WayOK
  <2> QED
    BY <1>2, <2>1, FirstNodeWay DEF Mark
<1>3. CASE RenameAway
  <2> DEFINE i == IdOf(Head1, job.rec.name)
  <2>1. job' = NextNode \/ job' = [job EXCEPT !.ph = "save", !.line = i]
    BY <1>3 DEF RenameAway
  <2> HIDE DEF i
  <2>2. WayOK(NextNode) /\ WayOK([job EXCEPT !.ph = "save", !.line = i])
    BY <1>3, NextNodeWay, SaveWay DEF RenameAway, PerNode
  <2> QED
    BY <2>1, <2>2
<1>4. CASE SaveRenamed
  <2>1. job' = SaveFails \/ job' = [job EXCEPT !.ph = "archive", !.line = None]
    BY <1>4 DEF SaveRenamed
  <2>2. WayOK(SaveFails) /\ WayOK([job EXCEPT !.ph = "archive", !.line = None])
    BY <1>4, NextNodeWay, SaveWay DEF SaveRenamed, PerNode
  <2> QED
    BY <2>1, <2>2
<1>5. CASE MoveAway
  BY <1>5, NextNodeWay DEF MoveAway, PerNode
<1> QED
  BY <1>1, <1>2, <1>3, <1>4, <1>5

LEMMA FillingWay ==
  ASSUME TypeInv, WayOK(job), Undelete \/ SeedCreate \/ SeedPush \/ RenameCopy \/ CreateCopy \/ PushCopy
  PROVE  WayOK(job')
<1> USE DEF TypeInv
<1>1. CASE Undelete
  BY <1>1, FirstNodeWay DEF Undelete
<1>2. CASE SeedCreate
  BY <1>2, DoneWay, ToPhaseWay DEF SeedCreate, PerNode
<1>3. CASE SeedPush
  BY <1>3, DoneWay, FirstNodeWay DEF SeedPush
<1>4. CASE RenameCopy \/ CreateCopy
  BY <1>4, NextNodeWay, SameNodeWay DEF RenameCopy, CreateCopy, PerNode
<1>5. CASE PushCopy
  BY <1>5, NextNodeWay DEF PushCopy, PerNode
<1> QED
  BY <1>1, <1>2, <1>3, <1>4, <1>5

LEMMA StartedWay == ASSUME NEW id, NEW r, NEW triggered PROVE WayOK(Started(id, r, triggered))
<1>1. Started(id, r, triggered).ph \in {"purge", "look"}
  BY DEF Started, NoJob
<1> QED
  BY <1>1, WayBetween DEF PerNode

LEMMA NoJobWay == WayOK(NoJob)
BY WayBetween DEF NoJob, PerNode

LEMMA JobFailsWay == ASSUME TypeInv, WayOK(job), JobFails PROVE WayOK(job')
<1> USE DEF TypeInv
<1>1. CASE job.ph \in PerNode
  BY <1>1, NextNodeWay DEF JobFails, PerNode
<1>2. CASE job.ph \notin PerNode
  BY <1>2, DoneWay DEF JobFails, PerNode
<1> QED
  BY <1>1, <1>2

\* Whatever comes next, the job's nodes are not the primary, and it archives
\* what was read as lost or as deleted.
LEMMA WayKeeps == ASSUME TypeInv, WayOK(job), [Next]_vars PROVE WayOK(job')
<1>1. CASE Scan
  BY <1>1 DEF Scan, BeginRound, DetectRenames, AssignPrimaries, ListNode, RecordScan
<1>2. CASE LookAt
  BY <1>2 DEF LookAt, Looked, RenameSoon, AssignSoon, Observe
<1>3. CASE Engine
  <2>1. CASE \E id \in round.todo : StartListed(id)
    <3>1. PICK id \in round.todo : job' = Started(id, round.list[id], FALSE)
      BY <2>1, Zenon DEF StartListed
    <3>2. WayOK(Started(id, round.list[id], FALSE))
      BY StartedWay
    <3> QED
      BY <3>1, <3>2
  <2>2. CASE Purged
    BY <2>2, DoneWay, ToPhaseWay DEF Purged, PerNode, TypeInv
  <2>3. CASE RoundEnds \/ After \/ Purge
    BY <2>3, NoJobWay DEF RoundEnds, After, Purge
  <2> QED
    BY <1>3, <2>1, <2>2, <2>3, FindWay, DeletionWay, FillingWay DEF Engine
<1>4. CASE Environment
  <2>1. CASE People
    BY <2>1 DEF People, Make, Remove, Rename, Move, Choose, Person
  <2>2. CASE Crash \/ JobFails
    BY <2>2, NoJobWay, JobFailsWay DEF Crash
  <2>3. CASE \E id \in DOMAIN recs : Trigger(id)
    BY <2>3, StartedWay DEF Trigger
  <2>4. CASE \/ \E n \in Node : ScanFails(n) \/ AskFails(n) \/ \E name \in Name : Hear(n, name)
             \/ \E a \in archives : Expire(a)
    BY <2>4 DEF ScanFails, AskFails, Hear, Expire
  <2> QED
    BY <1>4, <2>1, <2>2, <2>3, <2>4 DEF Environment
<1> QED
  BY <1>1, <1>2, <1>3, <1>4 DEF Next, vars

\* What was archived stays away from the live repositories.
LEMMA ArchiveStaysAway ==
  ASSUME TypeInv, WayOK(job), AwayOK, [Next]_vars, NEW a \in archives, a.state # "renamed"
  PROVE  on'[a.node][a.fid].place # "live"
<1>1. a.node \in Node /\ a.fid \in DOMAIN on[a.node]
  BY DEF TypeInv, ArchivesOK, ArchiveT
<1>2. NoReturn(on[a.node][a.fid], on'[a.node][a.fid])
  BY <1>1, NothingReturns
<1> QED
  BY <1>2 DEF NoReturn, AwayOK

\* An archive is new, renamed only, or one there was; and it counts as moved
\* only when it was moved.
LEMMA ArchivesCome ==
  ASSUME TypeInv, [Next]_vars, NEW b \in archives'
  PROVE  \/ b.state = "renamed"
         \/ b \in archives
         \/ \E a \in archives : a.node = b.node /\ a.fid = b.fid /\ a.state # "renamed"
         \/ on' = on /\ on[b.node][b.fid].place = "org"
<1> DEFINE Goal == \/ b.state = "renamed"
                   \/ b \in archives
                   \/ \E a \in archives : a.node = b.node /\ a.fid = b.fid /\ a.state # "renamed"
                   \/ on' = on /\ on[b.node][b.fid].place = "org"
<1> SUFFICES Goal
  OBVIOUS
<1>1. ASSUME NEW a \in archives, NEW state, archives' = (archives \ {a}) \cup {[a EXCEPT !.state = state]},
             a.state # "renamed" \/ (on' = on /\ on[a.node][a.fid].place = "org")
      PROVE  Goal
  <2> DEFINE y == [a EXCEPT !.state = state]
  <2>1. y.node = a.node /\ y.fid = a.fid
    BY DEF TypeInv, ArchivesOK, ArchiveT
  <2>2. b \in archives \/ b = y
    BY <1>1
  <2> HIDE DEF y
  <2> QED
    BY <1>1, <2>1, <2>2
<1>2. CASE archives' \subseteq archives
  BY <1>2
<1>3. CASE SaveRenamed
  <2> DEFINE y == [rec |-> job.id, node |-> Head1, orig |-> job.rec.name, fid |-> job.line, state |-> "renamed"]
  <2>1. archives' = archives \/ archives' = archives \cup {y}
    BY <1>3 DEF SaveRenamed
  <2>2. y.state = "renamed"
    OBVIOUS
  <2> HIDE DEF y
  <2> QED
    BY <2>1, <2>2
<1>4. CASE Purge
  <2>1. PICK a \in Due(job.id) : archives' = (archives \ {a}) \cup {[a EXCEPT !.state = "purged"]}
    BY <1>4 DEF Purge
  <2>2. a \in archives /\ a.state = "due"
    BY DEF Due, Ours
  <2> QED
    BY <1>1, <2>1, <2>2
<1>5. CASE MoveAway
  <2>1. CASE archives' = archives
    BY <2>1
  <2>2. CASE archives' # archives
    <3>1. PICK a \in Archive : /\ on[a.node][a.fid].place = "org" /\ on' = on
                               /\ archives' = (archives \ {a}) \cup {[a EXCEPT !.state = "archived"]}
      BY <1>5, <2>2 DEF MoveAway
    <3>2. a \in archives
      BY DEF Archive, Ours
    <3> QED
      BY <1>1, <3>1, <3>2
  <2> QED
    BY <2>1, <2>2
<1>6. CASE \E a \in archives : Expire(a)
  <2>1. PICK a \in archives : a.state = "archived" /\ archives' = (archives \ {a}) \cup {[a EXCEPT !.state = "due"]}
    BY <1>6 DEF Expire
  <2> QED
    BY <1>1, <2>1
<1>7. CASE Scan \/ LookAt
  BY <1>2, <1>7 DEF Scan, BeginRound, DetectRenames, AssignPrimaries, ListNode, RecordScan, LookAt, Looked, RenameSoon,
     AssignSoon, Observe, ApplyRename, ForgetAliases, store
<1>8. CASE \/ (\E id \in round.todo : StartListed(id)) \/ RoundEnds \/ After \/ Purged \/ Find \/ Undelete \/ AskRenamed
           \/ Mark \/ RenameAway \/ SeedCreate \/ SeedPush \/ RenameCopy \/ CreateCopy \/ PushCopy
  BY <1>2, <1>8 DEF StartListed, RoundEnds, After, Purged, Find, Undelete, AskRenamed, Mark, RenameAway, SeedCreate,
     SeedPush, RenameCopy, CreateCopy, PushCopy, Reads, Writes, store
<1>9. CASE People \/ Crash \/ JobFails
  BY <1>2, <1>9 DEF People, Make, Remove, Rename, Move, Choose, Person, Crash, JobFails, store
<1>10. CASE (\E n \in Node : ScanFails(n) \/ AskFails(n) \/ \E name \in Name : Hear(n, name)) \/ (\E id \in DOMAIN recs : Trigger(id))
  BY <1>2, <1>10 DEF ScanFails, AskFails, Hear, Trigger, store
<1> HIDE DEF Goal
<1> QED
  <2>1. CASE Engine
    BY <2>1, <1>3, <1>4, <1>5, <1>8, Zenon DEF Engine
  <2>2. CASE Environment
    BY <2>2, <1>6, <1>9, <1>10, Zenon DEF Environment
  <2>3. CASE UNCHANGED vars
    BY <2>3, <1>2 DEF vars
  <2> QED
    BY <2>1, <2>2, <2>3, <1>7 DEF Next

LEMMA AwayKeeps == ASSUME TypeInv, WayOK(job), AwayOK, [Next]_vars PROVE AwayOK'
<1> SUFFICES ASSUME NEW b \in archives', b.state # "renamed" PROVE on'[b.node][b.fid].place # "live"
  BY DEF AwayOK
<1> QED
  BY ArchivesCome, ArchiveStaysAway

LEMMA GentleInvKeeps == GentleInv /\ [Next]_vars => GentleInv'
<1> SUFFICES ASSUME GentleInv, [Next]_vars PROVE GentleInv'
  OBVIOUS
<1>1. TypeInv'
  BY ScanKeeps, LookAtKeeps, EngineKeeps, EnvironmentKeeps, StutterKeeps DEF Next, GentleInv
<1> QED
  BY <1>1, WayKeeps, AwayKeeps DEF GentleInv, WayOK

LEMMA GentleInvBegins == Init => GentleInv
BY InitIs, NoJobWay DEF Init, GentleInv, AwayOK

\* Whoever's turn it is, and whatever was read how long ago: ForgeSync takes no
\* work off a repository, and deletes only what is in the archive organization
\* and was kept there for its time.
THEOREM OnlyDueGoes == Spec => OnlyArchivesGo
<1> DEFINE Step == ByForgeSync => \A n \in Node : \A i \in DOMAIN on[n] :
             /\ on[n][i].line \in {None, on'[n][i].line}
             /\ on'[n][i].place = "gone" /\ on[n][i].place # "gone" =>
                   on[n][i].place = "org" /\ \E a \in archives : a.node = n /\ a.fid = i /\ a.state = "due"
<1>1. GentleInv /\ [Next]_vars => Step
  BY ForgeSyncIsGentle DEF GentleInv, AllGentle, Gentle, WorkStays, GoesAs
<1> HIDE DEF Step
<1>2. GentleInv /\ [Next]_vars => [Step]_vars
  BY <1>1
<1>3. Spec => [][Step]_vars
  BY <1>2, GentleInvBegins, GentleInvKeeps, PTL DEF Spec
<1> QED
  BY <1>3 DEF Step, OnlyArchivesGo

\* ForgeSync renames nothing on the node it has for the primary; elsewhere it
\* gives a copy the new name of its repository, or takes the name off what was
\* read as lost on the primary or deleted.
THEOREM PrimaryKeepsNames == Spec => OnlyCopiesRenamed
<1> DEFINE Step == ByForgeSync => \A n \in Node : \A i \in DOMAIN on[n] : on'[n][i].name # on[n][i].name =>
             /\ job.ph # "idle" /\ n # job.rec.primary
             /\ \/ on[n][i].name = job.rec.rep[n].name /\ on'[n][i].name = job.rec.name
                \/ on[n][i].name = job.rec.name /\ (Lost(job.rec) \/ job.rec.deleted)
<1>1. GentleInv /\ [Next]_vars => Step
  BY ForgeSyncIsGentle DEF GentleInv, AllGentle, Gentle, NamedAs
<1> HIDE DEF Step
<1>2. GentleInv /\ [Next]_vars => [Step]_vars
  BY <1>1
<1>3. Spec => [][Step]_vars
  BY <1>2, GentleInvBegins, GentleInvKeeps, PTL DEF Spec
<1> QED
  BY <1>3 DEF Step, OnlyCopiesRenamed

=============================================================================
