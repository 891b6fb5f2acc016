----------------------------- MODULE IssuesProofs ---------------------------
(***************************************************************************)
(* Proofs about Issues: the types of a run and its records (IssuesTypeOK), *)
(* that ForgeSync brings nothing back to the primary (NotCopiedBack), what *)
(* it may write over (NewValuesStand) and delete (ChangedCopyKept), what   *)
(* it may take off (MarksStay), and that no node gets a thing twice        *)
(* (NoTwins).                                                              *)
(***************************************************************************)
EXTENDS Issues, WellFoundedInduction, FiniteSetTheorems, SequenceTheorems, TLAPS

-----------------------------------------------------------------------------
(* Numbers, nodes and lists.                                               *)

LEMMA LowestIn ==
  ASSUME NEW S \in SUBSET Nat, S # {}
  PROVE  Lowest(S) \in S
<1> DEFINE R == {ss \in Nat \X Nat : ss[1] < ss[2]}
<1>1. IsWellFoundedOn(R, Nat)
  BY NatLessThanWellFounded, Zenon DEF OpToRel
<1>2. PICK k \in S : \A j \in S : <<j, k>> \notin R
  BY <1>1, WFMin, Zenon
<1>3. ASSUME NEW j \in S, ~(k <= j) PROVE FALSE
  <2>1. <<j, k>> \in Nat \X Nat /\ <<j, k>>[1] < <<j, k>>[2]
    BY <1>3
  <2> QED
    BY <2>1, <1>2, Zenon
<1> QED
  BY <1>3 DEF Lowest

LEMMA Ordered ==
  /\ Primary \in Node /\ IsFiniteSet(Node)
  /\ DOMAIN Order = 1 .. Len(Order) /\ DOMAIN Order \subseteq Nat
  /\ \A j \in DOMAIN Order : Order[j] \in Node
<1>1. /\ DOMAIN Order = 1 .. Len(Order) /\ Len(Order) \in Nat /\ Len(Order) > 0
  BY IssuesAssumption
<1>2. IsFiniteSet(DOMAIN Order)
  BY <1>1, FS_Interval
<1>3. Order \in [DOMAIN Order -> Node]
  BY IssuesAssumption
<1>4. Order \in Surjection(DOMAIN Order, Node)
  BY <1>3 DEF Surjection, Node
<1> QED
  BY <1>1, <1>2, <1>3, <1>4, FS_Surjection DEF Primary, Node

LEMMA FirstOfIn ==
  ASSUME NEW S \in SUBSET Node, S # {}
  PROVE  FirstOf(S) \in S
<1> DEFINE J == {j \in DOMAIN Order : Order[j] \in S}
<1>1. J \in SUBSET Nat /\ J # {}
  BY Ordered DEF Node
<1>2. Lowest(J) \in J
  BY <1>1, LowestIn
<1> QED
  BY <1>2 DEF FirstOf

\* One new value or none: everybody has the base or what the merge makes of it.
LEMMA MergeOfOne ==
  ASSUME NEW vals, NEW base, IsFiniteSet(DOMAIN vals)
  PROVE  /\ FieldValue(vals, base) = base \/ \E n \in DOMAIN vals : FieldValue(vals, base) = vals[n]
         /\ ~FieldConflict(vals, base) => \A n \in DOMAIN vals : vals[n] \in {base, FieldValue(vals, base)}
<1> DEFINE changed == FieldChanges(vals, base)
           f == [n \in DOMAIN vals |-> vals[n]]
           all == {vals[n] : n \in DOMAIN vals}
<1>1. f \in Surjection(DOMAIN vals, all)
  BY DEF Surjection
<1>2. IsFiniteSet(all)
  BY <1>1, FS_Surjection
<1>3. IsFiniteSet(changed) /\ Cardinality(changed) \in Nat
  BY <1>2, FS_Subset, FS_CardinalityType DEF FieldChanges
<1>4. /\ Cardinality(changed) = 0 <=> changed = {}
      /\ Cardinality(changed) = 1 <=> \E x : changed = {x}
  BY <1>3, FS_EmptySet, FS_Singleton
<1>5. CASE Cardinality(changed) = 1
  <2>1. PICK x : changed = {x}
    BY <1>4, <1>5
  <2>2. FieldValue(vals, base) = x
    BY <2>1, <1>5 DEF FieldValue
  <2> QED
    BY <2>1, <2>2 DEF FieldChanges
<1>6. CASE Cardinality(changed) # 1
  <2>1. FieldValue(vals, base) = base
    BY <1>6 DEF FieldValue
  <2>2. ASSUME ~FieldConflict(vals, base) PROVE changed = {}
    BY <2>2, <1>3, <1>4, <1>6 DEF FieldConflict
  <2> QED
    BY <2>1, <2>2 DEF FieldChanges
<1> QED
  BY <1>5, <1>6

-----------------------------------------------------------------------------
(* The things of the nodes.                                                *)

Things == Thing \cup {Gone}
Lists == [Node -> Seq(Things)]

Put(o, n, i, t) == [o EXCEPT ![n][i] = t]
More(o, n, t) == [o EXCEPT ![n] = Append(@, t)]
Written(o, n, i, f, v) == [o EXCEPT ![n][i][f] = v]
With(t, f, v) == [t EXCEPT ![f] = v]

\* A thing is replaced, or removed.
LEMMA Replaced ==
  ASSUME NEW o \in Lists, NEW n \in Node, NEW i \in DOMAIN o[n], NEW t \in Things,
         NEW p, p = Put(o, n, i, t)
  PROVE  /\ p \in Lists
         /\ \A m \in Node : Len(p[m]) = Len(o[m]) /\ DOMAIN p[m] = DOMAIN o[m]
         /\ \A m \in Node : \A k \in DOMAIN o[m] : p[m][k] = IF m = n /\ k = i THEN t ELSE o[m][k]
<1>1. o[n] \in Seq(Things) /\ i \in 1 .. Len(o[n])
  BY DEF Lists
<1>2. /\ [o[n] EXCEPT ![i] = t] \in Seq(Things)
      /\ Len([o[n] EXCEPT ![i] = t]) = Len(o[n])
      /\ \A k \in 1 .. Len(o[n]) : [o[n] EXCEPT ![i] = t][k] = IF k = i THEN t ELSE o[n][k]
  BY <1>1, ExceptSeq
<1> DEFINE s == [o[n] EXCEPT ![i] = t]
<1>3. p = [o EXCEPT ![n] = s]
  BY DEF Put
<1> HIDE DEF s
<1>4. p \in Lists /\ \A m \in Node : p[m] = IF m = n THEN s ELSE o[m]
  BY <1>2, <1>3 DEF s, Lists
<1>5. \A m \in Node : Len(p[m]) = Len(o[m]) /\ DOMAIN p[m] = 1 .. Len(p[m]) /\ DOMAIN o[m] = 1 .. Len(o[m])
  BY <1>2, <1>4 DEF s, Lists
<1> QED
  BY <1>2, <1>4, <1>5 DEF s

\* A thing is made.
LEMMA Appended ==
  ASSUME NEW o \in Lists, NEW n \in Node, NEW t \in Things,
         NEW p, p = More(o, n, t)
  PROVE  /\ p \in Lists
         /\ \A m \in Node : Len(p[m]) = IF m = n THEN Len(o[m]) + 1 ELSE Len(o[m])
         /\ \A m \in Node : DOMAIN o[m] \subseteq DOMAIN p[m]
         /\ \A m \in Node : \A k \in DOMAIN o[m] : p[m][k] = o[m][k]
         /\ DOMAIN p[n] = DOMAIN o[n] \cup {Len(o[n]) + 1} /\ Len(o[n]) + 1 \notin DOMAIN o[n]
         /\ p[n][Len(o[n]) + 1] = t
<1>1. o[n] \in Seq(Things)
  BY DEF Lists
<1> DEFINE s == Append(o[n], t)
<1>2. /\ s \in Seq(Things) /\ Len(s) = Len(o[n]) + 1 /\ s[Len(o[n]) + 1] = t
      /\ \A k \in 1 .. Len(o[n]) : s[k] = o[n][k]
  BY <1>1, AppendProperties
<1> HIDE DEF s
<1>3. p \in Lists /\ \A m \in Node : p[m] = IF m = n THEN s ELSE o[m]
  BY <1>2 DEF s, Lists, More
<1>4. \A m \in Node : /\ Len(p[m]) \in Nat /\ Len(o[m]) \in Nat
                      /\ DOMAIN p[m] = 1 .. Len(p[m]) /\ DOMAIN o[m] = 1 .. Len(o[m])
  BY <1>3 DEF Lists
<1> QED
  BY <1>2, <1>3, <1>4

\* A field of a thing is written.
LEMMA FieldPut ==
  ASSUME NEW o \in Lists, NEW n \in Node, NEW i \in DOMAIN o[n], There(o[n], i), NEW f, NEW v,
         NEW p, p = Written(o, n, i, f, v),
         \/ f = "key" /\ v \in Key
         \/ f = "text" /\ v \in Text
         \/ f = "extra" /\ v \subseteq Extra
  PROVE  /\ p \in Lists
         /\ \A m \in Node : Len(p[m]) = Len(o[m]) /\ DOMAIN p[m] = DOMAIN o[m]
         /\ \A m \in Node : \A k \in DOMAIN o[m] :
               p[m][k] = IF m = n /\ k = i THEN With(o[m][k], f, v) ELSE o[m][k]
<1>1. o[n][i] \in Thing
  BY DEF Lists, Things, There
<1>2. [o[n][i] EXCEPT ![f] = v] \in Things
  BY <1>1 DEF Thing, Things
<1> DEFINE t == [o[n][i] EXCEPT ![f] = v]
<1>3. p = Put(o, n, i, t)
  BY DEF Put, Written
<1>4. t \in Things
  BY <1>2
<1> HIDE DEF t
<1>5. /\ p \in Lists
      /\ \A m \in Node : Len(p[m]) = Len(o[m]) /\ DOMAIN p[m] = DOMAIN o[m]
      /\ \A m \in Node : \A k \in DOMAIN o[m] : p[m][k] = IF m = n /\ k = i THEN t ELSE o[m][k]
  BY <1>3, <1>4, Replaced
<1>6. t = With(o[n][i], f, v)
  BY DEF t, With
<1> QED
  BY <1>5, <1>6
-----------------------------------------------------------------------------
(* The invariant of the types.                                             *)

Phase == {"idle", "read", "readIssues", "attach", "records", "labels", "saveLabels", "tell",
          "edit", "make", "close", "mark", "delete", "save"}
Merging == {"edit", "make", "close", "mark"}
Working == Merging \cup {"delete", "save"}

\* What has which fields.
IsRun(p) ==
    p = [ph |-> p.ph, at |-> p.at, snap |-> p.snap, wornAt |-> p.wornAt, i |-> p.i,
         rec |-> p.rec, want |-> p.want, left |-> p.left, have |-> p.have,
         vanished |-> p.vanished, kept |-> p.kept, todo |-> p.todo, found |-> p.found,
         behind |-> p.behind, complete |-> p.complete]
IsHist(h) ==
    /\ h = [made |-> h.made, renamed |-> h.renamed, twins |-> h.twins, owed |-> h.owed,
            unlabelled |-> h.unlabelled, unmarked |-> h.unmarked, remade |-> h.remade,
            mixed |-> h.mixed, unrecorded |-> h.unrecorded, next |-> h.next,
            onPrimary |-> h.onPrimary, been |-> h.been]
    /\ h.been = [n \in Node |-> h.been[n]]
IsRecord(r) ==
    r = [copies |-> r.copies, key |-> r.key, text |-> r.text, extra |-> r.extra, deleted |-> r.deleted]

NodesTyped ==
    /\ kind \in Kinds /\ branches \subseteq Node /\ on \in Lists
    /\ worn = [n \in Node |-> worn[n]] /\ \A n \in Node : worn[n] \subseteq DOMAIN on[n]
    /\ edits \in 0 .. MaxEdits /\ faults \in 0 .. MaxFaults
    /\ IsHist(hist)

\* A record of copies that the nodes o have, or have had.
RecordOK(r, o) ==
    /\ IsRecord(r) /\ DOMAIN r.copies \subseteq Node
    /\ r.key \in Key /\ r.text \in Text /\ r.extra \subseteq Extra /\ r.deleted \in BOOLEAN
    /\ \A n \in DOMAIN r.copies : r.copies[n] \in DOMAIN o[n]

\* No copy is of two records.
Apart(R) ==
    \A i, k \in DOMAIN R : i # k =>
        \A n \in DOMAIN R[i].copies \cap DOMAIN R[k].copies : R[i].copies[n] # R[k].copies[n]

RecordsOK ==
    /\ DOMAIN recs \subseteq Rec /\ \A i \in DOMAIN recs : RecordOK(recs[i], on)
    /\ Apart(recs)

\* Ids are given once, and what was on the primary is there by its record
\* until it is deleted there.
Origins ==
    /\ hist.next \in Nat /\ \A i \in hist.onPrimary \cup DOMAIN recs : i \in Nat /\ i < hist.next
    /\ \A i \in hist.onPrimary \cap DOMAIN recs : Primary \in DOMAIN recs[i].copies \/ recs[i].deleted

RunOK ==
    /\ IsRun(run) /\ run.ph \in Phase /\ (run.ph # "idle" => run.at \in DOMAIN Order)
    /\ DOMAIN run.snap \subseteq Node
    /\ \A n \in DOMAIN run.snap : run.snap[n] \in Seq(Things) /\ DOMAIN run.snap[n] \subseteq DOMAIN on[n]
    /\ run.todo \subseteq DOMAIN recs

\* The record at hand names no copy that the store does not.
AtHand ==
    run.ph \in Working =>
      /\ run.i \in DOMAIN recs /\ run.i \notin run.todo
      /\ RecordOK(run.rec, on) /\ run.rec.extra = recs[run.i].extra
      /\ \A n \in DOMAIN run.rec.copies :
           n \in DOMAIN recs[run.i].copies /\ run.rec.copies[n] = recs[run.i].copies[n]
      /\ run.ph \in Merging => ~run.rec.deleted
      /\ run.ph = "delete" => run.rec.deleted
      /\ run.i \in hist.onPrimary => Primary \in DOMAIN run.rec.copies \/ run.rec.deleted

\* The calls left are for copies that are there to be written, or are not there
\* and to be made.
Pending ==
    /\ run.ph \in {"edit", "make"} => run.want.key \in Key /\ run.want.text \in Text
    /\ run.ph = "edit" => run.left \subseteq Merged \X (DOMAIN run.rec.copies)
    /\ run.ph = "make" => run.left \subseteq DOMAIN run.snap \ DOMAIN run.rec.copies
    /\ run.ph \in {"close", "delete"} => run.left \subseteq DOMAIN run.rec.copies
    /\ run.ph = "mark" => run.left \subseteq {"add", "remove"} \X (DOMAIN run.rec.copies) \X Extra
    /\ run.ph = "close" => kind = "pull"

\* What hangs on the copies, as counted.
HaveOK ==
    run.ph \in {"mark", "save"} /\ ~run.rec.deleted =>
      /\ run.have = [n \in DOMAIN run.have |-> run.have[n]]
      /\ \A n \in DOMAIN run.have : run.have[n] \subseteq Extra

RunInv == RunOK /\ AtHand /\ Pending /\ HaveOK
TypeInv == NodesTyped /\ RecordsOK /\ Origins /\ RunInv

LEMMA TypeInvSays == TypeInv => IssuesTypeOK
BY DEF TypeInv, NodesTyped, RecordsOK, Apart, RecordOK, IssuesTypeOK, Lists, Things

\* Things are only added to the nodes.
Grows == on' \in Lists /\ \A n \in Node : DOMAIN on[n] \subseteq DOMAIN on'[n]

Recopied(r, c, d) == [r EXCEPT !.copies = c, !.deleted = d]

LEMMA CopiesChanged ==
  ASSUME NEW r, IsRecord(r), NEW c, NEW d, NEW s, s = Recopied(r, c, d)
  PROVE  /\ IsRecord(s) /\ s.copies = c /\ s.deleted = d
         /\ s.key = r.key /\ s.text = r.text /\ s.extra = r.extra
BY DEF IsRecord, Recopied

LEMMA RecordStays ==
  ASSUME NEW r, NEW o, NEW p, RecordOK(r, o), \A n \in Node : DOMAIN o[n] \subseteq DOMAIN p[n]
  PROVE  RecordOK(r, p)
BY DEF RecordOK

\* What holds of records and runs stands when things are only added.
LEMMA OthersAct ==
  ASSUME TypeInv, Grows, UNCHANGED <<kind, recs, run>>,
         hist'.next = hist.next, hist'.onPrimary = hist.onPrimary
  PROVE  RecordsOK' /\ Origins' /\ RunInv'
<1>1. RecordsOK'
  BY RecordStays DEF TypeInv, RecordsOK, Grows
<1>2. Origins'
  BY DEF TypeInv, Origins
<1>3. RunOK'
  BY DEF TypeInv, RunInv, RunOK, Grows
<1>4. AtHand'
  BY RecordStays DEF TypeInv, RunInv, AtHand, Grows
<1>5. Pending'
  BY DEF TypeInv, RunInv, Pending, Merged, Fields
<1>6. HaveOK'
  BY DEF TypeInv, RunInv, HaveOK
<1> QED
  BY <1>1, <1>2, <1>3, <1>4, <1>5, <1>6 DEF RunInv

\* A call of the phase at hand is made, or is not.
LEMMA CallMade ==
  ASSUME TypeInv, Grows, UNCHANGED <<kind, recs>>,
         hist'.next = hist.next, hist'.onPrimary = hist.onPrimary,
         IsRun(run'), UNCHANGED <<run.ph, run.at, run.snap, run.i, run.rec, run.want, run.todo>>,
         run'.left \subseteq run.left, HaveOK'
  PROVE  RecordsOK' /\ Origins' /\ RunInv'
<1>1. RecordsOK'
  BY RecordStays DEF TypeInv, RecordsOK, Grows
<1>2. Origins'
  BY DEF TypeInv, Origins
<1>3. RunOK'
  BY DEF TypeInv, RunInv, RunOK, Grows
<1>4. AtHand'
  BY RecordStays DEF TypeInv, RunInv, AtHand, Grows
<1>5. Pending'
  BY DEF TypeInv, RunInv, Pending, Merged, Fields
<1> QED
  BY <1>1, <1>2, <1>3, <1>4, <1>5 DEF RunInv

\* Outside the phases of a record there is nothing at hand.
LEMMA NothingAtHand ==
  ASSUME RunOK', run'.ph \notin Working
  PROVE  RunInv'
BY DEF RunInv, AtHand, Pending, HaveOK, Working, Merging

LEMMA IdleRun == IsRun(Idle) /\ Idle.ph = "idle" /\ Idle.todo = {} /\ DOMAIN Idle.snap = {}
BY DEF IsRun, Idle

-----------------------------------------------------------------------------
(* How it begins, and what people do.                                      *)

LEMMA OneThing ==
  ASSUME NEW t \in Thing
  PROVE  [n \in Node |-> <<t>>] \in Lists /\ DOMAIN <<t>> = {1}
BY DEF Lists, Things

LEMMA TypeInit == Init => TypeInv
<1> SUFFICES ASSUME Init PROVE TypeInv
  OBVIOUS
<1>1. IsHist(hist) /\ hist.next = Cardinality(DOMAIN recs) + 1 /\ hist.onPrimary = DOMAIN recs
  BY DEF Init, IsHist
<1>2. RunInv
  <2>1. RunOK
    BY IdleRun DEF Init, RunOK, Phase
  <2> QED
    BY <2>1, IdleRun DEF Init, RunInv, AtHand, Pending, HaveOK, Working, Merging
<1>3. PICK t \in Thing :
        \/ on = [n \in Node |-> << >>] /\ recs = << >>
        \/ on = [n \in Node |-> <<t>>] /\ recs = [i \in {1} |-> Agreed(t)]
  BY DEF Init
<1>4. wornBase = {} \/ (wornBase = {1} /\ recs # << >>)
  BY DEF Init
<1>5. CASE on = [n \in Node |-> << >>] /\ recs = << >>
  <2>1. on \in Lists /\ DOMAIN recs = {}
    BY <1>5 DEF Lists
  <2>2. NodesTyped
    BY <1>1, <1>4, <1>5, <2>1, Ordered, IssuesAssumption DEF Init, NodesTyped
  <2>3. hist.next = 1
    BY <1>1, <2>1, FS_EmptySet
  <2> QED
    BY <1>1, <1>2, <2>1, <2>2, <2>3 DEF TypeInv, RecordsOK, Origins, Apart
<1>6. CASE on = [n \in Node |-> <<t>>] /\ recs = [i \in {1} |-> Agreed(t)]
  <2>1. on \in Lists /\ DOMAIN recs = {1} /\ \A n \in Node : DOMAIN on[n] = {1}
    BY <1>6, OneThing
  <2>2. NodesTyped
    BY <1>1, <1>4, <2>1, Ordered, IssuesAssumption DEF Init, NodesTyped
  <2>3. hist.next = 2
    BY <1>1, <2>1, FS_Singleton
  <2>4. RecordOK(Agreed(t), on) /\ Primary \in DOMAIN Agreed(t).copies
    BY <2>1, Ordered DEF RecordOK, IsRecord, Agreed, Thing
  <2> QED
    BY IssuesAssumption, <1>1, <1>2, <1>6, <2>1, <2>2, <2>3, <2>4 DEF TypeInv, RecordsOK, Origins, Apart
<1> QED
  BY <1>3, <1>5, <1>6

LEMMA OneFewer ==
  ASSUME NodesTyped, Person
  PROVE  /\ kind' \in Kinds /\ branches' \subseteq Node
         /\ edits' \in 0 .. MaxEdits /\ faults' \in 0 .. MaxFaults
BY IssuesAssumption DEF NodesTyped, Person

LEMMA MakeTyped ==
  ASSUME TypeInv, NEW n \in Node, NEW t \in Thing, Make(n, t)
  PROVE  TypeInv'
<1>1. on \in Lists /\ t \in Things /\ on' = More(on, n, t)
  BY DEF Make, TypeInv, NodesTyped, More, Things
<1>2. Grows
  BY <1>1, Appended DEF Grows
<1>3. IsHist(hist') /\ hist'.next = hist.next /\ hist'.onPrimary = hist.onPrimary
  BY DEF Make, TypeInv, NodesTyped, IsHist
<1>4. NodesTyped'
  BY <1>2, <1>3, OneFewer DEF Make, TypeInv, NodesTyped, Grows
<1> QED
  BY <1>2, <1>3, <1>4, OthersAct DEF Make, Person, TypeInv

LEMMA EditTyped ==
  ASSUME TypeInv, NEW n \in Node, NEW i \in DOMAIN on[n], NEW f \in Fields, NEW v \in Possible(f),
         Edit(n, i, f, v)
  PROVE  TypeInv'
<1>1. on \in Lists /\ There(on[n], i) /\ on' = Written(on, n, i, f, v)
  BY DEF Edit, TypeInv, NodesTyped, Written
<1>2. \/ f = "key" /\ v \in Key
      \/ f = "text" /\ v \in Text
  BY IssuesAssumption DEF Possible, Fields
<1>3. Grows /\ \A m \in Node : DOMAIN on'[m] = DOMAIN on[m]
  BY <1>1, <1>2, FieldPut DEF Grows
<1>4. IsHist(hist') /\ hist'.next = hist.next /\ hist'.onPrimary = hist.onPrimary
  BY DEF Edit, TypeInv, NodesTyped, IsHist
<1>5. NodesTyped'
  BY <1>3, <1>4, OneFewer DEF Edit, TypeInv, NodesTyped, Grows
<1> QED
  BY <1>3, <1>4, <1>5, OthersAct DEF Edit, Person, TypeInv

LEMMA DeleteTyped ==
  ASSUME TypeInv, NEW n \in Node, NEW i \in DOMAIN on[n], Delete(n, i)
  PROVE  TypeInv'
<1>1. on \in Lists /\ Gone \in Things /\ on' = Put(on, n, i, Gone)
  BY DEF Delete, TypeInv, NodesTyped, Put, Things
<1>2. Grows /\ \A m \in Node : DOMAIN on'[m] = DOMAIN on[m]
  BY <1>1, Replaced DEF Grows
<1>3. IsHist(hist') /\ hist'.next = hist.next /\ hist'.onPrimary = hist.onPrimary
  BY DEF Delete, TypeInv, NodesTyped, IsHist
<1>4. NodesTyped'
  BY <1>2, <1>3, OneFewer DEF Delete, TypeInv, NodesTyped, Grows
<1> QED
  BY <1>2, <1>3, <1>4, OthersAct DEF Delete, Person, TypeInv

LEMMA MarkTyped ==
  ASSUME TypeInv, NEW n \in Node, NEW i \in DOMAIN on[n], NEW e \in Extra, Mark(n, i, e)
  PROVE  TypeInv'
<1>1. on \in Lists /\ There(on[n], i) /\ on[n][i] \in Thing
  BY DEF Mark, TypeInv, NodesTyped, Lists, Things, There
<1>2. \E E \in SUBSET Extra : on' = Written(on, n, i, "extra", E)
  <2>1. CASE e \in on[n][i].extra
    <3>1. on' = Written(on, n, i, "extra", on[n][i].extra \ {e})
      BY <2>1 DEF Mark, Written
    <3> QED
      BY <3>1, <1>1 DEF Thing
  <2>2. CASE e \notin on[n][i].extra
    <3>1. on' = Written(on, n, i, "extra", on[n][i].extra \cup {e})
      BY <2>2 DEF Mark, Written
    <3> QED
      BY <3>1, <1>1 DEF Thing
  <2> QED
    BY <2>1, <2>2
<1>3. Grows /\ \A m \in Node : DOMAIN on'[m] = DOMAIN on[m]
  BY <1>1, <1>2, FieldPut DEF Grows
<1>4. IsHist(hist') /\ hist'.next = hist.next /\ hist'.onPrimary = hist.onPrimary
  BY DEF Mark, TypeInv, NodesTyped, IsHist
<1>5. NodesTyped'
  BY <1>3, <1>4, OneFewer DEF Mark, TypeInv, NodesTyped, Grows
<1> QED
  BY <1>3, <1>4, <1>5, OthersAct DEF Mark, Person, TypeInv

LEMMA WearTyped ==
  ASSUME TypeInv, NEW n \in Node, NEW i \in DOMAIN on[n], Wear(n, i)
  PROVE  TypeInv'
<1>1. Grows
  BY DEF Wear, TypeInv, NodesTyped, Grows
<1>2. IsHist(hist') /\ hist'.next = hist.next /\ hist'.onPrimary = hist.onPrimary
  BY DEF Wear, TypeInv, NodesTyped, IsHist
<1>3. worn' = [m \in Node |-> worn'[m]] /\ \A m \in Node : worn'[m] \subseteq DOMAIN on[m]
  BY DEF Wear, TypeInv, NodesTyped
<1>4. NodesTyped'
  BY <1>2, <1>3, OneFewer DEF Wear, TypeInv, NodesTyped
<1> QED
  BY <1>1, <1>2, <1>4, OthersAct DEF Wear, Person, TypeInv

LEMMA PeopleTyped == TypeInv /\ People => TypeInv'
BY MakeTyped, EditTyped, DeleteTyped, MarkTyped, WearTyped DEF People

LEMMA OutsideTyped == TypeInv /\ (BranchesArrive \/ UNCHANGED vars) => TypeInv'
<1> SUFFICES ASSUME TypeInv, BranchesArrive \/ UNCHANGED vars PROVE TypeInv'
  OBVIOUS
<1>1. Grows /\ NodesTyped'
  BY DEF BranchesArrive, vars, TypeInv, NodesTyped, Grows
<1> QED
  BY <1>1, OthersAct DEF BranchesArrive, vars, TypeInv

-----------------------------------------------------------------------------
(* Steps of a run that write to no node and to no record.                  *)

LEMMA FaultSpent ==
  ASSUME TypeInv, faults > 0, faults' = faults - 1
  PROVE  faults' \in 0 .. MaxFaults
BY IssuesAssumption DEF TypeInv, NodesTyped

LEMMA OnlyTheRun ==
  ASSUME TypeInv, UNCHANGED <<kind, on, worn, recs, people, hist>>, faults' \in 0 .. MaxFaults
  PROVE  NodesTyped' /\ RecordsOK' /\ Origins'
BY DEF TypeInv, NodesTyped, RecordsOK, Origins, people

LEMMA BeginTyped == TypeInv /\ Begin => TypeInv'
<1> SUFFICES ASSUME TypeInv, Begin PROVE TypeInv'
  OBVIOUS
<1>1. NodesTyped' /\ RecordsOK' /\ Origins'
  BY OnlyTheRun DEF Begin, TypeInv, NodesTyped
<1>2. IsRun(run') /\ run'.ph = "read" /\ run'.at = 1 /\ run'.todo = {} /\ DOMAIN run'.snap = {}
  BY IdleRun DEF Begin, IsRun
<1>3. RunOK'
  BY <1>2, Ordered, IssuesAssumption DEF RunOK, Phase
<1> QED
  BY <1>1, <1>2, <1>3, NothingAtHand DEF TypeInv, Working, Merging

LEMMA NextAt ==
  ASSUME NEW at \in DOMAIN Order
  PROVE  (IF at = Len(Order) THEN at ELSE at + 1) \in DOMAIN Order
BY Ordered, IssuesAssumption

LEMMA ReadNodeTyped == TypeInv /\ ReadNode => TypeInv'
<1> SUFFICES ASSUME TypeInv, ReadNode PROVE TypeInv'
  OBVIOUS
<1>1. NodesTyped' /\ RecordsOK' /\ Origins'
  BY OnlyTheRun DEF ReadNode, TypeInv, NodesTyped
<1>2. run.at \in DOMAIN Order /\ N \in Node /\ RunOK /\ on \in Lists
  BY Ordered DEF ReadNode, TypeInv, RunInv, RunOK, N, NodesTyped
<1>3. /\ IsRun(run') /\ run'.ph \in {"readIssues", "attach", "read"} /\ run'.todo = run.todo
      /\ run'.snap = [n \in DOMAIN run.snap \cup {N} |-> IF n = N THEN on[n] ELSE run.snap[n]]
      /\ run'.at = IF kind = "label" \/ run.at = Len(Order) THEN run.at ELSE run.at + 1
  BY <1>2 DEF ReadNode, RunOK, IsRun
<1>4. run'.at \in DOMAIN Order
  BY <1>2, <1>3, NextAt
<1>5. UNCHANGED <<on, recs>>
  BY DEF ReadNode
<1>6. RunOK'
  BY <1>2, <1>3, <1>4, <1>5 DEF RunOK, Phase, Lists
<1> QED
  BY <1>1, <1>3, <1>6, NothingAtHand DEF TypeInv, Working, Merging

LEMMA ReadIssuesTyped == TypeInv /\ ReadIssues => TypeInv'
<1> SUFFICES ASSUME TypeInv, ReadIssues PROVE TypeInv'
  OBVIOUS
<1>1. NodesTyped' /\ RecordsOK' /\ Origins'
  BY OnlyTheRun DEF ReadIssues, TypeInv, NodesTyped
<1>2. run.at \in DOMAIN Order /\ RunOK
  BY DEF ReadIssues, TypeInv, RunInv, RunOK
<1>3. /\ IsRun(run') /\ run'.ph \in {"attach", "read"} /\ run'.todo = run.todo /\ run'.snap = run.snap
      /\ run'.at = IF run.at = Len(Order) THEN run.at ELSE run.at + 1
  BY <1>2 DEF ReadIssues, RunOK, IsRun
<1>4. run'.at \in DOMAIN Order
  BY <1>2, <1>3, NextAt
<1>5. RunOK'
  BY <1>2, <1>3, <1>4 DEF ReadIssues, RunOK, Phase
<1> QED
  BY <1>1, <1>3, <1>5, NothingAtHand DEF TypeInv, Working, Merging

LEMMA BackToIdle ==
  ASSUME run' = Idle
  PROVE  RunInv'
<1>1. RunOK'
  BY IdleRun DEF RunOK, Phase
<1> QED
  BY <1>1, IdleRun, NothingAtHand DEF Working, Merging

LEMMA PassOverTyped == TypeInv /\ PassOver => TypeInv'
<1> SUFFICES ASSUME TypeInv, PassOver PROVE TypeInv'
  OBVIOUS
<1>1. NodesTyped' /\ RecordsOK' /\ Origins'
  BY FaultSpent, OnlyTheRun DEF PassOver
<1>2. CASE run' = Idle
  BY <1>1, <1>2, BackToIdle DEF TypeInv
<1>3. CASE run' # Idle
  <2>1. run.at \in DOMAIN Order /\ RunOK
    BY DEF PassOver, TypeInv, RunInv, RunOK
  <2>2. /\ IsRun(run') /\ run'.ph \in {"attach", "read"} /\ run'.todo = run.todo /\ run'.snap = run.snap
        /\ run'.at = IF run.at = Len(Order) THEN run.at ELSE run.at + 1
    BY <1>3, <2>1 DEF PassOver, RunOK, IsRun
  <2>3. run'.at \in DOMAIN Order
    BY <2>1, <2>2, NextAt
  <2>4. RunOK'
    BY <2>1, <2>2, <2>3 DEF PassOver, RunOK, Phase
  <2> QED
    BY <1>1, <2>2, <2>4, NothingAtHand DEF TypeInv, Working, Merging
<1> QED
  BY <1>2, <1>3

LEMMA AllAttachedTyped == TypeInv /\ AllAttached => TypeInv'
<1> SUFFICES ASSUME TypeInv, AllAttached PROVE TypeInv'
  OBVIOUS
<1>1. NodesTyped' /\ RecordsOK' /\ Origins'
  BY OnlyTheRun DEF AllAttached, TypeInv, NodesTyped
<1>2. /\ IsRun(run') /\ run'.ph = "records" /\ run'.todo = DOMAIN recs /\ run'.snap = run.snap /\ run'.at = run.at
  BY DEF AllAttached, TypeInv, RunInv, RunOK, IsRun
<1>3. RunOK'
  BY <1>2 DEF AllAttached, TypeInv, RunInv, RunOK, Phase
<1> QED
  BY <1>1, <1>2, <1>3, NothingAtHand DEF TypeInv, Working, Merging

\* The labels of the issue.
LEMMA LabelsTyped == TypeInv /\ (Labels \/ SetLabels \/ SaveLabels) => TypeInv'
<1> SUFFICES ASSUME TypeInv, Labels \/ SetLabels \/ SaveLabels PROVE TypeInv'
  OBVIOUS
<1>1. /\ UNCHANGED <<kind, on, recs, people, hist>> /\ faults' \in 0 .. MaxFaults
      /\ worn' = [m \in Node |-> worn'[m]] /\ \A m \in Node : worn'[m] \subseteq DOMAIN on[m]
  <2>1. CASE Labels
    BY <2>1 DEF Labels, TypeInv, NodesTyped, Own
  <2>2. CASE SetLabels
    <3>1. UNCHANGED <<kind, on, recs, people, hist>> /\ faults' \in 0 .. MaxFaults
      BY <2>2, FaultSpent DEF SetLabels, TypeInv, NodesTyped, Own
    <3>2. \/ worn' = worn
          \/ worn' = [worn EXCEPT ![NextNode] = {id \in LabelIds(NextNode) : There(on[NextNode], id)}]
      BY <2>2 DEF SetLabels
    <3> QED
      BY <3>1, <3>2 DEF There, TypeInv, NodesTyped
  <2>3. CASE SaveLabels
    BY <2>3 DEF SaveLabels, TypeInv, NodesTyped
  <2> QED
    BY <2>1, <2>2, <2>3
<1>2. NodesTyped' /\ RecordsOK' /\ Origins'
  BY <1>1 DEF TypeInv, NodesTyped, RecordsOK, Origins, people
<1>3. /\ IsRun(run') /\ run'.ph \in {"tell", "labels", "saveLabels"}
      /\ UNCHANGED <<run.todo, run.snap, run.at>> /\ run.ph \in {"records", "labels", "saveLabels"}
  <2>1. CASE Labels
    BY <2>1 DEF Labels, TypeInv, RunInv, RunOK, IsRun
  <2>2. CASE SetLabels
    BY <2>2 DEF SetLabels, Past, Incomplete, TypeInv, RunInv, RunOK, IsRun
  <2>3. CASE SaveLabels
    BY <2>3 DEF SaveLabels, TypeInv, RunInv, RunOK, IsRun
  <2> QED
    BY <2>1, <2>2, <2>3
<1>4. RunOK'
  BY <1>1, <1>3 DEF TypeInv, RunInv, RunOK, Phase
<1> QED
  BY <1>2, <1>3, <1>4, NothingAtHand DEF TypeInv, Working, Merging

LEMMA TellTyped == TypeInv /\ (Tell \/ CutOff) => TypeInv'
<1> SUFFICES ASSUME TypeInv, Tell \/ CutOff PROVE TypeInv'
  OBVIOUS
<1>1. UNCHANGED <<kind, on, worn, recs, people, hist>> /\ run' = Idle /\ faults' \in 0 .. MaxFaults
  BY FaultSpent DEF Tell, CutOff, TypeInv, NodesTyped
<1> QED
  BY <1>1, OnlyTheRun, BackToIdle DEF TypeInv

-----------------------------------------------------------------------------
(* A record is found or made for what is new.                              *)

LEMMA FreshIs ==
  ASSUME TypeInv, NEW n \in DOMAIN run.snap, Fresh(n) # {}
  PROVE  LET i == Lowest(Fresh(n))
         IN  /\ n \in Node /\ i \in DOMAIN run.snap[n] /\ i \in DOMAIN on[n] /\ There(run.snap[n], i)
             /\ run.snap[n][i] \in Thing
             /\ \A k \in DOMAIN recs : n \in DOMAIN recs[k].copies => recs[k].copies[n] # i
<1>1. /\ n \in Node /\ run.snap[n] \in Seq(Things) /\ DOMAIN run.snap[n] \subseteq DOMAIN on[n]
      /\ DOMAIN run.snap[n] \subseteq Nat
  BY DEF TypeInv, RunInv, RunOK
<1>2. Fresh(n) \in SUBSET Nat
  BY <1>1 DEF Fresh
<1>3. Lowest(Fresh(n)) \in Fresh(n)
  BY <1>2, LowestIn
<1>4. ASSUME NEW i \in Fresh(n)
      PROVE  /\ i \in DOMAIN run.snap[n] /\ i \in DOMAIN on[n] /\ There(run.snap[n], i)
             /\ run.snap[n][i] \in Thing
             /\ \A k \in DOMAIN recs : n \in DOMAIN recs[k].copies => recs[k].copies[n] # i
  <2>1. i \in DOMAIN run.snap[n] /\ There(run.snap[n], i) /\ i \notin Known(n)
    BY DEF Fresh
  <2>2. run.snap[n][i] \in Thing
    BY <1>1, <2>1 DEF There, Things
  <2>3. \A k \in DOMAIN recs : n \in DOMAIN recs[k].copies => recs[k].copies[n] # i
    BY <2>1 DEF Known
  <2> QED
    BY <1>1, <2>1, <2>2, <2>3
<1> QED
  BY <1>1, <1>3, <1>4

LEMMA LackingIs ==
  ASSUME TypeInv, NEW n, NEW t, Lacking(n, t) # {}
  PROVE  LET k == Lowest(Lacking(n, t))
         IN  k \in DOMAIN recs /\ n \notin DOMAIN recs[k].copies
<1>1. Lacking(n, t) \in SUBSET Nat
  BY IssuesAssumption DEF Lacking, TypeInv, RecordsOK
<1>2. Lowest(Lacking(n, t)) \in Lacking(n, t)
  BY <1>1, LowestIn
<1> QED
  BY <1>2 DEF Lacking

\* The thing i of n is a copy of the record k, which is s from now on.
Attached(n, i, k, s) ==
    /\ k \in DOMAIN recs /\ n \notin DOMAIN recs[k].copies
    /\ DOMAIN recs' = DOMAIN recs /\ \A j \in DOMAIN recs : recs'[j] = IF j = k THEN s ELSE recs[j]
    /\ IsRecord(s) /\ s.key = recs[k].key /\ s.text = recs[k].text /\ s.extra = recs[k].extra
    /\ s.deleted = StillDeleted(recs[k], n)
    /\ DOMAIN s.copies = DOMAIN recs[k].copies \cup {n} /\ s.copies[n] = i
    /\ \A o \in DOMAIN recs[k].copies : s.copies[o] = recs[k].copies[o]
    /\ IsHist(hist') /\ UNCHANGED <<hist.next, hist.been, hist.owed, hist.mixed, hist.unmarked>>
    /\ hist'.twins = (hist.twins \/ \E f \in Fields : run.snap[n][i][f] # recs[k][f])
    /\ hist'.remade = (hist.remade \/ recs[k].extra # {})
    /\ hist'.onPrimary = IF n = Primary THEN hist.onPrimary \cup {k} ELSE hist.onPrimary

\* It has a record of its own, s.
Recognised(n, i, s) ==
    /\ hist.next \in Rec /\ DOMAIN recs' = DOMAIN recs \cup {hist.next} /\ recs'[hist.next] = s
    /\ \A j \in DOMAIN recs : recs'[j] = recs[j]
    /\ IsRecord(s) /\ s.key = run.snap[n][i].key /\ s.text = run.snap[n][i].text /\ s.extra = {} /\ ~s.deleted
    /\ DOMAIN s.copies = {n} /\ s.copies[n] = i
    /\ IsHist(hist') /\ UNCHANGED <<hist.been, hist.owed, hist.mixed, hist.unmarked, hist.twins, hist.remade>>
    /\ hist'.next = hist.next + 1
    /\ hist'.onPrimary = IF n = Primary THEN hist.onPrimary \cup {hist.next} ELSE hist.onPrimary

LEMMA AttachToIs ==
  ASSUME TypeInv, NEW n, NEW i, NEW k \in DOMAIN recs, n \notin DOMAIN recs[k].copies, AttachTo(k, n, i)
  PROVE  \E s : Attached(n, i, k, s)
<1> DEFINE c == [o \in DOMAIN recs[k].copies \cup {n} |-> IF o = n THEN i ELSE recs[k].copies[o]]
           d == StillDeleted(recs[k], n)
           r == Recopied(recs[k], c, d)
           wrong == \E f \in Fields : run.snap[n][i][f] # recs[k][f]
           marked == recs[k].extra # {}
           primary == IF n = Primary THEN hist.onPrimary \cup {k} ELSE hist.onPrimary
<1>a. recs' = [recs EXCEPT ![k].copies = c, ![k].deleted = d]
  BY DEF AttachTo
<1>b. hist' = [hist EXCEPT !.twins = hist.twins \/ wrong, !.remade = hist.remade \/ marked, !.onPrimary = primary]
  BY DEF AttachTo
<1>2. IsRecord(recs[k]) /\ IsHist(hist)
  BY DEF TypeInv, RecordsOK, RecordOK, NodesTyped
<1>3. /\ DOMAIN c = DOMAIN recs[k].copies \cup {n} /\ c[n] = i
      /\ \A o \in DOMAIN recs[k].copies : c[o] = recs[k].copies[o]
  OBVIOUS
<1> HIDE DEF c, d, wrong, marked, primary
<1>c. recs' = [recs EXCEPT ![k] = [recs[k] EXCEPT !.copies = c, !.deleted = d]]
  BY <1>a
<1>1. recs' = [recs EXCEPT ![k] = r]
  BY <1>c DEF Recopied
<1>4. /\ IsRecord(r) /\ r.copies = c /\ r.deleted = d
      /\ r.key = recs[k].key /\ r.text = recs[k].text /\ r.extra = recs[k].extra
  BY <1>2, CopiesChanged
<1> HIDE DEF r
<1>5. DOMAIN recs' = DOMAIN recs /\ \A j \in DOMAIN recs : recs'[j] = IF j = k THEN r ELSE recs[j]
  BY <1>1
<1>6. /\ IsHist(hist') /\ UNCHANGED <<hist.next, hist.been, hist.owed, hist.mixed, hist.unmarked>>
      /\ hist'.twins = (hist.twins \/ wrong) /\ hist'.remade = (hist.remade \/ marked)
      /\ hist'.onPrimary = primary
  BY <1>2, <1>b DEF IsHist
<1>7. Attached(n, i, k, r)
  BY <1>3, <1>4, <1>5, <1>6 DEF Attached, d, wrong, marked, primary
<1> QED
  BY <1>7

LEMMA RecogniseIs ==
  ASSUME TypeInv, NEW n, NEW i, Recognise(n, i)
  PROVE  \E s : Recognised(n, i, s)
<1> DEFINE t == run.snap[n][i]
           r == [copies |-> [o \in {n} |-> i], key |-> t.key, text |-> t.text, extra |-> {}, deleted |-> FALSE]
<1>1. hist.next \in Rec /\ recs' = [j \in DOMAIN recs \cup {hist.next} |-> IF j # hist.next THEN recs[j] ELSE r]
  BY DEF Recognise, NewId
<1>2. hist' = [hist EXCEPT !.next = @ + 1, !.onPrimary = IF n = Primary THEN @ \cup {hist.next} ELSE @]
  BY DEF Recognise, NewId
<1>3. hist.next \notin DOMAIN recs /\ IsHist(hist)
  BY DEF TypeInv, Origins, NodesTyped
<1>4. DOMAIN recs' = DOMAIN recs \cup {hist.next} /\ recs'[hist.next] = r /\ \A j \in DOMAIN recs : recs'[j] = recs[j]
  BY <1>1, <1>3
<1>5. /\ IsRecord(r) /\ DOMAIN r.copies = {n} /\ r.copies[n] = i /\ r.key = t.key /\ r.text = t.text
      /\ r.extra = {} /\ ~r.deleted
  BY DEF IsRecord
<1>6. /\ IsHist(hist') /\ UNCHANGED <<hist.been, hist.owed, hist.mixed, hist.unmarked, hist.twins, hist.remade>>
      /\ hist'.next = hist.next + 1
      /\ hist'.onPrimary = IF n = Primary THEN hist.onPrimary \cup {hist.next} ELSE hist.onPrimary
  BY <1>2, <1>3 DEF IsHist
<1> HIDE DEF r
<1>7. Recognised(n, i, r)
  BY <1>1, <1>4, <1>5, <1>6 DEF Recognised
<1> QED
  BY <1>7

LEMMA AttachIs ==
  ASSUME TypeInv, NEW n \in Node, Attach(n)
  PROVE  \E i \in DOMAIN on[n] :
           /\ run.ph = "attach" /\ n \in Read /\ UNCHANGED <<kind, on, worn, run, people, faults>>
           /\ i \in DOMAIN run.snap[n] /\ There(run.snap[n], i) /\ run.snap[n][i] \in Thing
           /\ \A k \in DOMAIN recs : n \in DOMAIN recs[k].copies => recs[k].copies[n] # i
           /\ \E s : Recognised(n, i, s) \/ \E k : Attached(n, i, k, s)
<1> DEFINE i == Lowest(Fresh(n))
           same == Lacking(n, run.snap[n][i])
           k == Lowest(same)
<1>1. run.ph = "attach" /\ n \in Read /\ Fresh(n) # {} /\ UNCHANGED <<kind, on, worn, run, people, faults>>
  BY DEF Attach, Turn
<1>2. n \in DOMAIN run.snap
  BY <1>1 DEF Read
<1>3. /\ i \in DOMAIN on[n] /\ i \in DOMAIN run.snap[n] /\ There(run.snap[n], i) /\ run.snap[n][i] \in Thing
      /\ \A j \in DOMAIN recs : n \in DOMAIN recs[j].copies => recs[j].copies[n] # i
  BY <1>1, <1>2, FreshIs
<1>4. same # {} => k \in DOMAIN recs /\ n \notin DOMAIN recs[k].copies
  BY LackingIs
<1>5. IF same # {} THEN AttachTo(k, n, i) ELSE Recognise(n, i)
  BY DEF Attach
<1> HIDE DEF i, same, k
<1>6. \E s : Recognised(n, i, s) \/ \E j : Attached(n, i, j, s)
  BY <1>4, <1>5, AttachToIs, RecogniseIs
<1> QED
  BY <1>1, <1>3, <1>6

LEMMA AttachTyped ==
  ASSUME TypeInv, NEW n \in Node, Attach(n)
  PROVE  TypeInv'
<1>1. PICK i \in DOMAIN on[n] :
           /\ run.ph = "attach" /\ n \in Read /\ UNCHANGED <<kind, on, worn, run, people, faults>>
           /\ i \in DOMAIN run.snap[n] /\ There(run.snap[n], i) /\ run.snap[n][i] \in Thing
           /\ \A k \in DOMAIN recs : n \in DOMAIN recs[k].copies => recs[k].copies[n] # i
           /\ \E s : Recognised(n, i, s) \/ \E k : Attached(n, i, k, s)
  BY AttachIs
<1>2. ASSUME NEW s, NEW k, Attached(n, i, k, s)
      PROVE  RecordsOK' /\ Origins' /\ IsHist(hist') /\ DOMAIN recs \subseteq DOMAIN recs'
  <2>1. RecordOK(recs[k], on)
    BY <1>2 DEF TypeInv, RecordsOK, Attached
  <2>2. s.deleted \in BOOLEAN
    BY <1>2, <2>1 DEF RecordOK, StillDeleted, Attached
  <2>3. RecordOK(s, on)
    <3>1. \A o \in DOMAIN s.copies : s.copies[o] \in DOMAIN on[o]
      BY <1>1, <1>2, <2>1 DEF RecordOK, Attached
    <3>2. DOMAIN s.copies \subseteq Node /\ IsRecord(s)
      BY <1>2, <2>1 DEF RecordOK, Attached
    <3>3. s.key \in Key /\ s.text \in Text /\ s.extra \subseteq Extra
      BY <1>2, <2>1 DEF RecordOK, Attached
    <3> QED
      BY <2>2, <3>1, <3>2, <3>3 DEF RecordOK
  <2>4. Apart(recs')
    BY <1>1, <1>2 DEF TypeInv, RecordsOK, Apart, Attached
  <2>5. RecordsOK'
    BY <1>1, <1>2, <2>3, <2>4 DEF TypeInv, RecordsOK, Attached
  <2>6. Origins'
    <3>1. \A j \in hist'.onPrimary \cap DOMAIN recs : Primary \in DOMAIN recs'[j].copies \/ recs'[j].deleted
      <4>1. ASSUME NEW j \in hist.onPrimary \cap DOMAIN recs
            PROVE  Primary \in DOMAIN recs'[j].copies \/ recs'[j].deleted
        BY <1>2 DEF TypeInv, Origins, StillDeleted, Attached
      <4>2. n = Primary => Primary \in DOMAIN recs'[k].copies
        BY <1>2 DEF Attached
      <4> QED
        BY <1>2, <4>1, <4>2 DEF Attached
    <3> QED
      BY <1>2, <3>1 DEF TypeInv, Origins, Attached
  <2> QED
    BY <1>2, <2>5, <2>6 DEF Attached
<1>3. ASSUME NEW s, Recognised(n, i, s)
      PROVE  RecordsOK' /\ Origins' /\ IsHist(hist') /\ DOMAIN recs \subseteq DOMAIN recs'
  <2>1. hist.next \in Nat /\ hist.next \notin DOMAIN recs \cup hist.onPrimary
    BY DEF TypeInv, Origins
  <2>2. RecordOK(s, on)
    <3>1. run.snap[n][i].key \in Key /\ run.snap[n][i].text \in Text
      BY <1>1 DEF Thing
    <3>2. \A o \in DOMAIN s.copies : o \in Node /\ s.copies[o] \in DOMAIN on[o]
      BY <1>1, <1>3 DEF Recognised
    <3>3. IsRecord(s) /\ s.deleted = FALSE
      BY <1>3 DEF Recognised, IsRecord
    <3>4. s.key \in Key /\ s.text \in Text /\ s.extra \subseteq Extra
      BY <1>3, <3>1 DEF Recognised
    <3> QED
      BY <3>2, <3>3, <3>4 DEF RecordOK
  <2>3. Apart(recs')
    BY <1>1, <1>3 DEF TypeInv, RecordsOK, Apart, Recognised
  <2>4. RecordsOK'
    BY <1>1, <1>3, <2>2, <2>3 DEF TypeInv, RecordsOK, Recognised
  <2>5. Origins'
    BY <1>3, <2>1 DEF TypeInv, Origins, Recognised
  <2> QED
    BY <1>3, <2>4, <2>5 DEF Recognised
<1>4. RecordsOK' /\ Origins' /\ IsHist(hist') /\ DOMAIN recs \subseteq DOMAIN recs'
  BY <1>1, <1>2, <1>3
<1>5. NodesTyped'
  BY <1>1, <1>4 DEF TypeInv, NodesTyped, people
<1>a. RunOK /\ run' = run /\ on' = on
  BY <1>1 DEF TypeInv, RunInv
<1>b. run.todo \subseteq DOMAIN recs'
  BY <1>a, <1>4 DEF RunOK
<1>6. RunOK'
  BY <1>a, <1>b DEF RunOK
<1> QED
  BY <1>1, <1>4, <1>5, <1>6, NothingAtHand DEF TypeInv, Working, Merging

-----------------------------------------------------------------------------
(* A record is taken.                                                      *)

LEMMA SeenIs ==
  ASSUME RunOK, NEW r, NEW n \in Present(r)
  PROVE  n \in Read /\ n \in Node /\ n \in DOMAIN r.copies /\ Seen(r, n) \in Thing
<1>1. n \in Read /\ n \in DOMAIN r.copies /\ There(run.snap[n], r.copies[n])
  BY DEF Present
<1>2. n \in Node /\ run.snap[n] \in Seq(Things)
  BY <1>1 DEF RunOK, Read
<1> QED
  BY <1>1, <1>2 DEF Seen, There, Things

\* What is wanted is the base or somebody's, and without a conflict everybody
\* has one of the two.
LEMMA WantedIs ==
  ASSUME RunOK, NEW r, NEW f
  PROVE  /\ Wanted(r, f) = r[f] \/ \E n \in Present(r) : Wanted(r, f) = Seen(r, n)[f]
         /\ ~Contested(r, f) => \A n \in Present(r) : Seen(r, n)[f] \in {r[f], Wanted(r, f)}
<1>1. Present(r) \subseteq Node
  BY SeenIs
<1>2. IsFiniteSet(Present(r))
  BY <1>1, Ordered, FS_Subset
<1> DEFINE v == Vals(r, f)
<1>3. DOMAIN v = Present(r) /\ \A n \in Present(r) : v[n] = Seen(r, n)[f]
  BY DEF Vals
<1> HIDE DEF v
<1>4. /\ FieldValue(v, r[f]) = r[f] \/ \E n \in DOMAIN v : FieldValue(v, r[f]) = v[n]
      /\ ~FieldConflict(v, r[f]) => \A n \in DOMAIN v : v[n] \in {r[f], FieldValue(v, r[f])}
  BY <1>2, <1>3, MergeOfOne
<1>5. Contested(r, f) = FieldConflict(v, r[f])
  BY DEF Contested, v
<1>6. ~Contested(r, f) => Wanted(r, f) = FieldValue(v, r[f])
  BY DEF Wanted, v
<1>7. Contested(r, f) => Wanted(r, f) = r[f] \/ \E n \in Present(r) : Wanted(r, f) = Seen(r, n)[f]
  BY DEF Wanted
<1> QED
  BY <1>3, <1>4, <1>5, <1>6, <1>7

LEMMA WantedTyped ==
  ASSUME RunOK, NEW r, r.key \in Key, r.text \in Text
  PROVE  Wanted(r, "key") \in Key /\ Wanted(r, "text") \in Text
<1>1. \A n \in Present(r) : Seen(r, n).key \in Key /\ Seen(r, n).text \in Text
  BY SeenIs DEF Thing
<1>2. Wanted(r, "key") = r.key \/ \E n \in Present(r) : Wanted(r, "key") = Seen(r, n).key
  BY WantedIs
<1>3. Wanted(r, "text") = r.text \/ \E n \in Present(r) : Wanted(r, "text") = Seen(r, n).text
  BY WantedIs
<1> QED
  BY <1>1, <1>2, <1>3

\* The copies a record keeps.
Dropped(r, S, d) == Recopied(r, Without(r.copies, S), d)

LEMMA Kept ==
  ASSUME NEW r, NEW o, RecordOK(r, o), NEW S, NEW d \in BOOLEAN, NEW s, s = Dropped(r, S, d)
  PROVE  /\ RecordOK(s, o) /\ s.deleted = d /\ s.key = r.key /\ s.text = r.text /\ s.extra = r.extra
         /\ DOMAIN s.copies = DOMAIN r.copies \ S /\ \A n \in DOMAIN s.copies : s.copies[n] = r.copies[n]
<1>1. /\ IsRecord(s) /\ s.copies = Without(r.copies, S) /\ s.deleted = d
      /\ s.key = r.key /\ s.text = r.text /\ s.extra = r.extra
  BY CopiesChanged DEF RecordOK, Dropped
<1>2. DOMAIN s.copies = DOMAIN r.copies \ S /\ \A n \in DOMAIN s.copies : s.copies[n] = r.copies[n]
  BY <1>1 DEF Without
<1> QED
  BY <1>1, <1>2 DEF RecordOK

\* What taking a record leaves alone.
LEMMA TakeLeaves ==
  ASSUME TypeInv, Take
  PROVE  LET i == Lowest(run.todo)
         IN  /\ NodesTyped' /\ RecordsOK' /\ Origins' /\ UNCHANGED <<kind, on, recs, hist>>
             /\ run.ph = "records" /\ i \in run.todo /\ i \in DOMAIN recs /\ RecordOK(recs[i], on)
             /\ run' = Taken(i)
<1>1. NodesTyped' /\ RecordsOK' /\ Origins' /\ UNCHANGED <<kind, on, recs, hist>>
  BY OnlyTheRun DEF Take, TypeInv, NodesTyped
<1>2. run.todo \in SUBSET Nat /\ run.todo # {} /\ run.todo \subseteq DOMAIN recs
  BY IssuesAssumption DEF Take, TypeInv, RunInv, RunOK, RecordsOK
<1>3. Lowest(run.todo) \in run.todo
  BY <1>2, LowestIn
<1> QED
  BY <1>1, <1>2, <1>3 DEF Take, TypeInv, RecordsOK

\* The record at hand of what was deleted: the copies that were not changed
\* are to be deleted.
DeletedRun(i, r) ==
    /\ IsRun(run') /\ run'.i = i /\ run'.todo = run.todo \ {i} /\ run'.ph = "delete"
    /\ UNCHANGED <<run.snap, run.at>> /\ ~run'.behind
    /\ run'.left \subseteq {n \in Present(r) \ {Primary} : ~Differs(r, n)}
    /\ RecordOK(run'.rec, on) /\ run'.rec.deleted /\ run'.rec.extra = r.extra
    /\ run'.rec.key = r.key /\ run'.rec.text = r.text
    /\ run'.left \subseteq DOMAIN run'.rec.copies
    /\ DOMAIN run'.rec.copies = DOMAIN r.copies \ ({Primary} \cup (Read \ (Present(r) \ {Primary})))
    /\ \A n \in DOMAIN run'.rec.copies : n \in DOMAIN r.copies /\ run'.rec.copies[n] = r.copies[n]

LEMMA ToDeleteIs ==
  ASSUME TypeInv, Take, WasDeleted(Lowest(run.todo))
  PROVE  DeletedRun(Lowest(run.todo), recs[Lowest(run.todo)])
<1> DEFINE i == Lowest(run.todo)
           r == recs[i]
           rest == Present(r) \ {Primary}
           S == {Primary} \cup (Read \ rest)
           d == TRUE
           e == FALSE
           s == Dropped(r, S, d)
           p == [run EXCEPT !.i = i, !.todo = @ \ {i}, !.behind = FALSE]
           l == {n \in rest : ~Differs(r, n)}
<1>1. /\ i \in run.todo /\ i \in DOMAIN recs /\ RecordOK(r, on) /\ run' = Taken(i) /\ RunOK
  BY TakeLeaves DEF TypeInv, RunInv
<1>2. run' = ToDelete(p, r)
  BY <1>1 DEF Taken
<1> HIDE DEF i, e
<1>3. /\ IsRun(p) /\ p.i = i /\ p.todo = run.todo \ {i} /\ p.behind = e
      /\ p.snap = run.snap /\ p.at = run.at
  <2>1. IsRun(run)
    BY <1>1 DEF RunOK
  <2> DEFINE todo == run.todo \ {i}
  <2> HIDE DEF todo
  <2>2. p = [run EXCEPT !.i = i, !.todo = todo, !.behind = e]
    BY DEF todo, e
  <2> HIDE DEF p
  <2>3. IsRun(p) /\ p.i = i /\ p.todo = todo /\ p.snap = run.snap /\ p.at = run.at /\ p.behind = e
    BY <2>1, <2>2 DEF IsRun
  <2> QED
    BY <2>3 DEF todo
<1> HIDE DEF p
<1> DEFINE found == p.found \cup {<<p.i, "deleted">> : n \in {m \in rest : Differs(r, m)}}
           kept == p.kept \cup ({m \in rest : Differs(r, m)} \X {p.i})
           left == rest \ {m \in rest : Differs(r, m)}
<1>a. run' = [p EXCEPT !.rec = s, !.found = found, !.kept = kept, !.left = left, !.ph = "delete"]
  BY <1>2 DEF ToDelete, Dropped, Recopied
<1>b. left = l
  OBVIOUS
<1> HIDE DEF rest, s, r, S, d, found, kept, left, l
<1>4. /\ IsRun(run') /\ run'.i = p.i /\ run'.todo = p.todo /\ run'.ph = "delete"
      /\ run'.left = left /\ run'.snap = p.snap /\ run'.at = p.at /\ run'.behind = p.behind /\ run'.rec = s
  BY <1>3, <1>a DEF IsRun
<1>6. RecordOK(r, on)
  BY <1>1 DEF r
<1>7. s = Dropped(r, S, d) /\ d \in BOOLEAN
  BY DEF s, d
<1>8. /\ RecordOK(s, on) /\ s.deleted = d /\ s.extra = r.extra /\ s.key = r.key /\ s.text = r.text
      /\ DOMAIN s.copies = DOMAIN r.copies \ S /\ \A n \in DOMAIN s.copies : s.copies[n] = r.copies[n]
  BY <1>6, <1>7, Kept
<1>9. l \subseteq DOMAIN r.copies \ S /\ l \subseteq {n \in Present(r) \ {Primary} : ~Differs(r, n)}
  <2>1. Present(r) \subseteq DOMAIN r.copies
    BY DEF Present
  <2> QED
    BY <2>1 DEF rest, S, l
<1>c. S = {Primary} \cup (Read \ (Present(r) \ {Primary}))
  BY DEF S, rest
<1>10. DeletedRun(i, r)
  BY <1>3, <1>4, <1>b, <1>c, <1>8, <1>9 DEF DeletedRun, d, e
<1> QED
  BY <1>10 DEF i, r

LEMMA ToDeleteTyped ==
  ASSUME TypeInv, Take, WasDeleted(Lowest(run.todo))
  PROVE  RunInv'
<1> DEFINE i == Lowest(run.todo)
<1>1. /\ UNCHANGED <<kind, on, recs, hist>> /\ i \in run.todo /\ i \in DOMAIN recs /\ RunOK
      /\ run.ph = "records"
  BY TakeLeaves DEF TypeInv, RunInv
<1>2. DeletedRun(i, recs[i])
  BY ToDeleteIs
<1> HIDE DEF i
<1>3. RunOK'
  <2>1. UNCHANGED <<run.snap, run.at, on, recs>> /\ run'.todo \subseteq run.todo /\ IsRun(run') /\ run'.ph = "delete"
    BY <1>1, <1>2 DEF DeletedRun
  <2> QED
    BY <1>1, <2>1 DEF RunOK, Phase
<1>4. AtHand'
  BY <1>1, <1>2 DEF AtHand, Working, Merging, DeletedRun
<1>5. Pending' /\ HaveOK'
  <2>1. run'.ph = "delete" /\ run'.left \subseteq DOMAIN run'.rec.copies
    BY <1>2 DEF DeletedRun
  <2> QED
    BY <2>1 DEF Pending, HaveOK
<1> QED
  BY <1>3, <1>4, <1>5 DEF RunInv

LEMMA PickedIs ==
  ASSUME NEW i, IsRun(run)
  PROVE  /\ IsRun(Picked(i)) /\ Picked(i).i = i /\ Picked(i).todo = run.todo \ {i}
         /\ Picked(i).ph = run.ph /\ Picked(i).snap = run.snap /\ Picked(i).at = run.at
         /\ Picked(i).behind = FALSE
<1> DEFINE todo == run.todo \ {i}
           vanished == run.vanished \cup IF kind = "label" THEN Lost(i) ELSE {}
           complete == run.complete /\ (kind = "label" => Lost(i) = {})
<1>1. Picked(i) = [run EXCEPT !.i = i, !.todo = todo, !.behind = FALSE, !.vanished = vanished, !.complete = complete]
  BY DEF Picked
<1> HIDE DEF todo, vanished, complete
<1>2. /\ IsRun(Picked(i)) /\ Picked(i).i = i /\ Picked(i).todo = todo /\ Picked(i).ph = run.ph
      /\ Picked(i).snap = run.snap /\ Picked(i).at = run.at /\ Picked(i).behind = FALSE
  BY <1>1 DEF IsRun
<1> QED
  BY <1>2 DEF todo

Revised(r, k, x) == [r EXCEPT !.key = k, !.text = x]

LEMMA RevisedIs ==
  ASSUME NEW r, IsRecord(r), NEW k, NEW x, NEW s, s = Revised(r, k, x)
  PROVE  /\ IsRecord(s) /\ s.copies = r.copies /\ s.extra = r.extra /\ s.deleted = r.deleted
         /\ s.key = k /\ s.text = x
BY DEF IsRecord, Revised

AtEdit(p, m, w, l, c, b) == [p EXCEPT !.rec = m, !.want = w, !.left = l, !.ph = "edit", !.found = c, !.behind = b]

LEMMA AtEditIs ==
  ASSUME NEW p, IsRun(p), NEW m, NEW w, NEW l, NEW c, NEW b, NEW q, q = AtEdit(p, m, w, l, c, b)
  PROVE  /\ IsRun(q) /\ q.i = p.i /\ q.todo = p.todo /\ q.ph = "edit" /\ q.snap = p.snap /\ q.at = p.at
         /\ q.left = l /\ q.want = w /\ q.rec = m /\ q.behind = b
BY DEF IsRun, AtEdit

\* The record at hand, merged: the base takes what is wanted without a conflict.
MergedRun(p, r, q) ==
    /\ IsRun(q) /\ q.i = p.i /\ q.todo = p.todo /\ q.ph = "edit" /\ q.snap = p.snap /\ q.at = p.at
    /\ q.left = EditsFor(r)
    /\ q.want = [key |-> Wanted(r, "key"), text |-> Wanted(r, "text")]
    /\ IsRecord(q.rec) /\ q.rec.copies = r.copies /\ q.rec.extra = r.extra /\ q.rec.deleted = r.deleted
    /\ q.rec.key = IF Contested(r, "key") THEN r.key ELSE Wanted(r, "key")
    /\ q.rec.text = IF "text" \notin Merged \/ Contested(r, "text") THEN r.text ELSE Wanted(r, "text")
    /\ q.behind = /\ DOMAIN r.copies \ Read # {}
                  /\ \E f \in Merged : ~Contested(r, f) /\ Wanted(r, f) # r[f]

LEMMA MergedIs ==
  ASSUME NEW p, IsRun(p), NEW r, IsRecord(r), NEW q, q = MergedInto(p, r)
  PROVE  MergedRun(p, r, q)
<1> DEFINE k == IF Contested(r, "key") THEN r.key ELSE Wanted(r, "key")
           x == IF "text" \notin Merged \/ Contested(r, "text") THEN r.text ELSE Wanted(r, "text")
           w == [key |-> Wanted(r, "key"), text |-> Wanted(r, "text")]
           c == p.found \cup {<<p.i, f>> : f \in {g \in Merged : Contested(r, g)}}
           b == /\ DOMAIN r.copies \ Read # {}
                /\ \E f \in Merged : ~Contested(r, f) /\ Wanted(r, f) # r[f]
           l == EditsFor(r)
           m == Revised(r, k, x)
<1>1. q = AtEdit(p, m, w, l, c, b)
  BY DEF MergedInto, Revised, AtEdit
<1> HIDE DEF k, x, w, c, b, l
<1>2. /\ IsRecord(m) /\ m.copies = r.copies /\ m.extra = r.extra /\ m.deleted = r.deleted
      /\ m.key = k /\ m.text = x
  BY RevisedIs
<1> HIDE DEF m
<1>3. /\ IsRun(q) /\ q.i = p.i /\ q.todo = p.todo /\ q.ph = "edit" /\ q.snap = p.snap /\ q.at = p.at
      /\ q.left = l /\ q.want = w /\ q.rec = m /\ q.behind = b
  BY <1>1, AtEditIs
<1> QED
  BY <1>2, <1>3 DEF k, x, w, b, l, MergedRun

\* The record of a thing that is not to be deleted.
Taking(i) == Dropped(recs[i], Lost(i), recs[i].deleted)

LEMMA TakingIs ==
  ASSUME TypeInv, NEW i \in DOMAIN recs, ~WasDeleted(i)
  PROVE  /\ RecordOK(Taking(i), on) /\ ~Taking(i).deleted /\ Taking(i).extra = recs[i].extra
         /\ Taking(i).key = recs[i].key /\ Taking(i).text = recs[i].text
         /\ DOMAIN Taking(i).copies = DOMAIN recs[i].copies \ Lost(i)
         /\ \A n \in DOMAIN Taking(i).copies : Taking(i).copies[n] = recs[i].copies[n]
         /\ i \in hist.onPrimary => Primary \in DOMAIN Taking(i).copies
         /\ Taking(i) = [recs[i] EXCEPT !.copies = Without(@, Lost(i))]
<1>1. RecordOK(recs[i], on) /\ ~recs[i].deleted /\ Primary \notin Lost(i)
  BY DEF TypeInv, RecordsOK, WasDeleted
<1>2. recs[i].deleted \in BOOLEAN
  BY <1>1 DEF RecordOK
<1> DEFINE d == recs[i].deleted
           S == Lost(i)
           r == recs[i]
           s == Taking(i)
<1>3. s = Dropped(r, S, d)
  BY DEF Taking
<1>4. Taking(i) = [recs[i] EXCEPT !.copies = Without(@, Lost(i))]
  BY <1>1 DEF Taking, Dropped, Recopied, RecordOK, IsRecord
<1> HIDE DEF d, S, s, r
<1>5. /\ RecordOK(s, on) /\ s.deleted = d /\ s.key = r.key /\ s.text = r.text /\ s.extra = r.extra
      /\ DOMAIN s.copies = DOMAIN r.copies \ S /\ \A n \in DOMAIN s.copies : s.copies[n] = r.copies[n]
  <2>1. RecordOK(r, on) /\ d \in BOOLEAN
    BY <1>1, <1>2 DEF r, d
  <2> QED
    BY <1>3, <2>1, Kept
<1>6. i \in hist.onPrimary => Primary \in DOMAIN r.copies \ S
  BY <1>1 DEF TypeInv, Origins, r, S
<1> QED
  BY <1>1, <1>4, <1>5, <1>6 DEF d, r, s, S

LEMMA TakenIs ==
  ASSUME TypeInv, Take, ~WasDeleted(Lowest(run.todo))
  PROVE  LET i == Lowest(run.todo)
         IN  \/ run' = Picked(i)
             \/ run' = MergedInto(Picked(i), Taking(i))
<1> DEFINE i == Lowest(run.todo)
<1>1. i \in DOMAIN recs /\ run' = Taken(i)
  BY TakeLeaves
<1> HIDE DEF i
<1>2. CASE Present(recs[i]) = {}
  BY <1>1, <1>2 DEF Taken, i
<1>3. CASE Present(recs[i]) # {}
  <2>1. ~WasDeleted(i)
    BY DEF i
  <2>2. Taking(i) = [recs[i] EXCEPT !.copies = Without(@, Lost(i))]
    BY <1>1, <2>1, TakingIs
  <2> QED
    BY <1>1, <1>3, <2>1, <2>2 DEF Taken, i
<1> QED
  BY <1>2, <1>3

LEMMA MergedTyped ==
  ASSUME TypeInv, Take, ~WasDeleted(Lowest(run.todo))
  PROVE  RunInv'
<1> DEFINE i == Lowest(run.todo)
           p == Picked(i)
           s == Taking(i)
<1>1. /\ UNCHANGED <<kind, on, recs, hist>> /\ i \in run.todo /\ i \in DOMAIN recs
      /\ run.ph = "records" /\ RunOK /\ ~WasDeleted(i)
  BY TakeLeaves DEF TypeInv, RunInv
<1>2. run' = p \/ run' = MergedInto(p, s)
  BY TakenIs
<1> HIDE DEF i
<1>3. /\ IsRun(p) /\ p.i = i /\ p.todo = run.todo \ {i} /\ p.ph = run.ph
      /\ p.snap = run.snap /\ p.at = run.at
  BY <1>1, PickedIs DEF RunOK
<1>4. /\ RecordOK(s, on) /\ ~s.deleted /\ s.extra = recs[i].extra
      /\ DOMAIN s.copies = DOMAIN recs[i].copies \ Lost(i)
      /\ \A n \in DOMAIN s.copies : s.copies[n] = recs[i].copies[n]
      /\ i \in hist.onPrimary => Primary \in DOMAIN s.copies
  BY <1>1, TakingIs
<1> HIDE DEF p, s
<1>5. CASE run' = p
  <2>1. RunOK'
    BY <1>1, <1>3, <1>5 DEF RunOK
  <2> QED
    BY <1>1, <1>3, <1>5, <2>1, NothingAtHand DEF Working, Merging
<1>6. CASE run' = MergedInto(p, s)
  <2>1. Wanted(s, "key") \in Key /\ Wanted(s, "text") \in Text
    BY <1>1, <1>4, WantedTyped DEF RecordOK
  <2>2. /\ IsRun(run') /\ run'.i = i /\ run'.todo = run.todo \ {i} /\ run'.ph = "edit"
        /\ run'.want.key = Wanted(s, "key") /\ run'.want.text = Wanted(s, "text")
        /\ run'.left = EditsFor(s) /\ run'.snap = run.snap /\ run'.at = run.at
        /\ IsRecord(run'.rec) /\ run'.rec.copies = s.copies /\ run'.rec.extra = s.extra
        /\ run'.rec.deleted = s.deleted /\ run'.rec.key \in {s.key, Wanted(s, "key")}
        /\ run'.rec.text \in {s.text, Wanted(s, "text")}
    <3>1. IsRecord(s)
      BY <1>4 DEF RecordOK
    <3>2. MergedRun(p, s, run')
      BY <1>3, <1>6, <3>1, MergedIs
    <3> QED
      BY <1>3, <3>2 DEF MergedRun
  <2>3. RecordOK(run'.rec, on)
    BY <1>4, <2>1, <2>2 DEF RecordOK
  <2>4. EditsFor(s) \subseteq Merged \X (DOMAIN s.copies)
    BY DEF EditsFor, Present
  <2>5. RunOK'
    BY <1>1, <2>2 DEF RunOK, Phase
  <2>6. AtHand'
    BY <1>1, <1>4, <2>2, <2>3 DEF AtHand, Working, Merging
  <2>7. Pending' /\ HaveOK'
    BY <1>1, <2>1, <2>2, <2>4 DEF Pending, HaveOK, Merged, Fields
  <2> QED
    BY <2>5, <2>6, <2>7 DEF RunInv
<1> QED
  BY <1>2, <1>5, <1>6

LEMMA TakeTyped == ASSUME TypeInv, Take PROVE TypeInv'
<1>1. NodesTyped' /\ RecordsOK' /\ Origins'
  BY TakeLeaves
<1> QED
  BY <1>1, ToDeleteTyped, MergedTyped DEF TypeInv

-----------------------------------------------------------------------------
(* The calls of a record.                                                  *)

LEMMA PastIs ==
  ASSUME IsRun(run), NEW c
  PROVE  /\ IsRun(Past(c)) /\ Past(c).left = run.left \ {c}
         /\ Past(c).ph = run.ph /\ Past(c).at = run.at /\ Past(c).snap = run.snap /\ Past(c).i = run.i
         /\ Past(c).rec = run.rec /\ Past(c).want = run.want /\ Past(c).todo = run.todo
         /\ Past(c).have = run.have /\ Past(c).behind = run.behind
<1> DEFINE l == run.left \ {c}
<1>1. Past(c) = [run EXCEPT !.left = l]
  BY DEF Past
<1> HIDE DEF l
<1>2. /\ IsRun(Past(c)) /\ Past(c).left = l
      /\ Past(c).ph = run.ph /\ Past(c).at = run.at /\ Past(c).snap = run.snap /\ Past(c).i = run.i
      /\ Past(c).rec = run.rec /\ Past(c).want = run.want /\ Past(c).todo = run.todo
      /\ Past(c).have = run.have /\ Past(c).behind = run.behind
  BY <1>1 DEF IsRun
<1> QED
  BY <1>2 DEF l

LEMMA IncompleteIs ==
  ASSUME NEW p, IsRun(p)
  PROVE  /\ IsRun(Incomplete(p)) /\ Incomplete(p).left = p.left
         /\ Incomplete(p).ph = p.ph /\ Incomplete(p).at = p.at /\ Incomplete(p).snap = p.snap
         /\ Incomplete(p).i = p.i /\ Incomplete(p).rec = p.rec /\ Incomplete(p).want = p.want
         /\ Incomplete(p).todo = p.todo /\ Incomplete(p).have = p.have /\ Incomplete(p).behind = p.behind
<1> DEFINE c == FALSE
           q == Incomplete(p)
<1>1. q = [p EXCEPT !.complete = c]
  BY DEF Incomplete
<1> HIDE DEF c, q
<1>2. /\ IsRun(q) /\ q.left = p.left /\ q.ph = p.ph /\ q.at = p.at /\ q.snap = p.snap /\ q.i = p.i
      /\ q.rec = p.rec /\ q.want = p.want /\ q.todo = p.todo /\ q.have = p.have /\ q.behind = p.behind
  BY <1>1 DEF IsRun
<1> QED
  BY <1>2 DEF q

\* Nothing of the run changes but that a call is no longer to be made.
OneCallLess(c) ==
    /\ IsRun(run') /\ run'.left = run.left \ {c}
    /\ UNCHANGED <<run.ph, run.at, run.snap, run.i, run.rec, run.want, run.todo>>

LEMMA OneCall ==
  ASSUME TypeInv, NEW c, run' = Past(c) \/ run' = Incomplete(Past(c))
  PROVE  OneCallLess(c) /\ UNCHANGED <<run.have, run.behind>>
<1>1. IsRun(run)
  BY DEF TypeInv, RunInv, RunOK
<1> QED
  BY <1>1, PastIs, IncompleteIs DEF OneCallLess

\* What the nodes have stays well formed.
LEMMA NodesKept ==
  ASSUME TypeInv, Grows, UNCHANGED <<kind, worn, people>>, faults' \in 0 .. MaxFaults, IsHist(hist')
  PROVE  NodesTyped'
BY DEF TypeInv, NodesTyped, Grows, people

LEMMA SameFaults == TypeInv /\ (UNCHANGED faults \/ (faults > 0 /\ faults' = faults - 1)) => faults' \in 0 .. MaxFaults
BY FaultSpent DEF TypeInv, NodesTyped

LEMMA NextNodeIn ==
  ASSUME TypeInv, run.ph \in {"make", "close", "delete"}, run.left # {}
  PROVE  NextNode \in run.left /\ NextNode \in Node
<1>1. run.left \in SUBSET Node
  BY DEF TypeInv, RunInv, Pending, AtHand, Working, Merging, RecordOK, RunOK
<1> QED
  BY <1>1, FirstOfIn DEF NextNode

LEMMA SameNodes == TypeInv /\ UNCHANGED on => Grows
BY DEF TypeInv, NodesTyped, Grows

\* What a write tells of who has had what.
Heard(n, S) == [hist EXCEPT !.been[n] = @ \cup S]

\* Nothing but who has had what changes in the history.
OnlyBeen ==
    /\ IsHist(hist')
    /\ UNCHANGED <<hist.next, hist.onPrimary, hist.owed, hist.twins, hist.mixed, hist.unmarked, hist.remade>>
    /\ \A m \in Node : hist.been[m] \subseteq hist'.been[m]

LEMMA HeardIs ==
  ASSUME TypeInv, NEW n \in Node, NEW S, hist' = Heard(n, S)
  PROVE  OnlyBeen /\ S \subseteq hist'.been[n]
<1> DEFINE b == [hist.been EXCEPT ![n] = @ \cup S]
<1>1. IsHist(hist)
  BY DEF TypeInv, NodesTyped
<1>2. b = [m \in Node |-> b[m]] /\ \A m \in Node : hist.been[m] \subseteq b[m]
  BY <1>1 DEF IsHist
<1>3. S \subseteq b[n]
  BY <1>1 DEF IsHist
<1>4. hist' = [hist EXCEPT !.been = b]
  BY DEF Heard
<1> HIDE DEF b
<1> QED
  BY <1>1, <1>2, <1>3, <1>4 DEF IsHist, OnlyBeen

LEMMA SameHist == TypeInv /\ UNCHANGED hist => OnlyBeen
BY DEF OnlyBeen, TypeInv, NodesTyped

\* The field f of the copy on n is written, and nothing else.
Wrote(n, f, v) ==
    /\ n \in DOMAIN run.rec.copies /\ n \in Node /\ Alive(n)
    /\ on' = Written(on, n, run.rec.copies[n], f, v)

\* The call c is made or has failed.
Called(c) ==
    /\ OneCallLess(c) /\ UNCHANGED <<kind, recs, worn, people>>
    /\ UNCHANGED faults \/ (faults > 0 /\ faults' = faults - 1)

LEMMA EditCopyIs ==
  ASSUME TypeInv, EditCopy
  PROVE  \E f \in Merged, n \in DOMAIN run.rec.copies :
           /\ run.ph = "edit" /\ <<f, n>> \in run.left /\ Called(<<f, n>>)
           /\ \/ UNCHANGED <<on, hist>> /\ run'.behind
              \/ /\ Wrote(n, f, run.want[f]) /\ hist' = Heard(n, {<<f, run.want[f]>>})
                 /\ UNCHANGED run.behind
<1>1. /\ run.ph = "edit" /\ UNCHANGED <<kind, recs, worn, people>>
      /\ \E c \in run.left : EditOne(c[1], c[2])
  BY DEF EditCopy, Own
<1>2. run.left \subseteq Merged \X (DOMAIN run.rec.copies)
  BY <1>1 DEF TypeInv, RunInv, Pending
<1>3. PICK f \in Merged, n \in DOMAIN run.rec.copies : <<f, n>> \in run.left /\ EditOne(f, n) /\ n \in Node
  BY <1>1, <1>2 DEF TypeInv, RunInv, AtHand, Working, Merging, RecordOK
<1> DEFINE e == <<f, n>>
<1>6. UNCHANGED faults \/ (faults > 0 /\ faults' = faults - 1)
  BY <1>3 DEF EditOne
<1>4. CASE /\ UNCHANGED <<on, hist>>
           /\ run' = Incomplete([Past(e) EXCEPT !.behind = TRUE])
  <2> DEFINE p == Past(e)
             t == TRUE
             q == [p EXCEPT !.behind = t]
  <2>1. IsRun(p) /\ p.left = run.left \ {e} /\ p.ph = run.ph /\ p.at = run.at /\ p.snap = run.snap
        /\ p.i = run.i /\ p.rec = run.rec /\ p.want = run.want /\ p.todo = run.todo
    BY PastIs DEF TypeInv, RunInv, RunOK
  <2>2. run' = Incomplete(q)
    BY <1>4
  <2> HIDE DEF p, t
  <2>3. /\ IsRun(q) /\ q.left = p.left /\ q.ph = p.ph /\ q.at = p.at /\ q.snap = p.snap /\ q.behind = t
        /\ q.i = p.i /\ q.rec = p.rec /\ q.want = p.want /\ q.todo = p.todo
    BY <2>1 DEF IsRun
  <2> HIDE DEF q
  <2>4. OneCallLess(e) /\ run'.behind
    BY <2>1, <2>2, <2>3, IncompleteIs DEF OneCallLess, t
  <2> QED
    BY <1>1, <1>3, <1>4, <1>6, <2>4 DEF Called
<1>5. CASE /\ Alive(n) /\ on' = Written(on, n, run.rec.copies[n], f, run.want[f])
           /\ hist' = Heard(n, {<<f, run.want[f]>>}) /\ run' = Past(e)
  <2>1. OneCallLess(e) /\ UNCHANGED run.behind
    BY <1>5, OneCall
  <2> QED
    BY <1>1, <1>3, <1>5, <1>6, <2>1 DEF Called, Wrote
<1> QED
  BY <1>3, <1>4, <1>5 DEF EditOne, Written, Heard

LEMMA ClosePullIs ==
  ASSUME TypeInv, ClosePull
  PROVE  \E n \in DOMAIN run.rec.copies :
           /\ run.ph = "close" /\ kind = "pull" /\ Called(n) /\ UNCHANGED run.behind
           /\ \/ UNCHANGED <<on, hist>>
              \/ Wrote(n, "text", Closed) /\ hist' = Heard(n, {<<"text", Closed>>})
<1> DEFINE n == NextNode
<1>1. /\ run.ph = "close" /\ run.left # {} /\ UNCHANGED <<kind, recs, worn, people>>
      /\ UNCHANGED faults \/ (faults > 0 /\ faults' = faults - 1)
      /\ run' = Past(n) \/ run' = Incomplete(Past(n))
      /\ \/ UNCHANGED <<on, hist>>
         \/ /\ Alive(n) /\ on' = Written(on, n, run.rec.copies[n], "text", Closed)
            /\ hist' = Heard(n, {<<"text", Closed>>})
  BY DEF ClosePull, Own, Written, Heard
<1>2. n \in DOMAIN run.rec.copies /\ n \in Node /\ kind = "pull"
  BY <1>1, NextNodeIn DEF TypeInv, RunInv, Pending
<1>3. OneCallLess(n) /\ UNCHANGED run.behind
  BY <1>1, OneCall
<1> QED
  BY <1>1, <1>2, <1>3 DEF Called, Wrote

\* A call made leaves all well formed.
LEMMA CalledTyped ==
  ASSUME TypeInv, NEW c, Called(c), Grows, OnlyBeen, HaveOK'
  PROVE  TypeInv'
<1>1. NodesTyped'
  BY NodesKept, SameFaults DEF Called, OnlyBeen
<1> QED
  BY <1>1, CallMade DEF TypeInv, Called, OneCallLess, OnlyBeen

LEMMA WroteGrows ==
  ASSUME TypeInv, run.ph \in Merging, NEW n, NEW f, NEW v, Wrote(n, f, v),
         \/ f = "key" /\ v \in Key
         \/ f = "text" /\ v \in Text
         \/ f = "extra" /\ v \subseteq Extra
  PROVE  /\ Grows /\ \A m \in Node : Len(on'[m]) = Len(on[m])
         /\ \A m \in Node : \A k \in DOMAIN on[m] :
              on'[m][k] = IF m = n /\ k = run.rec.copies[n] THEN With(on[m][k], f, v) ELSE on[m][k]
<1>1. on \in Lists /\ n \in Node /\ run.rec.copies[n] \in DOMAIN on[n] /\ There(on[n], run.rec.copies[n])
  BY DEF Wrote, TypeInv, NodesTyped, RunInv, AtHand, Working, RecordOK, Alive
<1> DEFINE i == run.rec.copies[n]
<1> HIDE DEF i
<1>2. /\ i \in DOMAIN on[n] /\ There(on[n], i) /\ on' = Written(on, n, i, f, v)
      /\ \/ f = "key" /\ v \in Key
         \/ f = "text" /\ v \in Text
         \/ f = "extra" /\ v \subseteq Extra
  BY <1>1 DEF i, Wrote
<1>3. /\ on' \in Lists
      /\ \A m \in Node : Len(on'[m]) = Len(on[m]) /\ DOMAIN on'[m] = DOMAIN on[m]
      /\ \A m \in Node : \A k \in DOMAIN on[m] :
           on'[m][k] = IF m = n /\ k = i THEN With(on[m][k], f, v) ELSE on[m][k]
  BY <1>1, <1>2, FieldPut
<1> QED
  BY <1>3 DEF Grows, i

LEMMA EditCopyTyped ==
  ASSUME TypeInv, EditCopy
  PROVE  TypeInv'
<1>1. PICK f \in Merged, n \in DOMAIN run.rec.copies :
           /\ run.ph = "edit" /\ <<f, n>> \in run.left /\ Called(<<f, n>>)
           /\ \/ UNCHANGED <<on, hist>> /\ run'.behind
              \/ /\ Wrote(n, f, run.want[f]) /\ hist' = Heard(n, {<<f, run.want[f]>>})
                 /\ UNCHANGED run.behind
  BY EditCopyIs
<1>2. (f = "key" /\ run.want[f] \in Key) \/ (f = "text" /\ run.want[f] \in Text)
  BY <1>1 DEF Merged, Fields, TypeInv, RunInv, Pending
<1>3. Grows
  BY <1>1, <1>2, WroteGrows, SameNodes DEF Merging
<1>4. OnlyBeen
  BY <1>1, HeardIs, SameHist DEF Wrote
<1>5. HaveOK'
  <2>1. run'.ph = "edit"
    BY <1>1 DEF Called, OneCallLess
  <2> QED
    BY <2>1 DEF HaveOK
<1> QED
  BY <1>1, <1>3, <1>4, <1>5, CalledTyped

LEMMA ClosePullTyped ==
  ASSUME TypeInv, ClosePull
  PROVE  TypeInv'
<1>1. PICK n \in DOMAIN run.rec.copies :
           /\ run.ph = "close" /\ kind = "pull" /\ Called(n) /\ UNCHANGED run.behind
           /\ \/ UNCHANGED <<on, hist>>
              \/ Wrote(n, "text", Closed) /\ hist' = Heard(n, {<<"text", Closed>>})
  BY ClosePullIs
<1>2. Grows
  BY <1>1, WroteGrows, SameNodes, IssuesAssumption DEF Merging
<1>3. OnlyBeen
  BY <1>1, HeardIs, SameHist DEF Wrote
<1>4. HaveOK'
  <2>1. run'.ph = "close"
    BY <1>1 DEF Called, OneCallLess
  <2> QED
    BY <2>1 DEF HaveOK
<1> QED
  BY <1>1, <1>2, <1>3, <1>4, CalledTyped

\* Something is put on the copy c[2] or taken off it, or is not.
MarkCall(c) ==
    /\ run.ph = "mark" /\ Called(c) /\ UNCHANGED <<hist, run.behind>>
    /\ c[2] \in DOMAIN run.rec.copies /\ c[2] \in Node /\ c[3] \in Extra
    /\ \/ UNCHANGED <<on, run.have>>
       \/ /\ run'.have = [run.have EXCEPT ![c[2]] = Marked(c, @)]
          /\ \/ UNCHANGED on /\ ~Alive(c[2])
             \/ Wrote(c[2], "extra", Marked(c, Now(c[2]).extra))

LEMMA MarkCopyIs ==
  ASSUME TypeInv, MarkCopy
  PROVE  \E c \in run.left : MarkCall(c)
<1>1. run.ph = "mark" /\ UNCHANGED <<kind, recs, worn, people, hist>>
  BY DEF MarkCopy, Own
<1>2. PICK c \in run.left : MarkOne(c)
  BY DEF MarkCopy
<1> DEFINE v == Marked(c, Now(c[2]).extra)
<1>3. /\ UNCHANGED faults \/ (faults > 0 /\ faults' = faults - 1)
      /\ \/ run' = Incomplete(Past(c)) /\ UNCHANGED on
         \/ /\ run' = [Past(c) EXCEPT !.have[c[2]] = Marked(c, @)]
            /\ \/ UNCHANGED on /\ ~Alive(c[2])
               \/ Alive(c[2]) /\ on' = Written(on, c[2], run.rec.copies[c[2]], "extra", v)
  <2>1. \/ run' = Incomplete(Past(c)) /\ UNCHANGED on
        \/ /\ run' = [Past(c) EXCEPT !.have[c[2]] = Marked(c, @)]
           /\ \/ UNCHANGED on /\ ~Alive(c[2])
              \/ Alive(c[2]) /\ on' = [on EXCEPT ![c[2]][run.rec.copies[c[2]]].extra = Marked(c, @)]
    BY <1>2 DEF MarkOne
  <2>2. [on EXCEPT ![c[2]][run.rec.copies[c[2]]].extra = Marked(c, @)]
          = Written(on, c[2], run.rec.copies[c[2]], "extra", v)
    <3> DEFINE n == c[2]
               i == run.rec.copies[c[2]]
               e == Marked(c, on[n][i].extra)
    <3>1. [on EXCEPT ![c[2]][run.rec.copies[c[2]]].extra = Marked(c, @)] = [on EXCEPT ![n][i].extra = e]
      BY Zenon
    <3>2. v = e
      BY DEF Now
    <3> HIDE DEF n, i, e, v
    <3>3. [on EXCEPT ![n][i].extra = e] = Written(on, n, i, "extra", e)
      BY DEF Written
    <3>4. Written(on, n, i, "extra", e) = Written(on, c[2], run.rec.copies[c[2]], "extra", v)
      BY <3>2 DEF n, i
    <3> QED
      BY <3>1, <3>3, <3>4, Zenon
  <2>3. UNCHANGED faults \/ (faults > 0 /\ faults' = faults - 1)
    BY <1>2 DEF MarkOne
  <2> HIDE DEF v
  <2> QED
    BY <2>1, <2>2, <2>3, Zenon
<1>4. c[2] \in DOMAIN run.rec.copies /\ c[2] \in Node /\ c[3] \in Extra
  BY <1>1 DEF TypeInv, RunInv, Pending, AtHand, Working, Merging, RecordOK
<1>5. CASE run' = Incomplete(Past(c)) /\ UNCHANGED on
  <2>1. OneCallLess(c) /\ UNCHANGED <<run.have, run.behind>>
    BY <1>5, OneCall
  <2> QED
    BY <1>1, <1>3, <1>4, <1>5, <2>1 DEF MarkCall, Called
<1>6. CASE /\ run' = [Past(c) EXCEPT !.have[c[2]] = Marked(c, @)]
           /\ \/ UNCHANGED on /\ ~Alive(c[2])
              \/ Alive(c[2]) /\ on' = Written(on, c[2], run.rec.copies[c[2]], "extra", v)
  <2> DEFINE p == Past(c)
             h == [run.have EXCEPT ![c[2]] = Marked(c, @)]
  <2>1. /\ IsRun(p) /\ p.left = run.left \ {c} /\ p.have = run.have
        /\ p.ph = run.ph /\ p.at = run.at /\ p.snap = run.snap /\ p.i = run.i
        /\ p.rec = run.rec /\ p.want = run.want /\ p.todo = run.todo /\ p.behind = run.behind
    BY PastIs DEF TypeInv, RunInv, RunOK
  <2>2. run' = [p EXCEPT !.have = h]
    BY <1>6, <2>1
  <2> HIDE DEF p, h
  <2>3. /\ IsRun(run') /\ run'.left = p.left /\ run'.have = h
        /\ run'.ph = p.ph /\ run'.at = p.at /\ run'.snap = p.snap /\ run'.i = p.i
        /\ run'.rec = p.rec /\ run'.want = p.want /\ run'.todo = p.todo /\ run'.behind = p.behind
    BY <2>1, <2>2 DEF IsRun
  <2>4. OneCallLess(c) /\ UNCHANGED run.behind
    BY <2>1, <2>3 DEF OneCallLess
  <2>5. (UNCHANGED on /\ ~Alive(c[2])) \/ Wrote(c[2], "extra", v)
    BY <1>4, <1>6 DEF Wrote
  <2> HIDE DEF v
  <2>6. MarkCall(c)
    BY <1>1, <1>3, <1>4, <2>3, <2>4, <2>5 DEF MarkCall, Called, h, v
  <2> QED
    BY <2>6
<1> QED
  BY <1>3, <1>5, <1>6

LEMMA MarkedTyped ==
  ASSUME TypeInv, NEW c, MarkCall(c), Alive(c[2])
  PROVE  Now(c[2]) \in Thing /\ Marked(c, Now(c[2]).extra) \subseteq Extra
<1>1. run.ph = "mark" /\ c[2] \in DOMAIN run.rec.copies /\ c[2] \in Node /\ c[3] \in Extra
  BY DEF MarkCall
<1>2. /\ run.rec.copies[c[2]] \in DOMAIN on[c[2]] /\ on[c[2]] \in Seq(Things)
      /\ on[c[2]][run.rec.copies[c[2]]] # Gone
  BY <1>1 DEF Alive, There, TypeInv, NodesTyped, Lists
<1>3. Now(c[2]) \in Thing
  BY <1>2 DEF Now, Things
<1> QED
  BY <1>1, <1>3 DEF Thing, Marked

LEMMA MarkCopyTyped ==
  ASSUME TypeInv, MarkCopy
  PROVE  TypeInv'
<1>1. PICK c \in run.left : MarkCall(c)
  BY MarkCopyIs
<1>2. run.ph = "mark" /\ Called(c) /\ UNCHANGED hist /\ c[3] \in Extra
  BY <1>1 DEF MarkCall
<1>3. /\ run.have = [m \in DOMAIN run.have |-> run.have[m]]
      /\ \A m \in DOMAIN run.have : run.have[m] \subseteq Extra
  BY <1>2 DEF TypeInv, RunInv, HaveOK, AtHand, Working, Merging
<1>4. HaveOK'
  <2>1. /\ run'.have = [m \in DOMAIN run'.have |-> run'.have[m]]
        /\ \A m \in DOMAIN run'.have : run'.have[m] \subseteq Extra
    BY <1>1, <1>2, <1>3 DEF MarkCall, Marked
  <2> QED
    BY <2>1 DEF HaveOK
<1> DEFINE v == Marked(c, Now(c[2]).extra)
<1>5. CASE UNCHANGED on
  BY <1>2, <1>4, <1>5, SameNodes, SameHist, CalledTyped
<1>6. CASE Wrote(c[2], "extra", v)
  <2>3. v \subseteq Extra
    BY <1>1, <1>6, MarkedTyped DEF Wrote
  <2> HIDE DEF v
  <2>4. Grows
    BY <1>2, <1>6, <2>3, WroteGrows DEF Merging
  <2> QED
    BY <1>2, <1>4, <2>4, SameHist, CalledTyped
<1> QED
  BY <1>1, <1>5, <1>6 DEF MarkCall

\* The copy on n is deleted, and no longer of the record.
Removed(n) ==
    /\ on' = Put(on, n, run.rec.copies[n], Gone) /\ worn' = [worn EXCEPT ![n] = @ \ {run.rec.copies[n]}]
    /\ IsRun(run') /\ run'.left = run.left \ {n}
    /\ UNCHANGED <<run.ph, run.at, run.snap, run.i, run.want, run.todo, run.behind>>
    /\ RecordOK(run'.rec, on) /\ run'.rec.deleted = run.rec.deleted /\ run'.rec.extra = run.rec.extra
    /\ run'.rec.key = run.rec.key /\ run'.rec.text = run.rec.text
    /\ DOMAIN run'.rec.copies = DOMAIN run.rec.copies \ {n}
    /\ \A m \in DOMAIN run'.rec.copies : run'.rec.copies[m] = run.rec.copies[m]

LEMMA DeleteCopyIs ==
  ASSUME TypeInv, DeleteCopy
  PROVE  \E n \in DOMAIN run.rec.copies :
           /\ run.ph = "delete" /\ n \in run.left /\ n \in Node
           /\ UNCHANGED <<kind, recs, people, hist>>
           /\ UNCHANGED faults \/ (faults > 0 /\ faults' = faults - 1)
           /\ \/ UNCHANGED <<on, run.behind>> /\ Called(n)
              \/ Removed(n)
<1> DEFINE n == NextNode
<1>1. /\ run.ph = "delete" /\ run.left # {} /\ UNCHANGED <<kind, recs, people, hist>>
      /\ UNCHANGED faults \/ (faults > 0 /\ faults' = faults - 1)
  BY DEF DeleteCopy, Own
<1>2. n \in DOMAIN run.rec.copies /\ n \in Node /\ n \in run.left
  BY <1>1, NextNodeIn DEF TypeInv, RunInv, Pending
<1>3. RecordOK(run.rec, on)
  BY <1>1 DEF TypeInv, RunInv, AtHand, Working
<1>4. CASE UNCHANGED <<on, worn>> /\ run' = Incomplete(Past(n))
  <2>1. OneCallLess(n) /\ UNCHANGED run.behind
    BY <1>4, OneCall
  <2> QED
    BY <1>1, <1>2, <1>4, <2>1 DEF Called
<1>5. CASE /\ on' = Put(on, n, run.rec.copies[n], Gone) /\ worn' = [worn EXCEPT ![n] = @ \ {run.rec.copies[n]}]
           /\ run' = [Past(n) EXCEPT !.rec.copies = Without(@, {n})]
  <2> DEFINE p == Past(n)
             s == [run.rec EXCEPT !.copies = Without(@, {n})]
             r == run.rec
             d == run.rec.deleted
             S == {n}
  <2>1. /\ IsRun(p) /\ p.left = run.left \ {n}
        /\ p.ph = run.ph /\ p.at = run.at /\ p.snap = run.snap /\ p.i = run.i
        /\ p.rec = run.rec /\ p.want = run.want /\ p.todo = run.todo /\ p.behind = run.behind
    BY PastIs DEF TypeInv, RunInv, RunOK
  <2>2. run' = [p EXCEPT !.rec = s]
    BY <1>5, <2>1
  <2>3. s = Dropped(r, S, d) /\ d \in BOOLEAN /\ RecordOK(r, on)
    BY <1>3 DEF Dropped, Recopied, RecordOK, IsRecord
  <2> HIDE DEF n, s, p, r, d, S
  <2>4. /\ RecordOK(s, on) /\ s.deleted = d /\ s.key = r.key /\ s.text = r.text /\ s.extra = r.extra
        /\ DOMAIN s.copies = DOMAIN r.copies \ S
        /\ \A m \in DOMAIN s.copies : s.copies[m] = r.copies[m]
    BY <2>3, Kept
  <2>5. /\ IsRun(run') /\ run'.left = p.left /\ run'.rec = s
        /\ run'.ph = p.ph /\ run'.at = p.at /\ run'.snap = p.snap /\ run'.i = p.i
        /\ run'.want = p.want /\ run'.todo = p.todo /\ run'.behind = p.behind
    BY <2>1, <2>2 DEF IsRun
  <2>6. Removed(n)
    BY <1>5, <2>1, <2>4, <2>5 DEF Removed, r, d, S
  <2> QED
    BY <1>1, <1>2, <2>6
<1> QED
  BY <1>4, <1>5 DEF DeleteCopy, Put

LEMMA DeleteCopyTyped ==
  ASSUME TypeInv, DeleteCopy
  PROVE  TypeInv'
<1>1. PICK n \in DOMAIN run.rec.copies :
           /\ run.ph = "delete" /\ n \in run.left /\ n \in Node
           /\ UNCHANGED <<kind, recs, people, hist>>
           /\ UNCHANGED faults \/ (faults > 0 /\ faults' = faults - 1)
           /\ \/ UNCHANGED <<on, run.behind>> /\ Called(n)
              \/ Removed(n)
  BY DeleteCopyIs
<1>2. RecordOK(run.rec, on) /\ run.rec.copies[n] \in DOMAIN on[n] /\ on \in Lists /\ Gone \in Things /\ run.rec.deleted
  BY <1>1 DEF TypeInv, RunInv, AtHand, Working, RecordOK, NodesTyped, Things
<1>3. CASE UNCHANGED on /\ Called(n)
  <2>1. run'.ph = "delete"
    BY <1>1, <1>3 DEF Called, OneCallLess
  <2>2. HaveOK'
    BY <2>1 DEF HaveOK
  <2> QED
    BY <1>1, <1>3, <2>2, SameNodes, SameHist, CalledTyped
<1>4. CASE Removed(n)
  <2>1. Grows /\ \A m \in Node : DOMAIN on'[m] = DOMAIN on[m]
    BY <1>1, <1>2, <1>4, Replaced DEF Grows, Removed
  <2>2. NodesTyped'
    BY <1>1, <1>4, <2>1, SameFaults DEF TypeInv, NodesTyped, Grows, people, Removed
  <2>3. RecordsOK'
    BY <1>1, <2>1, RecordStays DEF TypeInv, RecordsOK
  <2>4. Origins'
    BY <1>1 DEF TypeInv, Origins
  <2>5. RunOK'
    BY <1>1, <1>4, <2>1 DEF TypeInv, RunInv, RunOK, Removed
  <2>6. AtHand'
    <3>1. RecordOK(run'.rec, on') /\ run'.rec.deleted
      BY <1>2, <1>4, <2>1, RecordStays DEF Removed
    <3>2. /\ run.i \in DOMAIN recs /\ run.i \notin run.todo /\ run.rec.extra = recs[run.i].extra
          /\ \A m \in DOMAIN run.rec.copies : /\ m \in DOMAIN recs[run.i].copies
                                              /\ run.rec.copies[m] = recs[run.i].copies[m]
      BY <1>1 DEF TypeInv, RunInv, AtHand, Working
    <3> QED
      BY <1>1, <1>4, <3>1, <3>2 DEF AtHand, Merging, Removed
  <2>7. Pending' /\ HaveOK'
    <3>1. run.left \subseteq DOMAIN run.rec.copies
      BY <1>1 DEF TypeInv, RunInv, Pending
    <3>2. run'.ph = "delete" /\ run'.left \subseteq DOMAIN run'.rec.copies
      BY <1>1, <1>4, <3>1 DEF Removed
    <3> QED
      BY <3>2 DEF Pending, HaveOK
  <2> QED
    BY <2>2, <2>3, <2>4, <2>5, <2>6, <2>7 DEF TypeInv, RunInv
<1> QED
  BY <1>1, <1>3, <1>4

LEMMA NextPhaseIs ==
  ASSUME TypeInv, NextPhase
  PROVE  /\ IsRun(run') /\ UNCHANGED <<run.at, run.snap, run.i, run.rec, run.want, run.todo, run.behind>>
         /\ \/ run.ph = "edit" /\ run.left = {} /\ run'.ph = "make" /\ run'.left = Lacks
            \/ /\ (run.ph = "edit" /\ run.left = {}) \/ run.ph = "make"
               /\ run'.ph = "close" /\ run'.left = StillOpen /\ StillOpen # {}
            \/ /\ (run.ph = "edit" /\ run.left = {}) \/ run.ph \in {"make", "close"}
               /\ run'.ph = (IF Marks = {} THEN "save" ELSE "mark") /\ run'.left = Marks /\ run'.have = Have
            \/ run.ph \in {"mark", "delete"} /\ run'.ph = "save" /\ run'.have = run.have
BY DEF NextPhase, IsRun, TypeInv, RunInv, RunOK

LEMMA NextPhaseTyped ==
  ASSUME TypeInv, NextPhase
  PROVE  TypeInv'
<1>1. /\ UNCHANGED <<kind, on, recs, hist>> /\ NodesTyped' /\ RecordsOK' /\ Origins'
      /\ run.ph \in {"edit", "make", "close", "mark", "delete"}
  BY OnlyTheRun DEF NextPhase, TypeInv, NodesTyped
<1>2. IsRun(run) /\ RunOK /\ AtHand
  BY DEF TypeInv, RunInv, RunOK
<1>3. /\ IsRun(run') /\ UNCHANGED <<run.at, run.snap, run.i, run.rec, run.want, run.todo>>
      /\ \/ run.ph = "edit" /\ run'.ph = "make" /\ run'.left = Lacks
         \/ run.ph \in {"edit", "make"} /\ run'.ph = "close" /\ run'.left = StillOpen /\ StillOpen # {}
         \/ /\ run.ph \in {"edit", "make", "close"} /\ run'.ph \in {"save", "mark"} /\ run'.left = Marks
            /\ run'.have = Have
         \/ run.ph \in {"mark", "delete"} /\ run'.ph = "save" /\ run'.have = run.have
  BY NextPhaseIs
<1>4. RunOK'
  BY <1>1, <1>2, <1>3 DEF RunOK, Phase
<1>5. AtHand'
  BY <1>1, <1>2, <1>3 DEF AtHand, Working, Merging
<1>6. Pending'
  <2>1. Lacks \subseteq DOMAIN run.snap \ DOMAIN run.rec.copies
    BY DEF Lacks, Read
  <2>2. StillOpen \subseteq DOMAIN run.rec.copies /\ (StillOpen # {} => kind = "pull")
    BY DEF StillOpen, Present
  <2>3. Marks \subseteq {"add", "remove"} \X (DOMAIN run.rec.copies) \X Extra
    BY DEF Marks
  <2>4. run.ph = "edit" => run.want.key \in Key /\ run.want.text \in Text
    BY DEF TypeInv, RunInv, Pending
  <2> QED
    BY <1>1, <1>3, <2>1, <2>2, <2>3, <2>4 DEF Pending
<1>7. HaveOK'
  <2>1. Have = [m \in DOMAIN Have |-> Have[m]] /\ \A m \in DOMAIN Have : Have[m] \subseteq Extra
    <3>1. ASSUME NEW m \in Read \cap DOMAIN run.rec.copies, There(run.snap[m], run.rec.copies[m])
          PROVE  Seen(run.rec, m).extra \subseteq Extra
      <4>1. m \in Present(run.rec)
        BY <3>1 DEF Present
      <4> QED
        BY <1>2, <4>1, SeenIs DEF Thing
    <3> QED
      BY <3>1 DEF Have
  <2> HIDE DEF Have
  <2>2. CASE run'.have = Have
    BY <2>1, <2>2 DEF HaveOK
  <2>3. CASE run.ph \in {"mark", "delete"} /\ run'.have = run.have
    <3>1. run.ph = "delete" => run.rec.deleted
      BY <1>2 DEF AtHand, Working
    <3>2. HaveOK
      BY DEF TypeInv, RunInv
    <3> QED
      BY <1>3, <2>3, <3>1, <3>2 DEF HaveOK
  <2> QED
    BY <1>3, <2>2, <2>3 DEF HaveOK
<1> QED
  BY <1>1, <1>4, <1>5, <1>6, <1>7 DEF TypeInv, RunInv

-----------------------------------------------------------------------------
(* A copy is made, and a record saved.                                     *)

LEMMA NewCopyTyped ==
  ASSUME TypeInv, run.ph = "make"
  PROVE  NewCopy \in Thing
<1>1. run.want.key \in Key /\ run.want.text \in Text
  BY DEF TypeInv, RunInv, Pending
<1> QED
  BY <1>1, IssuesAssumption DEF NewCopy, Thing

\* Another copy of a record, and nothing else of it.
Copied(r, n, id) == [r EXCEPT !.copies = [o \in DOMAIN @ \cup {n} |-> IF o = n THEN id ELSE @[o]]]

LEMMA CopiedIs ==
  ASSUME NEW r, IsRecord(r), NEW n, NEW id, NEW s, s = Copied(r, n, id)
  PROVE  /\ IsRecord(s) /\ s.key = r.key /\ s.text = r.text /\ s.extra = r.extra /\ s.deleted = r.deleted
         /\ DOMAIN s.copies = DOMAIN r.copies \cup {n} /\ s.copies[n] = id
         /\ \A o \in DOMAIN r.copies : o # n => s.copies[o] = r.copies[o]
<1> DEFINE c == [o \in DOMAIN r.copies \cup {n} |-> IF o = n THEN id ELSE r.copies[o]]
<1>1. /\ DOMAIN c = DOMAIN r.copies \cup {n} /\ c[n] = id
      /\ \A o \in DOMAIN r.copies : o # n => c[o] = r.copies[o]
  OBVIOUS
<1>2. s = [r EXCEPT !.copies = c]
  BY DEF Copied
<1> HIDE DEF c
<1>3. /\ IsRecord(s) /\ s.copies = c /\ s.key = r.key /\ s.text = r.text /\ s.extra = r.extra /\ s.deleted = r.deleted
  BY <1>2 DEF IsRecord
<1> QED
  BY <1>1, <1>3

\* How a copy is made and recorded, made and not recorded, or not made.
Recorded(n) ==
    /\ on' = More(on, n, NewCopy) /\ UNCHANGED faults
    /\ recs' = [recs EXCEPT ![run.i] = Copied(run.rec, n, Len(on[n]) + 1)]
    /\ run' = [Past(n) EXCEPT !.rec = Copied(run.rec, n, Len(on[n]) + 1)]
    /\ UNCHANGED <<hist.next, hist.twins, hist.unmarked>>
    /\ hist'.onPrimary = IF n = Primary THEN hist.onPrimary \cup {run.i} ELSE hist.onPrimary
    /\ hist'.owed = (hist.owed \/ run.behind)
    /\ hist'.mixed = (hist.mixed \/ \E f \in Merged : run.want[f] # run.rec[f])
    /\ hist'.remade = (hist.remade \/ run.rec.extra # {})
Unrecorded(n) ==
    /\ on' = More(on, n, NewCopy) /\ faults > 0 /\ faults' = faults - 1 /\ UNCHANGED recs
    /\ run' = Incomplete(Past(n)) \/ run' = Idle
    /\ OnlyBeen
    /\ hist'.unrecorded = (hist.unrecorded \/ n \in DOMAIN recs[run.i].copies)
NotMade(n) ==
    /\ run' = Incomplete(Past(n)) /\ UNCHANGED <<on, recs, hist>>
    /\ UNCHANGED faults \/ (faults > 0 /\ faults' = faults - 1)

\* A new copy has been where it is made.
CopyHeard(n) ==
    /\ \A m \in Node : hist.been[m] \subseteq hist'.been[m]
    /\ UNCHANGED on \/ Values(NewCopy) \subseteq hist'.been[n]

LEMMA MakeCopyIs ==
  ASSUME TypeInv, MakeCopy
  PROVE  /\ run.ph = "make" /\ UNCHANGED <<kind, worn, people>>
         /\ NextNode \in run.left /\ NextNode \in Node /\ NextNode \notin DOMAIN run.rec.copies
         /\ IsHist(hist') /\ CopyHeard(NextNode)
         /\ Recorded(NextNode) \/ Unrecorded(NextNode) \/ NotMade(NextNode)
<1>1. run.ph = "make" /\ run.left # {} /\ UNCHANGED <<kind, worn, people>>
  BY DEF MakeCopy, Own
<1>2. NextNode \in run.left /\ NextNode \in Node /\ NextNode \notin DOMAIN run.rec.copies
  BY <1>1, NextNodeIn DEF TypeInv, RunInv, Pending
<1> DEFINE n == NextNode
           been == [hist.been EXCEPT ![n] = @ \cup Values(NewCopy)]
           late == run.behind
           parted == \E f \in Merged : run.want[f] # run.rec[f]
           marked == run.rec.extra # {}
           primary == IF n = Primary THEN hist.onPrimary \cup {run.i} ELSE hist.onPrimary
           unknown == n \in DOMAIN recs[run.i].copies
<1>3. /\ been = [m \in Node |-> been[m]] /\ \A m \in Node : hist.been[m] \subseteq been[m]
      /\ Values(NewCopy) \subseteq been[n]
  BY <1>2 DEF TypeInv, NodesTyped, IsHist
<1>4. IsHist(hist)
  BY DEF TypeInv, NodesTyped
<1> HIDE DEF n, been, late, parted, marked, primary, unknown
<1>5. CASE /\ on' = More(on, n, NewCopy) /\ run' = [Past(n) EXCEPT !.rec = Copied(run.rec, n, Len(on[n]) + 1)]
           /\ recs' = [recs EXCEPT ![run.i] = Copied(run.rec, n, Len(on[n]) + 1)]
           /\ hist' = [hist EXCEPT !.been = been, !.owed = @ \/ late, !.remade = @ \/ marked,
                         !.mixed = @ \/ parted, !.onPrimary = primary]
           /\ UNCHANGED faults
  <2>1. /\ IsHist(hist') /\ UNCHANGED <<hist.next, hist.twins, hist.unmarked>>
        /\ hist'.been = been /\ hist'.onPrimary = primary
        /\ hist'.owed = (hist.owed \/ late) /\ hist'.mixed = (hist.mixed \/ parted)
        /\ hist'.remade = (hist.remade \/ marked)
    BY <1>3, <1>4, <1>5 DEF IsHist
  <2>2. Recorded(n)
    BY <1>5, <2>1 DEF Recorded, late, parted, marked, primary
  <2>3. CopyHeard(n)
    BY <1>3, <2>1 DEF CopyHeard
  <2> QED
    BY <1>1, <1>2, <2>1, <2>2, <2>3 DEF n
<1>6. CASE run' = Incomplete(Past(n)) /\ UNCHANGED <<on, recs, hist, faults>>
  <2>1. NotMade(n) /\ CopyHeard(n) /\ IsHist(hist')
    BY <1>4, <1>6 DEF NotMade, CopyHeard
  <2> QED
    BY <1>1, <1>2, <2>1 DEF n
<1>7. CASE run' = Incomplete(Past(n)) /\ UNCHANGED <<on, recs, hist>> /\ faults > 0 /\ faults' = faults - 1
  <2>1. NotMade(n) /\ CopyHeard(n) /\ IsHist(hist')
    BY <1>4, <1>7 DEF NotMade, CopyHeard
  <2> QED
    BY <1>1, <1>2, <2>1 DEF n
<1>8. CASE /\ on' = More(on, n, NewCopy) /\ run' \in {Incomplete(Past(n)), Idle}
           /\ hist' = [hist EXCEPT !.been = been, !.unrecorded = @ \/ unknown]
           /\ UNCHANGED recs /\ faults > 0 /\ faults' = faults - 1
  <2>1. /\ OnlyBeen /\ IsHist(hist') /\ hist'.been = been
        /\ hist'.unrecorded = (hist.unrecorded \/ unknown)
    BY <1>3, <1>4, <1>8 DEF IsHist, OnlyBeen
  <2>2. Unrecorded(n) /\ CopyHeard(n)
    BY <1>3, <1>8, <2>1 DEF Unrecorded, CopyHeard, unknown
  <2> QED
    BY <1>1, <1>2, <2>1, <2>2 DEF n
<1> QED
  BY <1>5, <1>6, <1>7, <1>8, Zenon DEF MakeCopy, Copied, More, n, been, late, parted, marked, primary, unknown

LEMMA CopyMade ==
  ASSUME TypeInv, run.ph = "make", NEW n \in Node, on' = More(on, n, NewCopy)
  PROVE  /\ Grows /\ NewCopy \in Thing
         /\ DOMAIN on'[n] = DOMAIN on[n] \cup {Len(on[n]) + 1} /\ Len(on[n]) + 1 \notin DOMAIN on[n]
         /\ on'[n][Len(on[n]) + 1] = NewCopy
         /\ \A m \in Node : Len(on'[m]) = IF m = n THEN Len(on[m]) + 1 ELSE Len(on[m])
         /\ \A m \in Node : \A k \in DOMAIN on[m] : on'[m][k] = on[m][k]
<1>1. NewCopy \in Thing /\ NewCopy \in Things /\ on \in Lists
  BY NewCopyTyped DEF Things, TypeInv, NodesTyped
<1> QED
  BY <1>1, Appended DEF Grows

LEMMA RecordedTyped ==
  ASSUME TypeInv, run.ph = "make", UNCHANGED <<kind, worn, people>>, IsHist(hist'),
         NEW n \in run.left, n \in Node, n \notin DOMAIN run.rec.copies, Recorded(n)
  PROVE  TypeInv'
<1> DEFINE id == Len(on[n]) + 1
           r == run.rec
           s == Copied(r, n, id)
           i == run.i
<1>1. /\ on' = More(on, n, NewCopy) /\ UNCHANGED faults /\ recs' = [recs EXCEPT ![i] = s]
      /\ run' = [Past(n) EXCEPT !.rec = s] /\ hist'.next = hist.next
      /\ hist'.onPrimary = IF n = Primary THEN hist.onPrimary \cup {i} ELSE hist.onPrimary
  BY DEF Recorded
<1>2. /\ Grows /\ DOMAIN on'[n] = DOMAIN on[n] \cup {id} /\ id \notin DOMAIN on[n]
  BY <1>1, CopyMade
<1>3. /\ i \in DOMAIN recs /\ i \notin run.todo /\ RecordOK(r, on) /\ r.extra = recs[i].extra /\ ~r.deleted
      /\ \A m \in DOMAIN r.copies : m \in DOMAIN recs[i].copies /\ r.copies[m] = recs[i].copies[m]
      /\ i \in hist.onPrimary => Primary \in DOMAIN r.copies \/ r.deleted
  BY DEF TypeInv, RunInv, AtHand, Working, Merging
<1>4. /\ IsRecord(s) /\ s.key = r.key /\ s.text = r.text /\ s.extra = r.extra /\ s.deleted = r.deleted
      /\ DOMAIN s.copies = DOMAIN r.copies \cup {n} /\ s.copies[n] = id
      /\ \A o \in DOMAIN r.copies : o # n => s.copies[o] = r.copies[o]
  <2> HIDE DEF r, id
  <2> QED
    BY <1>3, CopiedIs DEF RecordOK
<1> HIDE DEF id, s
<1>5. /\ IsRun(run') /\ run'.rec = s /\ run'.left = run.left \ {n}
      /\ UNCHANGED <<run.ph, run.at, run.snap, run.i, run.want, run.todo>>
  <2> DEFINE p == Past(n)
  <2>1. /\ IsRun(p) /\ p.left = run.left \ {n}
        /\ p.ph = run.ph /\ p.at = run.at /\ p.snap = run.snap /\ p.i = run.i
        /\ p.want = run.want /\ p.todo = run.todo
    BY PastIs DEF TypeInv, RunInv, RunOK
  <2> HIDE DEF p
  <2>2. run' = [p EXCEPT !.rec = s]
    BY <1>1 DEF p
  <2>3. /\ IsRun(run') /\ run'.rec = s /\ run'.left = p.left
        /\ run'.ph = p.ph /\ run'.at = p.at /\ run'.snap = p.snap /\ run'.i = p.i
        /\ run'.want = p.want /\ run'.todo = p.todo
    BY <2>1, <2>2 DEF IsRun
  <2> QED
    BY <2>1, <2>3
<1> HIDE DEF r, i
<1>6. RecordOK(s, on')
  BY <1>2, <1>3, <1>4 DEF RecordOK, Grows
<1>7. DOMAIN recs' = DOMAIN recs /\ \A k \in DOMAIN recs : recs'[k] = IF k = i THEN s ELSE recs[k]
  BY <1>1
<1>8. RecordsOK'
  <2>1. \A k \in DOMAIN recs : RecordOK(recs[k], on')
    BY <1>2, RecordStays DEF TypeInv, RecordsOK, Grows
  <2>2. ASSUME NEW k \in DOMAIN recs, k # i, NEW m \in DOMAIN recs[k].copies \cap DOMAIN s.copies
        PROVE  recs[k].copies[m] # s.copies[m]
    <3>1. CASE m = n
      BY <1>2, <1>4, <2>2, <3>1 DEF TypeInv, RecordsOK, RecordOK
    <3>2. CASE m # n
      BY <1>3, <1>4, <2>2, <3>2 DEF TypeInv, RecordsOK, Apart
    <3> QED
      BY <3>1, <3>2
  <2>3. Apart(recs')
    BY <1>3, <1>7, <2>2 DEF TypeInv, RecordsOK, Apart
  <2> QED
    BY <1>6, <1>7, <2>1, <2>3 DEF TypeInv, RecordsOK
<1>9. Origins'
  BY <1>1, <1>3, <1>4, <1>7 DEF TypeInv, Origins
<1>10. NodesTyped'
  BY <1>1, <1>2, NodesKept, SameFaults
<1>11. RunOK'
  BY <1>2, <1>5, <1>7 DEF TypeInv, RunInv, RunOK, Grows
<1>12. AtHand'
  BY <1>1, <1>3, <1>4, <1>5, <1>6, <1>7 DEF AtHand, Working, Merging, i
<1>13. Pending' /\ HaveOK'
  BY <1>4, <1>5 DEF TypeInv, RunInv, Pending, HaveOK, r
<1> QED
  BY <1>8, <1>9, <1>10, <1>11, <1>12, <1>13 DEF TypeInv, RunInv

LEMMA MakeCopyTyped ==
  ASSUME TypeInv, MakeCopy
  PROVE  TypeInv'
<1> DEFINE n == NextNode
<1>1. /\ run.ph = "make" /\ UNCHANGED <<kind, worn, people>>
      /\ n \in run.left /\ n \in Node /\ n \notin DOMAIN run.rec.copies /\ IsHist(hist')
      /\ Recorded(n) \/ Unrecorded(n) \/ NotMade(n)
  BY MakeCopyIs
<1> HIDE DEF n
<1>2. CASE Recorded(n)
  BY <1>1, <1>2, RecordedTyped
<1>3. CASE Unrecorded(n) \/ NotMade(n)
  <2>1. Grows
    BY <1>1, <1>3, CopyMade, SameNodes DEF Unrecorded, NotMade
  <2>2. UNCHANGED recs /\ hist'.next = hist.next /\ hist'.onPrimary = hist.onPrimary /\ faults' \in 0 .. MaxFaults
    BY <1>3, SameFaults DEF Unrecorded, NotMade, OnlyBeen
  <2>3. NodesTyped'
    BY <1>1, <2>1, <2>2, NodesKept
  <2>4. CASE run' = Incomplete(Past(n))
    <3>1. OneCallLess(n)
      BY <2>4, OneCall
    <3>2. HaveOK'
      BY <1>1, <3>1 DEF HaveOK, OneCallLess
    <3> QED
      BY <1>1, <2>1, <2>2, <2>3, <3>1, <3>2, CallMade DEF TypeInv, OneCallLess
  <2>5. CASE run' = Idle
    <3>1. RecordsOK'
      BY <2>1, <2>2, RecordStays DEF TypeInv, RecordsOK, Grows
    <3>2. Origins'
      BY <2>2 DEF TypeInv, Origins
    <3> QED
      BY <2>3, <2>5, <3>1, <3>2, BackToIdle DEF TypeInv
  <2> QED
    BY <1>3, <2>4, <2>5 DEF Unrecorded, NotMade
<1> QED
  BY <1>1, <1>2, <1>3

\* What hangs on the copies is the base, or on one of them.
LEMMA SettledTyped ==
  ASSUME TypeInv, run.ph = "save", ~run.rec.deleted
  PROVE  SettledExtra(run) \subseteq Extra
<1>1. run.rec.extra \subseteq Extra
  BY DEF TypeInv, RunInv, AtHand, Working, RecordOK
<1>2. \A n \in DOMAIN run.have : run.have[n] \subseteq Extra
  BY DEF TypeInv, RunInv, HaveOK
<1>3. Members(run.have, run.rec.extra) \subseteq Extra
  BY <1>1, <1>2 DEF Members
<1>4. Settle(run.have, run.rec.extra) \subseteq Extra
  BY <1>1, <1>3 DEF Settle
<1> QED
  BY <1>1, <1>4 DEF SettledExtra

\* The record saved for that at hand: the same copies, and all else as at hand
\* but for what hangs on them.
SavedFor(s) ==
    /\ IsRecord(s) /\ s.copies = run.rec.copies /\ s.key = run.rec.key /\ s.text = run.rec.text
    /\ s.deleted = run.rec.deleted /\ s.extra = IF run.rec.deleted THEN run.rec.extra ELSE SettledExtra(run)

LEMMA SaveIs ==
  ASSUME TypeInv, Save
  PROVE  /\ run.ph = "save" /\ UNCHANGED <<kind, on, worn, people, faults>>
         /\ \/ recs' = Without(recs, {run.i}) /\ run.rec.deleted /\ DOMAIN run.rec.copies = {}
            \/ \E s : SavedFor(s) /\ recs' = [recs EXCEPT ![run.i] = s]
         /\ IsHist(hist') /\ hist'.next = hist.next /\ hist'.onPrimary = hist.onPrimary
         /\ hist'.been = hist.been /\ hist'.twins = hist.twins /\ hist'.mixed = hist.mixed
         /\ hist'.unmarked = hist.unmarked /\ hist'.remade = hist.remade
         /\ hist'.owed = (hist.owed \/ run.behind)
         /\ IsRun(run') /\ run'.ph = "records" /\ UNCHANGED <<run.at, run.snap, run.i, run.todo>>
<1>1. run.ph = "save" /\ UNCHANGED <<kind, on, worn, people, faults>>
  BY DEF Save, Own
<1>2. IsHist(hist) /\ IsRun(run) /\ IsRecord(run.rec)
  BY <1>1 DEF TypeInv, NodesTyped, RunInv, RunOK, AtHand, Working, RecordOK
<1>3. /\ IsHist(hist') /\ hist'.next = hist.next /\ hist'.onPrimary = hist.onPrimary
      /\ hist'.been = hist.been /\ hist'.twins = hist.twins /\ hist'.mixed = hist.mixed
      /\ hist'.unmarked = hist.unmarked /\ hist'.remade = hist.remade
      /\ hist'.owed = (hist.owed \/ run.behind)
  BY <1>2 DEF Save, IsHist
<1>4. IsRun(run') /\ run'.ph = "records" /\ UNCHANGED <<run.at, run.snap, run.i, run.todo>>
  BY <1>2 DEF Save, IsRun
<1>5. CASE run.rec.deleted /\ run.rec.copies = << >> /\ recs' = Without(recs, {run.i})
  BY <1>1, <1>3, <1>4, <1>5
<1>6. CASE run.rec.deleted /\ recs' = [recs EXCEPT ![run.i] = run.rec]
  <2>1. SavedFor(run.rec)
    BY <1>2, <1>6 DEF SavedFor
  <2> QED
    BY <1>1, <1>3, <1>4, <1>6, <2>1
<1>7. CASE ~run.rec.deleted /\ recs' = [recs EXCEPT ![run.i] = [run.rec EXCEPT !.extra = SettledExtra(run)]]
  <2> DEFINE s == [run.rec EXCEPT !.extra = SettledExtra(run)]
  <2>1. SavedFor(s)
    BY <1>2, <1>7 DEF SavedFor, IsRecord
  <2> HIDE DEF s
  <2> QED
    BY <1>1, <1>3, <1>4, <1>7, <2>1 DEF s
<1> QED
  BY <1>5, <1>6, <1>7 DEF Save

LEMMA SaveTyped ==
  ASSUME TypeInv, Save
  PROVE  TypeInv'
<1> DEFINE i == run.i
<1>1. /\ run.ph = "save" /\ UNCHANGED <<kind, on, worn, people, faults>>
      /\ \/ recs' = Without(recs, {run.i}) /\ run.rec.deleted
         \/ \E s : SavedFor(s) /\ recs' = [recs EXCEPT ![run.i] = s]
      /\ IsHist(hist') /\ hist'.next = hist.next /\ hist'.onPrimary = hist.onPrimary
      /\ IsRun(run') /\ run'.ph = "records" /\ UNCHANGED <<run.at, run.snap, run.i, run.todo>>
  BY SaveIs
<1>2. NodesTyped'
  BY <1>1, SameNodes, NodesKept DEF TypeInv, NodesTyped
<1>3. /\ i \in DOMAIN recs /\ i \notin run.todo /\ RecordOK(run.rec, on)
      /\ \A m \in DOMAIN run.rec.copies : m \in DOMAIN recs[i].copies /\ run.rec.copies[m] = recs[i].copies[m]
      /\ i \in hist.onPrimary => Primary \in DOMAIN run.rec.copies \/ run.rec.deleted
  BY <1>1 DEF TypeInv, RunInv, AtHand, Working
<1> HIDE DEF i
<1>4. RecordsOK' /\ Origins' /\ run'.todo \subseteq DOMAIN recs'
  <2>1. CASE recs' = Without(recs, {i})
    <3>1. DOMAIN recs' = DOMAIN recs \ {i} /\ \A k \in DOMAIN recs' : recs'[k] = recs[k]
      BY <2>1 DEF Without
    <3>2. RecordsOK'
      BY <1>1, <3>1 DEF TypeInv, RecordsOK, Apart
    <3>3. Origins'
      BY <1>1, <3>1 DEF TypeInv, Origins
    <3> QED
      BY <1>1, <1>3, <3>1, <3>2, <3>3 DEF TypeInv, RunInv, RunOK
  <2>2. ASSUME NEW s, SavedFor(s), recs' = [recs EXCEPT ![i] = s]
        PROVE  RecordsOK' /\ Origins' /\ run'.todo \subseteq DOMAIN recs'
    <3>1. DOMAIN recs' = DOMAIN recs /\ \A k \in DOMAIN recs : recs'[k] = IF k = i THEN s ELSE recs[k]
      BY <2>2
    <3>2. s.extra \subseteq Extra
      BY <1>1, <1>3, <2>2, SettledTyped DEF SavedFor, RecordOK
    <3>3. RecordOK(s, on)
      BY <1>3, <2>2, <3>2 DEF SavedFor, RecordOK
    <3>4. \A m \in DOMAIN s.copies : m \in DOMAIN recs[i].copies /\ s.copies[m] = recs[i].copies[m]
      BY <1>3, <2>2 DEF SavedFor
    <3>5. Apart(recs')
      BY <1>3, <3>1, <3>4 DEF TypeInv, RecordsOK, Apart
    <3>6. RecordsOK'
      BY <1>1, <3>1, <3>3, <3>5 DEF TypeInv, RecordsOK
    <3>7. Origins'
      BY <1>1, <1>3, <2>2, <3>1 DEF TypeInv, Origins, SavedFor
    <3> QED
      BY <1>1, <3>1, <3>6, <3>7 DEF TypeInv, RunInv, RunOK
  <2> QED
    BY <1>1, <2>1, <2>2 DEF i
<1>5. RunOK'
  BY <1>1, <1>4 DEF TypeInv, RunInv, RunOK, Phase
<1> QED
  BY <1>1, <1>2, <1>4, <1>5, NothingAtHand DEF TypeInv, Working, Merging

-----------------------------------------------------------------------------
(* Types, always.                                                          *)

LEMMA TypeStep == TypeInv /\ [Next]_vars => TypeInv'
<1> SUFFICES ASSUME TypeInv, [Next]_vars PROVE TypeInv'
  OBVIOUS
<1>1. CASE People
  BY <1>1, PeopleTyped
<1>2. CASE Begin \/ ReadNode \/ ReadIssues \/ PassOver \/ AllAttached
  BY <1>2, BeginTyped, ReadNodeTyped, ReadIssuesTyped, PassOverTyped, AllAttachedTyped
<1>3. CASE \E n \in Node : Attach(n)
  BY <1>3, AttachTyped
<1>4. CASE Take \/ NextPhase \/ EditCopy \/ MakeCopy
  BY <1>4, TakeTyped, NextPhaseTyped, EditCopyTyped, MakeCopyTyped
<1>5. CASE ClosePull \/ MarkCopy \/ DeleteCopy \/ Save
  BY <1>5, ClosePullTyped, MarkCopyTyped, DeleteCopyTyped, SaveTyped
<1>6. CASE Labels \/ SetLabels \/ SaveLabels
  BY <1>6, LabelsTyped
<1>7. CASE Tell \/ CutOff
  BY <1>7, TellTyped
<1>8. CASE BranchesArrive \/ UNCHANGED vars
  BY <1>8, OutsideTyped
<1> QED
  BY <1>1, <1>2, <1>3, <1>4, <1>5, <1>6, <1>7, <1>8 DEF Next, Run

LEMMA TypeAlways == Spec => []TypeInv
<1> QED
  BY TypeInit, TypeStep, PTL DEF Spec

\* Whatever fails and wherever a run is cut off, every record names copies that
\* its nodes have had, and no copy is of two records.
THEOREM TypeCorrect == Spec => []IssuesTypeOK
<1> QED
  BY TypeAlways, TypeInvSays, PTL

\* Only making a copy makes a list of things longer.
LEMMA LengthsStay ==
  ASSUME TypeInv, EditCopy \/ ClosePull \/ MarkCopy \/ DeleteCopy, NEW m \in Node
  PROVE  Len(on'[m]) = Len(on[m])
<1>1. CASE EditCopy
  <2>1. PICK f \in Merged, n \in DOMAIN run.rec.copies :
          run.ph = "edit" /\ (UNCHANGED on \/ Wrote(n, f, run.want[f]))
    BY <1>1, EditCopyIs
  <2>2. (f = "key" /\ run.want[f] \in Key) \/ (f = "text" /\ run.want[f] \in Text)
    BY <2>1 DEF Merged, Fields, TypeInv, RunInv, Pending
  <2> QED
    BY <2>1, <2>2, WroteGrows DEF Merging
<1>2. CASE ClosePull
  <2>1. PICK n \in DOMAIN run.rec.copies : run.ph = "close" /\ (UNCHANGED on \/ Wrote(n, "text", Closed))
    BY <1>2, ClosePullIs
  <2> QED
    BY <2>1, WroteGrows, IssuesAssumption DEF Merging
<1>3. CASE MarkCopy
  <2>1. PICK c \in run.left : MarkCall(c)
    BY <1>3, MarkCopyIs
  <2>2. CASE UNCHANGED on
    BY <2>2
  <2>3. CASE Wrote(c[2], "extra", Marked(c, Now(c[2]).extra))
    <3>1. Marked(c, Now(c[2]).extra) \subseteq Extra
      BY <2>1, <2>3, MarkedTyped DEF Wrote
    <3> QED
      BY <2>1, <2>3, <3>1, WroteGrows DEF MarkCall, Merging
  <2> QED
    BY <2>1, <2>2, <2>3 DEF MarkCall
<1>4. CASE DeleteCopy
  <2>1. PICK n \in DOMAIN run.rec.copies : run.ph = "delete" /\ n \in Node /\ (UNCHANGED on \/ Removed(n))
    BY <1>4, DeleteCopyIs
  <2>2. run.rec.copies[n] \in DOMAIN on[n] /\ on \in Lists /\ Gone \in Things
    BY <2>1 DEF TypeInv, RunInv, AtHand, Working, RecordOK, NodesTyped, Things
  <2> QED
    BY <2>1, <2>2, Replaced DEF Removed
<1> QED
  BY <1>1, <1>2, <1>3, <1>4

\* ForgeSync makes no copy on the primary of what was ever there by its record
\* (deletedOnPrimary: "they're never copied back on their own").
LEMMA NotBack ==
  ASSUME TypeInv, Run \/ CutOff \/ BranchesArrive \/ UNCHANGED vars,
         Len(on'[Primary]) > Len(on[Primary])
  PROVE  run.i \notin hist.onPrimary
<1>1. UNCHANGED on => FALSE
  BY Ordered DEF TypeInv, NodesTyped, Lists
<1>2. CASE MakeCopy
  <2>1. /\ run.ph = "make" /\ NextNode \in Node /\ NextNode \notin DOMAIN run.rec.copies
        /\ UNCHANGED on \/ on' = More(on, NextNode, NewCopy)
    BY <1>2, MakeCopyIs DEF Recorded, Unrecorded, NotMade
  <2>2. NextNode = Primary
    BY <1>1, <2>1, CopyMade, Ordered DEF TypeInv, NodesTyped, Lists
  <2> QED
    BY <2>1, <2>2 DEF TypeInv, RunInv, AtHand, Working, Merging
<1>3. CASE EditCopy \/ ClosePull \/ MarkCopy \/ DeleteCopy
  <2>1. Len(on'[Primary]) = Len(on[Primary])
    BY <1>3, LengthsStay, Ordered
  <2> QED
    BY <2>1, Ordered DEF TypeInv, NodesTyped, Lists
<1>4. CASE \/ Begin \/ ReadNode \/ ReadIssues \/ PassOver \/ AllAttached \/ Take \/ NextPhase \/ Save
           \/ Labels \/ SetLabels \/ SaveLabels \/ Tell \/ CutOff \/ BranchesArrive \/ UNCHANGED vars
  BY <1>1, <1>4 DEF Begin, ReadNode, ReadIssues, PassOver, AllAttached, Take, NextPhase, Save,
     Labels, SetLabels, SaveLabels, Tell, CutOff, BranchesArrive, vars
<1>5. CASE \E n \in Node : Attach(n)
  <2>1. UNCHANGED on
    BY <1>5 DEF Attach
  <2> QED
    BY <1>1, <2>1
<1> QED
  BY <1>2, <1>3, <1>4, <1>5 DEF Run

\* People do what they do, and the rest is not theirs.
LEMMA WhoActs ==
  ASSUME TypeInv, [Next]_vars, Ours
  PROVE  Run \/ CutOff \/ BranchesArrive \/ UNCHANGED vars
<1>1. Person => edits' # edits
  BY IssuesAssumption DEF Person, TypeInv, NodesTyped
<1>2. People => Person
  <2>1. \A n, t : Make(n, t) => Person
    BY DEF Make
  <2>2. \A n, i, f, v : Edit(n, i, f, v) => Person
    BY DEF Edit
  <2>3. \A n, i : Delete(n, i) \/ Wear(n, i) => Person
    BY DEF Delete, Wear
  <2>4. \A n, i, e : Mark(n, i, e) => Person
    BY DEF Mark
  <2> QED
    BY <2>1, <2>2, <2>3, <2>4 DEF People
<1> QED
  BY <1>1, <1>2 DEF Next, Ours

\* ForgeSync never makes a thing again on the primary that was there by its
\* record, in whatever run and after whatever failures.
THEOREM NothingBack == Spec => NotCopiedBack
<1>1. TypeInv /\ [Next]_vars => [Ours /\ Len(on'[Primary]) > Len(on[Primary]) => run.i \notin hist.onPrimary]_vars
  BY WhoActs, NotBack
<1> QED
  BY <1>1, TypeAlways, PTL DEF Spec, NotCopiedBack

-----------------------------------------------------------------------------
(* Who has had what: nothing is written over, or deleted, but what was     *)
(* read and what the base says everybody has had.                          *)

\* Every value there is, and every value read, has been on its node.
Been ==
    /\ \A n \in Node : \A i \in DOMAIN on[n] : There(on[n], i) => Values(on[n][i]) \subseteq hist.been[n]
    /\ \A n \in Read : \A i \in DOMAIN run.snap[n] : There(run.snap[n], i) => Values(run.snap[n][i]) \subseteq hist.been[n]

\* Who is sure to have had the base: the primary, and the others as long as no
\* copy was made in the middle of a conflict.
Counts(n) == n = Primary \/ ~hist.mixed

BaseHad == ~hist.owed /\ ~hist.twins =>
    \A i \in DOMAIN recs : \A f \in Merged :
       /\ \A n \in DOMAIN recs[i].copies : Counts(n) => <<f, recs[i][f]>> \in hist.been[n]
       /\ recs[i].deleted => <<f, recs[i][f]>> \in hist.been[Primary]

\* The same of the record at hand, whose new values may still have to be written.
RecHad == ~hist.owed /\ ~hist.twins /\ run.ph \in Working /\ ~run.behind =>
    \A f \in Merged :
       /\ \A n \in DOMAIN run.rec.copies : Counts(n) =>
             <<f, run.rec[f]>> \in hist.been[n] \/ (run.ph = "edit" /\ <<f, n>> \in run.left)
       /\ run.rec.deleted => <<f, run.rec[f]>> \in hist.been[Primary]

\* What is written is the base to be, in place of the base that was read; what
\* is deleted was read as the base.
Wants ==
    /\ run.ph \in {"edit", "make"} /\ Primary \notin DOMAIN run.rec.copies =>
         \A f \in Merged : run.want[f] = run.rec[f]
    /\ run.ph = "edit" => \A f \in Merged : \A n \in DOMAIN run.rec.copies : <<f, n>> \in run.left =>
         /\ run.want[f] = run.rec[f] /\ n \in Present(run.rec)
         /\ Seen(run.rec, n)[f] = recs[run.i][f]
    /\ run.ph = "delete" =>
         /\ ~run.behind
         /\ \A n \in run.left : n \in Present(run.rec) /\ \A f \in Fields : Seen(run.rec, n)[f] = run.rec[f]

HadInv == Been /\ BaseHad /\ RecHad /\ Wants

LEMMA FieldsAre ==
  /\ Merged \subseteq Fields /\ Fields \subseteq {"key", "text"}
  /\ (kind # "pull" => Merged = Fields)
BY DEF Merged, Fields

LEMMA HadInit == Init => HadInv
<1> SUFFICES ASSUME Init PROVE HadInv
  OBVIOUS
<1>1. Read = {} /\ run.ph = "idle" /\ run = Idle
  BY IdleRun DEF Init, Read
<1>2. \A n \in Node : hist.been[n] = UNION {{<<f, on[n][i][f]>> : f \in Fields} : i \in DOMAIN on[n]}
  BY DEF Init
<1>3. Been
  BY <1>1, <1>2 DEF Been, Values
<1>4. RecHad /\ Wants
  BY <1>1 DEF RecHad, Wants, Working, Merging
<1>5. BaseHad
  <2>1. PICK t \in Thing :
          \/ recs = << >>
          \/ on = [n \in Node |-> <<t>>] /\ recs = [i \in {1} |-> Agreed(t)]
    BY DEF Init
  <2>2. CASE recs = << >>
    BY <2>2 DEF BaseHad
  <2>3. CASE on = [n \in Node |-> <<t>>] /\ recs = [i \in {1} |-> Agreed(t)]
    <3>1. \A n \in Node : DOMAIN on[n] = {1} /\ on[n][1] = t
      BY <2>3
    <3>2. \A n \in Node : \A f \in Fields : <<f, t[f]>> \in hist.been[n]
      BY <1>2, <3>1
    <3>3. \A i \in DOMAIN recs : /\ recs[i].key = t.key /\ recs[i].text = t.text
                                 /\ DOMAIN recs[i].copies = Node /\ ~recs[i].deleted
      BY <2>3 DEF Agreed
    <3>4. \A i \in DOMAIN recs : \A f \in Merged : recs[i][f] = t[f] /\ f \in Fields
      BY <3>3, FieldsAre
    <3> QED
      BY <3>2, <3>3, <3>4 DEF BaseHad
  <2> QED
    BY <2>1, <2>2, <2>3
<1> QED
  BY <1>3, <1>4, <1>5 DEF HadInv

\* The flags a run may raise, and nobody takes back.
SameFlags == UNCHANGED <<hist.owed, hist.twins, hist.mixed>>
BeenGrows == \A m \in Node : hist.been[m] \subseteq hist'.been[m]

\* Records and runs are left alone.
LEMMA HadStays ==
  ASSUME TypeInv, HadInv, UNCHANGED <<kind, recs, run>>, SameFlags, BeenGrows
  PROVE  BaseHad' /\ RecHad' /\ Wants'
<1>1. Merged' = Merged /\ Fields' = Fields
  BY DEF Merged, Fields
<1>2. \A i \in DOMAIN recs : DOMAIN recs[i].copies \subseteq Node
  BY DEF TypeInv, RecordsOK, RecordOK
<1>3. BaseHad'
  BY <1>1, <1>2, Ordered DEF HadInv, BaseHad, SameFlags, BeenGrows, Counts
<1>4. RecHad'
  <2>1. run.ph \in Working => DOMAIN run.rec.copies \subseteq Node
    BY DEF TypeInv, RunInv, AtHand, RecordOK
  <2> QED
    BY <1>1, <2>1, Ordered DEF HadInv, RecHad, SameFlags, BeenGrows, Counts
<1>5. Wants'
  BY <1>1 DEF HadInv, Wants, Seen, Present, Read
<1> QED
  BY <1>3, <1>4, <1>5

-----------------------------------------------------------------------------
(* Steps that change what is there.                                        *)

LEMMA WithIs ==
  ASSUME NEW t \in Thing, NEW f \in {"key", "text", "extra"}, NEW v
  PROVE  With(t, f, v)[f] = v /\ \A g \in {"key", "text", "extra"} : g # f => With(t, f, v)[g] = t[g]
BY DEF With, Thing

\* The values of a list of things, all heard of.
LEMMA BeenOf ==
  ASSUME Been, UNCHANGED <<kind, run.snap>>, BeenGrows, DOMAIN run.snap \subseteq Node,
         \A m \in Node : \A k \in DOMAIN on'[m] : There(on'[m], k) => \A f \in Fields : <<f, on'[m][k][f]>> \in hist'.been[m]
  PROVE  Been'
<1>1. Fields' = Fields /\ Read' = Read /\ Read \subseteq Node
  BY DEF Fields, Read
<1>2. \A n \in Read : \A i \in DOMAIN run.snap[n] : There(run.snap[n], i) => \A f \in Fields : <<f, run.snap[n][i][f]>> \in hist'.been[n]
  BY <1>1 DEF Been, Values, BeenGrows
<1> QED
  BY <1>1, <1>2 DEF Been, Values

LEMMA WrittenHeard ==
  ASSUME TypeInv, Been, NEW n \in Node, NEW i \in DOMAIN on[n], There(on[n], i), NEW f, NEW v,
         on' = Written(on, n, i, f, v),
         \/ f = "key" /\ v \in Key
         \/ f = "text" /\ v \in Text
         \/ f = "extra" /\ v \subseteq Extra,
         UNCHANGED <<kind, run.snap>>, BeenGrows, f = "extra" \/ <<f, v>> \in hist'.been[n]
  PROVE  Been'
<1>1. /\ on \in Lists /\ \A m \in Node : DOMAIN on'[m] = DOMAIN on[m]
      /\ \A m \in Node : \A k \in DOMAIN on[m] :
           on'[m][k] = IF m = n /\ k = i THEN With(on[m][k], f, v) ELSE on[m][k]
  <2>1. on \in Lists
    BY DEF TypeInv, NodesTyped
  <2> QED
    BY <2>1, FieldPut
<1>2. on[n][i] \in Thing
  BY <1>1 DEF Lists, Things, There
<1>3. DOMAIN run.snap \subseteq Node
  BY DEF TypeInv, RunInv, RunOK
<1>4. ASSUME NEW m \in Node, NEW k \in DOMAIN on[m], There(on'[m], k), NEW g \in Fields
      PROVE  <<g, on'[m][k][g]>> \in hist'.been[m]
  <2>1. There(on[m], k) => <<g, on[m][k][g]>> \in hist'.been[m]
    BY DEF Been, Values, BeenGrows
  <2>2. CASE m = n /\ k = i
    <3>1. f \in {"key", "text", "extra"} /\ g \in {"key", "text"}
      BY FieldsAre
    <3>2. on'[m][k] = With(on[n][i], f, v)
      BY <1>1, <2>2
    <3>3. CASE g = f
      BY <1>2, <2>2, <3>1, <3>2, <3>3, WithIs
    <3>4. CASE g # f
      BY <1>2, <2>1, <2>2, <3>1, <3>2, <3>4, WithIs
    <3> QED
      BY <3>3, <3>4
  <2>3. CASE ~(m = n /\ k = i)
    <3>1. on'[m][k] = on[m][k] /\ There(on[m], k)
      BY <1>1, <1>4, <2>3 DEF There
    <3> QED
      BY <2>1, <3>1
  <2> QED
    BY <2>2, <2>3
<1> QED
  BY <1>1, <1>3, <1>4, BeenOf

LEMMA AppendedHeard ==
  ASSUME TypeInv, Been, NEW n \in Node, NEW t \in Thing, on' = More(on, n, t),
         UNCHANGED <<kind, run.snap>>, BeenGrows, Values(t) \subseteq hist'.been[n]
  PROVE  Been'
<1>1. on \in Lists /\ t \in Things /\ DOMAIN run.snap \subseteq Node
  BY DEF TypeInv, NodesTyped, RunInv, RunOK, Things
<1>2. /\ \A m \in Node : Len(on'[m]) = IF m = n THEN Len(on[m]) + 1 ELSE Len(on[m])
      /\ \A m \in Node : \A k \in DOMAIN on[m] : on'[m][k] = on[m][k]
      /\ DOMAIN on'[n] = DOMAIN on[n] \cup {Len(on[n]) + 1}
      /\ on'[n][Len(on[n]) + 1] = t /\ on' \in Lists
  BY <1>1, Appended
<1>3. \A m \in Node : m # n => DOMAIN on'[m] = DOMAIN on[m]
  BY <1>1, <1>2 DEF Lists
<1>4. ASSUME NEW m \in Node, NEW k \in DOMAIN on'[m], There(on'[m], k), NEW g \in Fields
      PROVE  <<g, on'[m][k][g]>> \in hist'.been[m]
  <2>1. CASE k \in DOMAIN on[m]
    <3>1. on'[m][k] = on[m][k] /\ There(on[m], k)
      BY <1>2, <1>4, <2>1 DEF There
    <3> QED
      BY <2>1, <3>1 DEF Been, Values, BeenGrows
  <2>2. CASE k \notin DOMAIN on[m]
    <3>1. m = n /\ k = Len(on[n]) + 1 /\ on'[m][k] = t
      BY <1>2, <1>3, <1>4, <2>2
    <3> QED
      BY <3>1 DEF Values
  <2> QED
    BY <2>1, <2>2
<1> QED
  BY <1>1, <1>4, BeenOf

LEMMA GoneHeard ==
  ASSUME TypeInv, Been, NEW n \in Node, NEW i \in DOMAIN on[n], on' = Put(on, n, i, Gone),
         UNCHANGED <<kind, run.snap>>, BeenGrows
  PROVE  Been'
<1>1. on \in Lists /\ Gone \in Things /\ DOMAIN run.snap \subseteq Node
  BY DEF TypeInv, NodesTyped, RunInv, RunOK, Things
<1>2. /\ \A m \in Node : DOMAIN on'[m] = DOMAIN on[m]
      /\ \A m \in Node : \A k \in DOMAIN on[m] : on'[m][k] = IF m = n /\ k = i THEN Gone ELSE on[m][k]
  BY <1>1, Replaced
<1>3. ASSUME NEW m \in Node, NEW k \in DOMAIN on'[m], There(on'[m], k), NEW g \in Fields
      PROVE  <<g, on'[m][k][g]>> \in hist'.been[m]
  <2>1. k \in DOMAIN on[m] /\ on'[m][k] = on[m][k] /\ There(on[m], k)
    BY <1>2, <1>3 DEF There
  <2> QED
    BY <2>1 DEF Been, Values, BeenGrows
<1> QED
  BY <1>1, <1>3, BeenOf

\* The nodes are left alone.
LEMMA SameHeard ==
  ASSUME TypeInv, Been, UNCHANGED <<kind, on, run.snap>>, BeenGrows
  PROVE  Been'
<1>1. DOMAIN run.snap \subseteq Node
  BY DEF TypeInv, RunInv, RunOK
<1>2. \A m \in Node : \A k \in DOMAIN on'[m] : There(on'[m], k) => \A f \in Fields : <<f, on'[m][k][f]>> \in hist'.been[m]
  BY DEF Been, Values, BeenGrows
<1> QED
  BY <1>1, <1>2, BeenOf

LEMMA MakeHad ==
  ASSUME TypeInv, HadInv, NEW n \in Node, NEW t \in Thing, Make(n, t)
  PROVE  HadInv'
<1>1. /\ on' = More(on, n, t) /\ UNCHANGED <<kind, recs, run>>
      /\ hist' = [hist EXCEPT !.made[t[KeyField]] = @ + 1, !.been[n] = @ \cup Values(t)]
  BY DEF Make, More, Person
<1>2. SameFlags /\ BeenGrows /\ Values(t) \subseteq hist'.been[n]
  BY <1>1 DEF TypeInv, NodesTyped, IsHist, SameFlags, BeenGrows
<1>3. Been'
  BY <1>1, <1>2, AppendedHeard DEF HadInv
<1> QED
  BY <1>1, <1>2, <1>3, HadStays DEF HadInv

LEMMA EditHad ==
  ASSUME TypeInv, HadInv, NEW n \in Node, NEW i \in DOMAIN on[n], NEW f \in Fields, NEW v \in Possible(f),
         Edit(n, i, f, v)
  PROVE  HadInv'
<1>1. /\ on' = Written(on, n, i, f, v) /\ There(on[n], i) /\ UNCHANGED <<kind, recs, run>>
      /\ hist' = [hist EXCEPT !.been[n] = @ \cup {<<f, v>>}, !.renamed = @ \/ f = KeyField]
  BY DEF Edit, Written, Person
<1>2. SameFlags /\ BeenGrows /\ <<f, v>> \in hist'.been[n]
  BY <1>1 DEF TypeInv, NodesTyped, IsHist, SameFlags, BeenGrows
<1>3. (f = "key" /\ v \in Key) \/ (f = "text" /\ v \in Text)
  BY IssuesAssumption DEF Possible, Fields
<1>4. Been'
  BY <1>1, <1>2, <1>3, WrittenHeard DEF HadInv
<1> QED
  BY <1>1, <1>2, <1>4, HadStays DEF HadInv

LEMMA DeleteHad ==
  ASSUME TypeInv, HadInv, NEW n \in Node, NEW i \in DOMAIN on[n], Delete(n, i)
  PROVE  HadInv'
<1>1. on' = Put(on, n, i, Gone) /\ UNCHANGED <<kind, recs, run>>
  BY DEF Delete, Put, Person
<1>2. SameFlags /\ BeenGrows
  BY DEF Delete, TypeInv, NodesTyped, IsHist, SameFlags, BeenGrows
<1>3. Been'
  BY <1>1, <1>2, GoneHeard DEF HadInv
<1> QED
  BY <1>1, <1>2, <1>3, HadStays DEF HadInv

\* How the mark of a person is written.
LEMMA MarkIs ==
  ASSUME TypeInv, NEW n \in Node, NEW i \in DOMAIN on[n], NEW e \in Extra, Mark(n, i, e)
  PROVE  /\ There(on[n], i) /\ on[n][i] \in Thing /\ UNCHANGED <<kind, recs, run>> /\ SameFlags /\ BeenGrows
         /\ UNCHANGED hist.remade
         /\ \E E \in SUBSET Extra : /\ on' = Written(on, n, i, "extra", E)
                                    /\ (on[n][i].extra \subseteq E /\ UNCHANGED hist) \/ hist'.unmarked
<1>1. on \in Lists /\ There(on[n], i) /\ on[n][i] \in Thing /\ IsHist(hist)
  BY DEF Mark, TypeInv, NodesTyped, Lists, Things, There
<1>2. UNCHANGED <<kind, recs, run>>
  BY DEF Mark, Person
<1>3. CASE e \in on[n][i].extra
  <2>1. on' = Written(on, n, i, "extra", on[n][i].extra \ {e}) /\ hist' = [hist EXCEPT !.unmarked = TRUE]
    BY <1>3 DEF Mark, Written
  <2>2. on[n][i].extra \ {e} \in SUBSET Extra
    BY <1>1 DEF Thing
  <2>3. SameFlags /\ BeenGrows /\ UNCHANGED hist.remade /\ hist'.unmarked
    BY <1>1, <2>1 DEF IsHist, SameFlags, BeenGrows
  <2> QED
    BY <1>1, <1>2, <2>1, <2>2, <2>3
<1>4. CASE e \notin on[n][i].extra
  <2>1. on' = Written(on, n, i, "extra", on[n][i].extra \cup {e}) /\ UNCHANGED hist
    BY <1>4 DEF Mark, Written
  <2>2. on[n][i].extra \cup {e} \in SUBSET Extra
    BY <1>1 DEF Thing
  <2> QED
    BY <1>1, <1>2, <2>1, <2>2 DEF SameFlags, BeenGrows
<1> QED
  BY <1>3, <1>4

LEMMA MarkHad ==
  ASSUME TypeInv, HadInv, NEW n \in Node, NEW i \in DOMAIN on[n], NEW e \in Extra, Mark(n, i, e)
  PROVE  HadInv'
<1>1. /\ There(on[n], i) /\ UNCHANGED <<kind, recs, run>> /\ SameFlags /\ BeenGrows
      /\ \E E \in SUBSET Extra : on' = Written(on, n, i, "extra", E)
  BY MarkIs
<1>2. Been'
  BY <1>1, WrittenHeard DEF HadInv
<1> QED
  BY <1>1, <1>2, HadStays DEF HadInv

LEMMA WearHad ==
  ASSUME TypeInv, HadInv, NEW n \in Node, NEW i \in DOMAIN on[n], Wear(n, i)
  PROVE  HadInv'
<1>1. UNCHANGED <<kind, on, recs, run>>
  BY DEF Wear, Person
<1>2. SameFlags /\ BeenGrows
  BY DEF Wear, TypeInv, NodesTyped, IsHist, SameFlags, BeenGrows
<1> QED
  BY <1>1, <1>2, SameHeard, HadStays DEF HadInv

LEMMA PeopleHad == TypeInv /\ HadInv /\ People => HadInv'
BY MakeHad, EditHad, DeleteHad, MarkHad, WearHad DEF People

-----------------------------------------------------------------------------
(* Steps of a run.                                                         *)

LEMMA BaseStays ==
  ASSUME TypeInv, BaseHad, UNCHANGED <<kind, recs>>, SameFlags, BeenGrows
  PROVE  BaseHad'
<1>1. Merged' = Merged
  BY DEF Merged, Fields
<1>2. \A i \in DOMAIN recs : DOMAIN recs[i].copies \subseteq Node
  BY DEF TypeInv, RecordsOK, RecordOK
<1> QED
  BY <1>1, <1>2, Ordered DEF BaseHad, SameFlags, BeenGrows, Counts

\* No record is at hand afterwards.
LEMMA NoneAtHand == run'.ph \notin Working => RecHad' /\ Wants'
BY DEF RecHad, Wants, Working, Merging

LEMMA HadAside ==
  ASSUME TypeInv, HadInv, UNCHANGED <<kind, on, recs, hist>>, run'.ph \notin Working,
         UNCHANGED run.snap \/ DOMAIN run'.snap = {}
  PROVE  HadInv'
<1>1. SameFlags /\ BeenGrows
  BY DEF SameFlags, BeenGrows
<1>2. Been'
  <2>1. CASE UNCHANGED run.snap
    BY <1>1, <2>1, SameHeard DEF HadInv
  <2>2. CASE DOMAIN run'.snap = {}
    BY <2>2 DEF HadInv, Been, Values, Fields, Read
  <2> QED
    BY <2>1, <2>2
<1> QED
  BY <1>1, <1>2, BaseStays, NoneAtHand DEF HadInv

LEMMA BeginHad ==
  ASSUME TypeInv, HadInv, Begin \/ ReadIssues \/ PassOver \/ AllAttached
  PROVE  HadInv'
<1>1. UNCHANGED <<kind, on, recs, hist>> /\ IsRun(run)
  BY DEF Begin, ReadIssues, PassOver, AllAttached, TypeInv, RunInv, RunOK
<1>2. run'.ph \in {"idle", "read", "attach", "records"} /\ (UNCHANGED run.snap \/ DOMAIN run'.snap = {})
  <2>1. CASE Begin
    BY <2>1, IdleRun DEF Begin, IsRun
  <2>2. CASE ReadIssues
    BY <1>1, <2>2 DEF ReadIssues, IsRun
  <2>3. CASE PassOver /\ N = Primary
    BY <2>3, IdleRun DEF PassOver
  <2>4. CASE PassOver /\ N # Primary
    BY <1>1, <2>4 DEF PassOver, IsRun
  <2>5. CASE AllAttached
    BY <1>1, <2>5 DEF AllAttached, IsRun
  <2> QED
    BY <2>1, <2>2, <2>3, <2>4, <2>5
<1> QED
  BY <1>1, <1>2, HadAside DEF Working, Merging

LEMMA ReadNodeHad ==
  ASSUME TypeInv, HadInv, ReadNode
  PROVE  HadInv'
<1>1. UNCHANGED <<kind, on, recs, hist>> /\ N \in Node /\ IsRun(run)
  BY Ordered DEF ReadNode, TypeInv, RunInv, RunOK, N
<1>2. /\ run'.ph \in {"readIssues", "attach", "read"}
      /\ DOMAIN run'.snap = DOMAIN run.snap \cup {N}
      /\ \A n \in DOMAIN run'.snap : run'.snap[n] = IF n = N THEN on[n] ELSE run.snap[n]
  BY <1>1 DEF ReadNode, IsRun
<1>3. Been'
  <2>1. Fields' = Fields /\ Read' = Read \cup {N}
    BY <1>1, <1>2 DEF Fields, Read
  <2>2. \A n \in Read' : \A i \in DOMAIN run'.snap[n] :
          There(run'.snap[n], i) => Values(run'.snap[n][i]) \subseteq hist.been[n]
    BY <1>1, <1>2, <2>1 DEF HadInv, Been, Read
  <2> QED
    BY <1>1, <2>1, <2>2 DEF HadInv, Been, Values
<1> QED
  BY <1>1, <1>2, <1>3, BaseStays, NoneAtHand DEF HadInv, SameFlags, BeenGrows, Working, Merging

LEMMA AsideHad ==
  ASSUME TypeInv, HadInv, Labels \/ SetLabels \/ SaveLabels \/ Tell \/ CutOff
  PROVE  HadInv'
<1>1. UNCHANGED <<kind, on, recs, hist>> /\ IsRun(run)
  BY DEF Labels, SetLabels, SaveLabels, Tell, CutOff, Own, TypeInv, RunInv, RunOK
<1>2. run'.ph \in {"idle", "labels", "saveLabels", "tell"} /\ (UNCHANGED run.snap \/ DOMAIN run'.snap = {})
  <2>1. CASE Labels
    BY <1>1, <2>1 DEF Labels, IsRun
  <2>2. CASE SetLabels
    BY <1>1, <2>2 DEF SetLabels, Past, Incomplete, IsRun
  <2>3. CASE SaveLabels
    BY <1>1, <2>3 DEF SaveLabels, IsRun
  <2>4. CASE Tell \/ CutOff
    BY <2>4, IdleRun DEF Tell, CutOff
  <2> QED
    BY <2>1, <2>2, <2>3, <2>4
<1> QED
  BY <1>1, <1>2, HadAside DEF Working, Merging

LEMMA OutsideHad ==
  ASSUME TypeInv, HadInv, BranchesArrive \/ UNCHANGED vars
  PROVE  HadInv'
<1>1. UNCHANGED <<kind, on, recs, run, hist>>
  BY DEF BranchesArrive, vars
<1>2. SameFlags /\ BeenGrows
  BY <1>1 DEF SameFlags, BeenGrows
<1> QED
  BY <1>1, <1>2, SameHeard, HadStays DEF HadInv

\* What is found to be a copy of a record holds the record's values, or it is
\* another thing with the same key.
LEMMA AttachHad ==
  ASSUME TypeInv, HadInv, NEW n \in Node, Attach(n)
  PROVE  HadInv'
<1>1. PICK i \in DOMAIN on[n] :
           /\ run.ph = "attach" /\ n \in Read /\ UNCHANGED <<kind, on, worn, run, people, faults>>
           /\ i \in DOMAIN run.snap[n] /\ There(run.snap[n], i) /\ run.snap[n][i] \in Thing
           /\ \A k \in DOMAIN recs : n \in DOMAIN recs[k].copies => recs[k].copies[n] # i
           /\ \E s : Recognised(n, i, s) \/ \E k : Attached(n, i, k, s)
  BY AttachIs
<1> DEFINE t == run.snap[n][i]
<1>2. \A f \in Fields : <<f, t[f]>> \in hist.been[n]
  BY <1>1 DEF HadInv, Been, Values
<1>3. Merged' = Merged /\ Merged \subseteq Fields /\ Merged \subseteq {"key", "text"}
  BY <1>1, FieldsAre DEF Merged, Fields
<1>4. hist'.been = hist.been /\ hist'.owed = hist.owed /\ hist'.mixed = hist.mixed
  BY <1>1 DEF Recognised, Attached
<1> HIDE DEF t
<1>5. ASSUME NEW s, NEW k, Attached(n, i, k, s)
      PROVE  BaseHad'
  <2>1. SUFFICES ASSUME ~hist'.owed, ~hist'.twins, NEW j \in DOMAIN recs', NEW f \in Merged
                 PROVE  /\ \A m \in DOMAIN recs'[j].copies : Counts(m) => <<f, recs'[j][f]>> \in hist.been[m]
                        /\ recs'[j].deleted => <<f, recs'[j][f]>> \in hist.been[Primary]
    BY <1>3, <1>4 DEF BaseHad, Counts
  <2>2. ~hist.owed /\ ~hist.twins /\ j \in DOMAIN recs /\ \A g \in Fields : t[g] = recs[k][g]
    BY <1>4, <1>5, <2>1 DEF Attached, t
  <2>3. /\ \A m \in DOMAIN recs[j].copies : Counts(m) => <<f, recs[j][f]>> \in hist.been[m]
        /\ recs[j].deleted => <<f, recs[j][f]>> \in hist.been[Primary]
    BY <2>2 DEF HadInv, BaseHad
  <2>4. CASE j # k
    <3>1. recs'[j] = recs[j]
      BY <1>5, <2>2, <2>4 DEF Attached
    <3> QED
      BY <2>3, <3>1
  <2>5. CASE j = k
    <3>1. /\ recs'[j] = s /\ s[f] = recs[j][f] /\ DOMAIN s.copies = DOMAIN recs[j].copies \cup {n}
          /\ s.deleted => recs[j].deleted
      BY <1>3, <1>5, <2>2, <2>5 DEF Attached, StillDeleted
    <3>2. <<f, recs[j][f]>> \in hist.been[n]
      BY <1>2, <1>3, <2>2, <2>5
    <3> QED
      BY <2>3, <3>1, <3>2
  <2> QED
    BY <2>4, <2>5
<1>6. ASSUME NEW s, Recognised(n, i, s)
      PROVE  BaseHad'
  <2>1. SUFFICES ASSUME ~hist'.owed, ~hist'.twins, NEW j \in DOMAIN recs', NEW f \in Merged
                 PROVE  /\ \A m \in DOMAIN recs'[j].copies : Counts(m) => <<f, recs'[j][f]>> \in hist.been[m]
                        /\ recs'[j].deleted => <<f, recs'[j][f]>> \in hist.been[Primary]
    BY <1>3, <1>4 DEF BaseHad, Counts
  <2>2. ~hist.owed /\ ~hist.twins
    BY <1>4, <1>6, <2>1 DEF Recognised
  <2>3. CASE j \in DOMAIN recs
    <3>1. recs'[j] = recs[j]
      BY <1>6, <2>3 DEF Recognised
    <3> QED
      BY <2>2, <2>3, <3>1 DEF HadInv, BaseHad
  <2>4. CASE j \notin DOMAIN recs
    <3>1. recs'[j] = s /\ s[f] = t[f] /\ DOMAIN s.copies = {n} /\ ~s.deleted
      BY <1>3, <1>6, <2>1, <2>4 DEF Recognised, t
    <3> QED
      BY <1>2, <1>3, <3>1
  <2> QED
    BY <2>3, <2>4
<1>7. Been'
  BY <1>1, <1>4, SameHeard DEF HadInv, BeenGrows
<1> QED
  BY <1>1, <1>5, <1>6, <1>7, NoneAtHand DEF HadInv, Working, Merging

\* A record is taken that was deleted: everybody who has a copy has had its
\* base, the primary too, and what is to be deleted was read as the base.
LEMMA ToDeleteHad ==
  ASSUME TypeInv, HadInv, Take, WasDeleted(Lowest(run.todo))
  PROVE  RecHad' /\ Wants'
<1> DEFINE i == Lowest(run.todo)
           r == recs[i]
<1>1. UNCHANGED <<kind, on, recs, hist>> /\ i \in DOMAIN recs /\ RecordOK(r, on)
  BY TakeLeaves
<1>2. DeletedRun(i, r)
  BY ToDeleteIs
<1>3. WasDeleted(i)
  OBVIOUS
<1> HIDE DEF i
<1>4. Merged' = Merged /\ Fields' = Fields /\ Read' = Read /\ Fields \subseteq {"key", "text"} /\ Merged \subseteq Fields
  BY <1>1, <1>2, FieldsAre DEF DeletedRun, Merged, Fields, Read
<1>5. RecHad'
  <2>1. SUFFICES ASSUME ~hist.owed, ~hist.twins, NEW f \in Merged
                 PROVE  /\ \A n \in DOMAIN run'.rec.copies : Counts(n) => <<f, run'.rec[f]>> \in hist.been[n]
                        /\ <<f, run'.rec[f]>> \in hist.been[Primary]
    BY <1>1, <1>4 DEF RecHad, Counts
  <2>2. run'.rec[f] = r[f] /\ \A n \in DOMAIN run'.rec.copies : n \in DOMAIN r.copies
    BY <1>2, <1>4 DEF DeletedRun
  <2>3. /\ \A n \in DOMAIN r.copies : Counts(n) => <<f, r[f]>> \in hist.been[n]
        /\ r.deleted => <<f, r[f]>> \in hist.been[Primary]
    BY <1>1, <2>1 DEF HadInv, BaseHad
  <2>4. r.deleted \/ Primary \in DOMAIN r.copies
    BY <1>3 DEF WasDeleted, Lost
  <2> QED
    BY <2>2, <2>3, <2>4 DEF Counts
<1>6. Wants'
  <2>1. run'.ph = "delete" /\ ~run'.behind
    BY <1>2 DEF DeletedRun
  <2>2. ASSUME NEW n \in run'.left
        PROVE  n \in Present(run.rec)' /\ \A f \in Fields : Seen(run.rec, n)'[f] = run'.rec[f]
    <3>1. n \in Present(r) /\ ~Differs(r, n) /\ n \in DOMAIN run'.rec.copies /\ run'.rec.copies[n] = r.copies[n]
      BY <1>2 DEF DeletedRun
    <3>2. Seen(run.rec, n)' = Seen(r, n) /\ n \in Present(run.rec)'
      BY <1>2, <1>4, <3>1 DEF Present, Seen, DeletedRun
    <3>3. \A f \in Fields : run'.rec[f] = r[f]
      BY <1>2, <1>4 DEF DeletedRun
    <3> QED
      BY <3>1, <3>2, <3>3 DEF Differs
  <2> QED
    BY <1>4, <2>1, <2>2 DEF Wants
<1> QED
  BY <1>5, <1>6

\* A record is taken that was not: who has not had the new base is to be
\* written to, unless he could not be read.
LEMMA MergedHad ==
  ASSUME TypeInv, HadInv, Take, ~WasDeleted(Lowest(run.todo))
  PROVE  RecHad' /\ Wants'
<1> DEFINE i == Lowest(run.todo)
           p == Picked(i)
           s == Taking(i)
<1>1. /\ UNCHANGED <<kind, on, recs, hist>> /\ i \in DOMAIN recs /\ run.ph = "records" /\ RunOK /\ ~WasDeleted(i)
  BY TakeLeaves DEF TypeInv, RunInv
<1>2. run' = p \/ run' = MergedInto(p, s)
  BY TakenIs
<1> HIDE DEF i
<1>3. /\ IsRun(p) /\ p.i = i /\ p.ph = run.ph /\ p.snap = run.snap
  BY <1>1, PickedIs DEF RunOK
<1>4. /\ RecordOK(s, on) /\ ~s.deleted /\ s.key = recs[i].key /\ s.text = recs[i].text
      /\ DOMAIN s.copies = DOMAIN recs[i].copies \ Lost(i)
      /\ \A n \in DOMAIN s.copies : s.copies[n] = recs[i].copies[n]
  BY <1>1, TakingIs
<1> HIDE DEF p, s
<1>5. CASE run' = p
  BY <1>1, <1>3, <1>5, NoneAtHand DEF Working, Merging
<1>6. CASE run' = MergedInto(p, s)
  <2>1. MergedRun(p, s, run')
    BY <1>3, <1>4, <1>6, MergedIs DEF RecordOK
  <2>2. /\ run'.i = i /\ run'.ph = "edit" /\ run'.snap = run.snap /\ run'.left = EditsFor(s)
        /\ run'.rec.copies = s.copies /\ ~run'.rec.deleted
    BY <1>3, <1>4, <2>1 DEF MergedRun
  <2>3. Merged' = Merged /\ Merged \subseteq Fields /\ Read' = Read /\ Merged \subseteq {"key", "text"}
    BY <1>1, <2>2, FieldsAre DEF Merged, Fields, Read
  <2>4. ASSUME NEW f \in Merged
        PROVE  /\ run'.want[f] = Wanted(s, f) /\ s[f] = recs[i][f]
               /\ run'.rec[f] = IF Contested(s, f) THEN s[f] ELSE Wanted(s, f)
    BY <1>4, <2>1, <2>3 DEF MergedRun
  <2>5. /\ Present(run.rec)' = Present(s)
        /\ \A n : Seen(run.rec, n)' = Seen(s, n)
    BY <2>2, <2>3 DEF Present, Seen
  <2>6. \A f \in Merged : ~Contested(s, f) => \A n \in Present(s) : Seen(s, n)[f] \in {s[f], Wanted(s, f)}
    BY <1>1, WantedIs
  <2>7. \A f \in Merged : \A n : <<f, n>> \in EditsFor(s) <=>
          n \in Present(s) /\ ~Contested(s, f) /\ Seen(s, n)[f] # Wanted(s, f)
    BY DEF EditsFor
  <2>8. Wants'
    <3>1. ASSUME Primary \notin DOMAIN run'.rec.copies, NEW f \in Merged
          PROVE  run'.want[f] = run'.rec[f]
      <4>1. Primary \notin Present(s)
        BY <2>2, <3>1 DEF Present
      <4> QED
        BY <2>4, <4>1 DEF Wanted
    <3>2. ASSUME NEW f \in Merged, NEW n \in DOMAIN run'.rec.copies, <<f, n>> \in run'.left
          PROVE  /\ run'.want[f] = run'.rec[f] /\ n \in Present(run.rec)'
                 /\ Seen(run.rec, n)'[f] = recs'[run'.i][f]
      BY <1>1, <2>2, <2>4, <2>5, <2>6, <2>7, <3>2
    <3> QED
      BY <2>2, <2>3, <3>1, <3>2 DEF Wants
  <2>9. RecHad'
    <3>1. SUFFICES ASSUME ~hist.owed, ~hist.twins, ~run'.behind, NEW f \in Merged,
                          NEW n \in DOMAIN s.copies, Counts(n), <<f, n>> \notin EditsFor(s)
                   PROVE  <<f, run'.rec[f]>> \in hist.been[n]
      BY <1>1, <2>2, <2>3 DEF RecHad, Counts
    <3>2. <<f, s[f]>> \in hist.been[n]
      BY <1>1, <1>4, <2>4, <3>1 DEF HadInv, BaseHad
    <3>3. CASE run'.rec[f] = s[f]
      BY <3>2, <3>3
    <3>4. CASE run'.rec[f] # s[f]
      <4>1. ~Contested(s, f) /\ run'.rec[f] = Wanted(s, f) /\ Wanted(s, f) # s[f]
        BY <2>4, <3>4
      <4>2. DOMAIN s.copies \subseteq Read
        BY <2>1, <3>1, <4>1 DEF MergedRun
      <4>3. n \in Present(s)
        BY <1>4, <4>2 DEF Present, Lost
      <4>4. Seen(s, n)[f] = Wanted(s, f)
        BY <2>7, <3>1, <4>1, <4>3
      <4>5. n \in Read /\ s.copies[n] \in DOMAIN run.snap[n] /\ There(run.snap[n], s.copies[n])
        BY <4>3 DEF Present, There
      <4>6. Values(Seen(s, n)) \subseteq hist.been[n]
        BY <4>5 DEF HadInv, Been, Seen
      <4> QED
        BY <2>3, <4>1, <4>4, <4>6 DEF Values
    <3> QED
      BY <3>3, <3>4
  <2> QED
    BY <2>8, <2>9
<1> QED
  BY <1>2, <1>5, <1>6

LEMMA TakeHad ==
  ASSUME TypeInv, HadInv, Take
  PROVE  HadInv'
<1>1. UNCHANGED <<kind, on, recs, hist>>
  BY TakeLeaves
<1>2. SameFlags /\ BeenGrows
  BY <1>1 DEF SameFlags, BeenGrows
<1>3. UNCHANGED run.snap
  <2>1. CASE WasDeleted(Lowest(run.todo))
    BY <2>1, ToDeleteIs DEF DeletedRun
  <2>2. CASE ~WasDeleted(Lowest(run.todo))
    <3> DEFINE i == Lowest(run.todo)
               p == Picked(i)
               s == Taking(i)
    <3>1. i \in DOMAIN recs /\ IsRun(run) /\ ~WasDeleted(i) /\ (run' = p \/ run' = MergedInto(p, s))
      BY <2>2, TakenIs, TakeLeaves DEF TypeInv, RunInv, RunOK
    <3>2. IsRun(p) /\ p.snap = run.snap /\ IsRecord(s)
      BY <3>1, PickedIs, TakingIs DEF RecordOK
    <3> HIDE DEF i, p, s
    <3>3. CASE run' = MergedInto(p, s)
      <4>1. MergedRun(p, s, run')
        BY <3>2, <3>3, MergedIs
      <4> QED
        BY <3>2, <4>1 DEF MergedRun
    <3> QED
      BY <3>1, <3>2, <3>3
  <2> QED
    BY <2>1, <2>2
<1>4. Been' /\ BaseHad'
  BY <1>1, <1>2, <1>3, SameHeard, BaseStays DEF HadInv
<1> QED
  BY <1>4, ToDeleteHad, MergedHad DEF HadInv

-----------------------------------------------------------------------------
(* The calls of a record, and its saving.                                  *)

LEMMA NextPhaseHad ==
  ASSUME TypeInv, HadInv, NextPhase
  PROVE  HadInv'
<1>1. UNCHANGED <<kind, on, recs, hist>> /\ UNCHANGED <<run.snap, run.i, run.rec, run.want, run.behind>>
  BY NextPhaseIs DEF NextPhase
<1>2. /\ run.ph \in Working /\ run'.ph \in {"make", "close", "mark", "save"}
      /\ run.ph = "edit" => run.left = {}
      /\ run'.ph = "make" => run.ph = "edit"
  BY NextPhaseIs DEF Working, Merging
<1>3. SameFlags /\ BeenGrows /\ Merged' = Merged
  BY <1>1 DEF SameFlags, BeenGrows, Merged, Fields
<1>4. Been' /\ BaseHad'
  BY <1>1, <1>3, SameHeard, BaseStays DEF HadInv
<1>5. RecHad'
  BY <1>1, <1>2, <1>3 DEF HadInv, RecHad, Counts
<1>6. Wants'
  BY <1>1, <1>2, <1>3 DEF HadInv, Wants
<1> QED
  BY <1>4, <1>5, <1>6 DEF HadInv

\* A call that writes no field, or is not made.
LEMMA CallHad ==
  ASSUME TypeInv, HadInv, Been', UNCHANGED <<kind, recs>>, SameFlags, BeenGrows, run.ph \in Working,
         UNCHANGED <<run.ph, run.i, run.rec, run.want, run.snap>>, run'.left \subseteq run.left,
         \/ UNCHANGED run.behind /\ run.ph # "edit"
         \/ run'.behind /\ run.ph = "edit"
  PROVE  HadInv'
<1>1. Merged' = Merged /\ Fields' = Fields /\ Read' = Read
  BY DEF Merged, Fields, Read
<1>2. BaseHad'
  BY BaseStays DEF HadInv
<1>3. DOMAIN run.rec.copies \subseteq Node
  BY DEF TypeInv, RunInv, AtHand, RecordOK
<1>4. RecHad'
  <2>1. CASE run'.behind
    BY <2>1 DEF RecHad
  <2>2. CASE run.ph # "edit" /\ ~run'.behind
    <3>1. ~run.behind /\ run'.ph # "edit"
      BY <2>2
    <3> QED
      BY <1>1, <1>3, <3>1, Ordered DEF HadInv, RecHad, SameFlags, BeenGrows, Counts
  <2> QED
    BY <2>1, <2>2
<1>5. Wants'
  <2>1. \A n : n \in Present(run.rec) => n \in Present(run.rec)' /\ Seen(run.rec, n)' = Seen(run.rec, n)
    BY <1>1 DEF Present, Seen
  <2> QED
    BY <1>1, <2>1 DEF HadInv, Wants
<1> QED
  BY <1>2, <1>4, <1>5 DEF HadInv

LEMMA EditCopyHad ==
  ASSUME TypeInv, HadInv, EditCopy
  PROVE  HadInv'
<1>1. PICK f \in Merged, n \in DOMAIN run.rec.copies :
           /\ run.ph = "edit" /\ <<f, n>> \in run.left /\ Called(<<f, n>>)
           /\ \/ UNCHANGED <<on, hist>> /\ run'.behind
              \/ /\ Wrote(n, f, run.want[f]) /\ hist' = Heard(n, {<<f, run.want[f]>>})
                 /\ UNCHANGED run.behind
  BY EditCopyIs
<1>2. /\ UNCHANGED <<kind, recs>> /\ UNCHANGED <<run.ph, run.i, run.rec, run.want, run.snap>>
      /\ run'.left = run.left \ {<<f, n>>}
  BY <1>1 DEF Called, OneCallLess
<1>3. CASE UNCHANGED <<on, hist>> /\ run'.behind
  <2>1. SameFlags /\ BeenGrows
    BY <1>3 DEF SameFlags, BeenGrows
  <2>2. Been'
    BY <1>2, <1>3, <2>1, SameHeard DEF HadInv
  <2> QED
    BY <1>1, <1>2, <1>3, <2>1, <2>2, CallHad DEF Working, Merging
<1>4. CASE /\ Wrote(n, f, run.want[f]) /\ hist' = Heard(n, {<<f, run.want[f]>>})
           /\ UNCHANGED run.behind
  <2> DEFINE i == run.rec.copies[n]
             v == run.want[f]
  <2>1. n \in Node /\ OnlyBeen /\ <<f, v>> \in hist'.been[n]
    BY <1>4, HeardIs DEF Wrote
  <2>2. SameFlags /\ BeenGrows
    BY <2>1 DEF OnlyBeen, SameFlags, BeenGrows
  <2>3. (f = "key" /\ v \in Key) \/ (f = "text" /\ v \in Text)
    BY <1>1 DEF Merged, Fields, TypeInv, RunInv, Pending
  <2>4. i \in DOMAIN on[n] /\ There(on[n], i) /\ on' = Written(on, n, i, f, v)
    BY <1>4 DEF Wrote, Alive, There
  <2>5. DOMAIN run.rec.copies \subseteq Node
    BY <1>1 DEF TypeInv, RunInv, AtHand, Working, Merging, RecordOK
  <2> HIDE DEF i, v
  <2>6. Been'
    BY <1>2, <2>1, <2>2, <2>3, <2>4, WrittenHeard DEF HadInv
  <2>7. BaseHad'
    BY <1>2, <2>2, BaseStays DEF HadInv
  <2>8. Merged' = Merged /\ Fields' = Fields /\ Read' = Read
    BY <1>2 DEF Merged, Fields, Read
  <2>9. run.rec[f] = v
    BY <1>1 DEF HadInv, Wants, v
  <2>10. RecHad'
    <3>1. SUFFICES ASSUME ~hist.owed, ~hist.twins, ~run.behind, NEW g \in Merged, ~run.rec.deleted
                   PROVE  \A m \in DOMAIN run.rec.copies : Counts(m) =>
                            <<g, run.rec[g]>> \in hist'.been[m] \/ <<g, m>> \in run'.left
      <4>1. ~run.rec.deleted
        BY <1>1 DEF TypeInv, RunInv, AtHand, Working, Merging
      <4> QED
        BY <1>1, <1>2, <1>4, <2>2, <2>8, <3>1, <4>1 DEF RecHad, Counts, SameFlags
    <3>2. \A m \in DOMAIN run.rec.copies : Counts(m) =>
            <<g, run.rec[g]>> \in hist.been[m] \/ <<g, m>> \in run.left
      BY <1>1, <3>1 DEF HadInv, RecHad, Working, Merging
    <3> QED
      BY <1>2, <2>1, <2>2, <2>5, <2>9, <3>2 DEF BeenGrows
  <2>11. Wants'
    <3>1. \A m : m \in Present(run.rec) => m \in Present(run.rec)' /\ Seen(run.rec, m)' = Seen(run.rec, m)
      BY <1>2, <2>8 DEF Present, Seen
    <3> QED
      BY <1>1, <1>2, <2>8, <3>1 DEF HadInv, Wants
  <2> QED
    BY <2>6, <2>7, <2>10, <2>11 DEF HadInv
<1> QED
  BY <1>1, <1>3, <1>4

LEMMA ClosePullHad ==
  ASSUME TypeInv, HadInv, ClosePull
  PROVE  HadInv'
<1>1. PICK n \in DOMAIN run.rec.copies :
           /\ run.ph = "close" /\ kind = "pull" /\ Called(n) /\ UNCHANGED run.behind
           /\ \/ UNCHANGED <<on, hist>>
              \/ Wrote(n, "text", Closed) /\ hist' = Heard(n, {<<"text", Closed>>})
  BY ClosePullIs
<1>2. /\ UNCHANGED <<kind, recs>> /\ UNCHANGED <<run.ph, run.i, run.rec, run.want, run.snap>>
      /\ run'.left \subseteq run.left
  BY <1>1 DEF Called, OneCallLess
<1>3. SameFlags /\ BeenGrows /\ Been'
  <2>1. CASE UNCHANGED <<on, hist>>
    BY <1>2, <2>1, SameHeard DEF HadInv, SameFlags, BeenGrows
  <2>2. CASE Wrote(n, "text", Closed) /\ hist' = Heard(n, {<<"text", Closed>>})
    <3> DEFINE i == run.rec.copies[n]
    <3>1. n \in Node /\ OnlyBeen /\ <<"text", Closed>> \in hist'.been[n]
      BY <2>2, HeardIs DEF Wrote
    <3>2. i \in DOMAIN on[n] /\ There(on[n], i) /\ on' = Written(on, n, i, "text", Closed)
      BY <2>2 DEF Wrote, Alive, There
    <3>3. SameFlags /\ BeenGrows
      BY <3>1 DEF OnlyBeen, SameFlags, BeenGrows
    <3> HIDE DEF i
    <3>4. Been'
      BY <1>2, <3>1, <3>2, <3>3, WrittenHeard, IssuesAssumption DEF HadInv
    <3> QED
      BY <3>3, <3>4
  <2> QED
    BY <1>1, <2>1, <2>2
<1> QED
  BY <1>1, <1>2, <1>3, CallHad DEF Working, Merging

LEMMA MarkCopyHad ==
  ASSUME TypeInv, HadInv, MarkCopy
  PROVE  HadInv'
<1>1. PICK c \in run.left : MarkCall(c)
  BY MarkCopyIs
<1>2. /\ UNCHANGED <<kind, recs, hist>> /\ UNCHANGED <<run.ph, run.i, run.rec, run.want, run.snap, run.behind>>
      /\ run'.left \subseteq run.left /\ run.ph = "mark"
  BY <1>1 DEF MarkCall, Called, OneCallLess
<1>3. SameFlags /\ BeenGrows
  BY <1>2 DEF SameFlags, BeenGrows
<1>4. Been'
  <2> DEFINE v == Marked(c, Now(c[2]).extra)
             n == c[2]
             i == run.rec.copies[n]
  <2>1. CASE UNCHANGED on
    BY <1>2, <1>3, <2>1, SameHeard DEF HadInv
  <2>2. CASE Wrote(c[2], "extra", v)
    <3>1. /\ n \in Node /\ i \in DOMAIN on[n] /\ There(on[n], i) /\ on' = Written(on, n, i, "extra", v)
          /\ v \subseteq Extra
      BY <1>1, <2>2, MarkedTyped DEF Wrote, Alive, There
    <3> HIDE DEF v, n, i
    <3> QED
      BY <1>2, <1>3, <3>1, WrittenHeard DEF HadInv
  <2> QED
    BY <1>1, <2>1, <2>2 DEF MarkCall
<1> QED
  BY <1>2, <1>3, <1>4, CallHad DEF Working, Merging

LEMMA DeleteCopyHad ==
  ASSUME TypeInv, HadInv, DeleteCopy
  PROVE  HadInv'
<1>1. PICK n \in DOMAIN run.rec.copies :
           /\ run.ph = "delete" /\ n \in run.left /\ n \in Node
           /\ UNCHANGED <<kind, recs, people, hist>>
           /\ UNCHANGED faults \/ (faults > 0 /\ faults' = faults - 1)
           /\ \/ UNCHANGED <<on, run.behind>> /\ Called(n)
              \/ Removed(n)
  BY DeleteCopyIs
<1>2. SameFlags /\ BeenGrows
  BY <1>1 DEF SameFlags, BeenGrows
<1>3. CASE UNCHANGED <<on, run.behind>> /\ Called(n)
  <2>1. /\ UNCHANGED <<run.ph, run.i, run.rec, run.want, run.snap>> /\ run'.left \subseteq run.left
    BY <1>3 DEF Called, OneCallLess
  <2>2. Been'
    BY <1>1, <1>2, <1>3, <2>1, SameHeard DEF HadInv
  <2> QED
    BY <1>1, <1>2, <1>3, <2>1, <2>2, CallHad DEF Working
<1>4. CASE Removed(n)
  <2> DEFINE i == run.rec.copies[n]
  <2>1. /\ UNCHANGED <<kind, recs>> /\ UNCHANGED <<run.ph, run.i, run.want, run.snap, run.behind>>
        /\ run'.left = run.left \ {n} /\ on' = Put(on, n, i, Gone)
        /\ run'.rec.deleted = run.rec.deleted /\ run'.rec.key = run.rec.key /\ run'.rec.text = run.rec.text
        /\ DOMAIN run'.rec.copies = DOMAIN run.rec.copies \ {n}
        /\ \A m \in DOMAIN run'.rec.copies : run'.rec.copies[m] = run.rec.copies[m]
    BY <1>1, <1>4 DEF Removed
  <2>2. i \in DOMAIN on[n] /\ run.left \subseteq DOMAIN run.rec.copies
    BY <1>1 DEF TypeInv, RunInv, AtHand, Pending, Working, RecordOK
  <2> HIDE DEF i
  <2>3. Been'
    BY <1>1, <1>2, <2>1, <2>2, GoneHeard DEF HadInv
  <2>4. BaseHad'
    BY <1>1, <1>2, BaseStays DEF HadInv
  <2>5. Merged' = Merged /\ Fields' = Fields /\ Read' = Read /\ Merged \subseteq Fields /\ Fields \subseteq {"key", "text"}
    BY <2>1, FieldsAre DEF Merged, Fields, Read
  <2>6. \A f \in Fields : run'.rec[f] = run.rec[f]
    BY <2>1, <2>5
  <2>7. RecHad'
    BY <1>1, <2>1, <2>5, <2>6 DEF HadInv, RecHad, Counts
  <2>8. Wants'
    <3>1. ASSUME NEW m \in run'.left
          PROVE  m \in Present(run.rec)' /\ \A f \in Fields : Seen(run.rec, m)'[f] = run'.rec[f]
      <4>1. m \in Present(run.rec) /\ \A f \in Fields : Seen(run.rec, m)[f] = run.rec[f]
        BY <1>1, <2>1 DEF HadInv, Wants
      <4>2. m \in DOMAIN run'.rec.copies /\ run'.rec.copies[m] = run.rec.copies[m]
        BY <2>1, <2>2
      <4>3. m \in Present(run.rec)' /\ Seen(run.rec, m)' = Seen(run.rec, m)
        BY <2>1, <2>5, <4>1, <4>2 DEF Present, Seen
      <4> QED
        BY <2>6, <4>1, <4>3
    <3> QED
      BY <1>1, <2>1, <2>5, <3>1 DEF HadInv, Wants
  <2> QED
    BY <2>3, <2>4, <2>7, <2>8 DEF HadInv
<1> QED
  BY <1>1, <1>3, <1>4

\* A copy recorded holds the base, or it is the primary's, which has had what
\* is wanted; or a conflict was open while it was made.
LEMMA RecordedHad ==
  ASSUME TypeInv, HadInv, run.ph = "make", UNCHANGED kind, NEW n \in run.left, n \in Node,
         n \notin DOMAIN run.rec.copies, Recorded(n), Values(NewCopy) \subseteq hist'.been[n], BeenGrows
  PROVE  BaseHad' /\ RecHad' /\ Wants'
<1> DEFINE id == Len(on[n]) + 1
           r == run.rec
           s == Copied(r, n, id)
           i == run.i
<1>1. /\ i \in DOMAIN recs /\ RecordOK(r, on) /\ ~r.deleted
  BY DEF TypeInv, RunInv, AtHand, Working, Merging
<1>2. /\ IsRecord(s) /\ s.key = r.key /\ s.text = r.text /\ s.deleted = r.deleted
      /\ DOMAIN s.copies = DOMAIN r.copies \cup {n}
  <2> HIDE DEF r, id
  <2> QED
    BY <1>1, CopiedIs DEF RecordOK
<1>3. /\ recs' = [recs EXCEPT ![i] = s] /\ run' = [Past(n) EXCEPT !.rec = s]
      /\ hist'.twins = hist.twins /\ hist'.owed = (hist.owed \/ run.behind)
      /\ hist'.mixed = (hist.mixed \/ \E f \in Merged : run.want[f] # r[f])
  BY DEF Recorded
<1> HIDE DEF id, s
<1>4. run'.ph = "make" /\ run'.rec = s /\ run'.want = run.want /\ run'.behind = run.behind
  <2> DEFINE p == Past(n)
  <2>1. IsRun(p) /\ p.ph = run.ph /\ p.want = run.want /\ p.behind = run.behind
    BY PastIs DEF TypeInv, RunInv, RunOK
  <2> HIDE DEF p
  <2>2. run' = [p EXCEPT !.rec = s]
    BY <1>3 DEF p
  <2> QED
    BY <2>1, <2>2 DEF IsRun
<1> HIDE DEF r, i
<1>5. DOMAIN recs' = DOMAIN recs /\ \A k \in DOMAIN recs : recs'[k] = IF k = i THEN s ELSE recs[k]
  BY <1>3
<1>6. Merged' = Merged /\ Merged \subseteq Fields /\ Fields \subseteq {"key", "text"} /\ (kind = "pull" => Merged = {"key"})
  BY FieldsAre DEF Merged, Fields
<1>7. \A f \in Merged : s[f] = r[f] /\ <<f, run.want[f]>> \in hist'.been[n]
  <2>1. ASSUME NEW f \in Merged
        PROVE  NewCopy[f] = run.want[f]
    <3>1. NewCopy.key = run.want.key /\ (kind # "pull" => NewCopy.text = run.want.text)
      BY DEF NewCopy
    <3>2. f = "key" \/ (f = "text" /\ kind # "pull")
      BY <1>6
    <3> QED
      BY <3>1, <3>2
  <2> QED
    BY <1>2, <1>6, <2>1 DEF Values
<1>8. ASSUME ~hist'.owed, ~hist'.twins, NEW f \in Merged, NEW m \in DOMAIN s.copies, Counts(m)'
      PROVE  <<f, s[f]>> \in hist'.been[m]
  <2>1. ~hist.owed /\ ~run.behind /\ ~hist.twins /\ Counts(m)
    BY <1>3, <1>8 DEF Counts
  <2>2. CASE m \in DOMAIN r.copies
    <3>1. <<f, r[f]>> \in hist.been[m] /\ m \in Node
      BY <1>1, <2>1, <2>2 DEF HadInv, RecHad, Working, Merging, RecordOK, r
    <3> QED
      BY <1>7, <3>1 DEF BeenGrows
  <2>3. CASE m \notin DOMAIN r.copies
    <3>1. m = n
      BY <1>2, <1>8, <2>3
    <3>2. run.want[f] = r[f]
      <4>1. CASE n = Primary
        BY <2>3, <3>1, <4>1 DEF HadInv, Wants, r
      <4>2. CASE n # Primary
        BY <1>3, <1>8, <3>1, <4>2 DEF Counts
      <4> QED
        BY <4>1, <4>2
    <3> QED
      BY <1>7, <3>1, <3>2
  <2> QED
    BY <2>2, <2>3
<1>9. BaseHad'
  <2>1. SUFFICES ASSUME ~hist'.owed, ~hist'.twins, NEW k \in DOMAIN recs, NEW f \in Merged
                 PROVE  /\ \A m \in DOMAIN recs'[k].copies : Counts(m)' => <<f, recs'[k][f]>> \in hist'.been[m]
                        /\ recs'[k].deleted => <<f, recs'[k][f]>> \in hist'.been[Primary]
    BY <1>5, <1>6 DEF BaseHad
  <2>2. CASE k = i
    BY <1>1, <1>2, <1>5, <1>8, <2>1, <2>2
  <2>3. CASE k # i
    <3>1. recs'[k] = recs[k] /\ ~hist.owed /\ ~hist.twins /\ DOMAIN recs[k].copies \subseteq Node
      BY <1>3, <1>5, <2>1, <2>3 DEF TypeInv, RecordsOK, RecordOK
    <3>2. \A m : Counts(m)' => Counts(m)
      BY <1>3 DEF Counts
    <3>3. /\ \A m \in DOMAIN recs[k].copies : Counts(m) => <<f, recs[k][f]>> \in hist.been[m]
          /\ recs[k].deleted => <<f, recs[k][f]>> \in hist.been[Primary]
      BY <3>1 DEF HadInv, BaseHad
    <3> QED
      BY <3>1, <3>2, <3>3, Ordered DEF BeenGrows
  <2> QED
    BY <2>2, <2>3
<1>10. RecHad'
  BY <1>1, <1>2, <1>4, <1>6, <1>8 DEF RecHad
<1>11. Wants'
  BY <1>2, <1>4, <1>6, <1>7 DEF HadInv, Wants, r
<1> QED
  BY <1>9, <1>10, <1>11

LEMMA MakeCopyHad ==
  ASSUME TypeInv, HadInv, MakeCopy
  PROVE  HadInv'
<1> DEFINE n == NextNode
<1>1. /\ run.ph = "make" /\ UNCHANGED <<kind, worn, people>>
      /\ n \in run.left /\ n \in Node /\ n \notin DOMAIN run.rec.copies /\ CopyHeard(n)
      /\ Recorded(n) \/ Unrecorded(n) \/ NotMade(n)
  BY MakeCopyIs
<1> HIDE DEF n
<1>2. BeenGrows
  BY <1>1 DEF CopyHeard, BeenGrows
<1>3. /\ on' = More(on, n, NewCopy) \/ UNCHANGED on
      /\ on' = More(on, n, NewCopy) => Values(NewCopy) \subseteq hist'.been[n]
  <2>1. on' = More(on, n, NewCopy) => ~UNCHANGED on
    <3>1. Len(on[n]) \in Nat
      BY <1>1 DEF TypeInv, NodesTyped, Lists
    <3> QED
      BY <1>1, <3>1, CopyMade
  <2> QED
    BY <1>1, <2>1 DEF Recorded, Unrecorded, NotMade, CopyHeard
<1>4. UNCHANGED run.snap => Been'
  <2>1. NewCopy \in Thing
    BY <1>1, NewCopyTyped
  <2> QED
    BY <1>1, <1>2, <1>3, <2>1, AppendedHeard, SameHeard DEF HadInv
<1>5. IsRun(run)
  BY DEF TypeInv, RunInv, RunOK
<1>6. CASE Recorded(n)
  <2>1. UNCHANGED run.snap
    <3> DEFINE p == Past(n)
               s == Copied(run.rec, n, Len(on[n]) + 1)
    <3>1. IsRun(p) /\ p.snap = run.snap /\ run' = [p EXCEPT !.rec = s]
      BY <1>5, <1>6, PastIs DEF Recorded
    <3> HIDE DEF p, s
    <3> QED
      BY <3>1 DEF IsRun
  <2>2. on' = More(on, n, NewCopy)
    BY <1>6 DEF Recorded
  <2> QED
    BY <1>1, <1>2, <1>3, <1>4, <1>6, <2>1, <2>2, RecordedHad DEF HadInv
<1>7. CASE Unrecorded(n) \/ NotMade(n)
  <2>1. SameFlags /\ UNCHANGED recs
    BY <1>7 DEF SameFlags, Unrecorded, NotMade, OnlyBeen
  <2>2. CASE run' = Incomplete(Past(n))
    <3>1. OneCallLess(n) /\ UNCHANGED run.behind
      BY <2>2, OneCall
    <3> QED
      BY <1>1, <1>2, <1>4, <2>1, <3>1, CallHad DEF OneCallLess, Working, Merging
  <2>3. CASE run' = Idle
    <3>1. Been'
      <4>1. DOMAIN run'.snap = {} /\ Fields' = Fields
        BY <1>1, <2>3, IdleRun DEF Fields
      <4>2. NewCopy \in Things /\ on \in Lists
        BY <1>1, NewCopyTyped DEF Things, TypeInv, NodesTyped
      <4>3. ASSUME NEW m \in Node, NEW k \in DOMAIN on'[m], There(on'[m], k)
            PROVE  Values(on'[m][k]) \subseteq hist'.been[m]
        <5>1. CASE k \in DOMAIN on[m]
          <6>1. on'[m][k] = on[m][k] /\ There(on[m], k)
            BY <1>1, <1>3, <4>3, <5>1, CopyMade DEF There
          <6> QED
            BY <1>2, <5>1, <6>1 DEF HadInv, Been, BeenGrows
        <5>2. CASE k \notin DOMAIN on[m]
          <6>1. on' = More(on, n, NewCopy)
            BY <1>3, <4>3, <5>2
          <6>2. \A o \in Node : Len(on'[o]) = IF o = n THEN Len(on[o]) + 1 ELSE Len(on[o])
            BY <1>1, <6>1, CopyMade
          <6>3. on' \in Lists
            BY <1>1, <6>1, CopyMade DEF Grows
          <6>4. m = n
            BY <4>2, <4>3, <5>2, <6>2, <6>3 DEF Lists
          <6>5. on'[m][k] = NewCopy
            BY <1>1, <4>3, <5>2, <6>1, <6>4, CopyMade
          <6> QED
            BY <1>3, <6>1, <6>4, <6>5
        <5> QED
          BY <5>1, <5>2
      <4> QED
        BY <4>1, <4>3 DEF Been, Values, Read
    <3>2. run'.ph \notin Working
      BY <2>3, IdleRun DEF Working, Merging
    <3> QED
      BY <1>1, <1>2, <2>1, <3>1, <3>2, BaseStays, NoneAtHand DEF HadInv
  <2> QED
    BY <1>7, <2>2, <2>3 DEF Unrecorded, NotMade
<1> QED
  BY <1>1, <1>6, <1>7

LEMMA SaveHad ==
  ASSUME TypeInv, HadInv, Save
  PROVE  HadInv'
<1> DEFINE i == run.i
<1>1. /\ run.ph = "save" /\ UNCHANGED <<kind, on>> /\ UNCHANGED run.snap /\ run'.ph = "records"
      /\ \/ recs' = Without(recs, {i}) /\ run.rec.deleted
         \/ \E s : SavedFor(s) /\ recs' = [recs EXCEPT ![i] = s]
      /\ hist'.been = hist.been /\ hist'.twins = hist.twins /\ hist'.mixed = hist.mixed
      /\ hist'.owed = (hist.owed \/ run.behind)
  BY SaveIs
<1> HIDE DEF i
<1>2. Been'
  BY <1>1, SameHeard DEF HadInv, BeenGrows
<1>3. Merged' = Merged /\ Merged \subseteq {"key", "text"}
  BY <1>1, FieldsAre DEF Merged, Fields
<1>4. BaseHad'
  <2>1. SUFFICES ASSUME ~hist'.owed, ~hist'.twins, NEW k \in DOMAIN recs', NEW f \in Merged
                 PROVE  /\ \A m \in DOMAIN recs'[k].copies : Counts(m) => <<f, recs'[k][f]>> \in hist.been[m]
                        /\ recs'[k].deleted => <<f, recs'[k][f]>> \in hist.been[Primary]
    BY <1>1, <1>3 DEF BaseHad, Counts
  <2>2. ~hist.owed /\ ~run.behind /\ ~hist.twins
    BY <1>1, <2>1
  <2>3. CASE k \in DOMAIN recs /\ recs'[k] = recs[k]
    BY <2>2, <2>3 DEF HadInv, BaseHad
  <2>4. ASSUME NEW s, SavedFor(s), recs' = [recs EXCEPT ![i] = s], k = i
        PROVE  /\ \A m \in DOMAIN recs'[k].copies : Counts(m) => <<f, recs'[k][f]>> \in hist.been[m]
               /\ recs'[k].deleted => <<f, recs'[k][f]>> \in hist.been[Primary]
    <3>1. recs'[k] = s
      BY <2>1, <2>4
    <3>2. s.copies = run.rec.copies /\ s[f] = run.rec[f] /\ s.deleted = run.rec.deleted
      BY <1>3, <2>4 DEF SavedFor
    <3> QED
      BY <1>1, <2>2, <3>1, <3>2 DEF HadInv, RecHad, Working
  <2> QED
    BY <1>1, <2>1, <2>3, <2>4 DEF Without
<1> QED
  BY <1>1, <1>2, <1>4, NoneAtHand DEF HadInv, Working, Merging

LEMMA HadStep == TypeInv /\ HadInv /\ [Next]_vars => HadInv'
<1> SUFFICES ASSUME TypeInv, HadInv, [Next]_vars PROVE HadInv'
  OBVIOUS
<1>1. CASE People
  BY <1>1, PeopleHad
<1>2. CASE Begin \/ ReadIssues \/ PassOver \/ AllAttached \/ ReadNode
  BY <1>2, BeginHad, ReadNodeHad
<1>3. CASE \E n \in Node : Attach(n)
  BY <1>3, AttachHad
<1>4. CASE Take \/ NextPhase \/ EditCopy \/ MakeCopy
  BY <1>4, TakeHad, NextPhaseHad, EditCopyHad, MakeCopyHad
<1>5. CASE ClosePull \/ MarkCopy \/ DeleteCopy \/ Save
  BY <1>5, ClosePullHad, MarkCopyHad, DeleteCopyHad, SaveHad
<1>6. CASE Labels \/ SetLabels \/ SaveLabels \/ Tell \/ CutOff
  BY <1>6, AsideHad
<1>7. CASE BranchesArrive \/ UNCHANGED vars
  BY <1>7, OutsideHad
<1> QED
  BY <1>1, <1>2, <1>3, <1>4, <1>5, <1>6, <1>7 DEF Next, Run

LEMMA HadAlways == Spec => [](TypeInv /\ HadInv)
<1>1. Init => TypeInv /\ HadInv
  BY TypeInit, HadInit
<1>2. TypeInv /\ HadInv /\ [Next]_vars => (TypeInv /\ HadInv)'
  BY TypeStep, HadStep
<1> QED
  BY <1>1, <1>2, PTL DEF Spec

-----------------------------------------------------------------------------
(* What ForgeSync does to a thing that is there.                           *)

Untouched(n, i) == i \in DOMAIN on'[n] /\ on'[n][i] = on[n][i]
Rewritten(n, i, f, v) ==
    /\ There(on[n], i) /\ There(on'[n], i) /\ n \in DOMAIN run.rec.copies /\ i = run.rec.copies[n]
    /\ on'[n][i] = With(on[n][i], f, v)
Erased(n, i) ==
    /\ run.ph = "delete" /\ n \in run.left /\ n \in DOMAIN run.rec.copies /\ i = run.rec.copies[n]
    /\ on'[n][i] = Gone

LEMMA WithTyped ==
  ASSUME NEW t \in Thing, NEW f, NEW v,
         \/ f = "key" /\ v \in Key
         \/ f = "text" /\ v \in Text
         \/ f = "extra" /\ v \subseteq Extra
  PROVE  With(t, f, v) \in Thing /\ With(t, f, v) # Gone
<1>1. With(t, f, v) \in Thing
  BY DEF With, Thing
<1> QED
  BY <1>1, IssuesAssumption DEF Thing

LEMMA WroteIs ==
  ASSUME TypeInv, run.ph \in Merging, NEW m, NEW f, NEW v, Wrote(m, f, v),
         \/ f = "key" /\ v \in Key
         \/ f = "text" /\ v \in Text
         \/ f = "extra" /\ v \subseteq Extra,
         NEW n \in Node, NEW i \in DOMAIN on[n]
  PROVE  Untouched(n, i) \/ (n = m /\ Rewritten(n, i, f, v))
<1>1. /\ Grows
      /\ \A l \in Node : \A k \in DOMAIN on[l] :
              on'[l][k] = IF l = m /\ k = run.rec.copies[m] THEN With(on[l][k], f, v) ELSE on[l][k]
  BY WroteGrows
<1>2. i \in DOMAIN on'[n]
  BY <1>1 DEF Grows
<1>3. CASE n = m /\ i = run.rec.copies[m]
  <2>1. on'[n][i] = With(on[n][i], f, v)
    BY <1>1, <1>3
  <2>2. n \in DOMAIN run.rec.copies /\ There(on[n], i)
    BY <1>3 DEF Wrote, Alive
  <2>3. on[n][i] \in Thing
    BY <2>2 DEF There, TypeInv, NodesTyped, Lists, Things
  <2>4. With(on[n][i], f, v) # Gone
    BY <2>3, WithTyped
  <2> QED
    BY <1>2, <1>3, <2>1, <2>2, <2>4 DEF Rewritten, There
<1>4. CASE ~(n = m /\ i = run.rec.copies[m])
  <2>1. on'[n][i] = on[n][i]
    BY <1>1, <1>4
  <2> QED
    BY <1>2, <2>1 DEF Untouched
<1> QED
  BY <1>3, <1>4

\* An edit, a closing, a mark and a deletion, each as its call was planned, are
\* all that ForgeSync does to what is there.
LEMMA OnlyCalls ==
  ASSUME TypeInv, Run \/ CutOff \/ BranchesArrive \/ UNCHANGED vars, NEW n \in Node, NEW i \in DOMAIN on[n]
  PROVE  \/ Untouched(n, i)
         \/ \E f \in Merged : run.ph = "edit" /\ <<f, n>> \in run.left /\ Rewritten(n, i, f, run.want[f])
         \/ kind = "pull" /\ Rewritten(n, i, "text", Closed)
         \/ \E c \in run.left : /\ MarkCall(c) /\ c[2] = n
                                /\ Rewritten(n, i, "extra", Marked(c, on[n][i].extra))
         \/ Erased(n, i)
<1>1. CASE UNCHANGED on
  BY <1>1 DEF Untouched
<1>2. CASE EditCopy
  <2>1. PICK f \in Merged, m \in DOMAIN run.rec.copies :
          /\ run.ph = "edit" /\ <<f, m>> \in run.left
          /\ UNCHANGED on \/ Wrote(m, f, run.want[f])
    BY <1>2, EditCopyIs
  <2>2. (f = "key" /\ run.want[f] \in Key) \/ (f = "text" /\ run.want[f] \in Text)
    BY <2>1 DEF Merged, Fields, TypeInv, RunInv, Pending
  <2> QED
    BY <1>1, <2>1, <2>2, WroteIs DEF Merging
<1>3. CASE ClosePull
  <2>1. PICK m \in DOMAIN run.rec.copies :
          run.ph = "close" /\ kind = "pull" /\ (UNCHANGED on \/ Wrote(m, "text", Closed))
    BY <1>3, ClosePullIs
  <2> QED
    BY <1>1, <2>1, WroteIs, IssuesAssumption DEF Merging
<1>4. CASE MarkCopy
  <2>1. PICK c \in run.left : MarkCall(c)
    BY <1>4, MarkCopyIs
  <2>2. CASE Wrote(c[2], "extra", Marked(c, Now(c[2]).extra))
    <3>1. Marked(c, Now(c[2]).extra) \subseteq Extra
      BY <2>1, <2>2, MarkedTyped DEF Wrote
    <3>2. run.ph \in Merging
      BY <2>1 DEF MarkCall, Merging
    <3> DEFINE v == Marked(c, Now(c[2]).extra)
    <3> HIDE DEF v
    <3>3. Wrote(c[2], "extra", v) /\ v \subseteq Extra
      BY <2>2, <3>1 DEF v
    <3>4. Untouched(n, i) \/ (n = c[2] /\ Rewritten(n, i, "extra", v))
      BY <3>2, <3>3, WroteIs
    <3>5. n = c[2] /\ Rewritten(n, i, "extra", v) => v = Marked(c, on[n][i].extra)
      BY DEF Rewritten, v, Now
    <3> QED
      BY <2>1, <3>4, <3>5
  <2> QED
    BY <1>1, <2>1, <2>2 DEF MarkCall
<1>5. CASE DeleteCopy
  <2>1. PICK m \in DOMAIN run.rec.copies :
          run.ph = "delete" /\ m \in run.left /\ m \in Node /\ (UNCHANGED on \/ Removed(m))
    BY <1>5, DeleteCopyIs
  <2>2. run.rec.copies[m] \in DOMAIN on[m] /\ on \in Lists /\ Gone \in Things
    BY <2>1 DEF TypeInv, RunInv, AtHand, Working, RecordOK, NodesTyped, Things
  <2>3. CASE Removed(m)
    <3> DEFINE id == run.rec.copies[m]
    <3>1. on' = Put(on, m, id, Gone)
      BY <2>3 DEF Removed
    <3> HIDE DEF id
    <3>2. id \in DOMAIN on[m]
      BY <2>2 DEF id
    <3>3. /\ \A l \in Node : DOMAIN on'[l] = DOMAIN on[l]
          /\ \A l \in Node : \A k \in DOMAIN on[l] : on'[l][k] = IF l = m /\ k = id THEN Gone ELSE on[l][k]
      BY <2>1, <2>2, <3>1, <3>2, Replaced
    <3>4. CASE n = m /\ i = id
      BY <2>1, <3>3, <3>4 DEF Erased, id
    <3>5. CASE ~(n = m /\ i = id)
      BY <3>3, <3>5 DEF Untouched
    <3> QED
      BY <3>4, <3>5
  <2> QED
    BY <1>1, <2>1, <2>3
<1>6. CASE MakeCopy
  <2>1. run.ph = "make" /\ NextNode \in Node /\ (UNCHANGED on \/ on' = More(on, NextNode, NewCopy))
    BY <1>6, MakeCopyIs DEF Recorded, Unrecorded, NotMade
  <2>2. CASE on' = More(on, NextNode, NewCopy)
    <3>1. Grows /\ \A m \in Node : \A k \in DOMAIN on[m] : on'[m][k] = on[m][k]
      BY <2>1, <2>2, CopyMade
    <3> QED
      BY <3>1 DEF Untouched, Grows
  <2> QED
    BY <1>1, <2>1, <2>2
<1>7. CASE \/ Begin \/ ReadNode \/ ReadIssues \/ PassOver \/ AllAttached \/ Take \/ NextPhase \/ Save
           \/ Labels \/ SetLabels \/ SaveLabels \/ Tell \/ CutOff \/ BranchesArrive \/ UNCHANGED vars
           \/ \E m \in Node : Attach(m)
  <2>1. UNCHANGED on
    BY <1>7 DEF Begin, ReadNode, ReadIssues, PassOver, AllAttached, Take, NextPhase, Save,
       Labels, SetLabels, SaveLabels, Tell, CutOff, BranchesArrive, vars, Attach
  <2> QED
    BY <1>1, <2>1
<1> QED
  BY <1>2, <1>3, <1>4, <1>5, <1>6, <1>7 DEF Run

LEMMA RewrittenIs ==
  ASSUME TypeInv, NEW n \in Node, NEW i, NEW f \in {"key", "text", "extra"}, NEW v, Rewritten(n, i, f, v)
  PROVE  on'[n][i][f] = v /\ \A g \in {"key", "text", "extra"} : g # f => on'[n][i][g] = on[n][i][g]
<1>1. on[n][i] \in Thing
  BY DEF Rewritten, There, TypeInv, NodesTyped, Lists, Things
<1> QED
  BY <1>1, WithIs DEF Rewritten

\* A copy that ForgeSync deletes was read with values that the primary has had.
LEMMA DeletedHad ==
  ASSUME TypeInv, HadInv, Run \/ CutOff \/ BranchesArrive \/ UNCHANGED vars, ~hist.owed, ~hist.twins,
         NEW n \in Node, NEW i \in Live(n), ~There(on'[n], i)
  PROVE  {<<f, run.snap[n][i][f]>> : f \in Merged} \subseteq hist.been[Primary]
<1>1. Erased(n, i)
  BY OnlyCalls DEF Untouched, Rewritten, Live, There
<1>2. ~run.behind /\ \A f \in Fields : run.snap[n][i][f] = run.rec[f]
  BY <1>1 DEF Erased, HadInv, Wants, Seen
<1>3. run.rec.deleted
  BY <1>1 DEF Erased, TypeInv, RunInv, AtHand, Working
<1>4. \A f \in Merged : <<f, run.rec[f]>> \in hist.been[Primary]
  BY <1>1, <1>2, <1>3 DEF Erased, HadInv, RecHad, Working
<1> QED
  BY <1>2, <1>4, FieldsAre

\* What ForgeSync writes over was everybody's value.
LEMMA WrittenHad ==
  ASSUME TypeInv, HadInv, Run \/ CutOff \/ BranchesArrive \/ UNCHANGED vars,
         kind # "pull", ~hist.owed, ~hist.mixed, ~hist.twins,
         NEW n \in Node, NEW i \in Live(n), NEW f \in Fields, WrittenOver(n, i, f)
  PROVE  Everywhere(f, on[n][i][f])
<1>1. There(on'[n], i) /\ on'[n][i][f] # on[n][i][f] /\ run.snap[n][i][f] = on[n][i][f] /\ f \in {"key", "text"}
  BY FieldsAre DEF WrittenOver
<1>2. ~Erased(n, i) /\ i \in DOMAIN on[n]
  BY <1>1 DEF Erased, Live, There
<1>3. PICK g \in Merged : run.ph = "edit" /\ <<g, n>> \in run.left /\ Rewritten(n, i, g, run.want[g])
  <2>1. ~Untouched(n, i)
    BY <1>1 DEF Untouched
  <2>2. \A v : ~Rewritten(n, i, "extra", v)
    BY <1>1, RewrittenIs
  <2> QED
    BY <1>2, <2>1, <2>2, OnlyCalls
<1>4. g = f
  BY <1>1, <1>3, FieldsAre, RewrittenIs
<1>5. n \in DOMAIN run.rec.copies /\ i = run.rec.copies[n]
  BY <1>3 DEF Rewritten
<1>6. on[n][i][f] = recs[run.i][f]
  BY <1>1, <1>3, <1>4, <1>5 DEF HadInv, Wants, Seen
<1>7. /\ run.i \in DOMAIN recs
      /\ \A m \in DOMAIN run.rec.copies : m \in DOMAIN recs[run.i].copies
  BY <1>3 DEF TypeInv, RunInv, AtHand, Working, Merging
<1>8. \A m \in DOMAIN recs[run.i].copies : <<f, recs[run.i][f]>> \in hist.been[m]
  BY <1>3, <1>4, <1>7 DEF HadInv, BaseHad, Counts
<1> QED
  BY <1>6, <1>7, <1>8 DEF Everywhere

\* A copy changed on a replica survives the deletion on the primary: ForgeSync
\* deletes nothing read with a value that the primary never had.
THEOREM KeptIfChanged == Spec => ChangedCopyKept
<1>1. TypeInv /\ HadInv /\ [Next]_vars =>
        [ Ours /\ ~hist.owed /\ ~hist.twins =>
          \A n \in Node : \A i \in Live(n) :
            (~There(on'[n], i)) => {<<f, run.snap[n][i][f]>> : f \in Merged} \subseteq hist.been[Primary] ]_vars
  BY WhoActs, DeletedHad
<1> QED
  BY <1>1, HadAlways, PTL DEF Spec, ChangedCopyKept

\* One new value goes everywhere and two overwrite nothing: a value that was
\* read and is written over has been on every node with a copy.
THEOREM NothingNewLost == Spec => NewValuesStand
<1>1. TypeInv /\ HadInv /\ [Next]_vars =>
        [ Ours /\ kind # "pull" /\ ~hist.owed /\ ~hist.mixed /\ ~hist.twins =>
          \A n \in Node : \A i \in Live(n) : \A f \in Fields :
            WrittenOver(n, i, f) => Everywhere(f, on[n][i][f]) ]_vars
  BY WhoActs, WrittenHad
<1> QED
  BY <1>1, HadAlways, PTL DEF Spec, NewValuesStand

-----------------------------------------------------------------------------
(* What hangs on things: the base hangs on every copy, and what was read   *)
(* on what is there, as long as nobody took anything off and no copy was   *)
(* made without what hung on the others.                                   *)

OnNodes ==
    \A i \in DOMAIN recs : \A n \in DOMAIN recs[i].copies :
        There(on[n], recs[i].copies[n]) => recs[i].extra \subseteq on[n][recs[i].copies[n]].extra

Reading == {"read", "readIssues", "attach"}
OnRead ==
    \A i \in DOMAIN recs : \A n \in Read \cap DOMAIN recs[i].copies :
        (run.ph \in Reading \/ i \in run.todo) /\ There(run.snap[n], recs[i].copies[n])
          => recs[i].extra \subseteq run.snap[n][recs[i].copies[n]].extra

ReadOn ==
    \A n \in Read : \A i \in DOMAIN run.snap[n] :
        There(run.snap[n], i) /\ There(on[n], i) => run.snap[n][i].extra \subseteq on[n][i].extra

AtMerge ==
    run.ph \in {"edit", "make", "close"} => \A n \in Read \cap DOMAIN run.rec.copies :
        \/ run.rec.extra = {}
        \/ There(run.snap[n], run.rec.copies[n]) /\ run.rec.extra \subseteq Seen(run.rec, n).extra

AtMark ==
    run.ph \in {"mark", "save"} /\ ~run.rec.deleted =>
      /\ DOMAIN run.have = Read \cap DOMAIN run.rec.copies
      /\ \A n \in DOMAIN run.have :
           There(on[n], run.rec.copies[n]) => run.have[n] \subseteq on[n][run.rec.copies[n]].extra

OnlyAdds == run.ph = "mark" => \A c \in run.left : c[1] = "add"

Marks3 == OnNodes /\ OnRead /\ ReadOn /\ AtMerge /\ AtMark /\ OnlyAdds
MarksInv == ~hist.unmarked /\ ~hist.remade => Marks3

\* Nothing is taken off, and nothing comes back.
Grown ==
    \A n \in Node : \A i \in DOMAIN on[n] :
        There(on'[n], i) => There(on[n], i) /\ on[n][i].extra \subseteq on'[n][i].extra

LEMMA GrownOurs ==
  ASSUME TypeInv, OnlyAdds, Run \/ CutOff \/ BranchesArrive \/ UNCHANGED vars
  PROVE  Grown
<1> SUFFICES ASSUME NEW n \in Node, NEW i \in DOMAIN on[n], There(on'[n], i)
             PROVE  There(on[n], i) /\ on[n][i].extra \subseteq on'[n][i].extra
  BY DEF Grown
<1>1. ~Erased(n, i)
  BY DEF Erased, There
<1>2. CASE Untouched(n, i)
  BY <1>2 DEF Untouched, There
<1>3. ASSUME NEW f \in {"key", "text"}, NEW v, Rewritten(n, i, f, v)
      PROVE  There(on[n], i) /\ on[n][i].extra \subseteq on'[n][i].extra
  <2>1. on'[n][i].extra = on[n][i].extra
    BY <1>3, RewrittenIs
  <2> QED
    BY <1>3, <2>1 DEF Rewritten
<1>4. ASSUME NEW c \in run.left, MarkCall(c), Rewritten(n, i, "extra", Marked(c, on[n][i].extra))
      PROVE  There(on[n], i) /\ on[n][i].extra \subseteq on'[n][i].extra
  <2>1. c[1] = "add"
    BY <1>4 DEF OnlyAdds, MarkCall
  <2>2. on[n][i].extra \subseteq Marked(c, on[n][i].extra)
    BY <2>1 DEF Marked
  <2>3. on'[n][i].extra = Marked(c, on[n][i].extra)
    BY <1>4, RewrittenIs
  <2> QED
    BY <1>4, <2>2, <2>3 DEF Rewritten
<1>5. Merged \subseteq {"key", "text"}
  BY FieldsAre
<1> QED
  BY <1>1, <1>2, <1>3, <1>4, <1>5, OnlyCalls

\* What people do is no less, or it is known that something was taken off.
LEMMA GrownPeople ==
  ASSUME TypeInv, People, ~hist'.unmarked
  PROVE  Grown /\ UNCHANGED <<recs, run, hist.remade>> /\ ~hist.unmarked
<1>1. on \in Lists /\ IsHist(hist)
  BY DEF TypeInv, NodesTyped
<1>2. ASSUME NEW n \in Node, NEW t \in Thing, Make(n, t)
      PROVE  Grown /\ UNCHANGED <<recs, run, hist.remade, hist.unmarked>>
  <2>1. on' = More(on, n, t) /\ UNCHANGED <<recs, run>> /\ t \in Things
    BY <1>2 DEF Make, More, Person, Things
  <2>2. UNCHANGED <<hist.remade, hist.unmarked>>
    BY <1>1, <1>2 DEF Make, IsHist
  <2>3. \A m \in Node : \A k \in DOMAIN on[m] : on'[m][k] = on[m][k]
    BY <1>1, <2>1, Appended
  <2> QED
    BY <2>1, <2>2, <2>3 DEF Grown, There
<1>3. ASSUME NEW n \in Node, NEW i \in DOMAIN on[n], NEW f \in {"key", "text", "extra"}, NEW v, There(on[n], i),
             on' = Written(on, n, i, f, v),
             \/ f = "key" /\ v \in Key
             \/ f = "text" /\ v \in Text
             \/ f = "extra" /\ v \subseteq Extra /\ on[n][i].extra \subseteq v
      PROVE  Grown
  <2>1. /\ \A m \in Node : DOMAIN on'[m] = DOMAIN on[m]
        /\ \A m \in Node : \A k \in DOMAIN on[m] :
             on'[m][k] = IF m = n /\ k = i THEN With(on[m][k], f, v) ELSE on[m][k]
    BY <1>1, <1>3, FieldPut
  <2>2. on[n][i] \in Thing
    BY <1>1, <1>3 DEF Lists, Things, There
  <2>3. on[n][i].extra \subseteq With(on[n][i], f, v).extra
    BY <1>3, <2>2, WithIs
  <2> QED
    BY <1>3, <2>1, <2>3 DEF Grown, There
<1>4. ASSUME NEW n \in Node, NEW i \in DOMAIN on[n], NEW f \in Fields, NEW v \in Possible(f), Edit(n, i, f, v)
      PROVE  Grown /\ UNCHANGED <<recs, run, hist.remade, hist.unmarked>>
  <2>1. on' = Written(on, n, i, f, v) /\ There(on[n], i) /\ UNCHANGED <<recs, run>>
    BY <1>4 DEF Edit, Written, Person
  <2>2. UNCHANGED <<hist.remade, hist.unmarked>>
    BY <1>1, <1>4 DEF Edit, IsHist
  <2>3. (f = "key" /\ v \in Key) \/ (f = "text" /\ v \in Text)
    BY IssuesAssumption DEF Possible, Fields
  <2> QED
    BY <1>3, <2>1, <2>2, <2>3
<1>5. ASSUME NEW n \in Node, NEW i \in DOMAIN on[n], Delete(n, i)
      PROVE  Grown /\ UNCHANGED <<recs, run, hist.remade, hist.unmarked>>
  <2>1. on' = Put(on, n, i, Gone) /\ UNCHANGED <<recs, run>> /\ Gone \in Things
    BY <1>5 DEF Delete, Put, Person, Things
  <2>2. UNCHANGED <<hist.remade, hist.unmarked>>
    BY <1>1, <1>5 DEF Delete, IsHist
  <2>3. \A m \in Node : \A k \in DOMAIN on[m] : on'[m][k] = IF m = n /\ k = i THEN Gone ELSE on[m][k]
    BY <1>1, <2>1, Replaced
  <2> QED
    BY <2>1, <2>2, <2>3 DEF Grown, There
<1>6. ASSUME NEW n \in Node, NEW i \in DOMAIN on[n], NEW e \in Extra, Mark(n, i, e)
      PROVE  Grown /\ UNCHANGED <<recs, run, hist.remade, hist.unmarked>>
  <2>1. PICK E \in SUBSET Extra : /\ on' = Written(on, n, i, "extra", E)
                                  /\ (on[n][i].extra \subseteq E /\ UNCHANGED hist) \/ hist'.unmarked
    BY <1>6, MarkIs
  <2>2. There(on[n], i) /\ UNCHANGED <<recs, run>>
    BY <1>6, MarkIs
  <2> QED
    BY <1>3, <2>1, <2>2
<1>7. ASSUME NEW n \in Node, NEW i \in DOMAIN on[n], Wear(n, i)
      PROVE  Grown /\ UNCHANGED <<recs, run, hist.remade, hist.unmarked>>
  <2>1. UNCHANGED <<on, recs, run>>
    BY <1>7 DEF Wear, Person
  <2>2. UNCHANGED <<hist.remade, hist.unmarked>>
    BY <1>1, <1>7 DEF Wear, IsHist
  <2> QED
    BY <2>1, <2>2 DEF Grown
<1> QED
  BY <1>2, <1>4, <1>5, <1>6, <1>7 DEF People

LEMMA OnNodesStays ==
  ASSUME TypeInv, OnNodes, Grown, UNCHANGED recs
  PROVE  OnNodes'
<1>1. \A i \in DOMAIN recs : \A n \in DOMAIN recs[i].copies : n \in Node /\ recs[i].copies[n] \in DOMAIN on[n]
  BY DEF TypeInv, RecordsOK, RecordOK
<1> QED
  BY <1>1 DEF OnNodes, Grown

LEMMA ReadOnStays ==
  ASSUME TypeInv, ReadOn, Grown, UNCHANGED run.snap \/ DOMAIN run'.snap = {}
  PROVE  ReadOn'
<1>1. \A n \in Read : n \in Node /\ DOMAIN run.snap[n] \subseteq DOMAIN on[n]
  BY DEF TypeInv, RunInv, RunOK, Read
<1> QED
  BY <1>1 DEF ReadOn, Grown, Read

LEMMA AtMarkStays ==
  ASSUME TypeInv, AtMark, Grown, UNCHANGED <<run.ph, run.rec, run.snap, run.have>>
  PROVE  AtMark'
<1>1. run.ph \in {"mark", "save"} => \A n \in DOMAIN run.rec.copies : n \in Node /\ run.rec.copies[n] \in DOMAIN on[n]
  BY DEF TypeInv, RunInv, AtHand, Working, Merging, RecordOK
<1> QED
  BY <1>1 DEF AtMark, Grown, Read

LEMMA OnReadStays ==
  ASSUME OnRead, UNCHANGED recs,
         \/ DOMAIN run'.snap = {}
         \/ UNCHANGED run.snap /\ run.ph \in Reading
         \/ UNCHANGED run.snap /\ run'.ph \notin Reading /\ run'.todo \subseteq run.todo
  PROVE  OnRead'
BY DEF OnRead, Read

\* No record is at hand afterwards.
LEMMA NoMarksAtHand == run'.ph \notin Working => AtMerge' /\ AtMark' /\ OnlyAdds'
BY DEF AtMerge, AtMark, OnlyAdds, Working, Merging

\* The nodes may change, and the record at hand stays.
LEMMA MarksStand ==
  ASSUME TypeInv, Marks3, Grown, UNCHANGED recs,
         UNCHANGED <<run.ph, run.rec, run.snap, run.have>>, run'.todo = run.todo, run'.left \subseteq run.left
  PROVE  Marks3'
<1>1. OnNodes' /\ ReadOn' /\ AtMark'
  BY OnNodesStays, ReadOnStays, AtMarkStays DEF Marks3
<1>2. OnRead'
  BY OnReadStays DEF Marks3
<1>3. AtMerge' /\ OnlyAdds'
  BY DEF Marks3, AtMerge, OnlyAdds, Read, Seen
<1> QED
  BY <1>1, <1>2, <1>3 DEF Marks3

LEMMA MarksAside ==
  ASSUME TypeInv, Marks3, Grown, UNCHANGED recs, run'.ph \notin Working,
         \/ DOMAIN run'.snap = {}
         \/ UNCHANGED run.snap /\ run.ph \in Reading
         \/ UNCHANGED run.snap /\ run'.ph \notin Reading /\ run'.todo \subseteq run.todo
  PROVE  Marks3'
BY OnNodesStays, ReadOnStays, OnReadStays, NoMarksAtHand DEF Marks3

LEMMA BeginMarks ==
  ASSUME TypeInv, Marks3, Grown, Begin \/ ReadIssues \/ PassOver \/ AllAttached
  PROVE  Marks3'
<1>1. UNCHANGED recs /\ IsRun(run)
  BY DEF Begin, ReadIssues, PassOver, AllAttached, TypeInv, RunInv, RunOK
<1>2. /\ run'.ph \in {"idle", "read", "attach", "records"}
      /\ DOMAIN run'.snap = {} \/ (UNCHANGED run.snap /\ run.ph \in Reading)
  <2>1. CASE Begin
    BY <2>1, IdleRun DEF Begin, IsRun
  <2>2. CASE ReadIssues
    BY <1>1, <2>2 DEF ReadIssues, IsRun, Reading
  <2>3. CASE PassOver /\ N = Primary
    BY <2>3, IdleRun DEF PassOver
  <2>4. CASE PassOver /\ N # Primary
    BY <1>1, <2>4 DEF PassOver, IsRun, Reading
  <2>5. CASE AllAttached
    BY <1>1, <2>5 DEF AllAttached, IsRun, Reading
  <2> QED
    BY <2>1, <2>2, <2>3, <2>4, <2>5
<1> QED
  BY <1>1, <1>2, MarksAside DEF Working, Merging

LEMMA AsideMarks ==
  ASSUME TypeInv, Marks3, Grown, Labels \/ SetLabels \/ SaveLabels \/ Tell \/ CutOff
  PROVE  Marks3'
<1>1. UNCHANGED recs /\ IsRun(run)
  BY DEF Labels, SetLabels, SaveLabels, Tell, CutOff, Own, TypeInv, RunInv, RunOK
<1>2. /\ run'.ph \in {"idle", "labels", "saveLabels", "tell"}
      /\ DOMAIN run'.snap = {} \/ (UNCHANGED <<run.snap, run.todo>> /\ run'.ph \notin Reading)
  <2>1. CASE Labels
    BY <1>1, <2>1 DEF Labels, IsRun, Reading
  <2>2. CASE SetLabels
    BY <1>1, <2>2 DEF SetLabels, Past, Incomplete, IsRun, Reading
  <2>3. CASE SaveLabels
    BY <1>1, <2>3 DEF SaveLabels, IsRun, Reading
  <2>4. CASE Tell \/ CutOff
    BY <2>4, IdleRun DEF Tell, CutOff
  <2> QED
    BY <2>1, <2>2, <2>3, <2>4
<1> QED
  BY <1>1, <1>2, MarksAside DEF Working, Merging

LEMMA ReadNodeMarks ==
  ASSUME TypeInv, Marks3, Grown, ReadNode
  PROVE  Marks3'
<1>1. UNCHANGED <<on, recs>> /\ N \in Node /\ IsRun(run) /\ run.ph \in Reading
  BY Ordered DEF ReadNode, TypeInv, RunInv, RunOK, N, Reading
<1>2. /\ run'.ph \in {"readIssues", "attach", "read"}
      /\ DOMAIN run'.snap = DOMAIN run.snap \cup {N}
      /\ \A n \in DOMAIN run'.snap : run'.snap[n] = IF n = N THEN on[n] ELSE run.snap[n]
  BY <1>1 DEF ReadNode, IsRun
<1>3. OnRead'
  BY <1>1, <1>2 DEF Marks3, OnNodes, OnRead, Read
<1>4. ReadOn'
  BY <1>1, <1>2 DEF Marks3, ReadOn, Read
<1> QED
  BY <1>1, <1>2, <1>3, <1>4, OnNodesStays, NoMarksAtHand DEF Marks3, Working, Merging

\* What hangs on a new copy is no less than on its record's base, when nothing
\* has hung on the record.
LEMMA AttachMarks ==
  ASSUME TypeInv, Marks3, Grown, NEW n \in Node, Attach(n), ~hist'.remade
  PROVE  Marks3'
<1>1. PICK i \in DOMAIN on[n] :
           /\ run.ph = "attach" /\ n \in Read /\ UNCHANGED <<kind, on, worn, run, people, faults>>
           /\ i \in DOMAIN run.snap[n] /\ There(run.snap[n], i) /\ run.snap[n][i] \in Thing
           /\ \A k \in DOMAIN recs : n \in DOMAIN recs[k].copies => recs[k].copies[n] # i
           /\ \E s : Recognised(n, i, s) \/ \E k : Attached(n, i, k, s)
  BY AttachIs
<1>2. \A j \in DOMAIN recs' : recs'[j].extra = {} \/ (j \in DOMAIN recs /\ recs'[j] = recs[j])
  <2>1. ASSUME NEW s, NEW k, Attached(n, i, k, s)
        PROVE  \A j \in DOMAIN recs' : recs'[j].extra = {} \/ (j \in DOMAIN recs /\ recs'[j] = recs[j])
    <3>1. recs[k].extra = {} /\ s.extra = {}
      BY <2>1 DEF Attached
    <3> QED
      BY <2>1, <3>1 DEF Attached
  <2>2. ASSUME NEW s, Recognised(n, i, s)
        PROVE  \A j \in DOMAIN recs' : recs'[j].extra = {} \/ (j \in DOMAIN recs /\ recs'[j] = recs[j])
    BY <2>2 DEF Recognised
  <2> QED
    BY <1>1, <2>1, <2>2
<1>3. OnNodes'
  BY <1>1, <1>2 DEF Marks3, OnNodes
<1>4. OnRead'
  BY <1>1, <1>2 DEF Marks3, OnRead, Read, Reading
<1>5. ReadOn'
  BY <1>1 DEF Marks3, ReadOn, Read
<1> QED
  BY <1>1, <1>3, <1>4, <1>5, NoMarksAtHand DEF Marks3, Working, Merging

LEMMA TakeMarks ==
  ASSUME TypeInv, Marks3, Grown, Take
  PROVE  Marks3'
<1> DEFINE i == Lowest(run.todo)
<1>1. UNCHANGED <<on, recs>> /\ run.ph = "records" /\ i \in run.todo /\ i \in DOMAIN recs /\ IsRun(run)
  BY TakeLeaves DEF TypeInv, RunInv, RunOK
<1>2. CASE WasDeleted(i)
  <2>1. DeletedRun(i, recs[i])
    BY <1>2, ToDeleteIs
  <2> HIDE DEF i
  <2>2. run'.ph = "delete" /\ run'.todo \subseteq run.todo /\ UNCHANGED run.snap
    BY <2>1 DEF DeletedRun
  <2>3. OnNodes' /\ ReadOn' /\ OnRead'
    BY <1>1, <2>2, OnNodesStays, ReadOnStays, OnReadStays DEF Marks3, Reading
  <2> QED
    BY <2>2, <2>3 DEF Marks3, AtMerge, AtMark, OnlyAdds
<1>3. CASE ~WasDeleted(i)
  <2> DEFINE p == Picked(i)
             s == Taking(i)
  <2>1. run' = p \/ run' = MergedInto(p, s)
    BY <1>3, TakenIs
  <2>2. /\ IsRun(p) /\ p.todo = run.todo \ {i} /\ p.ph = run.ph /\ p.snap = run.snap
    BY <1>1, PickedIs
  <2>3. /\ IsRecord(s) /\ s.extra = recs[i].extra /\ DOMAIN s.copies = DOMAIN recs[i].copies \ Lost(i)
        /\ \A n \in DOMAIN s.copies : s.copies[n] = recs[i].copies[n]
    BY <1>1, <1>3, TakingIs DEF RecordOK
  <2> HIDE DEF i, p, s
  <2>4. CASE run' = p
    BY <1>1, <2>2, <2>4, MarksAside DEF Working, Merging, Reading
  <2>5. CASE run' = MergedInto(p, s)
    <3>1. MergedRun(p, s, run')
      BY <2>2, <2>3, <2>5, MergedIs
    <3>2. /\ run'.ph = "edit" /\ run'.todo \subseteq run.todo /\ UNCHANGED run.snap
          /\ run'.rec.copies = s.copies /\ run'.rec.extra = s.extra
      BY <2>2, <3>1 DEF MergedRun
    <3>3. OnNodes' /\ ReadOn' /\ OnRead'
      BY <1>1, <3>2, OnNodesStays, ReadOnStays, OnReadStays DEF Marks3, Reading
    <3>4. ASSUME NEW n \in Read \cap DOMAIN s.copies
          PROVE  There(run.snap[n], s.copies[n]) /\ s.extra \subseteq run.snap[n][s.copies[n]].extra
      <4>1. n \in Present(recs[i]) /\ n \in DOMAIN recs[i].copies /\ s.copies[n] = recs[i].copies[n]
        BY <2>3 DEF Lost
      <4> QED
        BY <1>1, <2>3, <4>1 DEF Present, Marks3, OnRead
    <3>5. AtMerge'
      BY <3>2, <3>4 DEF AtMerge, Seen, Read
    <3> QED
      BY <3>2, <3>3, <3>5 DEF Marks3, AtMark, OnlyAdds
  <2> QED
    BY <2>1, <2>4, <2>5
<1> QED
  BY <1>2, <1>3

\* Nothing of the base is missing where it was read, so nothing is taken off.
LEMMA MarksAdd ==
  ASSUME Marks3, run.ph \in {"edit", "make", "close"}, NEW c \in Marks
  PROVE  c[1] = "add"
<1>1. SUFFICES ASSUME c[1] # "add" PROVE FALSE
  OBVIOUS
<1>2. c[3] \in RemoveFrom(Have, run.rec.extra, c[2])
  BY <1>1 DEF Marks
<1>3. PICK o \in DOMAIN Have : c[3] \notin Have[o] /\ c[3] \in run.rec.extra
  BY <1>2 DEF RemoveFrom
<1>4. o \in Read \cap DOMAIN run.rec.copies
  BY DEF Have
<1>5. There(run.snap[o], run.rec.copies[o]) /\ run.rec.extra \subseteq Seen(run.rec, o).extra
  BY <1>3, <1>4 DEF Marks3, AtMerge
<1> QED
  BY <1>3, <1>4, <1>5 DEF Have

LEMMA NextPhaseMarks ==
  ASSUME TypeInv, Marks3, Grown, NextPhase
  PROVE  Marks3'
<1>1. UNCHANGED <<on, recs>> /\ UNCHANGED <<run.snap, run.rec, run.todo>>
  BY NextPhaseIs DEF NextPhase
<1>2. \/ run.ph \in {"edit", "make"} /\ run'.ph \in {"make", "close"}
      \/ /\ run.ph \in {"edit", "make", "close"} /\ run'.ph \in {"save", "mark"}
         /\ run'.left = Marks /\ run'.have = Have
      \/ run.ph \in {"mark", "delete"} /\ run'.ph = "save" /\ run'.have = run.have
  BY NextPhaseIs
<1>3. OnNodes' /\ ReadOn' /\ OnRead'
  BY <1>1, <1>2, OnNodesStays, ReadOnStays, OnReadStays DEF Marks3, Reading
<1>4. AtMerge'
  BY <1>1, <1>2 DEF Marks3, AtMerge, Read, Seen
<1>5. OnlyAdds'
  BY <1>2, MarksAdd DEF OnlyAdds
<1>6. AtMark'
  <2>1. CASE run.ph \in {"edit", "make"} /\ run'.ph \in {"make", "close"}
    BY <2>1 DEF AtMark
  <2>2. CASE run.ph \in {"edit", "make", "close"} /\ run'.ph \in {"save", "mark"} /\ run'.have = Have
    <3>1. DOMAIN Have = Read \cap DOMAIN run.rec.copies
      BY DEF Have
    <3>2. ASSUME NEW n \in DOMAIN Have, There(on[n], run.rec.copies[n])
          PROVE  Have[n] \subseteq on[n][run.rec.copies[n]].extra
      BY <3>1, <3>2 DEF Have, Seen, Marks3, ReadOn, There
    <3> QED
      BY <1>1, <2>2, <3>1, <3>2 DEF AtMark, Read
  <2>3. CASE run.ph \in {"mark", "delete"} /\ run'.ph = "save" /\ run'.have = run.have
    <3>1. run.ph = "delete" => run.rec.deleted
      BY DEF TypeInv, RunInv, AtHand, Working
    <3> QED
      BY <1>1, <2>3, <3>1 DEF Marks3, AtMark, Read
  <2> QED
    BY <1>2, <2>1, <2>2, <2>3
<1> QED
  BY <1>3, <1>4, <1>5, <1>6 DEF Marks3

\* A call that puts nothing on a copy and records nothing.
LEMMA CallMarks ==
  ASSUME TypeInv, Marks3, Grown, UNCHANGED recs, run.ph \in {"edit", "make", "close", "delete"},
         UNCHANGED <<run.ph, run.snap, run.todo>>, UNCHANGED run.rec \/ run.ph = "delete"
  PROVE  Marks3'
<1>1. OnNodes' /\ ReadOn' /\ OnRead'
  BY OnNodesStays, ReadOnStays, OnReadStays DEF Marks3, Reading
<1>2. AtMerge'
  BY DEF Marks3, AtMerge, Read, Seen
<1> QED
  BY <1>1, <1>2 DEF Marks3, AtMark, OnlyAdds

LEMMA EditCopyMarks ==
  ASSUME TypeInv, Marks3, Grown, EditCopy \/ ClosePull \/ DeleteCopy
  PROVE  Marks3'
<1>1. CASE EditCopy
  <2>1. PICK f \in Merged, n \in DOMAIN run.rec.copies : run.ph = "edit" /\ Called(<<f, n>>)
    BY <1>1, EditCopyIs
  <2> QED
    BY <2>1, CallMarks DEF Called, OneCallLess
<1>2. CASE ClosePull
  <2>1. PICK n \in DOMAIN run.rec.copies : run.ph = "close" /\ Called(n)
    BY <1>2, ClosePullIs
  <2> QED
    BY <2>1, CallMarks DEF Called, OneCallLess
<1>3. CASE DeleteCopy
  <2>1. PICK n \in DOMAIN run.rec.copies :
          /\ run.ph = "delete" /\ UNCHANGED recs /\ UNCHANGED <<run.ph, run.snap, run.todo>>
    BY <1>3, DeleteCopyIs DEF Called, OneCallLess, Removed
  <2> QED
    BY <2>1, CallMarks
<1> QED
  BY <1>1, <1>2, <1>3

LEMMA RecordedMarks ==
  ASSUME TypeInv, Marks3, Grown, run.ph = "make", NEW n \in run.left, n \in Node,
         Recorded(n), ~hist'.remade
  PROVE  Marks3'
<1> DEFINE id == Len(on[n]) + 1
           r == run.rec
           s == Copied(r, n, id)
           i == run.i
<1>1. /\ i \in DOMAIN recs /\ i \notin run.todo /\ RecordOK(r, on)
  BY DEF TypeInv, RunInv, AtHand, Working, Merging
<1>2. recs' = [recs EXCEPT ![i] = s] /\ run' = [Past(n) EXCEPT !.rec = s] /\ r.extra = {}
  BY DEF Recorded
<1>3. s.extra = {}
  <2> HIDE DEF r, id
  <2> QED
    BY <1>1, <1>2, CopiedIs DEF RecordOK
<1> HIDE DEF id, s
<1>4. run'.ph = "make" /\ run'.rec = s /\ UNCHANGED <<run.snap, run.todo>>
  <2> DEFINE p == Past(n)
  <2>1. IsRun(p) /\ p.ph = run.ph /\ p.snap = run.snap /\ p.todo = run.todo
    BY PastIs DEF TypeInv, RunInv, RunOK
  <2> HIDE DEF p
  <2>2. run' = [p EXCEPT !.rec = s]
    BY <1>2 DEF p
  <2> QED
    BY <2>1, <2>2 DEF IsRun
<1> HIDE DEF r, i
<1>5. DOMAIN recs' = DOMAIN recs /\ \A k \in DOMAIN recs : recs'[k] = IF k = i THEN s ELSE recs[k]
  BY <1>1, <1>2
<1>6. \A k \in DOMAIN recs : \A m \in DOMAIN recs[k].copies : m \in Node /\ recs[k].copies[m] \in DOMAIN on[m]
  BY DEF TypeInv, RecordsOK, RecordOK
<1>7. OnNodes'
  BY <1>3, <1>5, <1>6 DEF Marks3, OnNodes, Grown
<1>8. OnRead'
  BY <1>1, <1>4, <1>5 DEF Marks3, OnRead, Read, Reading
<1>9. ReadOn'
  BY <1>4, ReadOnStays DEF Marks3
<1> QED
  BY <1>3, <1>4, <1>7, <1>8, <1>9 DEF Marks3, AtMerge, AtMark, OnlyAdds

LEMMA MakeCopyMarks ==
  ASSUME TypeInv, Marks3, Grown, MakeCopy, ~hist'.remade
  PROVE  Marks3'
<1> DEFINE n == NextNode
<1>1. run.ph = "make" /\ n \in run.left /\ n \in Node /\ (Recorded(n) \/ Unrecorded(n) \/ NotMade(n))
  BY MakeCopyIs
<1> HIDE DEF n
<1>2. CASE Recorded(n)
  BY <1>1, <1>2, RecordedMarks
<1>3. CASE UNCHANGED recs /\ run' = Incomplete(Past(n))
  BY <1>1, <1>3, OneCall, CallMarks DEF OneCallLess
<1>4. CASE UNCHANGED recs /\ run' = Idle
  BY <1>4, IdleRun, MarksAside DEF Working, Merging
<1> QED
  BY <1>1, <1>2, <1>3, <1>4 DEF Unrecorded, NotMade

\* What was put on a copy is counted, and is there.
LEMMA MarkCopyMarks ==
  ASSUME TypeInv, Marks3, Grown, MarkCopy
  PROVE  Marks3'
<1>1. PICK c \in run.left : MarkCall(c)
  BY MarkCopyIs
<1>2. /\ UNCHANGED recs /\ UNCHANGED <<run.ph, run.rec, run.snap, run.todo>>
      /\ run'.left \subseteq run.left /\ run.ph = "mark"
  BY <1>1 DEF MarkCall, Called, OneCallLess
<1>3. OnNodes' /\ ReadOn' /\ OnRead'
  BY <1>2, OnNodesStays, ReadOnStays, OnReadStays DEF Marks3, Reading
<1>4. CASE UNCHANGED run.have
  BY <1>2, <1>4, MarksStand
<1> DEFINE n == c[2]
           i == run.rec.copies[n]
           v == Marked(c, on[n][i].extra)
<1>5. CASE run'.have = [run.have EXCEPT ![n] = Marked(c, @)] /\ Wrote(n, "extra", v)
  <2>1. /\ n \in Node /\ i \in DOMAIN on[n] /\ v \subseteq Extra /\ c[1] = "add"
        /\ ~run.rec.deleted
    BY <1>1, <1>2, <1>5, MarkedTyped DEF Wrote, Alive, There, Now, Marks3, OnlyAdds,
       TypeInv, RunInv, AtHand, Working, Merging, RecordOK
  <2>2. v = on[n][i].extra \cup {c[3]} /\ Marked(c, run.have[n]) = run.have[n] \cup {c[3]}
    BY <2>1 DEF Marked
  <2>3. on'[n][i].extra = v
    <3> HIDE DEF v
    <3>1. on' = Written(on, n, i, "extra", v) /\ There(on[n], i) /\ on \in Lists
      BY <1>5 DEF Wrote, Alive, TypeInv, NodesTyped
    <3> HIDE DEF n, i
    <3>2. on'[n][i] = With(on[n][i], "extra", v)
      BY <2>1, <3>1, FieldPut
    <3>3. on[n][i] \in Thing
      BY <2>1, <3>1 DEF Lists, Things, There
    <3> QED
      BY <3>2, <3>3, WithIs
  <2> HIDE DEF v
  <2>4. DOMAIN run.have = Read \cap DOMAIN run.rec.copies
    BY <1>2, <2>1 DEF Marks3, AtMark
  <2>5. \A m \in DOMAIN run.have : There(on[m], run.rec.copies[m]) => run.have[m] \subseteq on[m][run.rec.copies[m]].extra
    BY <1>2, <2>1 DEF Marks3, AtMark
  <2>6. \A m \in DOMAIN run.rec.copies : m \in Node /\ run.rec.copies[m] \in DOMAIN on[m]
    BY <1>2 DEF TypeInv, RunInv, AtHand, Working, Merging, RecordOK
  <2>7. ASSUME NEW m \in DOMAIN run.have, There(on'[m], run.rec.copies[m])
        PROVE  run'.have[m] \subseteq on'[m][run.rec.copies[m]].extra
    <3>1. run.have[m] \subseteq on[m][run.rec.copies[m]].extra /\ on[m][run.rec.copies[m]].extra \subseteq on'[m][run.rec.copies[m]].extra
      BY <2>4, <2>5, <2>6, <2>7 DEF Grown
    <3>2. CASE m = n
      <4>1. run'.have[m] = run.have[n] \cup {c[3]}
        BY <1>5, <2>2, <2>7, <3>2
      <4> QED
        BY <2>2, <2>3, <3>1, <3>2, <4>1
    <3>3. CASE m # n
      <4>1. run'.have[m] = run.have[m]
        BY <1>5, <2>7, <3>3
      <4> QED
        BY <3>1, <4>1
    <3> QED
      BY <3>2, <3>3
  <2>8. DOMAIN run'.have = DOMAIN run.have
    BY <1>5
  <2>9. AtMark'
    BY <1>2, <2>4, <2>7, <2>8 DEF AtMark, Read
  <2> QED
    BY <1>2, <1>3, <2>9 DEF Marks3, AtMerge, OnlyAdds
<1>6. CASE run'.have = [run.have EXCEPT ![n] = Marked(c, @)] /\ UNCHANGED on /\ ~Alive(n)
  <2>1. ~run.rec.deleted
    BY <1>2 DEF TypeInv, RunInv, AtHand, Working, Merging
  <2>2. \A m \in DOMAIN run.have : m # n => run'.have[m] = run.have[m]
    BY <1>6
  <2>3. DOMAIN run'.have = DOMAIN run.have
    BY <1>6
  <2>4. AtMark'
    BY <1>2, <1>6, <2>1, <2>2, <2>3 DEF Marks3, AtMark, Read, Alive
  <2> QED
    BY <1>2, <1>3, <2>4 DEF Marks3, AtMerge, OnlyAdds
<1>7. \/ UNCHANGED run.have
      \/ /\ run'.have = [run.have EXCEPT ![n] = Marked(c, @)]
         /\ \/ UNCHANGED on /\ ~Alive(n)
            \/ Wrote(n, "extra", v)
  BY <1>1 DEF MarkCall, Now
<1> QED
  BY <1>4, <1>5, <1>6, <1>7

\* What settles hangs on every copy: it was found on each, or it is of the base.
LEMMA SettledOn ==
  ASSUME TypeInv, Marks3, run.ph = "save", ~run.rec.deleted, NEW n \in DOMAIN run.rec.copies,
         There(on[n], run.rec.copies[n])
  PROVE  SettledExtra(run) \subseteq on[n][run.rec.copies[n]].extra
<1>1. /\ run.i \in DOMAIN recs /\ run.rec.extra = recs[run.i].extra
      /\ n \in DOMAIN recs[run.i].copies /\ run.rec.copies[n] = recs[run.i].copies[n]
  BY DEF TypeInv, RunInv, AtHand, Working
<1>2. run.rec.extra \subseteq on[n][run.rec.copies[n]].extra
  BY <1>1 DEF Marks3, OnNodes
<1>3. CASE DOMAIN run.rec.copies \subseteq Read
  <2>1. n \in DOMAIN run.have /\ run.have[n] \subseteq on[n][run.rec.copies[n]].extra
    BY <1>3 DEF Marks3, AtMark
  <2>2. ASSUME NEW m \in Settle(run.have, run.rec.extra)
        PROVE  m \in on[n][run.rec.copies[n]].extra
    <3>1. m \in run.have[n] \/ m \in run.rec.extra
      BY <2>1, <2>2 DEF Settle
    <3> QED
      BY <1>2, <2>1, <3>1
  <2> QED
    BY <1>2, <2>2 DEF SettledExtra
<1>4. CASE ~(DOMAIN run.rec.copies \subseteq Read)
  BY <1>2, <1>4 DEF SettledExtra
<1> QED
  BY <1>3, <1>4

LEMMA SaveMarks ==
  ASSUME TypeInv, Marks3, Grown, Save
  PROVE  Marks3'
<1> DEFINE i == run.i
<1>1. /\ run.ph = "save" /\ UNCHANGED on /\ run'.ph = "records" /\ UNCHANGED <<run.snap, run.todo>>
      /\ \/ recs' = Without(recs, {i}) /\ run.rec.deleted
         \/ \E s : SavedFor(s) /\ recs' = [recs EXCEPT ![i] = s]
  BY SaveIs
<1>2. /\ i \in DOMAIN recs /\ i \notin run.todo /\ run.rec.extra = recs[i].extra
      /\ \A m \in DOMAIN run.rec.copies : m \in DOMAIN recs[i].copies /\ run.rec.copies[m] = recs[i].copies[m]
  BY <1>1 DEF TypeInv, RunInv, AtHand, Working
<1> HIDE DEF i
<1>3. OnNodes' /\ OnRead'
  <2>1. CASE recs' = Without(recs, {i})
    <3>1. DOMAIN recs' \subseteq DOMAIN recs /\ \A k \in DOMAIN recs' : recs'[k] = recs[k]
      BY <2>1 DEF Without
    <3> QED
      BY <1>1, <3>1 DEF Marks3, OnNodes, OnRead, Read, Reading
  <2>2. ASSUME NEW s, SavedFor(s), recs' = [recs EXCEPT ![i] = s]
        PROVE  OnNodes' /\ OnRead'
    <3>1. DOMAIN recs' = DOMAIN recs /\ \A k \in DOMAIN recs : recs'[k] = IF k = i THEN s ELSE recs[k]
      BY <2>2
    <3>2. ASSUME NEW n \in DOMAIN s.copies, There(on[n], s.copies[n])
          PROVE  s.extra \subseteq on[n][s.copies[n]].extra
      <4>1. CASE run.rec.deleted
        BY <1>2, <2>2, <3>2, <4>1 DEF SavedFor, Marks3, OnNodes
      <4>2. CASE ~run.rec.deleted
        BY <1>1, <2>2, <3>2, <4>2, SettledOn DEF SavedFor
      <4> QED
        BY <4>1, <4>2
    <3>3. OnNodes'
      BY <1>1, <3>1, <3>2 DEF Marks3, OnNodes
    <3>4. OnRead'
      BY <1>1, <1>2, <3>1 DEF Marks3, OnRead, Read, Reading
    <3> QED
      BY <3>3, <3>4
  <2> QED
    BY <1>1, <2>1, <2>2
<1>4. ReadOn'
  BY <1>1, ReadOnStays DEF Marks3
<1> QED
  BY <1>1, <1>3, <1>4, NoMarksAtHand DEF Marks3, Working, Merging

-----------------------------------------------------------------------------
(* What hangs on things, always.                                           *)

\* What people took off, or a copy was made without, stays known.
LEMMA FlagsStay ==
  ASSUME TypeInv, [Next]_vars, ~hist'.unmarked, ~hist'.remade
  PROVE  ~hist.unmarked /\ ~hist.remade
<1>1. CASE People
  BY <1>1, GrownPeople
<1>2. CASE EditCopy \/ ClosePull
  <2>1. IsHist(hist)
    BY DEF TypeInv, NodesTyped
  <2>2. CASE UNCHANGED hist
    BY <2>2
  <2>3. ASSUME NEW n \in Node, NEW S, hist' = Heard(n, S)
        PROVE  OnlyBeen
    BY <2>3, HeardIs
  <2>4. CASE EditCopy
    <3>1. PICK f \in Merged, n \in DOMAIN run.rec.copies :
            UNCHANGED hist \/ (Wrote(n, f, run.want[f]) /\ hist' = Heard(n, {<<f, run.want[f]>>}))
      BY <2>4, EditCopyIs
    <3> QED
      BY <2>3, <3>1 DEF Wrote, OnlyBeen
  <2>5. CASE ClosePull
    <3>1. PICK n \in DOMAIN run.rec.copies :
            UNCHANGED hist \/ (Wrote(n, "text", Closed) /\ hist' = Heard(n, {<<"text", Closed>>}))
      BY <2>5, ClosePullIs
    <3> QED
      BY <2>3, <3>1 DEF Wrote, OnlyBeen
  <2> QED
    BY <1>2, <2>4, <2>5
<1>3. CASE MakeCopy
  BY <1>3, MakeCopyIs DEF Recorded, Unrecorded, NotMade, OnlyBeen
<1>4. CASE Save
  BY <1>4, SaveIs
<1>5. CASE \E n \in Node : Attach(n)
  <2>1. PICK n \in Node : Attach(n)
    BY <1>5
  <2>2. PICK i \in DOMAIN on[n] : \E s : Recognised(n, i, s) \/ \E k : Attached(n, i, k, s)
    BY <2>1, AttachIs
  <2>3. hist'.unmarked = hist.unmarked
    BY <2>2 DEF Recognised, Attached
  <2>4. hist'.remade = hist.remade \/ \E k : hist'.remade = (hist.remade \/ recs[k].extra # {})
    BY <2>2 DEF Recognised, Attached
  <2> QED
    BY <2>3, <2>4
<1>6. CASE \/ Begin \/ ReadNode \/ ReadIssues \/ PassOver \/ AllAttached \/ Take \/ NextPhase \/ MarkCopy \/ DeleteCopy
           \/ Labels \/ SetLabels \/ SaveLabels \/ Tell \/ CutOff \/ BranchesArrive \/ UNCHANGED vars
  BY <1>6 DEF Begin, ReadNode, ReadIssues, PassOver, AllAttached, Take, NextPhase, MarkCopy, DeleteCopy,
     Labels, SetLabels, SaveLabels, Tell, CutOff, BranchesArrive, vars
<1> QED
  BY <1>1, <1>2, <1>3, <1>4, <1>5, <1>6 DEF Next, Run

LEMMA MarksInit == Init => MarksInv
<1> SUFFICES ASSUME Init PROVE Marks3
  BY DEF MarksInv
<1>1. run = Idle
  BY DEF Init
<1>2. OnRead /\ ReadOn /\ AtMerge /\ AtMark /\ OnlyAdds
  BY <1>1, IdleRun DEF OnRead, ReadOn, AtMerge, AtMark, OnlyAdds, Read
<1>3. OnNodes
  <2>1. PICK t \in Thing : \/ recs = << >>
                           \/ on = [n \in Node |-> <<t>>] /\ recs = [i \in {1} |-> Agreed(t)]
    BY DEF Init
  <2>2. CASE recs = << >>
    BY <2>2 DEF OnNodes
  <2>3. CASE on = [n \in Node |-> <<t>>] /\ recs = [i \in {1} |-> Agreed(t)]
    <3>1. ASSUME NEW i \in DOMAIN recs, NEW n \in DOMAIN recs[i].copies
          PROVE  recs[i].extra \subseteq on[n][recs[i].copies[n]].extra
      <4>1. recs[i] = Agreed(t)
        BY <2>3
      <4>2. n \in Node /\ recs[i].copies[n] = 1 /\ recs[i].extra = t.extra
        BY <4>1 DEF Agreed
      <4> QED
        BY <2>3, <4>2
    <3> QED
      BY <3>1 DEF OnNodes
  <2> QED
    BY <2>1, <2>2, <2>3
<1> QED
  BY <1>2, <1>3 DEF Marks3

LEMMA MarksStep == TypeInv /\ MarksInv /\ [Next]_vars => MarksInv'
<1> SUFFICES ASSUME TypeInv, MarksInv, [Next]_vars, ~hist'.unmarked, ~hist'.remade PROVE Marks3'
  BY DEF MarksInv
<1>1. Marks3
  BY FlagsStay DEF MarksInv
<1>2. CASE People
  <2>1. Grown /\ UNCHANGED <<recs, run>>
    BY <1>2, GrownPeople
  <2> QED
    BY <1>1, <2>1, MarksStand
<1>3. CASE Run \/ CutOff \/ BranchesArrive \/ UNCHANGED vars
  <2>1. Grown
    BY <1>1, <1>3, GrownOurs DEF Marks3
  <2>2. CASE Begin \/ ReadIssues \/ PassOver \/ AllAttached \/ ReadNode
    BY <1>1, <2>1, <2>2, BeginMarks, ReadNodeMarks
  <2>3. CASE \E n \in Node : Attach(n)
    BY <1>1, <2>1, <2>3, AttachMarks
  <2>4. CASE Take \/ NextPhase \/ EditCopy \/ MakeCopy
    BY <1>1, <2>1, <2>4, TakeMarks, NextPhaseMarks, EditCopyMarks, MakeCopyMarks
  <2>5. CASE ClosePull \/ MarkCopy \/ DeleteCopy \/ Save
    BY <1>1, <2>1, <2>5, EditCopyMarks, MarkCopyMarks, SaveMarks
  <2>6. CASE Labels \/ SetLabels \/ SaveLabels \/ Tell \/ CutOff
    BY <1>1, <2>1, <2>6, AsideMarks
  <2>7. CASE BranchesArrive \/ UNCHANGED vars
    BY <1>1, <2>1, <2>7, MarksStand DEF BranchesArrive, vars
  <2> QED
    BY <1>3, <2>2, <2>3, <2>4, <2>5, <2>6, <2>7 DEF Run
<1> QED
  BY <1>2, <1>3 DEF Next

LEMMA MarksAlways == Spec => [](TypeInv /\ MarksInv)
<1>1. Init => TypeInv /\ MarksInv
  BY TypeInit, MarksInit
<1>2. TypeInv /\ MarksInv /\ [Next]_vars => (TypeInv /\ MarksInv)'
  BY TypeStep, MarksStep
<1> QED
  BY <1>1, <1>2, PTL DEF Spec

\* Until a person takes something off a thing, ForgeSync takes nothing off one:
\* what a node that was away, a copy made and not recorded, or a run cut off
\* did not show is never read as taken back.
THEOREM NothingTakenOff == Spec => MarksStay
<1>1. TypeInv /\ MarksInv /\ [Next]_vars => [Ours /\ Unmarks /\ ~hist.remade => hist.unmarked]_vars
  <2> SUFFICES ASSUME TypeInv, MarksInv, [Next]_vars, Ours, ~hist.remade, ~hist.unmarked
               PROVE  ~Unmarks
    OBVIOUS
  <2>1. Grown
    BY WhoActs, GrownOurs DEF MarksInv, Marks3
  <2> QED
    BY <2>1 DEF Grown, Unmarks, Live
<1> QED
  BY <1>1, MarksAlways, PTL DEF Spec, MarksStay

-----------------------------------------------------------------------------
(* No node gets a thing twice.  As long as nobody changes a key, a copy    *)
(* has the key of its record, and what a node has of a key and what a run  *)
(* is still to make of it are together no more than people made.           *)

Looking == Reading \cup {"idle"}
\* The things of the key k: all of them, those made since the node was read,
\* and those that are to be attached, which in a snapshot need not be there.
Of(n, k) == {i \in Live(n) : on[n][i][KeyField] = k}
Later(n, k) == {i \in Of(n, k) \ Known(n) : n \in Read /\ i \notin DOMAIN run.snap[n]}
Unknown(n, k) == IF n \in Read THEN {i \in Fresh(n) : run.snap[n][i][KeyField] = k} ELSE Of(n, k) \ Known(n)
\* The records: all of them, those with a copy on n, and those that have one
\* there by the end of the run.
RecsOf(k) == {r \in DOMAIN recs : recs[r][KeyField] = k}
On(n, k) == {r \in RecsOf(k) : n \in DOMAIN recs[r].copies}
Due(n, k) == {r \in RecsOf(k) : \/ n \in DOMAIN recs[r].copies \/ r \in run.todo
                                \/ r = run.i /\ (run.ph = "edit" \/ (run.ph = "make" /\ n \in run.left))}

\* A copy has the key of its record, on its node, in the snapshot and at hand.
OnKey == \A r \in DOMAIN recs : \A n \in DOMAIN recs[r].copies :
    There(on[n], recs[r].copies[n]) => on[n][recs[r].copies[n]][KeyField] = recs[r][KeyField]
ReadKey == \A r \in DOMAIN recs : \A n \in Read \cap DOMAIN recs[r].copies :
    There(run.snap[n], recs[r].copies[n]) => run.snap[n][recs[r].copies[n]][KeyField] = recs[r][KeyField]
SnapKey == \A n \in Read : \A i \in DOMAIN run.snap[n] :
    There(on[n], i) => There(run.snap[n], i) /\ on[n][i][KeyField] = run.snap[n][i][KeyField]
HandKey ==
    /\ run.ph \in Working => run.rec[KeyField] = recs[run.i][KeyField]
    /\ run.ph \in {"edit", "make"} => run.want[KeyField] = run.rec[KeyField]

\* The copies of the records to come are older than the snapshots; what was
\* deleted on the primary has none there; a node is read once; everything read
\* gets a record; and the copies that a record loses were deleted.
InSnap == \A r \in DOMAIN recs : (run.ph \in Reading \/ r \in run.todo) =>
    \A n \in Read \cap DOMAIN recs[r].copies : recs[r].copies[n] \in DOMAIN run.snap[n]
NotOnPrimary ==
    /\ \A r \in DOMAIN recs : recs[r].deleted => Primary \notin DOMAIN recs[r].copies
    /\ run.ph \in Working /\ run.rec.deleted => Primary \notin DOMAIN run.rec.copies
ReadOnce ==
    /\ run.ph = "idle" => Read = {}
    /\ run.ph = "read" => \A j \in DOMAIN Order : Order[j] \in Read => j < run.at
    /\ run.ph = "readIssues" => \A j \in DOMAIN Order : Order[j] \in Read => j <= run.at
AllKnown == run.ph \notin Looking =>
    \A n \in Read : \A i \in DOMAIN run.snap[n] : There(on[n], i) => i \in Known(n)
GoneBefore == run.ph \in Working =>
    \A n \in DOMAIN recs[run.i].copies \ DOMAIN run.rec.copies : ~There(on[n], recs[run.i].copies[n])

\* While the run looks, a record that is still to be made for one node may
\* bring a copy to any other; then every record brings one copy at most.
CountOf(k) ==
    /\ Cardinality(RecsOf(k)) <= hist.made[k]
    /\ run.ph \in Looking => \A m, n \in Node :
         /\ Cardinality(Later(m, k)) + Cardinality(RecsOf(k)) <= hist.made[k]
         /\ Cardinality(Later(m, k)) + Cardinality(Unknown(n, k)) + Cardinality(On(n, k)) <= hist.made[k]
    /\ run.ph \notin Looking => \A n \in Node :
         IF n \in Read THEN Cardinality(Later(n, k)) + Cardinality(Due(n, k)) <= hist.made[k]
         ELSE Cardinality(Unknown(n, k)) + Cardinality(On(n, k)) <= hist.made[k]

MadeOK == hist.made = [k \in Keys |-> hist.made[k]] /\ \A k \in Keys : hist.made[k] \in Nat
Keyed == OnKey /\ ReadKey /\ SnapKey /\ HandKey
Placed == InSnap /\ NotOnPrimary /\ ReadOnce /\ AllKnown /\ GoneBefore
Counted == \A k \in Keys : CountOf(k)
TwinInv ==
    /\ MadeOK
    /\ ~hist.renamed => Keyed /\ Placed
    /\ ~hist.renamed /\ ~hist.unrecorded => Counted

-----------------------------------------------------------------------------
(* Keys stay.                                                              *)

LEMMA KeyFieldIs ==
  /\ KeyField \in Merged /\ KeyField \in Fields /\ KeyField \in {"key", "text"} /\ KeyField # "extra"
  /\ kind = "pull" => KeyField # "text"
  /\ \A t \in Thing : t[KeyField] \in Keys
  /\ UNCHANGED kind => KeyField' = KeyField /\ Keys' = Keys
BY DEF KeyField, Keys, Merged, Fields, Thing

\* What is there was there, with the same key.
KeysKept ==
    \A n \in Node : \A i \in DOMAIN on[n] :
        There(on'[n], i) => There(on[n], i) /\ on'[n][i][KeyField] = on[n][i][KeyField]
NoneMade == \A n \in Node : DOMAIN on'[n] = DOMAIN on[n]

LEMMA KeptOurs ==
  ASSUME TypeInv, OnKey, HandKey, Run \/ CutOff \/ BranchesArrive \/ UNCHANGED vars
  PROVE  KeysKept
<1> SUFFICES ASSUME NEW n \in Node, NEW i \in DOMAIN on[n], There(on'[n], i)
             PROVE  There(on[n], i) /\ on'[n][i][KeyField] = on[n][i][KeyField]
  BY DEF KeysKept
<1>1. ~Erased(n, i)
  BY DEF Erased, There
<1>2. CASE Untouched(n, i)
  BY <1>2 DEF Untouched, There
<1>3. ASSUME NEW f \in {"key", "text", "extra"}, NEW v, Rewritten(n, i, f, v), f # KeyField \/ v = on[n][i][KeyField]
      PROVE  There(on[n], i) /\ on'[n][i][KeyField] = on[n][i][KeyField]
  <2>1. on'[n][i][f] = v /\ \A g \in {"key", "text", "extra"} : g # f => on'[n][i][g] = on[n][i][g]
    BY <1>3, RewrittenIs
  <2>2. There(on[n], i)
    BY <1>3 DEF Rewritten
  <2> QED
    BY <1>3, <2>1, <2>2, KeyFieldIs
<1>4. ASSUME NEW f \in Merged, run.ph = "edit", Rewritten(n, i, f, run.want[f])
      PROVE  There(on[n], i) /\ on'[n][i][KeyField] = on[n][i][KeyField]
  <2>1. n \in DOMAIN run.rec.copies /\ i = run.rec.copies[n] /\ There(on[n], i)
    BY <1>4 DEF Rewritten
  <2>2. run.i \in DOMAIN recs /\ n \in DOMAIN recs[run.i].copies /\ i = recs[run.i].copies[n]
    BY <1>4, <2>1 DEF TypeInv, RunInv, AtHand, Working, Merging
  <2>3. run.want[KeyField] = on[n][i][KeyField]
    BY <1>4, <2>1, <2>2 DEF OnKey, HandKey, Working, Merging
  <2>4. f \in {"key", "text", "extra"}
    BY FieldsAre
  <2> QED
    BY <1>3, <1>4, <2>3, <2>4
<1>5. kind = "pull" /\ Rewritten(n, i, "text", Closed) => There(on[n], i) /\ on'[n][i][KeyField] = on[n][i][KeyField]
  BY <1>3, KeyFieldIs
<1>6. ASSUME NEW v, Rewritten(n, i, "extra", v)
      PROVE  There(on[n], i) /\ on'[n][i][KeyField] = on[n][i][KeyField]
  BY <1>3, <1>6, KeyFieldIs
<1> QED
  BY <1>1, <1>2, <1>4, <1>5, <1>6, OnlyCalls

\* The other steps of a run make nothing.
LEMMA MadeByCopies ==
  ASSUME TypeInv, Run \/ CutOff \/ BranchesArrive \/ UNCHANGED vars, ~MakeCopy
  PROVE  NoneMade
<1>1. CASE EditCopy \/ ClosePull \/ MarkCopy \/ DeleteCopy
  <2>1. \A m \in Node : Len(on'[m]) = Len(on[m])
    BY <1>1, LengthsStay
  <2>2. on \in Lists /\ on' \in Lists
    BY <1>1, TypeStep DEF TypeInv, NodesTyped, Next, Run
  <2> QED
    BY <2>1, <2>2 DEF NoneMade, Lists
<1>2. CASE ~(EditCopy \/ ClosePull \/ MarkCopy \/ DeleteCopy)
  <2>1. UNCHANGED on
    BY <1>2 DEF Run, Begin, ReadNode, ReadIssues, PassOver, AllAttached, Attach, Take, NextPhase, Save,
       Labels, SetLabels, SaveLabels, Tell, CutOff, BranchesArrive, vars
  <2> QED
    BY <2>1 DEF NoneMade
<1> QED
  BY <1>1, <1>2

LEMMA KeptPeople ==
  ASSUME TypeInv, People, ~hist'.renamed
  PROVE  /\ KeysKept /\ UNCHANGED <<kind, recs, run, hist.unrecorded>> /\ ~hist.renamed
         /\ \/ NoneMade /\ UNCHANGED hist.made
            \/ \E n \in Node, t \in Thing : /\ on' = More(on, n, t)
                                            /\ hist'.made = [hist.made EXCEPT ![t[KeyField]] = @ + 1]
<1>1. on \in Lists /\ IsHist(hist)
  BY DEF TypeInv, NodesTyped
<1> DEFINE Same == UNCHANGED <<kind, recs, run, hist.unrecorded>> /\ ~hist.renamed
<1>2. ASSUME NEW n \in Node, NEW t \in Thing, Make(n, t)
      PROVE  /\ KeysKept /\ Same /\ on' = More(on, n, t)
             /\ hist'.made = [hist.made EXCEPT ![t[KeyField]] = @ + 1]
  <2>1. on' = More(on, n, t) /\ UNCHANGED <<kind, recs, run>> /\ t \in Things
    BY <1>2 DEF Make, More, Person, Things
  <2>2. UNCHANGED hist.unrecorded /\ ~hist.renamed /\ hist'.made = [hist.made EXCEPT ![t[KeyField]] = @ + 1]
    BY <1>1, <1>2 DEF Make, IsHist
  <2>3. \A m \in Node : \A k \in DOMAIN on[m] : on'[m][k] = on[m][k]
    BY <1>1, <2>1, Appended
  <2> QED
    BY <2>1, <2>2, <2>3 DEF KeysKept, There
<1>3. ASSUME NEW n \in Node, NEW i \in DOMAIN on[n], NEW f \in {"key", "text", "extra"}, NEW v, There(on[n], i),
             on' = Written(on, n, i, f, v), f # KeyField,
             \/ f = "key" /\ v \in Key
             \/ f = "text" /\ v \in Text
             \/ f = "extra" /\ v \subseteq Extra
      PROVE  KeysKept /\ NoneMade
  <2>1. /\ \A m \in Node : DOMAIN on'[m] = DOMAIN on[m]
        /\ \A m \in Node : \A k \in DOMAIN on[m] :
             on'[m][k] = IF m = n /\ k = i THEN With(on[m][k], f, v) ELSE on[m][k]
    BY <1>1, <1>3, FieldPut
  <2>2. on[n][i] \in Thing
    BY <1>1, <1>3 DEF Lists, Things, There
  <2>3. With(on[n][i], f, v)[KeyField] = on[n][i][KeyField]
    BY <1>3, <2>2, WithIs, KeyFieldIs
  <2> QED
    BY <1>3, <2>1, <2>3 DEF KeysKept, NoneMade, There
<1>4. ASSUME NEW n \in Node, NEW i \in DOMAIN on[n], NEW f \in Fields, NEW v \in Possible(f), Edit(n, i, f, v)
      PROVE  KeysKept /\ Same /\ NoneMade /\ UNCHANGED hist.made
  <2>1. on' = Written(on, n, i, f, v) /\ There(on[n], i) /\ UNCHANGED <<kind, recs, run>>
    BY <1>4 DEF Edit, Written, Person
  <2>2. UNCHANGED <<hist.made, hist.unrecorded>> /\ ~hist.renamed /\ f # KeyField
    <3> DEFINE changed == hist.renamed \/ f = KeyField
               been == [hist.been EXCEPT ![n] = @ \cup {<<f, v>>}]
    <3>1. hist' = [hist EXCEPT !.been = been, !.renamed = changed]
      BY <1>4 DEF Edit
    <3> HIDE DEF changed, been
    <3>2. UNCHANGED <<hist.made, hist.unrecorded>> /\ hist'.renamed = changed
      BY <1>1, <3>1 DEF IsHist
    <3> QED
      BY <3>2 DEF changed
  <2>3. (f = "key" /\ v \in Key) \/ (f = "text" /\ v \in Text)
    BY IssuesAssumption DEF Possible, Fields
  <2> QED
    BY <1>3, <2>1, <2>2, <2>3
<1>5. ASSUME NEW n \in Node, NEW i \in DOMAIN on[n], Delete(n, i)
      PROVE  KeysKept /\ Same /\ NoneMade /\ UNCHANGED hist.made
  <2>1. on' = Put(on, n, i, Gone) /\ UNCHANGED <<kind, recs, run>> /\ Gone \in Things
    BY <1>5 DEF Delete, Put, Person, Things
  <2>2. UNCHANGED <<hist.made, hist.unrecorded>> /\ ~hist.renamed
    BY <1>1, <1>5 DEF Delete, IsHist
  <2>3. /\ \A m \in Node : DOMAIN on'[m] = DOMAIN on[m]
        /\ \A m \in Node : \A k \in DOMAIN on[m] : on'[m][k] = IF m = n /\ k = i THEN Gone ELSE on[m][k]
    BY <1>1, <2>1, Replaced
  <2> QED
    BY <2>1, <2>2, <2>3 DEF KeysKept, NoneMade, There
<1>6. ASSUME NEW n \in Node, NEW i \in DOMAIN on[n], NEW e \in Extra, Mark(n, i, e)
      PROVE  KeysKept /\ Same /\ NoneMade /\ UNCHANGED hist.made
  <2>1. PICK E \in SUBSET Extra : on' = Written(on, n, i, "extra", E)
    BY <1>6, MarkIs
  <2>2. There(on[n], i) /\ UNCHANGED <<kind, recs, run>>
    BY <1>6, MarkIs DEF Mark, Person
  <2>3. UNCHANGED <<hist.made, hist.unrecorded>> /\ ~hist.renamed
    BY <1>1, <1>6 DEF Mark, IsHist
  <2> QED
    BY <1>3, <2>1, <2>2, <2>3, KeyFieldIs
<1>7. ASSUME NEW n \in Node, NEW i \in DOMAIN on[n], Wear(n, i)
      PROVE  KeysKept /\ Same /\ NoneMade /\ UNCHANGED hist.made
  <2>1. UNCHANGED <<kind, on, recs, run>>
    BY <1>7 DEF Wear, Person
  <2>2. UNCHANGED <<hist.made, hist.unrecorded>> /\ ~hist.renamed
    BY <1>1, <1>7 DEF Wear, IsHist
  <2> QED
    BY <2>1, <2>2 DEF KeysKept, NoneMade
<1> QED
  BY <1>2, <1>4, <1>5, <1>6, <1>7 DEF People

\* ForgeSync makes nothing of its own and renames nothing.
LEMMA CountersStay ==
  ASSUME TypeInv, Run \/ CutOff \/ BranchesArrive \/ UNCHANGED vars
  PROVE  UNCHANGED <<kind, hist.made, hist.renamed>> /\ (hist.unrecorded => hist'.unrecorded)
<1>1. IsHist(hist)
  BY DEF TypeInv, NodesTyped
<1>2. CASE EditCopy
  BY <1>1, <1>2 DEF EditCopy, EditOne, IsHist, Own
<1>3. CASE ClosePull
  BY <1>1, <1>3 DEF ClosePull, IsHist, Own
<1>4. CASE MakeCopy
  <2> DEFINE been == [hist.been EXCEPT ![NextNode] = @ \cup Values(NewCopy)]
             late == hist.owed \/ run.behind
             parted == hist.mixed \/ \E f \in Merged : run.want[f] # run.rec[f]
             marked == hist.remade \/ run.rec.extra # {}
             primary == IF NextNode = Primary THEN hist.onPrimary \cup {run.i} ELSE hist.onPrimary
             lost == hist.unrecorded \/ NextNode \in DOMAIN recs[run.i].copies
  <2>1. \/ hist' = hist
        \/ hist' = [hist EXCEPT !.been = been, !.owed = late, !.remade = marked,
                         !.mixed = parted, !.onPrimary = primary]
        \/ hist' = [hist EXCEPT !.been = been, !.unrecorded = lost]
    BY <1>4 DEF MakeCopy
  <2> HIDE DEF been, late, parted, marked, primary, lost
  <2>2. UNCHANGED <<hist.made, hist.renamed>> /\ (hist'.unrecorded = hist.unrecorded \/ hist'.unrecorded = lost)
    BY <1>1, <2>1 DEF IsHist
  <2> QED
    BY <1>4, <2>2 DEF lost, MakeCopy, Own
<1>5. CASE Save
  BY <1>1, <1>5 DEF Save, IsHist, Own
<1>6. CASE \E n \in Node : Attach(n)
  BY <1>1, <1>6 DEF Attach, AttachTo, Recognise, IsHist
<1>7. CASE \/ Begin \/ ReadNode \/ ReadIssues \/ PassOver \/ AllAttached \/ Take \/ NextPhase \/ MarkCopy \/ DeleteCopy
           \/ Labels \/ SetLabels \/ SaveLabels \/ Tell \/ CutOff \/ BranchesArrive \/ UNCHANGED vars
  BY <1>7 DEF Begin, ReadNode, ReadIssues, PassOver, AllAttached, Take, NextPhase, MarkCopy, DeleteCopy,
     Labels, SetLabels, SaveLabels, Tell, CutOff, BranchesArrive, vars, Own
<1> QED
  BY <1>2, <1>3, <1>4, <1>5, <1>6, <1>7 DEF Run

-----------------------------------------------------------------------------
(* Keys and places, step by step.                                          *)

LEMMA OnKeyStays ==
  ASSUME TypeInv, OnKey, KeysKept, UNCHANGED <<kind, recs>>
  PROVE  OnKey'
<1>1. \A r \in DOMAIN recs : \A n \in DOMAIN recs[r].copies : n \in Node /\ recs[r].copies[n] \in DOMAIN on[n]
  BY DEF TypeInv, RecordsOK, RecordOK
<1> QED
  BY <1>1, KeyFieldIs DEF OnKey, KeysKept

LEMMA ReadKeyStays ==
  ASSUME ReadKey, UNCHANGED <<kind, recs>>, UNCHANGED run.snap \/ DOMAIN run'.snap = {}
  PROVE  ReadKey'
BY KeyFieldIs DEF ReadKey, Read

LEMMA SnapKeyStays ==
  ASSUME TypeInv, SnapKey, KeysKept, UNCHANGED kind, UNCHANGED run.snap \/ DOMAIN run'.snap = {}
  PROVE  SnapKey'
<1>1. \A n \in Read : n \in Node /\ DOMAIN run.snap[n] \subseteq DOMAIN on[n]
  BY DEF TypeInv, RunInv, RunOK, Read
<1> QED
  BY <1>1, KeyFieldIs DEF SnapKey, KeysKept, Read

\* What is known stays known, and what is gone stays gone.
LEMMA AllKnownStays ==
  ASSUME TypeInv, AllKnown, KeysKept, UNCHANGED recs,
         UNCHANGED run.snap \/ DOMAIN run'.snap = {}, run.ph \notin Looking \/ run'.ph \in Looking
  PROVE  AllKnown'
<1>1. \A n \in Read : n \in Node /\ DOMAIN run.snap[n] \subseteq DOMAIN on[n]
  BY DEF TypeInv, RunInv, RunOK, Read
<1>2. \A n : Known(n)' = Known(n)
  BY DEF Known
<1> QED
  BY <1>1, <1>2 DEF AllKnown, KeysKept, Read

LEMMA NoneInHand ==
  ASSUME run'.ph \notin Working
  PROVE  HandKey' /\ GoneBefore'
BY DEF HandKey, GoneBefore, Working, Merging

\* No record is at hand any more.
LEMMA KeyedAside ==
  ASSUME TypeInv, Keyed, Placed, KeysKept, UNCHANGED <<kind, recs>>, run'.ph \notin Working,
         \/ DOMAIN run'.snap = {}
         \/ UNCHANGED run.snap /\ run.ph \in Reading
         \/ UNCHANGED run.snap /\ run'.ph \notin Reading /\ run'.todo \subseteq run.todo
  PROVE  Keyed' /\ InSnap' /\ NotOnPrimary' /\ GoneBefore'
<1>1. InSnap'
  BY DEF Placed, InSnap, Read
<1>2. NotOnPrimary'
  BY DEF Placed, NotOnPrimary
<1> QED
  BY <1>1, <1>2, OnKeyStays, ReadKeyStays, SnapKeyStays, NoneInHand DEF Keyed

\* The record at hand stays as it is.
LEMMA KeyedStand ==
  ASSUME TypeInv, Keyed, Placed, KeysKept, UNCHANGED <<kind, recs>>,
         UNCHANGED <<run.at, run.snap, run.i, run.rec, run.want, run.todo>>,
         \/ UNCHANGED run.ph
         \/ /\ run.ph \in Working /\ run'.ph \in Working
            /\ run'.ph \in {"edit", "make"} => run.ph \in {"edit", "make"}
  PROVE  Keyed' /\ Placed'
<1>1. OnKey' /\ ReadKey' /\ SnapKey'
  BY OnKeyStays, ReadKeyStays, SnapKeyStays DEF Keyed
<1>2. HandKey'
  BY KeyFieldIs DEF Keyed, HandKey
<1>3. InSnap' /\ NotOnPrimary' /\ ReadOnce'
  BY DEF Placed, InSnap, NotOnPrimary, ReadOnce, Read, Reading, Working, Merging
<1>4. AllKnown'
  BY AllKnownStays DEF Placed, Working, Merging, Looking, Reading
<1>5. GoneBefore'
  <2>1. run.ph \in Working => run.i \in DOMAIN recs /\ \A n \in DOMAIN recs[run.i].copies :
          n \in Node /\ recs[run.i].copies[n] \in DOMAIN on[n]
    BY DEF TypeInv, RunInv, AtHand, RecordsOK, RecordOK
  <2> QED
    BY <2>1 DEF Placed, GoneBefore, KeysKept
<1> QED
  BY <1>1, <1>2, <1>3, <1>4, <1>5 DEF Keyed, Placed

\* The steps before the records, and after them.
LEMMA BeginKeyed ==
  ASSUME TypeInv, Keyed, Placed, KeysKept, Begin \/ ReadIssues \/ PassOver
  PROVE  Keyed' /\ Placed'
<1>1. UNCHANGED <<kind, recs>> /\ IsRun(run) /\ (run.ph # "idle" => run.at \in DOMAIN Order)
  BY DEF Begin, ReadIssues, PassOver, TypeInv, RunInv, RunOK
<1>2. DOMAIN Order = 1 .. Len(Order) /\ Len(Order) \in Nat
  BY Ordered, IssuesAssumption
<1>3. CASE Begin \/ (PassOver /\ N = Primary)
  <2>1. DOMAIN run'.snap = {} /\ run'.ph \in {"idle", "read"}
    BY <1>3, IdleRun DEF Begin, PassOver, IsRun
  <2>2. ReadOnce' /\ AllKnown'
    BY <2>1 DEF ReadOnce, AllKnown, Read, Looking, Reading
  <2> QED
    BY <1>1, <2>1, <2>2, KeyedAside DEF Placed, Working, Merging
<1>4. CASE ReadIssues \/ (PassOver /\ N # Primary)
  <2>1. /\ UNCHANGED run.snap /\ run.ph \in {"read", "readIssues"} /\ run'.ph \in {"attach", "read"}
        /\ run'.ph = "read" => run'.at = run.at + 1
    BY <1>1, <1>4 DEF ReadIssues, PassOver, IsRun
  <2>2. ReadOnce'
    BY <1>1, <1>2, <2>1 DEF Placed, ReadOnce, Read
  <2>3. AllKnown'
    BY <2>1 DEF AllKnown, Looking, Reading
  <2> QED
    BY <1>1, <2>1, <2>2, <2>3, KeyedAside DEF Placed, Working, Merging, Reading
<1> QED
  BY <1>3, <1>4

LEMMA AllAttachedKeyed ==
  ASSUME TypeInv, Keyed, Placed, AllAttached
  PROVE  Keyed' /\ Placed'
<1>1. /\ UNCHANGED <<kind, on, recs>> /\ run.ph = "attach" /\ run'.ph = "records" /\ UNCHANGED run.snap
      /\ \A n \in Read : Fresh(n) = {}
  BY DEF AllAttached, AnyFresh, TypeInv, RunInv, RunOK, IsRun
<1>2. KeysKept
  BY <1>1 DEF KeysKept, There
<1>3. ReadOnce'
  BY <1>1 DEF ReadOnce
<1>4. AllKnown'
  <2>1. \A n : Known(n)' = Known(n)
    BY <1>1 DEF Known
  <2>2. \A n \in Read : \A i \in DOMAIN run.snap[n] : There(on[n], i) => i \in Known(n)
    BY <1>1 DEF Fresh, Keyed, SnapKey
  <2> QED
    BY <1>1, <2>1, <2>2 DEF AllKnown, Read
<1> QED
  BY <1>1, <1>2, <1>3, <1>4, KeyedAside DEF Placed, Working, Merging, Reading

LEMMA AsideKeyed ==
  ASSUME TypeInv, Keyed, Placed, KeysKept, Labels \/ SetLabels \/ SaveLabels \/ Tell \/ CutOff
  PROVE  Keyed' /\ Placed'
<1>1. UNCHANGED <<kind, recs>> /\ IsRun(run)
  BY DEF Labels, SetLabels, SaveLabels, Tell, CutOff, Own, TypeInv, RunInv, RunOK
<1>2. CASE Labels \/ SetLabels \/ SaveLabels
  <2>1. /\ run.ph \in {"records", "labels", "saveLabels"} /\ run'.ph \in {"labels", "saveLabels", "tell"}
        /\ UNCHANGED <<run.snap, run.todo>>
    BY <1>1, <1>2 DEF Labels, SetLabels, SaveLabels, Past, Incomplete, IsRun
  <2>2. AllKnown' /\ ReadOnce'
    BY <1>1, <2>1, AllKnownStays DEF Placed, ReadOnce, Looking, Reading
  <2> QED
    BY <1>1, <2>1, <2>2, KeyedAside DEF Placed, Working, Merging, Reading
<1>3. CASE Tell \/ CutOff
  <2>1. run'.ph = "idle" /\ DOMAIN run'.snap = {}
    BY <1>3, IdleRun DEF Tell, CutOff
  <2>2. AllKnown' /\ ReadOnce'
    BY <2>1 DEF AllKnown, ReadOnce, Read, Looking
  <2> QED
    BY <1>1, <2>1, <2>2, KeyedAside DEF Placed, Working, Merging
<1> QED
  BY <1>2, <1>3

LEMMA ReadNodeKeyed ==
  ASSUME TypeInv, Keyed, Placed, ReadNode
  PROVE  Keyed' /\ Placed' /\ N \notin Read
<1>1. /\ UNCHANGED <<kind, on, recs>> /\ N \in Node /\ IsRun(run) /\ run.ph = "read"
      /\ run.at \in DOMAIN Order /\ N = Order[run.at] /\ DOMAIN Order \subseteq Nat
  BY Ordered DEF ReadNode, TypeInv, RunInv, RunOK, N
<1>2. /\ run'.ph \in {"readIssues", "attach", "read"}
      /\ run'.ph = "readIssues" => run'.at = run.at
      /\ run'.ph = "read" => run'.at = run.at + 1
      /\ DOMAIN run'.snap = DOMAIN run.snap \cup {N}
      /\ \A n \in DOMAIN run'.snap : run'.snap[n] = IF n = N THEN on[n] ELSE run.snap[n]
  BY <1>1 DEF ReadNode, IsRun
<1>3. Read' = Read \cup {N} /\ KeyField' = KeyField
  BY <1>1, <1>2, KeyFieldIs DEF Read
<1>4. \A r \in DOMAIN recs : \A n \in DOMAIN recs[r].copies : n \in Node /\ recs[r].copies[n] \in DOMAIN on[n]
  BY DEF TypeInv, RecordsOK, RecordOK
<1>5. OnKey' /\ ReadKey' /\ SnapKey'
  BY <1>1, <1>2, <1>3 DEF Keyed, OnKey, ReadKey, SnapKey, Read
<1>6. InSnap'
  BY <1>1, <1>2, <1>3, <1>4 DEF Placed, InSnap, Read, Reading
<1>7. NotOnPrimary'
  BY <1>1, <1>2 DEF Placed, NotOnPrimary, Working, Merging
<1>8. \A j \in DOMAIN Order : Order[j] \in Read => j < run.at
  BY <1>1 DEF Placed, ReadOnce
<1>9. \A j \in DOMAIN Order : Order[j] \in Read' => j <= run.at
  BY <1>1, <1>3, <1>8, IssuesAssumption
<1>10. ReadOnce'
  BY <1>1, <1>2, <1>9 DEF ReadOnce
<1>11. AllKnown'
  BY <1>2 DEF AllKnown, Looking, Reading
<1>12. N \notin Read
  BY <1>1, <1>8
<1> QED
  BY <1>2, <1>5, <1>6, <1>7, <1>10, <1>11, <1>12, NoneInHand DEF Keyed, Placed, Working, Merging

-----------------------------------------------------------------------------
(* Attaching.                                                              *)

LEMMA CurrentKeyIs ==
  ASSUME ReadKey, NEW r \in DOMAIN recs
  PROVE  CurrentKey(recs[r]) = recs[r][KeyField]
<1> DEFINE shown == {k \in DOMAIN Order : /\ Order[k] \in Read \cap DOMAIN recs[r].copies
                                          /\ There(run.snap[Order[k]], recs[r].copies[Order[k]])}
           n == Order[Lowest(shown)]
<1>1. CASE shown = {}
  BY <1>1 DEF CurrentKey
<1>2. CASE shown # {}
  <2>1. shown \in SUBSET Nat
    BY Ordered
  <2>2. Lowest(shown) \in shown
    BY <1>2, <2>1, LowestIn
  <2>3. n \in Read \cap DOMAIN recs[r].copies /\ There(run.snap[n], recs[r].copies[n])
    BY <2>2
  <2>4. run.snap[n][recs[r].copies[n]][KeyField] = recs[r][KeyField]
    BY <2>3 DEF ReadKey
  <2> QED
    BY <1>2, <2>4 DEF CurrentKey
<1> QED
  BY <1>1, <1>2

\* What is new is a copy of a record with its key, or every record with its
\* key has a copy there.
AttachedTo(n, i, k, s) ==
    /\ Attached(n, i, k, s) /\ recs[k][KeyField] = run.snap[n][i][KeyField]
RecognisedAs(n, i, s) ==
    /\ Recognised(n, i, s)
    /\ \A r \in DOMAIN recs : recs[r][KeyField] = run.snap[n][i][KeyField] => n \in DOMAIN recs[r].copies

LEMMA AttachWhich ==
  ASSUME TypeInv, ReadKey, NEW n \in Node, Attach(n)
  PROVE  /\ run.ph = "attach" /\ n \in Read /\ UNCHANGED <<kind, on, run>>
         /\ \E i \in Fresh(n) : /\ i \in DOMAIN run.snap[n] /\ run.snap[n][i] \in Thing
                                /\ \E s : RecognisedAs(n, i, s) \/ \E k : AttachedTo(n, i, k, s)
<1> DEFINE i == Lowest(Fresh(n))
           same == Lacking(n, run.snap[n][i])
           k == Lowest(same)
<1>1. run.ph = "attach" /\ n \in Read /\ Fresh(n) # {} /\ UNCHANGED <<kind, on, run>>
  BY DEF Attach, Turn
<1>2. n \in DOMAIN run.snap
  BY <1>1 DEF Read
<1>3. i \in DOMAIN run.snap[n] /\ run.snap[n][i] \in Thing
  BY <1>1, <1>2, FreshIs
<1>4. i \in Fresh(n)
  <2>1. Fresh(n) \in SUBSET Nat
    BY <1>2 DEF Fresh, TypeInv, RunInv, RunOK
  <2> QED
    BY <1>1, <2>1, LowestIn
<1>5. same # {} => k \in same
  <2>1. same \in SUBSET Nat
    BY IssuesAssumption DEF Lacking, TypeInv, RecordsOK
  <2> QED
    BY <2>1, LowestIn
<1>6. \A r \in DOMAIN recs : r \in same <=>
        n \notin DOMAIN recs[r].copies /\ recs[r][KeyField] = run.snap[n][i][KeyField]
  BY CurrentKeyIs DEF Lacking
<1>7. same \subseteq DOMAIN recs
  BY DEF Lacking
<1>8. IF same # {} THEN AttachTo(k, n, i) ELSE Recognise(n, i)
  BY DEF Attach
<1> HIDE DEF i, same, k
<1>9. \E s : RecognisedAs(n, i, s) \/ \E j : AttachedTo(n, i, j, s)
  <2>1. CASE same # {}
    <3>1. k \in DOMAIN recs /\ n \notin DOMAIN recs[k].copies /\ recs[k][KeyField] = run.snap[n][i][KeyField]
      BY <1>5, <1>6, <1>7, <2>1
    <3>2. PICK s : Attached(n, i, k, s)
      BY <1>8, <2>1, <3>1, AttachToIs
    <3> QED
      BY <3>1, <3>2 DEF AttachedTo
  <2>2. CASE same = {}
    <3>1. PICK s : Recognised(n, i, s)
      BY <1>8, <2>2, RecogniseIs
    <3> QED
      BY <1>6, <2>2, <3>1 DEF RecognisedAs
  <2> QED
    BY <2>1, <2>2
<1> QED
  BY <1>1, <1>3, <1>4, <1>9

LEMMA AttachKeyed ==
  ASSUME TypeInv, Keyed, Placed, NEW n \in Node, Attach(n)
  PROVE  Keyed' /\ Placed'
<1>1. /\ run.ph = "attach" /\ n \in Read /\ UNCHANGED <<kind, on, run>>
      /\ \E i \in Fresh(n) : /\ i \in DOMAIN run.snap[n] /\ run.snap[n][i] \in Thing
                             /\ \E s : RecognisedAs(n, i, s) \/ \E k : AttachedTo(n, i, k, s)
  BY AttachWhich DEF Keyed
<1>2. PICK i \in Fresh(n) : /\ i \in DOMAIN run.snap[n] /\ run.snap[n][i] \in Thing
                            /\ \E s : RecognisedAs(n, i, s) \/ \E k : AttachedTo(n, i, k, s)
  BY <1>1
<1>3. KeyField' = KeyField /\ Read' = Read /\ KeyField \in {"key", "text"}
  BY <1>1, KeyFieldIs DEF Read
<1>4. There(on[n], i) => on[n][i][KeyField] = run.snap[n][i][KeyField]
  BY <1>1, <1>2 DEF Keyed, SnapKey
<1>5. SnapKey' /\ ReadOnce'
  BY <1>1, <1>3 DEF Keyed, SnapKey, Placed, ReadOnce
<1>6. AllKnown'
  BY <1>1 DEF AllKnown, Looking, Reading
<1>7. HandKey' /\ GoneBefore'
  BY <1>1, NoneInHand DEF Working, Merging
<1>8. ASSUME NEW s, NEW k, AttachedTo(n, i, k, s)
      PROVE  OnKey' /\ ReadKey' /\ InSnap' /\ NotOnPrimary'
  <2>1. /\ k \in DOMAIN recs /\ DOMAIN recs' = DOMAIN recs
        /\ \A j \in DOMAIN recs : recs'[j] = IF j = k THEN s ELSE recs[j]
        /\ DOMAIN s.copies = DOMAIN recs[k].copies \cup {n} /\ s.copies[n] = i
        /\ n \notin DOMAIN recs[k].copies
        /\ \A o \in DOMAIN recs[k].copies : s.copies[o] = recs[k].copies[o]
        /\ s.deleted = StillDeleted(recs[k], n)
    BY <1>8 DEF AttachedTo, Attached
  <2>2. s[KeyField] = recs[k][KeyField] /\ recs[k][KeyField] = run.snap[n][i][KeyField]
    BY <1>3, <1>8 DEF AttachedTo, Attached
  <2>3. OnKey'
    BY <1>1, <1>3, <1>4, <2>1, <2>2 DEF Keyed, OnKey
  <2>4. ReadKey'
    BY <1>1, <1>3, <2>1, <2>2 DEF Keyed, ReadKey
  <2>5. InSnap'
    BY <1>1, <1>2, <1>3, <2>1 DEF Placed, InSnap, Reading
  <2>6. NotOnPrimary'
    BY <1>1, <2>1 DEF Placed, NotOnPrimary, StillDeleted, Working, Merging
  <2> QED
    BY <2>3, <2>4, <2>5, <2>6
<1>9. ASSUME NEW s, RecognisedAs(n, i, s)
      PROVE  OnKey' /\ ReadKey' /\ InSnap' /\ NotOnPrimary'
  <2>1. /\ DOMAIN recs' = DOMAIN recs \cup {hist.next} /\ recs'[hist.next] = s
        /\ \A j \in DOMAIN recs : recs'[j] = recs[j]
        /\ DOMAIN s.copies = {n} /\ s.copies[n] = i /\ ~s.deleted
    BY <1>9 DEF RecognisedAs, Recognised
  <2>2. s[KeyField] = run.snap[n][i][KeyField]
    BY <1>3, <1>9 DEF RecognisedAs, Recognised
  <2>3. OnKey'
    BY <1>1, <1>3, <1>4, <2>1, <2>2 DEF Keyed, OnKey
  <2>4. ReadKey'
    BY <1>1, <1>3, <2>1, <2>2 DEF Keyed, ReadKey
  <2>5. InSnap'
    BY <1>1, <1>2, <1>3, <2>1 DEF Placed, InSnap, Reading
  <2>6. NotOnPrimary'
    BY <1>1, <2>1 DEF Placed, NotOnPrimary, Working, Merging
  <2> QED
    BY <2>3, <2>4, <2>5, <2>6
<1> QED
  BY <1>2, <1>5, <1>6, <1>7, <1>8, <1>9 DEF Keyed, Placed

-----------------------------------------------------------------------------
(* The record at hand.                                                     *)

LEMMA LostGone ==
  ASSUME Keyed, Placed, NEW i \in run.todo, i \in DOMAIN recs,
         NEW n \in (Read \cap DOMAIN recs[i].copies) \ Present(recs[i])
  PROVE  ~There(on[n], recs[i].copies[n])
<1>1. recs[i].copies[n] \in DOMAIN run.snap[n]
  BY DEF Placed, InSnap
<1>2. ~There(run.snap[n], recs[i].copies[n])
  BY DEF Present
<1> QED
  BY <1>1, <1>2 DEF Keyed, SnapKey

\* What all copies have is wanted of them.
LEMMA WantedKey ==
  ASSUME TypeInv, Keyed, NEW i \in DOMAIN recs, ~WasDeleted(i)
  PROVE  Wanted(Taking(i), KeyField) = recs[i][KeyField]
<1> DEFINE s == Taking(i)
<1>1. /\ s.key = recs[i].key /\ s.text = recs[i].text
      /\ \A n \in DOMAIN s.copies : n \in DOMAIN recs[i].copies /\ s.copies[n] = recs[i].copies[n]
  BY TakingIs
<1> HIDE DEF s
<1>2. s[KeyField] = recs[i][KeyField]
  BY <1>1, KeyFieldIs
<1>3. ASSUME NEW n \in Present(s)
      PROVE  Seen(s, n)[KeyField] = recs[i][KeyField]
  <2>1. n \in Read \cap DOMAIN recs[i].copies /\ There(run.snap[n], recs[i].copies[n]) /\ s.copies[n] = recs[i].copies[n]
    BY <1>1, <1>3 DEF Present
  <2>2. run.snap[n][recs[i].copies[n]][KeyField] = recs[i][KeyField]
    BY <2>1 DEF Keyed, ReadKey
  <2> QED
    BY <2>1, <2>2 DEF Seen
<1>4. Wanted(s, KeyField) = s[KeyField] \/ \E n \in Present(s) : Wanted(s, KeyField) = Seen(s, n)[KeyField]
  BY WantedIs DEF TypeInv, RunInv
<1> QED
  BY <1>2, <1>3, <1>4 DEF s

LEMMA TakeKeyed ==
  ASSUME TypeInv, Keyed, Placed, Take
  PROVE  Keyed' /\ Placed'
<1> DEFINE i == Lowest(run.todo)
<1>1. /\ UNCHANGED <<kind, on, recs>> /\ i \in run.todo /\ i \in DOMAIN recs /\ run.ph = "records" /\ IsRun(run)
  BY TakeLeaves DEF TypeInv, RunInv, RunOK
<1>2. KeysKept
  BY <1>1 DEF KeysKept, There
<1> HIDE DEF i
<1>3. \A n \in (Read \cap DOMAIN recs[i].copies) \ Present(recs[i]) : ~There(on[n], recs[i].copies[n])
  BY <1>1, LostGone
<1>4. CASE WasDeleted(i)
  <2>1. DeletedRun(i, recs[i])
    BY <1>4, ToDeleteIs DEF i
  <2>2. /\ run'.i = i /\ run'.todo \subseteq run.todo /\ run'.ph = "delete" /\ UNCHANGED run.snap
        /\ run'.rec.key = recs[i].key /\ run'.rec.text = recs[i].text
        /\ DOMAIN run'.rec.copies = DOMAIN recs[i].copies \ ({Primary} \cup (Read \ (Present(recs[i]) \ {Primary})))
    BY <2>1 DEF DeletedRun
  <2>3. OnKey' /\ ReadKey' /\ SnapKey' /\ AllKnown'
    BY <1>1, <1>2, <2>2, OnKeyStays, ReadKeyStays, SnapKeyStays, AllKnownStays DEF Keyed, Placed, Looking, Reading
  <2>4. HandKey'
    BY <1>1, <2>2, KeyFieldIs DEF HandKey
  <2>5. InSnap' /\ ReadOnce'
    BY <1>1, <2>2 DEF Placed, InSnap, ReadOnce, Read, Reading
  <2>6. NotOnPrimary'
    BY <1>1, <2>2 DEF Placed, NotOnPrimary
  <2>7. Primary \in DOMAIN recs[i].copies => Primary \in (Read \cap DOMAIN recs[i].copies) \ Present(recs[i])
    BY <1>1, <1>4 DEF WasDeleted, Lost, Placed, NotOnPrimary
  <2>8. GoneBefore'
    BY <1>1, <1>3, <2>2, <2>7 DEF GoneBefore
  <2> QED
    BY <2>3, <2>4, <2>5, <2>6, <2>8 DEF Keyed, Placed
<1>5. CASE ~WasDeleted(i) /\ run' = Picked(i)
  <2>1. run'.ph = "records" /\ UNCHANGED run.snap /\ run'.todo \subseteq run.todo
    BY <1>1, <1>5, PickedIs
  <2>2. AllKnown' /\ ReadOnce'
    BY <1>1, <1>2, <2>1, AllKnownStays DEF Placed, ReadOnce, Looking, Reading
  <2> QED
    BY <1>1, <1>2, <2>1, <2>2, KeyedAside DEF Placed, Working, Merging, Reading
<1>6. CASE ~WasDeleted(i) /\ run' = MergedInto(Picked(i), Taking(i))
  <2> DEFINE p == Picked(i)
             s == Taking(i)
             f == KeyField
  <2>1. IsRun(p) /\ p.i = i /\ p.todo = run.todo \ {i} /\ p.snap = run.snap
    BY <1>1, PickedIs
  <2>2. /\ IsRecord(s) /\ ~s.deleted /\ s.key = recs[i].key /\ s.text = recs[i].text
        /\ DOMAIN s.copies = DOMAIN recs[i].copies \ Lost(i)
    BY <1>1, <1>6, TakingIs DEF RecordOK
  <2>3. MergedRun(p, s, run')
    BY <1>6, <2>1, <2>2, MergedIs
  <2>4. Wanted(s, KeyField) = recs[i][KeyField] /\ s[KeyField] = recs[i][KeyField]
    BY <1>1, <1>6, <2>2, WantedKey, KeyFieldIs
  <2> HIDE DEF p, s
  <2>5. /\ run'.i = i /\ run'.todo \subseteq run.todo /\ run'.ph = "edit" /\ UNCHANGED run.snap
        /\ DOMAIN run'.rec.copies = DOMAIN recs[i].copies \ Lost(i) /\ ~run'.rec.deleted
    BY <2>1, <2>2, <2>3 DEF MergedRun
  <2>6. run'.want[f] = Wanted(s, f) /\ run'.rec[f] \in {s[f], Wanted(s, f)}
    BY <2>3, KeyFieldIs DEF MergedRun
  <2>7. HandKey'
    BY <1>1, <2>4, <2>5, <2>6, KeyFieldIs DEF HandKey
  <2>8. OnKey' /\ ReadKey' /\ SnapKey' /\ AllKnown'
    BY <1>1, <1>2, <2>5, OnKeyStays, ReadKeyStays, SnapKeyStays, AllKnownStays DEF Keyed, Placed, Looking, Reading
  <2>9. InSnap' /\ ReadOnce' /\ NotOnPrimary'
    BY <1>1, <2>5 DEF Placed, InSnap, ReadOnce, NotOnPrimary, Read, Reading
  <2>10. GoneBefore'
    BY <1>1, <1>3, <2>5 DEF GoneBefore, Lost
  <2> QED
    BY <2>7, <2>8, <2>9, <2>10 DEF Keyed, Placed
<1> QED
  BY <1>4, <1>5, <1>6, TakenIs DEF i

\* A phase is over, or a call of one is made.
LEMMA StandsKeyed ==
  ASSUME TypeInv, Keyed, Placed, KeysKept, NextPhase \/ EditCopy \/ ClosePull \/ MarkCopy
  PROVE  Keyed' /\ Placed'
<1>1. CASE NextPhase
  <2>1. /\ UNCHANGED <<kind, recs>> /\ UNCHANGED <<run.at, run.snap, run.i, run.rec, run.want, run.todo>>
        /\ run.ph \in Working /\ run'.ph \in Working
        /\ run'.ph \in {"edit", "make"} => run.ph \in {"edit", "make"}
    BY <1>1, NextPhaseIs DEF NextPhase, Working, Merging
  <2> QED
    BY <2>1, KeyedStand
<1>2. ASSUME NEW c, Called(c)
      PROVE  Keyed' /\ Placed'
  BY <1>2, KeyedStand DEF Called, OneCallLess
<1> QED
  BY <1>1, <1>2, EditCopyIs, ClosePullIs, MarkCopyIs DEF MarkCall

LEMMA DeleteCopyKeyed ==
  ASSUME TypeInv, Keyed, Placed, KeysKept, DeleteCopy
  PROVE  Keyed' /\ Placed'
<1>1. PICK n \in DOMAIN run.rec.copies :
           /\ run.ph = "delete" /\ n \in run.left /\ n \in Node /\ UNCHANGED <<kind, recs>>
           /\ Called(n) \/ Removed(n)
  BY DeleteCopyIs
<1>2. CASE Called(n)
  BY <1>2, KeyedStand DEF Called, OneCallLess
<1>3. CASE Removed(n)
  <2>1. /\ UNCHANGED <<run.ph, run.snap, run.i, run.todo>>
        /\ run'.rec.key = run.rec.key /\ run'.rec.text = run.rec.text /\ run'.rec.deleted = run.rec.deleted
        /\ DOMAIN run'.rec.copies = DOMAIN run.rec.copies \ {n}
        /\ on' = Put(on, n, run.rec.copies[n], Gone)
    BY <1>3 DEF Removed
  <2>2. /\ run.i \in DOMAIN recs /\ \A m \in DOMAIN run.rec.copies : run.rec.copies[m] = recs[run.i].copies[m]
        /\ run.rec.copies[n] \in DOMAIN on[n] /\ on \in Lists /\ Gone \in Things
        /\ \A m \in DOMAIN recs[run.i].copies : m \in Node /\ recs[run.i].copies[m] \in DOMAIN on[m]
    BY <1>1 DEF TypeInv, RunInv, AtHand, Working, RecordsOK, RecordOK, NodesTyped, Things
  <2>3. OnKey' /\ ReadKey' /\ SnapKey' /\ AllKnown'
    BY <1>1, <2>1, OnKeyStays, ReadKeyStays, SnapKeyStays, AllKnownStays DEF Keyed, Placed
  <2>4. HandKey'
    BY <1>1, <2>1, KeyFieldIs DEF Keyed, HandKey, Working
  <2>5. InSnap' /\ ReadOnce' /\ NotOnPrimary'
    BY <1>1, <2>1 DEF Placed, InSnap, ReadOnce, NotOnPrimary, Read, Reading
  <2>6. ~There(on'[n], run.rec.copies[n])
    <3> DEFINE id == run.rec.copies[n]
    <3>1. on' = Put(on, n, id, Gone) /\ id \in DOMAIN on[n]
      BY <2>1, <2>2
    <3> HIDE DEF id
    <3>2. on'[n][id] = Gone
      BY <1>1, <2>2, <3>1, Replaced
    <3> QED
      BY <3>2 DEF There, id
  <2>7. GoneBefore'
    BY <1>1, <2>1, <2>2, <2>6 DEF Placed, GoneBefore, KeysKept, Working
  <2> QED
    BY <2>3, <2>4, <2>5, <2>7 DEF Keyed, Placed
<1> QED
  BY <1>1, <1>2, <1>3

\* The record at hand takes the place of the one in the store: of its copies
\* only those that are gone are no longer known.
KnownStillKnown == \A m \in Node : \A c \in Known(m) : There(on'[m], c) => c \in Known(m)'

LEMMA KnownSaved ==
  ASSUME TypeInv, Placed, KeysKept, run.ph \in Working,
         \A r \in DOMAIN recs : r # run.i => r \in DOMAIN recs' /\ recs'[r] = recs[r],
         \A m \in DOMAIN run.rec.copies : /\ run.i \in DOMAIN recs' /\ m \in DOMAIN recs'[run.i].copies
                                          /\ recs'[run.i].copies[m] = run.rec.copies[m]
  PROVE  KnownStillKnown
<1> SUFFICES ASSUME NEW m \in Node, NEW c \in Known(m), There(on'[m], c)
             PROVE  c \in Known(m)'
  BY DEF KnownStillKnown
<1>1. PICK r \in DOMAIN recs : m \in DOMAIN recs[r].copies /\ recs[r].copies[m] = c
  BY DEF Known
<1>2. c \in DOMAIN on[m] /\ There(on[m], c)
  BY <1>1 DEF TypeInv, RecordsOK, RecordOK, KeysKept
<1>3. CASE r # run.i
  <2>1. r \in DOMAIN recs' /\ recs'[r] = recs[r]
    BY <1>3
  <2> QED
    BY <1>1, <2>1 DEF Known
<1>4. CASE r = run.i
  <2>1. m \in DOMAIN run.rec.copies
    BY <1>1, <1>2, <1>4 DEF Placed, GoneBefore
  <2>2. run.rec.copies[m] = c
    BY <1>1, <1>4, <2>1 DEF TypeInv, RunInv, AtHand
  <2>3. run.i \in DOMAIN recs' /\ m \in DOMAIN recs'[run.i].copies /\ recs'[run.i].copies[m] = c
    BY <2>1, <2>2
  <2> QED
    BY <2>3 DEF Known
<1> QED
  BY <1>3, <1>4

LEMMA AllKnownSaved ==
  ASSUME TypeInv, Placed, KeysKept, KnownStillKnown, UNCHANGED run.snap, run.ph \notin Looking \/ run'.ph \in Looking
  PROVE  AllKnown'
<1>1. \A n \in Read : n \in Node /\ DOMAIN run.snap[n] \subseteq DOMAIN on[n]
  BY DEF TypeInv, RunInv, RunOK, Read
<1> QED
  BY <1>1 DEF Placed, AllKnown, KeysKept, KnownStillKnown, Read

\* The copy of the record at hand is made, is id, and the record is s now.
RecordedAs(n, id, s) ==
    /\ id \notin DOMAIN on[n] /\ DOMAIN on'[n] = DOMAIN on[n] \cup {id} /\ on'[n][id] = NewCopy
    /\ \A m \in Node : m # n => DOMAIN on'[m] = DOMAIN on[m]
    /\ \A m \in Node : \A k \in DOMAIN on[m] : on'[m][k] = on[m][k]
    /\ DOMAIN recs' = DOMAIN recs /\ recs'[run.i] = s
    /\ \A k \in DOMAIN recs : k # run.i => recs'[k] = recs[k]
    /\ s.key = run.rec.key /\ s.text = run.rec.text /\ ~s.deleted
    /\ DOMAIN s.copies = DOMAIN run.rec.copies \cup {n} /\ s.copies[n] = id
    /\ \A o \in DOMAIN run.rec.copies : s.copies[o] = run.rec.copies[o]
    /\ run'.rec = s /\ run'.left = run.left \ {n}
    /\ UNCHANGED <<run.ph, run.at, run.snap, run.i, run.want, run.todo>>

LEMMA RecordedSays ==
  ASSUME TypeInv, run.ph = "make", NEW n \in run.left, n \in Node, n \notin DOMAIN run.rec.copies, Recorded(n)
  PROVE  \E id, s : RecordedAs(n, id, s)
<1> DEFINE id == Len(on[n]) + 1
           r == run.rec
           s == Copied(r, n, id)
           i == run.i
<1>1. /\ on' = More(on, n, NewCopy) /\ recs' = [recs EXCEPT ![i] = s] /\ run' = [Past(n) EXCEPT !.rec = s]
  BY DEF Recorded
<1>2. /\ DOMAIN on'[n] = DOMAIN on[n] \cup {id} /\ id \notin DOMAIN on[n] /\ on'[n][id] = NewCopy
      /\ \A m \in Node : \A k \in DOMAIN on[m] : on'[m][k] = on[m][k]
  BY <1>1, CopyMade
<1>3. \A m \in Node : m # n => on'[m] = on[m]
  BY <1>1 DEF More, TypeInv, NodesTyped, Lists
<1>4. i \in DOMAIN recs /\ IsRecord(r) /\ ~r.deleted
  BY DEF TypeInv, RunInv, AtHand, Working, Merging, RecordOK
<1>5. /\ s.key = r.key /\ s.text = r.text /\ s.deleted = r.deleted
      /\ DOMAIN s.copies = DOMAIN r.copies \cup {n} /\ s.copies[n] = id
      /\ \A o \in DOMAIN r.copies : o # n => s.copies[o] = r.copies[o]
  <2> HIDE DEF r, id
  <2> QED
    BY <1>4, CopiedIs
<1> HIDE DEF id, s
<1>6. /\ run'.rec = s /\ run'.left = run.left \ {n}
      /\ UNCHANGED <<run.ph, run.at, run.snap, run.i, run.want, run.todo>>
  <2> DEFINE p == Past(n)
  <2>1. /\ IsRun(p) /\ p.left = run.left \ {n}
        /\ p.ph = run.ph /\ p.at = run.at /\ p.snap = run.snap /\ p.i = run.i
        /\ p.want = run.want /\ p.todo = run.todo
    BY PastIs DEF TypeInv, RunInv, RunOK
  <2> HIDE DEF p
  <2>2. run' = [p EXCEPT !.rec = s]
    BY <1>1 DEF p
  <2>3. /\ run'.rec = s /\ run'.left = p.left
        /\ run'.ph = p.ph /\ run'.at = p.at /\ run'.snap = p.snap /\ run'.i = p.i
        /\ run'.want = p.want /\ run'.todo = p.todo
    BY <2>1, <2>2 DEF IsRun
  <2> QED
    BY <2>1, <2>3
<1>7. DOMAIN recs' = DOMAIN recs /\ recs'[i] = s /\ \A k \in DOMAIN recs : k # i => recs'[k] = recs[k]
  BY <1>1, <1>4
<1>8. RecordedAs(n, id, s)
  BY <1>2, <1>3, <1>4, <1>5, <1>6, <1>7 DEF RecordedAs
<1> QED
  BY <1>8

LEMMA RecordedKnown ==
  ASSUME TypeInv, Placed, KeysKept, run.ph = "make", NEW n \in Node, NEW id, NEW s,
         n \notin DOMAIN run.rec.copies, RecordedAs(n, id, s)
  PROVE  KnownStillKnown
<1>1. run.i \in DOMAIN recs
  BY DEF TypeInv, RunInv, AtHand, Working, Merging
<1>2. /\ \A r \in DOMAIN recs : r # run.i => r \in DOMAIN recs' /\ recs'[r] = recs[r]
      /\ \A m \in DOMAIN run.rec.copies : /\ run.i \in DOMAIN recs' /\ m \in DOMAIN recs'[run.i].copies
                                          /\ recs'[run.i].copies[m] = run.rec.copies[m]
  BY <1>1 DEF RecordedAs
<1> QED
  BY <1>2, KnownSaved DEF Working, Merging

LEMMA RecordedKeyed ==
  ASSUME TypeInv, Keyed, Placed, KeysKept, UNCHANGED kind, run.ph = "make",
         NEW n \in run.left, n \in Node, n \notin DOMAIN run.rec.copies, Recorded(n)
  PROVE  Keyed' /\ Placed'
<1>1. PICK id, s : RecordedAs(n, id, s)
  BY RecordedSays
<1> DEFINE i == run.i
<1>2. /\ i \in DOMAIN recs /\ i \notin run.todo
      /\ \A m \in DOMAIN run.rec.copies : m \in DOMAIN recs[i].copies /\ run.rec.copies[m] = recs[i].copies[m]
      /\ \A r \in DOMAIN recs : \A m \in DOMAIN recs[r].copies : m \in Node /\ recs[r].copies[m] \in DOMAIN on[m]
      /\ \A m \in Read : m \in Node /\ DOMAIN run.snap[m] \subseteq DOMAIN on[m]
  BY DEF TypeInv, RunInv, RunOK, AtHand, Working, Merging, RecordsOK, RecordOK, Read
<1>3. KeyField' = KeyField /\ KeyField \in {"key", "text"} /\ (kind = "pull" => KeyField = "key")
  BY KeyFieldIs
<1>4. s[KeyField] = run.rec[KeyField] /\ run.rec[KeyField] = recs[i][KeyField] /\ NewCopy[KeyField] = s[KeyField]
  BY <1>1, <1>3 DEF RecordedAs, NewCopy, Keyed, HandKey, Working, Merging
<1>5. OnKey'
  BY <1>1, <1>2, <1>3, <1>4 DEF RecordedAs, Keyed, OnKey, There
<1>6. ReadKey'
  BY <1>1, <1>2, <1>3, <1>4 DEF RecordedAs, Keyed, ReadKey, There, Read
<1>7. SnapKey'
  BY <1>1, SnapKeyStays DEF RecordedAs, Keyed
<1>8. HandKey'
  BY <1>1, <1>3 DEF RecordedAs, Keyed, HandKey, Working, Merging
<1>9. InSnap' /\ NotOnPrimary' /\ ReadOnce'
  BY <1>1, <1>2 DEF RecordedAs, Placed, InSnap, NotOnPrimary, ReadOnce, Read, Reading
<1>10. AllKnown'
  BY <1>1, RecordedKnown, AllKnownSaved DEF RecordedAs
<1>11. GoneBefore'
  BY <1>1 DEF RecordedAs, GoneBefore
<1> QED
  BY <1>5, <1>6, <1>7, <1>8, <1>9, <1>10, <1>11 DEF Keyed, Placed

LEMMA MakeCopyKeyed ==
  ASSUME TypeInv, Keyed, Placed, KeysKept, MakeCopy
  PROVE  Keyed' /\ Placed'
<1> DEFINE n == NextNode
<1>1. /\ run.ph = "make" /\ UNCHANGED kind /\ n \in run.left /\ n \in Node /\ n \notin DOMAIN run.rec.copies
      /\ Recorded(n) \/ Unrecorded(n) \/ NotMade(n)
  BY MakeCopyIs
<1> HIDE DEF n
<1>2. CASE Recorded(n)
  BY <1>1, <1>2, RecordedKeyed
<1>3. CASE UNCHANGED recs /\ run' = Incomplete(Past(n))
  BY <1>1, <1>3, OneCall, KeyedStand DEF OneCallLess
<1>4. CASE UNCHANGED recs /\ run' = Idle
  <2>1. run'.ph = "idle" /\ DOMAIN run'.snap = {}
    BY <1>4, IdleRun
  <2>2. AllKnown' /\ ReadOnce'
    BY <2>1 DEF AllKnown, ReadOnce, Read, Looking
  <2> QED
    BY <1>1, <1>4, <2>1, <2>2, KeyedAside DEF Placed, Working, Merging
<1> QED
  BY <1>1, <1>2, <1>3, <1>4 DEF Unrecorded, NotMade

\* The record at hand is saved, or forgotten.
LEMMA SavedKnown ==
  ASSUME TypeInv, Placed, KeysKept, Save
  PROVE  KnownStillKnown
<1>1. /\ run.ph = "save" /\ run.i \in DOMAIN recs
      /\ \/ recs' = Without(recs, {run.i}) /\ DOMAIN run.rec.copies = {}
         \/ \E s : SavedFor(s) /\ recs' = [recs EXCEPT ![run.i] = s]
  BY SaveIs DEF TypeInv, RunInv, AtHand, Working
<1>2. \A r \in DOMAIN recs : r # run.i => r \in DOMAIN recs' /\ recs'[r] = recs[r]
  BY <1>1 DEF Without
<1>3. \A m \in DOMAIN run.rec.copies : /\ run.i \in DOMAIN recs' /\ m \in DOMAIN recs'[run.i].copies
                                       /\ recs'[run.i].copies[m] = run.rec.copies[m]
  BY <1>1 DEF SavedFor
<1> QED
  BY <1>1, <1>2, <1>3, KnownSaved DEF Working

\* The records after the one at hand is saved, or forgotten.
SavedOver ==
    \A r \in DOMAIN recs' :
        /\ r \in DOMAIN recs /\ (r # run.i => recs'[r] = recs[r])
        /\ recs'[r][KeyField] = recs[r][KeyField]
        /\ \A m \in DOMAIN recs'[r].copies : m \in DOMAIN recs[r].copies /\ recs'[r].copies[m] = recs[r].copies[m]
        /\ recs'[r].deleted => Primary \notin DOMAIN recs'[r].copies

LEMMA SaveSays ==
  ASSUME TypeInv, Keyed, Placed, Save
  PROVE  SavedOver
<1>1. /\ run.ph = "save"
      /\ \/ recs' = Without(recs, {run.i})
         \/ \E s : SavedFor(s) /\ recs' = [recs EXCEPT ![run.i] = s]
  BY SaveIs
<1>2. /\ run.i \in DOMAIN recs
      /\ \A m \in DOMAIN run.rec.copies : m \in DOMAIN recs[run.i].copies /\ run.rec.copies[m] = recs[run.i].copies[m]
  BY <1>1 DEF TypeInv, RunInv, AtHand, Working
<1>3. KeyField \in {"key", "text"} /\ run.rec[KeyField] = recs[run.i][KeyField]
  BY <1>1, KeyFieldIs DEF Keyed, HandKey, Working
<1>4. CASE recs' = Without(recs, {run.i})
  BY <1>4 DEF SavedOver, Without, Placed, NotOnPrimary
<1>5. ASSUME NEW s, SavedFor(s), recs' = [recs EXCEPT ![run.i] = s]
      PROVE  SavedOver
  <2>1. DOMAIN recs' = DOMAIN recs /\ recs'[run.i] = s /\ \A r \in DOMAIN recs : r # run.i => recs'[r] = recs[r]
    BY <1>2, <1>5
  <2>2. s[KeyField] = recs[run.i][KeyField] /\ s.copies = run.rec.copies /\ s.deleted = run.rec.deleted
    BY <1>3, <1>5 DEF SavedFor
  <2> QED
    BY <1>1, <1>2, <2>1, <2>2 DEF SavedOver, Placed, NotOnPrimary, Working
<1> QED
  BY <1>1, <1>4, <1>5

LEMMA SaveKeyed ==
  ASSUME TypeInv, Keyed, Placed, KeysKept, Save
  PROVE  Keyed' /\ Placed'
<1>1. /\ run.ph = "save" /\ UNCHANGED <<kind, on>> /\ run'.ph = "records" /\ UNCHANGED <<run.snap, run.i, run.todo>>
      /\ run.i \notin run.todo
  BY SaveIs DEF TypeInv, RunInv, AtHand, Working
<1>2. KeyField' = KeyField
  BY <1>1, KeyFieldIs
<1>3. SavedOver
  BY SaveSays
<1>4. OnKey' /\ ReadKey'
  BY <1>1, <1>2, <1>3 DEF SavedOver, Keyed, OnKey, ReadKey, Read
<1>5. SnapKey' /\ ReadOnce'
  BY <1>1, SnapKeyStays DEF Keyed, ReadOnce
<1>6. InSnap' /\ NotOnPrimary'
  BY <1>1, <1>3 DEF SavedOver, Placed, InSnap, NotOnPrimary, Read, Reading, Working, Merging
<1>7. AllKnown'
  BY <1>1, SavedKnown, AllKnownSaved DEF Looking, Reading
<1> QED
  BY <1>1, <1>4, <1>5, <1>6, <1>7, NoneInHand DEF Keyed, Placed, Working, Merging

LEMMA OutsideKeyed ==
  ASSUME TypeInv, Keyed, Placed, KeysKept, UNCHANGED <<kind, recs, run>>
  PROVE  Keyed' /\ Placed'
BY KeyedStand

\* Every step of ForgeSync.
LEMMA OursKeyed ==
  ASSUME TypeInv, Keyed, Placed, Run \/ CutOff \/ BranchesArrive \/ UNCHANGED vars
  PROVE  Keyed' /\ Placed'
<1>1. KeysKept
  BY KeptOurs DEF Keyed
<1>2. CASE Begin \/ ReadNode \/ ReadIssues \/ PassOver \/ AllAttached
  BY <1>1, <1>2, BeginKeyed, ReadNodeKeyed, AllAttachedKeyed
<1>3. CASE \E n \in Node : Attach(n)
  BY <1>3, AttachKeyed
<1>4. CASE Take \/ NextPhase \/ EditCopy \/ MakeCopy
  BY <1>1, <1>4, TakeKeyed, StandsKeyed, MakeCopyKeyed
<1>5. CASE ClosePull \/ MarkCopy \/ DeleteCopy \/ Save
  BY <1>1, <1>5, StandsKeyed, DeleteCopyKeyed, SaveKeyed
<1>6. CASE Labels \/ SetLabels \/ SaveLabels \/ Tell \/ CutOff
  BY <1>1, <1>6, AsideKeyed
<1>7. CASE BranchesArrive \/ UNCHANGED vars
  BY <1>1, <1>7, OutsideKeyed DEF BranchesArrive, vars
<1> QED
  BY <1>2, <1>3, <1>4, <1>5, <1>6, <1>7 DEF Run

-----------------------------------------------------------------------------
(* Counting.                                                               *)

LEMMA Fewer ==
  ASSUME NEW B, IsFiniteSet(B), NEW A, A \subseteq B
  PROVE  IsFiniteSet(A) /\ Cardinality(A) \in Nat /\ Cardinality(B) \in Nat /\ Cardinality(A) <= Cardinality(B)
BY FS_Subset, FS_CardinalityType

LEMMA OneMore ==
  ASSUME NEW B, IsFiniteSet(B), NEW x, NEW A, A \subseteq B \cup {x}
  PROVE  IsFiniteSet(A) /\ Cardinality(A) \in Nat /\ Cardinality(B) \in Nat /\ Cardinality(A) <= Cardinality(B) + 1
<1>1. /\ IsFiniteSet(B \cup {x}) /\ Cardinality(B) \in Nat
      /\ Cardinality(B \cup {x}) = IF x \in B THEN Cardinality(B) ELSE Cardinality(B) + 1
  BY FS_AddElement, FS_CardinalityType
<1>2. IsFiniteSet(A) /\ Cardinality(A) \in Nat /\ Cardinality(A) <= Cardinality(B \cup {x})
  BY <1>1, Fewer
<1> QED
  BY <1>1, <1>2

LEMMA OneLess ==
  ASSUME NEW B, IsFiniteSet(B), NEW x \in B, NEW A, A \subseteq B \ {x}
  PROVE  IsFiniteSet(A) /\ Cardinality(A) \in Nat /\ Cardinality(B) \in Nat /\ Cardinality(A) + 1 <= Cardinality(B)
<1>1. /\ IsFiniteSet(B \ {x}) /\ Cardinality(B) \in Nat
      /\ Cardinality(B \ {x}) = Cardinality(B) - 1
  BY FS_RemoveElement, FS_CardinalityType
<1>2. IsFiniteSet(A) /\ Cardinality(A) \in Nat /\ Cardinality(A) <= Cardinality(B \ {x})
  BY <1>1, Fewer
<1> QED
  BY <1>1, <1>2

LEMMA Together ==
  ASSUME NEW B, IsFiniteSet(B), NEW C, IsFiniteSet(C), NEW A, A \subseteq B \cup C
  PROVE  /\ IsFiniteSet(A) /\ Cardinality(A) \in Nat /\ Cardinality(B) \in Nat /\ Cardinality(C) \in Nat
         /\ Cardinality(A) <= Cardinality(B) + Cardinality(C)
<1>1. /\ IsFiniteSet(B \cup C) /\ Cardinality(B) \in Nat /\ Cardinality(C) \in Nat /\ Cardinality(B \cap C) \in Nat
      /\ Cardinality(B \cup C) = Cardinality(B) + Cardinality(C) - Cardinality(B \cap C)
  BY FS_Union, FS_Intersection, FS_CardinalityType
<1>2. IsFiniteSet(A) /\ Cardinality(A) \in Nat /\ Cardinality(A) <= Cardinality(B \cup C)
  BY <1>1, Fewer
<1> QED
  BY <1>1, <1>2

LEMMA AllFinite ==
  ASSUME TypeInv, NEW n \in Node, NEW k
  PROVE  /\ IsFiniteSet(Of(n, k)) /\ IsFiniteSet(Later(n, k)) /\ IsFiniteSet(Unknown(n, k))
         /\ IsFiniteSet(RecsOf(k)) /\ IsFiniteSet(On(n, k)) /\ IsFiniteSet(Due(n, k))
<1>1. ASSUME NEW s \in Seq(Things) PROVE IsFiniteSet(DOMAIN s)
  BY FS_Interval
<1>2. IsFiniteSet(DOMAIN on[n]) /\ (n \in Read => IsFiniteSet(DOMAIN run.snap[n]))
  BY <1>1 DEF TypeInv, NodesTyped, Lists, RunInv, RunOK, Read
<1>3. IsFiniteSet(DOMAIN recs)
  <2>1. DOMAIN recs \subseteq 0 .. hist.next
    BY DEF TypeInv, Origins
  <2>2. IsFiniteSet(0 .. hist.next)
    BY FS_Interval DEF TypeInv, Origins
  <2> QED
    BY <2>1, <2>2, FS_Subset
<1>4. Of(n, k) \subseteq DOMAIN on[n] /\ Later(n, k) \subseteq DOMAIN on[n]
  BY DEF Of, Later, Live
<1>5. CASE n \in Read
  <2>1. Unknown(n, k) \subseteq DOMAIN run.snap[n]
    BY <1>5 DEF Unknown, Fresh
  <2>2. IsFiniteSet(Unknown(n, k))
    BY <1>2, <1>5, <2>1, FS_Subset
  <2>3. RecsOf(k) \subseteq DOMAIN recs /\ On(n, k) \subseteq DOMAIN recs /\ Due(n, k) \subseteq DOMAIN recs
    BY DEF RecsOf, On, Due
  <2> QED
    BY <1>2, <1>3, <1>4, <2>2, <2>3, FS_Subset
<1>6. CASE n \notin Read
  <2>1. Unknown(n, k) \subseteq DOMAIN on[n]
    BY <1>4, <1>6 DEF Unknown
  <2>2. RecsOf(k) \subseteq DOMAIN recs /\ On(n, k) \subseteq DOMAIN recs /\ Due(n, k) \subseteq DOMAIN recs
    BY DEF RecsOf, On, Due
  <2> QED
    BY <1>2, <1>3, <1>4, <2>1, <2>2, FS_Subset
<1> QED
  BY <1>5, <1>6

-----------------------------------------------------------------------------
(* Nothing new.                                                            *)

LEMMA SameKnown ==
  ASSUME UNCHANGED recs
  PROVE  KnownStillKnown /\ \A m : Known(m)' = Known(m)
BY DEF KnownStillKnown, Known

LEMMA SetsStay ==
  ASSUME TypeInv, KeysKept, KnownStillKnown, UNCHANGED <<kind, run.snap>>,
         NEW n \in Node, DOMAIN on'[n] \subseteq DOMAIN on[n] \cup Known(n)', NEW k
  PROVE  /\ Later(n, k)' \subseteq Later(n, k)
         /\ n \notin Read \/ UNCHANGED recs => Unknown(n, k)' \subseteq Unknown(n, k)
<1>1. KeyField' = KeyField /\ Read' = Read
  BY KeyFieldIs DEF Read
<1>2. ASSUME NEW c \in Of(n, k)' \ Known(n)'
      PROVE  c \in Of(n, k) \ Known(n)
  BY <1>1, <1>2 DEF Of, Live, KeysKept, KnownStillKnown, There
<1>3. Later(n, k)' \subseteq Later(n, k)
  BY <1>1, <1>2 DEF Later
<1>4. CASE n \notin Read
  <2>1. Unknown(n, k)' \subseteq Unknown(n, k)
    BY <1>1, <1>2, <1>4 DEF Unknown
  <2> QED
    BY <1>3, <2>1
<1>5. ASSUME n \in Read, UNCHANGED recs
      PROVE  Unknown(n, k)' \subseteq Unknown(n, k)
  <2>1. Fresh(n)' = Fresh(n)
    BY <1>5, SameKnown DEF Fresh, There
  <2> QED
    BY <1>1, <1>5, <2>1 DEF Unknown
<1> QED
  BY <1>3, <1>4, <1>5

LEMMA RecordSetsStay ==
  ASSUME UNCHANGED <<kind, recs>>, NEW n, NEW k
  PROVE  RecsOf(k)' = RecsOf(k) /\ On(n, k)' = On(n, k)
<1>1. KeyField' = KeyField
  BY KeyFieldIs
<1> QED
  BY <1>1 DEF RecsOf, On

\* While the run looks.
LEMMA CountLooking ==
  ASSUME TypeInv, MadeOK, NEW k \in Keys, CountOf(k), hist'.made[k] = hist.made[k],
         run.ph \in Looking, run'.ph \in Looking, RecsOf(k)' \subseteq RecsOf(k),
         \A n \in Node : /\ Later(n, k)' \subseteq Later(n, k) /\ Unknown(n, k)' \subseteq Unknown(n, k)
                         /\ On(n, k)' \subseteq On(n, k)
  PROVE  CountOf(k)'
<1>1. \A n \in Node : /\ Cardinality(Later(n, k)') \in Nat /\ Cardinality(Later(n, k)') <= Cardinality(Later(n, k))
                      /\ Cardinality(Unknown(n, k)') \in Nat /\ Cardinality(Unknown(n, k)') <= Cardinality(Unknown(n, k))
                      /\ Cardinality(On(n, k)') \in Nat /\ Cardinality(On(n, k)') <= Cardinality(On(n, k))
                      /\ Cardinality(Later(n, k)) \in Nat /\ Cardinality(Unknown(n, k)) \in Nat
                      /\ Cardinality(On(n, k)) \in Nat
  BY AllFinite, Fewer
<1>2. /\ Cardinality(RecsOf(k)') \in Nat /\ Cardinality(RecsOf(k)') <= Cardinality(RecsOf(k))
      /\ Cardinality(RecsOf(k)) \in Nat
  BY AllFinite, Fewer, Ordered
<1> QED
  BY <1>1, <1>2 DEF CountOf, MadeOK

\* Once it looks no more.
LEMMA CountSettled ==
  ASSUME TypeInv, MadeOK, NEW k \in Keys, CountOf(k), hist'.made[k] = hist.made[k],
         run.ph \notin Looking, run'.ph \notin Looking, RecsOf(k)' \subseteq RecsOf(k), Read' = Read,
         \A n \in Read : Later(n, k)' \subseteq Later(n, k) /\ Due(n, k)' \subseteq Due(n, k),
         \A n \in Node \ Read : Unknown(n, k)' \subseteq Unknown(n, k) /\ On(n, k)' \subseteq On(n, k)
  PROVE  CountOf(k)'
<1>1. \A n \in Read : /\ n \in Node
                      /\ Cardinality(Later(n, k)') \in Nat /\ Cardinality(Later(n, k)') <= Cardinality(Later(n, k))
                      /\ Cardinality(Due(n, k)') \in Nat /\ Cardinality(Due(n, k)') <= Cardinality(Due(n, k))
                      /\ Cardinality(Later(n, k)) \in Nat /\ Cardinality(Due(n, k)) \in Nat
  BY AllFinite, Fewer DEF TypeInv, RunInv, RunOK, Read
<1>2. \A n \in Node \ Read :
        /\ Cardinality(Unknown(n, k)') \in Nat /\ Cardinality(Unknown(n, k)') <= Cardinality(Unknown(n, k))
        /\ Cardinality(On(n, k)') \in Nat /\ Cardinality(On(n, k)') <= Cardinality(On(n, k))
        /\ Cardinality(Unknown(n, k)) \in Nat /\ Cardinality(On(n, k)) \in Nat
  BY AllFinite, Fewer
<1>3. /\ Cardinality(RecsOf(k)') \in Nat /\ Cardinality(RecsOf(k)') <= Cardinality(RecsOf(k))
      /\ Cardinality(RecsOf(k)) \in Nat
  BY AllFinite, Fewer, Ordered
<1> QED
  BY <1>1, <1>2, <1>3 DEF CountOf, MadeOK

-----------------------------------------------------------------------------
(* The count, step by step.                                                *)

\* The run is over: what is not known of a node was read and is to be attached,
\* or was made since.
LEMMA IdleAt ==
  ASSUME TypeInv, MadeOK, Keyed, Placed, NEW k \in Keys, CountOf(k), KeysKept, UNCHANGED <<kind, recs>>,
         DOMAIN run'.snap = {}, NEW n \in Node, DOMAIN on'[n] = DOMAIN on[n]
  PROVE  /\ Cardinality(Unknown(n, k)') \in Nat /\ Cardinality(On(n, k)') \in Nat
         /\ Cardinality(Unknown(n, k)') + Cardinality(On(n, k)') <= hist.made[k]
<1> DEFINE U == Of(n, k) \ Known(n)
<1>1. Unknown(n, k)' \subseteq U /\ On(n, k)' = On(n, k)
  <2>1. n \notin Read' /\ KeyField' = KeyField /\ Known(n)' = Known(n)
    BY SameKnown, KeyFieldIs DEF Read
  <2>2. Of(n, k)' \subseteq Of(n, k)
    BY <2>1 DEF Of, Live, KeysKept, There
  <2> QED
    BY <2>1, <2>2, RecordSetsStay DEF Unknown
<1>2. /\ IsFiniteSet(Later(n, k)) /\ IsFiniteSet(Unknown(n, k)) /\ IsFiniteSet(On(n, k)) /\ IsFiniteSet(Due(n, k))
      /\ hist.made[k] \in Nat
  BY AllFinite DEF MadeOK
<1>3. CASE n \notin Read
  <2>1. U = Unknown(n, k)
    BY <1>3 DEF Unknown
  <2>2. Cardinality(Unknown(n, k)) + Cardinality(On(n, k)) <= hist.made[k]
    <3>1. CASE run.ph \notin Looking
      BY <1>3, <3>1 DEF CountOf
    <3>2. CASE run.ph \in Looking
      <4>1. Cardinality(Later(n, k)) + Cardinality(Unknown(n, k)) + Cardinality(On(n, k)) <= hist.made[k]
        BY <3>2 DEF CountOf
      <4> QED
        BY <1>2, <4>1, FS_CardinalityType
    <3> QED
      BY <3>1, <3>2
  <2> QED
    BY <1>1, <1>2, <2>1, <2>2, Fewer
<1>4. CASE n \in Read /\ run.ph \notin Looking
  <2>1. U \subseteq Later(n, k)
    <3>1. \A i \in DOMAIN run.snap[n] : There(on[n], i) => i \in Known(n)
      BY <1>4 DEF Placed, AllKnown
    <3> QED
      BY <1>4, <3>1 DEF Later, Of, Live
  <2>2. On(n, k) \subseteq Due(n, k)
    BY DEF On, Due
  <2>3. Cardinality(Later(n, k)) + Cardinality(Due(n, k)) <= hist.made[k]
    BY <1>4 DEF CountOf
  <2>4. Unknown(n, k)' \subseteq Later(n, k) /\ On(n, k)' \subseteq Due(n, k)
    BY <1>1, <2>1, <2>2
  <2> QED
    BY <1>2, <2>3, <2>4, Fewer
<1>5. CASE n \in Read /\ run.ph \in Looking
  <2>1. U \subseteq Later(n, k) \cup Unknown(n, k)
    <3>1. \A i \in DOMAIN run.snap[n] :
            There(on[n], i) => There(run.snap[n], i) /\ on[n][i][KeyField] = run.snap[n][i][KeyField]
      BY <1>5 DEF Keyed, SnapKey
    <3> QED
      BY <1>5, <3>1 DEF Later, Unknown, Fresh, Of, Live
  <2>2. Cardinality(Later(n, k)) + Cardinality(Unknown(n, k)) + Cardinality(On(n, k)) <= hist.made[k]
    BY <1>5 DEF CountOf
  <2>3. Unknown(n, k)' \subseteq Later(n, k) \cup Unknown(n, k)
    BY <1>1, <2>1
  <2>4. /\ Cardinality(Unknown(n, k)') \in Nat /\ Cardinality(Later(n, k)) \in Nat /\ Cardinality(Unknown(n, k)) \in Nat
        /\ Cardinality(Unknown(n, k)') <= Cardinality(Later(n, k)) + Cardinality(Unknown(n, k))
    BY <1>2, <2>3, Together
  <2>5. Cardinality(On(n, k)') = Cardinality(On(n, k)) /\ Cardinality(On(n, k)) \in Nat
    BY <1>1, <1>2, FS_CardinalityType
  <2> QED
    BY <1>2, <2>2, <2>4, <2>5
<1> QED
  BY <1>3, <1>4, <1>5

LEMMA CountIdle ==
  ASSUME TypeInv, MadeOK, NEW k \in Keys, CountOf(k), hist'.made[k] = hist.made[k], UNCHANGED <<kind, recs>>,
         DOMAIN run'.snap = {}, run'.ph \in Looking,
         \A n \in Node : /\ Cardinality(Unknown(n, k)') \in Nat /\ Cardinality(On(n, k)') \in Nat
                         /\ Cardinality(Unknown(n, k)') + Cardinality(On(n, k)') <= hist.made[k]
  PROVE  CountOf(k)'
<1>1. \A n : Later(n, k)' = {}
  BY DEF Later, Read
<1>2. \A n : Cardinality(Later(n, k)') = 0
  BY <1>1, FS_EmptySet
<1>3. /\ Cardinality(RecsOf(k)') = Cardinality(RecsOf(k)) /\ Cardinality(RecsOf(k)) \in Nat
      /\ Cardinality(RecsOf(k)) <= hist.made[k]
  <2>1. RecsOf(k)' = RecsOf(k)
    BY RecordSetsStay
  <2> QED
    BY <2>1, AllFinite, FS_CardinalityType, Ordered DEF CountOf
<1>4. run'.ph \notin Looking => FALSE
  OBVIOUS
<1> QED
  BY <1>2, <1>3, <1>4 DEF CountOf, MadeOK

LEMMA OverCounted ==
  ASSUME TypeInv, MadeOK, Keyed, Placed, NEW k \in Keys, CountOf(k), KeysKept, NoneMade,
         hist'.made[k] = hist.made[k], UNCHANGED <<kind, recs>>, DOMAIN run'.snap = {}, run'.ph \in Looking
  PROVE  CountOf(k)'
BY IdleAt, CountIdle DEF NoneMade

\* The snapshots.
LEMMA ReadNodeCounted ==
  ASSUME TypeInv, MadeOK, Keyed, Placed, NEW k \in Keys, CountOf(k), hist'.made[k] = hist.made[k], ReadNode
  PROVE  CountOf(k)'
<1>1. /\ UNCHANGED <<kind, on, recs>> /\ N \in Node /\ IsRun(run) /\ run.ph = "read"
  BY Ordered DEF ReadNode, TypeInv, RunInv, RunOK, N
<1>2. /\ run'.ph \in {"readIssues", "attach", "read"}
      /\ DOMAIN run'.snap = DOMAIN run.snap \cup {N}
      /\ \A n \in DOMAIN run'.snap : run'.snap[n] = IF n = N THEN on[n] ELSE run.snap[n]
  BY <1>1 DEF ReadNode, IsRun
<1>3. N \notin Read /\ Read' = Read \cup {N} /\ KeyField' = KeyField
  BY <1>1, <1>2, ReadNodeKeyed, KeyFieldIs DEF Read
<1>4. ASSUME NEW n \in Node
      PROVE  Later(n, k)' \subseteq Later(n, k) /\ Unknown(n, k)' \subseteq Unknown(n, k)
  <2>1. Of(n, k)' = Of(n, k) /\ Known(n)' = Known(n)
    BY <1>1, <1>3, SameKnown DEF Of, Live, There
  <2>2. CASE n = N
    BY <1>2, <1>3, <2>1, <2>2 DEF Later, Unknown, Fresh, Of, Live, There
  <2>3. CASE n # N
    <3>1. n \in Read => Fresh(n)' = Fresh(n)
      BY <1>2, <2>1, <2>3 DEF Fresh, There, Read
    <3> QED
      BY <1>2, <1>3, <2>1, <2>3, <3>1 DEF Later, Unknown, Read
  <2> QED
    BY <2>2, <2>3
<1> QED
  BY <1>1, <1>2, <1>4, RecordSetsStay, CountLooking DEF Looking, Reading

\* Nothing is made, and no record is touched.
LEMMA LookingCounted ==
  ASSUME TypeInv, MadeOK, NEW k \in Keys, CountOf(k), hist'.made[k] = hist.made[k], KeysKept, NoneMade,
         UNCHANGED <<kind, recs, run.snap>>, run.ph \in Looking, run'.ph \in Looking
  PROVE  CountOf(k)'
<1>1. KnownStillKnown
  BY SameKnown
<1>2. \A n \in Node : Later(n, k)' \subseteq Later(n, k) /\ Unknown(n, k)' \subseteq Unknown(n, k)
  BY <1>1, SetsStay DEF NoneMade
<1> QED
  BY <1>2, RecordSetsStay, CountLooking

\* The records the run is to come to or is at grow fewer.
FewerDue ==
    /\ run'.todo \subseteq run.todo
    /\ \/ run'.ph \notin {"edit", "make"}
       \/ run'.i \in run.todo
       \/ run'.i = run.i /\ run.ph = "edit"
       \/ run'.i = run.i /\ run.ph = "make" /\ run'.ph = "make" /\ run'.left \subseteq run.left

LEMMA SettledCounted ==
  ASSUME TypeInv, MadeOK, NEW k \in Keys, CountOf(k), hist'.made[k] = hist.made[k], KeysKept, NoneMade,
         UNCHANGED <<kind, recs, run.snap>>, run.ph \notin Looking, run'.ph \notin Looking, FewerDue
  PROVE  CountOf(k)'
<1>1. KnownStillKnown
  BY SameKnown
<1>2. \A n \in Node : Later(n, k)' \subseteq Later(n, k) /\ Unknown(n, k)' \subseteq Unknown(n, k)
  BY <1>1, SetsStay DEF NoneMade
<1>3. Read' = Read /\ \A n \in Read : n \in Node
  BY DEF Read, TypeInv, RunInv, RunOK
<1>4. \A n : Due(n, k)' \subseteq Due(n, k)
  BY KeyFieldIs DEF Due, RecsOf, FewerDue
<1>5. RecsOf(k)' = RecsOf(k) /\ \A n \in Node : On(n, k)' = On(n, k)
  BY RecordSetsStay
<1> QED
  BY <1>2, <1>3, <1>4, <1>5, CountSettled

LEMMA AllAttachedCounted ==
  ASSUME TypeInv, MadeOK, NEW k \in Keys, CountOf(k), hist'.made[k] = hist.made[k], AllAttached
  PROVE  CountOf(k)'
<1>1. /\ UNCHANGED <<kind, on, recs>> /\ run.ph = "attach" /\ run'.ph = "records" /\ UNCHANGED run.snap
      /\ Read' = Read
  BY DEF AllAttached, TypeInv, RunInv, RunOK, IsRun, Read
<1>2. KeysKept /\ KnownStillKnown
  BY <1>1, SameKnown DEF KeysKept, There
<1>3. \A n \in Node : Later(n, k)' \subseteq Later(n, k) /\ Unknown(n, k)' \subseteq Unknown(n, k)
  BY <1>1, <1>2, SetsStay
<1>4. RecsOf(k)' = RecsOf(k) /\ \A n \in Node : On(n, k)' = On(n, k)
  BY <1>1, RecordSetsStay
<1>5. \A n \in Node : Due(n, k)' \subseteq RecsOf(k)
  BY <1>4 DEF Due
<1>6. \A n \in Node : /\ Cardinality(Later(n, k)') \in Nat /\ Cardinality(Later(n, k)') <= Cardinality(Later(n, k))
                      /\ Cardinality(Unknown(n, k)') \in Nat /\ Cardinality(Unknown(n, k)') <= Cardinality(Unknown(n, k))
                      /\ Cardinality(Due(n, k)') \in Nat /\ Cardinality(Due(n, k)') <= Cardinality(RecsOf(k))
                      /\ Cardinality(Later(n, k)) \in Nat /\ Cardinality(Unknown(n, k)) \in Nat
                      /\ Cardinality(On(n, k)) \in Nat /\ Cardinality(RecsOf(k)) \in Nat
  BY <1>3, <1>5, AllFinite, Fewer
<1>7. \A n \in Node : /\ Cardinality(Later(n, k)) + Cardinality(RecsOf(k)) <= hist.made[k]
                      /\ Cardinality(Later(n, k)) + Cardinality(Unknown(n, k)) + Cardinality(On(n, k)) <= hist.made[k]
  BY <1>1 DEF CountOf, Looking, Reading
<1>8. Cardinality(RecsOf(k)') <= hist'.made[k]
  BY <1>4 DEF CountOf
<1>9. run'.ph \notin Looking
  BY <1>1 DEF Looking, Reading
<1>10. \A n \in Node : /\ Cardinality(Later(n, k)') + Cardinality(Due(n, k)') <= hist'.made[k]
                       /\ Cardinality(Unknown(n, k)') + Cardinality(On(n, k)') <= hist'.made[k]
  BY <1>4, <1>6, <1>7 DEF MadeOK
<1> QED
  BY <1>8, <1>9, <1>10 DEF CountOf

\* What is attached is no longer unknown.
LEMMA KnownGrows ==
  ASSUME UNCHANGED <<kind, on, run>>, NEW n, NEW k, Known(n) \subseteq Known(n)'
  PROVE  /\ Later(n, k)' \subseteq Later(n, k)
         /\ Unknown(n, k)' \subseteq Unknown(n, k) \ (Known(n)' \ Known(n))
<1>1. KeyField' = KeyField /\ Read' = Read /\ Of(n, k)' = Of(n, k)
  BY KeyFieldIs DEF Read, Of, Live, There
<1>2. Fresh(n)' \subseteq Fresh(n) /\ Fresh(n)' \cap Known(n)' = {}
  BY DEF Fresh, There
<1> QED
  BY <1>1, <1>2 DEF Later, Unknown

LEMMA OneAttached ==
  ASSUME TypeInv, MadeOK, NEW k \in Keys, CountOf(k), hist'.made[k] = hist.made[k],
         run.ph \in Looking, run'.ph \in Looking,
         NEW n \in Node, NEW i \in Unknown(n, k), NEW j,
         \A m \in Node : Later(m, k)' \subseteq Later(m, k) /\ Unknown(m, k)' \subseteq Unknown(m, k),
         Unknown(n, k)' \subseteq Unknown(n, k) \ {i}, On(n, k)' \subseteq On(n, k) \cup {j},
         \A m \in Node : m # n => On(m, k)' \subseteq On(m, k),
         \/ RecsOf(k)' \subseteq RecsOf(k)
         \/ RecsOf(k)' \subseteq RecsOf(k) \cup {j} /\ RecsOf(k) \subseteq On(n, k)
  PROVE  CountOf(k)'
<1>1. \A m \in Node : /\ Cardinality(Later(m, k)') \in Nat /\ Cardinality(Later(m, k)') <= Cardinality(Later(m, k))
                      /\ Cardinality(Unknown(m, k)') \in Nat /\ Cardinality(Unknown(m, k)') <= Cardinality(Unknown(m, k))
                      /\ Cardinality(Later(m, k)) \in Nat /\ Cardinality(Unknown(m, k)) \in Nat
                      /\ Cardinality(On(m, k)) \in Nat
  BY AllFinite, Fewer
<1>2. \A m \in Node : m # n => Cardinality(On(m, k)') \in Nat /\ Cardinality(On(m, k)') <= Cardinality(On(m, k))
  BY AllFinite, Fewer
<1>3. Cardinality(Unknown(n, k)') + 1 <= Cardinality(Unknown(n, k))
  BY AllFinite, OneLess
<1>4. Cardinality(On(n, k)') \in Nat /\ Cardinality(On(n, k)') <= Cardinality(On(n, k)) + 1
  BY AllFinite, OneMore
<1>5. \A l, m \in Node : /\ Cardinality(Later(l, k)) + Cardinality(RecsOf(k)) <= hist.made[k]
                         /\ Cardinality(Later(l, k)) + Cardinality(Unknown(m, k)) + Cardinality(On(m, k)) <= hist.made[k]
  BY DEF CountOf
<1>6. /\ Cardinality(RecsOf(k)') \in Nat
      /\ \A l \in Node : Cardinality(Later(l, k)) + Cardinality(RecsOf(k)') <= hist.made[k]
  <2>1. CASE RecsOf(k)' \subseteq RecsOf(k)
    <3>1. /\ Cardinality(RecsOf(k)') \in Nat /\ Cardinality(RecsOf(k)) \in Nat
          /\ Cardinality(RecsOf(k)') <= Cardinality(RecsOf(k))
      BY <2>1, AllFinite, Fewer
    <3> QED
      BY <1>1, <1>5, <3>1 DEF MadeOK
  <2>2. CASE RecsOf(k)' \subseteq RecsOf(k) \cup {j} /\ RecsOf(k) \subseteq On(n, k)
    <3>1. /\ Cardinality(RecsOf(k)') \in Nat /\ Cardinality(RecsOf(k)) \in Nat
          /\ Cardinality(RecsOf(k)') <= Cardinality(RecsOf(k)) + 1
      BY <2>2, AllFinite, OneMore
    <3>2. Cardinality(RecsOf(k)) <= Cardinality(On(n, k))
      BY <2>2, AllFinite, Fewer
    <3>3. Cardinality(Unknown(n, k)) >= 1
      BY <1>1, <1>3
    <3> QED
      BY <1>1, <1>5, <3>1, <3>2, <3>3 DEF MadeOK
  <2> QED
    BY <2>1, <2>2
<1>7. \A l \in Node : Cardinality(Later(l, k)') + Cardinality(RecsOf(k)') <= hist'.made[k]
  BY <1>1, <1>6 DEF MadeOK
<1>8. Cardinality(RecsOf(k)') <= hist'.made[k]
  BY <1>1, <1>6, <1>7, Ordered DEF MadeOK
<1>9. \A l, m \in Node : Cardinality(Later(l, k)') + Cardinality(Unknown(m, k)') + Cardinality(On(m, k)') <= hist'.made[k]
  <2> SUFFICES ASSUME NEW l \in Node, NEW m \in Node
               PROVE  Cardinality(Later(l, k)') + Cardinality(Unknown(m, k)') + Cardinality(On(m, k)') <= hist'.made[k]
    OBVIOUS
  <2>1. CASE m = n
    BY <1>1, <1>3, <1>4, <1>5, <2>1 DEF MadeOK
  <2>2. CASE m # n
    BY <1>1, <1>2, <1>5, <2>2 DEF MadeOK
  <2> QED
    BY <2>1, <2>2
<1> QED
  BY <1>7, <1>8, <1>9 DEF CountOf

LEMMA AttachCounted ==
  ASSUME TypeInv, MadeOK, Keyed, Placed, NEW k \in Keys, CountOf(k), hist'.made[k] = hist.made[k],
         NEW n \in Node, Attach(n)
  PROVE  CountOf(k)'
<1>1. /\ run.ph = "attach" /\ n \in Read /\ UNCHANGED <<kind, on, run>>
      /\ \E i \in Fresh(n) : /\ i \in DOMAIN run.snap[n] /\ run.snap[n][i] \in Thing
                             /\ \E s : RecognisedAs(n, i, s) \/ \E j : AttachedTo(n, i, j, s)
  BY AttachWhich DEF Keyed
<1>2. PICK i \in Fresh(n) : /\ i \in DOMAIN run.snap[n] /\ run.snap[n][i] \in Thing
                            /\ \E s : RecognisedAs(n, i, s) \/ \E j : AttachedTo(n, i, j, s)
  BY <1>1
<1>3. /\ KeyField' = KeyField /\ KeyField \in {"key", "text"} /\ run'.ph \in Looking /\ run.ph \in Looking
      /\ i \notin Known(n)
  BY <1>1, <1>2, KeyFieldIs DEF Looking, Reading, Fresh
<1>4. ASSUME NEW j, NEW A, NEW B, A = On(n, k)', B = RecsOf(k)',
             \A m : Known(m) \subseteq Known(m)', i \in Known(n)',
             \A m \in Node : m # n => On(m, k)' \subseteq On(m, k),
             A \subseteq On(n, k) \cup {j}, B \subseteq RecsOf(k) \cup {j},
             run.snap[n][i][KeyField] # k => A \subseteq On(n, k) /\ B \subseteq RecsOf(k),
             B \subseteq RecsOf(k) \/ RecsOf(k) \subseteq On(n, k)
      PROVE  CountOf(k)'
  <2>1. \A m \in Node : Later(m, k)' \subseteq Later(m, k) /\ Unknown(m, k)' \subseteq Unknown(m, k)
    BY <1>1, <1>4, KnownGrows
  <2>2. Unknown(n, k)' \subseteq Unknown(n, k) \ {i}
    BY <1>1, <1>3, <1>4, KnownGrows
  <2>3. CASE run.snap[n][i][KeyField] = k
    <3>1. i \in Unknown(n, k)
      BY <1>1, <1>2, <2>3 DEF Unknown
    <3> QED
      BY <1>3, <1>4, <2>1, <2>2, <3>1, OneAttached
  <2>4. CASE run.snap[n][i][KeyField] # k
    BY <1>3, <1>4, <2>1, <2>4, CountLooking
  <2> QED
    BY <2>3, <2>4
<1>5. ASSUME NEW s, NEW j, AttachedTo(n, i, j, s) PROVE CountOf(k)'
  <2>1. /\ j \in DOMAIN recs /\ DOMAIN recs' = DOMAIN recs
        /\ \A r \in DOMAIN recs : recs'[r] = IF r = j THEN s ELSE recs[r]
        /\ DOMAIN s.copies = DOMAIN recs[j].copies \cup {n} /\ s.copies[n] = i
        /\ \A o \in DOMAIN recs[j].copies : s.copies[o] = recs[j].copies[o]
        /\ s.key = recs[j].key /\ s.text = recs[j].text /\ recs[j][KeyField] = run.snap[n][i][KeyField]
    BY <1>5 DEF AttachedTo, Attached
  <2>2. \A r \in DOMAIN recs : recs'[r][KeyField] = recs[r][KeyField]
    BY <1>3, <2>1
  <2>3. \A m : Known(m) \subseteq Known(m)'
    BY <2>1 DEF Known
  <2>4. i \in Known(n)'
    BY <2>1 DEF Known
  <2>5. RecsOf(k)' = RecsOf(k)
    BY <1>3, <2>1, <2>2 DEF RecsOf
  <2>6. /\ \A m \in Node : m # n => On(m, k)' \subseteq On(m, k)
        /\ On(n, k)' \subseteq On(n, k) \cup {j}
        /\ run.snap[n][i][KeyField] # k => On(n, k)' \subseteq On(n, k)
    BY <1>3, <2>1, <2>2, <2>5 DEF On, RecsOf
  <2> QED
    BY <1>4, <2>3, <2>4, <2>5, <2>6
<1>6. ASSUME NEW s, RecognisedAs(n, i, s) PROVE CountOf(k)'
  <2> DEFINE j == hist.next
  <2>1. /\ DOMAIN recs' = DOMAIN recs \cup {j} /\ recs'[j] = s
        /\ \A r \in DOMAIN recs : recs'[r] = recs[r]
        /\ DOMAIN s.copies = {n} /\ s.copies[n] = i
        /\ s.key = run.snap[n][i].key /\ s.text = run.snap[n][i].text
        /\ \A r \in DOMAIN recs : recs[r][KeyField] = run.snap[n][i][KeyField] => n \in DOMAIN recs[r].copies
    BY <1>6 DEF RecognisedAs, Recognised
  <2> HIDE DEF j
  <2>2. s[KeyField] = run.snap[n][i][KeyField]
    BY <1>3, <2>1
  <2>3. \A m : Known(m) \subseteq Known(m)'
    BY <2>1 DEF Known
  <2>4. i \in Known(n)'
    BY <2>1 DEF Known
  <2>5. /\ RecsOf(k)' \subseteq RecsOf(k) \cup {j}
        /\ run.snap[n][i][KeyField] # k => RecsOf(k)' \subseteq RecsOf(k)
        /\ run.snap[n][i][KeyField] = k => RecsOf(k) \subseteq On(n, k)
    BY <1>3, <2>1, <2>2 DEF RecsOf, On
  <2>6. /\ \A m \in Node : m # n => On(m, k)' \subseteq On(m, k)
        /\ On(n, k)' \subseteq On(n, k) \cup {j}
        /\ run.snap[n][i][KeyField] # k => On(n, k)' \subseteq On(n, k)
    BY <1>3, <2>1, <2>2 DEF On, RecsOf
  <2> QED
    BY <1>4, <2>3, <2>4, <2>5, <2>6
<1> QED
  BY <1>2, <1>5, <1>6

-----------------------------------------------------------------------------
(* The record at hand, counted.                                            *)

LEMMA TakeCounted ==
  ASSUME TypeInv, MadeOK, Keyed, NEW k \in Keys, CountOf(k), hist'.made[k] = hist.made[k], KeysKept, NoneMade, Take
  PROVE  CountOf(k)'
<1> DEFINE i == Lowest(run.todo)
<1>1. /\ UNCHANGED <<kind, on, recs>> /\ i \in run.todo /\ i \in DOMAIN recs /\ run.ph = "records" /\ IsRun(run)
  BY TakeLeaves DEF TypeInv, RunInv, RunOK
<1> HIDE DEF i
<1>2. /\ UNCHANGED run.snap /\ run'.todo \subseteq run.todo
      /\ \/ run'.ph = "records"
         \/ run'.ph = "delete"
         \/ run'.ph = "edit" /\ run'.i = i
  <2>1. CASE WasDeleted(i)
    <3>1. DeletedRun(i, recs[i])
      BY <2>1, ToDeleteIs DEF i
    <3> QED
      BY <3>1 DEF DeletedRun
  <2>2. CASE ~WasDeleted(i) /\ run' = Picked(i)
    BY <1>1, <2>2, PickedIs
  <2>3. CASE ~WasDeleted(i) /\ run' = MergedInto(Picked(i), Taking(i))
    <3> DEFINE p == Picked(i)
               s == Taking(i)
    <3>1. IsRun(p) /\ p.i = i /\ p.todo = run.todo \ {i} /\ p.snap = run.snap
      BY <1>1, PickedIs
    <3>2. IsRecord(s)
      BY <1>1, <2>3, TakingIs DEF RecordOK
    <3>3. MergedRun(p, s, run')
      BY <2>3, <3>1, <3>2, MergedIs
    <3> HIDE DEF p, s
    <3> QED
      BY <3>1, <3>3 DEF MergedRun
  <2> QED
    BY <2>1, <2>2, <2>3, TakenIs DEF i
<1>3. FewerDue
  BY <1>1, <1>2 DEF FewerDue
<1> QED
  BY <1>1, <1>2, <1>3, SettledCounted DEF Looking, Reading

LEMMA StandsCounted ==
  ASSUME TypeInv, MadeOK, NEW k \in Keys, CountOf(k), hist'.made[k] = hist.made[k], KeysKept, NoneMade,
         NextPhase \/ EditCopy \/ ClosePull \/ MarkCopy
  PROVE  CountOf(k)'
<1>1. CASE NextPhase
  <2>1. /\ UNCHANGED <<kind, recs>> /\ UNCHANGED <<run.snap, run.i, run.todo>>
        /\ run.ph \in Working /\ run'.ph \in Working
        /\ run'.ph \in {"edit", "make"} => run.ph = "edit"
    BY <1>1, NextPhaseIs DEF NextPhase, Working, Merging
  <2> QED
    BY <2>1, SettledCounted DEF FewerDue, Looking, Reading, Working, Merging
<1>2. ASSUME NEW c, Called(c), run.ph \in Working
      PROVE  CountOf(k)'
  <2>1. /\ UNCHANGED <<kind, recs>> /\ UNCHANGED <<run.ph, run.snap, run.i, run.todo>> /\ run'.left \subseteq run.left
    BY <1>2 DEF Called, OneCallLess
  <2> QED
    BY <1>2, <2>1, SettledCounted DEF FewerDue, Looking, Reading, Working, Merging
<1>3. CASE EditCopy \/ ClosePull \/ MarkCopy
  <2>1. run.ph \in Working
    BY <1>3 DEF EditCopy, ClosePull, MarkCopy, Working, Merging
  <2> QED
    BY <1>2, <1>3, <2>1, EditCopyIs, ClosePullIs, MarkCopyIs DEF MarkCall
<1> QED
  BY <1>1, <1>3

LEMMA DeleteCopyCounted ==
  ASSUME TypeInv, MadeOK, NEW k \in Keys, CountOf(k), hist'.made[k] = hist.made[k], KeysKept, NoneMade, DeleteCopy
  PROVE  CountOf(k)'
<1>1. PICK n \in DOMAIN run.rec.copies :
           /\ run.ph = "delete" /\ UNCHANGED <<kind, recs>>
           /\ Called(n) \/ Removed(n)
  BY DeleteCopyIs
<1>2. UNCHANGED <<run.ph, run.snap, run.todo>>
  BY <1>1 DEF Called, OneCallLess, Removed
<1> QED
  BY <1>1, <1>2, SettledCounted DEF FewerDue, Looking, Reading

\* The labels' phases.
LEMMA AsideCounted ==
  ASSUME TypeInv, MadeOK, Keyed, Placed, NEW k \in Keys, CountOf(k), hist'.made[k] = hist.made[k], KeysKept, NoneMade,
         Labels \/ SetLabels \/ SaveLabels \/ Tell \/ CutOff
  PROVE  CountOf(k)'
<1>1. UNCHANGED <<kind, recs>> /\ IsRun(run)
  BY DEF Labels, SetLabels, SaveLabels, Tell, CutOff, Own, TypeInv, RunInv, RunOK
<1>2. CASE Labels \/ SetLabels \/ SaveLabels
  <2>1. /\ run.ph \in {"records", "labels", "saveLabels"} /\ run'.ph \in {"labels", "saveLabels", "tell"}
        /\ UNCHANGED <<run.snap, run.todo>>
    BY <1>1, <1>2 DEF Labels, SetLabels, SaveLabels, Past, Incomplete, IsRun
  <2> QED
    BY <1>1, <2>1, SettledCounted DEF FewerDue, Looking, Reading
<1>3. CASE Tell \/ CutOff
  <2>1. run'.ph = "idle" /\ DOMAIN run'.snap = {}
    BY <1>3, IdleRun DEF Tell, CutOff
  <2> QED
    BY <1>1, <2>1, OverCounted DEF Looking
<1> QED
  BY <1>2, <1>3

LEMMA BeginCounted ==
  ASSUME TypeInv, MadeOK, Keyed, Placed, NEW k \in Keys, CountOf(k), hist'.made[k] = hist.made[k], KeysKept, NoneMade,
         Begin \/ ReadIssues \/ PassOver
  PROVE  CountOf(k)'
<1>1. UNCHANGED <<kind, recs>> /\ IsRun(run)
  BY DEF Begin, ReadIssues, PassOver, TypeInv, RunInv, RunOK
<1>2. CASE Begin \/ (PassOver /\ N = Primary)
  <2>1. DOMAIN run'.snap = {} /\ run'.ph \in {"idle", "read"}
    BY <1>2, IdleRun DEF Begin, PassOver, IsRun
  <2> QED
    BY <1>1, <2>1, OverCounted DEF Looking, Reading
<1>3. CASE ReadIssues \/ (PassOver /\ N # Primary)
  <2>1. /\ UNCHANGED run.snap /\ run.ph \in {"read", "readIssues"} /\ run'.ph \in {"attach", "read"}
    BY <1>1, <1>3 DEF ReadIssues, PassOver, IsRun
  <2> QED
    BY <1>1, <2>1, LookingCounted DEF Looking, Reading
<1> QED
  BY <1>2, <1>3

LEMMA SaveCounted ==
  ASSUME TypeInv, MadeOK, Keyed, Placed, NEW k \in Keys, CountOf(k), hist'.made[k] = hist.made[k], KeysKept, Save
  PROVE  CountOf(k)'
<1>1. /\ run.ph = "save" /\ UNCHANGED <<kind, on>> /\ run'.ph = "records" /\ UNCHANGED <<run.snap, run.i, run.todo>>
  BY SaveIs
<1>2. KnownStillKnown /\ SavedOver /\ KeyField' = KeyField
  BY <1>1, SavedKnown, SaveSays, KeyFieldIs
<1>3. RecsOf(k)' \subseteq RecsOf(k)
  BY <1>2 DEF SavedOver, RecsOf
<1>4. \A n : On(n, k)' \subseteq On(n, k) /\ Due(n, k)' \subseteq Due(n, k)
  BY <1>1, <1>2, <1>3 DEF SavedOver, On, Due, RecsOf
<1>5. /\ \A n \in Node : Later(n, k)' \subseteq Later(n, k) /\ (n \notin Read => Unknown(n, k)' \subseteq Unknown(n, k))
      /\ Read' = Read /\ \A n \in Read : n \in Node
  BY <1>1, <1>2, SetsStay DEF Read, TypeInv, RunInv, RunOK
<1> QED
  BY <1>1, <1>3, <1>4, <1>5, CountSettled DEF Looking, Reading

\* A copy is made and recorded: it is known.
LEMMA RecordedCounted ==
  ASSUME TypeInv, MadeOK, Keyed, Placed, NEW k \in Keys, CountOf(k), hist'.made[k] = hist.made[k], KeysKept,
         UNCHANGED kind, run.ph = "make", NEW n \in run.left, n \in Node, n \notin DOMAIN run.rec.copies, Recorded(n)
  PROVE  CountOf(k)'
<1>1. PICK id, s : RecordedAs(n, id, s)
  BY RecordedSays
<1> DEFINE i == run.i
<1>2. /\ i \in DOMAIN recs /\ i \notin run.todo /\ n \in Read
      /\ \A m \in DOMAIN run.rec.copies : m \in DOMAIN recs[i].copies /\ run.rec.copies[m] = recs[i].copies[m]
      /\ \A m \in Read : m \in Node
  BY DEF TypeInv, RunInv, RunOK, AtHand, Working, Merging, Pending, Read
<1>3. KnownStillKnown /\ KeyField' = KeyField /\ KeyField \in {"key", "text"}
  BY <1>1, RecordedKnown, KeyFieldIs
<1>4. s[KeyField] = recs[i][KeyField]
  BY <1>1, <1>3 DEF RecordedAs, Keyed, HandKey, Working, Merging
<1>5. RecsOf(k)' = RecsOf(k)
  BY <1>1, <1>2, <1>3, <1>4 DEF RecordedAs, RecsOf
<1>6. \A m \in Node : Due(m, k)' \subseteq Due(m, k) /\ (m # n => On(m, k)' \subseteq On(m, k))
  BY <1>1, <1>2, <1>5 DEF RecordedAs, Due, On, RecsOf
<1>7. id \in Known(n)'
  BY <1>1, <1>2 DEF RecordedAs, Known
<1>8. /\ \A m \in Node : Later(m, k)' \subseteq Later(m, k) /\ (m \notin Read => Unknown(m, k)' \subseteq Unknown(m, k))
      /\ Read' = Read /\ UNCHANGED run.ph
  BY <1>1, <1>3, <1>7, SetsStay DEF RecordedAs, Read
<1> QED
  BY <1>2, <1>5, <1>6, <1>8, CountSettled DEF Looking, Reading

\* One thing more on n.
LEMMA SetsGrow ==
  ASSUME TypeInv, KeysKept, UNCHANGED <<kind, recs>>, NEW n \in Node, NEW id, NEW k,
         DOMAIN on'[n] \subseteq DOMAIN on[n] \cup {id}
  PROVE  /\ Of(n, k)' \ Known(n)' \subseteq (Of(n, k) \ Known(n)) \cup {id}
         /\ on'[n][id][KeyField] # k => Of(n, k)' \ Known(n)' \subseteq Of(n, k) \ Known(n)
<1>1. KeyField' = KeyField /\ Known(n)' = Known(n)
  BY SameKnown, KeyFieldIs
<1>2. ASSUME NEW c \in Of(n, k)' \ Known(n)', c # id \/ on'[n][id][KeyField] # k
      PROVE  c \in Of(n, k) \ Known(n)
  <2>1. c \in DOMAIN on'[n] /\ There(on'[n], c) /\ on'[n][c][KeyField] = k
    BY <1>1, <1>2 DEF Of, Live
  <2>2. c \in DOMAIN on[n]
    BY <1>2, <2>1
  <2>3. There(on[n], c) /\ on'[n][c][KeyField] = on[n][c][KeyField]
    BY <2>1, <2>2 DEF KeysKept
  <2> QED
    BY <1>1, <1>2, <2>1, <2>2, <2>3 DEF Of, Live
<1> QED
  BY <1>2

\* A copy is made, and nobody knows: the record was still to bring one to the
\* node, and in this run brings no other.
LEMMA UnrecordedCounted ==
  ASSUME TypeInv, MadeOK, Keyed, Placed, NEW k \in Keys, CountOf(k), hist'.made[k] = hist.made[k], KeysKept,
         UNCHANGED kind, run.ph = "make", NEW n \in run.left, n \in Node, Unrecorded(n), ~hist'.unrecorded
  PROVE  CountOf(k)'
<1> DEFINE id == Len(on[n]) + 1
           i == run.i
<1>1. /\ on' = More(on, n, NewCopy) /\ UNCHANGED recs /\ n \notin DOMAIN recs[i].copies
      /\ run' = Incomplete(Past(n)) \/ run' = Idle
  BY DEF Unrecorded
<1>2. /\ DOMAIN on'[n] = DOMAIN on[n] \cup {id} /\ on'[n][id] = NewCopy
      /\ \A m \in Node : m # n => on'[m] = on[m]
  BY <1>1, CopyMade DEF More, TypeInv, NodesTyped, Lists
<1>3. /\ i \in DOMAIN recs /\ i \notin run.todo /\ n \in Read /\ \A m \in Read : m \in Node
  BY DEF TypeInv, RunInv, RunOK, AtHand, Working, Merging, Pending, Read
<1>4. KeyField' = KeyField /\ NewCopy[KeyField] = recs[i][KeyField]
  BY KeyFieldIs DEF NewCopy, Keyed, HandKey, Working, Merging
<1> HIDE DEF id
<1>5. RecsOf(k)' = RecsOf(k) /\ \A m : On(m, k)' = On(m, k)
  BY <1>1, RecordSetsStay
<1>6. \A m \in Read : m # n => DOMAIN on'[m] = DOMAIN on[m]
  BY <1>2, <1>3
<1>7. /\ Of(n, k)' \ Known(n)' \subseteq (Of(n, k) \ Known(n)) \cup {id}
      /\ recs[i][KeyField] # k => Of(n, k)' \ Known(n)' \subseteq Of(n, k) \ Known(n)
  BY <1>1, <1>2, <1>4, SetsGrow
<1>8. Of(n, k) \ Known(n) \subseteq Later(n, k)
  <2>1. \A j \in DOMAIN run.snap[n] : There(on[n], j) => j \in Known(n)
    BY <1>3 DEF Placed, AllKnown, Looking, Reading
  <2> QED
    BY <1>3, <2>1 DEF Later, Of, Live
<1>9. recs[i][KeyField] = k => i \in Due(n, k)
  BY <1>3 DEF Due, RecsOf
<1>10. ASSUME NEW A, NEW B, A \subseteq Later(n, k) \cup {id}, B \subseteq Due(n, k) \ {i},
              recs[i][KeyField] # k => A \subseteq Later(n, k)
       PROVE  /\ Cardinality(A) \in Nat /\ Cardinality(B) \in Nat
              /\ Cardinality(A) + Cardinality(B) <= hist.made[k]
  <2>1. /\ IsFiniteSet(Later(n, k)) /\ IsFiniteSet(Due(n, k))
        /\ Cardinality(Later(n, k)) + Cardinality(Due(n, k)) <= hist.made[k] /\ hist.made[k] \in Nat
    BY <1>3, AllFinite DEF CountOf, MadeOK, Looking, Reading
  <2>2. CASE recs[i][KeyField] = k
    <3>1. /\ Cardinality(A) \in Nat /\ Cardinality(Later(n, k)) \in Nat
          /\ Cardinality(A) <= Cardinality(Later(n, k)) + 1
      BY <1>10, <2>1, OneMore
    <3>2. /\ Cardinality(B) \in Nat /\ Cardinality(Due(n, k)) \in Nat
          /\ Cardinality(B) + 1 <= Cardinality(Due(n, k))
      BY <1>9, <1>10, <2>1, <2>2, OneLess
    <3> QED
      BY <2>1, <3>1, <3>2
  <2>3. CASE recs[i][KeyField] # k
    <3>1. A \subseteq Later(n, k) /\ B \subseteq Due(n, k)
      BY <1>10, <2>3
    <3> QED
      BY <2>1, <3>1, Fewer
  <2> QED
    BY <2>2, <2>3
<1>11. CASE run' = Incomplete(Past(n))
  <2>1. /\ UNCHANGED <<run.ph, run.snap, run.i, run.todo>> /\ run'.left = run.left \ {n} /\ Read' = Read
    BY <1>11, OneCall DEF OneCallLess, Read
  <2>2. Later(n, k)' \subseteq Later(n, k) \cup {id} /\ (recs[i][KeyField] # k => Later(n, k)' \subseteq Later(n, k))
    BY <1>7, <1>8 DEF Later
  <2>3. Due(n, k)' \subseteq Due(n, k) \ {i}
    BY <1>1, <1>3, <1>5, <2>1 DEF Due, RecsOf
  <2>4. /\ Cardinality(Later(n, k)') \in Nat /\ Cardinality(Due(n, k)') \in Nat
        /\ Cardinality(Later(n, k)') + Cardinality(Due(n, k)') <= hist.made[k]
    BY <1>10, <2>2, <2>3
  <2>5. \A m \in Node : m # n => /\ Later(m, k)' \subseteq Later(m, k) /\ Unknown(m, k)' \subseteq Unknown(m, k)
                                 /\ Due(m, k)' \subseteq Due(m, k)
    <3>1. \A m \in Node : m # n => Later(m, k)' \subseteq Later(m, k) /\ Unknown(m, k)' \subseteq Unknown(m, k)
      BY <1>1, <1>2, <2>1, SameKnown, SetsStay
    <3>2. \A m : Due(m, k)' \subseteq Due(m, k)
      BY <1>1, <1>5, <2>1 DEF Due
    <3> QED
      BY <3>1, <3>2
  <2>6. \A m \in Node : m # n =>
           /\ Cardinality(Later(m, k)') \in Nat /\ Cardinality(Later(m, k)') <= Cardinality(Later(m, k))
           /\ Cardinality(Due(m, k)') \in Nat /\ Cardinality(Due(m, k)') <= Cardinality(Due(m, k))
           /\ Cardinality(Unknown(m, k)') \in Nat /\ Cardinality(Unknown(m, k)') <= Cardinality(Unknown(m, k))
           /\ Cardinality(Later(m, k)) \in Nat /\ Cardinality(Due(m, k)) \in Nat /\ Cardinality(Unknown(m, k)) \in Nat
           /\ Cardinality(On(m, k)) \in Nat
    BY <2>5, AllFinite, Fewer
  <2>7. /\ run.ph \notin Looking /\ run'.ph \notin Looking
        /\ Cardinality(RecsOf(k)') <= hist.made[k] /\ hist.made[k] \in Nat
    BY <1>5, <2>1 DEF CountOf, MadeOK, Looking, Reading
  <2>8. \A m \in Node : m # n =>
          IF m \in Read THEN Cardinality(Later(m, k)) + Cardinality(Due(m, k)) <= hist.made[k]
          ELSE Cardinality(Unknown(m, k)) + Cardinality(On(m, k)) <= hist.made[k]
    BY <2>7 DEF CountOf
  <2>9. \A m \in Node : m # n =>
          IF m \in Read THEN Cardinality(Later(m, k)') + Cardinality(Due(m, k)') <= hist.made[k]
          ELSE Cardinality(Unknown(m, k)') + Cardinality(On(m, k)) <= hist.made[k]
    BY <2>6, <2>7, <2>8
  <2> QED
    BY <1>3, <1>5, <2>1, <2>4, <2>7, <2>9 DEF CountOf
<1>12. CASE run' = Idle
  <2>1. DOMAIN run'.snap = {} /\ run'.ph \in Looking
    BY <1>12, IdleRun DEF Looking
  <2>2. Unknown(n, k)' \subseteq Later(n, k) \cup {id} /\ (recs[i][KeyField] # k => Unknown(n, k)' \subseteq Later(n, k))
    BY <1>7, <1>8, <2>1 DEF Unknown, Read
  <2>3. On(n, k)' \subseteq Due(n, k) \ {i}
    BY <1>1, <1>5 DEF On, Due
  <2>4. /\ Cardinality(Unknown(n, k)') \in Nat /\ Cardinality(On(n, k)') \in Nat
        /\ Cardinality(Unknown(n, k)') + Cardinality(On(n, k)') <= hist.made[k]
    BY <1>10, <2>2, <2>3
  <2>5. \A m \in Node : m # n =>
          /\ Cardinality(Unknown(m, k)') \in Nat /\ Cardinality(On(m, k)') \in Nat
          /\ Cardinality(Unknown(m, k)') + Cardinality(On(m, k)') <= hist.made[k]
    BY <1>1, <1>2, <2>1, IdleAt
  <2> QED
    BY <1>1, <2>1, <2>4, <2>5, CountIdle
<1> QED
  BY <1>1, <1>11, <1>12

LEMMA MakeCopyCounted ==
  ASSUME TypeInv, MadeOK, Keyed, Placed, NEW k \in Keys, CountOf(k), hist'.made[k] = hist.made[k], KeysKept,
         MakeCopy, ~hist'.unrecorded
  PROVE  CountOf(k)'
<1> DEFINE n == NextNode
<1>1. /\ run.ph = "make" /\ UNCHANGED kind /\ n \in run.left /\ n \in Node /\ n \notin DOMAIN run.rec.copies
      /\ Recorded(n) \/ Unrecorded(n) \/ NotMade(n)
  BY MakeCopyIs
<1> HIDE DEF n
<1>2. CASE NotMade(n)
  <2>1. /\ UNCHANGED <<on, recs>> /\ UNCHANGED <<run.ph, run.snap, run.i, run.todo>> /\ run'.left \subseteq run.left
    BY <1>2, OneCall DEF NotMade, OneCallLess
  <2> QED
    BY <1>1, <2>1, SettledCounted DEF NoneMade, FewerDue, Looking, Reading
<1> QED
  BY <1>1, <1>2, RecordedCounted, UnrecordedCounted

-----------------------------------------------------------------------------
(* People, and all together.                                               *)

\* A thing more with the key, and one more may be there.
LEMMA MadeCounted ==
  ASSUME TypeInv, MadeOK, NEW k \in Keys, CountOf(k), KeysKept, UNCHANGED <<kind, recs, run>>,
         NEW n \in Node, NEW t \in Thing, on' = More(on, n, t), t[KeyField] = k, hist'.made[k] = hist.made[k] + 1
  PROVE  CountOf(k)'
<1> DEFINE id == Len(on[n]) + 1
<1>1. /\ DOMAIN on'[n] = DOMAIN on[n] \cup {id} /\ id \notin DOMAIN on[n]
      /\ \A m \in Node : m # n => on'[m] = on[m]
  BY Appended DEF TypeInv, NodesTyped, Things, More, Lists
<1> HIDE DEF id
<1>2. /\ RecsOf(k)' = RecsOf(k) /\ \A m : On(m, k)' = On(m, k) /\ Due(m, k)' = Due(m, k)
      /\ Read' = Read /\ \A m \in Read : DOMAIN run.snap[m] \subseteq DOMAIN on[m]
  BY RecordSetsStay DEF Due, Read, TypeInv, RunInv, RunOK
<1>3. \A m \in Node : m # n => Later(m, k)' \subseteq Later(m, k) /\ Unknown(m, k)' \subseteq Unknown(m, k)
  BY <1>1, SameKnown, SetsStay
<1>4. Of(n, k)' \ Known(n)' \subseteq (Of(n, k) \ Known(n)) \cup {id}
  BY <1>1, SetsGrow
<1>5. CASE n \in Read
  <2>1. Later(n, k)' \subseteq Later(n, k) \cup {id}
    BY <1>1, <1>2, <1>4, <1>5 DEF Later
  <2>2. Unknown(n, k)' = Unknown(n, k)
    BY <1>2, <1>5, SameKnown, KeyFieldIs DEF Unknown, Fresh, There
  <2>3. \A m \in Node : /\ Cardinality(Later(m, k)') \in Nat /\ Cardinality(Unknown(m, k)') \in Nat
                        /\ Cardinality(Later(m, k)') <= Cardinality(Later(m, k)) + 1
                        /\ Cardinality(Unknown(m, k)') <= Cardinality(Unknown(m, k))
                        /\ Cardinality(Later(m, k)) \in Nat /\ Cardinality(Unknown(m, k)) \in Nat
                        /\ Cardinality(On(m, k)) \in Nat /\ Cardinality(Due(m, k)) \in Nat
    <3> SUFFICES ASSUME NEW m \in Node
                 PROVE  /\ Cardinality(Later(m, k)') \in Nat /\ Cardinality(Unknown(m, k)') \in Nat
                        /\ Cardinality(Later(m, k)') <= Cardinality(Later(m, k)) + 1
                        /\ Cardinality(Unknown(m, k)') <= Cardinality(Unknown(m, k))
                        /\ Cardinality(Later(m, k)) \in Nat /\ Cardinality(Unknown(m, k)) \in Nat
                        /\ Cardinality(On(m, k)) \in Nat /\ Cardinality(Due(m, k)) \in Nat
      OBVIOUS
    <3>1. Later(m, k)' \subseteq Later(m, k) \cup {id} /\ Unknown(m, k)' \subseteq Unknown(m, k)
      BY <1>3, <2>1, <2>2
    <3> QED
      BY <3>1, AllFinite, OneMore, Fewer
  <2>4. Cardinality(RecsOf(k)) \in Nat
    BY AllFinite, FS_CardinalityType
  <2> QED
    BY <1>2, <2>3, <2>4 DEF CountOf, MadeOK
<1>6. CASE n \notin Read
  <2>1. Later(n, k)' \subseteq Later(n, k)
    BY <1>2, <1>6 DEF Later
  <2>2. Unknown(n, k)' \subseteq Unknown(n, k) \cup {id}
    BY <1>2, <1>4, <1>6 DEF Unknown
  <2>3. \A m \in Node : /\ Cardinality(Later(m, k)') \in Nat /\ Cardinality(Unknown(m, k)') \in Nat
                        /\ Cardinality(Later(m, k)') <= Cardinality(Later(m, k))
                        /\ Cardinality(Unknown(m, k)') <= Cardinality(Unknown(m, k)) + 1
                        /\ Cardinality(Later(m, k)) \in Nat /\ Cardinality(Unknown(m, k)) \in Nat
                        /\ Cardinality(On(m, k)) \in Nat /\ Cardinality(Due(m, k)) \in Nat
    <3> SUFFICES ASSUME NEW m \in Node
                 PROVE  /\ Cardinality(Later(m, k)') \in Nat /\ Cardinality(Unknown(m, k)') \in Nat
                        /\ Cardinality(Later(m, k)') <= Cardinality(Later(m, k))
                        /\ Cardinality(Unknown(m, k)') <= Cardinality(Unknown(m, k)) + 1
                        /\ Cardinality(Later(m, k)) \in Nat /\ Cardinality(Unknown(m, k)) \in Nat
                        /\ Cardinality(On(m, k)) \in Nat /\ Cardinality(Due(m, k)) \in Nat
      OBVIOUS
    <3>1. Later(m, k)' \subseteq Later(m, k) /\ Unknown(m, k)' \subseteq Unknown(m, k) \cup {id}
      BY <1>3, <2>1, <2>2
    <3> QED
      BY <3>1, AllFinite, OneMore, Fewer
  <2>4. Cardinality(RecsOf(k)) \in Nat
    BY AllFinite, FS_CardinalityType
  <2> QED
    BY <1>2, <2>3, <2>4 DEF CountOf, MadeOK
<1> QED
  BY <1>5, <1>6

\* Nothing with the key is made, and ForgeSync does nothing.
LEMMA StandCounted ==
  ASSUME TypeInv, MadeOK, NEW k \in Keys, CountOf(k), KeysKept, UNCHANGED <<kind, recs, run>>,
         hist'.made[k] = hist.made[k],
         NoneMade \/ \E n \in Node, t \in Thing : on' = More(on, n, t) /\ t[KeyField] # k
  PROVE  CountOf(k)'
<1>1. \A m \in Node : Later(m, k)' \subseteq Later(m, k) /\ Unknown(m, k)' \subseteq Unknown(m, k)
  <2>1. CASE NoneMade
    BY <2>1, SameKnown, SetsStay DEF NoneMade
  <2>2. ASSUME NEW n \in Node, NEW t \in Thing, on' = More(on, n, t), t[KeyField] # k
        PROVE  \A m \in Node : Later(m, k)' \subseteq Later(m, k) /\ Unknown(m, k)' \subseteq Unknown(m, k)
    <3> DEFINE id == Len(on[n]) + 1
    <3>1. /\ DOMAIN on'[n] = DOMAIN on[n] \cup {id} /\ on'[n][id] = t
          /\ \A m \in Node : m # n => on'[m] = on[m]
      BY <2>2, Appended DEF TypeInv, NodesTyped, Things, More, Lists
    <3> HIDE DEF id
    <3>2. Of(n, k)' \ Known(n)' \subseteq Of(n, k) \ Known(n)
      BY <2>2, <3>1, SetsGrow
    <3>3. Later(n, k)' \subseteq Later(n, k)
      BY <3>2 DEF Later, Read
    <3>4. n \notin Read => Unknown(n, k)' \subseteq Unknown(n, k)
      BY <3>2 DEF Unknown, Read
    <3>5. n \in Read => Unknown(n, k)' = Unknown(n, k)
      BY SameKnown, KeyFieldIs DEF Unknown, Fresh, There, Read
    <3>6. \A m \in Node : m # n => Later(m, k)' \subseteq Later(m, k) /\ Unknown(m, k)' \subseteq Unknown(m, k)
      BY <3>1, SameKnown, SetsStay
    <3> QED
      BY <3>3, <3>4, <3>5, <3>6
  <2> QED
    BY <2>1, <2>2
<1>2. RecsOf(k)' = RecsOf(k) /\ \A m : On(m, k)' = On(m, k) /\ Due(m, k)' = Due(m, k)
  BY RecordSetsStay DEF Due
<1>3. Read' = Read /\ \A m \in Read : m \in Node
  BY DEF Read, TypeInv, RunInv, RunOK
<1> QED
  BY <1>1, <1>2, <1>3, CountLooking, CountSettled

LEMMA PeopleTwin ==
  ASSUME TypeInv, TwinInv, People
  PROVE  TwinInv'
<1>1. MadeOK'
  <2>1. CASE UNCHANGED <<kind, hist.made>>
    BY <2>1, KeyFieldIs DEF TwinInv, MadeOK
  <2>2. ASSUME NEW n \in Node, NEW t \in Thing, Make(n, t)
        PROVE  MadeOK'
    <3>1. UNCHANGED kind /\ hist'.made = [hist.made EXCEPT ![t[KeyField]] = @ + 1]
      BY <2>2 DEF Make, Person, TypeInv, NodesTyped, IsHist
    <3>2. Keys' = Keys
      BY <3>1, KeyFieldIs
    <3> QED
      BY <3>1, <3>2 DEF TwinInv, MadeOK
  <2>3. ASSUME NEW n \in Node, NEW i \in DOMAIN on[n],
               \/ \E f \in Fields : \E v \in Possible(f) : Edit(n, i, f, v)
               \/ Delete(n, i) \/ Wear(n, i)
               \/ \E e \in Extra : Mark(n, i, e)
        PROVE  UNCHANGED <<kind, hist.made>>
    BY <2>3 DEF Edit, Delete, Wear, Mark, Person, TypeInv, NodesTyped, IsHist
  <2> QED
    BY <2>1, <2>2, <2>3 DEF People
<1>2. ASSUME ~hist'.renamed
      PROVE  Keyed' /\ Placed'
  <2>1. KeysKept /\ UNCHANGED <<kind, recs, run>> /\ ~hist.renamed
    BY <1>2, KeptPeople
  <2> QED
    BY <2>1, OutsideKeyed DEF TwinInv
<1>3. ASSUME ~hist'.renamed, ~hist'.unrecorded
      PROVE  Counted'
  <2>1. /\ KeysKept /\ UNCHANGED <<kind, recs, run, hist.unrecorded>> /\ ~hist.renamed
        /\ \/ NoneMade /\ UNCHANGED hist.made
           \/ \E n \in Node, t \in Thing : /\ on' = More(on, n, t)
                                           /\ hist'.made = [hist.made EXCEPT ![t[KeyField]] = @ + 1]
    BY <1>3, KeptPeople
  <2>2. Keys' = Keys
    BY <2>1, KeyFieldIs
  <2>3. ASSUME NEW k \in Keys
        PROVE  CountOf(k)'
    <3>1. MadeOK /\ CountOf(k)
      BY <1>3, <2>1 DEF TwinInv, Counted
    <3>2. CASE NoneMade /\ UNCHANGED hist.made
      BY <2>1, <3>1, <3>2, StandCounted
    <3>3. ASSUME NEW n \in Node, NEW t \in Thing, on' = More(on, n, t),
                 hist'.made = [hist.made EXCEPT ![t[KeyField]] = @ + 1]
          PROVE  CountOf(k)'
      <4>1. hist'.made[k] = IF t[KeyField] = k THEN hist.made[k] + 1 ELSE hist.made[k]
        BY <3>1, <3>3 DEF MadeOK
      <4> QED
        BY <2>1, <3>1, <3>3, <4>1, MadeCounted, StandCounted
    <3> QED
      BY <2>1, <3>2, <3>3
  <2> QED
    BY <2>2, <2>3 DEF Counted
<1> QED
  BY <1>1, <1>2, <1>3 DEF TwinInv

LEMMA OursTwin ==
  ASSUME TypeInv, TwinInv, Run \/ CutOff \/ BranchesArrive \/ UNCHANGED vars
  PROVE  TwinInv'
<1>1. UNCHANGED <<kind, hist.made, hist.renamed>> /\ (hist.unrecorded => hist'.unrecorded)
  BY CountersStay
<1>2. MadeOK' /\ Keys' = Keys
  BY <1>1, KeyFieldIs DEF TwinInv, MadeOK
<1>3. ASSUME ~hist'.renamed
      PROVE  Keyed' /\ Placed'
  BY <1>1, <1>3, OursKeyed DEF TwinInv
<1>4. ASSUME ~hist'.renamed, ~hist'.unrecorded, NEW k \in Keys
      PROVE  CountOf(k)'
  <2>1. MadeOK /\ Keyed /\ Placed /\ CountOf(k) /\ hist'.made[k] = hist.made[k]
    BY <1>1, <1>4 DEF TwinInv, Counted
  <2>2. KeysKept
    BY <2>1, KeptOurs DEF Keyed
  <2>3. CASE MakeCopy
    BY <1>4, <2>1, <2>2, <2>3, MakeCopyCounted
  <2>4. CASE ~MakeCopy
    <3>1. NoneMade
      BY <2>4, MadeByCopies
    <3>2. CASE Begin \/ ReadNode \/ ReadIssues \/ PassOver \/ AllAttached
      BY <2>1, <2>2, <3>1, <3>2, BeginCounted, ReadNodeCounted, AllAttachedCounted
    <3>3. CASE \E n \in Node : Attach(n)
      BY <2>1, <3>3, AttachCounted
    <3>4. CASE Take \/ NextPhase \/ EditCopy \/ ClosePull \/ MarkCopy
      BY <2>1, <2>2, <3>1, <3>4, TakeCounted, StandsCounted
    <3>5. CASE DeleteCopy \/ Save
      BY <2>1, <2>2, <3>1, <3>5, DeleteCopyCounted, SaveCounted
    <3>6. CASE Labels \/ SetLabels \/ SaveLabels \/ Tell \/ CutOff
      BY <2>1, <2>2, <3>1, <3>6, AsideCounted
    <3>7. CASE BranchesArrive \/ UNCHANGED vars
      BY <2>1, <2>2, <3>1, <3>7, StandCounted DEF BranchesArrive, vars
    <3> QED
      BY <2>4, <3>2, <3>3, <3>4, <3>5, <3>6, <3>7 DEF Run
  <2> QED
    BY <2>3, <2>4
<1>5. ~hist'.renamed /\ ~hist'.unrecorded => Counted'
  BY <1>2, <1>4 DEF Counted
<1> QED
  BY <1>2, <1>3, <1>5 DEF TwinInv

LEMMA TwinStep == TypeInv /\ TwinInv /\ [Next]_vars => TwinInv'
BY PeopleTwin, OursTwin DEF Next

\* The record every node has a copy of at the start is the one thing made.
LEMMA TwinInit == Init => TwinInv
<1> SUFFICES ASSUME Init PROVE TwinInv
  OBVIOUS
<1>1. /\ run = Idle /\ Primary \in Node
      /\ hist.made = [k \in Keys |-> Cardinality({i \in DOMAIN on[Primary] : on[Primary][i][KeyField] = k})]
  BY Ordered DEF Init
<1>2. run.ph = "idle" /\ Read = {}
  BY <1>1, IdleRun DEF Read
<1>3. PICK t \in Thing : \/ on = [n \in Node |-> << >>] /\ recs = << >>
                         \/ on = [n \in Node |-> <<t>>] /\ recs = [i \in {1} |-> Agreed(t)]
  BY DEF Init
<1>4. KeyField \in {"key", "text"}
  BY KeyFieldIs
<1>5. /\ DOMAIN on[Primary] = DOMAIN recs
      /\ \A n \in Node : DOMAIN on[n] = DOMAIN recs
      /\ \A i \in DOMAIN recs : /\ DOMAIN recs[i].copies = Node /\ ~recs[i].deleted
                                /\ \A n \in Node : recs[i].copies[n] = i /\ on[n][i][KeyField] = recs[i][KeyField]
      /\ IsFiniteSet(DOMAIN recs)
  <2>1. CASE on = [n \in Node |-> << >>] /\ recs = << >>
    <3>1. DOMAIN recs = {}
      BY <2>1
    <3> QED
      BY <1>1, <2>1, <3>1, FS_EmptySet
  <2>2. CASE on = [n \in Node |-> <<t>>] /\ recs = [i \in {1} |-> Agreed(t)]
    <3>1. DOMAIN recs = {1} /\ recs[1] = Agreed(t)
      BY <2>2
    <3>2. /\ DOMAIN recs[1].copies = Node /\ ~recs[1].deleted /\ recs[1][KeyField] = t[KeyField]
          /\ \A n \in Node : recs[1].copies[n] = 1
      BY <1>4, <3>1 DEF Agreed
    <3>3. \A n \in Node : DOMAIN on[n] = {1} /\ on[n][1] = t
      BY <2>2
    <3> QED
      BY <1>1, <3>1, <3>2, <3>3, FS_Singleton
  <2> QED
    BY <1>3, <2>1, <2>2
<1>6. \A k : RecsOf(k) = {i \in DOMAIN on[Primary] : on[Primary][i][KeyField] = k}
  BY <1>1, <1>5 DEF RecsOf
<1>7. \A k \in Keys : hist.made[k] = Cardinality({i \in DOMAIN on[Primary] : on[Primary][i][KeyField] = k})
  BY <1>1
<1>8. hist.made = [k \in Keys |-> hist.made[k]]
  BY <1>1
<1>9. \A k \in Keys : hist.made[k] = Cardinality(RecsOf(k)) /\ IsFiniteSet(RecsOf(k))
  <2>1. \A k : RecsOf(k) \subseteq DOMAIN recs
    BY DEF RecsOf
  <2>2. \A k \in Keys : hist.made[k] = Cardinality(RecsOf(k))
    BY <1>6, <1>7, Zenon
  <2> QED
    BY <1>5, <2>1, <2>2, FS_Subset
<1>10. MadeOK
  BY <1>8, <1>9, FS_CardinalityType DEF MadeOK
<1>11. Keyed /\ Placed
  <2>1. OnKey /\ ReadKey /\ SnapKey
    BY <1>2, <1>5 DEF OnKey, ReadKey, SnapKey
  <2>2. HandKey /\ GoneBefore
    BY <1>2 DEF HandKey, GoneBefore, Working, Merging
  <2>3. InSnap /\ NotOnPrimary /\ ReadOnce
    BY <1>2, <1>5 DEF InSnap, NotOnPrimary, ReadOnce, Working, Merging
  <2>4. AllKnown
    BY <1>2 DEF AllKnown
  <2> QED
    BY <2>1, <2>2, <2>3, <2>4 DEF Keyed, Placed
<1>12. ASSUME NEW k \in Keys
       PROVE  CountOf(k)
  <2>1. \A n \in Node : Later(n, k) = {} /\ Unknown(n, k) = {} /\ On(n, k) = RecsOf(k)
    <3> SUFFICES ASSUME NEW n \in Node
                 PROVE  Later(n, k) = {} /\ Unknown(n, k) = {} /\ On(n, k) = RecsOf(k)
      OBVIOUS
    <3>1. \A i \in DOMAIN on[n] : i \in Known(n)
      BY <1>5 DEF Known
    <3> QED
      BY <1>2, <1>5, <3>1 DEF Later, Unknown, Of, Live, On, RecsOf
  <2>2. \A n \in Node : /\ Cardinality(Later(n, k)) = 0 /\ Cardinality(Unknown(n, k)) = 0
                        /\ Cardinality(On(n, k)) = Cardinality(RecsOf(k))
    BY <2>1, FS_EmptySet
  <2>3. Cardinality(RecsOf(k)) \in Nat /\ hist.made[k] = Cardinality(RecsOf(k))
    BY <1>9, FS_CardinalityType
  <2>4. run.ph \in Looking
    BY <1>2 DEF Looking
  <2> QED
    BY <2>2, <2>3, <2>4 DEF CountOf
<1> QED
  BY <1>10, <1>11, <1>12 DEF TwinInv, Counted

LEMMA TwinAlways == Spec => [](TypeInv /\ TwinInv)
<1>1. Init => TypeInv /\ TwinInv
  BY TypeInit, TwinInit
<1>2. TypeInv /\ TwinInv /\ [Next]_vars => (TypeInv /\ TwinInv)'
  BY TypeStep, TwinStep
<1> QED
  BY <1>1, <1>2, PTL DEF Spec

\* What a node has is known, and then its record has the key, or it counts.
LEMMA TwinsCounted ==
  ASSUME TypeInv, MadeOK, Keyed, Placed, NEW k \in Keys, CountOf(k), NEW n \in Node
  PROVE  Cardinality(Of(n, k)) <= hist.made[k]
<1> DEFINE f == [r \in On(n, k) |-> recs[r].copies[n]]
           C == {f[r] : r \in On(n, k)}
<1>1. /\ IsFiniteSet(Later(n, k)) /\ IsFiniteSet(Unknown(n, k)) /\ IsFiniteSet(On(n, k)) /\ IsFiniteSet(Due(n, k))
      /\ hist.made[k] \in Nat
  BY AllFinite DEF MadeOK
<1>2. IsFiniteSet(C) /\ Cardinality(C) <= Cardinality(On(n, k)) /\ Cardinality(C) \in Nat
  <2>1. f \in Surjection(On(n, k), C)
    BY DEF Surjection
  <2> HIDE DEF f, C
  <2> QED
    BY <1>1, <2>1, FS_Surjection, FS_CardinalityType
<1>3. Of(n, k) \cap Known(n) \subseteq C
  <2> SUFFICES ASSUME NEW c \in Of(n, k) \cap Known(n) PROVE c \in C
    OBVIOUS
  <2>1. PICK r \in DOMAIN recs : n \in DOMAIN recs[r].copies /\ recs[r].copies[n] = c
    BY DEF Known
  <2>2. There(on[n], c) /\ on[n][c][KeyField] = k
    BY DEF Of, Live
  <2>3. r \in On(n, k)
    BY <2>1, <2>2 DEF Keyed, OnKey, On, RecsOf
  <2> QED
    BY <2>1, <2>3
<1> HIDE DEF C
<1>4. ASSUME NEW A, IsFiniteSet(A), Of(n, k) \ Known(n) \subseteq A, Cardinality(A) + Cardinality(On(n, k)) <= hist.made[k]
      PROVE  Cardinality(Of(n, k)) <= hist.made[k]
  <2>1. Of(n, k) \subseteq A \cup C
    BY <1>3, <1>4
  <2>2. /\ Cardinality(Of(n, k)) \in Nat /\ Cardinality(A) \in Nat
        /\ Cardinality(Of(n, k)) <= Cardinality(A) + Cardinality(C)
    BY <1>2, <1>4, <2>1, Together
  <2>3. Cardinality(On(n, k)) \in Nat
    BY <1>1, FS_CardinalityType
  <2> QED
    BY <1>1, <1>2, <1>4, <2>2, <2>3
<1>5. CASE n \in Read /\ run.ph \notin Looking
  <2>1. Of(n, k) \ Known(n) \subseteq Later(n, k)
    <3>1. \A i \in DOMAIN run.snap[n] : There(on[n], i) => i \in Known(n)
      BY <1>5 DEF Placed, AllKnown
    <3> QED
      BY <1>5, <3>1 DEF Later, Of, Live
  <2>2. On(n, k) \subseteq Due(n, k)
    BY DEF On, Due
  <2>3. Cardinality(Later(n, k)) + Cardinality(Due(n, k)) <= hist.made[k]
    BY <1>5 DEF CountOf
  <2>4. /\ Cardinality(On(n, k)) \in Nat /\ Cardinality(Due(n, k)) \in Nat /\ Cardinality(Later(n, k)) \in Nat
        /\ Cardinality(On(n, k)) <= Cardinality(Due(n, k))
    BY <1>1, <2>2, Fewer
  <2>5. Cardinality(Later(n, k)) + Cardinality(On(n, k)) <= hist.made[k]
    BY <1>1, <2>3, <2>4
  <2> QED
    BY <1>1, <1>4, <2>1, <2>5
<1>6. CASE n \notin Read /\ run.ph \notin Looking
  <2>1. Of(n, k) \ Known(n) = Unknown(n, k)
    BY <1>6 DEF Unknown
  <2>2. Cardinality(Unknown(n, k)) + Cardinality(On(n, k)) <= hist.made[k]
    BY <1>6 DEF CountOf
  <2> QED
    BY <1>1, <1>4, <2>1, <2>2
<1>7. CASE run.ph \in Looking
  <2> DEFINE A == Later(n, k) \cup Unknown(n, k)
  <2>1. Of(n, k) \ Known(n) \subseteq A
    <3>1. CASE n \in Read
      <4>1. \A i \in DOMAIN run.snap[n] :
              There(on[n], i) => There(run.snap[n], i) /\ on[n][i][KeyField] = run.snap[n][i][KeyField]
        BY <3>1 DEF Keyed, SnapKey
      <4> QED
        BY <3>1, <4>1 DEF Later, Unknown, Fresh, Of, Live
    <3>2. CASE n \notin Read
      BY <3>2 DEF Unknown
    <3> QED
      BY <3>1, <3>2
  <2>2. Cardinality(Later(n, k)) + Cardinality(Unknown(n, k)) + Cardinality(On(n, k)) <= hist.made[k]
    BY <1>7 DEF CountOf
  <2>3. /\ IsFiniteSet(A) /\ Cardinality(A) \in Nat /\ Cardinality(Later(n, k)) \in Nat /\ Cardinality(Unknown(n, k)) \in Nat
        /\ Cardinality(A) <= Cardinality(Later(n, k)) + Cardinality(Unknown(n, k))
    BY <1>1, Together
  <2>4. Cardinality(On(n, k)) \in Nat
    BY <1>1, FS_CardinalityType
  <2>5. Cardinality(A) + Cardinality(On(n, k)) <= hist.made[k]
    BY <1>1, <2>2, <2>3, <2>4
  <2> HIDE DEF A
  <2> QED
    BY <1>4, <2>1, <2>3, <2>5
<1> QED
  BY <1>5, <1>6, <1>7

\* However runs are cut off and answers are lost, on no node are there more
\* things of a key than people made, unless a key was changed or a copy that
\* is missing was made again and not recorded.
THEOREM NoneTwice == Spec => []NoTwins
<1>1. TypeInv /\ TwinInv => NoTwins
  <2> SUFFICES ASSUME TypeInv, TwinInv, ~hist.renamed, ~hist.unrecorded, NEW n \in Node, NEW k \in Keys
               PROVE  Cardinality({i \in Live(n) : on[n][i][KeyField] = k}) <= hist.made[k]
    BY DEF NoTwins
  <2>1. MadeOK /\ Keyed /\ Placed /\ CountOf(k)
    BY DEF TwinInv, Counted
  <2> QED
    BY <2>1, TwinsCounted DEF Of
<1> QED
  BY <1>1, TwinAlways, PTL
=============================================================================
