--------------------------- MODULE HandoffProofs ---------------------------
(***************************************************************************)
(* Theorems of Handoff, for any nodes, histories, bounds and failures.     *)
(***************************************************************************)
EXTENDS Handoff, WellFoundedInduction, TLAPS

SlotOf(k) == pulls[k].slot
ActiveRow(k) == Active(rows[k])

\* The row being decided on whose branch may be gone already.
Leaving(k) == run.at = "dropped" /\ run.k = k

\* A hand-off is being opened, which has its branch and not yet its row.
Opens == run.at \in {"pull", "undo", "insert"}
HasVersion == Opens \/ run.at \in {"open", "extended"}

\* TypeOK, and the type of what a run works on in each of its phases.
Typed ==
  /\ TypeOK
  /\ run.at \in {"drop", "dropped", "reset"} => run.k \in run.todo
  /\ run.at \in {"extended", "insert"} => run.k \in Pull
  /\ HasVersion => run.v \in Commit /\ Group(run.v) # {}

\* What a run is about in its phases.
Stages ==
  /\ run.todo # {} => \A n \in Replica : run.diverged[n] = None
  /\ run.at \in {"drop", "dropped"} =>
       \/ run.hs[run.k].state = "open" /\ pulls[run.k].state = "merged"
       \/ Expired(run.k)
  /\ run.at = "reset" => run.hs[run.k].state = "open"
  /\ run.at = "extended" => run.hs[run.k].state = "open" /\ HandedOff(run.v) = {}
  /\ run.at = "insert" => /\ rows[run.k].state = "none" /\ pulls[run.k].state # "none"
                          /\ SlotOf(run.k) = run.slot /\ Latest(run.k)

\* A run's rows are those of the table.
InStep ==
  /\ OneOpenEach(rows)
  /\ \A j, k \in Pull : j < k /\ pulls[k].state # "none" => pulls[j].state # "none"
  /\ \A k \in Pull :
       /\ rows[k].state # "none" => pulls[k].state # "none"
       /\ rows[k].state = "open" => ~rows[k].over
       /\ ActiveRow(k) => Latest(k)
       /\ ActiveRow(k) /\ run.at # "idle" => run.hs[k].state # "none"
       /\ run.hs[k].state # "none" =>
            /\ Active(run.hs[k])
            /\ rows[k].state = run.hs[k].state /\ rows[k].sha = run.hs[k].sha
            /\ run.hs[k].over => rows[k].over

\* Each active row has a branch of its own, which holds what was handed off.
Backed ==
  /\ \A k \in Pull : ActiveRow(k) /\ ~Leaving(k) =>
       /\ rows[k].sha \in History(hand[SlotOf(k)])
       /\ run.at # "idle" => run.listed[SlotOf(k)] # None
  /\ Opens => \A k \in Pull : ActiveRow(k) => SlotOf(k) # run.slot
  /\ run.at \in {"pull", "insert"} =>
       run.v \in History(hand[run.slot]) /\ run.listed[run.slot] # None
  /\ run.at = "extended" => run.v \in History(hand[SlotOf(run.k)])

\* A branch that a run may delete: its row is over, or being opened.
Over(k) == pulls[k].state = "merged" \/ rows[k].over
Condemned(s) == \E k \in Pull : ActiveRow(k) /\ SlotOf(k) = s /\ Over(k)
Lasting(s) == ~Condemned(s) /\ ~(Opens /\ s = run.slot)

\* Commit x was had, or is on a node, or on a branch that stays.
OnNode(x) == x \in had \/ \E n \in Node : x \in History(refs[n])
Stays(x) == OnNode(x) \/ \E s \in Slot : Lasting(s) /\ x \in History(hand[s])

\* What a run may take off is somewhere else.
Covered ==
  /\ History(refs[Primary]) \subseteq had
  /\ History(run.pRef) \subseteq had
  /\ \A n \in Replica : History(base[n]) \subseteq had
  /\ \A n \in Replica : \A x \in History(run.diverged[n]) : OnNode(x)
  /\ \A k \in Pull : ActiveRow(k) /\ Over(k) => \A x \in History(hand[SlotOf(k)]) : Stays(x)
  /\ run.at = "insert" /\ pulls[run.k].state = "merged"
       => \A x \in History(hand[run.slot]) : Stays(x)
  /\ run.at = "reset" /\ pulls[run.k].state = "merged"
       => History(hand[SlotOf(run.k)]) \subseteq had

\* The inductive invariant is Held /\ Covered.
Held == Typed /\ Stages /\ InStep /\ Backed

-----------------------------------------------------------------------------
(* Types.                                                                  *)

LEMMA SomeSlot == Slot # {} /\ NoPull.slot \in Slot
<1>1. PICK n : n \in Replica
  BY HandoffAssumption DEF Replica
<1>2. <<n, 1>> \in Slot
  BY <1>1, HandoffAssumption DEF Slot
<1> QED
  BY <1>2 DEF NoPull

LEMMA IdleTyped == Idle \in Local /\ NoRow \in Row /\ ~Active(NoRow)
BY SomeSlot, HandoffAssumption DEF Idle, Local, Phase, NoRow, Row, Value, Pull, Active

LEMMA FirstIn ==
  ASSUME NEW S \in SUBSET Nat, S # {}
  PROVE  First(S) \in S /\ \A j \in S : First(S) <= j
<1> DEFINE R == {ss \in Nat \X Nat : ss[1] < ss[2]}
<1>1. IsWellFoundedOn(R, Nat)
  BY NatLessThanWellFounded, Zenon DEF OpToRel
<1>2. PICK k \in S : \A j \in S : <<j, k>> \notin R
  BY <1>1, WFMin, Zenon
<1>3. ASSUME NEW j \in S, ~(k <= j) PROVE FALSE
  <2>1. <<j, k>> \in Nat \X Nat /\ <<j, k>>[1] < <<j, k>>[2]
    BY <1>3
  <2> QED
    BY <2>1, <1>2, Zenon
<1> QED
  BY <1>3 DEF First

\* Names for the sets in Local, which most steps need not look into.
Listings == [Slot -> Value]
Tables == [Pull -> Row]
PullSets == SUBSET Pull
NodeSets == SUBSET Replica
Versions == [Replica -> Value]
Numbers == 0..Pulls
Locals == [at : Phase, pRef : Value, listed : Listings, hs : Tables,
           todo : PullSets, fresh : NodeSets, next : NodeSets,
           left : NodeSets, diverged : Versions, again : BOOLEAN,
           k : Numbers, v : Value, slot : Slot]

LEMMA LocalsAre == Local = Locals
BY DEF Local, Locals, Listings, Tables, PullSets, NodeSets, Versions, Numbers

LEMMA DecidedTyped ==
  ASSUME run \in Locals, NEW k \in Pull, NEW row \in Row
  PROVE  /\ Decided(k, row) \in Locals
         /\ Decided(k, row).at = "run" /\ Decided(k, row).k = 0
         /\ Decided(k, row).todo = run.todo \ {k}
         /\ Decided(k, row).hs = [run.hs EXCEPT ![k] = row]
         /\ Decided(k, row).pRef = run.pRef /\ Decided(k, row).listed = run.listed /\ Decided(k, row).fresh = run.fresh
         /\ Decided(k, row).next = run.next /\ Decided(k, row).left = run.left /\ Decided(k, row).diverged = run.diverged
         /\ Decided(k, row).again = run.again /\ Decided(k, row).v = run.v /\ Decided(k, row).slot = run.slot
<1>1. [run.hs EXCEPT ![k] = row] \in Tables
  BY DEF Locals, Tables
<1>2. run.todo \ {k} \in PullSets /\ 0 \in Numbers
  BY HandoffAssumption DEF Locals, PullSets, Numbers
<1>3. PICK hs \in Tables : hs = [run.hs EXCEPT ![k] = row]
  BY <1>1
<1>4. PICK todo \in PullSets : todo = run.todo \ {k}
  BY <1>2
<1>5. Decided(k, row) = [run EXCEPT !.at = "run", !.k = 0, !.todo = todo, !.hs = hs]
  BY <1>3, <1>4 DEF Decided
<1>6. PICK r : r = [run EXCEPT !.at = "run", !.k = 0, !.todo = todo, !.hs = hs]
  OBVIOUS
<1>7. r \in Locals /\ r.at = "run" /\ r.k = 0 /\ r.todo = todo /\ r.hs = hs
      /\ r.pRef = run.pRef /\ r.listed = run.listed /\ r.fresh = run.fresh /\ r.next = run.next
      /\ r.left = run.left /\ r.diverged = run.diverged /\ r.again = run.again /\ r.v = run.v
      /\ r.slot = run.slot
  BY <1>2, <1>6 DEF Locals, Phase
<1> QED
  BY <1>3, <1>4, <1>5, <1>6, <1>7

LEMMA DoneTyped ==
  ASSUME run \in Locals, NEW v \in Commit
  PROVE  /\ Done(v) \in Locals
         /\ Done(v).at = "run" /\ Done(v).k = 0 /\ Done(v).v = None
         /\ Done(v).diverged =
              [n \in Replica |-> IF run.diverged[n] = v THEN None ELSE run.diverged[n]]
         /\ Done(v).pRef = run.pRef /\ Done(v).listed = run.listed /\ Done(v).hs = run.hs
         /\ Done(v).todo = run.todo /\ Done(v).fresh = run.fresh /\ Done(v).next = run.next
         /\ Done(v).left = run.left /\ Done(v).again = run.again
<1> DEFINE div == [n \in Replica |-> IF run.diverged[n] = v THEN None ELSE run.diverged[n]]
<1>1. div \in Versions /\ None \in Value /\ 0 \in Numbers /\ NoPull.slot \in Slot
  BY HandoffAssumption, SomeSlot DEF Locals, Versions, Value, Numbers
<1> HIDE DEF div
<1>2. Done(v) = [run EXCEPT !.at = "run", !.k = 0, !.v = None, !.slot = NoPull.slot, !.diverged = div]
  BY DEF Done, div
<1>3. PICK r : r = [run EXCEPT !.at = "run", !.k = 0, !.v = None, !.slot = NoPull.slot, !.diverged = div]
  OBVIOUS
<1>4. r \in Locals /\ r.at = "run" /\ r.k = 0 /\ r.v = None /\ r.diverged = div
      /\ r.pRef = run.pRef /\ r.listed = run.listed /\ r.hs = run.hs /\ r.todo = run.todo
      /\ r.fresh = run.fresh /\ r.next = run.next /\ r.left = run.left /\ r.again = run.again
  BY <1>1, <1>3 DEF Locals, Phase
<1> QED
  BY <1>2, <1>3, <1>4 DEF div

LEMMA Budget ==
  ASSUME Typed
  PROVE  /\ Fault \/ Fine => faults' \in 0..Faults
         /\ UNCHANGED acts \/ Act => acts' \in 0..Acts
BY HandoffAssumption DEF Typed, TypeOK, Fault, Fine, Act

LEMMA Saves ==
  ASSUME Typed, NEW k \in Pull, NEW row \in Row, Save(k, row)
  PROVE  /\ rows' \in Tables /\ faults' \in 0..Faults
         /\ ~Unsaved /\ OneOpenEach(Saved(k, row)) => rows' = [rows EXCEPT ![k] = row]
<1>1. [rows EXCEPT ![k] = row] \in Tables /\ rows \in Tables
  BY DEF Typed, TypeOK, Tables
<1>2. rows' \in {rows, [rows EXCEPT ![k] = row]} /\ (Fault \/ Fine)
  BY DEF Save, Saved
<1>3. ~Unsaved /\ OneOpenEach(Saved(k, row)) => rows' = [rows EXCEPT ![k] = row]
  BY DEF Save, Saved
<1> QED
  BY <1>1, <1>2, <1>3, Budget

RowStates == {"none", "open", "merged", "gone", "kept_primary", "expired"}

\* A row with another state, version or set of replicas is a row.
LEMMA RowsAre ==
  ASSUME NEW row \in Row
  PROVE  /\ row.state \in RowStates /\ row.sha \in Value /\ row.nodes \in NodeSets
         /\ \A st \in RowStates : [row EXCEPT !.state = st] \in Row
         /\ \A v \in Value : [row EXCEPT !.sha = v] \in Row
         /\ \A S \in NodeSets : [row EXCEPT !.nodes = S] \in Row
         /\ \A st \in RowStates, S \in NodeSets : [row EXCEPT !.nodes = S, !.state = st] \in Row
<1>1. Row = [state : RowStates, sha : Value, nodes : NodeSets, over : BOOLEAN]
  BY DEF Row, RowStates, NodeSets
<1> QED
  BY <1>1

-----------------------------------------------------------------------------
(* What each step does to a run.                                           *)

Same(r) == r.pRef = run.pRef /\ r.listed = run.listed /\ r.diverged = run.diverged

LEMMA BeginDoes ==
  ASSUME Typed, Begin
  PROVE  /\ Typed' /\ run.at = "idle" /\ run'.at = "run" /\ run'.pRef = refs[Primary]
         /\ run'.listed = hand
         /\ run'.hs = [k \in Pull |-> IF Active(rows[k]) THEN rows[k] ELSE NoRow]
         /\ \A n \in Replica : run'.diverged[n] = None
<1> DEFINE hs == [k \in Pull |-> IF Active(rows[k]) THEN rows[k] ELSE NoRow]
           todo == {k \in Pull : Active(rows[k])}
<1>1. /\ hs \in Tables /\ todo \in PullSets /\ hand \in Listings /\ refs[Primary] \in Value
      /\ Replica \in NodeSets /\ Idle \in Locals
  BY IdleTyped, LocalsAre, HandoffAssumption DEF Typed, TypeOK, Tables, PullSets, Listings, NodeSets
<1>2. \A n \in Replica : Idle.diverged[n] = None
  BY DEF Idle
<1>3. run' = [Idle EXCEPT !.at = "run", !.pRef = refs[Primary], !.listed = hand, !.hs = hs,
                          !.todo = todo, !.fresh = Replica]
  BY DEF Begin
<1> HIDE DEF hs, todo
<1>4. /\ run' \in Locals /\ run'.at = "run" /\ run'.pRef = refs[Primary]
      /\ run'.listed = hand /\ run'.hs = hs /\ run'.diverged = Idle.diverged
  BY <1>1, <1>3 DEF Locals, Phase
<1>5. Typed'
  BY <1>4, LocalsAre DEF Begin, Typed, TypeOK, HasVersion, Opens
<1> QED
  BY <1>2, <1>4, <1>5 DEF hs, Begin

LEMMA LeaveRowDoes ==
  ASSUME Typed, NEW k \in Pull, LeaveRow(k)
  PROVE  /\ Typed' /\ run.at = "run" /\ run'.at = "run" /\ Same(run')
         /\ run'.todo = run.todo \ {k} /\ run'.hs = run.hs
<1>1. run \in Locals /\ run.hs[k] \in Row /\ run.hs \in Tables
  BY LocalsAre DEF Typed, TypeOK, Local, Tables
<1>2. run' = Decided(k, run.hs[k]) /\ faults' \in 0..Faults /\ run.at = "run"
      /\ UNCHANGED <<refs, base, hand, pulls, rows, acts, had>>
  BY Budget DEF LeaveRow, Deciding
<1>3. [run.hs EXCEPT ![k] = run.hs[k]] = run.hs
  BY <1>1 DEF Tables
<1>4. /\ run' \in Locals /\ run'.at = "run" /\ Same(run')
      /\ run'.todo = run.todo \ {k} /\ run'.hs = run.hs
  BY <1>1, <1>2, <1>3, DecidedTyped DEF Same
<1>5. Typed'
  BY <1>2, <1>4, LocalsAre DEF Typed, TypeOK, HasVersion, Opens
<1> QED
  BY <1>2, <1>4, <1>5

LEMMA PullGoneDoes ==
  ASSUME Typed, NEW k \in Pull, PullGone(k)
  PROVE  /\ Typed' /\ run.at = "run" /\ run'.at = "run" /\ Same(run')
         /\ run'.todo = run.todo \ {k} /\ run'.hs = [run.hs EXCEPT ![k] = NoRow]
         /\ \E row \in Row : row.state = "gone" /\ Save(k, row)
<1>1. run \in Locals /\ [run.hs[k] EXCEPT !.state = "gone"] \in Row
  BY LocalsAre, RowsAre DEF Typed, TypeOK, Local, RowStates
<1>2. run' = Decided(k, NoRow) /\ run.at = "run" /\ Save(k, [run.hs[k] EXCEPT !.state = "gone"])
      /\ UNCHANGED <<refs, base, hand, pulls, acts, had>>
  BY DEF PullGone, Deciding
<1>3. rows' \in Tables /\ faults' \in 0..Faults
  BY <1>1, <1>2, Saves
<1>4. /\ run' \in Locals /\ run'.at = "run" /\ Same(run')
      /\ run'.todo = run.todo \ {k} /\ run'.hs = [run.hs EXCEPT ![k] = NoRow]
  BY <1>1, <1>2, DecidedTyped, IdleTyped DEF Same
<1>5. Typed'
  BY <1>2, <1>3, <1>4, LocalsAre DEF Typed, TypeOK, HasVersion, Opens, Tables
<1>6. [run.hs[k] EXCEPT !.state = "gone"].state = "gone"
  <2>1. PICK old \in Row : old = run.hs[k]
    BY <1>1, LocalsAre DEF Typed, TypeOK, Local
  <2>2. [old EXCEPT !.state = "gone"].state = "gone"
    BY DEF Row
  <2> QED
    BY <2>1, <2>2
<1> QED
  BY <1>1, <1>2, <1>4, <1>5, <1>6

LEMMA StartDropDoes ==
  ASSUME Typed, NEW k \in Pull, StartDrop(k)
  PROVE  /\ Typed' /\ run.at = "run" /\ run'.k = k /\ Same(run') /\ k \in run.todo
         /\ run'.at = IF run.listed[SlotOf(k)] = None THEN "dropped" ELSE "drop"
         /\ run'.todo = run.todo /\ run'.hs = run.hs
<1>1. PICK at \in Phase : at = IF run.listed[SlotOf(k)] = None THEN "dropped" ELSE "drop"
  BY DEF Phase
<1>2. run \in Locals /\ k \in Numbers /\ k \in run.todo /\ run.at = "run"
  BY LocalsAre, HandoffAssumption DEF Typed, TypeOK, Pull, Numbers, StartDrop, Deciding
<1>3. run' = [run EXCEPT !.at = at, !.k = k]
      /\ UNCHANGED <<refs, base, hand, pulls, rows, acts, faults, had>>
  BY <1>1 DEF StartDrop, SlotOf
<1>4. run' \in Locals /\ run'.k = k /\ run'.at = at /\ Same(run')
      /\ run'.todo = run.todo /\ run'.hs = run.hs
  BY <1>2, <1>3 DEF Locals, Same
<1>5. Typed'
  BY <1>1, <1>2, <1>3, <1>4, LocalsAre DEF Typed, TypeOK, HasVersion, Opens
<1> QED
  BY <1>1, <1>2, <1>4, <1>5

LEMMA DropDoes ==
  ASSUME Typed, Drop
  PROVE  /\ Typed' /\ run.at = "drop" /\ run'.at = "dropped" /\ run'.k = run.k /\ run.k \in Pull
         /\ run.k \in run.todo /\ run'.todo = run.todo /\ run'.hs = run.hs
         /\ run'.pRef = run.pRef /\ run'.diverged = run.diverged
         /\ \A s \in Slot : s # SlotOf(run.k) => hand'[s] = hand[s] /\ run'.listed[s] = run.listed[s]
         /\ hand'[SlotOf(run.k)] \in {hand[SlotOf(run.k)], None}
<1> DEFINE s == SlotOf(run.k)
           listed == [run.listed EXCEPT ![s] = IF hand[s] = @ THEN None ELSE @]
<1>1. /\ run \in Locals /\ run.at = "drop" /\ run.k \in run.todo /\ run.k \in Pull /\ s \in Slot
      /\ run.listed \in Listings /\ listed \in Listings /\ hand \in Listings /\ Dropped(s) \in Listings
  BY LocalsAre DEF Drop, Typed, TypeOK, Local, Listings, SlotOf, Dropped, Value
<1>2. /\ hand' \in {hand, Dropped(s)} /\ faults' \in 0..Faults
      /\ UNCHANGED <<refs, base, pulls, rows, acts, had>>
  BY Budget DEF Drop, SlotOf
<1>3. \/ run' = [run EXCEPT !.at = "dropped", !.listed = listed]
      \/ run' = [run EXCEPT !.at = "dropped"]
  BY DEF Drop, SlotOf
<1>4. /\ \A t \in Slot : t # s => listed[t] = run.listed[t]
      /\ \A t \in Slot : t # s => hand'[t] = hand[t]
      /\ hand'[s] \in {hand[s], None}
  BY <1>1, <1>2 DEF Listings, Dropped
<1> HIDE DEF listed, s
<1>5. /\ run' \in Locals /\ run'.at = "dropped" /\ run'.k = run.k /\ run'.todo = run.todo
      /\ run'.hs = run.hs /\ run'.pRef = run.pRef /\ run'.diverged = run.diverged
      /\ run'.listed \in {listed, run.listed}
  BY <1>1, <1>3 DEF Locals, Phase
<1>6. Typed'
  BY <1>1, <1>2, <1>5, LocalsAre DEF Typed, TypeOK, HasVersion, Opens, Listings
<1> QED
  BY <1>1, <1>4, <1>5, <1>6 DEF s

LEMMA SaveDroppedDoes ==
  ASSUME Typed, SaveDropped
  PROVE  /\ Typed' /\ run.at = "dropped" /\ run'.at = "run" /\ Same(run') /\ run.k \in Pull
         /\ run.k \in run.todo
         /\ run'.todo = run.todo \ {run.k} /\ run'.hs = [run.hs EXCEPT ![run.k] = NoRow]
         /\ \E row \in Row : row.state \in {"merged", "expired"} /\ Save(run.k, row)
<1> DEFINE row == [run.hs[run.k] EXCEPT !.state = IF @ = "open" THEN "merged" ELSE "expired"]
<1>1. run \in Locals /\ run.at = "dropped" /\ run.k \in Pull /\ run.k \in run.todo
      /\ run.hs[run.k] \in Row
  BY LocalsAre DEF SaveDropped, Typed, TypeOK, Local
<1>2. row \in Row /\ row.state \in {"merged", "expired"}
  <2>1. PICK old \in Row : old = run.hs[run.k]
    BY <1>1
  <2>2. PICK st \in {"merged", "expired"} : st = IF old.state = "open" THEN "merged" ELSE "expired"
    OBVIOUS
  <2>3. row = [old EXCEPT !.state = st]
    BY <2>1, <2>2
  <2>4. [old EXCEPT !.state = st].state = st
    BY DEF Row
  <2> QED
    BY <2>1, <2>2, <2>3, <2>4, RowsAre DEF RowStates
<1>3. run' = Decided(run.k, NoRow) /\ Save(run.k, row)
      /\ UNCHANGED <<refs, base, hand, pulls, acts, had>>
  BY DEF SaveDropped
<1>4. rows' \in Tables /\ faults' \in 0..Faults
  BY <1>1, <1>2, <1>3, Saves
<1>5. /\ run' \in Locals /\ run'.at = "run" /\ Same(run')
      /\ run'.todo = run.todo \ {run.k} /\ run'.hs = [run.hs EXCEPT ![run.k] = NoRow]
  BY <1>1, <1>3, DecidedTyped, IdleTyped DEF Same
<1>6. Typed'
  BY <1>3, <1>4, <1>5, LocalsAre DEF Typed, TypeOK, HasVersion, Opens, Tables
<1> HIDE DEF row
<1> QED
  BY <1>1, <1>2, <1>3, <1>5, <1>6

LEMMA StartResetDoes ==
  ASSUME Typed, NEW k \in Pull, StartReset(k)
  PROVE  /\ Typed' /\ run.at = "run" /\ run'.at = "reset" /\ run'.k = k /\ Same(run') /\ k \in run.todo
         /\ run'.todo = run.todo /\ run'.hs = run.hs
<1>1. PICK next \in NodeSets : next = run.hs[k].nodes
  BY RowsAre DEF Typed, TypeOK, Local
<1>2. run \in Locals /\ k \in Numbers /\ k \in run.todo /\ run.at = "run" /\ {} \in NodeSets
  BY LocalsAre, HandoffAssumption DEF Typed, TypeOK, Pull, Numbers, StartReset, Deciding, NodeSets
<1>3. run' = [run EXCEPT !.at = "reset", !.k = k, !.next = next, !.left = {}]
      /\ UNCHANGED <<refs, base, hand, pulls, rows, acts, faults, had>>
  BY <1>1 DEF StartReset
<1>4. run' \in Locals /\ run'.k = k /\ run'.at = "reset" /\ Same(run')
      /\ run'.todo = run.todo /\ run'.hs = run.hs /\ run'.next = next /\ run'.left = {}
  BY <1>2, <1>3 DEF Locals, Same, Phase
<1>5. Typed'
  BY <1>1, <1>2, <1>3, <1>4, LocalsAre DEF Typed, TypeOK, HasVersion, Opens
<1> QED
  BY <1>2, <1>4, <1>5

LEMMA ResetReplicaDoes ==
  ASSUME Typed, NEW n \in Replica, ResetReplica(n)
  PROVE  /\ Typed' /\ run.at = "reset" /\ run'.at = "reset" /\ run'.k = run.k /\ Same(run')
         /\ run.k \in run.todo /\ run.k \in Pull /\ run'.todo = run.todo /\ run'.hs = run.hs
         /\ refs' \in {refs, Reset(n)}
<1>1. PICK next \in NodeSets, left \in NodeSets :
        /\ next = run.next \ {n} /\ left \in {run.left, run.left \cup {n}}
        /\ run' = [run EXCEPT !.next = next, !.left = left]
        /\ n \in run.next
  <2>1. run \in Locals
    BY LocalsAre DEF Typed, TypeOK
  <2>2. run.next \ {n} \in NodeSets /\ run.left \in NodeSets /\ run.left \cup {n} \in NodeSets
    BY <2>1 DEF Locals, NodeSets
  <2>3. [run EXCEPT !.next = @ \ {n}] = [run EXCEPT !.next = run.next \ {n}, !.left = run.left]
    BY <2>1 DEF Locals
  <2> QED
    BY <2>2, <2>3 DEF ResetReplica
<1>2. /\ run \in Locals /\ run.at = "reset" /\ run.k \in run.todo /\ run.k \in Pull
      /\ run.next \cup run.left \subseteq run.hs[run.k].nodes
      /\ refs' \in {refs, Reset(n)} /\ faults' \in 0..Faults
      /\ UNCHANGED <<base, hand, pulls, rows, acts, had>>
  BY LocalsAre, Budget DEF ResetReplica, Typed, TypeOK, Local
<1>3. run' \in Locals /\ run'.k = run.k /\ run'.at = "reset" /\ Same(run') /\ run'.todo = run.todo
      /\ run'.hs = run.hs /\ run'.next = next /\ run'.left = left
  BY <1>1, <1>2 DEF Locals, Same
<1>4. refs' \in [Node -> Value]
  BY <1>2 DEF Reset, Typed, TypeOK, Locals
<1>5. Typed'
  BY <1>1, <1>2, <1>3, <1>4, LocalsAre DEF Typed, TypeOK, HasVersion, Opens
<1> QED
  BY <1>2, <1>3, <1>5

LEMMA SaveResetDoes ==
  ASSUME Typed, SaveReset
  PROVE  /\ Typed' /\ run.at = "reset" /\ run'.at = "run" /\ Same(run') /\ run.k \in Pull
         /\ run.k \in run.todo /\ run'.todo = run.todo \ {run.k}
         /\ \E row \in Row :
              /\ row.state \in {"kept_primary", run.hs[run.k].state}
              /\ row.sha = run.hs[run.k].sha /\ row.over = run.hs[run.k].over
              /\ Save(run.k, row) /\ run'.hs = [run.hs EXCEPT ![run.k] = row]
<1> DEFINE row == [run.hs[run.k] EXCEPT !.nodes = run.left,
                                        !.state = IF run.left = {} THEN "kept_primary" ELSE @]
<1>1. run \in Locals /\ run.at = "reset" /\ run.k \in Pull /\ run.k \in run.todo /\ run.hs[run.k] \in Row
      /\ run.left \in NodeSets
  BY LocalsAre DEF SaveReset, Typed, TypeOK, Local, NodeSets
<1>2. /\ row \in Row /\ row.state \in {"kept_primary", run.hs[run.k].state}
      /\ row.sha = run.hs[run.k].sha /\ row.over = run.hs[run.k].over
  <2>1. PICK old \in Row : old = run.hs[run.k]
    BY <1>1
  <2>2. PICK st \in RowStates : st = IF run.left = {} THEN "kept_primary" ELSE old.state
    BY <2>1, RowsAre DEF RowStates
  <2>3. row = [old EXCEPT !.nodes = run.left, !.state = st]
    BY <2>1, <2>2 DEF Row
  <2>4. /\ [old EXCEPT !.nodes = run.left, !.state = st].state = st
        /\ [old EXCEPT !.nodes = run.left, !.state = st].sha = old.sha
        /\ [old EXCEPT !.nodes = run.left, !.state = st].over = old.over
    BY DEF Row
  <2> QED
    BY <1>1, <2>1, <2>2, <2>3, <2>4, RowsAre
<1>3. PICK r : r = Decided(run.k, row)
  OBVIOUS
<1>4. run' = [r EXCEPT !.left = {}] /\ Save(run.k, row)
      /\ UNCHANGED <<refs, base, hand, pulls, acts, had>>
  BY <1>3 DEF SaveReset
<1>5. rows' \in Tables /\ faults' \in 0..Faults
  BY <1>1, <1>2, <1>4, Saves
<1> HIDE DEF row
<1>6. /\ r \in Locals /\ r.at = "run" /\ Same(r)
      /\ r.todo = run.todo \ {run.k} /\ r.hs = [run.hs EXCEPT ![run.k] = row]
  BY <1>1, <1>2, <1>3, DecidedTyped DEF Same
<1>7. {} \in NodeSets
  BY DEF NodeSets
<1>8. /\ run' \in Locals /\ run'.at = "run" /\ Same(run')
      /\ run'.todo = r.todo /\ run'.hs = r.hs
  BY <1>4, <1>6, <1>7 DEF Same, Locals
<1>9. Typed'
  BY <1>4, <1>5, <1>8, LocalsAre DEF Typed, TypeOK, HasVersion, Opens, Tables
<1> QED
  BY <1>1, <1>2, <1>4, <1>6, <1>8, <1>9

LEMMA Histories ==
  ASSUME NEW c \in Value
  PROVE  History(c) \subseteq Commit /\ (c # None => c \in History(c))
BY RefAssumption DEF History, Value

LEMMA FollowDoes ==
  ASSUME Typed, NEW n \in Replica, Follow(n)
  PROVE  /\ Typed' /\ run.at = "run" /\ run'.at = "run" /\ Same(run')
         /\ run'.todo = run.todo /\ run'.hs = run.hs
<1>1. PICK fresh \in NodeSets : fresh = run.fresh \ {n}
  BY LocalsAre DEF Typed, TypeOK, Local, NodeSets
<1>2. /\ run \in Locals /\ run.at = "run" /\ run' = [run EXCEPT !.fresh = fresh]
      /\ refs' = [refs EXCEPT ![n] = run.pRef] /\ base' = [base EXCEPT ![n] = run.pRef]
      /\ UNCHANGED <<hand, pulls, rows, acts, faults, had>>
  BY <1>1, LocalsAre DEF Follow, Comparing, Compared, Typed, TypeOK
<1>3. run' \in Locals /\ run'.at = "run" /\ Same(run') /\ run'.todo = run.todo /\ run'.hs = run.hs
  BY <1>2 DEF Locals, Same
<1>4. refs' \in [Node -> Value] /\ base' \in [Replica -> Value]
  BY <1>2 DEF Typed, TypeOK, Locals
<1>5. Typed'
  BY <1>2, <1>3, <1>4, LocalsAre DEF Typed, TypeOK, HasVersion, Opens
<1> QED
  BY <1>2, <1>3, <1>5

LEMMA TakeOverDoes ==
  ASSUME Typed, NEW n \in Replica, TakeOver(n)
  PROVE  /\ Typed' /\ run.at = "run" /\ run'.at = "run"
         /\ run'.listed = run.listed /\ run'.diverged = run.diverged
         /\ run'.todo = run.todo /\ run'.hs = run.hs
         /\ \/ /\ refs[Primary] \in {run.pRef, refs[n]}
               /\ refs' = [refs EXCEPT ![Primary] = refs[n]] /\ had' = had \cup History(refs[n])
               /\ run'.pRef = refs[n]
            \/ UNCHANGED <<refs, had>> /\ run'.pRef = run.pRef
<1>1. PICK fresh \in NodeSets : fresh = run.fresh \ {n}
  BY LocalsAre DEF Typed, TypeOK, Local, NodeSets
<1>2. /\ run \in Locals /\ run.at = "run" /\ refs[n] \in Value
      /\ UNCHANGED <<base, hand, pulls, rows, acts, faults>>
  BY LocalsAre DEF TakeOver, Comparing, Typed, TypeOK, Replica
<1>3. CASE /\ refs[Primary] \in {run.pRef, refs[n]}
           /\ refs' = [refs EXCEPT ![Primary] = refs[n]] /\ had' = had \cup History(refs[n])
           /\ run' = [run EXCEPT !.fresh = fresh, !.pRef = refs[n], !.again = TRUE]
  <2>1. run' \in Locals /\ run'.at = "run" /\ run'.listed = run.listed /\ run'.diverged = run.diverged
        /\ run'.todo = run.todo /\ run'.hs = run.hs /\ run'.pRef = refs[n]
    BY <1>2, <1>3 DEF Locals
  <2>2. refs' \in [Node -> Value] /\ had' \subseteq Commit
    BY <1>2, <1>3, Histories, HandoffAssumption DEF Typed, TypeOK
  <2>3. Typed'
    BY <1>2, <2>1, <2>2, LocalsAre DEF Typed, TypeOK, HasVersion, Opens
  <2> QED
    BY <1>2, <1>3, <2>1, <2>3
<1>4. CASE UNCHANGED <<refs, had>> /\ run' = [run EXCEPT !.fresh = fresh]
  <2>1. run' \in Locals /\ run'.at = "run" /\ Same(run') /\ run'.todo = run.todo /\ run'.hs = run.hs
    BY <1>2, <1>4 DEF Locals, Same
  <2>2. Typed'
    BY <1>2, <1>4, <2>1, LocalsAre DEF Typed, TypeOK, HasVersion, Opens
  <2> QED
    BY <1>2, <1>4, <2>1, <2>2 DEF Same
<1>5. [Compared(n) EXCEPT !.pRef = refs[n], !.again = TRUE]
      = [run EXCEPT !.fresh = fresh, !.pRef = refs[n], !.again = TRUE]
      /\ Compared(n) = [run EXCEPT !.fresh = fresh]
  BY <1>1, <1>2 DEF Compared, Locals
<1> QED
  BY <1>3, <1>4, <1>5 DEF TakeOver

LEMMA DifferDoes ==
  ASSUME Typed, NEW n \in Replica, Differ(n)
  PROVE  /\ Typed' /\ run.at = "run" /\ run'.at = "run"
         /\ run'.listed = run.listed /\ run'.pRef = run.pRef
         /\ run.todo = {} /\ run'.todo = {} /\ run'.hs = run.hs
         /\ run'.diverged \in {run.diverged, [run.diverged EXCEPT ![n] = refs[n]]}
<1>1. PICK fresh \in NodeSets : fresh = run.fresh \ {n}
  BY LocalsAre DEF Typed, TypeOK, Local, NodeSets
<1>2. /\ run \in Locals /\ run.at = "run" /\ run.todo = {} /\ refs[n] \in Value
      /\ UNCHANGED <<refs, base, hand, pulls, rows, acts, faults, had>>
  BY LocalsAre DEF Differ, Comparing, Typed, TypeOK, Replica
<1>3. PICK div \in Versions : /\ div \in {run.diverged, [run.diverged EXCEPT ![n] = refs[n]]}
                              /\ run' = [run EXCEPT !.fresh = fresh, !.diverged = div]
  <2>1. run.diverged \in Versions /\ [run.diverged EXCEPT ![n] = refs[n]] \in Versions
    BY <1>2 DEF Locals, Versions
  <2>2. /\ Compared(n) = [run EXCEPT !.fresh = fresh, !.diverged = run.diverged]
        /\ [Compared(n) EXCEPT !.diverged[n] = refs[n]]
           = [run EXCEPT !.fresh = fresh, !.diverged = [run.diverged EXCEPT ![n] = refs[n]]]
    BY <1>1, <1>2 DEF Compared, Locals
  <2> QED
    BY <2>1, <2>2 DEF Differ
<1>4. run' \in Locals /\ run'.at = "run" /\ run'.listed = run.listed /\ run'.pRef = run.pRef
      /\ run'.todo = run.todo /\ run'.hs = run.hs /\ run'.diverged = div
  BY <1>2, <1>3 DEF Locals
<1>5. Typed'
  BY <1>2, <1>4, LocalsAre DEF Typed, TypeOK, HasVersion, Opens
<1> QED
  BY <1>2, <1>3, <1>4, <1>5

LEMMA SkipDoes ==
  ASSUME Typed, NEW n \in Replica, Skip(n)
  PROVE  /\ Typed' /\ run.at = "run" /\ run'.at = "run" /\ Same(run')
         /\ run'.todo = run.todo /\ run'.hs = run.hs
<1>1. PICK fresh \in NodeSets : fresh = run.fresh \ {n}
  BY LocalsAre DEF Typed, TypeOK, Local, NodeSets
<1>2. /\ run \in Locals /\ run.at = "run" /\ run' = [run EXCEPT !.fresh = fresh]
      /\ faults' \in 0..Faults /\ UNCHANGED <<refs, base, hand, pulls, rows, acts, had>>
  BY <1>1, LocalsAre, Budget DEF Skip, Comparing, Compared, Typed, TypeOK
<1>3. run' \in Locals /\ run'.at = "run" /\ Same(run') /\ run'.todo = run.todo /\ run'.hs = run.hs
  BY <1>2 DEF Locals, Same
<1>4. Typed'
  BY <1>2, <1>3, LocalsAre DEF Typed, TypeOK, HasVersion, Opens
<1> QED
  BY <1>2, <1>3, <1>4

LEMMA HandingOffFacts ==
  ASSUME Typed, NEW v \in Commit
  PROVE  /\ HandedOff(v) \in SUBSET Pull /\ Extensible(v) \in SUBSET Pull
         /\ HandedOff(v) # {} => First(HandedOff(v)) \in HandedOff(v)
         /\ Extensible(v) # {} => First(Extensible(v)) \in Extensible(v)
         /\ Group(v) \in NodeSets
<1>1. HandedOff(v) \in SUBSET Nat /\ Extensible(v) \in SUBSET Nat
  BY DEF HandedOff, Extensible, Pull
<1> QED
  BY <1>1, FirstIn DEF HandedOff, Extensible, Group, NodeSets

\* What is left to hand off when version v is done.
Others(v) == [n \in Replica |-> IF run.diverged[n] = v THEN None ELSE run.diverged[n]]

LEMMA StillOpenDoes ==
  ASSUME Typed, NEW v \in Commit, StillOpen(v)
  PROVE  /\ Typed' /\ run.at = "run" /\ run'.at = "run"
         /\ run'.pRef = run.pRef /\ run'.listed = run.listed /\ run'.todo = run.todo
         /\ run'.diverged = Others(v)
         /\ \E k \in HandedOff(v), row \in Row :
              /\ row.state = run.hs[k].state
              /\ row.sha = run.hs[k].sha /\ row.over = run.hs[k].over
              /\ (row = run.hs[k] /\ UNCHANGED rows) \/ Save(k, row)
              /\ run'.hs = [run.hs EXCEPT ![k] = row]
<1> DEFINE k == First(HandedOff(v))
           row == [run.hs[k] EXCEPT !.nodes = run.hs[k].nodes \cup Group(v)]
<1>1. run \in Locals /\ run.at = "run" /\ k \in HandedOff(v) /\ k \in Pull /\ run.hs[k] \in Row
  <2>1. k \in HandedOff(v) /\ HandedOff(v) \in SUBSET Pull
    BY HandingOffFacts DEF StillOpen
  <2>2. run.hs \in [Pull -> Row] /\ run \in Locals
    BY LocalsAre DEF Typed, TypeOK, Local
  <2>3. run.at = "run"
    BY DEF StillOpen, HandingOff
  <2> QED
    BY <2>1, <2>2, <2>3
<1>2. run.hs[k].nodes \cup Group(v) \in NodeSets
  BY <1>1, RowsAre, HandingOffFacts DEF NodeSets
<1>3. /\ row \in Row /\ row.state = run.hs[k].state
      /\ row.sha = run.hs[k].sha /\ row.over = run.hs[k].over
  <2>1. PICK old \in Row : old = run.hs[k]
    BY <1>1
  <2>2. PICK S \in NodeSets : S = run.hs[k].nodes \cup Group(v)
    BY <1>2
  <2>3. row = [old EXCEPT !.nodes = S]
    BY <2>1, <2>2
  <2>4. /\ [old EXCEPT !.nodes = S].state = old.state
        /\ [old EXCEPT !.nodes = S].sha = old.sha
        /\ [old EXCEPT !.nodes = S].over = old.over
    BY DEF Row
  <2> QED
    BY <2>1, <2>2, <2>3, <2>4, RowsAre
<1>4. row = [run.hs[k] EXCEPT !.nodes = @ \cup Group(v)]
  OBVIOUS
<1>5. PICK hs \in Tables : hs = [run.hs EXCEPT ![k] = row]
  BY <1>1, <1>3 DEF Locals, Tables
<1>6. PICK r : r = Done(v)
  OBVIOUS
<1>7. /\ r \in Locals /\ r.at = "run" /\ r.pRef = run.pRef /\ r.listed = run.listed
      /\ r.hs = run.hs /\ r.todo = run.todo /\ r.diverged = Others(v)
  BY <1>1, <1>6, DoneTyped DEF Others
<1>8. /\ rows' \in Tables /\ faults' \in 0..Faults
      /\ (row = run.hs[k] /\ UNCHANGED rows) \/ Save(k, row)
      /\ UNCHANGED <<refs, base, hand, pulls, acts, had>>
  <2>1. row = run.hs[k] => rows' = rows /\ Fine
    BY <1>4 DEF StillOpen
  <2>2. row # run.hs[k] => Save(k, row)
    BY <1>4 DEF StillOpen
  <2>3. UNCHANGED <<refs, base, hand, pulls, acts, had>>
    BY DEF StillOpen
  <2> QED
    BY <1>1, <1>3, <2>1, <2>2, <2>3, Saves, Budget DEF Typed, TypeOK, Tables
<1>9. run' = [r EXCEPT !.hs = hs]
  <2>1. run' = [r EXCEPT !.hs[k] = row]
    BY <1>4, <1>6 DEF StillOpen
  <2> QED
    BY <1>5, <1>7, <2>1 DEF Locals
<1>10. run' \in Locals /\ run'.at = "run" /\ run'.pRef = run.pRef /\ run'.listed = run.listed
       /\ run'.todo = run.todo /\ run'.hs = hs /\ run'.diverged = Others(v)
  BY <1>7, <1>9 DEF Locals
<1>11. Typed'
  BY <1>8, <1>10, LocalsAre DEF Typed, TypeOK, HasVersion, Opens, Tables
<1> HIDE DEF k, row
<1> QED
  BY <1>1, <1>3, <1>5, <1>8, <1>10, <1>11

LEMMA ExtendDoes ==
  ASSUME Typed, NEW v \in Commit, Extend(v)
  PROVE  LET k == First(Extensible(v))
         IN  /\ Typed' /\ HandingOff(v) /\ run.at = "run" /\ k \in Extensible(v) /\ k \in Pull
             /\ Same(run') /\ run'.todo = run.todo /\ run'.hs = run.hs /\ run'.v = v
             /\ hand' \in {hand, Extended(k, v)}
             /\ \/ run'.at = "extended" /\ run'.k = k /\ hand'[SlotOf(k)] = v /\ HandedOff(v) = {}
                \/ run'.at = "open"
<1> DEFINE k == First(Extensible(v))
<1>1. run \in Locals /\ run.at = "run" /\ k \in Extensible(v) /\ k \in Pull /\ v \in Value
      /\ HandingOff(v) /\ HandedOff(v) = {} /\ k \in Numbers /\ SlotOf(k) \in Slot
  <2>1. k \in Extensible(v) /\ Extensible(v) \in SUBSET Pull
    BY HandingOffFacts DEF Extend
  <2>2. run \in Locals /\ pulls \in [Pull -> [state : {"none", "open", "merged", "closed", "deleted"}, slot : Slot]]
    BY LocalsAre DEF Typed, TypeOK
  <2>3. run.at = "run" /\ HandingOff(v) /\ HandedOff(v) = {}
    BY DEF Extend, HandingOff
  <2> HIDE DEF k
  <2> QED
    BY <2>1, <2>2, <2>3, HandoffAssumption DEF Value, Numbers, Pull, SlotOf
<1>2. /\ hand' \in {hand, Extended(k, v)} /\ faults' \in 0..Faults
      /\ UNCHANGED <<refs, base, pulls, rows, acts, had>>
  BY Budget DEF Extend
<1>3. PICK at \in {"extended", "open"}, i \in Numbers :
        /\ run' = [run EXCEPT !.at = at, !.k = i, !.v = v]
        /\ at = "extended" => i = k /\ hand'[SlotOf(k)] = v
  <2>1. run.k \in Numbers /\ [run EXCEPT !.at = "open", !.v = v] = [run EXCEPT !.at = "open", !.k = run.k, !.v = v]
    BY <1>1 DEF Locals
  <2> QED
    BY <1>1, <2>1 DEF Extend, SlotOf
<1> HIDE DEF k
<1>4. /\ run' \in Locals /\ run'.at = at /\ run'.k = i /\ run'.v = v /\ Same(run')
      /\ run'.todo = run.todo /\ run'.hs = run.hs
  BY <1>1, <1>3 DEF Locals, Same, Phase
<1>5. hand' \in [Slot -> Value]
  BY <1>1, <1>2 DEF Extended, Typed, TypeOK, SlotOf
<1>6. Typed'
  BY <1>1, <1>2, <1>3, <1>4, <1>5, LocalsAre
     DEF Typed, TypeOK, HasVersion, Opens, Group, HandingOff, Same
<1> QED
  BY <1>1, <1>2, <1>3, <1>4, <1>6 DEF k

LEMMA SaveExtendedDoes ==
  ASSUME Typed, SaveExtended
  PROVE  /\ Typed' /\ run.at = "extended" /\ run'.at = "run" /\ run.k \in Pull /\ run.v \in Commit
         /\ run'.pRef = run.pRef /\ run'.listed = run.listed /\ run'.todo = run.todo
         /\ run'.diverged = Others(run.v)
         /\ \E row \in Row :
              /\ row.state = run.hs[run.k].state
              /\ row.sha = run.v /\ row.over = run.hs[run.k].over
              /\ Save(run.k, row) /\ run'.hs = [run.hs EXCEPT ![run.k] = row]
<1> DEFINE row == [run.hs[run.k] EXCEPT !.sha = run.v]
<1>1. run \in Locals /\ run.at = "extended" /\ run.k \in Pull /\ run.v \in Commit /\ run.hs[run.k] \in Row
  BY LocalsAre DEF SaveExtended, Typed, TypeOK, Local, HasVersion
<1>2. /\ row \in Row /\ row.state = run.hs[run.k].state
      /\ row.sha = run.v /\ row.over = run.hs[run.k].over
  <2>1. PICK old \in Row : old = run.hs[run.k]
    BY <1>1
  <2>2. PICK v \in Value : v = run.v
    BY <1>1 DEF Value
  <2>3. row = [old EXCEPT !.sha = v]
    BY <2>1, <2>2
  <2>4. /\ [old EXCEPT !.sha = v].state = old.state
        /\ [old EXCEPT !.sha = v].sha = v
        /\ [old EXCEPT !.sha = v].over = old.over
    BY DEF Row
  <2> QED
    BY <2>1, <2>2, <2>3, <2>4, RowsAre
<1>3. PICK hs \in Tables : hs = [run.hs EXCEPT ![run.k] = row]
  BY <1>1, <1>2 DEF Locals, Tables
<1>4. PICK r : r = Done(run.v)
  OBVIOUS
<1>5. /\ r \in Locals /\ r.at = "run" /\ r.pRef = run.pRef /\ r.listed = run.listed
      /\ r.hs = run.hs /\ r.todo = run.todo /\ r.diverged = Others(run.v)
  BY <1>1, <1>4, DoneTyped DEF Others
<1>6. rows' \in Tables /\ faults' \in 0..Faults /\ Save(run.k, row) /\ UNCHANGED <<refs, base, hand, pulls, acts, had>>
  BY <1>1, <1>2, Saves DEF SaveExtended
<1>7. run' = [r EXCEPT !.hs = hs]
  <2>1. run' = [r EXCEPT !.hs[run.k] = row]
    BY <1>4 DEF SaveExtended
  <2> QED
    BY <1>3, <1>5, <2>1 DEF Locals
<1>8. run' \in Locals /\ run'.at = "run" /\ run'.pRef = run.pRef /\ run'.listed = run.listed
      /\ run'.todo = run.todo /\ run'.hs = hs /\ run'.diverged = Others(run.v)
  BY <1>5, <1>7 DEF Locals
<1>9. Typed'
  BY <1>6, <1>8, LocalsAre DEF Typed, TypeOK, HasVersion, Opens, Tables
<1> HIDE DEF row
<1> QED
  BY <1>1, <1>2, <1>3, <1>6, <1>8, <1>9

\* The name a new branch is given is one of the names, and not listed.
LEMMA FreeSlotFacts ==
  ASSUME NEW v \in Commit, Group(v) # {}, HasName(v)
  PROVE  FreeSlot(Group(v)) \in Slot /\ run.listed[FreeSlot(Group(v))] = None
<1>1. PICK n \in Replica : n = CHOOSE m \in Group(v) : TRUE
  BY DEF Group
<1>2. FreeNames(n) \in SUBSET Nat /\ FreeNames(n) # {}
  BY <1>1 DEF FreeNames, HasName
<1>3. First(FreeNames(n)) \in FreeNames(n)
  BY <1>2, FirstIn
<1>4. FreeSlot(Group(v)) = <<n, First(FreeNames(n))>>
  BY <1>1 DEF FreeSlot
<1> QED
  BY <1>3, <1>4 DEF FreeNames, Slot

LEMMA OpenBranchDoes ==
  ASSUME Typed, NEW v \in Commit, OpenBranch(v)
  PROVE  LET s == FreeSlot(Group(v))
         IN  /\ Typed' /\ s \in Slot /\ run.listed[s] = None /\ Opening(v) /\ Group(v) # {}
             /\ hand' \in {hand, Opened(s, v)}
             /\ run'.pRef = run.pRef /\ run'.todo = run.todo /\ run'.hs = run.hs
             /\ \/ /\ run'.at = "pull" /\ run'.v = v /\ run'.slot = s /\ hand'[s] = v
                   /\ run'.listed = [run.listed EXCEPT ![s] = v] /\ run'.diverged = run.diverged
                \/ run'.at = "run" /\ run'.listed = run.listed /\ run'.diverged = Others(v)
<1> DEFINE s == FreeSlot(Group(v))
<1>1. Group(v) # {} /\ Opening(v) /\ HasName(v)
  BY DEF OpenBranch, Opening, HandingOff, Typed, HasVersion, Opens
<1>2. s \in Slot /\ run.listed[s] = None
  BY <1>1, FreeSlotFacts
<1> HIDE DEF s
<1>3. run \in Locals /\ v \in Value /\ 0 \in Numbers
  BY LocalsAre, HandoffAssumption DEF Typed, TypeOK, Value, Numbers
<1>4. /\ hand' \in {hand, Opened(s, v)} /\ faults' \in 0..Faults
      /\ UNCHANGED <<refs, base, pulls, rows, acts, had>>
  BY Budget DEF OpenBranch, s
<1>5. hand' \in [Slot -> Value]
  BY <1>2, <1>3, <1>4 DEF Opened, Typed, TypeOK
<1>6. CASE /\ run' = [run EXCEPT !.at = "pull", !.k = 0, !.v = v, !.slot = s, !.listed[s] = v]
           /\ hand'[s] = v
  <2>1. PICK listed \in Listings : listed = [run.listed EXCEPT ![s] = v]
    BY <1>2, <1>3 DEF Locals, Listings
  <2>2. run' = [run EXCEPT !.at = "pull", !.k = 0, !.v = v, !.slot = s, !.listed = listed]
    BY <1>6, <2>1
  <2>3. /\ run' \in Locals /\ run'.at = "pull" /\ run'.v = v /\ run'.slot = s
        /\ run'.listed = listed /\ run'.diverged = run.diverged
        /\ run'.pRef = run.pRef /\ run'.todo = run.todo /\ run'.hs = run.hs
    BY <1>2, <1>3, <2>2 DEF Locals, Phase
  <2>4. Typed'
    BY <1>1, <1>4, <1>5, <2>3, LocalsAre DEF Typed, TypeOK, HasVersion, Opens, Group
  <2> QED
    BY <1>1, <1>2, <1>4, <1>6, <2>1, <2>3, <2>4 DEF s
<1>7. CASE run' = Done(v)
  <2>1. /\ run' \in Locals /\ run'.at = "run" /\ run'.listed = run.listed /\ run'.diverged = Others(v)
        /\ run'.pRef = run.pRef /\ run'.todo = run.todo /\ run'.hs = run.hs
    BY <1>3, <1>7, DoneTyped DEF Others
  <2>2. Typed'
    BY <1>4, <1>5, <2>1, LocalsAre DEF Typed, TypeOK, HasVersion, Opens
  <2> QED
    BY <1>1, <1>2, <1>4, <2>1, <2>2 DEF s
<1> QED
  BY <1>6, <1>7 DEF OpenBranch, s

LEMMA NoMoreDoes ==
  ASSUME Typed, NEW v \in Commit, NoMore(v)
  PROVE  /\ Typed' /\ run'.at = "run" /\ run'.listed = run.listed /\ run'.diverged = Others(v)
         /\ run'.pRef = run.pRef /\ run'.todo = run.todo /\ run'.hs = run.hs /\ Opening(v)
<1>1. run \in Locals /\ run' = Done(v) /\ UNCHANGED <<refs, base, hand, pulls, rows, acts, faults, had>>
  BY LocalsAre DEF NoMore, Typed, TypeOK
<1>2. /\ run' \in Locals /\ run'.at = "run" /\ run'.listed = run.listed /\ run'.diverged = Others(v)
      /\ run'.pRef = run.pRef /\ run'.todo = run.todo /\ run'.hs = run.hs
  BY <1>1, DoneTyped DEF Others
<1>3. Typed'
  BY <1>1, <1>2, LocalsAre DEF Typed, TypeOK, HasVersion, Opens
<1> QED
  BY <1>2, <1>3 DEF NoMore

PullStates == {"none", "open", "merged", "closed", "deleted"}
PullRequests == [state : PullStates, slot : Slot]

LEMMA OpenPullDoes ==
  ASSUME Typed, OpenPull
  PROVE  LET k == First(Unused)
         IN  /\ Typed' /\ run.at = "pull" /\ run'.slot = run.slot /\ run'.v = run.v
             /\ Same(run') /\ run'.todo = run.todo /\ run'.hs = run.hs
             /\ \/ UNCHANGED pulls /\ run'.at = "undo"
                \/ /\ pulls' = NewPull /\ k \in Unused /\ \A j \in Unused : k <= j
                   /\ run'.at = "undo" \/ (run'.at = "insert" /\ run'.k = k)
<1> DEFINE k == First(Unused)
<1>1. Unused \in SUBSET Nat /\ Unused \in SUBSET Pull
  BY DEF Unused, Pull
<1>2. Unused # {} => k \in Unused /\ k \in Pull /\ k \in Numbers /\ \A j \in Unused : k <= j
  <2>1. Unused # {} => k \in Unused /\ \A j \in Unused : k <= j
    BY <1>1, FirstIn
  <2> HIDE DEF k
  <2>2. \A j \in Pull : j \in Numbers
    BY HandoffAssumption DEF Pull, Numbers
  <2> QED
    BY <1>1, <2>1, <2>2
<1> HIDE DEF k
<1>3. /\ run \in Locals /\ run.at = "pull" /\ run.slot \in Slot /\ pulls \in [Pull -> PullRequests]
      /\ run.v \in Commit /\ Group(run.v) # {}
  BY LocalsAre DEF OpenPull, Typed, TypeOK, Local, PullRequests, PullStates, HasVersion, Opens
<1>4. faults' \in 0..Faults /\ UNCHANGED <<refs, base, hand, rows, acts, had>>
  BY Budget DEF OpenPull
<1>5. [state |-> "open", slot |-> run.slot] \in PullRequests
  BY <1>3 DEF PullRequests, PullStates
<1>6. Unused # {} => NewPull \in [Pull -> PullRequests]
  BY <1>2, <1>3, <1>5 DEF NewPull, k
<1>7. CASE run' = [run EXCEPT !.at = "undo"] /\ (UNCHANGED pulls \/ (Unused # {} /\ pulls' = NewPull))
  <2>1. /\ run' \in Locals /\ run'.at = "undo" /\ run'.slot = run.slot /\ run'.v = run.v
        /\ Same(run') /\ run'.todo = run.todo /\ run'.hs = run.hs
    BY <1>3, <1>7 DEF Locals, Same, Phase
  <2>2. pulls' \in [Pull -> PullRequests]
    BY <1>3, <1>6, <1>7
  <2>3. Typed'
    BY <1>3, <1>4, <2>1, <2>2, LocalsAre
       DEF Typed, TypeOK, HasVersion, Opens, Group, Same, PullRequests, PullStates
  <2> QED
    BY <1>2, <1>3, <1>7, <2>1, <2>3 DEF k
<1>8. CASE Unused # {} /\ pulls' = NewPull /\ run' = [run EXCEPT !.at = "insert", !.k = k]
  <2>1. /\ run' \in Locals /\ run'.at = "insert" /\ run'.slot = run.slot /\ run'.v = run.v
        /\ Same(run') /\ run'.todo = run.todo /\ run'.hs = run.hs /\ run'.k = k
    BY <1>2, <1>3, <1>8 DEF Locals, Same, Phase
  <2>2. pulls' \in [Pull -> PullRequests]
    BY <1>3, <1>6, <1>8
  <2>3. Typed'
    BY <1>2, <1>3, <1>4, <1>8, <2>1, <2>2, LocalsAre
       DEF Typed, TypeOK, HasVersion, Opens, Group, Same, PullRequests, PullStates
  <2> QED
    BY <1>2, <1>3, <1>8, <2>1, <2>3 DEF k
<1>9. \/ run' = [run EXCEPT !.at = "undo"] /\ (UNCHANGED pulls \/ (Unused # {} /\ pulls' = NewPull))
      \/ Unused # {} /\ pulls' = NewPull /\ run' = [run EXCEPT !.at = "insert", !.k = k]
  <2>1. \/ Unused # {} /\ pulls' = NewPull /\ run' = [run EXCEPT !.at = "insert", !.k = First(Unused)]
        \/ UNCHANGED pulls /\ run' = [run EXCEPT !.at = "undo"]
        \/ Unused # {} /\ pulls' \in {pulls, NewPull} /\ run' = [run EXCEPT !.at = "undo"]
    BY Zenon DEF OpenPull
  <2> QED
    BY <2>1 DEF k
<1> QED
  BY <1>7, <1>8, <1>9

LEMMA UndoBranchDoes ==
  ASSUME Typed, UndoBranch
  PROVE  /\ Typed' /\ run.at = "undo" /\ run'.at = "run" /\ run.v \in Commit /\ run.slot \in Slot
         /\ hand' \in {hand, Undone} /\ run'.listed = [run.listed EXCEPT ![run.slot] = None]
         /\ run'.diverged = Others(run.v)
         /\ run'.pRef = run.pRef /\ run'.todo = run.todo /\ run'.hs = run.hs
<1>1. run \in Locals /\ run.at = "undo" /\ run.v \in Commit /\ run.slot \in Slot
  BY LocalsAre DEF UndoBranch, Typed, TypeOK, Local, HasVersion, Opens
<1>2. hand' \in {hand, Undone} /\ faults' \in 0..Faults /\ UNCHANGED <<refs, base, pulls, rows, acts, had>>
  BY Budget DEF UndoBranch
<1>3. PICK r : r = Done(run.v)
  OBVIOUS
<1>4. /\ r \in Locals /\ r.at = "run" /\ r.pRef = run.pRef /\ r.listed = run.listed
      /\ r.hs = run.hs /\ r.todo = run.todo /\ r.diverged = Others(run.v)
  BY <1>1, <1>3, DoneTyped DEF Others
<1>5. PICK listed \in Listings : listed = [run.listed EXCEPT ![run.slot] = None]
  BY <1>1 DEF Locals, Listings, Value
<1>6. run' = [r EXCEPT !.listed = listed]
  <2>1. run' = [r EXCEPT !.listed[run.slot] = None]
    BY <1>3 DEF UndoBranch
  <2> QED
    BY <1>4, <1>5, <2>1 DEF Locals
<1>7. /\ run' \in Locals /\ run'.at = "run" /\ run'.listed = listed /\ run'.diverged = Others(run.v)
      /\ run'.pRef = run.pRef /\ run'.todo = run.todo /\ run'.hs = run.hs
  BY <1>4, <1>6 DEF Locals
<1>8. hand' \in [Slot -> Value]
  BY <1>1, <1>2 DEF Undone, Typed, TypeOK, Value
<1>9. Typed'
  BY <1>2, <1>7, <1>8, LocalsAre DEF Typed, TypeOK, HasVersion, Opens
<1> QED
  BY <1>1, <1>2, <1>5, <1>7, <1>9

LEMMA InsertDoes ==
  ASSUME Typed, Insert
  PROVE  LET row == [state |-> "open", sha |-> run.v, nodes |-> Group(run.v), over |-> FALSE]
         IN  /\ Typed' /\ run.at = "insert" /\ run'.at = "run" /\ run.k \in Pull /\ run.v \in Commit
             /\ run'.pRef = run.pRef /\ run'.listed = run.listed /\ run'.todo = run.todo
             /\ run'.diverged = Others(run.v) /\ row \in Row
             /\ \/ UNCHANGED rows /\ run'.hs = run.hs
                \/ /\ rows' = [rows EXCEPT ![run.k] = row] /\ OneOpenEach(rows')
                   /\ run'.hs = [run.hs EXCEPT ![run.k] = row]
<1> DEFINE row == [state |-> "open", sha |-> run.v, nodes |-> Group(run.v), over |-> FALSE]
<1>1. run \in Locals /\ run.at = "insert" /\ run.k \in Pull /\ run.v \in Commit
  BY LocalsAre DEF Insert, Typed, TypeOK, HasVersion, Opens
<1>2. row \in Row
  BY <1>1 DEF Row, Value, Group
<1> HIDE DEF row
<1>3. PICK hs \in Tables : hs = [run.hs EXCEPT ![run.k] = row]
  BY <1>1, <1>2 DEF Locals, Tables
<1>4. PICK r : r = Done(run.v)
  OBVIOUS
<1>5. /\ r \in Locals /\ r.at = "run" /\ r.pRef = run.pRef /\ r.listed = run.listed
      /\ r.hs = run.hs /\ r.todo = run.todo /\ r.diverged = Others(run.v)
  BY <1>1, <1>4, DoneTyped DEF Others
<1>6. faults' \in 0..Faults /\ UNCHANGED <<refs, base, hand, pulls, acts, had>>
  BY Budget DEF Insert
<1>7. CASE UNCHANGED rows /\ run' = r
  <2>1. Typed'
    BY <1>5, <1>6, <1>7, LocalsAre DEF Typed, TypeOK, HasVersion, Opens
  <2> QED
    BY <1>1, <1>2, <1>5, <1>7, <2>1 DEF row
<1>8. CASE rows' = Saved(run.k, row) /\ OneOpenEach(Saved(run.k, row)) /\ run' = [r EXCEPT !.hs[run.k] = row]
  <2>1. run' = [r EXCEPT !.hs = hs]
    BY <1>3, <1>5, <1>8 DEF Locals
  <2>2. /\ run' \in Locals /\ run'.at = "run" /\ run'.pRef = run.pRef /\ run'.listed = run.listed
        /\ run'.todo = run.todo /\ run'.hs = hs /\ run'.diverged = Others(run.v)
    BY <1>5, <2>1 DEF Locals
  <2>3. rows' \in [Pull -> Row]
    BY <1>1, <1>2, <1>8 DEF Saved, Typed, TypeOK
  <2>4. Typed'
    BY <1>6, <2>2, <2>3, LocalsAre DEF Typed, TypeOK, HasVersion, Opens
  <2> QED
    BY <1>1, <1>2, <1>3, <1>8, <2>2, <2>4 DEF row, Saved
<1> QED
  BY <1>4, <1>7, <1>8 DEF Insert, row

LEMMA StopDoes ==
  ASSUME Typed, End \/ Crash
  PROVE  Typed' /\ run' = Idle /\ UNCHANGED <<refs, base, hand, pulls, rows, had>>
<1>1. run' = Idle /\ faults' \in 0..Faults /\ UNCHANGED <<refs, base, hand, pulls, rows, acts, had>>
  BY Budget DEF End, Crash, Typed, TypeOK
<1>2. Idle.at = "idle"
  BY DEF Idle
<1>3. Typed'
  BY <1>1, <1>2, IdleTyped DEF Typed, TypeOK, HasVersion, Opens
<1> QED
  BY <1>1, <1>3

LEMMA WriteTyped ==
  ASSUME Typed, NEW n \in Node, NEW v \in Pushed[n], Write(n, v)
  PROVE  Typed' /\ v \in Value
<1>1. v \in Value /\ refs[n] \in Value
  BY HandoffAssumption DEF Typed, TypeOK
<1>2. refs' \in [Node -> Value]
  BY <1>1 DEF Write, Typed, TypeOK
<1>3. had' \subseteq Commit
  BY <1>1, Histories DEF Write, Typed, TypeOK
<1>4. acts' \in 0..Acts /\ UNCHANGED <<base, hand, pulls, rows, run, faults>>
  BY Budget DEF Write
<1> QED
  BY <1>1, <1>2, <1>3, <1>4 DEF Typed, TypeOK, HasVersion, Opens, Group

LEMMA MergeTyped ==
  ASSUME Typed, NEW k \in Pull, NEW m \in Commit, Merge(k, m)
  PROVE  Typed' /\ SlotOf(k) \in Slot
<1>1. pulls \in [Pull -> PullRequests] /\ pulls[k] \in PullRequests /\ SlotOf(k) \in Slot
  BY DEF Typed, TypeOK, PullRequests, PullStates, SlotOf
<1>2. [pulls[k] EXCEPT !.state = "merged"] \in PullRequests
  BY <1>1 DEF PullRequests, PullStates
<1>3. pulls' \in [Pull -> PullRequests]
  <2>1. pulls' = [pulls EXCEPT ![k] = [pulls[k] EXCEPT !.state = "merged"]]
    BY DEF Merge
  <2> QED
    BY <1>1, <1>2, <2>1
<1>4. refs' \in [Node -> Value]
  BY HandoffAssumption DEF Merge, Typed, TypeOK, Value
<1>5. had' \subseteq Commit
  <2>1. hand[SlotOf(k)] \in Commit
    BY <1>1 DEF Merge, Typed, TypeOK, Value, SlotOf
  <2> QED
    BY <2>1, RefAssumption DEF Merge, Typed, TypeOK, SlotOf
<1>6. acts' \in 0..Acts /\ UNCHANGED <<base, hand, rows, run, faults>>
  BY Budget DEF Merge
<1> QED
  BY <1>1, <1>3, <1>4, <1>5, <1>6
     DEF Typed, TypeOK, HasVersion, Opens, Group, PullRequests, PullStates

LEMMA DecideTyped ==
  ASSUME Typed, NEW k \in Pull, Decide(k)
  PROVE  /\ Typed' /\ pulls[k].state \in {"open", "closed"}
         /\ \E d \in {"open", "closed", "deleted"} : pulls' = [pulls EXCEPT ![k].state = d]
<1>1. PICK d \in {"open", "closed", "deleted"} : pulls' = [pulls EXCEPT ![k].state = d]
  BY DEF Decide
<1>2. pulls \in [Pull -> PullRequests] /\ pulls[k] \in PullRequests
  BY DEF Typed, TypeOK, PullRequests, PullStates
<1>3. [pulls[k] EXCEPT !.state = d] \in PullRequests
  BY <1>2 DEF PullRequests, PullStates
<1>4. pulls' = [pulls EXCEPT ![k] = [pulls[k] EXCEPT !.state = d]]
  BY <1>1
<1>5. pulls' \in [Pull -> PullRequests]
  BY <1>2, <1>3, <1>4
<1>6. acts' \in 0..Acts /\ UNCHANGED <<refs, base, hand, rows, run, faults, had>>
  BY Budget DEF Decide
<1>7. pulls[k].state \in {"open", "closed"}
  BY DEF Decide
<1>8. Typed'
  BY <1>5, <1>6 DEF Typed, TypeOK, HasVersion, Opens, Group, PullRequests, PullStates
<1> QED
  BY <1>1, <1>7, <1>8

LEMMA AmendTyped ==
  ASSUME Typed, NEW k \in Pull, NEW v \in Commit, Amend(k, v)
  PROVE  Typed' /\ SlotOf(k) \in Slot
<1>1. SlotOf(k) \in Slot /\ hand' = [hand EXCEPT ![SlotOf(k)] = v]
  BY DEF Typed, TypeOK, SlotOf, Amend
<1>2. hand' \in [Slot -> Value]
  BY <1>1 DEF Typed, TypeOK, Value
<1>3. acts' \in 0..Acts /\ UNCHANGED <<refs, base, pulls, rows, run, faults, had>>
  BY Budget DEF Amend
<1> QED
  BY <1>1, <1>2, <1>3 DEF Typed, TypeOK, HasVersion, Opens, Group

LEMMA BackupEndsTyped ==
  ASSUME Typed, NEW k \in Pull, BackupEnds(k)
  PROVE  /\ Typed' /\ rows' = [rows EXCEPT ![k].over = TRUE] /\ SlotOf(k) \in Slot
<1>1. SlotOf(k) \in Slot /\ hand[SlotOf(k)] \in Value /\ rows[k] \in Row
  BY DEF Typed, TypeOK, SlotOf
<1>2. [rows[k] EXCEPT !.over = TRUE] \in Row
  BY <1>1 DEF Row
<1>3. rows' \in [Pull -> Row]
  <2>1. rows' = [rows EXCEPT ![k] = [rows[k] EXCEPT !.over = TRUE]]
    BY DEF BackupEnds
  <2> QED
    BY <1>2, <2>1 DEF Typed, TypeOK
<1>4. had' \subseteq Commit
  BY <1>1, Histories DEF BackupEnds, Typed, TypeOK, SlotOf
<1>5. UNCHANGED <<refs, base, hand, pulls, run, acts, faults>>
  BY DEF BackupEnds
<1> QED
  BY <1>1, <1>3, <1>4, <1>5 DEF Typed, TypeOK, HasVersion, Opens, Group, BackupEnds

LEMMA InitTyped == Init => Typed
<1> SUFFICES ASSUME Init PROVE Typed
  OBVIOUS
<1>1. Idle.at = "idle" /\ Idle.hs \in Tables /\ Idle.listed \in Listings
  BY IdleTyped DEF Idle, Tables, Listings, Value
<1>2. NoPull \in [state : {"none", "open", "merged", "closed", "deleted"}, slot : Slot]
  BY SomeSlot DEF NoPull
<1> QED
  BY <1>1, <1>2, IdleTyped, HandoffAssumption
     DEF Init, Typed, TypeOK, HasVersion, Opens, Tables, Listings, Value

LEMMA TypedNext == Typed /\ [Next]_vars => Typed'
<1> SUFFICES ASSUME Typed, [Next]_vars PROVE Typed'
  OBVIOUS
<1>1. CASE Begin
  BY <1>1, BeginDoes
<1>2. CASE \E k \in Pull : LeaveRow(k) \/ PullGone(k) \/ StartDrop(k) \/ StartReset(k)
  BY <1>2, LeaveRowDoes, PullGoneDoes, StartDropDoes, StartResetDoes
<1>3. CASE Drop \/ SaveDropped \/ SaveReset
  BY <1>3, DropDoes, SaveDroppedDoes, SaveResetDoes
<1>4. CASE \E n \in Replica : ResetReplica(n) \/ Follow(n) \/ TakeOver(n) \/ Differ(n) \/ Skip(n)
  BY <1>4, ResetReplicaDoes, FollowDoes, TakeOverDoes, DifferDoes, SkipDoes
<1>5. CASE \E v \in Commit : StillOpen(v) \/ Extend(v) \/ OpenBranch(v) \/ NoMore(v)
  BY <1>5, StillOpenDoes, ExtendDoes, OpenBranchDoes, NoMoreDoes
<1>6. CASE SaveExtended \/ OpenPull \/ UndoBranch \/ Insert \/ End \/ Crash
  BY <1>6, SaveExtendedDoes, OpenPullDoes, UndoBranchDoes, InsertDoes, StopDoes
<1>7. CASE People
  BY <1>7, WriteTyped, MergeTyped, DecideTyped, AmendTyped DEF People
<1>8. CASE \E k \in Pull : BackupEnds(k)
  BY <1>8, BackupEndsTyped
<1>9. CASE UNCHANGED vars
  BY <1>9 DEF vars, Typed, TypeOK, HasVersion, Opens, Group
<1> QED
  BY <1>1, <1>2, <1>3, <1>4, <1>5, <1>6, <1>7, <1>8, <1>9 DEF Next, Work

\* Type correctness: branches, pull requests, rows and what a run carries from
\* step to step stay in their types, whatever fails and in whatever order.
THEOREM TypeCorrect == Spec => []TypeOK
<1>1. Spec => []Typed
  BY InitTyped, TypedNext, PTL DEF Spec
<1>2. Typed => TypeOK
  BY DEF Typed
<1> QED
  BY <1>1, <1>2, PTL

-----------------------------------------------------------------------------
(* Each step keeps rows and branches together.                             *)

\* A row that is decided leaves the table's active rows and the run's at once.
LEMMA RowLeaves ==
  ASSUME Typed, InStep, NEW k \in Pull, NEW row \in Row,
         row.state \in {"gone", "merged", "expired"}, run.hs[k].state # "none",
         rows' = [rows EXCEPT ![k] = row], pulls' = pulls, run'.at # "idle",
         run.at # "idle", run'.hs = [run.hs EXCEPT ![k] = NoRow]
  PROVE  InStep'
<1>1. run.hs \in [Pull -> Row] /\ rows \in [Pull -> Row]
  BY DEF Typed, TypeOK, Local
<1>2. \A j \in Pull : j # k => rows'[j] = rows[j] /\ run'.hs[j] = run.hs[j]
  BY <1>1
<1>3. rows'[k] = row /\ run'.hs[k].state = "none"
  BY <1>1 DEF NoRow
<1>4. OneOpenEach(rows')
  BY <1>2, <1>3 DEF InStep, OneOpenEach
<1>5. pulls[k].state # "none"
  BY DEF InStep, Active
<1> QED
  BY <1>2, <1>3, <1>4, <1>5 DEF InStep, Active, ActiveRow, Latest

LEMMA OwnBranch ==
  ASSUME Typed, InStep, NEW j \in Pull, NEW k \in Pull, ActiveRow(j), ActiveRow(k), j # k
  PROVE  SlotOf(j) # SlotOf(k)
BY DEF InStep, Latest, ActiveRow, Active, SlotOf, Pull

LEMMA LeaveRowHolds ==
  ASSUME ~Unsaved, Held, NEW k \in Pull, LeaveRow(k)
  PROVE  Stages' /\ InStep' /\ Backed'
<1>1. Typed /\ Typed' /\ Stages /\ InStep /\ Backed
  BY LeaveRowDoes DEF Held
<1>2. UNCHANGED <<refs, base, hand, pulls, rows, had>>
  BY DEF LeaveRow
<1>7. Stages'
  BY <1>1, <1>2, LeaveRowDoes DEF Stages, Expired, HandedOff, SlotOf, Latest, Same
<1>8. InStep'
  BY <1>1, <1>2, LeaveRowDoes DEF InStep, Active, ActiveRow, Latest, OneOpenEach
<1>9. Backed'
  BY <1>1, <1>2, LeaveRowDoes DEF Backed, ActiveRow, Active, Leaving, SlotOf, Opens, Same
<1> QED
  BY <1>7, <1>8, <1>9

LEMMA PullGoneHolds ==
  ASSUME ~Unsaved, Held, NEW k \in Pull, PullGone(k)
  PROVE  Stages' /\ InStep' /\ Backed'
<1>1. Typed /\ Typed' /\ Stages /\ InStep /\ Backed
  BY PullGoneDoes DEF Held
<1>2. UNCHANGED <<refs, base, hand, pulls, had>>
  BY DEF PullGone
<1>3. run.hs \in [Pull -> Row] /\ rows \in [Pull -> Row] /\ k \in Pull
  BY <1>1, PullGoneDoes DEF Typed, TypeOK, Local
<1>4. PICK row \in Row : Save(k, row) /\ row.state = "gone"
  BY <1>1, PullGoneDoes
<1>6. rows' = [rows EXCEPT ![k] = row]
  <2>1. OneOpenEach(Saved(k, row))
    BY <1>1, <1>3, <1>4, PullGoneDoes DEF InStep, OneOpenEach, Saved, Active, Stages, Expired
  <2> QED
    BY <1>1, <1>3, <1>4, <2>1, Saves
<1>5. \A j \in Pull : ActiveRow(j)' => ActiveRow(j) /\ rows'[j] = rows[j]
  BY <1>3, <1>4, <1>6 DEF ActiveRow, Active
<1>7. Stages'
  BY <1>1, <1>2, PullGoneDoes, <1>3, <1>4, <1>6 DEF Stages, Expired, HandedOff, SlotOf, Latest, Same
<1>8. InStep'
  BY <1>1, <1>2, <1>3, <1>4, <1>6, PullGoneDoes, RowLeaves DEF PullGone, Deciding, Answered, Stages, Expired
<1>9. Backed'
  BY <1>1, <1>2, <1>5, PullGoneDoes DEF Backed, Leaving, SlotOf, Opens, Same
<1> QED
  BY <1>7, <1>8, <1>9

LEMMA StartDropHolds ==
  ASSUME ~Unsaved, Held, NEW k \in Pull, StartDrop(k)
  PROVE  Stages' /\ InStep' /\ Backed'
<1>1. Typed /\ Typed' /\ Stages /\ InStep /\ Backed
  BY StartDropDoes DEF Held
<1>2. UNCHANGED <<refs, base, hand, pulls, rows, had>>
  BY DEF StartDrop
<1>3. k \in Pull /\ ((run.hs[k].state = "open" /\ pulls[k].state = "merged") \/ Expired(k))
  BY DEF StartDrop, Answered
<1>7. Stages'
  BY <1>1, <1>2, StartDropDoes, <1>3 DEF Stages, Expired, HandedOff, SlotOf, Latest, Same
<1>8. InStep'
  BY <1>1, <1>2, StartDropDoes DEF InStep, Active, ActiveRow, Latest, OneOpenEach
<1>9. Backed'
  BY <1>1, <1>2, StartDropDoes DEF Backed, ActiveRow, Active, Leaving, SlotOf, Opens, Same
<1> QED
  BY <1>7, <1>8, <1>9

LEMMA DropHolds ==
  ASSUME ~Unsaved, Held, Drop
  PROVE  Stages' /\ InStep' /\ Backed'
<1>1. Typed /\ Typed' /\ Stages /\ InStep /\ Backed
  BY DropDoes DEF Held
<1>2. UNCHANGED <<refs, base, pulls, rows, had>>
  BY DEF Drop
<1>3. ActiveRow(run.k)
  BY <1>1, DropDoes DEF Stages, InStep, Expired, Active, ActiveRow
<1>4. \A j \in Pull : ActiveRow(j) /\ j # run.k => SlotOf(j) # SlotOf(run.k) /\ SlotOf(j) \in Slot
  BY <1>1, <1>3, DropDoes, OwnBranch DEF Typed, TypeOK, SlotOf
<1>7. Stages'
  BY <1>1, <1>2, DropDoes DEF Stages, Expired, HandedOff, SlotOf, Latest, Same
<1>8. InStep'
  BY <1>1, <1>2, DropDoes DEF InStep, Active, ActiveRow, Latest, OneOpenEach
<1>9. Backed'
  BY <1>1, <1>2, DropDoes, <1>3, <1>4 DEF Backed, ActiveRow, Active, Leaving, SlotOf, Opens, Same
<1> QED
  BY <1>7, <1>8, <1>9

LEMMA SaveDroppedHolds ==
  ASSUME ~Unsaved, Held, SaveDropped
  PROVE  Stages' /\ InStep' /\ Backed'
<1>1. Typed /\ Typed' /\ Stages /\ InStep /\ Backed
  BY SaveDroppedDoes DEF Held
<1>2. UNCHANGED <<refs, base, hand, pulls, had>>
  BY DEF SaveDropped
<1>3. run.hs \in [Pull -> Row] /\ rows \in [Pull -> Row] /\ run.k \in Pull
  BY <1>1, SaveDroppedDoes DEF Typed, TypeOK, Local
<1>4. PICK row \in Row : Save(run.k, row) /\ row.state \in {"merged", "expired"}
  BY <1>1, SaveDroppedDoes
<1>6. rows' = [rows EXCEPT ![run.k] = row]
  <2>1. OneOpenEach(Saved(run.k, row))
    BY <1>1, <1>3, <1>4, SaveDroppedDoes DEF InStep, OneOpenEach, Saved, Active, Stages, Expired
  <2> QED
    BY <1>1, <1>3, <1>4, <2>1, Saves
<1>7. Stages'
  BY <1>1, <1>2, SaveDroppedDoes, <1>3, <1>4, <1>6 DEF Stages, Expired, HandedOff, SlotOf, Latest, Same
<1>8. InStep'
  BY <1>1, <1>2, <1>3, <1>4, <1>6, SaveDroppedDoes, RowLeaves DEF SaveDropped, Deciding, Answered, Stages, Expired
<1>9. Backed'
  BY <1>1, <1>2, SaveDroppedDoes, <1>3, <1>4, <1>6 DEF Backed, ActiveRow, Active, Leaving, SlotOf, Opens, Same
<1> QED
  BY <1>7, <1>8, <1>9

LEMMA StartResetHolds ==
  ASSUME ~Unsaved, Held, NEW k \in Pull, StartReset(k)
  PROVE  Stages' /\ InStep' /\ Backed'
<1>1. Typed /\ Typed' /\ Stages /\ InStep /\ Backed
  BY StartResetDoes DEF Held
<1>2. UNCHANGED <<refs, base, hand, pulls, rows, had>>
  BY DEF StartReset
<1>7. Stages'
  BY <1>1, <1>2, StartResetDoes DEF Stages, Expired, HandedOff, SlotOf, Latest, Same, StartReset, Answered
<1>8. InStep'
  BY <1>1, <1>2, StartResetDoes DEF InStep, Active, ActiveRow, Latest, OneOpenEach
<1>9. Backed'
  BY <1>1, <1>2, StartResetDoes DEF Backed, ActiveRow, Active, Leaving, SlotOf, Opens, Same
<1> QED
  BY <1>7, <1>8, <1>9

LEMMA ResetReplicaHolds ==
  ASSUME ~Unsaved, Held, NEW n \in Replica, ResetReplica(n)
  PROVE  Stages' /\ InStep' /\ Backed'
<1>1. Typed /\ Typed' /\ Stages /\ InStep /\ Backed
  BY ResetReplicaDoes DEF Held
<1>2. UNCHANGED <<base, hand, pulls, rows, had>>
  BY DEF ResetReplica
<1>7. Stages'
  BY <1>1, <1>2, ResetReplicaDoes DEF Stages, Expired, HandedOff, SlotOf, Latest, Same
<1>8. InStep'
  BY <1>1, <1>2, ResetReplicaDoes DEF InStep, Active, ActiveRow, Latest, OneOpenEach
<1>9. Backed'
  BY <1>1, <1>2, ResetReplicaDoes DEF Backed, ActiveRow, Active, Leaving, SlotOf, Opens, Same
<1> QED
  BY <1>7, <1>8, <1>9

LEMMA SaveResetHolds ==
  ASSUME ~Unsaved, Held, SaveReset
  PROVE  Stages' /\ InStep' /\ Backed'
<1>1. Typed /\ Typed' /\ Stages /\ InStep /\ Backed
  BY SaveResetDoes DEF Held
<1>2. UNCHANGED <<refs, base, hand, pulls, had>>
  BY DEF SaveReset
<1>3. run.hs \in [Pull -> Row] /\ rows \in [Pull -> Row] /\ run.k \in Pull
  BY <1>1, SaveResetDoes DEF Typed, TypeOK, Local
<1>4. PICK row \in Row : Save(run.k, row) /\ row.state \in {"kept_primary", run.hs[run.k].state}
        /\ row.sha = run.hs[run.k].sha /\ row.over = run.hs[run.k].over
        /\ run'.hs = [run.hs EXCEPT ![run.k] = row]
  BY <1>1, SaveResetDoes
<1>6. rows' = [rows EXCEPT ![run.k] = row]
  <2>1. OneOpenEach(Saved(run.k, row))
    BY <1>1, <1>3, <1>4, SaveResetDoes DEF InStep, OneOpenEach, Saved, Active, Stages, Expired
  <2> QED
    BY <1>1, <1>3, <1>4, <2>1, Saves
<1>7. Stages'
  BY <1>1, <1>2, SaveResetDoes, <1>3, <1>4, <1>6 DEF Stages, Expired, HandedOff, SlotOf, Latest, Same
<1>8. InStep'
  BY <1>1, <1>2, SaveResetDoes, <1>3, <1>4, <1>6 DEF InStep, Active, ActiveRow, Latest, OneOpenEach, Stages
<1>9. Backed'
  BY <1>1, <1>2, SaveResetDoes, <1>3, <1>4, <1>6 DEF Backed, ActiveRow, Active, Leaving, SlotOf, Opens, Same, Stages, InStep
<1> QED
  BY <1>7, <1>8, <1>9

LEMMA FollowHolds ==
  ASSUME ~Unsaved, Held, NEW n \in Replica, Follow(n)
  PROVE  Stages' /\ InStep' /\ Backed'
<1>1. Typed /\ Typed' /\ Stages /\ InStep /\ Backed
  BY FollowDoes DEF Held
<1>2. UNCHANGED <<hand, pulls, rows, had>>
  BY DEF Follow
<1>7. Stages'
  BY <1>1, <1>2, FollowDoes DEF Stages, Expired, HandedOff, SlotOf, Latest, Same
<1>8. InStep'
  BY <1>1, <1>2, FollowDoes DEF InStep, Active, ActiveRow, Latest, OneOpenEach
<1>9. Backed'
  BY <1>1, <1>2, FollowDoes DEF Backed, ActiveRow, Active, Leaving, SlotOf, Opens, Same
<1> QED
  BY <1>7, <1>8, <1>9

LEMMA TakeOverHolds ==
  ASSUME ~Unsaved, Held, NEW n \in Replica, TakeOver(n)
  PROVE  Stages' /\ InStep' /\ Backed'
<1>1. Typed /\ Typed' /\ Stages /\ InStep /\ Backed
  BY TakeOverDoes DEF Held
<1>2. UNCHANGED <<base, hand, pulls, rows>>
  BY DEF TakeOver
<1>7. Stages'
  BY <1>1, <1>2, TakeOverDoes DEF Stages, Expired, HandedOff, SlotOf, Latest, Same
<1>8. InStep'
  BY <1>1, <1>2, TakeOverDoes DEF InStep, Active, ActiveRow, Latest, OneOpenEach
<1>9. Backed'
  BY <1>1, <1>2, TakeOverDoes DEF Backed, ActiveRow, Active, Leaving, SlotOf, Opens, Same
<1> QED
  BY <1>7, <1>8, <1>9

LEMMA DifferHolds ==
  ASSUME ~Unsaved, Held, NEW n \in Replica, Differ(n)
  PROVE  Stages' /\ InStep' /\ Backed'
<1>1. Typed /\ Typed' /\ Stages /\ InStep /\ Backed
  BY DifferDoes DEF Held
<1>2. UNCHANGED <<refs, base, hand, pulls, rows, had>>
  BY DEF Differ
<1>7. Stages'
  BY <1>1, <1>2, DifferDoes DEF Stages, Expired, HandedOff, SlotOf, Latest, Same
<1>8. InStep'
  BY <1>1, <1>2, DifferDoes DEF InStep, Active, ActiveRow, Latest, OneOpenEach
<1>9. Backed'
  BY <1>1, <1>2, DifferDoes DEF Backed, ActiveRow, Active, Leaving, SlotOf, Opens, Same
<1> QED
  BY <1>7, <1>8, <1>9

LEMMA SkipHolds ==
  ASSUME ~Unsaved, Held, NEW n \in Replica, Skip(n)
  PROVE  Stages' /\ InStep' /\ Backed'
<1>1. Typed /\ Typed' /\ Stages /\ InStep /\ Backed
  BY SkipDoes DEF Held
<1>2. UNCHANGED <<refs, base, hand, pulls, rows, had>>
  BY DEF Skip
<1>7. Stages'
  BY <1>1, <1>2, SkipDoes DEF Stages, Expired, HandedOff, SlotOf, Latest, Same
<1>8. InStep'
  BY <1>1, <1>2, SkipDoes DEF InStep, Active, ActiveRow, Latest, OneOpenEach
<1>9. Backed'
  BY <1>1, <1>2, SkipDoes DEF Backed, ActiveRow, Active, Leaving, SlotOf, Opens, Same
<1> QED
  BY <1>7, <1>8, <1>9

LEMMA BeginHolds ==
  ASSUME ~Unsaved, Held, Begin
  PROVE  Stages' /\ InStep' /\ Backed'
<1>1. Typed /\ Typed' /\ Stages /\ InStep /\ Backed
  BY BeginDoes DEF Held
<1>2. UNCHANGED <<refs, base, hand, pulls, rows, had>>
  BY DEF Begin
<1>3. rows \in [Pull -> Row] /\ pulls \in [Pull -> PullRequests]
  BY <1>1 DEF Typed, TypeOK, PullRequests, PullStates
<1>4. \A k \in Pull : SlotOf(k) \in Slot /\ (hand[SlotOf(k)] = None => History(hand[SlotOf(k)]) = {})
  BY <1>3 DEF PullRequests, SlotOf, History
<1>7. Stages'
  BY <1>1, <1>2, BeginDoes, <1>3 DEF Stages, Expired, HandedOff, SlotOf, Latest, Same
<1>8. InStep'
  BY <1>1, <1>2, BeginDoes, <1>3 DEF InStep, Active, ActiveRow, Latest, OneOpenEach, NoRow
<1>9. Backed'
  BY <1>1, <1>2, BeginDoes, <1>3, <1>4 DEF Backed, ActiveRow, Active, Leaving, SlotOf, Opens, Same
<1> QED
  BY <1>7, <1>8, <1>9

LEMMA StillOpenHolds ==
  ASSUME ~Unsaved, Held, NEW v \in Commit, StillOpen(v)
  PROVE  Stages' /\ InStep' /\ Backed'
<1>1. Typed /\ Typed' /\ Stages /\ InStep /\ Backed
  BY StillOpenDoes DEF Held
<1>2. UNCHANGED <<refs, base, hand, pulls, had>>
  BY DEF StillOpen
<1>3. PICK k \in HandedOff(v), row \in Row :
        /\ row.state = run.hs[k].state
        /\ row.sha = run.hs[k].sha /\ row.over = run.hs[k].over
        /\ (row = run.hs[k] /\ UNCHANGED rows) \/ Save(k, row)
        /\ run'.hs = [run.hs EXCEPT ![k] = row]
  BY <1>1, StillOpenDoes
<1>4. k \in Pull /\ run.hs[k].state = "open"
  BY <1>3 DEF HandedOff
<1>5. run.hs \in [Pull -> Row] /\ rows \in [Pull -> Row]
  BY <1>1 DEF Typed, TypeOK, Local
<1>6. rows' = [rows EXCEPT ![k] = row] \/ (UNCHANGED rows /\ run'.hs = run.hs)
  <2>1. OneOpenEach(Saved(k, row))
    BY <1>1, <1>3, <1>4, <1>5 DEF InStep, OneOpenEach, Saved, Active
  <2> QED
    BY <1>1, <1>3, <1>4, <1>5, <2>1, Saves
<1>7. Stages'
  <2>1. run'.at = "run" /\ run'.todo = run.todo /\ run'.diverged = Others(v)
    BY <1>1, StillOpenDoes
  <2>2. run.todo # {} => \A n \in Replica : run.diverged[n] = None
    BY <1>1 DEF Stages
  <2>3. run.todo # {} => \A n \in Replica : run'.diverged[n] = None
    BY <2>1, <2>2 DEF Others
  <2> QED
    BY <2>1, <2>3 DEF Stages
<1>8. InStep'
  BY <1>1, <1>2, StillOpenDoes, <1>3, <1>4, <1>5, <1>6 DEF InStep, Active, ActiveRow, Latest, OneOpenEach
<1>9. Backed'
  BY <1>1, <1>2, StillOpenDoes, <1>3, <1>4, <1>5, <1>6 DEF Backed, ActiveRow, Active, Leaving, SlotOf, Opens, Same, InStep
<1> QED
  BY <1>7, <1>8, <1>9

LEMMA ExtendHolds ==
  ASSUME ~Unsaved, Held, NEW v \in Commit, Extend(v)
  PROVE  Stages' /\ InStep' /\ Backed'
<1>1. Typed /\ Typed' /\ Stages /\ InStep /\ Backed
  BY ExtendDoes DEF Held
<1>2. UNCHANGED <<refs, base, pulls, rows, had>>
  BY DEF Extend
<1> DEFINE k == First(Extensible(v))
<1>3. /\ k \in Pull /\ run.hs[k].state = "open" /\ run.hs[k].sha \in Reach[v]
      /\ hand' \in {hand, Extended(k, v)} /\ SlotOf(k) \in Slot
  <2>1. k \in Extensible(v) /\ hand' \in {hand, Extended(k, v)}
    BY <1>1, ExtendDoes
  <2> QED
    BY <1>1, <2>1 DEF Extensible, Typed, TypeOK, SlotOf
<1>4. /\ run.at = "run" /\ Same(run') /\ run'.todo = run.todo /\ run'.hs = run.hs /\ run'.v = v
      /\ \/ run'.at = "extended" /\ run'.k = k /\ hand'[SlotOf(k)] = v /\ HandedOff(v) = {}
         \/ run'.at = "open"
  BY <1>1, ExtendDoes
<1> HIDE DEF k
<1>5. \A s \in Slot : History(hand[s]) \subseteq History(hand'[s])
  <2>1. hand \in [Slot -> Value]
    BY <1>1 DEF Typed, TypeOK
  <2>2. \A x \in {run.hs[k].sha, v} : History(x) \subseteq History(v)
    BY <1>3, RefAssumption DEF History
  <2> QED
    BY <1>3, <2>1, <2>2 DEF Extended, SlotOf
<1>6. v \in History(v)
  BY RefAssumption DEF History
<1>7. Stages'
  BY <1>1, <1>2, <1>3, <1>4 DEF Stages, Expired, HandedOff, SlotOf, Latest, Same
<1>8. InStep'
  BY <1>1, <1>2, <1>4 DEF InStep, Active, ActiveRow, Latest, OneOpenEach
<1>9. Backed'
  <2>1. \A j \in Pull : SlotOf(j) \in Slot
    BY <1>1 DEF Typed, TypeOK, SlotOf
  <2> QED
    BY <1>1, <1>2, <1>3, <1>4, <1>5, <1>6, <2>1 DEF Backed, ActiveRow, Active, Leaving, SlotOf, Opens, Same
<1> QED
  BY <1>7, <1>8, <1>9

LEMMA SaveExtendedHolds ==
  ASSUME ~Unsaved, Held, SaveExtended
  PROVE  Stages' /\ InStep' /\ Backed'
<1>1. Typed /\ Typed' /\ Stages /\ InStep /\ Backed
  BY SaveExtendedDoes DEF Held
<1>2. UNCHANGED <<refs, base, hand, pulls, had>>
  BY DEF SaveExtended
<1>3. PICK row \in Row :
        /\ row.state = run.hs[run.k].state
        /\ row.sha = run.v /\ row.over = run.hs[run.k].over
        /\ Save(run.k, row) /\ run'.hs = [run.hs EXCEPT ![run.k] = row]
  BY <1>1, SaveExtendedDoes
<1>4. run.k \in Pull /\ run.hs[run.k].state = "open" /\ HandedOff(run.v) = {}
  BY <1>1, SaveExtendedDoes DEF Stages
<1>5. run.hs \in [Pull -> Row] /\ rows \in [Pull -> Row]
  BY <1>1 DEF Typed, TypeOK, Local
<1>6. rows' = [rows EXCEPT ![run.k] = row]
  <2>1. \A j \in Pull : rows[j].state = "open" => rows[j].sha # run.v
    BY <1>1, <1>4, SaveExtendedDoes DEF InStep, Active, ActiveRow, HandedOff
  <2>2. OneOpenEach(Saved(run.k, row))
    BY <1>1, <1>3, <1>4, <1>5, <2>1 DEF InStep, OneOpenEach, Saved
  <2> QED
    BY <1>1, <1>3, <1>4, <2>2, Saves
<1>7. Stages'
  <2>1. run'.at = "run" /\ run'.todo = run.todo /\ run'.diverged = Others(run.v)
    BY <1>1, SaveExtendedDoes
  <2>2. run.todo # {} => \A n \in Replica : run.diverged[n] = None
    BY <1>1 DEF Stages
  <2>3. run.todo # {} => \A n \in Replica : run'.diverged[n] = None
    BY <2>1, <2>2 DEF Others
  <2> QED
    BY <2>1, <2>3 DEF Stages
<1>8. InStep'
  <2>1. OneOpenEach(rows')
    <3>1. \A j \in Pull : rows[j].state = "open" => rows[j].sha # run.v
      BY <1>1, <1>4, SaveExtendedDoes DEF InStep, Active, ActiveRow, HandedOff
    <3> QED
      BY <1>1, <1>3, <1>4, <1>5, <1>6, <3>1 DEF InStep, OneOpenEach
  <2> QED
    BY <1>1, <1>2, <1>3, <1>4, <1>5, <1>6, <2>1, SaveExtendedDoes DEF InStep, Active, ActiveRow, Latest
<1>9. Backed'
  BY <1>1, <1>2, SaveExtendedDoes, <1>3, <1>4, <1>5, <1>6 DEF Backed, ActiveRow, Active, Leaving, SlotOf, Opens, Same, InStep
<1> QED
  BY <1>7, <1>8, <1>9

LEMMA NoMoreHolds ==
  ASSUME ~Unsaved, Held, NEW v \in Commit, NoMore(v)
  PROVE  Stages' /\ InStep' /\ Backed'
<1>1. Typed /\ Typed' /\ Stages /\ InStep /\ Backed
  BY NoMoreDoes DEF Held
<1>2. UNCHANGED <<refs, base, hand, pulls, rows, had>>
  BY DEF NoMore
<1>3. run.at \in {"run", "open"}
  BY <1>1, NoMoreDoes DEF Opening, HandingOff
<1>7. Stages'
  BY <1>1, <1>2, NoMoreDoes DEF Stages, Expired, HandedOff, SlotOf, Latest, Same, Others
<1>8. InStep'
  BY <1>1, <1>2, NoMoreDoes, <1>3 DEF InStep, Active, ActiveRow, Latest, OneOpenEach
<1>9. Backed'
  BY <1>1, <1>2, NoMoreDoes, <1>3 DEF Backed, ActiveRow, Active, Leaving, SlotOf, Opens, Same
<1> QED
  BY <1>7, <1>8, <1>9

LEMMA OpenBranchHolds ==
  ASSUME ~Unsaved, Held, NEW v \in Commit, OpenBranch(v)
  PROVE  Stages' /\ InStep' /\ Backed'
<1>1. Typed /\ Typed' /\ Stages /\ InStep /\ Backed
  BY OpenBranchDoes DEF Held
<1>2. UNCHANGED <<refs, base, pulls, rows, had>>
  BY DEF OpenBranch
<1> DEFINE s == FreeSlot(Group(v))
<1>3. /\ s \in Slot /\ run.listed[s] = None /\ run.at \in {"run", "open"}
      /\ hand' \in {hand, Opened(s, v)} /\ run'.todo = run.todo /\ run'.hs = run.hs
      /\ \/ /\ run'.at = "pull" /\ run'.v = v /\ run'.slot = s /\ hand'[s] = v
            /\ run'.listed = [run.listed EXCEPT ![s] = v] /\ run'.diverged = run.diverged
         \/ run'.at = "run" /\ run'.listed = run.listed /\ run'.diverged = Others(v)
  BY <1>1, OpenBranchDoes DEF Opening, HandingOff
<1> HIDE DEF s
<1>4. \A x \in Slot : History(hand[x]) \subseteq History(hand'[x])
  <2>1. hand \in [Slot -> Value]
    BY <1>1 DEF Typed, TypeOK
  <2> QED
    BY <1>3, <2>1 DEF Opened, History
<1>5. v \in History(v) /\ v # None
  BY RefAssumption DEF History
<1>6. \A j \in Pull : SlotOf(j) \in Slot /\ (ActiveRow(j) => SlotOf(j) # s)
  BY <1>1, <1>3 DEF Typed, TypeOK, SlotOf, Backed, Leaving
<1>7. Stages'
  <2>1. run.todo # {} => \A n \in Replica : run'.diverged[n] = None
    BY <1>1, <1>3 DEF Others, Stages
  <2> QED
    BY <1>3, <2>1 DEF Stages
<1>8. InStep'
  BY <1>1, <1>2, <1>3 DEF InStep, Active, ActiveRow, Latest, OneOpenEach
<1>9. Backed'
  <2>1. run.listed \in [Slot -> Value]
    BY <1>1 DEF Typed, TypeOK, Local
  <2>2. \A j \in Pull : ActiveRow(j) => run'.listed[SlotOf(j)] = run.listed[SlotOf(j)]
    BY <1>3, <1>6, <2>1
  <2>3. \A j \in Pull : ActiveRow(j)' = ActiveRow(j) /\ SlotOf(j)' = SlotOf(j) /\ rows'[j] = rows[j]
    BY <1>2 DEF ActiveRow, SlotOf
  <2>4. run'.at = "pull" => run'.v \in History(hand'[run'.slot]) /\ run'.listed[run'.slot] # None
    BY <1>3, <1>5, <2>1
  <2>5. \A j \in Pull : ActiveRow(j) =>
          rows[j].sha \in History(hand'[SlotOf(j)]) /\ run'.listed[SlotOf(j)] # None
    BY <1>1, <1>3, <1>4, <1>6, <2>2 DEF Backed, Leaving
  <2> QED
    BY <1>3, <1>6, <2>3, <2>4, <2>5 DEF Backed, Leaving, Opens
<1> QED
  BY <1>7, <1>8, <1>9

LEMMA OpenPullHolds ==
  ASSUME ~Unsaved, Held, OpenPull
  PROVE  Stages' /\ InStep' /\ Backed'
<1>1. Typed /\ Typed' /\ Stages /\ InStep /\ Backed
  BY OpenPullDoes DEF Held
<1>2. UNCHANGED <<refs, base, hand, rows, had>>
  BY DEF OpenPull
<1> DEFINE k == First(Unused)
<1>3. /\ run.at = "pull" /\ run'.slot = run.slot /\ run'.v = run.v
      /\ Same(run') /\ run'.todo = run.todo /\ run'.hs = run.hs
      /\ \/ UNCHANGED pulls /\ run'.at = "undo"
         \/ /\ pulls' = NewPull /\ k \in Unused /\ \A j \in Unused : k <= j
            /\ run'.at = "undo" \/ (run'.at = "insert" /\ run'.k = k)
  BY <1>1, OpenPullDoes
<1>4. pulls \in [Pull -> PullRequests] /\ run.slot \in Slot
  BY <1>1 DEF Typed, TypeOK, Local, PullRequests, PullStates
<1>5. CASE pulls' = pulls /\ run'.at = "undo"
  <2>1. Stages' /\ InStep'
    BY <1>1, <1>2, <1>3, <1>5 DEF Stages, InStep, Active, ActiveRow, Latest, OneOpenEach, Same
  <2>2. Backed'
    BY <1>1, <1>2, <1>3, <1>5 DEF Backed, ActiveRow, Leaving, Opens, SlotOf, Same
  <2> QED
    BY <2>1, <2>2
<1>6. CASE /\ pulls' = NewPull /\ k \in Unused /\ \A j \in Unused : k <= j
           /\ run'.at = "undo" \/ (run'.at = "insert" /\ run'.k = k)
  <2>1. /\ pulls' = [pulls EXCEPT ![k] = [state |-> "open", slot |-> run.slot]]
        /\ k \in Pull /\ pulls[k].state = "none"
    BY <1>6 DEF NewPull, Unused
  <2>2. pulls'[k].state = "open" /\ pulls'[k].slot = run.slot
        /\ \A j \in Pull : j # k => pulls'[j] = pulls[j]
    BY <1>4, <2>1
  <2>3. \A j \in Pull : j < k => pulls[j].state # "none"
    BY <1>6 DEF Unused, Pull
  <2>4. \A j \in Pull : j > k => pulls[j].state = "none"
    BY <1>1, <2>1 DEF InStep
  <2>5. ~ActiveRow(k) /\ rows[k].state = "none"
    BY <1>1, <2>1 DEF InStep, ActiveRow, Active
  <2>6. \A j \in Pull : ActiveRow(j) => j # k /\ SlotOf(j) # run.slot
    BY <1>1, <1>3, <2>5 DEF Backed, Opens
  <2> HIDE DEF k
  <2>7. Stages'
    <3>1. run'.at = "insert" => run'.k = k
      BY <1>6
    <3>2. \A j \in Pull : j > k => pulls'[j].state = "none"
      BY <2>1, <2>2, <2>4 DEF Pull
    <3> QED
      BY <1>1, <1>2, <1>3, <1>6, <2>2, <2>5, <3>1, <3>2 DEF Stages, SlotOf, Same, Latest
  <2>8. InStep'
    <3>1. \A i, j \in Pull : i < j /\ pulls'[j].state # "none" => pulls'[i].state # "none"
      BY <1>1, <2>2, <2>3 DEF InStep
    <3>2. \A j \in Pull : ActiveRow(j) => Latest(j)'
      BY <1>1, <2>2, <2>6 DEF InStep, Latest, SlotOf
    <3>3. \A j \in Pull : pulls[j].state # "none" => pulls'[j].state # "none"
      BY <2>1, <2>2
    <3> QED
      BY <1>1, <1>2, <1>3, <1>6, <3>1, <3>2, <3>3 DEF InStep, ActiveRow, OneOpenEach
  <2>9. Backed'
    <3>1. \A j \in Pull : ActiveRow(j) => SlotOf(j)' = SlotOf(j)
      BY <2>2, <2>6 DEF SlotOf
    <3> QED
      BY <1>1, <1>2, <1>3, <1>6, <2>6, <3>1 DEF Backed, ActiveRow, Leaving, Opens, Same
  <2> QED
    BY <2>7, <2>8, <2>9
<1> QED
  BY <1>3, <1>5, <1>6

LEMMA UndoBranchHolds ==
  ASSUME ~Unsaved, Held, UndoBranch
  PROVE  Stages' /\ InStep' /\ Backed'
<1>1. Typed /\ Typed' /\ Stages /\ InStep /\ Backed
  BY UndoBranchDoes DEF Held
<1>2. UNCHANGED <<refs, base, pulls, rows, had>>
  BY DEF UndoBranch
<1>3. /\ run.at = "undo" /\ run'.at = "run" /\ run.slot \in Slot
      /\ hand' \in {hand, Undone} /\ run'.listed = [run.listed EXCEPT ![run.slot] = None]
      /\ run'.diverged = Others(run.v) /\ run'.todo = run.todo /\ run'.hs = run.hs
  BY <1>1, UndoBranchDoes
<1>4. \A j \in Pull : ActiveRow(j) => SlotOf(j) \in Slot /\ SlotOf(j) # run.slot
  BY <1>1, <1>3 DEF Backed, Opens, Typed, TypeOK, SlotOf
<1>5. \A j \in Pull : ActiveRow(j) =>
        hand'[SlotOf(j)] = hand[SlotOf(j)] /\ run'.listed[SlotOf(j)] = run.listed[SlotOf(j)]
  BY <1>1, <1>3, <1>4 DEF Typed, TypeOK, Local, Undone
<1>7. Stages'
  <2>1. run.todo # {} => \A n \in Replica : run'.diverged[n] = None
    BY <1>1, <1>3 DEF Others, Stages
  <2> QED
    BY <1>3, <2>1 DEF Stages
<1>8. InStep'
  BY <1>1, <1>2, <1>3 DEF InStep, Active, ActiveRow, Latest, OneOpenEach
<1>9. Backed'
  BY <1>1, <1>2, <1>3, <1>5 DEF Backed, ActiveRow, Active, Leaving, SlotOf, Opens
<1> QED
  BY <1>7, <1>8, <1>9

LEMMA InsertHolds ==
  ASSUME ~Unsaved, Held, Insert
  PROVE  Stages' /\ InStep' /\ Backed'
<1>1. Typed /\ Typed' /\ Stages /\ InStep /\ Backed
  BY InsertDoes DEF Held
<1>2. UNCHANGED <<refs, base, hand, pulls, had>>
  BY DEF Insert
<1> DEFINE row == [state |-> "open", sha |-> run.v, nodes |-> Group(run.v), over |-> FALSE]
<1>3. /\ run.at = "insert" /\ run'.at = "run" /\ run.k \in Pull /\ run'.listed = run.listed
      /\ run'.diverged = Others(run.v) /\ run'.todo = run.todo /\ row \in Row
      /\ \/ UNCHANGED rows /\ run'.hs = run.hs
         \/ /\ rows' = [rows EXCEPT ![run.k] = row] /\ OneOpenEach(rows')
            /\ run'.hs = [run.hs EXCEPT ![run.k] = row]
  BY <1>1, InsertDoes
<1>4. row.state = "open" /\ row.sha = run.v /\ ~row.over
  OBVIOUS
<1> HIDE DEF row
<1>5. run.hs \in [Pull -> Row] /\ rows \in [Pull -> Row]
  BY <1>1 DEF Typed, TypeOK, Local
<1>6. /\ pulls[run.k].state # "none" /\ SlotOf(run.k) = run.slot /\ Latest(run.k)
      /\ run.v \in History(hand[run.slot]) /\ run.listed[run.slot] # None
  BY <1>1, <1>3 DEF Stages, Backed
<1>7. Stages'
  <2>1. run.todo # {} => \A n \in Replica : run'.diverged[n] = None
    BY <1>1, <1>3 DEF Others, Stages
  <2> QED
    BY <1>3, <2>1 DEF Stages
<1>8. InStep'
  <2>1. CASE UNCHANGED rows /\ run'.hs = run.hs
    BY <1>1, <1>2, <1>3, <2>1 DEF InStep, Active, ActiveRow, Latest, OneOpenEach
  <2>2. CASE /\ rows' = [rows EXCEPT ![run.k] = row] /\ OneOpenEach(rows')
             /\ run'.hs = [run.hs EXCEPT ![run.k] = row]
    <3>1. /\ rows'[run.k] = row /\ run'.hs[run.k] = row
          /\ \A j \in Pull : j # run.k => rows'[j] = rows[j] /\ run'.hs[j] = run.hs[j]
      BY <1>3, <1>5, <2>2
    <3> QED
      BY <1>1, <1>2, <1>3, <1>4, <1>6, <2>2, <3>1 DEF InStep, Active, ActiveRow, Latest
  <2> QED
    BY <1>3, <2>1, <2>2
<1>9. Backed'
  <2>1. \A j \in Pull : ActiveRow(j)' => (ActiveRow(j) /\ rows'[j] = rows[j])
          \/ (j = run.k /\ rows'[j].sha = run.v)
    BY <1>3, <1>4, <1>5 DEF ActiveRow
  <2> QED
    BY <1>1, <1>2, <1>3, <1>6, <2>1 DEF Backed, Leaving, SlotOf, Opens
<1> QED
  BY <1>7, <1>8, <1>9

\* A run that ends, or a controller that dies, leaves what is on the nodes and in
\* the table as it is.
LEMMA StopHolds ==
  ASSUME Held, End \/ Crash, run.at # "dropped"
  PROVE  Stages' /\ InStep' /\ Backed'
<1>1. Typed /\ Typed' /\ Stages /\ InStep /\ Backed /\ UNCHANGED <<refs, base, hand, pulls, rows, had>>
  BY StopDoes DEF Held
<1>2. /\ run'.at = "idle" /\ run'.todo = {} /\ run'.diverged = [n \in Replica |-> None]
      /\ run'.hs = [k \in Pull |-> NoRow]
  BY StopDoes DEF Idle, Held
<1>3. Stages'
  BY <1>2 DEF Stages
<1>4. InStep'
  BY <1>1, <1>2 DEF InStep, ActiveRow, Latest, OneOpenEach, NoRow
<1>5. Backed'
  BY <1>1, <1>2 DEF Backed, ActiveRow, Leaving, Opens, SlotOf
<1> QED
  BY <1>3, <1>4, <1>5

LEMMA WriteHolds ==
  ASSUME ~Unsaved, Held, NEW n \in Node, NEW v \in Pushed[n], Write(n, v)
  PROVE  Stages' /\ InStep' /\ Backed'
<1>1. Typed /\ Typed' /\ Stages /\ InStep /\ Backed
  BY WriteTyped DEF Held
<1>2. UNCHANGED <<base, hand, pulls, rows, run>>
  BY DEF Write
<1>7. Stages'
  BY <1>1, <1>2, WriteTyped DEF Stages, Expired, HandedOff, SlotOf, Latest, Same, Active
<1>8. InStep'
  BY <1>1, <1>2, WriteTyped DEF InStep, Active, ActiveRow, Latest, OneOpenEach
<1>9. Backed'
  BY <1>1, <1>2, WriteTyped DEF Backed, ActiveRow, Active, Leaving, SlotOf, Opens, Same, Latest
<1> QED
  BY <1>7, <1>8, <1>9

\* What the owner makes of a pull request moves no branch and no row.
LEMMA StateMoves ==
  ASSUME Typed, Stages, InStep, Backed, NEW k \in Pull, NEW d \in PullStates \ {"none"},
         pulls' = [pulls EXCEPT ![k].state = d], pulls[k].state \in {"open", "closed"},
         UNCHANGED <<rows, run, hand>>
  PROVE  Stages' /\ InStep' /\ Backed'
<1>1. pulls \in [Pull -> PullRequests] /\ pulls[k] \in PullRequests
  BY DEF Typed, TypeOK, PullRequests, PullStates
<1>2. /\ pulls'[k].slot = pulls[k].slot /\ pulls'[k].state = d
      /\ \A j \in Pull : j # k => pulls'[j] = pulls[j]
  <2>1. PICK old \in PullRequests : old = pulls[k]
    BY <1>1
  <2>2. pulls' = [pulls EXCEPT ![k] = [old EXCEPT !.state = d]]
    BY <2>1
  <2>3. [old EXCEPT !.state = d].slot = old.slot /\ [old EXCEPT !.state = d].state = d
    BY DEF PullRequests
  <2> QED
    BY <1>1, <2>1, <2>2, <2>3
<1>3. \A j \in Pull : /\ pulls'[j].slot = pulls[j].slot
                      /\ (pulls'[j].state = "none") <=> (pulls[j].state = "none")
                      /\ pulls[j].state = "merged" => pulls'[j].state = "merged"
  BY <1>2
<1>4. run.at \in {"drop", "dropped", "extended", "insert"} => run.k \in Pull
  BY DEF Typed, TypeOK, Local
<1>5. \A j \in Pull : Latest(j)' <=> Latest(j)
  BY <1>3 DEF Latest
<1>6. Stages'
  BY <1>3, <1>4, <1>5 DEF Stages, Expired, HandedOff, SlotOf, Latest
<1>7. InStep'
  BY <1>3, <1>5 DEF InStep, ActiveRow, Active, OneOpenEach
<1>8. Backed'
  BY <1>3, <1>4 DEF Backed, ActiveRow, Leaving, SlotOf, Opens
<1> QED
  BY <1>6, <1>7, <1>8

LEMMA MergeHolds ==
  ASSUME Held, NEW k \in Pull, NEW m \in Commit, Merge(k, m)
  PROVE  Stages' /\ InStep' /\ Backed'
<1>1. /\ pulls[k].state = "open" /\ pulls' = [pulls EXCEPT ![k].state = "merged"]
      /\ UNCHANGED <<rows, run, hand>>
  BY DEF Merge
<1> QED
  BY <1>1, StateMoves DEF Held, PullStates

LEMMA DecideHolds ==
  ASSUME Held, NEW k \in Pull, Decide(k)
  PROVE  Stages' /\ InStep' /\ Backed'
<1>1. /\ pulls[k].state \in {"open", "closed"} /\ UNCHANGED <<rows, run, hand>>
      /\ \E d \in {"open", "closed", "deleted"} : pulls' = [pulls EXCEPT ![k].state = d]
  BY DecideTyped DEF Decide, Held
<1> QED
  BY <1>1, StateMoves DEF Held, PullStates

LEMMA AmendHolds ==
  ASSUME ~Unsaved, Held, NEW k \in Pull, NEW v \in Commit, Amend(k, v)
  PROVE  Stages' /\ InStep' /\ Backed'
<1>1. Typed /\ Typed' /\ Stages /\ InStep /\ Backed
  BY AmendTyped DEF Held
<1>2. UNCHANGED <<refs, base, pulls, rows, run, had>>
  BY DEF Amend
<1>3. SlotOf(k) \in Slot /\ hand \in [Slot -> Value]
  BY <1>1 DEF Typed, TypeOK, SlotOf
<1>4. \A x \in Slot : History(hand[x]) \subseteq History(hand'[x])
  BY <1>3, RefAssumption DEF Amend, SlotOf, History, Value
<1>7. Stages'
  BY <1>1, <1>2 DEF Stages, Expired, HandedOff, SlotOf, Latest
<1>8. InStep'
  BY <1>1, <1>2 DEF InStep, ActiveRow, Latest, OneOpenEach
<1>9. Backed'
  <2>1. \A j \in Pull : SlotOf(j) \in Slot
    BY <1>1 DEF Typed, TypeOK, SlotOf
  <2>2. run.slot \in Slot
    BY <1>1 DEF Typed, TypeOK, Local
  <2>3. run.at = "extended" => run.k \in Pull
    BY <1>1 DEF Typed
  <2> QED
    BY <1>1, <1>2, <1>4, <2>1, <2>2, <2>3 DEF Backed, ActiveRow, Leaving, SlotOf, Opens
<1> QED
  BY <1>7, <1>8, <1>9

LEMMA BackupEndsHolds ==
  ASSUME ~Unsaved, Held, NEW k \in Pull, BackupEnds(k)
  PROVE  Stages' /\ InStep' /\ Backed'
<1>1. Typed /\ Typed' /\ Stages /\ InStep /\ Backed
  BY BackupEndsTyped DEF Held
<1>2. UNCHANGED <<refs, base, hand, pulls, run>>
  BY DEF BackupEnds
<1>3. rows[k].state = "kept_primary" /\ rows' = [rows EXCEPT ![k].over = TRUE] /\ rows \in [Pull -> Row]
  BY <1>1 DEF BackupEnds, Typed, TypeOK
<1>5. /\ rows'[k].over /\ rows'[k].state = rows[k].state /\ rows'[k].sha = rows[k].sha
      /\ \A j \in Pull : j # k => rows'[j] = rows[j]
  <2>1. PICK old \in Row : old = rows[k]
    BY <1>3
  <2>2. rows' = [rows EXCEPT ![k] = [old EXCEPT !.over = TRUE]]
    BY <1>3, <2>1
  <2>3. /\ [old EXCEPT !.over = TRUE].over /\ [old EXCEPT !.over = TRUE].state = old.state
        /\ [old EXCEPT !.over = TRUE].sha = old.sha
    BY DEF Row
  <2> QED
    BY <1>3, <2>1, <2>2, <2>3
<1>4. \A j \in Pull : rows'[j].state = rows[j].state /\ rows'[j].sha = rows[j].sha
  BY <1>5
<1>6. \A j \in Pull : ActiveRow(j)' = ActiveRow(j)
  BY <1>4 DEF ActiveRow, Active
<1>7. Stages'
  <2>1. run.at = "insert" => run.k \in Pull
    BY <1>1 DEF Typed
  <2> QED
    BY <1>1, <1>2, <1>4, <2>1 DEF Stages, Expired, HandedOff, SlotOf, Latest
<1>8. InStep'
  BY <1>1, <1>2, <1>3, <1>4, <1>5, <1>6 DEF InStep, Latest, OneOpenEach
<1>9. Backed'
  BY <1>1, <1>2, <1>4 DEF Backed, ActiveRow, Active, Leaving, SlotOf, Opens
<1> QED
  BY <1>7, <1>8, <1>9

\* No crash comes between the deletion of a branch and the update of its row.
Recorded == run.at = "dropped" => run'.at # "idle"

LEMMA InitHeld == Init => Held
<1> SUFFICES ASSUME Init PROVE Held
  OBVIOUS
<1>1. /\ rows = [k \in Pull |-> NoRow] /\ pulls = [k \in Pull |-> NoPull]
      /\ run.at = "idle" /\ run.todo = {} /\ run.hs = [k \in Pull |-> NoRow]
  BY DEF Init, Idle
<1>2. \A k \in Pull : ~ActiveRow(k) /\ rows[k].state = "none" /\ run.hs[k].state = "none"
  BY <1>1 DEF NoRow, ActiveRow, Active
<1>3. \A k \in Pull : pulls[k].state = "none"
  BY <1>1 DEF NoPull
<1>4. Stages
  BY <1>1 DEF Stages
<1>5. InStep
  BY <1>2, <1>3 DEF InStep, OneOpenEach
<1>6. Backed
  BY <1>1, <1>2 DEF Backed, Opens
<1> QED
  BY <1>4, <1>5, <1>6, InitTyped DEF Held

LEMMA StillHeld == Held /\ UNCHANGED vars => Held'
BY DEF vars, Held, Typed, TypeOK, HasVersion, Group, Stages, InStep, Backed, Expired, HandedOff,
       SlotOf, Latest, ActiveRow, Active, Leaving, Opens, OneOpenEach

LEMMA HeldNext == ~Unsaved /\ Held /\ [Next]_vars /\ Recorded => Held'
<1> SUFFICES ASSUME ~Unsaved, Held, [Next]_vars, Recorded
             PROVE  Stages' /\ InStep' /\ Backed'
  BY TypedNext DEF Held
<1>1. CASE Begin
  BY <1>1, BeginHolds
<1>2. CASE \E k \in Pull : LeaveRow(k) \/ PullGone(k) \/ StartDrop(k) \/ StartReset(k)
  BY <1>2, LeaveRowHolds, PullGoneHolds, StartDropHolds, StartResetHolds
<1>3. CASE Drop \/ SaveDropped \/ SaveReset
  BY <1>3, DropHolds, SaveDroppedHolds, SaveResetHolds
<1>4. CASE \E n \in Replica : ResetReplica(n) \/ Follow(n) \/ TakeOver(n) \/ Differ(n) \/ Skip(n)
  BY <1>4, ResetReplicaHolds, FollowHolds, TakeOverHolds, DifferHolds, SkipHolds
<1>5. CASE \E v \in Commit : StillOpen(v) \/ Extend(v) \/ OpenBranch(v) \/ NoMore(v)
  BY <1>5, StillOpenHolds, ExtendHolds, OpenBranchHolds, NoMoreHolds
<1>6. CASE SaveExtended \/ OpenPull \/ UndoBranch \/ Insert
  BY <1>6, SaveExtendedHolds, OpenPullHolds, UndoBranchHolds, InsertHolds
<1>7. CASE End \/ Crash
  <2>1. run.at # "dropped"
    BY <1>7, StopDoes DEF Held, Recorded, End, Idle
  <2> QED
    BY <1>7, <2>1, StopHolds
<1>8. CASE People
  BY <1>8, WriteHolds, MergeHolds, DecideHolds, AmendHolds DEF People
<1>9. CASE \E k \in Pull : BackupEnds(k)
  BY <1>9, BackupEndsHolds
<1>10. CASE UNCHANGED vars
  BY <1>10, StillHeld DEF Held
<1> QED
  BY <1>1, <1>2, <1>3, <1>4, <1>5, <1>6, <1>7, <1>8, <1>9, <1>10 DEF Next, Work

\* "Keeps the hand-off branch as a backup for BackupFor": once the owner's choice
\* of the primary's version has been recorded, the replicas' version is on the
\* hand-off branch until the time is up, whatever people do to branches and pull
\* requests meanwhile, and however many calls fail.  Two failures are set aside: of an
\* UpdateHandoff, and of the controller between the deletion of a hand-off branch
\* and the update of its row.
THEOREM BackupStays ==
  ASSUME ~Unsaved
  PROVE  Spec /\ [][Recorded]_vars => []BackupKept
<1>1. Held => BackupKept
  <2> SUFFICES ASSUME Held, NEW k \in Pull, rows[k].state = "kept_primary", ~rows[k].over
               PROVE  rows[k].sha \in History(hand[SlotOf(k)])
    BY DEF BackupKept, SlotOf
  <2>1. ActiveRow(k)
    BY DEF ActiveRow, Active
  <2>2. ~Leaving(k)
    BY <2>1 DEF Held, Leaving, Stages, InStep, Expired
  <2> QED
    BY <2>1, <2>2 DEF Held, Backed
<1>2. Held /\ [Next]_vars /\ [Recorded]_vars => Held'
  BY HeldNext, StillHeld
<1> QED
  BY <1>1, <1>2, InitHeld, PTL DEF Spec

-----------------------------------------------------------------------------
(* Each step keeps what a run may take off somewhere else.                  *)

\* Commit x is on a node or a hand-off branch.
There(x) == \/ \E n \in Node : x \in History(refs[n])
            \/ \E s \in Slot : x \in History(hand[s])

\* What a step takes off every node and hand-off branch has been had.
Keeps == \A x : There(x) => x \in had \/ There(x)'

LEMMA Everywhere == \A x : x \in Everything <=> There(x)
<1> DEFINE A == UNION {History(refs[n]) : n \in Node}
           B == UNION {History(hand[s]) : s \in Slot}
<1>1. \A x : x \in A <=> \E n \in Node : x \in History(refs[n])
  OBVIOUS
<1>2. \A x : x \in B <=> \E s \in Slot : x \in History(hand[s])
  OBVIOUS
<1>3. Everything = A \cup B
  BY DEF Everything
<1> HIDE DEF A, B
<1> QED
  BY <1>1, <1>2, <1>3 DEF There

LEMMA KeepsAll == Keeps => Everything \ Everything' \subseteq had
<1>1. \A x : x \in Everything <=> There(x)
  BY Everywhere
<1>2. (\A x : x \in Everything <=> There(x))'
  BY Everywhere, PTL
<1> QED
  BY <1>1, <1>2 DEF Keeps

LEMMA SavedOver ==
  ASSUME Typed, InStep, NEW k \in Pull, NEW row \in Row, Save(k, row),
         Active(row) => run.hs[k].state # "none" /\ (row.over => run.hs[k].over)
  PROVE  \A j \in Pull : ActiveRow(j)' => ActiveRow(j) /\ (rows'[j].over => rows[j].over)
<1>1. rows' = rows \/ rows' = [rows EXCEPT ![k] = row]
  BY DEF Save, Saved
<1>2. Active(row) => ActiveRow(k) /\ (row.over => rows[k].over)
  BY DEF InStep, ActiveRow, Active
<1>3. rows \in [Pull -> Row]
  BY DEF Typed, TypeOK
<1> QED
  BY <1>1, <1>2, <1>3 DEF ActiveRow

\* A step that moves no branch and neither condemns one nor begins to open one.
LEMMA CoveredStill ==
  ASSUME Held, Covered, Held', UNCHANGED <<refs, base, hand, had>>,
         run'.pRef \in {run.pRef, refs[Primary], None},
         \A n \in Replica : run'.diverged[n] \in {run.diverged[n], refs[n], None},
         \A j \in Pull : ActiveRow(j)' => /\ ActiveRow(j) /\ (rows'[j].over => rows[j].over)
                                          /\ SlotOf(j)' = SlotOf(j),
         \A j \in Pull : pulls'[j].state = "merged" => pulls[j].state = "merged",
         Opens' => Opens /\ run'.slot = run.slot,
         run'.at = "insert" => \/ run.at = "insert" /\ run'.k = run.k
                               \/ pulls'[run'.k].state # "merged",
         run'.at = "reset" => \/ run.at = "reset" /\ run'.k = run.k /\ SlotOf(run.k)' = SlotOf(run.k)
                              \/ pulls'[run'.k].state # "merged"
  PROVE  Covered' /\ Keeps
<1>1. \A j \in Pull : ActiveRow(j)' /\ Over(j)' => ActiveRow(j) /\ Over(j) /\ SlotOf(j)' = SlotOf(j)
  BY DEF Over
<1>2. \A s \in Slot : Lasting(s) => Lasting(s)'
  BY <1>1 DEF Lasting, Condemned
<1>3. \A x : OnNode(x)' <=> OnNode(x)
  BY DEF OnNode
<1>4. \A x : Stays(x) => Stays(x)'
  BY <1>2, <1>3 DEF Stays
<1>5. /\ History(refs'[Primary]) \subseteq had' /\ History(run'.pRef) \subseteq had'
      /\ \A n \in Replica : History(base'[n]) \subseteq had'
  BY DEF Covered, History
<1>6. \A n \in Replica : \A x \in History(run'.diverged[n]) : OnNode(x)'
  <2>1. \A n \in Replica : \A x \in History(refs[n]) : OnNode(x)
    BY DEF OnNode, Replica
  <2> QED
    BY <1>3, <2>1 DEF Covered, History
<1>7. \A k \in Pull : ActiveRow(k)' /\ Over(k)' => \A x \in History(hand'[SlotOf(k)']) : Stays(x)'
  BY <1>1, <1>4 DEF Covered
<1>8. run'.at = "insert" /\ pulls'[run'.k].state = "merged"
        => \A x \in History(hand'[run'.slot]) : Stays(x)'
  <2> SUFFICES ASSUME run'.at = "insert", pulls'[run'.k].state = "merged"
               PROVE  \A x \in History(hand'[run'.slot]) : Stays(x)'
    OBVIOUS
  <2>1. run.at = "insert" /\ run'.k = run.k /\ run'.slot = run.slot /\ run.k \in Pull
    BY DEF Opens, Held, Typed
  <2> QED
    BY <1>4, <2>1 DEF Covered
<1>9. run'.at = "reset" /\ pulls'[run'.k].state = "merged"
        => History(hand'[SlotOf(run.k)']) \subseteq had'
  <2> SUFFICES ASSUME run'.at = "reset", pulls'[run'.k].state = "merged"
               PROVE  History(hand'[SlotOf(run.k)']) \subseteq had'
    OBVIOUS
  <2>1. run.at = "reset" /\ run'.k = run.k /\ SlotOf(run.k)' = SlotOf(run.k) /\ run.k \in Pull
    BY DEF Held, Typed, TypeOK, Local
  <2> QED
    BY <2>1 DEF Covered, SlotOf
<1>10. Keeps
  BY DEF Keeps, There
<1> QED
  BY <1>5, <1>6, <1>7, <1>8, <1>9, <1>10 DEF Covered, SlotOf

LEMMA BeginCovers ==
  ASSUME Held, Covered, Held', Begin
  PROVE  Covered' /\ Keeps
<1>1. Typed /\ InStep
  BY DEF Held
<1>2. UNCHANGED <<refs, base, hand, pulls, had, rows>>
  BY DEF Begin
<1>3. /\ run'.at = "run"
      /\ run'.pRef \in {run.pRef, refs[Primary], None}
      /\ \A m \in Replica : run'.diverged[m] \in {run.diverged[m], refs[m], None}
  BY <1>1, BeginDoes DEF Same
<1> QED
  BY <1>2, <1>3, CoveredStill DEF Opens, ActiveRow, SlotOf

LEMMA LeaveRowCovers ==
  ASSUME Held, Covered, Held', NEW k \in Pull, LeaveRow(k)
  PROVE  Covered' /\ Keeps
<1>1. Typed /\ InStep
  BY DEF Held
<1>2. UNCHANGED <<refs, base, hand, pulls, had, rows>>
  BY DEF LeaveRow
<1>3. /\ run'.at = "run"
      /\ run'.pRef \in {run.pRef, refs[Primary], None}
      /\ \A m \in Replica : run'.diverged[m] \in {run.diverged[m], refs[m], None}
  BY <1>1, LeaveRowDoes DEF Same
<1> QED
  BY <1>2, <1>3, CoveredStill DEF Opens, ActiveRow, SlotOf

LEMMA PullGoneCovers ==
  ASSUME Held, Covered, Held', NEW k \in Pull, PullGone(k)
  PROVE  Covered' /\ Keeps
<1>1. Typed /\ InStep
  BY DEF Held
<1>2. UNCHANGED <<refs, base, hand, pulls, had>>
  BY DEF PullGone
<1>3. /\ run'.at = "run"
      /\ run'.pRef \in {run.pRef, refs[Primary], None}
      /\ \A m \in Replica : run'.diverged[m] \in {run.diverged[m], refs[m], None}
  BY <1>1, PullGoneDoes DEF Same
<1>4. \A j \in Pull : ActiveRow(j)' => ActiveRow(j) /\ (rows'[j].over => rows[j].over)
  <2>1. PICK row \in Row : Save(k, row) /\ row.state = "gone"
    BY <1>1, PullGoneDoes
  <2>2. ~Active(row) /\ k \in Pull
    BY <1>1, <2>1, PullGoneDoes DEF Active
  <2> QED
    BY <1>1, <2>1, <2>2, SavedOver
<1> QED
  BY <1>2, <1>3, <1>4, CoveredStill DEF Opens, ActiveRow, SlotOf

LEMMA StartDropCovers ==
  ASSUME Held, Covered, Held', NEW k \in Pull, StartDrop(k)
  PROVE  Covered' /\ Keeps
<1>1. Typed /\ InStep
  BY DEF Held
<1>2. UNCHANGED <<refs, base, hand, pulls, had, rows>>
  BY DEF StartDrop
<1>3. /\ run'.at \in {"drop", "dropped"}
      /\ run'.pRef \in {run.pRef, refs[Primary], None}
      /\ \A m \in Replica : run'.diverged[m] \in {run.diverged[m], refs[m], None}
  BY <1>1, StartDropDoes DEF Same
<1> QED
  BY <1>2, <1>3, CoveredStill DEF Opens, ActiveRow, SlotOf

LEMMA SaveDroppedCovers ==
  ASSUME Held, Covered, Held', SaveDropped
  PROVE  Covered' /\ Keeps
<1>1. Typed /\ InStep
  BY DEF Held
<1>2. UNCHANGED <<refs, base, hand, pulls, had>>
  BY DEF SaveDropped
<1>3. /\ run'.at = "run"
      /\ run'.pRef \in {run.pRef, refs[Primary], None}
      /\ \A m \in Replica : run'.diverged[m] \in {run.diverged[m], refs[m], None}
  BY <1>1, SaveDroppedDoes DEF Same
<1>4. \A j \in Pull : ActiveRow(j)' => ActiveRow(j) /\ (rows'[j].over => rows[j].over)
  <2>1. PICK row \in Row : Save(run.k, row) /\ row.state \in {"merged", "expired"}
    BY <1>1, SaveDroppedDoes
  <2>2. ~Active(row) /\ run.k \in Pull
    BY <1>1, <2>1, SaveDroppedDoes DEF Active
  <2> QED
    BY <1>1, <2>1, <2>2, SavedOver
<1> QED
  BY <1>2, <1>3, <1>4, CoveredStill DEF Opens, ActiveRow, SlotOf

LEMMA StartResetCovers ==
  ASSUME Held, Covered, Held', NEW k \in Pull, StartReset(k)
  PROVE  Covered' /\ Keeps
<1>1. Typed /\ InStep
  BY DEF Held
<1>2. UNCHANGED <<refs, base, hand, pulls, had, rows>>
  BY DEF StartReset
<1>5. pulls[k].state = "closed"
  BY DEF StartReset, Answered
<1>3. /\ run'.at = "reset" /\ run'.k = k /\ pulls[k].state = "closed"
      /\ run'.pRef \in {run.pRef, refs[Primary], None}
      /\ \A m \in Replica : run'.diverged[m] \in {run.diverged[m], refs[m], None}
  BY <1>1, <1>5, StartResetDoes DEF Same
<1> QED
  BY <1>2, <1>3, CoveredStill DEF Opens, ActiveRow, SlotOf

LEMMA SaveResetCovers ==
  ASSUME Held, Covered, Held', SaveReset
  PROVE  Covered' /\ Keeps
<1>1. Typed /\ InStep
  BY DEF Held
<1>2. UNCHANGED <<refs, base, hand, pulls, had>>
  BY Zenon DEF SaveReset
<1>3. /\ run'.at = "run"
      /\ run'.pRef \in {run.pRef, refs[Primary], None}
      /\ \A m \in Replica : run'.diverged[m] \in {run.diverged[m], refs[m], None}
  BY <1>1, SaveResetDoes DEF Same
<1>4. \A j \in Pull : ActiveRow(j)' => ActiveRow(j) /\ (rows'[j].over => rows[j].over)
  <2>1. PICK row \in Row : Save(run.k, row) /\ row.over = run.hs[run.k].over
    BY <1>1, SaveResetDoes
  <2>2. run.hs[run.k].state # "none" /\ run.k \in Pull
    BY <1>1, SaveResetDoes DEF Held, Stages
  <2> QED
    BY <1>1, <2>1, <2>2, SavedOver
<1> QED
  BY <1>2, <1>3, <1>4, CoveredStill DEF Opens, ActiveRow, SlotOf

LEMMA DifferCovers ==
  ASSUME Held, Covered, Held', NEW n \in Replica, Differ(n)
  PROVE  Covered' /\ Keeps
<1>1. Typed /\ InStep
  BY DEF Held
<1>2. UNCHANGED <<refs, base, hand, pulls, had, rows>>
  BY DEF Differ
<1>3. /\ run'.at = "run"
      /\ run'.pRef \in {run.pRef, refs[Primary], None}
      /\ \A m \in Replica : run'.diverged[m] \in {run.diverged[m], refs[m], None}
  BY <1>1, DifferDoes DEF Typed, TypeOK, Local
<1> QED
  BY <1>2, <1>3, CoveredStill DEF Opens, ActiveRow, SlotOf

LEMMA SkipCovers ==
  ASSUME Held, Covered, Held', NEW n \in Replica, Skip(n)
  PROVE  Covered' /\ Keeps
<1>1. Typed /\ InStep
  BY DEF Held
<1>2. UNCHANGED <<refs, base, hand, pulls, had, rows>>
  BY DEF Skip
<1>3. /\ run'.at = "run"
      /\ run'.pRef \in {run.pRef, refs[Primary], None}
      /\ \A m \in Replica : run'.diverged[m] \in {run.diverged[m], refs[m], None}
  BY <1>1, SkipDoes DEF Same
<1> QED
  BY <1>2, <1>3, CoveredStill DEF Opens, ActiveRow, SlotOf

LEMMA StillOpenCovers ==
  ASSUME Held, Covered, Held', NEW v \in Commit, StillOpen(v)
  PROVE  Covered' /\ Keeps
<1>1. Typed /\ InStep
  BY DEF Held
<1>2. UNCHANGED <<refs, base, hand, pulls, had>>
  BY DEF StillOpen
<1>3. /\ run'.at = "run"
      /\ run'.pRef \in {run.pRef, refs[Primary], None}
      /\ \A m \in Replica : run'.diverged[m] \in {run.diverged[m], refs[m], None}
  BY <1>1, StillOpenDoes DEF Same, Others
<1>4. \A j \in Pull : ActiveRow(j)' => ActiveRow(j) /\ (rows'[j].over => rows[j].over)
  <2>1. PICK k \in HandedOff(v), row \in Row :
          row.over = run.hs[k].over /\ (UNCHANGED rows \/ Save(k, row))
    BY <1>1, StillOpenDoes
  <2>2. k \in Pull /\ run.hs[k].state = "open"
    BY <2>1 DEF HandedOff
  <2> QED
    BY <1>1, <2>1, <2>2, SavedOver DEF ActiveRow
<1> QED
  BY <1>2, <1>3, <1>4, CoveredStill DEF Opens, ActiveRow, SlotOf

LEMMA SaveExtendedCovers ==
  ASSUME Held, Covered, Held', SaveExtended
  PROVE  Covered' /\ Keeps
<1>1. Typed /\ InStep
  BY DEF Held
<1>2. UNCHANGED <<refs, base, hand, pulls, had>>
  BY DEF SaveExtended
<1>3. /\ run'.at = "run"
      /\ run'.pRef \in {run.pRef, refs[Primary], None}
      /\ \A m \in Replica : run'.diverged[m] \in {run.diverged[m], refs[m], None}
  BY <1>1, SaveExtendedDoes DEF Same, Others
<1>4. \A j \in Pull : ActiveRow(j)' => ActiveRow(j) /\ (rows'[j].over => rows[j].over)
  <2>1. PICK row \in Row : Save(run.k, row) /\ row.over = run.hs[run.k].over
    BY <1>1, SaveExtendedDoes
  <2>2. run.hs[run.k].state # "none" /\ run.k \in Pull
    BY <1>1, SaveExtendedDoes DEF Held, Stages
  <2> QED
    BY <1>1, <2>1, <2>2, SavedOver
<1> QED
  BY <1>2, <1>3, <1>4, CoveredStill DEF Opens, ActiveRow, SlotOf

LEMMA NoMoreCovers ==
  ASSUME Held, Covered, Held', NEW v \in Commit, NoMore(v)
  PROVE  Covered' /\ Keeps
<1>1. Typed /\ InStep
  BY DEF Held
<1>2. UNCHANGED <<refs, base, hand, pulls, had, rows>>
  BY DEF NoMore
<1>3. /\ run'.at = "run"
      /\ run'.pRef \in {run.pRef, refs[Primary], None}
      /\ \A m \in Replica : run'.diverged[m] \in {run.diverged[m], refs[m], None}
  BY <1>1, NoMoreDoes DEF Same, Others
<1> QED
  BY <1>2, <1>3, CoveredStill DEF Opens, ActiveRow, SlotOf

LEMMA OpenPullCovers ==
  ASSUME Held, Covered, Held', OpenPull
  PROVE  Covered' /\ Keeps
<1>1. Typed /\ InStep
  BY DEF Held
<1> DEFINE k == First(Unused)
<1>2. /\ run.at = "pull" /\ run'.slot = run.slot /\ Same(run')
      /\ \/ UNCHANGED pulls /\ run'.at = "undo"
         \/ /\ pulls' = NewPull /\ k \in Unused
            /\ run'.at = "undo" \/ (run'.at = "insert" /\ run'.k = k)
  BY <1>1, OpenPullDoes
<1>3. UNCHANGED <<refs, base, hand, rows, had>>
  BY DEF OpenPull
<1>4. CASE UNCHANGED pulls /\ run'.at = "undo"
  BY <1>2, <1>3, <1>4, CoveredStill DEF Opens, Same, ActiveRow, SlotOf
<1>5. CASE /\ pulls' = NewPull /\ k \in Unused
           /\ run'.at = "undo" \/ (run'.at = "insert" /\ run'.k = k)
  <2>1. /\ pulls' = [pulls EXCEPT ![k] = [state |-> "open", slot |-> run.slot]]
        /\ k \in Pull /\ pulls[k].state = "none"
    BY <1>5 DEF NewPull, Unused
  <2> HIDE DEF k
  <2>2. pulls'[k].state = "open" /\ \A j \in Pull : j # k => pulls'[j] = pulls[j]
    BY <1>1, <2>1 DEF Typed, TypeOK
  <2>3. \A j \in Pull : ActiveRow(j) => j # k
    BY <1>1, <2>1 DEF InStep, ActiveRow, Active
  <2> QED
    BY <1>2, <1>3, <1>5, <2>2, <2>3, CoveredStill DEF Opens, Same, ActiveRow, SlotOf
<1> QED
  BY <1>2, <1>4, <1>5

LEMMA StopCovers ==
  ASSUME Held, Covered, Held', End \/ Crash
  PROVE  Covered' /\ Keeps
<1>1. run' = Idle /\ UNCHANGED <<refs, base, hand, pulls, rows, had>>
  BY StopDoes DEF Held
<1>2. /\ run'.at = "idle" /\ run'.pRef = None
      /\ \A n \in Replica : run'.diverged[n] = None
  BY <1>1 DEF Idle
<1> QED
  BY <1>1, <1>2, CoveredStill DEF Opens, ActiveRow, SlotOf

LEMMA DecideCovers ==
  ASSUME Held, Covered, Held', NEW k \in Pull, Decide(k)
  PROVE  Covered'
<1>1. UNCHANGED <<refs, base, hand, rows, run, had>>
  BY DEF Decide
<1>2. PICK d \in {"open", "closed", "deleted"} : pulls' = [pulls EXCEPT ![k].state = d]
  BY DecideTyped DEF Held
<1>3. \A j \in Pull : pulls'[j].slot = pulls[j].slot
                      /\ (pulls'[j].state = "merged" => pulls[j].state = "merged")
  <2>1. pulls \in [Pull -> PullRequests]
    BY DEF Held, Typed, TypeOK, PullRequests, PullStates
  <2>2. PICK old \in PullRequests : old = pulls[k]
    BY <2>1
  <2>3. pulls' = [pulls EXCEPT ![k] = [old EXCEPT !.state = d]]
    BY <1>2, <2>2
  <2>4. [old EXCEPT !.state = d].slot = old.slot /\ [old EXCEPT !.state = d].state = d
    BY DEF PullRequests
  <2> QED
    BY <2>1, <2>2, <2>3, <2>4
<1>4. run.at = "reset" => run.k \in Pull
  BY DEF Held, Typed, TypeOK, Local
<1> QED
  BY <1>1, <1>3, <1>4, CoveredStill DEF Opens, ActiveRow, SlotOf

\* A row is added for the branch being opened, which the owner may have merged.
LEMMA InsertCovers ==
  ASSUME Held, Covered, Held', Insert
  PROVE  Covered' /\ Keeps
<1> DEFINE row == [state |-> "open", sha |-> run.v, nodes |-> Group(run.v), over |-> FALSE]
<1>1. UNCHANGED <<refs, base, hand, pulls, had>>
  BY DEF Insert
<1>2. /\ run.at = "insert" /\ run'.at = "run" /\ run.k \in Pull /\ run'.pRef = run.pRef
      /\ run'.diverged = Others(run.v)
      /\ UNCHANGED rows \/ rows' = [rows EXCEPT ![run.k] = row]
  BY InsertDoes DEF Held
<1>3. ~row.over
  OBVIOUS
<1> HIDE DEF row
<1>4. SlotOf(run.k) = run.slot /\ Opens
  BY <1>2 DEF Held, Stages, Opens
<1>5. \A j \in Pull : ActiveRow(j)' /\ Over(j)'
        => (ActiveRow(j) /\ Over(j)) \/ (j = run.k /\ pulls[j].state = "merged")
  BY <1>1, <1>2, <1>3 DEF ActiveRow, Over, Held, Typed, TypeOK
<1>6. \A s \in Slot : Lasting(s) => Lasting(s)'
  BY <1>1, <1>2, <1>4, <1>5 DEF Lasting, Condemned, Opens, SlotOf
<1>7. \A x : (OnNode(x) => OnNode(x)') /\ (Stays(x) => Stays(x)')
  BY <1>1, <1>6 DEF Stays, OnNode
<1>8. \A n \in Replica : \A x \in History(run'.diverged[n]) : OnNode(x)'
  BY <1>2, <1>7 DEF Covered, Others, History
<1>9. \A k \in Pull : ActiveRow(k)' /\ Over(k)' => \A x \in History(hand'[SlotOf(k)']) : Stays(x)'
  BY <1>1, <1>2, <1>4, <1>5, <1>7 DEF Covered, SlotOf
<1>10. Keeps
  BY <1>1 DEF Keeps, There
<1> QED
  BY <1>1, <1>2, <1>8, <1>9, <1>10 DEF Covered, SlotOf

\* A branch is dropped whose row is over.
LEMMA DropCovers ==
  ASSUME Held, Covered, Held', Drop
  PROVE  Covered' /\ Keeps
<1> DEFINE s == SlotOf(run.k)
<1>1. UNCHANGED <<refs, base, pulls, rows, had>>
  BY DEF Drop
<1>2. /\ run.at = "drop" /\ run'.at = "dropped" /\ run.k \in Pull
      /\ run'.pRef = run.pRef /\ run'.diverged = run.diverged
      /\ \A t \in Slot : t # s => hand'[t] = hand[t]
      /\ hand'[s] \in {hand[s], None}
  BY DropDoes DEF Held
<1>3. ActiveRow(run.k) /\ Over(run.k)
  BY <1>2 DEF Held, Stages, InStep, Expired, Active, ActiveRow, Over
<1>4. \A j \in Pull : SlotOf(j) \in Slot
  BY DEF Held, Typed, TypeOK, SlotOf
<1>5. \A t \in Slot : Lasting(t) => Lasting(t)' /\ t # s
  BY <1>1, <1>2, <1>3 DEF Lasting, Condemned, Opens, SlotOf, Over, ActiveRow
<1>6. \A t \in Slot : History(hand'[t]) \subseteq History(hand[t])
  BY <1>2 DEF History
<1>7. \A x : (OnNode(x) => OnNode(x)') /\ (Stays(x) => Stays(x)')
  BY <1>1, <1>2, <1>5 DEF Stays, OnNode
<1>8. \A n \in Replica : \A x \in History(run'.diverged[n]) : OnNode(x)'
  BY <1>2, <1>7 DEF Covered
<1>9. \A k \in Pull : ActiveRow(k)' /\ Over(k)' => \A x \in History(hand'[SlotOf(k)']) : Stays(x)'
  BY <1>1, <1>4, <1>6, <1>7 DEF Covered, SlotOf, Over, ActiveRow
<1>10. Keeps
  <2>1. \A x : Stays(x)' => x \in had \/ There(x)'
    BY <1>1 DEF Stays, OnNode, There
  <2>2. \A x \in History(hand[s]) : Stays(x)
    BY <1>2, <1>3 DEF Covered
  <2> HIDE DEF s
  <2> QED
    BY <1>1, <1>2, <1>7, <2>1, <2>2 DEF Keeps, There
<1> QED
  BY <1>1, <1>2, <1>8, <1>9, <1>10 DEF Covered, SlotOf

\* What a reset takes off a replica is on the hand-off branch, or was merged.
LEMMA ResetReplicaCovers ==
  ASSUME Held, Covered, Held', NEW n \in Replica, ResetReplica(n)
  PROVE  Covered' /\ Keeps
<1>1. UNCHANGED <<base, hand, pulls, rows, had>>
  BY DEF ResetReplica
<1>2. /\ run.at = "reset" /\ run'.at = "reset" /\ run'.k = run.k /\ Same(run')
      /\ run.k \in run.todo /\ run.k \in Pull /\ refs' \in {refs, Reset(n)}
  BY ResetReplicaDoes DEF Held
<1>3. PICK s \in Slot, sha \in Value : s = SlotOf(run.k) /\ sha = run.hs[run.k].sha
  BY <1>2 DEF Held, Typed, TypeOK, Local, Row, SlotOf
<1>4. ActiveRow(run.k) /\ ~rows[run.k].over /\ sha \in History(hand[s])
  BY <1>2, <1>3 DEF Held, Stages, InStep, Backed, Active, ActiveRow, Leaving
<1>5. History(sha) \subseteq History(hand[s])
  BY <1>4, RefAssumption DEF History, Held, Typed, TypeOK, Value
<1>6. \A t \in Slot : Lasting(t) => Lasting(t)'
  BY <1>1, <1>2 DEF Lasting, Condemned, Opens, SlotOf, Over, ActiveRow
<1>7. \A x \in History(sha) : Stays(x)'
  <2>1. CASE pulls[run.k].state = "merged"
    BY <1>1, <1>2, <1>5, <1>3, <2>1 DEF Covered, Stays, OnNode
  <2>2. CASE pulls[run.k].state # "merged"
    <3>1. \A j \in Pull : ActiveRow(j) /\ SlotOf(j) = s => j = run.k
      BY <1>2, <1>4, <1>3, OwnBranch DEF Held
    <3>2. ~Condemned(s)
      BY <1>4, <2>2, <3>1 DEF Condemned, Over
    <3>3. Lasting(s)
      BY <1>2, <3>2 DEF Lasting, Opens
    <3> QED
      BY <1>1, <1>5, <1>6, <3>3 DEF Stays
  <2> QED
    BY <2>1, <2>2
<1>8. \A m \in Node : refs'[m] = refs[m] \/ (m = n /\ refs[m] = sha)
  BY <1>2, <1>3 DEF Reset, AtHandedOff, Held, Typed, TypeOK
<1>9. \A x : OnNode(x) => Stays(x)'
  BY <1>1, <1>7, <1>8 DEF OnNode, Stays
<1>10. \A x : Stays(x) => Stays(x)'
  BY <1>1, <1>6, <1>9 DEF Stays
<1>11. \A m \in Replica : History(run'.diverged[m]) = {}
  BY <1>2 DEF Held, Stages, Same, History
<1>12. refs'[Primary] = refs[Primary]
  BY <1>8, HandoffAssumption DEF Replica
<1>13. \A k \in Pull : ActiveRow(k)' /\ Over(k)' => \A x \in History(hand'[SlotOf(k)']) : Stays(x)'
  BY <1>1, <1>10 DEF Covered, SlotOf, Over, ActiveRow
<1>14. Keeps
  <2>1. \A x : OnNode(x) => x \in had \/ There(x)'
    BY <1>1, <1>9 DEF Stays, OnNode, There
  <2> QED
    BY <1>1, <2>1 DEF Keeps, There, OnNode
<1> QED
  BY <1>1, <1>2, <1>11, <1>12, <1>13, <1>14 DEF Covered, SlotOf, Same

\* A replica follows only from where the primary has been, or is no longer.
LEMMA FollowCovers ==
  ASSUME Held, Covered, Held', NEW n \in Replica, Follow(n)
  PROVE  Covered' /\ Keeps
<1>1. UNCHANGED <<hand, pulls, rows, had>>
  BY DEF Follow
<1>2. /\ run.at = "run" /\ run'.at = "run" /\ Same(run')
      /\ refs' = [refs EXCEPT ![n] = run.pRef] /\ base' = [base EXCEPT ![n] = run.pRef]
      /\ Verdict(n) \in {"in_sync", "create", "fast_forward", "delete"}
  BY FollowDoes DEF Held, Follow, ActionKind
<1>3. History(refs[n]) \subseteq History(run.pRef) \cup History(base[n])
  <2>1. \A p, r, b \in Value :
          Plan(Branch, p, r, b, {}) \in {"in_sync", "create", "fast_forward", "delete"}
            => p = r \/ r = None \/ b = r \/ (p # None /\ r \in Reach[p])
    BY HandoffAssumption DEF Plan, OnlyOnReplica, BranchVerdict
  <2>2. run.pRef \in Value /\ refs[n] \in Value /\ base[n] \in Value
    BY DEF Held, Typed, TypeOK, Local, Replica
  <2> QED
    BY <1>2, <2>1, <2>2, RefAssumption DEF Verdict, History, Value
<1>4. \A x \in History(refs[n]) : x \in had
  BY <1>3 DEF Covered
<1>5. \A m \in Node : refs'[m] = refs[m] \/ m = n
  BY <1>2 DEF Held, Typed, TypeOK
<1>6. refs'[Primary] = refs[Primary]
  BY <1>5, HandoffAssumption DEF Replica
<1>7. \A m \in Replica : base'[m] \in {base[m], run.pRef}
  BY <1>2 DEF Held, Typed, TypeOK
<1>8. \A s \in Slot : Lasting(s) => Lasting(s)'
  BY <1>1, <1>2 DEF Lasting, Condemned, Opens, SlotOf, Over, ActiveRow
<1>9. \A x : OnNode(x) => OnNode(x)'
  BY <1>1, <1>4, <1>5 DEF OnNode
<1>10. \A x : Stays(x) => Stays(x)'
  BY <1>1, <1>8, <1>9 DEF Stays
<1>11. \A m \in Replica : History(base'[m]) \subseteq had'
  BY <1>1, <1>7 DEF Covered
<1>12. \A m \in Replica : \A x \in History(run'.diverged[m]) : OnNode(x)'
  BY <1>2, <1>9 DEF Covered, Same
<1>13. \A k \in Pull : ActiveRow(k)' /\ Over(k)' => \A x \in History(hand'[SlotOf(k)']) : Stays(x)'
  BY <1>1, <1>10 DEF Covered, SlotOf, Over, ActiveRow
<1>14. Keeps
  BY <1>1, <1>4, <1>5 DEF Keeps, There
<1> QED
  BY <1>1, <1>2, <1>6, <1>11, <1>12, <1>13, <1>14 DEF Covered, SlotOf, Same

\* The primary is moved from what the owner has had.
LEMMA TakeOverCovers ==
  ASSUME Held, Covered, Held', NEW n \in Replica, TakeOver(n)
  PROVE  Covered' /\ Keeps
<1>1. UNCHANGED <<base, hand, pulls, rows>>
  BY DEF TakeOver
<1>2. /\ run.at = "run" /\ run'.at = "run" /\ run'.diverged = run.diverged
      /\ \/ /\ refs' = [refs EXCEPT ![Primary] = refs[n]]
            /\ had' = had \cup History(refs[n]) /\ run'.pRef = refs[n]
         \/ UNCHANGED <<refs, had>> /\ run'.pRef = run.pRef
  BY TakeOverDoes DEF Held
<1>3. CASE UNCHANGED <<refs, had>> /\ run'.pRef = run.pRef
  BY <1>1, <1>2, <1>3, CoveredStill DEF Opens, ActiveRow, SlotOf
<1>4. CASE /\ refs' = [refs EXCEPT ![Primary] = refs[n]]
           /\ had' = had \cup History(refs[n]) /\ run'.pRef = refs[n]
  <2>1. \A m \in Node : refs'[m] = refs[m] \/ m = Primary
    BY <1>4 DEF Held, Typed, TypeOK
  <2>2. refs'[Primary] = refs[n]
    BY <1>4, HandoffAssumption DEF Held, Typed, TypeOK
  <2>3. \A x \in History(refs[Primary]) : x \in had
    BY DEF Covered
  <2>4. \A s \in Slot : Lasting(s) => Lasting(s)'
    BY <1>1, <1>2 DEF Lasting, Condemned, Opens, SlotOf, Over, ActiveRow
  <2>5. \A x : OnNode(x) => OnNode(x)'
    BY <1>4, <2>1, <2>3 DEF OnNode
  <2>6. \A x : Stays(x) => Stays(x)'
    BY <1>1, <2>4, <2>5 DEF Stays
  <2>7. \A m \in Replica : History(base'[m]) \subseteq had'
    BY <1>1, <1>4 DEF Covered
  <2>8. \A m \in Replica : \A x \in History(run'.diverged[m]) : OnNode(x)'
    BY <1>2, <2>5 DEF Covered
  <2>9. \A k \in Pull : ActiveRow(k)' /\ Over(k)' => \A x \in History(hand'[SlotOf(k)']) : Stays(x)'
    BY <1>1, <2>6 DEF Covered, SlotOf, Over, ActiveRow
  <2>10. Keeps
    BY <1>1, <2>1, <2>3 DEF Keeps, There
  <2> QED
    BY <1>2, <1>4, <2>2, <2>7, <2>8, <2>9, <2>10 DEF Covered, SlotOf
<1> QED
  BY <1>2, <1>3, <1>4

\* A step of a run that moves hand-off branches only, to a version found on a
\* replica; a branch that is being opened is there for that version.
LEMMA PushCovers ==
  ASSUME Held, Covered, Held', NEW v \in Commit, UNCHANGED <<refs, base, pulls, rows, had>>,
         ~Opens, \A x \in History(v) : OnNode(x), run'.pRef = run.pRef,
         \A n \in Replica : run'.diverged[n] \in {run.diverged[n], None},
         \A s \in Slot : hand'[s] = hand[s] \/ (hand'[s] = v /\ History(hand[s]) \subseteq History(v)),
         Opens' => run'.slot \in Slot /\ hand'[run'.slot] = v,
         run'.at \notin {"insert", "reset"}
  PROVE  Covered' /\ Keeps
<1>1. \A j \in Pull : SlotOf(j) \in Slot
  BY DEF Held, Typed, TypeOK, SlotOf
<1>2. \A s \in Slot : /\ History(hand[s]) \subseteq History(hand'[s])
                      /\ History(hand'[s]) \subseteq History(hand[s]) \cup History(v)
  OBVIOUS
<1>3. \A x : OnNode(x) => OnNode(x)'
  BY DEF OnNode
<1>4. \A s \in Slot : Lasting(s) => Lasting(s)' \/ (Opens' /\ s = run'.slot)
  BY DEF Lasting, Condemned, SlotOf, Over, ActiveRow
<1>5. \A x : Stays(x) => Stays(x)'
  BY <1>2, <1>3, <1>4 DEF Stays
<1>6. \A k \in Pull : ActiveRow(k)' /\ Over(k)' => \A x \in History(hand'[SlotOf(k)']) : Stays(x)'
  <2>1. \A x \in History(v) : Stays(x)'
    BY <1>3 DEF Stays
  <2> QED
    BY <1>1, <1>2, <1>5, <2>1 DEF Covered, SlotOf, Over, ActiveRow
<1>7. \A n \in Replica : \A x \in History(run'.diverged[n]) : OnNode(x)'
  BY <1>3 DEF Covered, History
<1>8. Keeps
  BY <1>2 DEF Keeps, There
<1> QED
  BY <1>6, <1>7, <1>8 DEF Covered, SlotOf

LEMMA ExtendCovers ==
  ASSUME Held, Covered, Held', NEW v \in Commit, Extend(v)
  PROVE  Covered' /\ Keeps
<1> DEFINE k == First(Extensible(v))
<1>1. UNCHANGED <<refs, base, pulls, rows, had>>
  BY DEF Extend
<1>2. /\ HandingOff(v) /\ run.at = "run" /\ k \in Extensible(v) /\ k \in Pull /\ Same(run')
      /\ hand' \in {hand, Extended(k, v)} /\ run'.at \in {"extended", "open"}
  <2>1. Typed
    BY DEF Held
  <2> QED
    BY <2>1, ExtendDoes
<1>3. run.hs[k].sha \in Reach[v]
  BY <1>2 DEF Extensible
<1> HIDE DEF k
<1>4. \A x \in History(v) : OnNode(x)
  BY <1>2 DEF HandingOff, Group, Covered
<1>5. \A x \in {run.hs[k].sha, v} : History(x) \subseteq History(v)
  BY <1>3, RefAssumption DEF History
<1>6. \A s \in Slot : hand'[s] = hand[s] \/ (hand'[s] = v /\ History(hand[s]) \subseteq History(v))
  BY <1>2, <1>5 DEF Extended, Held, Typed, TypeOK
<1> QED
  BY <1>1, <1>2, <1>4, <1>6, PushCovers DEF Same, Opens

LEMMA OpenBranchCovers ==
  ASSUME Held, Covered, Held', NEW v \in Commit, OpenBranch(v)
  PROVE  Covered' /\ Keeps
<1> DEFINE s == FreeSlot(Group(v))
<1>1. UNCHANGED <<refs, base, pulls, rows, had>>
  BY DEF OpenBranch
<1>2. /\ s \in Slot /\ Opening(v) /\ Group(v) # {} /\ hand' \in {hand, Opened(s, v)}
      /\ run'.pRef = run.pRef
      /\ \/ /\ run'.at = "pull" /\ run'.slot = s /\ hand'[s] = v
            /\ run'.diverged = run.diverged
         \/ run'.at = "run" /\ run'.diverged = Others(v)
  BY OpenBranchDoes DEF Held
<1> HIDE DEF s
<1>3. run.at \in {"run", "open"}
  BY <1>2 DEF Opening, HandingOff
<1>4. \A x \in History(v) : OnNode(x)
  BY <1>2 DEF Group, Covered
<1>5. \A t \in Slot : hand'[t] = hand[t] \/ (hand'[t] = v /\ History(hand[t]) \subseteq History(v))
  BY <1>2 DEF Opened, History, Held, Typed, TypeOK
<1>6. \A n \in Replica : run'.diverged[n] \in {run.diverged[n], None}
  BY <1>2 DEF Others
<1> QED
  BY <1>1, <1>2, <1>3, <1>4, <1>5, <1>6, PushCovers DEF Opens

\* A branch is undone only while it is at the version it was opened for.
LEMMA UndoBranchCovers ==
  ASSUME Held, Covered, Held', UndoBranch
  PROVE  Covered' /\ Keeps
<1>1. UNCHANGED <<refs, base, pulls, rows, had>>
  BY DEF UndoBranch
<1>2. /\ run.at = "undo" /\ run'.at = "run" /\ run.slot \in Slot /\ hand' \in {hand, Undone}
      /\ run'.diverged = Others(run.v) /\ run'.pRef = run.pRef
  BY UndoBranchDoes DEF Held
<1>3. Group(run.v) # {} /\ Opens
  BY <1>2 DEF Held, Typed, HasVersion, Opens
<1>4. \A x \in History(run.v) : OnNode(x)
  BY <1>3 DEF Group, Covered
<1>5. \A t \in Slot : hand'[t] = hand[t] \/ (t = run.slot /\ hand[t] = run.v /\ hand'[t] = None)
  BY <1>2 DEF Undone, Held, Typed, TypeOK
<1>6. \A j \in Pull : SlotOf(j) \in Slot
  BY DEF Held, Typed, TypeOK, SlotOf
<1>7. \A t \in Slot : Lasting(t) => Lasting(t)' /\ hand'[t] = hand[t]
  BY <1>1, <1>2, <1>3, <1>5 DEF Lasting, Condemned, Opens, SlotOf, Over, ActiveRow
<1>8. \A x : (OnNode(x) => OnNode(x)') /\ (Stays(x) => Stays(x)')
  BY <1>1, <1>7 DEF Stays, OnNode
<1>9. \A n \in Replica : \A x \in History(run'.diverged[n]) : OnNode(x)'
  BY <1>2, <1>8 DEF Covered, Others, History
<1>10. \A k \in Pull : ActiveRow(k)' /\ Over(k)' => \A x \in History(hand'[SlotOf(k)']) : Stays(x)'
  BY <1>1, <1>5, <1>6, <1>8 DEF Covered, SlotOf, Over, ActiveRow, History
<1>11. Keeps
  BY <1>1, <1>4, <1>5 DEF Keeps, There, OnNode
<1> QED
  BY <1>1, <1>2, <1>9, <1>10, <1>11 DEF Covered, SlotOf

LEMMA WriteCovers ==
  ASSUME Held, Covered, Held', NEW n \in Node, NEW v \in Pushed[n], Write(n, v)
  PROVE  Covered'
<1>1. UNCHANGED <<base, hand, pulls, rows, run>>
  BY DEF Write
<1>2. /\ refs' = [refs EXCEPT ![n] = v] /\ had \subseteq had'
      /\ History(refs[n]) \subseteq had' \cup History(v)
      /\ n = Primary => History(v) \subseteq had'
  BY DEF Write
<1>3. refs'[n] = v /\ \A m \in Node : m # n => refs'[m] = refs[m]
  BY <1>2 DEF Held, Typed, TypeOK
<1>4. \A s \in Slot : Lasting(s) => Lasting(s)'
  BY <1>1 DEF Lasting, Condemned, Opens, SlotOf, Over, ActiveRow
<1>5. \A x : OnNode(x) => OnNode(x)'
  BY <1>2, <1>3 DEF OnNode
<1>6. \A x : Stays(x) => Stays(x)'
  BY <1>1, <1>4, <1>5 DEF Stays
<1>7. /\ History(refs'[Primary]) \subseteq had' /\ History(run'.pRef) \subseteq had'
      /\ \A m \in Replica : History(base'[m]) \subseteq had'
  BY <1>1, <1>2, <1>3, HandoffAssumption DEF Covered
<1>8. \A m \in Replica : \A x \in History(run'.diverged[m]) : OnNode(x)'
  BY <1>1, <1>5 DEF Covered
<1>9. \A k \in Pull : ActiveRow(k)' /\ Over(k)' => \A x \in History(hand'[SlotOf(k)']) : Stays(x)'
  BY <1>1, <1>6 DEF Covered, SlotOf, Over, ActiveRow
<1>10. run.at = "insert" /\ pulls[run.k].state = "merged" => \A x \in History(hand[run.slot]) : Stays(x)'
  BY <1>6 DEF Covered
<1>11. run.at = "reset" /\ pulls[run.k].state = "merged" => History(hand[SlotOf(run.k)]) \subseteq had'
  BY <1>2 DEF Covered
<1> QED
  BY <1>1, <1>7, <1>8, <1>9, <1>10, <1>11 DEF Covered, SlotOf

\* What the owner merges, or may let go of when a backup's time is up, is had.
LEMMA LetGo ==
  ASSUME Held, Covered, NEW k \in Pull, UNCHANGED <<base, hand, run>>, had \subseteq had',
         History(refs'[Primary]) \subseteq had', History(hand[SlotOf(k)]) \subseteq had',
         \A x : OnNode(x) => OnNode(x)',
         \A j \in Pull : /\ SlotOf(j)' = SlotOf(j) /\ (ActiveRow(j)' => ActiveRow(j))
                         /\ j # k => /\ rows'[j].over => rows[j].over
                                     /\ pulls'[j].state = "merged" => pulls[j].state = "merged"
  PROVE  Covered'
<1>1. \A j \in Pull : ActiveRow(j)' /\ Over(j)' => (ActiveRow(j) /\ Over(j)) \/ j = k
  BY DEF Over
<1>2. \A s \in Slot : Lasting(s) => Lasting(s)' \/ s = SlotOf(k)
  BY <1>1 DEF Lasting, Condemned, Opens
<1>3. \A x \in had' : Stays(x)'
  BY DEF Stays, OnNode
<1>4. \A x : Stays(x) => Stays(x)'
  <2>1. \A x : OnNode(x) => Stays(x)'
    BY DEF Stays
  <2>2. \A s \in Slot : \A x \in History(hand[s]) : Lasting(s) => Stays(x)'
    BY <1>2, <1>3 DEF Stays
  <2> QED
    BY <2>1, <2>2 DEF Stays
<1>5. \A j \in Pull : ActiveRow(j)' /\ Over(j)' => \A x \in History(hand'[SlotOf(j)']) : Stays(x)'
  BY <1>1, <1>3, <1>4 DEF Covered
<1>6. run.at \in {"insert", "reset"} => run.k \in Pull
  BY DEF Held, Typed, TypeOK, Local
<1>7. run.at = "insert" => SlotOf(run.k) = run.slot
  BY DEF Held, Stages
<1>8. run'.at = "insert" /\ pulls'[run'.k].state = "merged"
        => \A x \in History(hand'[run'.slot]) : Stays(x)'
  BY <1>3, <1>4, <1>6, <1>7 DEF Covered
<1>9. run'.at = "reset" /\ pulls'[run'.k].state = "merged"
        => History(hand'[SlotOf(run.k)']) \subseteq had'
  BY <1>6 DEF Covered, SlotOf
<1>10. \A n \in Replica : \A x \in History(run'.diverged[n]) : OnNode(x)'
  BY DEF Covered
<1>11. History(run'.pRef) \subseteq had' /\ \A n \in Replica : History(base'[n]) \subseteq had'
  BY DEF Covered
<1> QED
  BY <1>5, <1>8, <1>9, <1>10, <1>11 DEF Covered, SlotOf

LEMMA MergeCovers ==
  ASSUME Held, Covered, Held', NEW k \in Pull, NEW m \in Commit, Merge(k, m)
  PROVE  Covered'
<1>1. /\ UNCHANGED <<base, hand, rows, run>> /\ pulls' = [pulls EXCEPT ![k].state = "merged"]
      /\ refs' = [refs EXCEPT ![Primary] = m] /\ hand[SlotOf(k)] # None
      /\ had' = had \cup Reach[m] \cup Reach[hand[SlotOf(k)]]
  BY DEF Merge, SlotOf
<1>2. \A j \in Pull : pulls'[j].slot = pulls[j].slot /\ (j # k => pulls'[j] = pulls[j])
  <2>1. pulls \in [Pull -> PullRequests]
    BY DEF Held, Typed, TypeOK, PullRequests, PullStates
  <2>2. PICK old \in PullRequests : old = pulls[k]
    BY <2>1
  <2>3. pulls' = [pulls EXCEPT ![k] = [old EXCEPT !.state = "merged"]]
    BY <1>1, <2>2
  <2>4. [old EXCEPT !.state = "merged"].slot = old.slot
    BY DEF PullRequests
  <2> QED
    BY <2>1, <2>2, <2>3, <2>4
<1>3. /\ History(refs'[Primary]) \subseteq had' /\ History(hand[SlotOf(k)]) \subseteq had'
      /\ had \subseteq had' /\ \A n \in Node : n # Primary => refs'[n] = refs[n]
  BY <1>1, HandoffAssumption DEF History, Held, Typed, TypeOK
<1>4. \A x : OnNode(x) => OnNode(x)'
  <2>1. \A x \in History(refs[Primary]) : x \in had
    BY DEF Covered
  <2> QED
    BY <1>3, <2>1 DEF OnNode
<1> QED
  BY <1>1, <1>2, <1>3, <1>4, LetGo DEF SlotOf, ActiveRow

LEMMA BackupEndsCovers ==
  ASSUME Held, Covered, Held', NEW k \in Pull, BackupEnds(k)
  PROVE  Covered'
<1>1. /\ UNCHANGED <<refs, base, hand, pulls, run>> /\ had' = had \cup History(hand[SlotOf(k)])
      /\ rows[k].state = "kept_primary" /\ rows' = [rows EXCEPT ![k].over = TRUE]
  BY DEF BackupEnds, SlotOf
<1>2. ActiveRow(k) /\ \A j \in Pull : j # k => rows'[j] = rows[j]
  BY <1>1 DEF Held, Typed, TypeOK, ActiveRow, Active
<1>3. \A x : OnNode(x) => OnNode(x)'
  BY <1>1 DEF OnNode
<1> QED
  BY <1>1, <1>2, <1>3, LetGo DEF SlotOf, ActiveRow, Covered

\* The owner adds commits to a branch only while no run may delete it.
LEMMA AmendCovers ==
  ASSUME Held, Covered, Held', NEW k \in Pull, NEW v \in Commit, Amend(k, v)
  PROVE  Covered'
<1>1. /\ UNCHANGED <<refs, base, pulls, rows, run, had>> /\ SlotOf(k) \in Slot
      /\ pulls[k].state = "open" /\ Latest(k) /\ rows[k].state # "kept_primary"
      /\ hand[SlotOf(k)] # None /\ hand[SlotOf(k)] \in Reach[v]
      /\ hand' = [hand EXCEPT ![SlotOf(k)] = v]
  BY AmendTyped DEF Held, Amend, SlotOf
<1>2. \A s \in Slot : s # SlotOf(k) => hand'[s] = hand[s]
  BY <1>1 DEF Held, Typed, TypeOK
<1>3. \A s \in Slot : History(hand[s]) \subseteq History(hand'[s])
  BY <1>1, <1>2, RefAssumption DEF Held, Typed, TypeOK, History
<1>4. \A j \in Pull : Latest(j) /\ pulls[j].state # "none" /\ SlotOf(j) = SlotOf(k) => j = k
  BY <1>1 DEF Latest, SlotOf, Pull
<1>5. \A j \in Pull : ActiveRow(j) => Latest(j) /\ pulls[j].state # "none"
  BY DEF Held, InStep, ActiveRow, Active
<1>6. \A j \in Pull : ActiveRow(j) /\ Over(j) => SlotOf(j) # SlotOf(k) /\ SlotOf(j) \in Slot
  <2>1. ~(ActiveRow(k) /\ Over(k))
    BY <1>1 DEF Held, InStep, ActiveRow, Active, Over
  <2> QED
    BY <1>4, <1>5, <2>1 DEF Held, Typed, TypeOK, SlotOf
<1>7. \A s \in Slot : Lasting(s) => Lasting(s)'
  BY <1>1 DEF Lasting, Condemned, Opens, SlotOf, Over, ActiveRow
<1>8. \A x : (OnNode(x) => OnNode(x)') /\ (Stays(x) => Stays(x)')
  BY <1>1, <1>3, <1>7 DEF Stays, OnNode
<1>9. \A j \in Pull : ActiveRow(j)' /\ Over(j)' => \A x \in History(hand'[SlotOf(j)']) : Stays(x)'
  BY <1>1, <1>2, <1>6, <1>8 DEF Covered, SlotOf, Over, ActiveRow
<1>10. run.at = "insert" /\ pulls[run.k].state = "merged"
        => \A x \in History(hand'[run.slot]) : Stays(x)'
  <2> SUFFICES ASSUME run.at = "insert", pulls[run.k].state = "merged"
               PROVE  \A x \in History(hand'[run.slot]) : Stays(x)'
    OBVIOUS
  <2>1. run.k \in Pull /\ Latest(run.k) /\ SlotOf(run.k) = run.slot /\ run.slot \in Slot
    BY DEF Held, Stages, Typed, TypeOK, Local
  <2>2. run.slot # SlotOf(k)
    BY <1>1, <1>4, <2>1
  <2> QED
    BY <1>2, <1>8, <2>1, <2>2 DEF Covered
<1>11. run.at = "reset" /\ pulls[run.k].state = "merged"
        => History(hand'[SlotOf(run.k)]) \subseteq had'
  <2> SUFFICES ASSUME run.at = "reset", pulls[run.k].state = "merged"
               PROVE  History(hand'[SlotOf(run.k)]) \subseteq had'
    OBVIOUS
  <2>1. run.k \in Pull /\ ActiveRow(run.k)
    BY DEF Held, Stages, InStep, Typed, TypeOK, Local, ActiveRow, Active
  <2>2. SlotOf(run.k) # SlotOf(k) /\ SlotOf(run.k) \in Slot
    BY <1>1, <1>4, <1>5, <2>1 DEF Held, Typed, TypeOK, SlotOf
  <2> QED
    BY <1>1, <1>2, <2>1, <2>2 DEF Covered
<1>12. \A n \in Replica : \A x \in History(run'.diverged[n]) : OnNode(x)'
  BY <1>1, <1>8 DEF Covered
<1> QED
  BY <1>1, <1>9, <1>10, <1>11, <1>12 DEF Covered, SlotOf

LEMMA InitCovered == Init => Covered
<1> SUFFICES ASSUME Init PROVE Covered
  OBVIOUS
<1>1. /\ run.at = "idle" /\ run.pRef = None /\ \A n \in Replica : run.diverged[n] = None
      /\ \A k \in Pull : ~ActiveRow(k)
  BY DEF Init, Idle, NoRow, ActiveRow, Active
<1>2. \A n \in Node : refs[n] = None
  BY DEF Init
<1>3. \A n \in Replica : base[n] = None
  BY DEF Init
<1> QED
  BY <1>1, <1>2, <1>3, HandoffAssumption DEF Covered, History

LEMMA CoveredNext ==
  ASSUME ~Unsaved, Held, Covered, [Next]_vars, Recorded
  PROVE  Held' /\ Covered' /\ (run' # run => Keeps)
<1>1. Held'
  BY HeldNext
<1>2. CASE Begin
  BY <1>1, <1>2, BeginCovers
<1>3. CASE \E k \in Pull : LeaveRow(k) \/ PullGone(k) \/ StartDrop(k) \/ StartReset(k)
  BY <1>1, <1>3, LeaveRowCovers, PullGoneCovers, StartDropCovers, StartResetCovers
<1>4. CASE Drop \/ SaveDropped \/ SaveReset
  BY <1>1, <1>4, DropCovers, SaveDroppedCovers, SaveResetCovers
<1>5. CASE \E n \in Replica : ResetReplica(n) \/ Follow(n) \/ TakeOver(n) \/ Differ(n) \/ Skip(n)
  BY <1>1, <1>5, ResetReplicaCovers, FollowCovers, TakeOverCovers, DifferCovers, SkipCovers
<1>6. CASE \E v \in Commit : StillOpen(v) \/ Extend(v) \/ OpenBranch(v) \/ NoMore(v)
  BY <1>1, <1>6, StillOpenCovers, ExtendCovers, OpenBranchCovers, NoMoreCovers
<1>7. CASE SaveExtended \/ OpenPull \/ UndoBranch \/ Insert \/ End \/ Crash
  BY <1>1, <1>7, SaveExtendedCovers, OpenPullCovers, UndoBranchCovers, InsertCovers, StopCovers
<1>8. CASE People
  <2>1. run' = run
    BY <1>8 DEF People, Write, Merge, Decide, Amend
  <2> QED
    BY <1>1, <1>8, <2>1, WriteCovers, MergeCovers, DecideCovers, AmendCovers DEF People
<1>9. CASE \E k \in Pull : BackupEnds(k)
  <2>1. run' = run
    BY <1>9 DEF BackupEnds
  <2> QED
    BY <1>1, <1>9, <2>1, BackupEndsCovers
<1>10. CASE UNCHANGED vars
  <2>1. UNCHANGED <<refs, base, hand, pulls, rows, run, had>>
    BY <1>10 DEF vars
  <2>2. run.at = "reset" => run.k \in Pull
    BY DEF Held, Typed, TypeOK, Local
  <2> QED
    BY <1>1, <2>1, <2>2, CoveredStill DEF Opens, ActiveRow, SlotOf
<1> QED
  BY <1>2, <1>3, <1>4, <1>5, <1>6, <1>7, <1>8, <1>9, <1>10 DEF Next, Work

\* "Never lose work": what a step of a run takes off a replica, the primary or a
\* hand-off branch is still on another of them, unless the owner has had it on the
\* branch or people have let it go; with the failures set aside that BackupStays
\* sets aside.
THEOREM NothingLost ==
  ASSUME ~Unsaved
  PROVE  Spec /\ [][Recorded]_vars => KeepsWork
<1>1. Held /\ Covered /\ [Next]_vars /\ [Recorded]_vars => (Held /\ Covered)'
  <2> SUFFICES ASSUME Held, Covered, [Next]_vars, [Recorded]_vars
               PROVE  Held' /\ Covered'
    OBVIOUS
  <2>1. Recorded
    BY DEF vars, Recorded
  <2> QED
    BY <2>1, CoveredNext
<1>2. Held /\ Covered /\ [Next]_vars /\ [Recorded]_vars
        => [run' # run => Everything \ Everything' \subseteq had]_vars
  <2> SUFFICES ASSUME Held, Covered, [Next]_vars, [Recorded]_vars, run' # run
               PROVE  Everything \ Everything' \subseteq had
    OBVIOUS
  <2>1. Recorded
    BY DEF vars, Recorded
  <2> QED
    BY <2>1, CoveredNext, KeepsAll
<1>3. Init => Held /\ Covered
  BY InitHeld, InitCovered
<1> QED
  BY <1>1, <1>2, <1>3, PTL DEF Spec, KeepsWork
=============================================================================
