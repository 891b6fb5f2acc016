--------------------------- MODULE RunQueueProofs ---------------------------
(* Proofs about RunQueue, for any number of goroutines.  That runs do not  *)
(* overlap is not inductive: a goroutine enters because `running` is clear, *)
(* so what has to be kept is that the flag stands for the one that runs.   *)
EXTENDS RunQueue, TLAPS

Inv == TypeOK /\ OneRun /\ FlagsMatch

LEMMA InitInv == Init => Inv
  BY DEF Init, Inv, TypeOK, OneRun, FlagsMatch, Busy, Phase

LEMMA NextInv == Inv /\ [Next]_vars => Inv'
<1> SUFFICES ASSUME Inv, [Next]_vars PROVE Inv'
  OBVIOUS
<1> USE RunQueueAssumption DEF Inv, TypeOK, OneRun, FlagsMatch, Busy, Phase
<1>1. ASSUME NEW c \in Caller, Trigger(c) PROVE Inv'
  BY <1>1 DEF Trigger
<1>2. ASSUME NEW c \in Caller, Round(c) PROVE Inv'
  BY <1>2 DEF Round
<1>3. ASSUME NEW c \in Caller, Enter(c) PROVE Inv'
  <2>1. CASE Free
    BY <1>3, <2>1 DEF Enter, Free
  <2>2. CASE ~Free
    BY <1>3, <2>2 DEF Enter, Free
  <2> QED
    BY <2>1, <2>2
<1>4. ASSUME NEW c \in Caller, NEW failed \in BOOLEAN, RunEnds(c, failed) PROVE Inv'
  <2>1. CASE Leaves(c, failed)
    BY <1>4, <2>1 DEF RunEnds, Clear
  <2>2. CASE ~Leaves(c, failed)
    BY <1>4, <2>2 DEF RunEnds, Clear
  <2> QED
    BY <2>1, <2>2
<1>5. ASSUME NEW c \in Caller, Fetched(c) PROVE Inv'
  BY <1>5 DEF Fetched
<1>6. ASSUME NEW c \in Caller, FetchFails(c) PROVE Inv'
  BY <1>6 DEF FetchFails
<1>7. CASE Lead \/ LoseLead \/ NextScan \/ Forget
  <2>1. CASE Lead
    BY <2>1 DEF Lead
  <2>2. CASE LoseLead
    BY <2>2 DEF LoseLead
  <2>3. CASE NextScan
    BY <2>3 DEF NextScan
  <2>4. CASE Forget
    BY <2>4 DEF Forget
  <2> QED
    BY <1>7, <2>1, <2>2, <2>3, <2>4
<1>8. CASE UNCHANGED vars
  BY <1>8 DEF vars
<1> QED
  BY <1>1, <1>2, <1>3, <1>4, <1>5, <1>6, <1>7, <1>8 DEF Next, Work

\* Whatever triggers, rounds, failures and losses of leadership do, two runs of
\* one repository never overlap in one controller (Engine.RunRepo).
THEOREM RunsApart == Spec => []OneRun
<1>1. Inv => OneRun
  BY DEF Inv
<1> QED
  BY InitInv, NextInv, <1>1, PTL DEF Spec

\* The flags always stand for a goroutine that runs, so a repository is never
\* blocked for good, nor marked with nobody to see it (Engine.RunRepo).
THEOREM FlagsStand == Spec => []FlagsMatch
<1>1. Inv => FlagsMatch
  BY DEF Inv
<1> QED
  BY InitInv, NextInv, <1>1, PTL DEF Spec
=============================================================================
