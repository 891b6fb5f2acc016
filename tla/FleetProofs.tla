----------------------------- MODULE FleetProofs ------------------------------
(***************************************************************************)
(* A controller hands the lease over to a stopped one at most once, for    *)
(* any controllers, nodes, priorities and thresholds.                      *)
(***************************************************************************)
EXTENDS Fleet, TLAPS

\* What yieldToBetterController keeps has its type.
SeenTyped ==
    /\ up \subseteq Controller
    /\ moved \in [Controller -> SUBSET Controller]
    /\ yielded \in [Controller -> [Controller -> {0, 1}]]

\* Nothing is counted against one that runs; and one that stopped and was
\* handed the lease since has no heartbeat left that c has not seen.
StoppedIsStill ==
    \A c, o \in Controller : /\ o \in up => yielded[c][o] = 0
                             /\ yielded[c][o] = 1 => o \notin moved[c]

YieldInv == SeenTyped /\ StoppedIsStill

\* The first states satisfy the invariant.
LEMMA YieldInit == Init => YieldInv
  BY DEF Init, YieldInv, SeenTyped, StoppedIsStill

\* A round looks at heartbeats: whoever c hands over to has one that moved,
\* and c has seen it from then on.
LEMMA RoundKeeps ==
  ASSUME YieldInv, NEW c \in Controller, Round(c)
  PROVE  YieldInv'
<1>1. CASE pause[c] # {} \/ leader \notin {c, None}
  BY <1>1 DEF Round, YieldInv, SeenTyped, StoppedIsStill
<1>2. CASE ~(pause[c] # {} \/ leader \notin {c, None})
  <2> DEFINE looked == {o \in Before(c) : Alive(c, o)}
             seen(first) == IF first = None THEN Before(c) ELSE {first} \cup (Before(c) \ looked)
  <2>1. PICK first \in IF looked = {} THEN {None} ELSE looked :
          /\ moved' = [moved EXCEPT ![c] = @ \ seen(first)]
          /\ yielded' = IF first \in Controller \ up /\ yielded[c][first] < 2
                        THEN [yielded EXCEPT ![c][first] = @ + 1] ELSE yielded
    BY <1>2 DEF Round
  <2>2. up' = up
    BY DEF Round
  <2>3. moved' \in [Controller -> SUBSET Controller]
    BY <2>1 DEF YieldInv, SeenTyped
  <2>4. CASE first \in Controller \ up
    <3>1. first # None /\ first \in moved[c] /\ first \in seen(first)
      BY <2>1, <2>4, FleetAssumption DEF Alive
    <3>2. yielded[c][first] = 0
      BY <2>4, <3>1 DEF YieldInv, SeenTyped, StoppedIsStill
    <3>3. yielded' = [yielded EXCEPT ![c][first] = 1]
      BY <2>1, <2>4, <3>2 DEF YieldInv, SeenTyped
    <3>4. SeenTyped'
      BY <2>2, <2>3, <2>4, <3>3 DEF YieldInv, SeenTyped
    <3>5. StoppedIsStill'
      BY <2>1, <2>2, <2>4, <3>1, <3>3 DEF YieldInv, SeenTyped, StoppedIsStill
    <3> QED
      BY <3>4, <3>5 DEF YieldInv
  <2>5. CASE first \notin Controller \ up
    BY <2>1, <2>2, <2>3, <2>5 DEF YieldInv, SeenTyped, StoppedIsStill
  <2> QED
    BY <2>4, <2>5
<1> QED
  BY <1>1, <1>2

\* Every step keeps the invariant.
LEMMA YieldStep == YieldInv /\ [Next]_vars => YieldInv'
<1> SUFFICES ASSUME YieldInv, [Next]_vars PROVE YieldInv'
  OBVIOUS
<1> USE DEF YieldInv, SeenTyped, StoppedIsStill
<1>1. ASSUME NEW c \in Controller, Beat(c) PROVE YieldInv'
  BY <1>1 DEF Beat
<1>2. ASSUME NEW c \in Controller, Ages(c) PROVE YieldInv'
  BY <1>2 DEF Ages, leading
<1>3. ASSUME NEW c \in Controller, Round(c) PROVE YieldInv'
  BY <1>3, RoundKeeps
<1>4. ASSUME NEW c \in Controller, AskAgain(c) PROVE YieldInv'
  BY <1>4 DEF AskAgain, leading
<1>5. ASSUME NEW c \in Controller, Stop(c) PROVE YieldInv'
  BY <1>5 DEF Stop
<1>6. ASSUME NEW c \in Controller, Start(c) PROVE YieldInv'
  BY <1>6 DEF Start
<1>7. ASSUME NEW c \in Controller, NetChanges(c) PROVE YieldInv'
  BY <1>7 DEF NetChanges, leading
<1>8. ASSUME NEW c \in Controller, NEW n \in Node, Check(c, n) PROVE YieldInv'
  BY <1>8 DEF Check, leading
<1>9. ASSUME NEW c \in Controller \cup {None}, Choose(c) PROVE YieldInv'
  BY <1>9 DEF Choose, leading
<1>10. ASSUME NEW n \in Node, Changes(n) PROVE YieldInv'
  BY <1>10 DEF Changes, leading
<1>11. CASE LeaseEnds
  BY <1>11 DEF LeaseEnds
<1>12. CASE LoseLease
  BY <1>12 DEF LoseLease
<1>13. CASE UNCHANGED vars
  BY <1>13 DEF vars
<1> QED
  BY <1>1, <1>2, <1>3, <1>4, <1>5, <1>6, <1>7, <1>8, <1>9, <1>10, <1>11, <1>12, <1>13 DEF Next

\* However its stop, its last heartbeat and the administrators' choices fall,
\* a controller that has stopped is handed the lease at most once by another
\* (yieldToBetterController's `seen': a stopped one's heartbeat never moves).
THEOREM HandsOverOnce == Spec => []YieldsOnce
<1>1. YieldInv => YieldsOnce
  BY DEF YieldInv, SeenTyped, YieldsOnce
<1> QED
  BY YieldInit, YieldStep, <1>1, PTL DEF Spec
===============================================================================
