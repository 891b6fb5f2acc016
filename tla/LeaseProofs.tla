---------------------------- MODULE LeaseProofs ----------------------------
(***************************************************************************)
(* The election is correct for any processes, lease length, renewal period *)
(* and delay of the calls: TypeOK, at most one leader, a lease within its  *)
(* row, and the implementation of module Leadership.  What a controller    *)
(* does with its leadership leaves the election alone, and work that lost  *)
(* the lease is cancelled within a renewal.                                *)
(***************************************************************************)
EXTENDS Supervise, TLAPS

\* The type invariant: whatever the constants, a step keeps every variable in
\* its range (elector.go and leadership.go).
LEMMA TypeInit == Init => TypeOK
  BY LeaseAssumption DEF Init, TypeOK, Phase

LEMMA LessType == ASSUME NEW t \in 0..TTL PROVE Less(t) \in 0..TTL
  BY LeaseAssumption DEF Less

LEMMA TypeStep == TypeOK /\ [Next]_vars => TypeOK'
<1> SUFFICES ASSUME TypeOK, [Next]_vars PROVE TypeOK'
  OBVIOUS
<1> USE LeaseAssumption DEF TypeOK, Phase, row, clock, call
<1>1. ASSUME NEW p \in Process, Elect(p) PROVE TypeOK'
  <2>1. CASE Start(p)
    BY <2>1 DEF Start
  <2>2. CASE SkipRound(p)
    BY <2>2 DEF SkipRound
  <2>3. CASE SendAcquire(p)
    BY <2>3 DEF SendAcquire
  <2>4. CASE Answer(p)
    <3>1. SinceSent(grant[p], age[p]) \in 0..TTL
      BY DEF SinceSent
    <3> QED BY <2>4, <3>1 DEF Answer, HangUp
  <2>5. CASE AcquireFails(p)
    BY <2>5 DEF AcquireFails, HangUp
  <2>6. CASE KeepLease(p)
    BY <2>6 DEF KeepLease
  <2>7. CASE HandOver(p)
    <3>1. Pause \in 0..TTL
      BY DEF Pause, AtMost
    <3> QED BY <2>7, <3>1 DEF HandOver, Resign
  <2>8. CASE HandOverEnds(p)
    BY <2>8 DEF HandOverEnds, HangUp
  <2>9. CASE StepDown(p)
    BY <2>9 DEF StepDown, Resign
  <2>10. CASE StopStandby(p)
    BY <2>10 DEF StopStandby
  <2>11. CASE StepDownEnds(p)
    BY <2>11 DEF StepDownEnds, HangUp
  <2> QED BY <1>1, <2>1, <2>2, <2>3, <2>4, <2>5, <2>6, <2>7, <2>8, <2>9, <2>10, <2>11 DEF Elect
<1>2. ASSUME NEW p \in Process, Serve(p) PROVE TypeOK'
  <2>1. CASE Acquired(p)
    BY <2>1 DEF Acquired, TakeRow
  <2>2. CASE Refused(p)
    BY <2>2 DEF Refused
  <2>3. CASE Reread(p)
    BY <2>3 DEF Reread
  <2>4. CASE Released(p)
    BY <2>4 DEF Released, FreeRow
  <2> QED BY <1>2, <2>1, <2>2, <2>3, <2>4 DEF Serve
<1>3. ASSUME NEW p \in Process, Stray(p) PROVE TypeOK'
  <2>1. CASE LateAcquire(p)
    BY <2>1 DEF LateAcquire, TakeRow
  <2>2. CASE LateReleased(p)
    BY <2>2 DEF LateReleased, FreeRow
  <2> QED BY <1>3, <2>1, <2>2 DEF Stray
<1>4. ASSUME NEW p \in Process, RequestStop(p) PROVE TypeOK'
  BY <1>4 DEF RequestStop
<1>5. ASSUME NEW p \in Process, Crash(p) PROVE TypeOK'
  BY <1>5 DEF Crash, HangUp
<1>6. ASSUME NEW m \in late, LoseLate(m) PROVE TypeOK'
  BY <1>6 DEF LoseLate
<1>7. CASE DatabaseTurns
  BY <1>7 DEF DatabaseTurns
<1>8. CASE Tick
  <2>1. dbLeft' \in 0..TTL /\ until' \in [Process -> 0..TTL] /\ quiet' \in [Process -> 0..TTL]
    BY <1>8, LessType DEF Tick
  <2>2. age' \in [Process -> 0..TTL]
    BY <1>8 DEF Tick, AtMost
  <2>3. due' \in [Process -> BOOLEAN]
    BY <1>8, Zenon DEF Tick
  <2>4. beat' \in [Process -> 1..Renew]
    BY <1>8 DEF Tick
  <2> QED BY <1>8, <2>1, <2>2, <2>3, <2>4 DEF Tick
<1>9. CASE UNCHANGED vars
  BY <1>9 DEF vars
<1> QED BY <1>1, <1>2, <1>3, <1>4, <1>5, <1>6, <1>7, <1>8, <1>9 DEF Next

\* Every variable of the election keeps its type (TypeOK), for any constants.
THEOREM TypeCorrect == Spec => []TypeOK
  BY TypeInit, TypeStep, PTL DEF Spec

-----------------------------------------------------------------------------
(* The lease is within its row, so at most one process leads.  It needs    *)
(* that a hand-over's release is not applied after the process has given   *)
(* up waiting for it: the row names the holder, not which of its leases.   *)

LEMMA LeaseInit == Init => LeaseInv
  BY LeaseAssumption
  DEF Init, LeaseInv, LeaseWithinRow, GrantWithinRow, ResignedFirst, LateFromTheDead,
      Leading, SinceSent

LEMMA LeaseStep ==
  ASSUME ~LateRelease, TypeOK, TypeOK', LeaseInv, [Next]_vars
  PROVE  LeaseInv'
<1> USE LeaseAssumption DEF TypeOK, Phase, row, clock, call, LeaseInv, LeaseWithinRow,
      GrantWithinRow, ResignedFirst, LateFromTheDead, Leading, SinceSent
<1>1. ASSUME NEW p \in Process, Elect(p) PROVE LeaseInv'
  <2>1. CASE Start(p)
    BY <2>1 DEF Start
  <2>2. CASE SkipRound(p)
    BY <2>2 DEF SkipRound
  <2>3. CASE SendAcquire(p)
    BY <2>3 DEF SendAcquire
  <2>4. CASE Answer(p)
    BY <2>4 DEF Answer, HangUp
  <2>5. CASE AcquireFails(p)
    BY <2>5 DEF AcquireFails, HangUp
  <2>6. CASE KeepLease(p)
    BY <2>6 DEF KeepLease
  <2>7. CASE HandOver(p)
    BY <2>7 DEF HandOver, Resign
  <2>8. CASE HandOverEnds(p)
    BY <2>8 DEF HandOverEnds, HangUp
  <2>9. CASE StepDown(p)
    BY <2>9 DEF StepDown, Resign
  <2>10. CASE StopStandby(p)
    BY <2>10 DEF StopStandby
  <2>11. CASE StepDownEnds(p)
    BY <2>11 DEF StepDownEnds, HangUp
  <2> QED BY <1>1, <2>1, <2>2, <2>3, <2>4, <2>5, <2>6, <2>7, <2>8, <2>9, <2>10, <2>11 DEF Elect
<1>2. ASSUME NEW p \in Process, Serve(p) PROVE LeaseInv'
  <2>1. CASE Acquired(p)
    BY <2>1 DEF Acquired, CanTake, TakeRow
  <2>2. CASE Refused(p)
    BY <2>2 DEF Refused
  <2>3. CASE Reread(p)
    BY <2>3 DEF Reread
  <2>4. CASE Released(p)
    BY <2>4 DEF Released, FreeRow
  <2> QED BY <1>2, <2>1, <2>2, <2>3, <2>4 DEF Serve
<1>3. ASSUME NEW p \in Process, Stray(p) PROVE LeaseInv'
  <2>1. CASE LateAcquire(p)
    BY <2>1 DEF LateAcquire, CanTake, TakeRow
  <2>2. CASE LateReleased(p)
    BY <2>2 DEF LateReleased, FreeRow
  <2> QED BY <1>3, <2>1, <2>2 DEF Stray
<1>4. ASSUME NEW p \in Process, RequestStop(p) PROVE LeaseInv'
  BY <1>4 DEF RequestStop
<1>5. ASSUME NEW p \in Process, Crash(p) PROVE LeaseInv'
  BY <1>5 DEF Crash, HangUp, Live
<1>6. ASSUME NEW m \in late, LoseLate(m) PROVE LeaseInv'
  BY <1>6 DEF LoseLate
<1>7. CASE DatabaseTurns
  BY <1>7 DEF DatabaseTurns
<1>8. CASE Tick
  BY <1>8 DEF Tick, Less, AtMost
<1>9. CASE UNCHANGED vars
  BY <1>9 DEF vars
<1> QED BY <1>1, <1>2, <1>3, <1>4, <1>5, <1>6, <1>7, <1>8, <1>9 DEF Next

LEMMA LeaseInvariant == ASSUME ~LateRelease PROVE Spec => []LeaseInv
<1>1. TypeOK /\ TypeOK' /\ LeaseInv /\ [Next]_vars => LeaseInv'
  BY LeaseStep
<1> QED BY LeaseInit, <1>1, TypeCorrect, PTL DEF Spec

\* A leader's own lease never outlasts the row (elector.go, once).
THEOREM LeaseStaysWithinRow == ASSUME ~LateRelease PROVE Spec => []LeaseWithinRow
<1>1. LeaseInv => LeaseWithinRow
  BY DEF LeaseInv
<1> QED BY LeaseInvariant, <1>1, PTL

\* At most one controller leads (elector.go, the package's promise).
THEOREM OneLeader == ASSUME ~LateRelease PROVE Spec => []AtMostOneLeading
<1>1. LeaseWithinRow => AtMostOneLeading
  BY DEF LeaseWithinRow, AtMostOneLeading
<1> QED BY LeaseStaysWithinRow, <1>1, PTL

-----------------------------------------------------------------------------
(* The pause after a hand-over, whatever the database does late.           *)

LEMMA QuietInit == Init => QuietInv
  BY DEF Init, QuietInv, Paused, Leading

LEMMA QuietStep == ASSUME TypeOK, QuietInv, [Next]_vars PROVE QuietInv'
<1> USE LeaseAssumption DEF TypeOK, Phase, row, clock, call, QuietInv, Paused, Leading
<1>1. ASSUME NEW p \in Process, Elect(p) PROVE QuietInv'
  <2>1. CASE Start(p) \/ SkipRound(p) \/ SendAcquire(p)
    BY <2>1 DEF Start, SkipRound, SendAcquire
  <2>2. CASE Answer(p) \/ AcquireFails(p)
    BY <2>2 DEF Answer, AcquireFails, HangUp, SinceSent
  <2>3. CASE KeepLease(p)
    BY <2>3 DEF KeepLease
  <2>4. CASE HandOver(p) \/ HandOverEnds(p)
    BY <2>4 DEF HandOver, Resign, HandOverEnds, HangUp
  <2>5. CASE StepDown(p) \/ StopStandby(p) \/ StepDownEnds(p)
    BY <2>5 DEF StepDown, Resign, StopStandby, StepDownEnds, HangUp
  <2> QED BY <1>1, <2>1, <2>2, <2>3, <2>4, <2>5 DEF Elect
<1>2. ASSUME NEW p \in Process, Serve(p) \/ Stray(p) PROVE QuietInv'
  BY <1>2 DEF Serve, Stray, Acquired, Refused, Reread, Released, LateAcquire, LateReleased
<1>3. ASSUME NEW p \in Process, RequestStop(p) \/ Crash(p) PROVE QuietInv'
  BY <1>3 DEF RequestStop, Crash, HangUp
<1>4. ASSUME NEW m \in late, LoseLate(m) PROVE QuietInv'
  BY <1>4 DEF LoseLate
<1>5. CASE DatabaseTurns \/ UNCHANGED vars
  BY <1>5 DEF DatabaseTurns, vars
<1>6. CASE Tick
  BY <1>6 DEF Tick, Less
<1> QED BY <1>1, <1>2, <1>3, <1>4, <1>5, <1>6 DEF Next

\* A process that handed the lease over stays out for its pause (handOver).
THEOREM StaysQuiet == Spec => []QuietAfterHandOver
<1>1. TypeOK /\ QuietInv /\ [Next]_vars => QuietInv'
  BY QuietStep
<1>2. QuietInv => QuietAfterHandOver
  BY DEF QuietInv, QuietAfterHandOver, Paused
<1> QED BY QuietInit, <1>1, <1>2, TypeCorrect, PTL DEF Spec

-----------------------------------------------------------------------------
(* The election implements module Leadership.                              *)

\* With at most one leader, leaderNow is that leader.
LEMMA LeaderNow ==
  ASSUME AtMostOneLeading, NEW p \in Process, Leading(p)
  PROVE  leaderNow = p
  BY DEF AtMostOneLeading, leaderNow

LEMMA NobodyNow == (\A p \in Process : ~Leading(p)) => leaderNow = Nobody
  BY DEF leaderNow

\* Only an answer makes a leader, and it changes no other process's lease.
LEMMA OnlyAnswersMakeLeaders ==
  ASSUME TypeOK, [Next]_vars, NEW q \in Process, Leading(q)', ~Leading(q)
  PROVE  Answer(q)
<1> USE LeaseAssumption DEF TypeOK, Leading, call
<1>1. ASSUME NEW p \in Process, Elect(p), ~Answer(p) PROVE FALSE
  BY <1>1 DEF Elect, Start, SkipRound, SendAcquire, AcquireFails, KeepLease, HandOver, Resign,
      HandOverEnds, StepDown, StopStandby, StepDownEnds, HangUp
<1>2. ASSUME NEW p \in Process, Serve(p) \/ Stray(p) PROVE FALSE
  BY <1>2 DEF Serve, Stray, Acquired, Refused, Reread, Released, LateAcquire, LateReleased
<1>3. ASSUME NEW p \in Process, RequestStop(p) \/ Crash(p) PROVE FALSE
  BY <1>3 DEF RequestStop, Crash
<1>4. ASSUME NEW m \in late, LoseLate(m) PROVE FALSE
  BY <1>4 DEF LoseLate
<1>5. CASE DatabaseTurns \/ UNCHANGED vars
  BY <1>5 DEF DatabaseTurns, vars
<1>6. CASE Tick
  BY <1>6 DEF Tick, Less
<1>7. ASSUME NEW p \in Process, Answer(p), p # q PROVE FALSE
  BY <1>7 DEF Answer
<1> QED BY <1>1, <1>2, <1>3, <1>4, <1>5, <1>6, <1>7 DEF Next

LEMMA LeaderKeeps ==
  ASSUME TypeOK, NEW p \in Process, NEW q \in Process, p # q, Answer(q), Leading(p)
  PROVE  Leading(p)'
  BY DEF TypeOK, Answer, Leading

LEMMA StepImplements ==
  ASSUME TypeOK, AtMostOneLeading, AtMostOneLeading', [Next]_vars
  PROVE  Abstract!Next \/ UNCHANGED leaderNow
<1>1. CASE \A q \in Process : ~Leading(q)'
  <2>1. leaderNow' = Nobody
    BY <1>1 DEF leaderNow
  <2>2. CASE \E p \in Process : Leading(p)
    <3>1. leaderNow # Nobody
      BY <2>2, LeaderNow, LeaseAssumption
    <3> QED BY <2>1, <3>1 DEF Abstract!Next, Abstract!Lose
  <2>3. CASE \A p \in Process : ~Leading(p)
    BY <2>1, <2>3, NobodyNow
  <2> QED BY <2>2, <2>3
<1>2. ASSUME NEW q \in Process, Leading(q)' PROVE Abstract!Next \/ UNCHANGED leaderNow
  <2>1. leaderNow' = q
    BY <1>2 DEF leaderNow, AtMostOneLeading
  <2>2. CASE Leading(q)
    BY <2>1, <2>2, LeaderNow
  <2>3. CASE ~Leading(q)
    <3>1. Answer(q)
      BY <1>2, <2>3, OnlyAnswersMakeLeaders
    <3>2. ASSUME NEW p \in Process, Leading(p) PROVE FALSE
      <4>1. Leading(p)'
        BY <3>1, <3>2, <2>3, LeaderKeeps
      <4> QED BY <1>2, <2>3, <3>2, <4>1 DEF AtMostOneLeading
    <3>3. leaderNow = Nobody
      BY <3>2, NobodyNow
    <3> QED BY <2>1, <3>3 DEF Abstract!Next, Abstract!Take
  <2> QED BY <2>2, <2>3
<1> QED BY <1>1, <1>2

\* The election implements Leadership: one leader at a time, and a moment
\* without one before the next (elector.go, the package's promise).
THEOREM Implements == ASSUME ~LateRelease PROVE Spec => ImplementsLeadership
<1>1. Init => Abstract!Init
  BY DEF Init, Abstract!Init, leaderNow, Leading
<1>2. TypeOK /\ AtMostOneLeading /\ AtMostOneLeading' /\ [Next]_vars
      => [Abstract!Next]_leaderNow
  BY StepImplements
<1> QED BY <1>1, <1>2, TypeCorrect, OneLeader, PTL DEF Spec, ImplementsLeadership, Abstract!Spec

-----------------------------------------------------------------------------
(* Supervise does not disturb the election.                                *)

LEMMA StepOfLease == SupNext => [Next]_vars
<1>1. ASSUME NEW p \in Process, StartAll(p) \/ CrashAll(p) PROVE Next
  BY <1>1 DEF StartAll, CrashAll, Next, Elect
<1>2. ASSUME NEW p \in Process, Notify(p) \/ Proceed(p) PROVE Next
  BY <1>2 DEF Notify, Proceed, Notifying, Silent, Next, Elect
<1>3. ASSUME NEW p \in Process, Attend(p) \/ Trigger(p) \/ RunEnds(p) PROVE UNCHANGED vars
  BY <1>3 DEF Attend, StartWork, CancelWork, WaitOn, QuitWait, WorkStops, Trigger, RunEnds
<1>4. CASE Outside \/ TimePasses
  BY <1>4 DEF Outside, TimePasses, Next
<1> QED
  BY <1>1, <1>2, <1>3, <1>4 DEF SupNext

\* Every behaviour of Supervise is one of the election, with all it keeps: the
\* work, its channel and timers and the triggered runs are of no account to it
\* (elector.go: Run and Supervise share nothing but until and quiet).
THEOREM LeavesElectionAlone == SupSpec => Spec
<1>1. SupInit => Init
  BY DEF SupInit
<1>2. [SupNext]_allVars => [Next]_vars
  BY StepOfLease DEF allVars
<1> QED
  BY <1>1, <1>2, PTL DEF SupSpec, Spec

\* No step takes a process back to before its start.
LEMMA StaysBegun ==
  ASSUME TypeOK, [Next]_vars, NEW p \in Process, pc'[p] = "off"
  PROVE  pc[p] = "off"
<1> USE DEF TypeOK
<1>1. ASSUME NEW q \in Process, Elect(q) PROVE pc[p] = "off"
  BY <1>1 DEF Elect, Start, SkipRound, SendAcquire, Answer, AcquireFails, KeepLease, HandOver,
      HandOverEnds, StepDown, StopStandby, StepDownEnds
<1>2. ASSUME NEW q \in Process, Crash(q) PROVE pc[p] = "off"
  BY <1>2 DEF Crash
<1>3. CASE pc' = pc
  BY <1>3
<1> QED
  BY <1>1, <1>2, <1>3 DEF Next, vars, Serve, Stray, Acquired, Refused, Reread, Released, LateAcquire,
      LateReleased, RequestStop, LoseLate, DatabaseTurns, Tick

-----------------------------------------------------------------------------
(* Types.                                                                  *)

SupTyped ==
  /\ sup \in [Process -> SupPhase]
  /\ told \in [Process -> BOOLEAN]
  /\ poll \in [Process -> 0..Renew]
  /\ lapse \in [Process -> 0..(Renew + 1)]
  /\ runs \in [Process -> BOOLEAN]

LEMMA SupTypedInit == SupInit => SupTyped
  BY LeaseAssumption DEF SupInit, SupTyped, SupPhase

LEMMA SupTypedStep == SupTyped /\ [SupNext]_allVars => SupTyped'
<1> SUFFICES ASSUME SupTyped, [SupNext]_allVars PROVE SupTyped'
  OBVIOUS
<1> USE LeaseAssumption DEF SupTyped, SupPhase
<1>1. ASSUME NEW p \in Process, StartAll(p) PROVE SupTyped'
  BY <1>1 DEF StartAll, EnterWait
<1>9. ASSUME NEW p \in Process, CrashAll(p) PROVE SupTyped'
  BY <1>9 DEF CrashAll, EnterWait
<1>2. ASSUME NEW p \in Process, Notify(p) PROVE SupTyped'
  <2>1. Waiting(p) \in BOOLEAN
    BY DEF Waiting
  <2> QED
    BY <1>2, <2>1 DEF Notify
<1>3. ASSUME NEW p \in Process, Proceed(p) PROVE SupTyped'
  BY <1>3 DEF Proceed, supVars
<1>4. ASSUME NEW p \in Process, Attend(p) PROVE SupTyped'
  <2>1. CASE StartWork(p)
    BY <2>1 DEF StartWork, EnterWait
  <2>2. CASE CancelWork(p)
    BY <2>2 DEF CancelWork
  <2>3. CASE WaitOn(p)
    BY <2>3 DEF WaitOn, LookAgain
  <2>4. CASE QuitWait(p)
    BY <2>4 DEF QuitWait
  <2>5. CASE WorkStops(p)
    BY <2>5 DEF WorkStops, EnterWait
  <2> QED
    BY <1>4, <2>1, <2>2, <2>3, <2>4, <2>5 DEF Attend
<1>5. ASSUME NEW p \in Process, Trigger(p) \/ RunEnds(p) PROVE SupTyped'
  BY <1>5 DEF Trigger, RunEnds
<1>6. CASE Outside
  BY <1>6 DEF Outside, supVars
<1>7. CASE TimePasses
  BY <1>7 DEF TimePasses, Less, AtMost
<1>8. CASE UNCHANGED allVars
  BY <1>8 DEF allVars, supVars
<1> QED
  BY <1>1, <1>2, <1>3, <1>4, <1>5, <1>6, <1>7, <1>8, <1>9 DEF SupNext

\* The election's variables and those of Supervise keep their types, and no
\* timer or count leaves its range, for any constants.
THEOREM SupTypeCorrect == SupSpec => []SupTypeOK
<1>1. SupTypeOK <=> TypeOK /\ SupTyped
  BY DEF SupTypeOK, SupTyped
<1> QED
  BY <1>1, LeavesElectionAlone, TypeCorrect, SupTypedInit, SupTypedStep, PTL DEF SupSpec

-----------------------------------------------------------------------------
(* Work is cancelled within a renewal of losing the lease.                 *)

\* Where work goes on without the lease, the time it has done so and the time
\* to wait's next look are no more than a renewal together; elsewhere there is
\* no such time.
CancelInv ==
  \A p \in Process :
    IF Working(p) /\ ~Leading(p) THEN lapse[p] + poll[p] <= Renew ELSE lapse[p] = 0

\* Supervise has not begun where Run has not.
NotBegun == \A p \in Process : pc[p] = "off" => sup[p] = "none"

LEMMA NotBegunStep ==
  ASSUME TypeOK, SupTyped, NotBegun, [SupNext]_allVars
  PROVE  NotBegun'
<1> SUFFICES ASSUME NEW p \in Process, pc'[p] = "off" PROVE sup'[p] = "none"
  BY DEF NotBegun
<1>1. pc[p] = "off"
  BY StepOfLease, StaysBegun DEF allVars
<1>2. sup[p] = "none" /\ ~Live(p)
  BY <1>1 DEF NotBegun, Live
<1>3. ASSUME NEW q \in Process, StartAll(q) \/ CrashAll(q) PROVE sup'[p] = "none"
  <2>1. q # p
    BY <1>1, <1>3 DEF StartAll, CrashAll, Start, Crash, Live, TypeOK, Phase
  <2> QED
    BY <1>2, <1>3, <2>1 DEF StartAll, CrashAll, EnterWait, SupTyped
<1>4. ASSUME NEW q \in Process, Attend(q) PROVE sup'[p] = "none"
  BY <1>2, <1>4 DEF Attend, StartWork, CancelWork, WaitOn, QuitWait, WorkStops, EnterWait, Waiting,
      SupTyped, SupPhase
<1>5. CASE sup' = sup
  BY <1>2, <1>5
<1> QED
  BY <1>3, <1>4, <1>5 DEF SupNext, Notify, Proceed, Trigger, RunEnds, Outside, TimePasses, allVars, supVars

LEMMA CancelInit == SupInit => CancelInv
  BY DEF SupInit, CancelInv, Working

\* Leadership is gained by Answer, which clears the count, and lost with a
\* count of nothing and a timer that is set for a renewal at most.
LEMMA ElectionKeeps ==
  ASSUME TypeOK, SupTyped, CancelInv, NEW p \in Process, Notify(p) \/ Proceed(p)
  PROVE  CancelInv'
<1> USE LeaseAssumption DEF TypeOK, SupTyped, Leading, Working
<1>1. [Next]_vars
  BY StepOfLease DEF SupNext
<1>2. ASSUME NEW q \in Process, q # p PROVE Leading(q)' = Leading(q)
  BY <1>2 DEF Notify, Proceed, Notifying, Silent, call, clock, Answer, AcquireFails, HandOverEnds,
      StepDownEnds, SkipRound, SendAcquire, KeepLease, HandOver, Resign, StepDown, StopStandby
<1>3. sup' = sup /\ poll' = poll
  BY DEF Notify, Proceed, supVars
<1>4. ASSUME NEW q \in Process, q # p PROVE lapse'[q] = lapse[q]
  BY <1>4 DEF Notify, Proceed, supVars
<1>5. IF Working(p)' /\ ~Leading(p)' THEN lapse'[p] + poll'[p] <= Renew ELSE lapse'[p] = 0
  <2>1. CASE Leading(p)'
    <3>1. CASE Notify(p)
      BY <2>1, <3>1 DEF Notify
    <3>2. CASE Proceed(p)
      <4>1. ~Answer(p)
        BY <3>2 DEF Proceed, Silent, Answer, SkipRound, SendAcquire, KeepLease, HandOver, StepDown, StopStandby
      <4>2. Leading(p)
        BY <1>1, <2>1, <4>1, OnlyAnswersMakeLeaders
      <4> QED
        BY <2>1, <3>2, <4>2 DEF CancelInv, Proceed, supVars
    <3> QED
      BY <3>1, <3>2
  <2>2. CASE ~Leading(p)'
    <3>1. lapse'[p] = lapse[p]
      BY <2>2 DEF Notify, Proceed, supVars
    <3> QED
      BY <1>3, <2>2, <3>1 DEF CancelInv
  <2> QED
    BY <2>1, <2>2
<1> QED
  BY <1>2, <1>3, <1>4, <1>5 DEF CancelInv

LEMMA CancelStep ==
  ASSUME Punctual, TypeOK, SupTyped, NotBegun, CancelInv, [SupNext]_allVars
  PROVE  CancelInv'
<1> USE LeaseAssumption DEF TypeOK, SupTyped, SupPhase, Leading, Working, CancelInv
<1>1. ASSUME NEW p \in Process, StartAll(p) PROVE CancelInv'
  BY <1>1 DEF StartAll, EnterWait, Start, NotBegun
<1>2. ASSUME NEW p \in Process, CrashAll(p) PROVE CancelInv'
  BY <1>2 DEF CrashAll, EnterWait, Crash
<1>3. ASSUME NEW p \in Process, Notify(p) \/ Proceed(p) PROVE CancelInv'
  BY <1>3, ElectionKeeps
<1>4. ASSUME NEW p \in Process, Attend(p) PROVE CancelInv'
  <2>1. until' = until
    BY <1>4 DEF vars, Attend, StartWork, CancelWork, WaitOn, QuitWait, WorkStops
  <2>2. CASE StartWork(p)
    BY <2>1, <2>2 DEF StartWork, EnterWait
  <2>3. CASE CancelWork(p)
    BY <2>1, <2>3 DEF CancelWork
  <2>4. CASE WaitOn(p)
    BY <2>1, <2>4 DEF WaitOn, LookAgain, Waiting
  <2>5. CASE QuitWait(p)
    BY <2>1, <2>5 DEF QuitWait, Waiting
  <2>6. CASE WorkStops(p)
    BY <2>1, <2>6 DEF WorkStops, EnterWait
  <2> QED
    BY <1>4, <2>2, <2>3, <2>4, <2>5, <2>6 DEF Attend
<1>5. ASSUME NEW p \in Process, Trigger(p) \/ RunEnds(p) PROVE CancelInv'
  BY <1>5 DEF vars, Trigger, RunEnds
<1>6. CASE Outside
  <2>1. until' = until
    BY <1>6 DEF Outside, Serve, Stray, RequestStop, LoseLate, DatabaseTurns, Acquired, Refused,
        Reread, Released, LateAcquire, LateReleased
  <2> QED
    BY <1>6, <2>1 DEF Outside, supVars
<1>7. CASE TimePasses
  <2>1. ASSUME NEW p \in Process
        PROVE  IF Working(p)' /\ ~Leading(p)' THEN lapse'[p] + poll'[p] <= Renew ELSE lapse'[p] = 0
    <3>1. sup' = sup /\ until'[p] = Less(until[p])
      BY <1>7 DEF TimePasses, Tick
    <3>2. CASE ~Working(p)
      BY <1>7, <3>1, <3>2 DEF TimePasses
    <3>3. CASE Working(p) /\ Leading(p)
      BY <1>7, <3>1, <3>3 DEF TimePasses, Waiting, Less
    <3>4. CASE Working(p) /\ ~Leading(p)
      <4>1. poll[p] > 0
        BY <1>7, <3>4 DEF TimePasses, Waiting, Woken
      <4>2. lapse'[p] = lapse[p] + 1 /\ poll'[p] = poll[p] - 1
        BY <1>7, <3>4, <4>1 DEF TimePasses, Waiting, Less, AtMost
      <4>3. ~Leading(p)'
        BY <3>1, <3>4 DEF Less
      <4> QED
        BY <3>1, <3>4, <4>2, <4>3
    <3> QED
      BY <3>2, <3>3, <3>4
  <2> QED
    BY <2>1
<1>8. CASE UNCHANGED allVars
  BY <1>8 DEF allVars, supVars, vars
<1> QED
  BY <1>1, <1>2, <1>3, <1>4, <1>5, <1>6, <1>7, <1>8 DEF SupNext

\* Work that lost the lease is cancelled within a renewal (wait, Supervise), of
\* a process that serves its timers in time.
THEOREM WorkIsCancelled == ASSUME Punctual PROVE SupSpec => []CancelledWithinRenew
<1>1. TypeOK /\ SupTyped /\ NotBegun /\ CancelInv /\ [SupNext]_allVars => CancelInv'
  BY CancelStep
<1>3. TypeOK /\ SupTyped /\ NotBegun /\ [SupNext]_allVars => NotBegun'
  BY NotBegunStep
<1>4. SupInit => NotBegun
  BY DEF SupInit, NotBegun
<1>2. SupTyped /\ CancelInv => CancelledWithinRenew
  <2> SUFFICES ASSUME SupTyped, CancelInv, NEW p \in Process PROVE lapse[p] <= Renew
    BY DEF CancelledWithinRenew
  <2>1. lapse[p] + poll[p] <= Renew \/ lapse[p] = 0
    BY Zenon DEF CancelInv
  <2> QED
    BY <2>1, LeaseAssumption DEF SupTyped
<1> QED
  BY <1>1, <1>2, <1>3, <1>4, CancelInit, LeavesElectionAlone, TypeCorrect, SupTypedInit, SupTypedStep, PTL DEF SupSpec

=============================================================================
