----------------------------- MODULE Supervise -----------------------------
(***************************************************************************)
(* What a controller does with its leadership: Elector.Supervise, wait and *)
(* notify (internal/leader/elector.go), the leader-only work main.go runs  *)
(* under it, and the runs a webhook starts beside it (leaderDispatcher,    *)
(* Engine.Trigger and Syncer.Trigger, which detach from the context they   *)
(* are given).                                                             *)
(***************************************************************************)
EXTENDS Lease

CONSTANT
  Punctual   \* does a process serve its timers and channels before time passes?

ASSUME PunctualAssumption == Punctual \in BOOLEAN

VARIABLES
  sup,     \* where Supervise is
  told,    \* a notification waits in the channel
  poll,    \* time to the expiry of wait's timer; 0 makes wait look again
  lapse,   \* how long work has gone on, uncancelled, since the lease was lost
  runs     \* is a triggered run under way?

supVars == <<sup, told, poll, lapse, runs>>
allVars == <<vars, supVars>>

\* "wait": wait(true); "work": work runs, wait(false); "lost": cancelled because
\* leadership was lost; "quit": cancelled because the context ended.
SupPhase == {"none", "wait", "work", "lost", "quit"}
Waiting(p) == sup[p] \in {"wait", "work"}
Working(p) == sup[p] = "work"

\* The election's state and what Supervise adds to it stay in their types.
SupTypeOK ==
  /\ TypeOK
  /\ sup \in [Process -> SupPhase]
  /\ told \in [Process -> BOOLEAN]
  /\ poll \in [Process -> 0..Renew]
  /\ lapse \in [Process -> 0..(Renew + 1)]
  /\ runs \in [Process -> BOOLEAN]

SupInit ==
  /\ Init
  /\ sup = [p \in Process |-> "none"]
  /\ told = [p \in Process |-> FALSE]
  /\ poll = [p \in Process |-> 0]
  /\ lapse = [p \in Process |-> 0]
  /\ runs = [p \in Process |-> FALSE]

\* A call to wait subscribes anew and looks before it blocks.
EnterWait(p, phase) ==
  /\ sup' = [sup EXCEPT ![p] = phase]
  /\ told' = [told EXCEPT ![p] = FALSE]
  /\ poll' = [poll EXCEPT ![p] = 0]

\* A mutant of LookAgain sets wait's timer for a lease, not for a renewal.
LookLater(p) == poll' = [poll EXCEPT ![p] = Renew + 1]
LookAgain(p) == poll' = [poll EXCEPT ![p] = Renew]

Woken(p) == told[p] \/ poll[p] = 0

\* wait: leadership is as wanted, and Supervise goes on.
StartWork(p) ==
  /\ sup[p] = "wait" /\ Woken(p) /\ Leading(p)
  /\ EnterWait(p, "work")
  /\ UNCHANGED <<vars, lapse, runs>>

CancelWork(p) ==
  /\ sup[p] = "work" /\ Woken(p) /\ ~Leading(p)
  /\ sup' = [sup EXCEPT ![p] = "lost"]
  /\ told' = [told EXCEPT ![p] = FALSE]
  /\ poll' = [poll EXCEPT ![p] = 0]
  /\ lapse' = [lapse EXCEPT ![p] = 0]
  /\ UNCHANGED <<vars, runs>>

\* wait: not yet; the timer starts again.
WaitOn(p) ==
  /\ Waiting(p) /\ Woken(p)
  /\ Leading(p) # (sup[p] = "wait")
  /\ told' = [told EXCEPT ![p] = FALSE]
  /\ LookAgain(p)
  /\ UNCHANGED <<vars, sup, lapse, runs>>

\* wait: the context has ended.
QuitWait(p) ==
  /\ Waiting(p) /\ stop[p]
  /\ sup' = [sup EXCEPT ![p] = IF Working(p) THEN "quit" ELSE "none"]
  /\ told' = [told EXCEPT ![p] = FALSE]
  /\ poll' = [poll EXCEPT ![p] = 0]
  /\ lapse' = [lapse EXCEPT ![p] = 0]
  /\ UNCHANGED <<vars, runs>>

\* The cancelled work has returned: wait again, or leave.  The mutant of
\* WorkStops leaves in either case.
LeaveForGood(p) ==
  /\ sup[p] \in {"lost", "quit"}
  /\ EnterWait(p, "none")
  /\ UNCHANGED <<vars, lapse, runs>>
WorkStops(p) ==
  /\ sup[p] \in {"lost", "quit"}
  /\ EnterWait(p, IF sup[p] = "lost" THEN "wait" ELSE "none")
  /\ UNCHANGED <<vars, lapse, runs>>

\* A delivery that passes leaderDispatcher starts a run in a goroutine of its
\* own, under context.WithoutCancel.
Trigger(p) ==
  /\ Live(p) /\ Leading(p) /\ ~runs[p]
  /\ runs' = [runs EXCEPT ![p] = TRUE]
  /\ UNCHANGED <<vars, sup, told, poll, lapse>>

RunEnds(p) ==
  /\ runs[p]
  /\ runs' = [runs EXCEPT ![p] = FALSE]
  /\ UNCHANGED <<vars, sup, told, poll, lapse>>

\* The election's steps that end in notify, and those that do not.
Notifying(p) == Answer(p) \/ AcquireFails(p) \/ HandOverEnds(p) \/ StepDownEnds(p)
Silent(p) ==
  \/ SkipRound(p) \/ SendAcquire(p) \/ KeepLease(p) \/ HandOver(p)
  \/ StepDown(p) \/ StopStandby(p)

Notify(p) ==
  /\ Notifying(p)
  /\ told' = [told EXCEPT ![p] = Waiting(p)]
  /\ lapse' = [lapse EXCEPT ![p] = IF Leading(p)' THEN 0 ELSE @]
  /\ UNCHANGED <<sup, poll, runs>>

Proceed(p) == Silent(p) /\ UNCHANGED supVars

\* main starts Run and Supervise together.
StartAll(p) ==
  /\ Start(p)
  /\ EnterWait(p, "wait")
  /\ UNCHANGED <<lapse, runs>>

CrashAll(p) ==
  /\ Crash(p)
  /\ EnterWait(p, "none")
  /\ lapse' = [lapse EXCEPT ![p] = 0]
  /\ runs' = [runs EXCEPT ![p] = FALSE]

\* What happens around the processes does not touch Supervise.
Outside ==
  /\ \/ \E p \in Process : Serve(p) \/ Stray(p) \/ RequestStop(p)
     \/ \E m \in late : LoseLate(m)
     \/ DatabaseTurns
  /\ UNCHANGED supVars

TimePasses ==
  /\ Tick
  /\ Punctual => \A p \in Process : Waiting(p) => ~Woken(p)
  /\ poll' = [p \in Process |-> IF Waiting(p) THEN Less(poll[p]) ELSE poll[p]]
  /\ lapse' = [p \in Process |-> IF Working(p) /\ ~Leading(p)
                                 THEN AtMost(lapse[p] + 1, Renew + 1) ELSE lapse[p]]
  /\ UNCHANGED <<sup, told, runs>>

Attend(p) == StartWork(p) \/ CancelWork(p) \/ WaitOn(p) \/ QuitWait(p) \/ WorkStops(p)

SupNext ==
  \/ \E p \in Process :
       \/ StartAll(p) \/ CrashAll(p) \/ Notify(p) \/ Proceed(p)
       \/ Attend(p) \/ Trigger(p) \/ RunEnds(p)
  \/ Outside
  \/ TimePasses

SupSpec == SupInit /\ [][SupNext]_allVars

(* Supervise, like Run, is a loop that keeps running, and the leader-only   *)
(* work (Scanner.Run, Installer.Run) returns when its context ends.        *)
SupLiveSpec ==
  /\ SupSpec
  /\ \A p \in Process :
       /\ WF_allVars(Attend(p))
       /\ WF_allVars(StartAll(p) \/ Notify(p) \/ Proceed(p) \/ (Serve(p) /\ UNCHANGED supVars))
  /\ WF_allVars(TimePasses)

-----------------------------------------------------------------------------
(* Properties.                                                             *)

\* Work that has lost the lease is cancelled within one renewal period, also
\* when the lease ran out without anybody being told (wait).
CancelledWithinRenew == \A p \in Process : lapse[p] <= Renew

\* Work follows leadership: a process that leads for good ends up working for
\* good, one that never leads again stops working for good (Supervise).
WorkFollowsLeadership ==
  \A p \in Process :
    /\ <>[](Leading(p) /\ Steady(p)) => <>[]Working(p)
    /\ <>[]~Leading(p) => <>[]~Working(p)

\* What elector.go says ("everything that changes a Forgejo node ... runs under
\* Supervise, whose context is cancelled the moment leadership is lost"): no
\* run goes on at one controller while another leads.
RunsUnderLease == \A p, q \in Process : runs[p] /\ Leading(q) => p = q
=============================================================================
