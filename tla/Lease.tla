------------------------------- MODULE Lease -------------------------------
(***************************************************************************)
(* The election of the acting controller: internal/leader/elector.go over  *)
(* the lease row of internal/store/leadership.go.                          *)
(*                                                                         *)
(* A member of Process is one controller PROCESS, not one machine: a       *)
(* controller that restarts takes a new holder id (NewHolderID), so it is  *)
(* another member of Process, started later.                               *)
(*                                                                         *)
(* Instants are kept as the time left until them, which every Tick         *)
(* shortens: dbLeft is expires_at - now() on the database's clock,         *)
(* until[p] and quiet[p] are e.until - e.now() and e.quiet - e.now().  All *)
(* clocks run at one rate; none is compared with another, as in the code.  *)
(***************************************************************************)
EXTENDS Integers

CONSTANTS
  Process,      \* controller processes, each started at most once
  Nobody,       \* the holder before the first lease
  TTL,          \* Options.TTL: how long a lease lasts without a renewal
  Renew,        \* Options.Renew: the period of Run's ticker
  Lag,          \* no call to a database that is up takes longer than Lag;
                \* Lag > TTL is no bound, a call gives up after TTL anyway
  LateRelease   \* may the database apply a hand-over's release after the
                \* process has given up waiting for it?

ASSUME LeaseAssumption ==
  /\ Nobody \notin Process
  /\ TTL \in Nat /\ Renew \in Nat
  /\ 0 < Renew /\ Renew < TTL          \* New: Renew >= TTL is replaced
  /\ Lag \in Nat /\ 0 < Lag
  /\ LateRelease \in BOOLEAN

VARIABLES
  holder, dbLeft,    \* the leadership row
  dbUp,              \* can the database be reached?
  late,              \* statements given up on that may still be applied
  pc, stop,          \* where Run is, and whether its context has ended
  due, beat,         \* the ticker: a tick to consume, and the time to the next
  stmt, age, grant,  \* the call under way: its statement, the time since it
                     \* was sent, and the lease it returned (0: not mine)
  until, quiet       \* Elector.until and Elector.quiet

row    == <<holder, dbLeft>>
clock  == <<due, beat>>
call   == <<stmt, age, grant>>
vars   == <<holder, dbLeft, dbUp, late, pc, stop, due, beat, stmt, age, grant,
            until, quiet>>

Phase == {"off", "idle", "acquire", "yield", "release", "stepdown",
          "stopped", "crashed"}
Live(p) == pc[p] \notin {"off", "stopped", "crashed"}

\* Elector.Leading: the process's own lease has not run out.
Leading(p) == until[p] > 0

\* The time left until an instant, one unit later.
Less(t) == IF t > 0 THEN t - 1 ELSE 0
AtMost(t, limit) == IF t < limit THEN t ELSE limit

\* handOver's pause: two renewals, never more than a lease.  Its mutant waits
\* out a whole lease and a renewal.
PauseLonger == TTL + Renew
Pause == AtMost(2 * Renew, TTL)

\* The row, every process's clocks (until, quiet) and what is on its way to the
\* database keep within their bounds.
TypeOK ==
  /\ holder \in Process \cup {Nobody}
  /\ dbLeft \in 0..TTL
  /\ dbUp \in BOOLEAN
  /\ late \subseteq Process \X {"acquire", "release"}
  /\ pc \in [Process -> Phase]
  /\ stop \in [Process -> BOOLEAN]
  /\ due \in [Process -> BOOLEAN]
  /\ beat \in [Process -> 1..Renew]
  /\ stmt \in [Process -> {"none", "sent", "reread", "done"}]
  /\ age \in [Process -> 0..TTL]
  /\ grant \in [Process -> 0..TTL]
  /\ until \in [Process -> 0..TTL]
  /\ quiet \in [Process -> 0..TTL]

Init ==
  /\ holder = Nobody /\ dbLeft = 0 /\ dbUp = TRUE /\ late = {}
  /\ pc = [p \in Process |-> "off"]
  /\ stop = [p \in Process |-> FALSE]
  /\ due = [p \in Process |-> FALSE]
  /\ beat = [p \in Process |-> Renew]
  /\ stmt = [p \in Process |-> "none"]
  /\ age = [p \in Process |-> 0]
  /\ grant = [p \in Process |-> 0]
  /\ until = [p \in Process |-> 0]
  /\ quiet = [p \in Process |-> 0]

-----------------------------------------------------------------------------
(* The process: Run, once, handOver, stepDown.                             *)

\* Run begins: the first round does not wait for the ticker.
Start(p) ==
  /\ pc[p] = "off"
  /\ pc' = [pc EXCEPT ![p] = "idle"]
  /\ due' = [due EXCEPT ![p] = TRUE]
  /\ UNCHANGED <<row, dbUp, late, stop, beat, call, until, quiet>>

\* once's first test: e.now().Before(quiet).  Its mutant forgets the pause.
NoPause(p) == FALSE
Paused(p) == quiet[p] > 0

\* A round of a process that has just handed over does nothing.
SkipRound(p) ==
  /\ pc[p] = "idle" /\ due[p] /\ ~stop[p]
  /\ Paused(p)
  /\ due' = [due EXCEPT ![p] = FALSE]
  /\ UNCHANGED <<row, dbUp, late, pc, stop, beat, call, until, quiet>>

\* once: the AcquireLease call goes out; `sent` is this moment.
SendAcquire(p) ==
  /\ pc[p] = "idle" /\ due[p] /\ ~stop[p]
  /\ ~Paused(p)
  /\ due' = [due EXCEPT ![p] = FALSE]
  /\ pc' = [pc EXCEPT ![p] = "acquire"]
  /\ stmt' = [stmt EXCEPT ![p] = "sent"]
  /\ age' = [age EXCEPT ![p] = 0]
  /\ grant' = [grant EXCEPT ![p] = 0]
  /\ UNCHANGED <<row, dbUp, late, stop, beat, until, quiet>>

\* A call is over: nothing of it is kept.
HangUp(p) ==
  /\ stmt' = [stmt EXCEPT ![p] = "none"]
  /\ age' = [age EXCEPT ![p] = 0]
  /\ grant' = [grant EXCEPT ![p] = 0]

\* The time left of a lease of length g granted to a call sent a ago:
\* until = sent.Add(lease.For()).  Its mutant counts from the answer.
SinceAnswered(g, a) == g
SinceSent(g, a) == IF g > a THEN g - a ELSE 0

\* once: the answer.  A lease that is mine counts from when the request was
\* sent; any other answer ends this process's own lease.
Answer(p) ==
  /\ pc[p] = "acquire" /\ stmt[p] = "done"
  /\ until' = [until EXCEPT ![p] = SinceSent(grant[p], age[p])]
  /\ pc' = [pc EXCEPT ![p] = IF until'[p] > 0 THEN "yield" ELSE "idle"]
  /\ HangUp(p)
  /\ UNCHANGED <<row, dbUp, late, stop, clock, quiet>>

\* once: the call failed, by the database, the shutdown, or its own timeout
\* of one TTL.  The lease this process holds is left as it is; a statement
\* under way may still reach the database.
AcquireFails(p) ==
  /\ pc[p] = "acquire"
  /\ ~dbUp \/ stop[p] \/ age[p] = TTL
  /\ late' = IF stmt[p] = "sent" THEN late \cup {<<p, "acquire">>} ELSE late
  /\ pc' = [pc EXCEPT ![p] = "idle"]
  /\ HangUp(p)
  /\ UNCHANGED <<row, dbUp, stop, clock, until, quiet>>

\* The process's own lease ends, before the row is released.  The mutant
\* leaves that to the row.
ResignLate(p) == UNCHANGED until
Resign(p) == until' = [until EXCEPT ![p] = 0]

\* Yield answered no, or there is no Yield.
KeepLease(p) ==
  /\ pc[p] = "yield"
  /\ pc' = [pc EXCEPT ![p] = "idle"]
  /\ UNCHANGED <<row, dbUp, late, stop, clock, call, until, quiet>>

\* Yield answered yes: the process stops leading before it asks the database
\* to release the row, and keeps out of the election for Pause.
HandOver(p) ==
  /\ pc[p] = "yield"
  /\ Resign(p)
  /\ quiet' = [quiet EXCEPT ![p] = Pause]
  /\ pc' = [pc EXCEPT ![p] = "release"]
  /\ stmt' = [stmt EXCEPT ![p] = "sent"]
  /\ UNCHANGED <<row, dbUp, late, stop, clock, age, grant>>

\* handOver's ReleaseLease returned, or failed: the lease then runs out.
HandOverEnds(p) ==
  /\ pc[p] = "release"
  /\ late' = IF stmt[p] = "sent" /\ LateRelease
             THEN late \cup {<<p, "release">>} ELSE late
  /\ pc' = [pc EXCEPT ![p] = "idle"]
  /\ HangUp(p)
  /\ UNCHANGED <<row, dbUp, stop, clock, until, quiet>>

\* SIGTERM, or nodes.Watch asking for a restart: the context ends.
RequestStop(p) ==
  /\ Live(p) /\ ~stop[p]
  /\ stop' = [stop EXCEPT ![p] = TRUE]
  /\ UNCHANGED <<row, dbUp, late, pc, clock, call, until, quiet>>

\* stepDown of a leader: it stops leading, then asks for the release.
StepDown(p) ==
  /\ pc[p] = "idle" /\ stop[p] /\ Leading(p)
  /\ Resign(p)
  /\ pc' = [pc EXCEPT ![p] = "stepdown"]
  /\ stmt' = [stmt EXCEPT ![p] = "sent"]
  /\ UNCHANGED <<row, dbUp, late, stop, clock, age, grant, quiet>>

\* stepDown of a process that does not lead returns at once.
StopStandby(p) ==
  /\ pc[p] = "idle" /\ stop[p] /\ ~Leading(p)
  /\ pc' = [pc EXCEPT ![p] = "stopped"]
  /\ UNCHANGED <<row, dbUp, late, stop, clock, call, until, quiet>>

\* stepDown's ReleaseLease returned or failed, and Run returns.
StepDownEnds(p) ==
  /\ pc[p] = "stepdown"
  /\ late' = IF stmt[p] = "sent" THEN late \cup {<<p, "release">>} ELSE late
  /\ pc' = [pc EXCEPT ![p] = "stopped"]
  /\ HangUp(p)
  /\ UNCHANGED <<row, dbUp, stop, clock, until, quiet>>

\* The process dies.  What it had sent may still be applied.
Crash(p) ==
  /\ Live(p)
  /\ late' = IF stmt[p] # "sent" THEN late
             ELSE late \cup {<<p, IF pc[p] = "acquire" THEN "acquire" ELSE "release">>}
  /\ pc' = [pc EXCEPT ![p] = "crashed"]
  /\ HangUp(p)
  /\ until' = [until EXCEPT ![p] = 0]
  /\ quiet' = [quiet EXCEPT ![p] = 0]
  /\ due' = [due EXCEPT ![p] = FALSE]
  /\ beat' = [beat EXCEPT ![p] = Renew]
  /\ UNCHANGED <<row, dbUp, stop>>

-----------------------------------------------------------------------------
(* The database.                                                           *)

\* AcquireLease's WHERE: the row is the caller's, or has expired.  A mutant
\* never looks at the expiry.
CanTakeOwn(p) == holder \in {p, Nobody}
CanTake(p) == holder = p \/ dbLeft = 0

TakeRow(p) == holder' = p /\ dbLeft' = TTL

\* The row after ReleaseLease: expires_at = now() where holder = $1.  A
\* mutant frees whoever's row it is.
FreeAnyRow(p) == dbLeft' = 0 /\ UNCHANGED holder
FreeRow(p) ==
  /\ dbLeft' = IF holder = p THEN 0 ELSE dbLeft
  /\ UNCHANGED holder

\* The upsert takes or renews the lease and returns it.
Acquired(p) ==
  /\ pc[p] = "acquire" /\ stmt[p] = "sent" /\ dbUp
  /\ CanTake(p)
  /\ TakeRow(p)
  /\ grant' = [grant EXCEPT ![p] = TTL]
  /\ stmt' = [stmt EXCEPT ![p] = "done"]
  /\ UNCHANGED <<dbUp, late, pc, stop, clock, age, until, quiet>>

\* The upsert matched no row: someone else has it, and a second statement
\* will read who.
Refused(p) ==
  /\ pc[p] = "acquire" /\ stmt[p] = "sent" /\ dbUp
  /\ ~CanTake(p)
  /\ stmt' = [stmt EXCEPT ![p] = "reread"]
  /\ UNCHANGED <<row, dbUp, late, pc, stop, clock, age, grant, until, quiet>>

\* Leadership: the row as it stands now.  It is the caller's own when one of
\* its late statements was applied in between.
Reread(p) ==
  /\ pc[p] = "acquire" /\ stmt[p] = "reread" /\ dbUp
  /\ grant' = [grant EXCEPT ![p] = IF holder = p THEN dbLeft ELSE 0]
  /\ stmt' = [stmt EXCEPT ![p] = "done"]
  /\ UNCHANGED <<row, dbUp, late, pc, stop, clock, age, until, quiet>>

Released(p) ==
  /\ pc[p] \in {"release", "stepdown"} /\ stmt[p] = "sent" /\ dbUp
  /\ FreeRow(p)
  /\ stmt' = [stmt EXCEPT ![p] = "done"]
  /\ UNCHANGED <<dbUp, late, pc, stop, clock, age, grant, until, quiet>>

\* A statement its sender has given up on is applied after all.  More than
\* one of a process's may be on the way, so it need not be the last.
LateAcquire(p) ==
  /\ <<p, "acquire">> \in late /\ dbUp
  /\ IF CanTake(p) THEN TakeRow(p) ELSE UNCHANGED row
  /\ late' \in {late, late \ {<<p, "acquire">>}}
  /\ UNCHANGED <<dbUp, pc, stop, clock, call, until, quiet>>

LateReleased(p) ==
  /\ <<p, "release">> \in late /\ dbUp
  /\ FreeRow(p)
  /\ late' \in {late, late \ {<<p, "release">>}}
  /\ UNCHANGED <<dbUp, pc, stop, clock, call, until, quiet>>

\* Statements that never arrive, and the database going away and coming back.
LoseLate(m) ==
  /\ m \in late
  /\ late' = late \ {m}
  /\ UNCHANGED <<row, dbUp, pc, stop, clock, call, until, quiet>>

DatabaseTurns ==
  /\ dbUp' = ~dbUp
  /\ UNCHANGED <<row, late, pc, stop, clock, call, until, quiet>>

\* Time passes by one unit for every clock.
Tick ==
  /\ \A p \in Process : pc[p] = "acquire" => age[p] < Lag
  /\ dbLeft' = Less(dbLeft)
  /\ until' = [p \in Process |-> Less(until[p])]
  /\ quiet' = [p \in Process |-> Less(quiet[p])]
  /\ age' = [p \in Process |-> IF pc[p] = "acquire" THEN AtMost(age[p] + 1, TTL) ELSE age[p]]
  /\ due' = [p \in Process |-> due[p] \/ (Live(p) /\ beat[p] = 1)]
  /\ beat' = [p \in Process |-> IF ~Live(p) THEN beat[p]
                                ELSE IF beat[p] = 1 THEN Renew ELSE beat[p] - 1]
  /\ UNCHANGED <<holder, dbUp, late, pc, stop, stmt, grant>>

\* What a process does of itself, against what is done to it.
Elect(p) ==
  \/ Start(p) \/ SkipRound(p) \/ SendAcquire(p) \/ Answer(p) \/ AcquireFails(p)
  \/ KeepLease(p) \/ HandOver(p) \/ HandOverEnds(p)
  \/ StepDown(p) \/ StopStandby(p) \/ StepDownEnds(p)

Serve(p) ==
  \/ Acquired(p) \/ Refused(p) \/ Reread(p) \/ Released(p)

Stray(p) == LateAcquire(p) \/ LateReleased(p)

Next ==
  \/ \E p \in Process : Elect(p) \/ Serve(p) \/ Stray(p) \/ RequestStop(p) \/ Crash(p)
  \/ \E m \in late : LoseLate(m)
  \/ DatabaseTurns
  \/ Tick

Spec == Init /\ [][Next]_vars

(* Fairness.  Run's loop is ordinary code that keeps running, and a call it *)
(* has made ends: the database serves it or it fails.  Time passes.        *)
(* Nothing is assumed about stops, crashes, hand-overs, or the database    *)
(* coming back.                                                            *)
Fairness ==
  /\ \A p \in Process : WF_vars(Elect(p) \/ Serve(p))
  /\ WF_vars(Tick)

LiveSpec == Spec /\ Fairness

-----------------------------------------------------------------------------
(* Properties.                                                             *)

\* At most one controller believes it leads, whatever calls were lost,
\* delayed or answered late (elector.go: "the next one to take over never
\* overlaps with it").
AtMostOneLeading ==
  \A p, q \in Process : Leading(p) /\ Leading(q) => p = q

\* A process's own lease never outlasts the row: the database still names it
\* when its own clock says its time is up (elector.go, once: "count the lease
\* from when the request went out").
LeaseWithinRow ==
  \A p \in Process : Leading(p) => holder = p /\ until[p] <= dbLeft

\* A process that handed the lease over does not lead again before its pause
\* is over, whatever was still in flight (handOver).
QuietAfterHandOver ==
  \A p \in Process : quiet[p] > 0 => ~Leading(p)

(* The inductive invariant behind AtMostOneLeading, in named parts.        *)

\* An answer on its way back grants no more than the row still holds.
GrantWithinRow ==
  \A p \in Process :
    /\ pc[p] = "acquire" /\ stmt[p] = "done"
    /\ SinceSent(grant[p], age[p]) > 0
    => holder = p /\ SinceSent(grant[p], age[p]) <= dbLeft

\* A release is only asked for by a process that has stopped leading.
ResignedFirst ==
  \A p \in Process : Leading(p) => pc[p] \in {"idle", "acquire", "yield"}

\* A release that outlives its caller comes from a process that never asks
\* for the lease again.
LateFromTheDead ==
  \A p \in Process : <<p, "release">> \in late => pc[p] \in {"stopped", "crashed"}

LeaseInv == LeaseWithinRow /\ GrantWithinRow /\ ResignedFirst /\ LateFromTheDead

\* What keeps QuietAfterHandOver: no election call is open during the pause.
QuietInv ==
  \A p \in Process : Paused(p) => ~Leading(p) /\ pc[p] \notin {"acquire", "yield"}

leaderNow ==
  IF \E p \in Process : Leading(p) THEN CHOOSE p \in Process : Leading(p) ELSE Nobody
Abstract == INSTANCE Leadership WITH leader <- leaderNow

\* The election implements the abstract leadership.
ImplementsLeadership == Abstract!Spec

Steady(p) == Live(p) /\ ~stop[p]

\* Once the database stays reachable and some controller stays up, there is a
\* leader again and again: no lost, late or refused call leaves the
\* installation without one for good.
LeaderReturns ==
  (/\ <>[](dbUp /\ late = {})
   /\ \E p \in Process : <>[]Steady(p))
  => []<>(\E p \in Process : Leading(p))
=============================================================================
