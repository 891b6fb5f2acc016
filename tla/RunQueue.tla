------------------------------ MODULE RunQueue ------------------------------
(***************************************************************************)
(* How one controller keeps the runs of one repository apart and forgets   *)
(* no trigger: `running` and `again` in Engine.Trigger and Engine.RunRepo  *)
(* (internal/replication/engine.go), and in Syncer.Trigger and RunRepo     *)
(* (internal/issues/sync.go).  Both key everything by the repository's id, *)
(* so one repository stands for all of them.                               *)
(***************************************************************************)
EXTENDS Integers

CONSTANTS
  Caller,    \* goroutines that ask for a run
  Issues     \* the issue syncer's queue (TRUE) or the replication engine's

ASSUME RunQueueAssumption == Issues \in BOOLEAN

VARIABLES
  running, again,  \* the two maps, at this repository
  pc,              \* where each goroutine is
  bound,           \* goroutines whose context ends with leadership
  led,             \* the leader's work is under way (Supervise)
  due,             \* a round of the leader's work has still to be made
  known,           \* the repository has a record
  unseen           \* a trigger that no run has begun after

vars == <<running, again, pc, bound, led, due, known, unseen>>

\* "enter": about to call RunRepo; "run": in runPasses or runOnce;
\* "fetch": between two runs, the lock released and the record read anew.
Phase == {"idle", "enter", "run", "fetch"}
Busy(c) == pc[c] \in {"run", "fetch"}

\* The two flags of RunRepo and each goroutine's place stay in their types.
TypeOK ==
  /\ running \in BOOLEAN /\ again \in BOOLEAN
  /\ pc \in [Caller -> Phase]
  /\ bound \subseteq Caller
  /\ led \in BOOLEAN /\ due \in BOOLEAN /\ known \in BOOLEAN /\ unseen \in BOOLEAN

Init ==
  /\ running = FALSE /\ again = FALSE
  /\ pc = [c \in Caller |-> "idle"]
  /\ bound = {} /\ led = FALSE /\ due = FALSE
  /\ known = TRUE /\ unseen = FALSE

Ended(c) == c \in bound /\ ~led

\* A delivery or an administrator asks for a run.  The engine looks first: a
\* busy repository is only marked.  The syncer leaves that to RunRepo.
Trigger(c) ==
  /\ pc[c] = "idle" /\ known
  /\ unseen' = TRUE
  /\ IF running /\ ~Issues
     THEN again' = TRUE /\ UNCHANGED <<pc, bound>>
     ELSE /\ pc' = [pc EXCEPT ![c] = "enter"]
          /\ bound' = bound \ {c}              \* context.WithoutCancel
          /\ UNCHANGED again
  /\ UNCHANGED <<running, led, due, known>>

\* RunAll comes to this repository, under the leader's context.
Round(c) ==
  /\ pc[c] = "idle" /\ led /\ known /\ due
  /\ due' = FALSE
  /\ pc' = [pc EXCEPT ![c] = "enter"]
  /\ bound' = bound \cup {c}
  /\ UNCHANGED <<running, again, led, known, unseen>>

\* RunRepo's test of `running`; its mutant has none.
AnyTime == TRUE
Free == ~running

\* RunRepo begins: one run at a time, and a mark for the one that is in the way.
Enter(c) ==
  /\ pc[c] = "enter"
  /\ IF Free
     THEN /\ running' = TRUE /\ unseen' = FALSE
          /\ pc' = [pc EXCEPT ![c] = "run"]
          /\ UNCHANGED again
     ELSE /\ again' = TRUE
          /\ pc' = [pc EXCEPT ![c] = "idle"]
          /\ UNCHANGED <<running, unseen>>
  /\ UNCHANGED <<bound, led, due, known>>

\* Does a run that has ended leave it at that?  The syncer also does when the
\* run failed.  The mutant makes a triggered run once and no more.
OnlyRounds(c, failed) == c \notin bound \/ ~again \/ Ended(c)
Leaves(c, failed) == ~again \/ Ended(c) \/ (Issues /\ failed)

\* The mark is taken down under the same lock.  The mutant only does so when it
\* goes on, as the engine does for a repository that is gone.
ClearToGoOn(c, failed) == again' = (again /\ Leaves(c, failed))
Clear(c, failed) == again' = FALSE

\* A run ended: its goroutine leaves the queue, or goes on to the next run.
RunEnds(c, failed) ==
  /\ pc[c] = "run"
  /\ Clear(c, failed)
  /\ IF Leaves(c, failed)
     THEN running' = FALSE /\ pc' = [pc EXCEPT ![c] = "idle"] /\ UNCHANGED unseen
     ELSE /\ IF Issues THEN UNCHANGED pc /\ unseen' = FALSE
             ELSE pc' = [pc EXCEPT ![c] = "fetch"] /\ UNCHANGED unseen
          /\ UNCHANGED running
  /\ UNCHANGED <<bound, led, due, known>>

\* The engine reads the record again; one that is gone ends it here, with
\* `again` as a trigger meanwhile has left it.
Fetched(c) ==
  /\ pc[c] = "fetch"
  /\ IF known THEN unseen' = FALSE /\ pc' = [pc EXCEPT ![c] = "run"] /\ UNCHANGED running
     ELSE running' = FALSE /\ pc' = [pc EXCEPT ![c] = "idle"] /\ UNCHANGED unseen
  /\ UNCHANGED <<again, bound, led, due, known>>

\* Any other error of that read: the run goes on with the record it had.
FetchFails(c) ==
  /\ pc[c] = "fetch"
  /\ unseen' = FALSE
  /\ pc' = [pc EXCEPT ![c] = "run"]
  /\ UNCHANGED <<running, again, bound, led, due, known>>

\* Around the queue: the leader's work begins, with a round at once
\* (Scanner.Run) and the one before all returned (Supervise); its context ends;
\* further rounds; the record is forgotten.
Lead ==
  /\ ~led /\ \A c \in bound : pc[c] = "idle"
  /\ led' = TRUE /\ due' = TRUE
  /\ UNCHANGED <<running, again, pc, bound, known, unseen>>

LoseLead ==
  /\ led /\ led' = FALSE /\ due' = FALSE
  /\ UNCHANGED <<running, again, pc, bound, known, unseen>>

NextScan ==
  /\ led /\ due' = TRUE
  /\ UNCHANGED <<running, again, pc, bound, led, known, unseen>>

Forget ==
  /\ known /\ known' = FALSE
  /\ UNCHANGED <<running, again, pc, bound, led, due, unseen>>

\* What a goroutine does once it has been asked.
Work(c) ==
  \/ Enter(c)
  \/ \E failed \in BOOLEAN : RunEnds(c, failed)
  \/ Fetched(c) \/ FetchFails(c)

Next ==
  \/ \E c \in Caller : Trigger(c) \/ Round(c) \/ Work(c)
  \/ Lead \/ LoseLead \/ NextScan \/ Forget

Spec == Init /\ [][Next]_vars

(* A goroutine keeps running, and every run ends: its HTTP calls, git and  *)
(* the database have timeouts.  A round that is due is made, but nothing   *)
(* says that another will be: a trigger must not have to wait for one.     *)
LiveSpec ==
  /\ Spec
  /\ \A c \in Caller : WF_vars(Work(c))
  /\ WF_vars(\E c \in Caller : Round(c))

-----------------------------------------------------------------------------
(* Properties.                                                             *)

\* Two runs of one repository never overlap in one controller, also across
\* the unlocked read between two runs (RunRepo).
OneRun == \A c, d \in Caller : Busy(c) /\ Busy(d) => c = d

\* A trigger that finds a run under way isn't missed: some run begins after it
\* without waiting for a round, unless the repository is forgotten or
\* leadership, whose next round looks at everything, is lost ("so the change
\* that prompted this isn't missed", Engine.Trigger).
TriggerSeen == unseen ~> ~unseen \/ ~known \/ ~led

\* `running` is set exactly while some goroutine is between its test and its
\* end, and `again` is only left behind for a repository that is gone
\* (RunRepo): a repository is neither blocked for good nor run for nothing.
FlagsMatch ==
  /\ running <=> \E c \in Caller : Busy(c)
  /\ again => running \/ ~known
=============================================================================
