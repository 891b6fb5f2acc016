-------------------------------- MODULE Fleet --------------------------------
(***************************************************************************)
(* Several controllers beside one another: each watches the nodes, only    *)
(* the acting one writes what it sees (health: health.go, monitor.go,      *)
(* uplink.go; store.RecordNodeStatus; main.go: leaderRecorder), and the    *)
(* one that should act gets the lease from the one that does (main.go:     *)
(* recordController, yieldToBetterController; store/controllers.go).       *)
(*                                                                         *)
(* The lease is that of module Lease at a distance: it is one's or         *)
(* nobody's, and its length, its renewals and what happens to them are     *)
(* left out.  Time is left out too: a pause of two renewals is the time in *)
(* which every other controller has had a round.                           *)
(***************************************************************************)
EXTENDS Naturals, FiniteSets

CONSTANTS
    Controller,
    Node,
    None,        \* no controller
    Priority,    \* Controller.Priority: lower goes first, 0 is no preference
    Threshold,   \* Health.FailureThreshold
    Condition,   \* what can be the matter with a node
    MaxFaults    \* bound on failures, stops and choices

ASSUME FleetAssumption ==
    /\ None \notin Controller /\ Priority \in [Controller -> Nat]
    /\ Threshold \in Nat \ {0} /\ MaxFaults \in Nat
    /\ "ok" \in Condition /\ Condition \subseteq {"ok", "ill", "locked", "down"}

VARIABLES
    up,       \* the controllers that are running
    leader,   \* whose the lease is
    pause,    \* pause[c]: whom c leaves the lease to, having handed it over
    chosen,   \* an administrator's choice
    old,      \* controllers whose last heartbeat is more than three beats ago
    known, moved,   \* yield's seen: the heartbeats c knows, and those since
    node, net,      \* what is the matter with a node, and with c's network
    status, failures,   \* Monitor.status
    asked,    \* what the uplink's probe said, this interval
    row,      \* node_status
    faults,
    yielded   \* yielded[c][o]: how often c handed over to o since o stopped, up to 2

people == <<chosen, node, net>>
watching == <<status, failures, asked, row>>
leading == <<leader, pause, known, moved, yielded>>
vars == <<up, leader, pause, chosen, old, known, moved, node, net, status, failures, asked, row, faults, yielded>>

-----------------------------------------------------------------------------
(* Health.                                                                 *)

Reached(c, n) == net[c] /\ node[n] # "down"
Fails(c, n) == IF Reached(c, n) THEN 0 ELSE IF failures[c][n] < Threshold THEN failures[c][n] + 1 ELSE Threshold

\* health.Next
Shown(condition) == [ok |-> "HEALTHY", ill |-> "DEGRADED", locked |-> "AUTH_ERROR", down |-> "UNREACHABLE"][condition]
Found(c, n) ==
    IF Reached(c, n) THEN Shown(node[n])
    ELSE IF Fails(c, n) >= Threshold THEN "UNREACHABLE" ELSE "SUSPECT"

\* allQuiet, with n just checked
AllQuiet(c, n) == Found(c, n) # "HEALTHY" /\ \A o \in Node \ {n} : status[c][o] # "HEALTHY"

\* uplinkIsUp: asked at most once an interval
Uplink(c) == IF asked[c] = "not" THEN (IF net[c] THEN "up" ELSE "down") ELSE asked[c]

\* Mutant of Written: only what has changed is written.
WrittenIfChanged(c, n) == ~(AllQuiet(c, n) /\ Uplink(c) = "down") /\ leader = c /\ Found(c, n) # status[c][n]

\* leaderRecorder
Written(c, n) == ~(AllQuiet(c, n) /\ Uplink(c) = "down") /\ leader = c

\* CheckOnce
Check(c, n) ==
    /\ c \in up
    /\ status' = [status EXCEPT ![c][n] = Found(c, n)]
    /\ failures' = [failures EXCEPT ![c][n] = Fails(c, n)]
    /\ asked' = IF AllQuiet(c, n) THEN [asked EXCEPT ![c] = Uplink(c)] ELSE asked
    /\ row' = IF Written(c, n) THEN [row EXCEPT ![n] = Found(c, n)] ELSE row
    /\ UNCHANGED <<up, old, people, leading, faults>>

\* The interval of the probe ends.
AskAgain(c) ==
    /\ c \in up /\ asked[c] # "not" /\ asked' = [asked EXCEPT ![c] = "not"]
    /\ UNCHANGED <<up, old, people, leading, status, failures, row, faults>>

-----------------------------------------------------------------------------
(* Who should lead.                                                        *)

\* recordController
Beat(c) ==
    /\ c \in up /\ old' = old \ {c}
    /\ moved' = [o \in Controller |-> IF o \in up THEN moved[o] \cup {c} ELSE moved[o]]
    /\ UNCHANGED <<up, leader, pause, known, yielded, people, watching, faults>>

\* A stopped controller's heartbeat gets old.
Ages(c) ==
    /\ c \notin up \cup old /\ old' = old \cup {c}
    /\ UNCHANGED <<up, leading, people, watching, faults>>

\* Mutant of Alive: a recent heartbeat is enough.
AliveIfRecent(c, o) == o \in known[c] /\ o \notin old

\* alive: a heartbeat that has moved since it was last looked at
Alive(c, o) == o \in known[c] /\ o \in moved[c] /\ o \notin old

\* The controllers c looks at: the chosen one, or those to lead before it.
Before(c) ==
    IF chosen # None THEN {chosen} \ {c}
    ELSE {o \in Controller \ {c} : Priority[o] # 0 /\ Priority[o] < Priority[c]}

\* Mutant of Pause: whoever hands over is in the election at once.
NoPause(c) == {}
Pause(c) == up \ {c}

\* Elector.once: a round of c ends the pauses that waited for it.
Round(c) ==
    LET Passed(p) == [o \in Controller |-> p[o] \ {c}]
        looked == {o \in Before(c) : Alive(c, o)}
    IN  /\ c \in up
        /\ IF pause[c] # {} \/ leader \notin {c, None}
           THEN pause' = Passed(pause) /\ UNCHANGED <<leader, known, moved, yielded>>
           ELSE \* the loop ends at the first that is alive
                \E first \in IF looked = {} THEN {None} ELSE looked :
                  LET seen == IF first = None THEN Before(c) ELSE {first} \cup (Before(c) \ looked)
                  IN  /\ known' = [known EXCEPT ![c] = @ \cup seen]
                      /\ moved' = [moved EXCEPT ![c] = @ \ seen]
                      /\ leader' = IF first = None THEN c ELSE None
                      /\ pause' = IF first = None THEN Passed(pause) ELSE [Passed(pause) EXCEPT ![c] = Pause(c)]
                      /\ yielded' = IF first \in Controller \ up /\ yielded[c][first] < 2
                                  THEN [yielded EXCEPT ![c][first] = @ + 1] ELSE yielded
        /\ UNCHANGED <<up, old, people, watching, faults>>

\* The lease of a controller that is gone runs out.
LeaseEnds ==
    /\ leader \notin up \cup {None} /\ leader' = None
    /\ UNCHANGED <<up, old, pause, known, moved, yielded, people, watching, faults>>

-----------------------------------------------------------------------------
(* Failures, people, starting again.                                       *)

Fault == faults > 0 /\ faults' = faults - 1

\* A controller goes, giving the lease up on its way or not.
Stop(c) ==
    /\ c \in up /\ Fault /\ up' = up \ {c}
    /\ leader' \in {leader, IF leader = c THEN None ELSE leader}
    /\ pause' = [o \in Controller |-> IF o = c THEN {} ELSE pause[o] \ {c}]
    /\ known' = [known EXCEPT ![c] = {}] /\ moved' = [moved EXCEPT ![c] = {}]
    /\ UNCHANGED <<yielded, old, people, watching>>

\* Monitor.Restore: the states as they were left, without the failures.
Start(c) ==
    /\ c \notin up /\ c # leader /\ up' = up \cup {c}
    /\ status' = [status EXCEPT ![c] = row]
    /\ failures' = [failures EXCEPT ![c] = [n \in Node |-> 0]]
    /\ asked' = [asked EXCEPT ![c] = "not"]
    /\ yielded' = [o \in Controller |-> [yielded[o] EXCEPT ![c] = 0]]
    /\ UNCHANGED <<old, row, leader, pause, known, moved, people, faults>>

\* The leader cannot renew its lease in time.
LoseLease ==
    /\ leader \in up /\ Fault /\ leader' = None
    /\ UNCHANGED <<up, old, pause, known, moved, yielded, people, watching>>

Changes(n) ==
    /\ \E k \in Condition \ {node[n]} : node' = [node EXCEPT ![n] = k] /\ (k # "ok" => Fault) /\ (k = "ok" => UNCHANGED faults)
    /\ UNCHANGED <<up, old, chosen, net, watching, leading>>

\* A controller loses its network, or has it again.
NetChanges(c) ==
    /\ net' = [net EXCEPT ![c] = ~@] /\ (net[c] => Fault) /\ (~net[c] => UNCHANGED faults)
    /\ UNCHANGED <<up, old, chosen, node, watching, leading>>

\* Store.Choose and ClearChoice
Choose(c) ==
    /\ chosen # c /\ chosen' = c /\ Fault
    /\ UNCHANGED <<up, old, node, net, watching, leading>>

-----------------------------------------------------------------------------
Init ==
    /\ up = Controller /\ leader = None /\ chosen = None /\ old = {} /\ faults = MaxFaults
    /\ pause = [c \in Controller |-> {}] /\ yielded = [c \in Controller |-> [o \in Controller |-> 0]]
    /\ known = [c \in Controller |-> {}] /\ moved = [c \in Controller |-> {}]
    /\ node = [n \in Node |-> "ok"] /\ net = [c \in Controller |-> TRUE]
    /\ row = [n \in Node |-> "UNKNOWN"] /\ status = [c \in Controller |-> row]
    /\ failures = [c \in Controller |-> [n \in Node |-> 0]]
    /\ asked = [c \in Controller |-> "not"]

Next ==
    \/ \E c \in Controller : \/ Beat(c) \/ Ages(c) \/ Round(c) \/ AskAgain(c)
                             \/ Stop(c) \/ Start(c) \/ NetChanges(c)
                             \/ \E n \in Node : Check(c, n)
    \/ \E c \in Controller \cup {None} : Choose(c)
    \/ \E n \in Node : Changes(n)
    \/ LeaseEnds \/ LoseLease

\* Every loop of a running controller comes round; a lease runs out.  Nothing
\* that is broken has to be mended, nobody has to start what has stopped.
Fairness ==
    /\ \A c \in Controller : /\ WF_vars(Beat(c)) /\ WF_vars(Round(c)) /\ WF_vars(AskAgain(c))
                             /\ \A n \in Node : WF_vars(Check(c, n))
    /\ WF_vars(LeaseEnds)

Spec == Init /\ [][Next]_vars /\ Fairness

-----------------------------------------------------------------------------
(* Properties.                                                             *)

Steady(n, k) == node[n] = k /\ leader # None /\ leader \in up /\ net[leader]

\* What is recorded of a node becomes what is the matter with it, as long as
\* whoever leads has a network: nothing that was held back while its own
\* network was gone stays unrecorded.
RowSettles == \A n \in Node : \A k \in Condition : <>[]Steady(n, k) => <>[](row[n] = Shown(k))

Preferred(c) == c \in up /\ \/ chosen = c
                            \/ chosen = None /\ Priority[c] # 0 /\ \A o \in Controller \ {c} : Priority[o] > Priority[c]

\* The lease gets to the controller that should have it, and stays there: the
\* chosen one, or the one configured to lead before all others.
PreferredLeads == \A c \in Controller : <>[]Preferred(c) => <>[](leader = c)

\* A controller hands over at most once to one that has stopped, however the
\* stop, its last heartbeat and an administrator's choice fall: "a stopped
\* controller's heartbeat never moves".
YieldsOnce == \A c, o \in Controller : yielded[c][o] < 2
=============================================================================
