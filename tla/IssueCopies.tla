----------------------------- MODULE IssueCopies ----------------------------
(***************************************************************************)
(* Issues, comments, pull requests and labels (internal/issues): things    *)
(* people make, edit and delete on any node, of which ForgeSync keeps one  *)
(* record each, with the id of its copy on every node and the values the   *)
(* copies last agreed on.                                                  *)
(*                                                                         *)
(* This module has the nodes and the people, and the first half of a run:  *)
(* the snapshots, and finding the record of everything new.  Module Issues *)
(* has what the run then does record by record.                            *)
(*                                                                         *)
(* A thing has a key (a title, a label's name) and a text (a body, a       *)
(* colour, a pull request's state); a comment has its text only.  What     *)
(* hangs on it (reactions, files, reviews) is a set.  The author, who is   *)
(* compared with the key, is the same person throughout.                   *)
(***************************************************************************)
EXTENDS SetMerge, Sequences

CONSTANTS
    Order,       \* the nodes in the order a run visits them, the primary first
    Key, Text,   \* the values of the two fields
    Open, Closed,\* a pull request's states, in Text
    Extra,       \* reactions, attachments, reviews
    Gone,        \* where a deleted thing was
    Rec,         \* ids of records
    Kinds,       \* the kinds a run looks at
    MaxEdits,    \* bound on what people do
    MaxFaults    \* bound on failed reads and writes and on cut-off runs

Node == {Order[j] : j \in DOMAIN Order}
Primary == Order[1]

ASSUME IssuesAssumption ==
    /\ Order \in Seq(Node) /\ Len(Order) > 0
    /\ \A i, j \in DOMAIN Order : Order[i] = Order[j] => i = j
    /\ Open \in Text /\ Closed \in Text /\ 1 \in Rec /\ Rec \subseteq Nat
    /\ Gone \notin [key : Key, text : Text, extra : SUBSET Extra]
    /\ MaxEdits \in Nat /\ MaxFaults \in Nat

VARIABLES
    kind,        \* "issue", "pull", "comment" or "label"
    on,          \* on[n]: the things of node n by their id there
    worn,        \* worn[n]: the labels, by id, on the one issue labels are for
    branches,    \* the nodes that have a pull request's branches
    recs,        \* the records the store has
    wornBase,    \* the base of that issue's labels
    told,        \* open conflicts
    run,         \* the run in progress
    edits, faults,
    hist         \* what people made and did, and what ForgeSync still owes

people == <<edits, branches>>
vars == <<kind, on, worn, branches, recs, wornBase, told, run, edits, faults, hist>>

Thing == [key : Key, text : Text, extra : SUBSET Extra]
KeyField == IF kind = "comment" THEN "text" ELSE "key"
Keys == IF kind = "comment" THEN Text ELSE Key
Fields == IF kind = "comment" THEN {"text"} ELSE {"key", "text"}
\* A pull request's state is never merged.
Merged == IF kind = "pull" THEN {"key"} ELSE Fields

There(list, i) == i \in DOMAIN list /\ list[i] # Gone

\* A run: its phase, the node it is at, the snapshots, the record at hand,
\* the calls left to make for it, and what it came across.
Idle == [ph |-> "idle", at |-> 0, snap |-> << >>, wornAt |-> << >>, i |-> 0,
         rec |-> << >>, want |-> << >>, left |-> {}, have |-> << >>,
         vanished |-> {}, kept |-> {}, todo |-> {}, found |-> {},
         behind |-> FALSE, complete |-> TRUE]

N == Order[run.at]
Read == DOMAIN run.snap

Agreed(t) == [copies |-> [n \in Node |-> 1], key |-> t.key, text |-> t.text,
              extra |-> t.extra, deleted |-> FALSE]

Init ==
    /\ kind \in Kinds
    /\ \E t \in Thing :
         /\ t.text = Open
         /\ kind = "label" => t.extra = {}
         /\ \/ on = [n \in Node |-> << >>] /\ recs = << >>
            \/ on = [n \in Node |-> <<t>>] /\ recs = [i \in {1} |-> Agreed(t)]
         /\ wornBase \in IF kind = "label" /\ recs # << >> THEN {{}, {1}} ELSE {{}}
    /\ worn = [n \in Node |-> wornBase]
    /\ branches \in IF kind = "pull" /\ recs = << >> THEN {{Primary}} ELSE {Node}
    /\ told = {} /\ run = Idle
    /\ edits = MaxEdits /\ faults = MaxFaults
    /\ hist = [made |-> [k \in Keys |-> Cardinality({i \in DOMAIN on[Primary] : on[Primary][i][KeyField] = k})],
               renamed |-> FALSE, twins |-> FALSE, owed |-> FALSE, unlabelled |-> FALSE, unmarked |-> FALSE,
               remade |-> FALSE, mixed |-> FALSE, unrecorded |-> FALSE, next |-> Cardinality(DOMAIN recs) + 1,
               onPrimary |-> DOMAIN recs,
               been |-> [n \in Node |-> UNION {{<<f, on[n][i][f]>> : f \in Fields} : i \in DOMAIN on[n]}]]

-----------------------------------------------------------------------------
(* People, and Forgejo under them.                                         *)

Values(t) == {<<f, t[f]>> : f \in Fields}

Person ==
    /\ edits > 0 /\ edits' = edits - 1
    /\ UNCHANGED <<kind, branches, recs, wornBase, told, run, faults>>

Make(n, t) ==
    /\ t.extra = {}
    /\ kind = "pull" => t.text = Open /\ n \in branches
    /\ kind = "label" => \A i \in DOMAIN on[n] : There(on[n], i) => on[n][i].key # t.key
    /\ Person /\ on' = [on EXCEPT ![n] = Append(@, t)]
    /\ hist' = [hist EXCEPT !.made[t[KeyField]] = @ + 1, !.been[n] = @ \cup Values(t)]
    /\ UNCHANGED worn

Edit(n, i, f, v) ==
    /\ There(on[n], i) /\ on[n][i][f] # v
    /\ Person /\ on' = [on EXCEPT ![n][i][f] = v]
    /\ hist' = [hist EXCEPT !.been[n] = @ \cup {<<f, v>>},
                            !.renamed = @ \/ f = KeyField]
    /\ UNCHANGED worn

\* Deleting a label takes it off the issues of that node.
Delete(n, i) ==
    /\ There(on[n], i)
    /\ Person /\ on' = [on EXCEPT ![n][i] = Gone]
    /\ worn' = [worn EXCEPT ![n] = @ \ {i}]
    /\ hist' = [hist EXCEPT !.unlabelled = @ \/ n = Primary]

\* React, or take it back.
Mark(n, i, e) ==
    /\ There(on[n], i) /\ kind # "label"
    /\ Person
    /\ IF e \in on[n][i].extra
       THEN /\ on' = [on EXCEPT ![n][i].extra = @ \ {e}]
            /\ hist' = [hist EXCEPT !.unmarked = TRUE]
       ELSE on' = [on EXCEPT ![n][i].extra = @ \cup {e}] /\ UNCHANGED hist
    /\ UNCHANGED worn

\* Put a label on the issue, or take it off.
Wear(n, i) ==
    /\ kind = "label" /\ There(on[n], i)
    /\ Person
    /\ IF i \in worn[n]
       THEN /\ worn' = [worn EXCEPT ![n] = @ \ {i}]
            /\ hist' = [hist EXCEPT !.unlabelled = TRUE]
       ELSE worn' = [worn EXCEPT ![n] = @ \cup {i}] /\ UNCHANGED hist
    /\ UNCHANGED on

\* Git replication brings a pull request's branches.
BranchesArrive ==
    /\ branches # Node /\ branches' = Node
    /\ UNCHANGED <<kind, on, worn, recs, wornBase, told, run, edits, faults, hist>>

-----------------------------------------------------------------------------
(* The snapshots, node by node.  A node that is away, that answers with an *)
(* error or whose issues are turned off is passed over, and the run is not *)
(* complete; without the primary there is no run.                          *)

Begin ==
    /\ run.ph = "idle" /\ run' = [Idle EXCEPT !.ph = "read", !.at = 1]
    /\ UNCHANGED <<kind, on, worn, recs, wornBase, told, people, faults, hist>>

ReadNode ==
    /\ run.ph = "read"
    /\ run' = [run EXCEPT !.snap = [n \in DOMAIN @ \cup {N} |-> IF n = N THEN on[n] ELSE @[n]],
                          !.ph = IF kind = "label" THEN "readIssues"
                                 ELSE IF run.at = Len(Order) THEN "attach" ELSE "read",
                          !.at = IF kind = "label" \/ @ = Len(Order) THEN @ ELSE @ + 1]
    /\ UNCHANGED <<kind, on, worn, recs, wornBase, told, people, faults, hist>>

\* Labels are read before the issues that have them.
ReadIssues ==
    /\ run.ph = "readIssues"
    /\ run' = [run EXCEPT !.wornAt = [n \in DOMAIN @ \cup {N} |-> IF n = N THEN worn[n] ELSE @[n]],
                          !.ph = IF run.at = Len(Order) THEN "attach" ELSE "read",
                          !.at = IF @ = Len(Order) THEN @ ELSE @ + 1]
    /\ UNCHANGED <<kind, on, worn, recs, wornBase, told, people, faults, hist>>

PassOver ==
    /\ run.ph = "read" /\ faults > 0 /\ faults' = faults - 1
    /\ run' = IF N = Primary THEN Idle
              ELSE [run EXCEPT !.complete = FALSE,
                               !.ph = IF run.at = Len(Order) THEN "attach" ELSE "read",
                               !.at = IF @ = Len(Order) THEN @ ELSE @ + 1]
    /\ UNCHANGED <<kind, on, worn, recs, wornBase, told, people, hist>>

-----------------------------------------------------------------------------
(* Everything new is a copy of a record that lacks one there and has the   *)
(* same key now, or is a record of its own.                                *)

\* Mutant of Known: the records of deleted things are left out.
KnownKept(n) == {recs[i].copies[n] : i \in {k \in DOMAIN recs : n \in DOMAIN recs[k].copies /\ ~recs[k].deleted}}

Known(n) == {recs[i].copies[n] : i \in {k \in DOMAIN recs : n \in DOMAIN recs[k].copies}}
Fresh(n) == {i \in DOMAIN run.snap[n] : There(run.snap[n], i) /\ i \notin Known(n)}
AnyFresh == \E n \in Read : Fresh(n) # {}
Lowest(S) == CHOOSE i \in S : \A k \in S : i <= k

\* Things come in the order they were made, by their own nodes' clocks;
\* labels node by node, the primary first.
Turn(n) ==
    /\ n \in Read /\ Fresh(n) # {}
    /\ kind = "label" => \A k \in DOMAIN Order :
         (Order[k] \in Read /\ Fresh(Order[k]) # {}) => \E j \in DOMAIN Order : Order[j] = n /\ j <= k

\* currentTitle: as the first node that was read and has it shows it now.
CurrentKey(r) ==
    LET shown == {k \in DOMAIN Order : /\ Order[k] \in Read \cap DOMAIN r.copies
                                       /\ There(run.snap[Order[k]], r.copies[Order[k]])}
        n == Order[Lowest(shown)]
    IN  IF shown = {} THEN r[KeyField] ELSE run.snap[n][r.copies[n]][KeyField]

\* Mutant of Lacking: every new thing gets a record of its own.
LackingAny(n, t) == {}

Lacking(n, t) ==
    {i \in DOMAIN recs : n \notin DOMAIN recs[i].copies /\ CurrentKey(recs[i]) = t[KeyField]}

\* Only a copy on the primary means that it was made again to keep it.
StillDeleted(r, n) == r.deleted /\ n # Primary

NewId == hist.next

\* The thing i of n is a copy of record k ...
AttachTo(k, n, i) ==
    /\ recs' = [recs EXCEPT ![k].copies = [o \in DOMAIN @ \cup {n} |-> IF o = n THEN i ELSE @[o]],
                            ![k].deleted = StillDeleted(recs[k], n)]
    /\ hist' = [hist EXCEPT !.twins = @ \/ \E f \in Fields : run.snap[n][i][f] # recs[k][f],
                            !.remade = @ \/ recs[k].extra # {},
                            !.onPrimary = IF n = Primary THEN @ \cup {k} ELSE @]

\* ... or has a new one.
Recognise(n, i) ==
    /\ NewId \in Rec
    /\ recs' = [k \in DOMAIN recs \cup {NewId} |->
                 IF k # NewId THEN recs[k]
                 ELSE [copies |-> [o \in {n} |-> i], key |-> run.snap[n][i].key, text |-> run.snap[n][i].text,
                       extra |-> {}, deleted |-> FALSE]]
    /\ hist' = [hist EXCEPT !.next = @ + 1, !.onPrimary = IF n = Primary THEN @ \cup {NewId} ELSE @]

Attach(n) ==
    /\ run.ph = "attach" /\ Turn(n)
    /\ LET i == Lowest(Fresh(n))
           same == Lacking(n, run.snap[n][i])
       IN  IF same # {} THEN AttachTo(Lowest(same), n, i) ELSE Recognise(n, i)
    /\ UNCHANGED <<kind, on, worn, wornBase, told, run, people, faults>>

AllAttached ==
    /\ run.ph = "attach" /\ ~AnyFresh
    /\ run' = [run EXCEPT !.ph = "records", !.todo = DOMAIN recs]
    /\ UNCHANGED <<kind, on, worn, recs, wornBase, told, people, faults, hist>>
=============================================================================
