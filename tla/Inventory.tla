------------------------------ MODULE Inventory ------------------------------
(***************************************************************************)
(* Which repositories are on which node, what ForgeSync knows of it, and   *)
(* which node is whose primary: the scans (inventory/scanner.go) and what  *)
(* they record (store/repos.go), renames (store/renames.go) and primary    *)
(* sites (store/users.go).  Module Repositories has what the engine does   *)
(* with repositories that are missing, renamed or deleted.                 *)
(*                                                                         *)
(* The repositories are one owner's.  A name is a full name; the work in a *)
(* repository is one number, given to it when a person makes it.           *)
(***************************************************************************)
EXTENDS Naturals, Sequences, FiniteSets

CONSTANTS
    Order,        \* the nodes, in the configured order
    Name,         \* names people give
    None,         \* no node, no name, no work
    MaxEdits,     \* bound on what people and administrators do
    MaxRechecks,  \* bound on looks at a single repository
    MaxFaults     \* bound on failed calls and crashes

Node == {Order[k] : k \in DOMAIN Order}

ASSUME InventoryAssumption ==
    /\ Order \in Seq(Node) /\ MaxEdits \in Nat /\ MaxRechecks \in Nat /\ MaxFaults \in Nat
    /\ Order # << >> /\ \A i, j \in DOMAIN Order : Order[i] = Order[j] => i = j

VARIABLES
    on,        \* on[n][i]: the repository with Forgejo id i on node n
    home,      \* the owner's primary site, None for an organization
    recs,      \* the repositories ForgeSync knows, with what each node has of them
    aliases,   \* old names, and whose they are
    archives,  \* archived copies
    scanOk,    \* whether a node's latest scan succeeded
    round,     \* the scan of all nodes, and what follows it
    recheck,   \* a look at one name on every node
    job,       \* the engine's run for one repository
    made, edits, faults, rechecks,
    hist       \* what people did, and what of it was seen by halves

store == <<recs, aliases, archives, scanOk>>
outside == <<on, home, made, edits, hist>>
vars == <<on, home, recs, aliases, archives, scanOk, round, recheck, job, made, edits, faults, rechecks, hist>>

Live(n) == {i \in DOMAIN on[n] : on[n][i].place = "live"}
NamesOn(n) == {on[n][i].name : i \in Live(n)}
Named(n, name) == {i \in Live(n) : on[n][i].name = name}
IdOf(n, name) == CHOOSE i \in Live(n) : on[n][i].name = name
Lowest(S) == CHOOSE i \in S : \A k \in S : i <= k

Repo(name, line) == [name |-> name, place |-> "live", line |-> line, at |-> made + 1]
Row(n, i) == [present |-> TRUE, fid |-> i, name |-> on[n][i].name]
Seen(r, n) == n \in DOMAIN r.rep /\ r.rep[n].present

NoRound == [ph |-> "idle", listed |-> << >>, left |-> {}, observed |-> {}, merged |-> {}, list |-> << >>, todo |-> {}]
NoRecheck == [ph |-> "idle", name |-> None, node |-> None, again |-> FALSE, left |-> {}, merged |-> {}]
NoJob == [ph |-> "idle", id |-> 0, rec |-> << >>, left |-> << >>, line |-> None, triggered |-> FALSE]

Known(n) == [name |-> n, primary |-> None, manual |-> FALSE, deleted |-> FALSE, rep |-> << >>]

-----------------------------------------------------------------------------
(* People and administrators.                                              *)

Person == edits > 0 /\ edits' = edits - 1
          /\ UNCHANGED <<archives, aliases, scanOk, round, recheck, job, faults, rechecks>>

\* The records there are, and those a round or a run goes on with though they
\* were forgotten.
InUse == {recs[id] : id \in DOMAIN recs} \cup {round.list[id] : id \in round.todo \ DOMAIN recs}
         \cup {r \in {job.rec} : job.ph # "idle" /\ job.id \notin DOMAIN recs}

\* The name of a repository that has another primary, or that was renamed there.
Taken(n, name) ==
    \E r \in InUse : /\ r.name = name
                     /\ r.primary \notin {n, None} \/ (n \in DOMAIN r.rep /\ r.rep[n].fid \in Live(n))

Make(n, name) ==
    /\ Named(n, name) = {} /\ Person
    /\ on' = [on EXCEPT ![n] = Append(@, Repo(name, made + 1))]
    /\ made' = made + 1
    /\ hist' = [hist EXCEPT !.lines = @ \cup {made + 1}, !.taken = @ \/ Taken(n, name)]
    /\ UNCHANGED <<home, recs>>

\* The copies of a record, known or not yet, and the work in them.
Belongs(id, n, i) == on[n][i].name = recs[id].name \/ (n \in DOMAIN recs[id].rep /\ recs[id].rep[n].fid = i)
Work(id) == UNION {{on[n][i].line : i \in {k \in DOMAIN on[n] : Belongs(id, n, k)}} : n \in Node}

\* What is ended by deleting a copy: a repository if it is the primary's, and
\* work that is nowhere else.
Ends(n, i) ==
    (UNION {Work(id) : id \in {k \in DOMAIN recs : recs[k].primary = n /\ Belongs(k, n, i)}})
    \cup {line \in {on[n][i].line} : \A m \in Node : \A k \in DOMAIN on[m] :
              on[m][k].line = line /\ on[m][k].place # "gone" => <<m, k>> = <<n, i>>}

Remove(n, i) ==
    /\ on[n][i].place # "gone" /\ Person
    /\ on' = [on EXCEPT ![n][i].place = "gone"]
    /\ hist' = [hist EXCEPT !.ended = @ \cup Ends(n, i)]
    /\ UNCHANGED <<home, recs, made>>

Rename(n, i, name) ==
    /\ i \in Live(n) /\ Named(n, name) = {} /\ Person
    /\ on' = [on EXCEPT ![n][i].name = name]
    /\ hist' = [hist EXCEPT !.taken = @ \/ Taken(n, name)]
    /\ UNCHANGED <<home, recs, made>>

\* SetPrimary, by an administrator, who may choose any node ...
Choose(id, n) ==
    /\ recs[id].primary # n /\ Person
    /\ recs' = [recs EXCEPT ![id].primary = n, ![id].manual = TRUE]
    /\ hist' = [hist EXCEPT !.moved = TRUE] /\ UNCHANGED <<on, home, made>>

\* ... or move the owner.
Move(n) ==
    /\ home \notin {None, n} /\ Person /\ home' = n
    /\ hist' = [hist EXCEPT !.moved = TRUE] /\ UNCHANGED <<on, recs, made>>

-----------------------------------------------------------------------------
(* What a scan or a look at one name records (recordRepos).                *)

ByName(R, name) == {id \in DOMAIN R : R[id].name = name}

\* Mutant of Owning: a repository is known by its name on each node.
OwningHere(R, n, name, names) == {id \in ByName(R, name) : n \in DOMAIN R[id].rep}

\* A copy under an old name, on a node other than the primary, is the renamed
\* repository's, unless the node has the new name too.
Owning(R, n, name, names) ==
    IF name \in DOMAIN aliases /\ R[aliases[name]].primary # n /\ R[aliases[name]].name \notin names
    THEN {aliases[name]} ELSE ByName(R, name)

\* An id no record has or had.
NewId(R) == Lowest({k \in hist.next .. hist.next + Cardinality(DOMAIN R) : k \notin DOMAIN R})
WithRow(R, id, n, row) == [R EXCEPT ![id].rep = [o \in DOMAIN @ \cup {n} |-> IF o = n THEN row ELSE @[o]]]

\* R after node n was found to have row, names being all it was found to have.
Recorded(R, n, row, names) ==
    LET ids == Owning(R, n, row.name, names)
        id == IF ids # {} THEN Lowest(ids) ELSE NewId(R)
        R1 == IF ids # {} THEN R ELSE [k \in DOMAIN R \cup {id} |-> IF k = id THEN Known(row.name) ELSE R[k]]
    IN  WithRow(R1, id, n, row)

\* The rows of a scan, one after the other; the node may have more by now.
RecordedAll(R, n, rows) ==
    LET names == {rows[i].name : i \in DOMAIN rows}
        after[i \in 0 .. Len(on[n])] ==
            IF i = 0 THEN R ELSE IF i \in DOMAIN rows THEN Recorded(after[i - 1], n, rows[i], names) ELSE after[i - 1]
    IN  after[Len(on[n])]

\* Everything else on the node is gone, unless it was looked at since.
Missing(R, n, rows, spared) ==
    LET names == {rows[i].name : i \in DOMAIN rows}
        found == {Lowest(Owning(R, n, name, names)) : name \in names}
    IN  [id \in DOMAIN R |-> IF n \in DOMAIN R[id].rep /\ id \notin spared \cup found
                           THEN [R[id] EXCEPT !.rep[n].present = FALSE] ELSE R[id]]

-----------------------------------------------------------------------------
(* ScanAll: a list is recorded some time after it was read.  The nodes are *)
(* scanned in parallel in the code, in any order here.                     *)

BeginRound ==
    /\ round.ph = "idle" /\ round' = [NoRound EXCEPT !.ph = "scan", !.left = Node]
    /\ UNCHANGED <<store, outside, recheck, job, faults, rechecks>>

ListNode(n) ==
    /\ round.ph = "scan" /\ n \in round.left /\ round.listed = << >>
    /\ round' = [round EXCEPT !.listed = [o \in {n} |-> [i \in Live(n) |-> Row(n, i)]], !.observed = {}]
    /\ UNCHANGED <<store, outside, recheck, job, faults, rechecks>>

\* finished is the time the list was complete: a look at a name since then
\* stands.  The list was not read at once, so which looks those are is open.
RecordScan(n) ==
    /\ round.ph = "scan" /\ n \in round.left /\ n \in DOMAIN round.listed
    /\ \E spared \in SUBSET {o[2] : o \in {p \in round.observed : p[1] = n}} :
         recs' = Missing(RecordedAll(recs, n, round.listed[n]), n, round.listed[n], spared)
    /\ scanOk' = [scanOk EXCEPT ![n] = TRUE]
    /\ round' = [round EXCEPT !.left = @ \ {n}, !.listed = << >>, !.observed = {}]
    /\ hist' = [hist EXCEPT !.next = Cardinality((DOMAIN recs')  \cup 1 .. (@ - 1)) + 1]
    /\ UNCHANGED <<aliases, archives, on, home, made, edits, recheck, job, faults, rechecks>>

\* RecordNodeScanFailure; but when it is the recording of a scan that fails,
\* the node's earlier success stands.
ScanFails(n) ==
    /\ round.ph = "scan" /\ n \in round.left /\ (round.listed # << >> => n \in DOMAIN round.listed)
    /\ faults > 0 /\ faults' = faults - 1
    /\ \/ scanOk' = [scanOk EXCEPT ![n] = FALSE]
       \/ n \in DOMAIN round.listed /\ UNCHANGED scanOk
    /\ round' = [round EXCEPT !.left = @ \ {n}, !.listed = << >>, !.observed = {}]
    /\ UNCHANGED <<recs, aliases, archives, outside, recheck, job, rechecks>>

-----------------------------------------------------------------------------
(* DetectRenames and AssignPrimaries: after a round, and after a look at a *)
(* name ForgeSync did not know.  Both only when every latest scan is good. *)

AllOk == \A n \in Node : scanOk[n]

\* Gone from its primary, where another name has the same id.
Renames ==
    {p \in (DOMAIN recs) \X (DOMAIN recs) :
        LET old == recs[p[1]]
            new == recs[p[2]]
            n == old.primary
        IN  /\ p[1] # p[2] /\ n # None /\ ~old.deleted
            /\ n \in DOMAIN old.rep /\ ~old.rep[n].present
            /\ Seen(new, n) /\ new.rep[n].fid = old.rep[n].fid}

\* The old record takes the new one's name, and its row for the primary; on
\* other nodes the new one's rows only fill a gap.
MergedRows(old, new) ==
    LET taken == {n \in DOMAIN new.rep : \/ n \notin DOMAIN old.rep
                                         \/ new.rep[n].present /\ (n = old.primary \/ ~old.rep[n].present)}
    IN  [n \in DOMAIN old.rep \cup taken |-> IF n \in taken THEN new.rep[n] ELSE old.rep[n]]

\* Aliases go once no node has a copy under the old name.
Needed(al, R) == {name \in DOMAIN al : \E n \in Node : Seen(R[al[name]], n) /\ R[al[name]].rep[n].name = name}

ApplyRename(p) ==
    LET old == recs[p[1]]
        new == recs[p[2]]
        kept == {name \in DOMAIN aliases : aliases[name] # p[2]}
        R == [id \in (DOMAIN recs) \ {p[2]} |->
                IF id = p[1] THEN [old EXCEPT !.name = new.name, !.rep = MergedRows(old, new)] ELSE recs[id]]
        al == [name \in kept \cup {old.name} |-> IF name = old.name THEN p[1] ELSE aliases[name]]
    IN  /\ recs' = R /\ aliases' = [name \in Needed(al, R) |-> al[name]]
        \* rows go with their record, archives too
        /\ archives' = {a \in archives : a.rec # p[2]}

ForgetAliases ==
    aliases' = [name \in Needed(aliases, recs) |-> aliases[name]] /\ UNCHANGED <<recs, archives>>

\* No record is renamed twice.
Fresh(done) == {p \in Renames : p[1] \notin done /\ p[2] \notin done}
First(S) == CHOOSE p \in S : \A q \in S : p[1] < q[1] \/ (p[1] = q[1] /\ p[2] <= q[2])

\* AssignPrimaries: what the owner's site, or the place it was made first,
\* gives the record as its primary.
Present(r) == {n \in DOMAIN r.rep : r.rep[n].present}
Born(r, n) == on[n][r.rep[n].fid].at
Assigned(r) ==
    IF ~r.manual /\ home # None /\ Present(r) # {} THEN [r EXCEPT !.primary = home]
    ELSE IF r.primary = None /\ Present(r) # {}
    THEN [r EXCEPT !.primary = CHOOSE n \in Present(r) : \A o \in Present(r) : Born(r, n) <= Born(r, o)]
    ELSE r

DetectRenames ==
    /\ round.ph = "scan" /\ round.left = {}
    /\ IF AllOk /\ Fresh(round.merged) # {}
       THEN LET p == First(Fresh(round.merged))
            IN  ApplyRename(p) /\ round' = [round EXCEPT !.merged = @ \cup {p[1], p[2]}]
       ELSE /\ round' = [round EXCEPT !.ph = "assign"]
            /\ IF AllOk THEN ForgetAliases ELSE UNCHANGED <<recs, aliases, archives>>
    /\ UNCHANGED <<scanOk, outside, recheck, job, faults, rechecks>>

\* RunAll then reads what it will work through.
AssignPrimaries ==
    /\ round.ph = "assign"
    /\ LET R == IF AllOk THEN [id \in (DOMAIN recs) |-> Assigned(recs[id])] ELSE recs
       IN  /\ recs' = R
           /\ round' = [NoRound EXCEPT !.ph = "run", !.list = R, !.todo = {id \in DOMAIN R : R[id].primary # None}]
    /\ UNCHANGED <<aliases, archives, scanOk, outside, recheck, job, faults, rechecks>>

-----------------------------------------------------------------------------
(* ScanRepo: one name on every node, after a webhook or a triggered run.   *)

Look(name, node, again) ==
    [NoRecheck EXCEPT !.ph = "ask", !.name = name, !.node = node, !.again = again, !.left = Node]

\* A webhook of node n about a repository it just got or lost, or of a name
\* ForgeSync does not know (Changed).
Hear(n, name) ==
    /\ recheck.ph = "idle" /\ rechecks > 0 /\ rechecks' = rechecks - 1
    /\ recheck' = Look(name, n, FALSE)
    /\ UNCHANGED <<store, outside, round, job, faults>>

\* An old name is found gone and the new one is not known yet, or the new one
\* is found, the old one is not gone yet, and a round is about to assign.
HalfSeen(n, row, gone, R) ==
    \/ row = None /\ \E id \in gone : \E i \in Live(n) : i = recs[id].rep[n].fid /\ \A o \in DOMAIN R : Seen(R[o], n) => R[o].rep[n].fid # i
    \/ row # None /\ round.ph \in {"scan", "assign"} /\ \E o \in DOMAIN R : Seen(R[o], n) /\ R[o].rep[n].fid = row.fid /\ R[o].rep[n] # row

\* The node is asked and its answer recorded (RecordRepoObservation).
Observe(n) ==
    /\ recheck.ph = "ask" /\ n \in recheck.left
    /\ LET row == IF Named(n, recheck.name) = {} THEN None ELSE Row(n, IdOf(n, recheck.name))
           gone == {id \in (DOMAIN recs) : Seen(recs[id], n) /\ recs[id].rep[n].name = recheck.name}
           R == IF row = None
                THEN [id \in (DOMAIN recs) |-> IF id \in gone THEN [recs[id] EXCEPT !.rep[n].present = FALSE] ELSE recs[id]]
                ELSE Recorded(recs, n, row, {recheck.name})
       IN  /\ recs' = R
           /\ round' = IF round.ph = "scan" /\ n \in DOMAIN round.listed
                       THEN [round EXCEPT !.observed = @ \cup {<<n, id>> : id \in {k \in DOMAIN R : k \notin (DOMAIN recs) \/ R[k] # recs[k]}}]
                       ELSE round
           /\ hist' = [hist EXCEPT !.next = Cardinality(DOMAIN R \cup 1 .. (@ - 1)) + 1,
                                   !.stale = @ \/ HalfSeen(n, row, gone, R)]
    /\ recheck' = [recheck EXCEPT !.left = @ \ {n}]
    /\ UNCHANGED <<aliases, archives, scanOk, on, home, made, edits, job, faults, rechecks>>

\* A node that cannot be asked keeps what was recorded.
AskFails(n) ==
    /\ recheck.ph = "ask" /\ n \in recheck.left /\ faults > 0 /\ faults' = faults - 1
    /\ recheck' = [recheck EXCEPT !.left = @ \ {n}]
    /\ UNCHANGED <<store, outside, round, job, rechecks>>

\* PreviousName: another name of the repository that has this one there now.
Previous(n, name) ==
    {recs[o].rep[n].name : o \in {k \in (DOMAIN recs) :
        /\ Seen(recs[k], n) /\ recs[k].rep[n].name # name
        /\ \E id \in (DOMAIN recs) : /\ Seen(recs[id], n) /\ recs[id].rep[n].name = name /\ id # k
                                 /\ recs[id].rep[n].fid = recs[k].rep[n].fid}}

\* Renames send no webhook, so that other name is looked at too; then renames
\* and primaries, as after a round.
Looked ==
    /\ recheck.ph = "ask" /\ recheck.left = {}
    /\ \/ /\ recheck.node = None /\ recheck' = NoRecheck
       \/ /\ recheck.node # None
          /\ LET others == Previous(recheck.node, recheck.name)
             IN  IF others # {} /\ ~recheck.again
                 THEN \E name \in others : recheck' = Look(name, recheck.node, TRUE)
                 ELSE recheck' = [recheck EXCEPT !.ph = "assign"]
    /\ UNCHANGED <<store, outside, round, job, faults, rechecks>>

RenameSoon ==
    /\ recheck.ph = "assign" /\ AllOk /\ Fresh(recheck.merged) # {}
    /\ LET p == First(Fresh(recheck.merged))
       IN  ApplyRename(p) /\ recheck' = [recheck EXCEPT !.merged = @ \cup {p[1], p[2]}]
    /\ UNCHANGED <<scanOk, outside, round, job, faults, rechecks>>

AssignSoon ==
    /\ recheck.ph = "assign" /\ (~AllOk \/ Fresh(recheck.merged) = {})
    /\ recs' = IF AllOk THEN [id \in (DOMAIN recs) |-> Assigned(recs[id])] ELSE recs
    /\ recheck' = NoRecheck
    /\ UNCHANGED <<aliases, archives, scanOk, outside, round, job, faults, rechecks>>
=============================================================================
