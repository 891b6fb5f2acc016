---------------------------- MODULE Repositories ----------------------------
(***************************************************************************)
(* What the engine does with whole repositories: it makes the copies that  *)
(* are missing, renames those whose primary was renamed, and archives,     *)
(* later deletes, those whose primary was deleted (replication: engine.go, *)
(* provision.go, rename.go, deletion.go).                                  *)
(*                                                                         *)
(* A run works on the record as it was read when the run was queued.  The  *)
(* work in a repository stands for its branches: an empty copy takes it    *)
(* whole, and where two copies have different work nothing is written.     *)
(***************************************************************************)
EXTENDS Inventory

Replicas(r) ==
    LET k == CHOOSE i \in DOMAIN Order : Order[i] = r.primary
    IN  SubSeq(Order, 1, k - 1) \o SubSeq(Order, k + 1, Len(Order))
Head1 == Head(job.left)
Rest1 == Tail(job.left)
P == job.rec.primary
ToPhase(ph) == [job EXCEPT !.ph = ph]
Done == IF job.triggered THEN [job EXCEPT !.ph = "after"] ELSE NoJob
\* On to the next node, and after the last one to the end.
NextNode == IF Rest1 = << >> THEN Done ELSE [job EXCEPT !.left = Rest1]
\* To the first of the replicas, if there is one.
FirstNode(ph, line) ==
    IF Replicas(job.rec) = << >> THEN Done ELSE [job EXCEPT !.ph = ph, !.left = Replicas(job.rec), !.line = line]

Calls == UNCHANGED <<round, recheck, faults, rechecks, aliases, scanOk, home, edits>>
Reads == Calls /\ UNCHANGED <<on, recs, archives, made, hist>>
Writes == Calls /\ UNCHANGED <<on, made, hist>>

-----------------------------------------------------------------------------
Ours(id) == {a \in archives : a.rec = id}
Due(id) == {a \in Ours(id) : a.state = "due"}

\* Nothing of a deleted repository is left anywhere.
AllPurged(id, r) == r.deleted /\ Present(r) = {} /\ \A a \in Ours(id) : a.state = "purged"

Started(id, r, triggered) ==
    [NoJob EXCEPT !.ph = IF Due(id) # {} \/ AllPurged(id, r) THEN "purge" ELSE "look",
                  !.id = id, !.rec = r, !.triggered = triggered]

\* RunAll takes what it read; Trigger reads the record.
StartListed(id) ==
    /\ round.ph = "run" /\ id \in round.todo /\ job.ph = "idle"
    /\ job' = Started(id, round.list[id], FALSE)
    /\ round' = [round EXCEPT !.todo = @ \ {id}]
    /\ UNCHANGED <<store, outside, recheck, faults, rechecks>>

RoundEnds ==
    /\ round.ph = "run" /\ round.todo = {} /\ round' = NoRound
    /\ UNCHANGED <<store, outside, recheck, job, faults, rechecks>>

Trigger(id) ==
    /\ job.ph = "idle" /\ recs[id].primary # None /\ rechecks > 0 /\ rechecks' = rechecks - 1
    /\ job' = Started(id, recs[id], TRUE)
    /\ UNCHANGED <<store, outside, round, recheck, faults>>

\* AfterTriggered: the inventory is shown the result, one look at a time.
After ==
    /\ job.ph = "after" /\ recheck.ph = "idle"
    /\ recheck' = Look(job.rec.name, None, FALSE)
    /\ job' = NoJob
    /\ UNCHANGED <<store, outside, round, faults, rechecks>>

-----------------------------------------------------------------------------
(* purgeArchives                                                           *)

\* The backup period of an archive ends.
Expire(a) ==
    /\ a \in archives /\ a.state = "archived"
    /\ archives' = (archives \ {a}) \cup {[a EXCEPT !.state = "due"]}
    /\ UNCHANGED <<recs, aliases, scanOk, outside, round, recheck, job, faults, rechecks>>

\* What somebody deleted by hand is done with.
Purge ==
    /\ job.ph = "purge"
    /\ \E a \in Due(job.id) :
         /\ on' = [on EXCEPT ![a.node][a.fid].place = "gone"]
         /\ archives' = (archives \ {a}) \cup {[a EXCEPT !.state = "purged"]}
    /\ UNCHANGED job /\ Calls /\ UNCHANGED <<recs, made, hist>>

\* Without archives, the period is counted from the deletion: over or not.
Purged ==
    /\ job.ph = "purge" /\ Due(job.id) = {}
    /\ \/ /\ ~AllPurged(job.id, job.rec) \/ Ours(job.id) = {}
          /\ job' = ToPhase("look") /\ UNCHANGED <<recs, archives, aliases>>
       \/ /\ AllPurged(job.id, job.rec)
          /\ recs' = [id \in DOMAIN recs \ {job.id} |-> recs[id]]
          /\ archives' = archives \ Ours(job.id)
          /\ aliases' = [name \in {o \in DOMAIN aliases : aliases[o] # job.id} |-> aliases[name]]
          /\ job' = Done
    /\ UNCHANGED <<scanOk, outside, round, recheck, faults, rechecks>>

-----------------------------------------------------------------------------
(* The primary: has it the repository?                                     *)

Had == P \in DOMAIN job.rec.rep
\* Mutant of GoneThere: a primary that never had the repository has lost it.
GoneUnseen == ~Had \/ ~job.rec.rep[P].present
GoneThere == Had /\ ~job.rec.rep[P].present

Find ==
    /\ job.ph = "look"
    /\ IF Named(P, job.rec.name) # {}
       THEN LET line == on[P][IdOf(P, job.rec.name)].line
            IN  job' = IF job.rec.deleted THEN [job EXCEPT !.ph = "undelete", !.line = line] ELSE FirstNode("copy", line)
       ELSE job' = IF job.rec.deleted THEN FirstNode("archive", None)
                   ELSE IF GoneThere THEN ToPhase("renamed?")
                   ELSE IF Had THEN Done ELSE ToPhase("seed")
    /\ Reads

\* Both write no row when the repository was forgotten meanwhile.
Marked(deleted) ==
    recs' = [id \in DOMAIN recs |-> IF id = job.id THEN [recs[id] EXCEPT !.deleted = deleted] ELSE recs[id]]

Undelete ==
    /\ job.ph = "undelete" /\ Marked(FALSE)
    /\ job' = FirstNode("copy", job.line) /\ Writes /\ UNCHANGED archives

\* Mutant of RenamedTo: a rename is taken for a deletion.
NotRenamed(id, n) == {}

\* RenamedTo: the same Forgejo id under another name.
RenamedTo(id, n) ==
    {o \in DOMAIN recs \ {id} : /\ id \in DOMAIN recs /\ n \in DOMAIN recs[id].rep /\ Seen(recs[o], n)
                                /\ recs[o].rep[n].fid = recs[id].rep[n].fid}

AskRenamed ==
    /\ job.ph = "renamed?"
    /\ job' = IF RenamedTo(job.id, P) # {} THEN Done ELSE ToPhase("mark")
    /\ Reads

Current == job.id \in DOMAIN recs /\ recs[job.id].name = job.rec.name
Mark ==
    /\ job.ph = "mark" /\ job' = FirstNode("archive", None)
    /\ Marked(TRUE)
    /\ hist' = [hist EXCEPT !.stale = @ \/ ~Current]
    /\ Calls /\ UNCHANGED <<on, archives, made>>

-----------------------------------------------------------------------------
(* archiveOn: rename the copy, save that, move it, save that.              *)

Archive == {a \in Ours(job.id) : a.node = Head1 /\ a.orig = job.rec.name /\ a.state # "purged"}
\* <owner>--<name>--<time>: no two are called the same.
Archived(n, name) == <<name, Lowest({k \in 1 .. Len(on[n]) + 1 : Named(n, <<name, k>>) = {}})>>

\* A copy is looked for only as long as no archive is known.
RenameAway ==
    /\ job.ph = "archive" /\ Archive = {}
    /\ IF Named(Head1, job.rec.name) = {}
       THEN job' = NextNode /\ UNCHANGED on
       ELSE LET i == IdOf(Head1, job.rec.name)
            IN  /\ on' = [on EXCEPT ![Head1][i].name = Archived(Head1, job.rec.name)]
                /\ job' = [job EXCEPT !.ph = "save", !.line = i]
    /\ Calls /\ UNCHANGED <<recs, archives, made, hist>>

\* There is no archive of a repository that was forgotten meanwhile: that
\* fails, and the next node is served.
SaveFails == [NextNode EXCEPT !.ph = IF @ = "save" THEN "archive" ELSE @, !.line = None]
SaveRenamed ==
    /\ job.ph = "save"
    /\ IF job.id \in DOMAIN recs
       THEN /\ archives' = archives \cup {[rec |-> job.id, node |-> Head1, orig |-> job.rec.name, fid |-> job.line, state |-> "renamed"]}
            /\ job' = [job EXCEPT !.ph = "archive", !.line = None]
       ELSE job' = SaveFails /\ UNCHANGED archives
    /\ Writes /\ UNCHANGED recs

\* Move it to the archive organization, unless it is there, and save that.
MoveAway ==
    /\ job.ph = "archive"
    /\ \E a \in Archive :
         \/ /\ a.state = "renamed" /\ on[a.node][a.fid].place = "live"
            /\ on' = [on EXCEPT ![a.node][a.fid].place = "org"] /\ UNCHANGED <<archives, job>>
         \/ /\ a.state = "renamed" /\ on[a.node][a.fid].place = "org"
            /\ archives' = (archives \ {a}) \cup {[a EXCEPT !.state = "archived"]}
            /\ job' = NextNode /\ UNCHANGED on
         \* somebody deleted it: moving it fails each time
         \/ /\ a.state # "renamed" \/ on[a.node][a.fid].place = "gone"
            /\ job' = NextNode /\ UNCHANGED <<on, archives>>
    /\ Calls /\ UNCHANGED <<recs, made, hist>>

-----------------------------------------------------------------------------
(* createOnReplica and seedPrimary.  The owner's account not to be had on  *)
(* a node is a call that fails.                                            *)

Create(n, name) ==
    /\ on' = [on EXCEPT ![n] = Append(@, [Repo(name, None) EXCEPT !.line = None])]
    /\ made' = made + 1

\* The node it was made on first, of those the record has.
Source ==
    LET having == Present(job.rec) \ {P}
    IN  IF having = {} THEN None
        ELSE CHOOSE n \in having : \A o \in having : Born(job.rec, n) <= Born(job.rec, o)

SeedCreate ==
    /\ job.ph = "seed"
    /\ IF Source = None \/ (Source # None /\ Named(Source, job.rec.name) = {})
       THEN job' = Done /\ UNCHANGED <<on, made>>
       ELSE /\ IF Named(P, job.rec.name) = {} THEN Create(P, job.rec.name) ELSE UNCHANGED <<on, made>>
            /\ job' = ToPhase("seedPush")
    /\ Calls /\ UNCHANGED <<recs, archives, hist>>

\* Only refs that are not there.
Filled(n, name, line) ==
    on' = [on EXCEPT ![n][IdOf(n, name)].line = IF @ = None THEN line ELSE @]

SeedPush ==
    /\ job.ph = "seedPush"
    /\ IF Named(P, job.rec.name) = {} \/ Named(Source, job.rec.name) = {}
       THEN job' = Done /\ UNCHANGED on
       ELSE LET line == on[Source][IdOf(Source, job.rec.name)].line
            IN  /\ Filled(P, job.rec.name, line)
                /\ job' = FirstNode("copy", on'[P][IdOf(P, job.rec.name)].line)
    /\ Calls /\ UNCHANGED <<recs, archives, made, hist>>

\* Mutant of OldName: a copy under the old name is not looked for.
NoOldName(n) == None

\* pendingRename: what the copy there is called, if not as the record.
OldName(n) == IF Seen(job.rec, n) /\ job.rec.rep[n].name # job.rec.name THEN job.rec.rep[n].name ELSE None

\* renameOn: not onto a name that is taken.
RenameCopy ==
    /\ job.ph = "copy" /\ OldName(Head1) # None /\ Named(Head1, OldName(Head1)) # {}
    /\ IF Named(Head1, job.rec.name) # {} THEN job' = NextNode /\ UNCHANGED on
       ELSE /\ on' = [on EXCEPT ![Head1][IdOf(Head1, OldName(Head1))].name = job.rec.name]
            /\ job' = ToPhase("push")
    /\ Calls /\ UNCHANGED <<recs, archives, made, hist>>

CreateCopy ==
    /\ job.ph = "copy" /\ (OldName(Head1) = None \/ Named(Head1, OldName(Head1)) = {})
    /\ IF Named(Head1, job.rec.name) # {} THEN job' = ToPhase("push") /\ UNCHANGED <<on, made>>
       ELSE IF Named(P, job.rec.name) = {} THEN job' = NextNode /\ UNCHANGED <<on, made>>
       ELSE Create(Head1, job.rec.name) /\ job' = ToPhase("push")
    /\ Calls /\ UNCHANGED <<recs, archives, hist>>

\* The primary's work to an empty copy, a copy's work to an empty primary.
PushCopy ==
    /\ job.ph = "push"
    /\ LET name == job.rec.name
       IN  IF Named(Head1, name) = {} \/ Named(P, name) = {} THEN UNCHANGED on
           ELSE IF job.line # None THEN Filled(Head1, name, job.line)
           ELSE Filled(P, name, on[Head1][IdOf(Head1, name)].line)
    /\ job' = [NextNode EXCEPT !.ph = IF @ = "push" THEN "copy" ELSE @]
    /\ Calls /\ UNCHANGED <<recs, archives, made, hist>>

-----------------------------------------------------------------------------
PerNode == {"archive", "save", "copy", "push"}

\* A call fails, or a node is not healthy: on to the next node, or the end.
JobFails ==
    /\ job.ph \notin {"idle", "after"} /\ faults > 0 /\ faults' = faults - 1
    /\ job' = IF job.ph = "save" THEN SaveFails
              ELSE IF job.ph \in PerNode THEN [NextNode EXCEPT !.ph = IF @ = "push" THEN "copy" ELSE @]
              ELSE Done
    /\ UNCHANGED <<store, outside, round, recheck, rechecks>>

\* The lease is lost or the process dies: the next leader begins with a round.
Crash ==
    /\ round.ph # "idle" \/ recheck.ph # "idle" \/ job.ph # "idle"
    /\ faults > 0 /\ faults' = faults - 1
    /\ round' = NoRound /\ recheck' = NoRecheck /\ job' = NoJob
    /\ UNCHANGED <<store, outside, rechecks>>

\* Nothing yet, of an organization; or an owner's repository on every node.
Init ==
    /\ edits = MaxEdits /\ faults = MaxFaults /\ rechecks = MaxRechecks
    /\ round = NoRound /\ recheck = NoRecheck /\ job = NoJob /\ archives = {} /\ aliases = << >>
    /\ scanOk = [n \in Node |-> TRUE]
    /\ \E name \in Name :
         \/ /\ on = [n \in Node |-> << >>] /\ recs = << >> /\ made = 0 /\ home = None
         \/ /\ on = [n \in Node |-> <<[name |-> name, place |-> "live", line |-> 1, at |-> IF n = Order[1] THEN 1 ELSE 2]>>]
            /\ recs = [id \in {1} |-> [Known(name) EXCEPT !.primary = Order[1], !.rep = [n \in Node |-> Row(n, 1)]]]
            /\ made = 2 /\ home = Order[1]
    /\ hist = [next |-> Cardinality(DOMAIN recs) + 1, lines |-> IF made = 0 THEN {} ELSE {1}, ended |-> {},
               taken |-> FALSE, moved |-> FALSE, stale |-> FALSE]

People ==
    \/ \E n \in Node :
         \/ \E name \in Name : Make(n, name)
         \/ \E i \in DOMAIN on[n] : Remove(n, i) \/ \E name \in Name : Rename(n, i, name)
         \/ Move(n) \/ \E id \in DOMAIN recs : Choose(id, n)

Scan ==
    \/ BeginRound \/ DetectRenames \/ AssignPrimaries
    \/ \E n \in Node : ListNode(n) \/ RecordScan(n)

LookAt ==
    \/ Looked \/ RenameSoon \/ AssignSoon
    \/ \E n \in Node : Observe(n)

Engine ==
    \/ \E id \in round.todo : StartListed(id)
    \/ RoundEnds \/ After \/ Purge \/ Purged \/ Find \/ Undelete \/ AskRenamed \/ Mark
    \/ RenameAway \/ SaveRenamed \/ MoveAway \/ SeedCreate \/ SeedPush \/ RenameCopy \/ CreateCopy \/ PushCopy

Environment ==
    \/ People \/ Crash \/ JobFails
    \/ \E n \in Node : ScanFails(n) \/ AskFails(n) \/ \E name \in Name : Hear(n, name)
    \/ \E id \in DOMAIN recs : Trigger(id)
    \/ \E a \in archives : Expire(a)

Next == Scan \/ LookAt \/ Engine \/ Environment

Spec == Init /\ [][Next]_vars

-----------------------------------------------------------------------------
(* Properties.                                                             *)

\* No node has two live repositories of one name, and no two records have one
\* name, whatever scans, looks, renames and runs do to them in whatever order;
\* records and archives name repositories their node has had.
RepositoriesTypeOK ==
    /\ \A n \in Node : \A i, j \in Live(n) : on[n][i].name = on[n][j].name => i = j
    /\ \A id, o \in DOMAIN recs : recs[id].name = recs[o].name => id = o
    /\ \A id \in DOMAIN recs : /\ recs[id].primary \in Node \cup {None}
                               /\ \A n \in DOMAIN recs[id].rep : recs[id].rep[n].fid \in DOMAIN on[n]
    /\ \A name \in DOMAIN aliases : aliases[name] \in DOMAIN recs
    /\ \A a \in archives : a.rec \in DOMAIN recs /\ a.fid \in DOMAIN on[a.node]
    /\ home \in Node \cup {None} /\ edits \in 0 .. MaxEdits /\ faults \in 0 .. MaxFaults

ByForgeSync == edits' = edits

Archives(n, i) == on[n][i].name \in Name /\ on'[n][i].name \notin Name

\* ForgeSync archives a copy only of what a person deleted on its primary
\* ("the owner's decision").
ArchivedOnlyIfDeletedAlways ==
    [][ \A n \in Node : \A i \in DOMAIN on[n] : Archives(n, i) => on[n][i].line \in hist.ended \cup {None} ]_vars

\* The same, with what the code is known not to tell apart left out: a primary
\* that was moved, a record read before a rename was seen, a name taken anew.
ArchivedOnlyIfDeleted ==
    [][ ~hist.moved /\ ~hist.stale /\ ~hist.taken =>
          \A n \in Node : \A i \in DOMAIN on[n] : Archives(n, i) => on[n][i].line \in hist.ended \cup {None} ]_vars

\* What people made and did not delete is still on some node, whatever is
\* renamed, archived, purged, made again or filled (deletion.go, engine.go).
WorkKept == ~hist.moved /\ ~hist.stale /\ ~hist.taken =>
    \A line \in hist.lines \ hist.ended : \E n \in Node : \E i \in DOMAIN on[n] : on[n][i].line = line /\ on[n][i].place # "gone"

Copies(n, line) == {i \in Live(n) : on[n][i].line = line}
Knows(n, i) == job.ph # "idle" /\ n \in DOMAIN job.rec.rep /\ job.rec.rep[n] = Row(n, i)

\* A run gives a node no second copy of work it knows the node to have: a
\* copy of what was renamed is renamed, not made again (pendingRename).
NoSecondCopy ==
    [][ ByForgeSync => \A n \in Node : \A i \in Live(n) : LET line == on[n][i].line IN
          Knows(n, i) /\ line \in hist.lines => Cardinality(Copies(n, line)') <= Cardinality(Copies(n, line)) ]_vars

\* ForgeSync takes no work off a repository, and deletes none but what it put
\* into the archive organization and kept there for its time.
OnlyArchivesGo ==
    [][ ByForgeSync => \A n \in Node : \A i \in DOMAIN on[n] :
          /\ on[n][i].line \in {None, on'[n][i].line}
          /\ on'[n][i].place = "gone" /\ on[n][i].place # "gone" =>
                on[n][i].place = "org" /\ \E a \in archives : a.node = n /\ a.fid = i /\ a.state = "due" ]_vars

\* The primary had the repository and has it no more.
Lost(r) == r.primary \in DOMAIN r.rep /\ ~r.rep[r.primary].present

\* ForgeSync renames nothing on a primary; elsewhere it gives the copy that the
\* record has under an old name the new one, and takes the name off a copy only
\* of a repository that was read as lost there or as deleted.
OnlyCopiesRenamed ==
    [][ ByForgeSync => \A n \in Node : \A i \in DOMAIN on[n] : on'[n][i].name # on[n][i].name =>
          /\ job.ph # "idle" /\ n # job.rec.primary
          /\ \/ on[n][i].name = job.rec.rep[n].name /\ on'[n][i].name = job.rec.name
             \/ on[n][i].name = job.rec.name /\ (Lost(job.rec) \/ job.rec.deleted) ]_vars
=============================================================================
