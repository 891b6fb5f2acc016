------------------------------- MODULE Issues -------------------------------
(***************************************************************************)
(* The second half of a run over issues, comments, pull requests or labels *)
(* (issue, comment and item): record by record, delete what was deleted on *)
(* the primary, merge the fields, make the missing copies, and bring what  *)
(* hangs on them together.  One step is one call to one node or one write  *)
(* to the store.  For labels the run then merges the labels of an issue    *)
(* that every node has.                                                    *)
(***************************************************************************)
EXTENDS IssueCopies

Without(f, S) == [n \in DOMAIN f \ S |-> f[n]]
Seen(r, n) == run.snap[n][r.copies[n]]
\* Copies the snapshots know, so not the ones made in this run.
Present(r) == {n \in Read \cap DOMAIN r.copies : There(run.snap[n], r.copies[n])}
Vals(r, f) == [n \in Present(r) |-> Seen(r, n)[f]]

\* Mutant of Contested: of two new values one is taken.
NeverContested(r, f) == FALSE

Contested(r, f) == FieldConflict(Vals(r, f), r[f])

\* What everyone should have: the one new value, or on a conflict, for new
\* copies only, what the primary has.
Wanted(r, f) ==
    IF ~Contested(r, f) THEN FieldValue(Vals(r, f), r[f])
    ELSE IF Primary \in Present(r) THEN Seen(r, Primary)[f] ELSE r[f]

EditsFor(r) == {c \in Merged \X Present(r) : /\ ~Contested(r, c[1])
                                             /\ Seen(r, c[2])[c[1]] # Wanted(r, c[1])}

\* Mutant of Differs: a copy that was changed counts as unchanged.
NeverDiffers(r, n) == FALSE

\* A copy that was changed since the last time all agreed.
Differs(r, n) == \E f \in Fields : Seen(r, n)[f] # r[f]

-----------------------------------------------------------------------------
(* A record is taken: what was deleted on the primary goes through the     *)
(* phase "delete", the rest through "edit", "make", "close" and "mark".    *)

\* The base takes the merged value, whoever has it by the end of the run.
MergedInto(p, r) ==
    [p EXCEPT !.rec = [r EXCEPT !.key = IF Contested(r, "key") THEN @ ELSE Wanted(r, "key"),
                                !.text = IF "text" \notin Merged \/ Contested(r, "text") THEN @ ELSE Wanted(r, "text")],
              !.want = [key |-> Wanted(r, "key"), text |-> Wanted(r, "text")],
              !.left = EditsFor(r), !.ph = "edit",
              !.found = @ \cup {<<p.i, f>> : f \in {g \in Merged : Contested(r, g)}},
              !.behind = /\ DOMAIN r.copies \ Read # {}
                         /\ \E f \in Merged : ~Contested(r, f) /\ Wanted(r, f) # r[f]]

\* Deleted on the primary: unchanged copies go too, changed ones stay.
ToDelete(p, r) ==
    LET rest == Present(r) \ {Primary}
        changed == {n \in rest : Differs(r, n)}
    IN  [p EXCEPT !.rec = [r EXCEPT !.deleted = TRUE, !.copies = Without(@, {Primary} \cup (Read \ rest))],
                  !.found = @ \cup {<<p.i, "deleted">> : n \in changed},
                  !.kept = @ \cup (changed \X {p.i}),
                  !.left = rest \ changed, !.ph = "delete"]

\* A label deleted on a replica is made again there, later in this run.
Lost(i) == (Read \cap DOMAIN recs[i].copies) \ Present(recs[i])
Picked(i) ==
    [run EXCEPT !.i = i, !.todo = @ \ {i}, !.behind = FALSE,
                !.vanished = @ \cup IF kind = "label" THEN Lost(i) ELSE {},
                !.complete = @ /\ (kind = "label" => Lost(i) = {})]

\* Mutant of WasDeleted: that it was deleted is forgotten after one run.
WasDeletedNow(i) == Primary \in Lost(i)

WasDeleted(i) == recs[i].deleted \/ Primary \in Lost(i)

Taken(i) ==
    IF WasDeleted(i)
    THEN ToDelete([run EXCEPT !.i = i, !.todo = @ \ {i}, !.behind = FALSE], recs[i])
    ELSE IF Present(recs[i]) = {} THEN Picked(i)
    ELSE MergedInto(Picked(i), [recs[i] EXCEPT !.copies = Without(@, Lost(i))])

Take ==
    /\ run.ph = "records" /\ run.todo # {}
    /\ run' = Taken(Lowest(run.todo))
    /\ UNCHANGED <<kind, on, worn, recs, wornBase, told, people, faults, hist>>

\* Copies are made, closed and deleted in the order of the nodes.
FirstOf(S) == Order[Lowest({j \in DOMAIN Order : Order[j] \in S})]
NextNode == FirstOf(run.left)
Past(c) == [run EXCEPT !.left = @ \ {c}]

Now(n) == on[n][run.rec.copies[n]]
Alive(n) == There(on[n], run.rec.copies[n])

\* have: what hangs on each copy; a copy just made has nothing yet.
Have == [n \in Read \cap DOMAIN run.rec.copies |->
           IF There(run.snap[n], run.rec.copies[n]) THEN Seen(run.rec, n).extra ELSE {}]
Marks == {c \in {"add", "remove"} \X Read \X Extra :
            /\ kind # "label" /\ c[2] \in DOMAIN run.rec.copies
            /\ c[3] \in IF c[1] = "add" THEN AddTo(Have, run.rec.extra, c[2])
                                        ELSE RemoveFrom(Have, run.rec.extra, c[2])}

\* Mutant of Lacks: copies are made of what is new only.
LacksNew == IF DOMAIN run.rec.copies = {Primary} THEN Read \ {Primary} ELSE {}

\* The nodes without a copy ...
Lacks == Read \ DOMAIN run.rec.copies
\* ... and, followPullState, those where a pull request closed on the primary
\* is open.  It is never reopened.
StillOpen ==
    {n \in Present(run.rec) :
        /\ kind = "pull" /\ Primary \in Present(run.rec)
        /\ Seen(run.rec, Primary).text = Closed /\ Seen(run.rec, n).text = Open}

\* All calls of a phase are made: on to the next phase that has any.
NextPhase ==
    /\ run.ph \in {"edit", "make", "close", "mark", "delete"} /\ run.left = {}
    /\ run' = IF run.ph = "edit" /\ Lacks # {}
              THEN [run EXCEPT !.ph = "make", !.left = Lacks]
              ELSE IF run.ph \in {"edit", "make"} /\ StillOpen # {}
              THEN [run EXCEPT !.ph = "close", !.left = StillOpen]
              ELSE IF run.ph \in {"edit", "make", "close"}
              THEN [run EXCEPT !.ph = IF Marks = {} THEN "save" ELSE "mark",
                               !.left = Marks, !.have = Have]
              ELSE [run EXCEPT !.ph = "save"]
    /\ UNCHANGED <<kind, on, worn, recs, wornBase, told, people, faults, hist>>

Incomplete(p) == [p EXCEPT !.complete = FALSE]

Own == UNCHANGED <<kind, wornBase, told, people>>

\* EditIssue, EditIssueComment, EditLabel: one field of what is still there.
EditOne(f, n) ==
    LET p == Past(<<f, n>>)
    IN  \/ /\ Alive(n)
           /\ on' = [on EXCEPT ![n][run.rec.copies[n]][f] = run.want[f]]
           /\ hist' = [hist EXCEPT !.been[n] = @ \cup {<<f, run.want[f]>>}]
           /\ run' = p /\ UNCHANGED faults
        \* refused, for it is gone, or left without an answer
        \/ /\ IF Alive(n) THEN faults > 0 /\ faults' = faults - 1 ELSE UNCHANGED faults
           /\ run' = Incomplete([p EXCEPT !.behind = TRUE]) /\ UNCHANGED <<on, hist>>

\* Field by field, and for a field by the names of the nodes.
EditCopy ==
    /\ run.ph = "edit"
    /\ \E c \in run.left :
         /\ c[1] = "key" \/ \A d \in run.left : d[1] = "text"
         /\ EditOne(c[1], c[2])
    /\ UNCHANGED <<worn, recs>> /\ Own

\* A copy is made as its author and recorded at once.  One whose answer is
\* lost, or that the controller dies before recording, is there unrecorded.
NewCopy == [key |-> run.want.key, extra |-> {},
            text |-> IF kind = "pull" THEN Open ELSE run.want.text]

MakeCopy ==
    /\ run.ph = "make" /\ run.left # {}
    /\ LET n == NextNode
           p == Past(n)
           r == [run.rec EXCEPT !.copies = [o \in DOMAIN @ \cup {n} |-> IF o = n THEN Len(on[n]) + 1 ELSE @[o]]]
           made == on' = [on EXCEPT ![n] = Append(@, NewCopy)]
           been == [hist.been EXCEPT ![n] = @ \cup Values(NewCopy)]
       IN  \/ /\ kind = "pull" => n \in branches
              /\ made /\ run' = [p EXCEPT !.rec = r]
              /\ recs' = [recs EXCEPT ![run.i] = r]
              /\ hist' = [hist EXCEPT !.been = been, !.owed = @ \/ run.behind,
                            !.remade = @ \/ run.rec.extra # {},
                            !.mixed = @ \/ \E f \in Merged : run.want[f] # run.rec[f],
                            !.onPrimary = IF n = Primary THEN @ \cup {run.i} ELSE @]
              /\ UNCHANGED faults
           \* a pull request's copy waits for its branches
           \/ /\ kind = "pull" /\ n \notin branches
              /\ run' = Incomplete(p) /\ UNCHANGED <<on, recs, hist, faults>>
           \/ /\ faults > 0 /\ faults' = faults - 1 /\ UNCHANGED recs
              /\ \/ run' = Incomplete(p) /\ UNCHANGED <<on, hist>>
                 \/ /\ kind = "pull" => n \in branches
                    /\ run' \in {Incomplete(p), Idle} /\ made
                    /\ hist' = [hist EXCEPT !.been = been,
                                  !.unrecorded = @ \/ n \in DOMAIN recs[run.i].copies]
    /\ UNCHANGED worn /\ Own

ClosePull ==
    /\ run.ph = "close" /\ run.left # {}
    /\ LET n == NextNode
           p == Past(n)
       IN  \/ /\ Alive(n) /\ on' = [on EXCEPT ![n][run.rec.copies[n]].text = Closed]
              /\ hist' = [hist EXCEPT !.been[n] = @ \cup {<<"text", Closed>>}]
              /\ run' = p /\ UNCHANGED faults
           \/ ~Alive(n) /\ run' = Incomplete(p) /\ UNCHANGED <<on, hist, faults>>
           \/ /\ faults > 0 /\ faults' = faults - 1
              /\ run' = Incomplete(p) /\ UNCHANGED <<on, hist>>
    /\ UNCHANGED <<worn, recs>> /\ Own

\* A reaction, file or review is put on a copy or taken off it.
Marked(c, S) == IF c[1] = "add" THEN S \cup {c[3]} ELSE S \ {c[3]}

MarkOne(c) ==
    LET n == c[2]
        \* taking off what is no longer there is not an error
        can == Alive(n) \/ c[1] = "remove"
    IN  \/ /\ can /\ run' = [Past(c) EXCEPT !.have[n] = Marked(c, @)]
           /\ on' = IF Alive(n) THEN [on EXCEPT ![n][run.rec.copies[n]].extra = Marked(c, @)] ELSE on
           /\ UNCHANGED faults
        \/ ~can /\ run' = Incomplete(Past(c)) /\ UNCHANGED <<on, faults>>
        \/ /\ faults > 0 /\ faults' = faults - 1
           /\ run' = Incomplete(Past(c)) /\ UNCHANGED on

MarkCopy ==
    /\ run.ph = "mark"
    /\ \E c \in run.left : MarkOne(c)
    /\ UNCHANGED <<worn, recs, hist>> /\ Own

\* What is already gone is not an error.
DeleteCopy ==
    /\ run.ph = "delete" /\ run.left # {}
    /\ LET n == NextNode
           p == Past(n)
           id == run.rec.copies[n]
       IN  \/ /\ on' = [on EXCEPT ![n][id] = Gone] /\ worn' = [worn EXCEPT ![n] = @ \ {id}]
              /\ run' = [p EXCEPT !.rec.copies = Without(@, {n})] /\ UNCHANGED faults
           \/ /\ faults > 0 /\ faults' = faults - 1
              /\ run' = Incomplete(p) /\ UNCHANGED <<on, worn>>
    /\ UNCHANGED <<recs, hist>> /\ Own

\* Mutant of SettledExtra: the base moves without the nodes not read.
SettledAny(p) == Settle(p.have, p.rec.extra)

\* sawAll: the base of what hangs on it moves only if every copy took part.
SettledExtra(p) ==
    IF kind # "label" /\ DOMAIN p.rec.copies \subseteq Read
    THEN Settle(p.have, p.rec.extra) ELSE p.rec.extra

\* The record is saved, or forgotten with the last copy of what was deleted.
Save ==
    /\ run.ph = "save"
    /\ recs' = IF run.rec.deleted
               THEN IF run.rec.copies = << >> THEN Without(recs, {run.i})
                    ELSE [recs EXCEPT ![run.i] = run.rec]
               ELSE [recs EXCEPT ![run.i] = [run.rec EXCEPT !.extra = SettledExtra(run)]]
    /\ hist' = [hist EXCEPT !.owed = @ \/ run.behind]
    /\ run' = [run EXCEPT !.ph = "records", !.have = << >>, !.want = << >>, !.rec = << >>]
    /\ UNCHANGED <<on, worn, faults>> /\ Own

-----------------------------------------------------------------------------
(* The labels of one issue.  A node where a label is being made again is   *)
(* not compared, only written; a label kept there for its owner is neither *)
(* seen nor taken off.                                                     *)

ItemOf(n, id) == {i \in DOMAIN recs : n \in DOMAIN recs[i].copies /\ recs[i].copies[n] = id}
LabelsValue(n) == {i \in UNION {ItemOf(n, id) : id \in run.wornAt[n]} : <<n, i>> \notin run.kept}
LabelVals == [n \in Read \ run.vanished |-> LabelsValue(n)]
LabelsWanted == FieldValue(LabelVals, wornBase)
LabelsDue == {n \in Read : LabelsValue(n) # LabelsWanted}

Labels ==
    /\ run.ph = "records" /\ run.todo = {} /\ kind = "label"
    /\ run' = IF FieldConflict(LabelVals, wornBase)
              THEN [run EXCEPT !.ph = "tell", !.found = @ \cup {<<0, "labels">>}]
              ELSE [run EXCEPT !.ph = IF LabelsDue = {} THEN "saveLabels" ELSE "labels",
                               !.left = LabelsDue, !.want = [labels |-> LabelsWanted]]
    /\ UNCHANGED <<on, worn, recs, faults, hist>> /\ Own

\* labelFIDs: the wanted ones by their ids here, and those not ForgeSync's.
LabelIds(n) == {recs[i].copies[n] : i \in run.want.labels}
               \cup {id \in run.wornAt[n] : \A i \in ItemOf(n, id) : <<n, i>> \in run.kept}

SetLabels ==
    /\ run.ph = "labels"
    /\ LET n == NextNode
           can == \A i \in run.want.labels : n \in DOMAIN recs[i].copies
           p == [Past(n) EXCEPT !.ph = IF run.left = {n} THEN "saveLabels" ELSE @]
       IN  \/ /\ can /\ worn' = [worn EXCEPT ![n] = {id \in LabelIds(n) : There(on[n], id)}]
              /\ run' = p /\ UNCHANGED faults
           \/ ~can /\ run' = Incomplete(p) /\ UNCHANGED <<worn, faults>>
           \/ can /\ faults > 0 /\ faults' = faults - 1 /\ run' = Incomplete(p) /\ UNCHANGED worn
    /\ UNCHANGED <<on, recs, hist>> /\ Own

SaveLabels ==
    /\ run.ph = "saveLabels" /\ wornBase' = run.want.labels
    /\ run' = [run EXCEPT !.ph = "tell"]
    /\ UNCHANGED <<kind, on, worn, recs, told, people, faults, hist>>

-----------------------------------------------------------------------------
\* The conflicts: only a complete run clears those it did not find.
Tell ==
    /\ \/ run.ph = "tell"
       \/ run.ph = "records" /\ run.todo = {} /\ kind # "label"
    /\ told' = run.found \cup IF run.complete THEN {} ELSE told
    /\ run' = Idle
    /\ UNCHANGED <<kind, on, worn, recs, wornBase, people, faults, hist>>

\* The lease is lost, the process dies or the store does not answer.
CutOff ==
    /\ run.ph # "idle" /\ faults > 0 /\ faults' = faults - 1 /\ run' = Idle
    /\ UNCHANGED <<kind, on, worn, recs, wornBase, told, people, hist>>

Possible(f) == IF f = "key" THEN Key ELSE IF kind = "pull" THEN {Open, Closed} ELSE Text

People ==
    \/ \E n \in Node, t \in Thing : Make(n, t)
    \/ \E n \in Node : \E i \in DOMAIN on[n] :
         \/ \E f \in Fields : \E v \in Possible(f) : Edit(n, i, f, v)
         \/ Delete(n, i) \/ Wear(n, i)
         \/ \E e \in Extra : Mark(n, i, e)

Run ==
    \/ Begin \/ ReadNode \/ ReadIssues \/ PassOver
    \/ \E n \in Node : Attach(n)
    \/ AllAttached \/ Take \/ NextPhase \/ EditCopy \/ MakeCopy \/ ClosePull \/ MarkCopy \/ DeleteCopy \/ Save
    \/ Labels \/ SetLabels \/ SaveLabels \/ Tell

Next == People \/ Run \/ CutOff \/ BranchesArrive

\* The rounds come while the controller leads, and replication brings the
\* branches.
Fairness == WF_vars(Run) /\ WF_vars(BranchesArrive)

Spec == Init /\ [][Next]_vars /\ Fairness

-----------------------------------------------------------------------------
(* Properties.                                                             *)

\* Every variable keeps its type, a record only names copies its node has had,
\* and no two records share a copy (Store.SaveIssue's unique node and number).
IssuesTypeOK ==
    /\ kind \in Kinds /\ branches \subseteq Node
    /\ \A n \in Node : on[n] \in Seq(Thing \cup {Gone}) /\ worn[n] \subseteq DOMAIN on[n]
    /\ \A i \in DOMAIN recs : /\ i \in Rec /\ recs[i].key \in Key /\ recs[i].text \in Text
                              /\ \A n \in DOMAIN recs[i].copies : recs[i].copies[n] \in DOMAIN on[n]
    /\ \A i, k \in DOMAIN recs : i # k =>
         \A n \in DOMAIN recs[i].copies \cap DOMAIN recs[k].copies : recs[i].copies[n] # recs[k].copies[n]
    /\ edits \in 0 .. MaxEdits /\ faults \in 0 .. MaxFaults

Ours == edits' = edits
Live(n) == {i \in DOMAIN on[n] : There(on[n], i)}

\* However runs are cut off and answers are lost, no node gets a thing twice:
\* of each key it has no more than people made.  Unless keys were changed
\* meanwhile, a copy made and not recorded is found again (issues, comments
\* and items: attach).
NoTwins == ~hist.renamed /\ ~hist.unrecorded =>
    \A n \in Node : \A k \in Keys : Cardinality({i \in Live(n) : on[n][i][KeyField] = k}) <= hist.made[k]

\* What was deleted on the primary is not made there again by ForgeSync
\* (deletedOnPrimary: "they're never copied back on their own").
NotCopiedBack ==
    [][Ours /\ Len(on'[Primary]) > Len(on[Primary]) => run.i \notin hist.onPrimary]_vars

\* ForgeSync deletes nothing that holds a value, as read, which the primary
\* never had -- unless its base had moved on without a copy that was away,
\* or two different things with one key were taken for one.
ChangedCopyKept ==
    [][ Ours /\ ~hist.owed /\ ~hist.twins =>
          \A n \in Node : \A i \in Live(n) :
            (~There(on'[n], i)) => {<<f, run.snap[n][i][f]>> : f \in Merged} \subseteq hist.been[Primary] ]_vars

\* The value v, as read on n, is written over by ForgeSync.
WrittenOver(n, i, f) ==
    /\ n \in Read /\ There(run.snap[n], i) /\ There(on'[n], i)
    /\ on'[n][i][f] # on[n][i][f] /\ run.snap[n][i][f] = on[n][i][f]
Everywhere(f, v) == \A n \in DOMAIN run.rec.copies : <<f, v>> \in hist.been[n]

\* merge: one new value is copied everywhere, and two overwrite nothing.  So
\* a value that is written over has been wherever there is a copy -- unless the base had
\* moved without a copy that was away, or two different things with one key
\* were taken for one.
NewValuesStand ==
    [][ Ours /\ kind # "pull" /\ ~hist.owed /\ ~hist.mixed /\ ~hist.twins =>
          \A n \in Node : \A i \in Live(n) : \A f \in Fields :
            WrittenOver(n, i, f) => Everywhere(f, on[n][i][f]) ]_vars

\* The same without the excuse for a node that was away.
NewValuesStandAlways ==
    [][ Ours /\ kind # "pull" /\ ~hist.twins =>
          \A n \in Node : \A i \in Live(n) : \A f \in Fields :
            WrittenOver(n, i, f) => Everywhere(f, on[n][i][f]) ]_vars

Unmarks == \E n \in Node : \E i \in Live(n) :
             There(on'[n], i) /\ ~(on[n][i].extra \subseteq on'[n][i].extra)

\* Nothing that hangs on a thing is taken off by ForgeSync unless a person
\* took it off somewhere ("taken back on one node, taken back on the others").
MarksStayAlways == [][Ours /\ Unmarks => hist.unmarked]_vars

\* It holds as long as no copy was made after the first ones.
MarksStay == [][Ours /\ Unmarks /\ ~hist.remade => hist.unmarked]_vars

\* A label comes off an issue only if a person took it off an issue, or
\* deleted it on the primary (itemVanished).
LabelsStay ==
    [][Ours /\ (\E n \in Node : ~(worn[n] \subseteq worn'[n])) => hist.unlabelled]_vars

Shown(n) == {IF kind = "pull" THEN [on[n][i] EXCEPT !.text = Open] ELSE on[n][i] : i \in Live(n)}
Closes == \A i \in DOMAIN recs : \A n \in Node :
            (Node \subseteq DOMAIN recs[i].copies /\ on[Primary][recs[i].copies[Primary]] # Gone
              /\ on[Primary][recs[i].copies[Primary]].text = Closed /\ There(on[n], recs[i].copies[n]))
              => on[n][recs[i].copies[n]].text = Closed
AllAgree ==
    \/ told # {}
    \/ /\ \A n \in Node : /\ Shown(n) = Shown(Primary) /\ Cardinality(Live(n)) = Cardinality(Live(Primary))
                          /\ {on[n][i].key : i \in worn[n]} = {on[Primary][i].key : i \in worn[Primary]}
       /\ kind = "pull" => Closes

\* Once people and failures stop, the nodes agree or a conflict is open.
Settles == <>[]AllAgree
=============================================================================
