# A TLA+ model of ForgeSync

ForgeSync is a control plane beside several stock Forgejo nodes. Every repository has one
*primary* node; ForgeSync keeps the other nodes' copies (*replicas*) in step with it, and takes
what people did on a replica back to the primary when nothing can be lost by it. Its promise
(`README.md:10`) is to never lose work and never decide for the owner. PostgreSQL holds what the
controllers share, and of several controllers one acts at a time.

This directory holds the modules that model it, the TLC configurations that check them on small
instances, and the proofs TLAPS checks for every value of the constants. Paths below are relative
to the repository; `internal/` is `src/internal/` in `PROJECT.json`.

    tlasany Lease.tla                               # parse a module
    tlc -workers 2 -config MCLease.cfg MCLease      # check an instance
    tlapm LeaseProofs.tla                           # check the proofs

## 1. The system

### 1.1 Components

| Component | State it keeps | Operations | What makes it correct |
|---|---|---|---|
| **leader** `internal/leader`, `store/leadership.go` | the `leadership` row; `until` and `quiet` of each process | `Run`, `once`, `handOver`, `stepDown`; `AcquireLease`, `ReleaseLease`, `Leadership` | one controller leads at a time; somebody leads again after any failure |
| **supervised work** `Supervise`, `wait`, `notify`; `cmd/forgesyncd/main.go` | subscriptions, the context of the work | start and cancel `Scanner.Run`, `Installer.Run`; deliveries | work only under the lease; work follows leadership |
| **controllers, preferred leader** `store/controllers.go`, `main.go` | heartbeats, the chosen name | `recordController`, `yieldToBetterController` | leadership reaches the preferred controller and stays |
| **health** `internal/health` | node states, failures, uplink | `CheckOnce`, `Next`, `Restore` | no node is blamed for the controller's own network; what is recorded becomes true |
| **run queues** `Engine.Trigger/RunRepo`, `Syncer.Trigger/RunRepo` | `running`, `again` | trigger, round, run again | one run of a repository at a time; no trigger missed |
| **replication of refs** `replication/{plan,engine,git,handoff}.go`, `store/replication.go` | `replicated_refs` (the *base*), `replica_syncs`, the bare git cache | `runPasses`, `runOnce`, `replicate`, `autoFix`, `seedPrimary` | no work lost, tags stay, everything settles or is reported |
| **hand-offs** `replication/handoff.go`, `store/handoffs.go` | `conflict_handoffs` rows, `forgesync/conflict/...` branches, pull requests | `handOff`, `applyDecisions`, `resetReplicas`, clean-up | the owner's decision is carried out, on what they looked at |
| **set merges** `internal/set`, `replication/{collaborators,protection,releases,actions,packages,orgs,settle}.go` | a base per repository or owner and kind | `set.Decide`, `set.Settle`, the writes of each kind | an addition or removal anywhere reaches everywhere; an unread node removes nothing |
| **field merges** `replication/{metadata,orgs}.go`, `issues/merge.go` | a base value per field | three-way merge | one edit wins everywhere, two become a conflict |
| **issues** `internal/issues`, `store/{issues,items}.go` | a record of each issue, comment, label with its copies and base | `runOnce`: read, attach, delete, merge, copy, mark, save | everything once on every node; nothing changed is deleted or overwritten |
| **inventory** `internal/inventory`, `store/{repos,users}.go` | `repositories`, `repository_replicas`, scans | `ScanAll`, `ScanRepo`, `AssignPrimaries` | a failed scan removes nothing; primaries stay |
| **renames** `store/renames.go`, `replication/rename.go` | names by node, aliases | `DetectRenames`, `mergeRename`, `renameOn` | a rename is never a deletion and a creation |
| **deletion, archives** `replication/deletion.go` | `archives` rows, renamed copies | archive, purge, recreate | only what was deleted on its primary is archived, and it can be taken back |
| **provisioning, users** `replication/{provision,users}.go` | repositories and accounts on nodes | `createOnReplica`, `EnsureUser` | only adds |
| **webhooks** `internal/webhook` | hooks on the nodes | `Changed`, install | a delivery is looked at by ForgeSync itself, never believed |
| **wiki** `replication/wiki.go` | a base of its own | `syncWiki` over `Plan` | as for refs |
| **conflict records** `store/conflicts.go`, `conflicts/detector.go` | `conflicts` rows with state and details | `SyncConflicts`, dismiss | open exactly while found; a dismissal lasts while nothing changed |
| **nodes, api, cli, webui, auth, config, secret, LFS** | sessions, the node set, objects | requests | edges of the system |

### 1.2 How they interact

* `Elector.Run` renews the lease; `Supervise` runs the leader-only work under a context it cancels
  when the lease is lost. Health checks, heartbeats, the HTTP servers and the node watch run on
  every controller; what they see is written by the leader only.
* The leader's work is the **round**: `Scanner.Run` scans every node, then `AssignPrimaries`
  (renames first), conflict detection, `Engine.RunAll` and `Syncer.RunAll`.
* A run of a repository is refs first, then collaborators, settings and topics, releases, wiki,
  variables, LFS, protection, each with its own base; an owner's organizations and packages once a
  round; then issues.
* Beside it, the **webhook path**: a delivery that passes `leaderDispatcher` looks at one
  repository on every node and triggers it at once, in a goroutine that does not end with leadership.
* Both meet in `RunRepo`, which keeps one run of a repository at a time *in one process*. Between
  processes only the lease keeps runs apart.
* A run reads the nodes, decides, and writes node by node; people use every node at the same time.
  What all agree on afterwards is saved as the base, *after* the writes.
* Every pass writes the `conflicts` table, for its own kinds.

### 1.3 What is hard

Time (leases, pauses, timers on several clocks); calls that fail after they had their effect;
crashes between an effect and its record; people who write while a run is between its reads and
its writes; nodes that are away for one run and back for the next; records read before a rename was
seen; triggers that come while a run is under way; work that outlives leadership; three-way
merges whose base is stale. `PROJECT.json` lists each as a hazard at its line, with the
properties that would catch it.

## 2. The modules

| Module | Models | Its proofs |
|---|---|---|
| `Leadership` | the abstract leadership the rest relies on | |
| `Lease` | the election: processes, the row, an unreliable database, clocks | `LeaseProofs` |
| `Supervise` | Lease, and the work and runs started on top of it | in `LeaseProofs` |
| `Fleet` | several controllers: health, heartbeats, the preferred leader | `FleetProofs` |
| `RunQueue` | `running` and `again` of one repository in one controller | `RunQueueProofs` |
| `RefPlan` | `plan.go`: what to do about one ref | in `ReplicationProofs` |
| `Replication` | runs of one repository's refs, its users, and failures | `ReplicationProofs` |
| `Handoff` | hand-offs of one branch: owners, runs, rows, pull requests; uses `RefPlan` | `HandoffProofs` |
| `SetMerge` | `set.go`, `settle.go`, `mergeField`: the two merges, as operators | in `PartsProofs` |
| `Parts` | people, nodes and the pass that merges one kind of part | `PartsProofs` |
| `PartCalls` | what each of ten kinds of part writes, and the properties | `PartsProofs` |
| `IssueCopies` | issues, people, the snapshots, finding a record for what is new; uses `SetMerge` | in `IssuesProofs` |
| `Issues` | the rest of an issue run, record by record, and the properties | `IssuesProofs` |
| `Inventory` | repositories on nodes, scans, looks, renames, primaries | in `RepositoriesProofs` |
| `Repositories` | the engine's run for whole repositories; extends `Inventory` | `RepositoriesProofs` |

`MC*.tla` and `MC*.cfg` are the instances. A definition whose comment calls it a *mutant* is not
part of the model: it is a plausible mistake in the definition that follows it, used to see that
the properties would notice.

### Lease (`internal/leader/elector.go`, `store/leadership.go`)

A member of `Process` is one controller process with its own holder id; one that restarts is
another member, since `NewHolderID` is new on every start. An instant is the time left until it,
shortened by `Tick`, so clocks never have to be compared, as in the code.

* `Start, SendAcquire, Answer, AcquireFails, KeepLease, HandOver, HandOverEnds, StepDown,
  StepDownEnds, StopStandby, SkipRound` are the steps of `Run`, `once`, `handOver` and `stepDown`,
  cut at every call to the database.
* `Acquired, Refused, Reread, Released` are the database's side: the upsert, the second statement
  that reads who has the lease, the release. A caller that gives up leaves its statement in `late`,
  and `LateAcquire`, `LateReleased` apply it afterwards, any number of times, or `LoseLate` loses it.
* `DatabaseTurns` and `Crash` may happen at any time.
* `LateRelease` says whether the release of a *hand-over* can be applied after its caller gave up.
  A `stepDown`'s always may: its process never asks again.
* `Yield` (the preferred leader) is any answer at any time: `KeepLease` or `HandOver`. `Fleet` has
  the answers the code gives.

### Supervise (`Elector.Supervise`, `wait`, `notify`; `main.go`)

Extends `Lease`; each of its steps is composed with what the election's step does to it: `Notify`
after the election's steps that end in `notify()`, `Proceed` for the others. `told` is the buffered
channel, `poll` the timer of one `Renew` in `wait`. `Trigger` is a delivery passing
`leaderDispatcher`, `RunEnds` the end of the run it started. `lapse` counts how long work has gone
on without the lease. With `Punctual`, a process serves its timers before time passes.

### Fleet (`internal/health`, `store/controllers.go`, `main.go`)

Several controllers, each with its own `Monitor` (`status`, `failures`, the uplink's last answer
`asked`) over the same nodes, and one row a node. `Check` is `CheckOnce` for one node: `Found` is
`Next`, `AllQuiet` and `Uplink` decide whether the controller's own network is to blame, `Written`
is `leaderRecorder`. `Start` is `Restore`. `Beat` and `Ages` are heartbeats, `Round` a round of
`once` with `yieldToBetterController`: `known` and `moved` are its `seen`, `Before` the controllers
it looks at, `Alive` its test that a heartbeat has moved.

The lease is `Lease`'s seen from afar: one controller's or nobody's. A pause of two renewals is a
round of every other running controller. Not modelled: the history of transitions, `RecordUplink`'s
audit entry, a database away while a heartbeat is due, controllers being forgotten.

### RunQueue (`engine.go`, `issues/sync.go`)

A goroutine of `Caller` is a delivery, an administrator, or the leader's round. `Enter` and
`RunEnds` are the two critical sections of `RunRepo`, `Trigger` the engine's own look at `running`
before it starts a goroutine. Between two runs the engine reads the record with the lock released
(`Fetched`, `FetchFails`), which is when it may find the repository forgotten. `Issues` makes it the
syncer's queue: no look before, no read between, and a run that fails leaves (`Leaves`).
`unseen` is history: a trigger no run has begun after. A run counts as looking from the moment it
enters, which is the earliest it can, so the model finds a trigger missed if any schedule does.

### RefPlan and Replication (`replication/{plan,engine,git,handoff}.go`)

A commit is a model value and `Reach[c]` its history. `Plan` is `plan.go` for one ref; a commit
listed but gone when it was fetched is *blind*, and its ancestry cannot be told.

One run of one controller is `run[w]`, cut at every call: list the primary (`BeginPass`), fetch it,
then for each replica, in any order, list, create it if it is gone (`Recreate`, `Forget`), fetch and
read the base, push, take over (`autoFix`), record the base, and at the end of the pass write the
conflicts; a pass whose `autoFix` moved the primary is followed by one more (`AnotherPass`).

* A push is a compare-and-swap per ref (`Moved`); a ref already where it is to go is reported done
  (`InPlace`), a deletion of a ref that is gone is not. git sends nothing at all when it has not got a
  commit it is to send (`Refuses`), and when it then has nothing to say of another ref `Push` calls it
  a failure (`Silent`). A node may refuse some refs and take others (`Taken`), and an answer can be
  lost after the push took effect (`PushFails`, `TakeOverFails`).
* `UserSets` pushes, force-pushes, creates or deletes any ref on any node of `Writers` between any
  two steps. `Writers = {Primary}` is what `protect_replicas` makes of it.
* `CopyDeleted` deletes a replica's copy of the repository in Forgejo.
* `Crash` ends a run at any point. Several members of `Runner` overlap, as `Supervise` shows they can.
* `Rest` marks the moment from which users and failures leave the repository alone.

Left out of `Replication`: what comes before the refs in `runOnce` (renames, deletion, `seedPrimary`:
`Repositories` has them), hand-offs (`Handoff`), `CreateMissing = false`, the hidden refs `LsRemote`
filters, and the other parts (`Parts`), which share no state with the refs.

### Handoff (`replication/handoff.go`, `store/handoffs.go`, migration `0008_handoffs.sql`)

One branch of one repository. `hand[s]` is a hand-off branch on the primary, `s` its name
(`forgesync/conflict/<replica>/<branch>`, then `-2`, ...), `pulls[k]` a pull request and `rows[k]` its
row in `conflict_handoffs`. `run` is what one run has in its hands, in the order of `runOnce`:

* `Begin` reads the primary, the hand-off branches and the active rows.
* `applyDecisions`, row by row: `LeaveRow`, `PullGone`, `StartDrop, Drop, SaveDropped` (merged, or the
  backup is over), `StartReset, ResetReplica, SaveReset` (closed; replica by replica). A crash or a
  failed call may come between any two of them, and a call that failed may have had its effect.
* Each replica is compared: `Follow`, `TakeOver`, `Differ`, `Skip`. Here that is one step, since
  `Replication` takes it apart; `Verdict` is the same `Plan`.
* `handOff`, version by version: `StillOpen`, `Extend, SaveExtended`, or `OpenBranch, OpenPull, Insert`,
  with `UndoBranch` when there is no pull request to show for the branch.
* `Write` pushes to the branch on any node; `Merge` (with a merge commit or a squash), `Decide` (close,
  reopen, remove) and `Amend` (push to the hand-off branch) are the owner; `BackupEnds` is `BackupFor`
  passing. `had` is history: commits the owner has had on the branch, or people let go of themselves.

People do not delete hand-off branches, and do not push to one that is only a backup, or is no longer
their last pull request's: `deleteHandoffBranch` deletes such a branch as it finds it, which is what the
pull request's text says. A pull request reopened once its reset is done is not looked at again.
`HandOff` and `AutoFix` are on, and the primary stays the primary.

### SetMerge, Parts and PartCalls (`internal/set`, `replication/{collaborators,protection,releases,actions,packages,orgs,metadata,settle}.go`)

A *member* is a pair, a name and what is in it, as the code's `login:permission` or
`rule:digest` strings are; a kind with a second layer (a release's files, a team's people) has
members of that layer too. `SetMerge` has `Decide`, `Settle`, `settle`, the tests for contested
names and `mergeField`, as operators.

A behaviour of `Parts` is about one kind of part (`kind`): `on[n]` is what node `n` holds, `base`
what is stored, `told` the open conflicts, and `pass` what a pass has in its hands: what it read
(`seen`), what it believes each node has by now (`have`, the code's `at`), what was there
by name (`here`), and the calls left to make at the node it is at.

* `Begin, ReadNode, ReadFails, Compare, CreateOrg, NextTurn, Save, Tell` are the pass all kinds
  share; `CutOff` is the lease lost or the process gone, at any point.
* `PartCalls` has what each kind asks of a node: `CollaboratorCall`, `RuleCall`, `ReleaseCall`,
  `AssetCall`, `VariableCall`, `PackageCall`, `TeamCall`, `MembershipCall`. A call says whether it is
  made at all (a release waits for its tag), whether the node can take it as things are *now* (a rule
  to be edited may be gone), and what is there after it. `Answered` and `Unanswered` are its two
  ends; one left without an answer may have landed.
* `SetTopics`, `WriteField`, `FollowPrivate` are what is written as a whole; the `Guard` actions are
  `protectReplicas`, `withoutGuard` and `reassertGuard`.
* `Give, TakeAway, Change, Tamper, TurnOff` are people, `TagArrives` git replication. `hist` is
  history: what people took away, which names clashed, what each node ever had.

Names stand for ids (a release is known by its tag), a failing `EnsureUser` is a failing call, and
an organization's profile shares the kind `fields` with a repository's settings. Left out: the
"Owners" team, secrets (which are only reported), a registry's own paths. `SpecCopies` lets copies
go and be made again; no run uses it, see finding 4 in section 5.2.

### IssueCopies and Issues (`internal/issues`, `store/{issues,items}.go`)

A *thing* is an issue, pull request, comment or label: a key (title, name), a text (body, colour,
state) and what hangs on it (reactions, files, reviews). `on[n][i]` is the thing with id `i` on node
`n`, `recs` the records with their copies and agreed values, `worn[n]` the labels of one issue.

* `Begin, ReadNode, ReadIssues, PassOver` take the snapshots; `Attach` finds the record of each new
  thing by author and key (`AttachTo`), or makes one (`Recognise`).
* Record by record (`Take`): what was deleted on the primary goes through `DeleteCopy`; the rest
  through `EditCopy` (field by field), `MakeCopy` (recorded copy by copy), `ClosePull`, `MarkCopy`; then
  `Save`. `run.left` is the set of calls the phase has left. A call may fail, or be carried out and its answer
  lost; a copy made so is there and not recorded, and the run goes on or ends there.
* `Labels, SetLabels, SaveLabels` merge which labels the issue wears; `Tell` writes the conflicts.
* `Make, Edit, Delete, Mark, Wear` are people, between any two calls.

Simplified: one author; a node is read in one step (but labels before issues); new things of
different nodes are attached in any order; the state of an issue is a text like its body. Left out:
assignees, due dates and milestones (the same merges and code), comments of a deleted issue,
`#n` references in texts. `Keys` is what the kind's things are told apart by (a comment by its text, the others by
their title or name), `hist.made[k]` how many of key `k` people made. `hist.owed` says that a base moved without a copy that was away,
`hist.twins` that two different things of one key were taken for one, `hist.remade` that a copy was made or
found of something that other things already hung on, `hist.mixed` that a copy was made with a new value the
base did not have yet, `hist.unrecorded` that one was made, and not recorded, in place of one the store still
names.

### Inventory and Repositories (`internal/inventory`, `store/{repos,users,renames,archives}.go`, `replication/{engine,provision,rename,deletion}.go`, `webhook/dispatch.go`)

`on[n][i]` is the repository with Forgejo id `i` on node `n`: its name, whether it is live, archived
or gone, and `line`, whose work is in it. `recs` are the records, with what was last seen on
every node; one owner's repositories, as a person's (with a `home`) or an organization's.

* `BeginRound, ListNode, RecordScan, ScanFails` are `ScanAll`; `Hear, Observe, AskFails` are a
  delivery and `ScanRepo`; `Recorded` is `recordRepos` with its choice of the record a copy belongs to.
* `DetectRenames, AssignPrimaries` follow a round, `Looked, RenameSoon, AssignSoon` a look.
* `StartListed` and `Trigger` start the engine's run, on the record as it was read. `Find` asks the
  primary; `AskRenamed, Mark, RenameAway, SaveRenamed, MoveAway` archive; `Undelete`, `Purge`,
  `Purged` take back and end; `SeedCreate, SeedPush` fill an empty primary; `RenameCopy, CreateCopy,
  PushCopy` bring each replica in line. `JobFails` and `Crash` may come between any two.
* A record may be forgotten (`Purged`, a merge of two by a rename) while a round or a run goes on with it as it was
  read: `Marked` then writes no row, saving an archive fails and the next node is served (`SaveFails`), and `Find`
  asks the primary all the same. `InUse` are the records there are and those still worked on.
* There may be a single node: then there are no replicas, and `FirstNode` ends the run.
* People `Make`, `Remove` and `Rename` repositories on any node; administrators `Choose` a primary
  or `Move` an owner.

Simplified: the work in a repository is one value, so a push fills an empty copy and does nothing
else (`Replication` has the rest); one run and one look at a time; `ScanRepo`'s question and its
record are one step; an archived copy's two calls of moving are one. Left out: mirrors,
forks, `first_seen_at`, accounts. There is no fairness: only safety is stated.


## 3. The runs

| Run | Instance | Shows |
|---|---|---|
| `lease` | 2 processes, TTL 3, Renew 1, calls take up to 2 | `TypeOK`, `AtMostOneLeading`, `LeaseWithinRow`, `QuietAfterHandOver`, `LeaderReturns`, `ImplementsLeadership` |
| `supervise` | 1 process, TTL 5, Renew 2 | `SupTypeOK`, `CancelledWithinRenew`, `WorkFollowsLeadership` |
| `run_queue` | 3 goroutines, the engine's queue | `OneRun`, `FlagsMatch`, `TriggerSeen` |
| `replication` | primary and replica, a branch and a tag, 3 commits that fork, users act 3 times, every failure | `TypeOK`, `BaseFromPrimary`, `LosesNothing`, `TagsStay`, `Settles` |
| `handoff` | primary and 2 replicas, 5 commits, 3 pull requests, 2 names a replica, people act 4 times, one failure | `TypeOK`, `BackupKept`, `KeepsWork`, `Resolves` |
| `parts` | 3 nodes, ten kinds, people act twice, one failure | `PartsTypeOK`, `BaseWasEverywhere`, `OnlyPeopleRemove`, `NewValueStands`, `Settles` |
| `issues` | 2 nodes, four kinds, people act twice, one failure | `IssuesTypeOK`, `NoTwins`, `NotCopiedBack`, `ChangedCopyKept`, `NewValuesStand`, `MarksStay`, `Settles` |
| `repositories` | 2 nodes, 2 names, people act once, one later scan or look, one failure | `RepositoriesTypeOK`, `WorkKept`, `ArchivedOnlyIfDeleted`, `NoSecondCopy` |
| `fleet` | 2 controllers, 2 nodes, threshold 2, one failure | `RowSettles`, `PreferredLeads`, `YieldsOnce` |
| `parts_one_failure` | 2 nodes, collaborators, one act, one failure | **violated** `TakenByPeople` |
| `issues_away` | 3 nodes, an issue, people act twice, one failure | **violated** `NewValuesStandAlways` |
| `repositories_moved` | 2 nodes, people act twice, no failure | **violated** `ArchivedOnlyIfDeletedAlways` |

### Bounds, and why they are enough to be interesting

* `lease`: two processes are an overlap, a hand-over and its return; with TTL 3 and calls
  of up to 2 a renewal can be answered so late that its lease has one unit left, and a process can miss
  renewals, lose the lease and take it back.
* `supervise`: one process, whose lease runs out, is lost, handed over and taken again; what another
  process's lease does to this one's work is only to be the lease this one has not got.
* `run_queue`: the goroutine that runs, the one that marks, and one that comes in between.
* `replication`: three commits, two of them children of the first, make a branch ahead, behind,
  diverged and rewritten. One replica reaches every decision of `Plan`, which looks at one replica at a
  time. `Edits` bounds how often users act; failures and crashes are not bounded. The theorems cover any
  number of nodes, refs and overlapping controllers.
* `handoff`: a primary's version, a replica's and its child, the merge and the squash of both, so that
  a branch can diverge, go on, be merged either way, be deleted and diverge again. Two replicas share
  a version or leave it one by one; three pull requests let a version be handed off, decided on and
  handed off again. `Acts` and `Faults` bound people and failed calls or crashes, at any point.
* `parts`: three nodes are one that changed something, one that did not and one that was not read. Two
  values make a change, two nodes and two acts a clash. Two edits are also enough to make something and
  take it away again, or to make it twice under one name. One failure is a call, a read or a
  whole pass that does not come through, at any of its steps.
* `issues`: one title (issues with different titles never meet in the code) and three texts, which is an
  old one and two that are new.
* `repositories`: two names are a rename or a swap-over; two nodes are a primary and a replica. A round
  or look after the first is a `recheck`, so that what one of them saw can be old when a run uses it.
* `fleet`: a threshold of 2 is the least at which a suspicion differs from a finding; two nodes are the
  least at which "every node is silent" differs from "this node is silent".

Larger instances that pass, too long to keep: `issues` with three nodes (two texts; 673,279 states),
`replication` with four edits on a chain of commits (514,960), `fleet` with two failures (one node, two
conditions; 126,180), and `repositories` with two edits and no failure (23,282,746). With three edits, no
failure and no recheck `NoSecondCopy` passes (7,413,785), and `ArchivedOnlyIfDeleted` and `WorkKept` do not: 8 and 9
in section 5.2.

### Fairness

* `Lease`: a process keeps running its loop, a call ends (it is served or fails: every call has a
  timeout), and time passes. Nothing is assumed of stops, crashes, hand-overs or of the database coming
  back; `LeaderReturns` has as its hypothesis a database that stays up and one process that is neither
  stopped nor crashed. `Lag`, the longest a call to a reachable database takes, is below TTL: with calls
  slower than the lease nobody leads for long, in the code as in the model.
* `Supervise`: also that `Supervise` keeps running and that cancelled work returns, as `Scanner.Run` and
  `Installer.Run` do.
* `RunQueue`: a goroutine keeps running and runs end; a round that is due is made, but no further
  round is assumed, since a trigger is there to not wait for one.
* `Replication`, `Handoff`, `Parts`, `Issues`: rounds start runs again and again (`Scanner.Run` has a
  ticker), and each call returns. In `Parts` and `Issues` git also brings tags and branches, which is
  `Replication`'s `Settles`. People and failures come to rest because their bounds end, or, in
  `Replication`, because `Settles` speaks of behaviours in which they do. Nothing is assumed of what
  people do, so `Resolves` may find a version waiting for its owner.
* `Fleet`: every loop of a running controller comes round, and a lease nobody renews runs out. Nothing
  broken must ever be mended, nobody must stop, start or choose: `RowSettles` and `PreferredLeads` have
  what they need of this as hypotheses.
* `Repositories`: none; only safety is stated of it.

**Deadlock** is checked in every run.

## 4. The properties

**Leadership.** `AtMostOneLeading`, `LeaseWithinRow`: the lease counts from when the request went
*out*, so late answers, lost answers and statements applied after their caller gave up never make a
process believe in a lease longer than the row. `ImplementsLeadership`: between two leaders there is
a moment with none. `QuietAfterHandOver`: nothing in flight brings a process back during its pause.
`CancelledWithinRenew`: work that lost the lease, even by plain expiry with nobody told, is cancelled
within one `Renew`; `WorkFollowsLeadership`: in the end it runs exactly where the lease is.

**Fleet.** `YieldsOnce`: a stopped controller's heartbeat looks recent for a while, and its priority or
an administrator's choice makes others step aside for it; each does so at most once, since a heartbeat that was
seen has to *move* to count again. `PreferredLeads`: it leads, in the end, and for good. `RowSettles`:
what was held back because the controller's own network was gone gets recorded; strikes, restarts and
changes of leader do not leave a wrong row.

**Run queue.** `OneRun`, `FlagsMatch`, `TriggerSeen`: no two runs at once, no flag without a goroutine
behind it, and every trigger is followed by a run that began after it.

**Refs.** `LosesNothing`: what a run takes off a ref is contained in the new value or, on a replica, was
once on the primary under that ref, with stale bases, forced pushes between any two calls, refused and
half-taken pushes, and copies deleted and made again. `BaseFromPrimary`: the base only holds what the
primary has held, which is why a deletion it justifies destroys nothing of a replica's own. `TagsStay`: a
run creates or deletes tags and never moves one. `Settles`: once all rest, each ref is for good the
same everywhere or in the open conflicts.

**Hand-offs.** `KeepsWork`: a run takes nothing off the replicas, the primary or a hand-off branch that is
not still on one of them, unless the owner has had it on the branch or people let it go. `BackupKept`: as
long as a choice can be regretted, the version that lost is on its branch; hard because branch, row and
replicas are written one by one. `Resolves`: in the end each replica has the primary's version or its own
is in an open pull request that names it, and no decision waits to be carried out.

**Parts.** `OnlyPeopleRemove`: ForgeSync takes a name off a node, as it had read it, only if a person took
that name away on some node or two values of it were being spread at once; for variables and packages,
which guard against the second, only the first. `BaseWasEverywhere`: a member is in the base only when
every node that is compared has had it, so its absence can only mean that it went. `NewValueStands`: a
variable's value is written over only when everyone has had it. `Settles`: in the end the nodes agree name by
name, or the name is an open conflict; and the guard's rule is on every replica. `PartsTypeOK` has in it that
no node holds a name twice, however creating and editing cross what people do.

**Issues.** `NoTwins`: cut off between making a copy and recording it, a run finds the copy again.
`NotCopiedBack`: what was deleted on the primary is not brought back there. `ChangedCopyKept`: nothing is
deleted that holds, as read, a value of a merged field the primary never had (a pull request's state is not
merged). `NewValuesStand`: no value is written over
that some node with a copy has not yet had. `MarksStay`: no reaction, file or review is taken off that
nobody took off. `Settles`: in the end the nodes show the same, or a conflict is open, and what is closed on
the primary is closed. Each names the cases it excuses: `hist.owed`, `twins`, `remade` and `unrecorded` are
disagreements of the code and its words, and are below; `renamed` is a thing whose key changed, which `attach` cannot find
again; and `mixed` is what it means to copy during a conflict, a new copy having to have some value.

**Repositories.** `ArchivedOnlyIfDeleted`: a copy is archived only of work a person deleted on its
primary. `WorkKept`: work people made and did not delete is on some node, whatever is renamed, archived,
purged, made again or filled. `NoSecondCopy`: a run gives no node a second copy of work its record says
the node has. The excuses `hist.moved`, `stale` and
`taken` are under *Repositories* in section 5.2, with two cases they do not cover, which take three edits.

## 5. Where the code and its words disagree

### 5.1 Shown by a run

1. **One failed call takes a person's access away** (`parts_one_failure`, `collaborators.go:90`). A
   changed permission is a member to remove and one to add. The old one is taken off what the node is
   believed to have *before* the grant; if the grant fails it is not put back. It leaves the base, the
   next run finds two new values and gives each node the other's, and the run after that removes the
   person everywhere. `collaborators.go:15-22` says nobody loses access.
2. **A node that was away brings the old text back** (`issues_away`, `issues/sync.go:937`). A field's base
   moves although a copy was not read, or writing it failed; the node's old value then differs from the
   base alone, and is copied over the new one everywhere. `merge.go:10-12` says one new value wins.
   The same code is in `metadata.go` and in `mergeOrgFields`.
3. **A moved primary makes a deletion of nothing** (`repositories_moved`, `deletion.go:35`). A copy
   deleted on a replica that becomes the primary before the copy is made again looks like the owner's
   deletion, and the copies that live are archived.

### 5.2 Met while modelling

None of these has a run of its own. In brackets, where there is one, is the statement a changed instance
of these modules refutes.

*Parts*

1. Two nodes give one collaborator, rule or release two new values: they are swapped, both enter the base,
   and both are removed everywhere. `actions.go` guards against it with `contestedVariables`.
   [`TakenByPeople` with two edits and no failure]
2. A team's permission is changed: the team is deleted elsewhere and its members then everywhere; two
   different permissions never settle and are no conflict, which is why `Settles` leaves teams out.
3. `mergeTopics`: where `SetTopics` fails and the reading after it too, the pass believes what it asked
   for; and `SetTopics` overwrites topics that were added since it read.
4. A copy lost and made again, a feature turned off and on, an organization just created: nodes without
   the repository are not counted as unread, so the emptiness of a new copy is read as removals, everywhere.
   [`SpecCopies`] `settle.go:10-16` is about just this. The same holds of reactions, files and reviews of a
   remade copy (`issues/sync.go:1046-1061`), which is `MarksStay`'s excuse; `MarksStayAlways` has none.

*Issues*

5. Two issues of one author and title are one to `attach`; deleting one on the primary then deletes the
   other's text elsewhere. [`hist.twins`]
6. A label deleted on a replica between the reading of labels and of issues, or in a run cut off, comes off
   every issue on every node. [`LabelsStay`]
7. A trigger that came during a run of the syncer is dropped when the run fails, although
   `issues/sync.go:190-191` says it makes it run once more. [`RunQueue` with `Issues = TRUE`, `TriggerSeen`]

*Repositories*

8. A new repository under a deleted one's name, on a replica, is archived with the copies. So is one made anew
   while a round still has the record of a repository that was purged meanwhile in its list: `RunAll` and `runOnce`
   do not read it again. [`ArchivedOnlyIfDeleted` with two edits, and `Taken` of the records in the store only]
   Two repositories of one name, made on two nodes before either has a primary, are one record; when
   the one that becomes the primary's is deleted, the other is archived. [`ArchivedOnlyIfDeleted` with three edits]
9. `ScanRepo` of the old name before the new one is known, and a record read before `DetectRenames`, make a
   rename a deletion. So does a mark that was not taken off: a deleted repository is made again and
   copied by a run that read the record before it was marked, and then renamed; `DeletedAt` is still set, with which
   `primaryHad` answers at once (`deletion.go:37`) and `runOnce` does not ask for a rename (`engine.go:366`), and the
   copies are archived. [`ArchivedOnlyIfDeleted` with three edits, the cases of 8 excused]
10. A crash between `archiveOn`'s rename and `SaveArchive` (`deletion.go:118`) leaves a copy nobody wrote
    down, which the next scan takes for a repository and replicates.
11. A push under the new name between the scan and `AssignPrimaries`, or a copy made since the last scan,
    ends in a second copy; a failed recording of a scan leaves the older one's word standing.

*Fleet*

12. A change first seen on a standby is never written to the history (`main.go:487-500`); `RowSettles` shows
    that the row is right all the same.
13. `Restore` keeps a state but not its count, so a node that stays away is recorded unreachable, suspect and
    unreachable again, against the comment at `main.go:153`.
14. A check begun while the controller's network was gone and ended after another node answered is recorded
    against the node.

*Leadership, refs and hand-offs*

15. **A late release makes two leaders.** `handOver` gives up on `ReleaseLease` after five seconds and may
    lead again, under the same holder id, two renewals later; a release the database applies after that
    frees the new lease, against `elector.go:7-9`. [`MCLease` with `LateRelease = TRUE`, `Renew = 2`]
16. **Triggered runs outlive leadership.** `Engine.Trigger` detaches from its context, against
    `elector.go:11-13`. [`MCSupervise` with 2 processes, TTL 4, Renew 2, Lag 5: `RunsUnderLease`] The
    theorems of `ReplicationProofs` say what this does not break.
17. **An unrecorded push makes the owner's change look like the replica's.** With a stale base a rewind or
    deletion by the owner is undone by `autoFix`, against `plan.go:54-55`. [`Replication` with
    `Writers = {P}` and a chain of commits: `RewriteStands`] Even with a right base, an owner's rewind and a
    replica's new commit on top of what was removed make a replica that is merely ahead. Nothing is lost.
18. **A row that was not saved deletes another hand-off's branch.** `saveHandoff` only logs a failure; the
    row of an expired backup stays, its branch's name is taken by the next hand-off, and the run after
    deletes that branch for the old row, against `handoff.go:30-32`.
    [`MCHandoff` with one replica, `Reach <- Fork`, `Pushed <- Apart`, 5 acts and `Unsaved = TRUE`: `BackupKept`]
    A crash between `deleteHandoffBranch` and `saveHandoff` does the same to a merged row, with every save
    succeeding: the row stays open, a run that cannot read its pull request leaves it so (the error is only
    logged), a new hand-off takes the name, and the run after reads the old pull request as merged and
    deletes the new branch. The owner then closes the new pull request and the replica is reset with no
    backup. [`MCHandoff` with one replica that pushed two commits and a primary that pushed one, 2 pull
    requests, 1 name, 5 acts, 2 faults, `Unsaved = FALSE`: `KeepsWork`, `BackupKept`] The run `handoff` is too
    small for it, and the theorems of `HandoffProofs` name it as a hypothesis.

*Issues that were cut off or closed early*

19. **A copy made again may be made twice.** A copy that was deleted on a replica leaves the record in memory only
    (`issues/sync.go:806`, `items.go:210`); it is made again and then recorded, "at once: a copy made but not
    recorded would be made twice" (`sync.go:999`). When the process dies, or the save fails, between the two, the
    store still names the copy that was deleted, so the next run does not find the new copy to be one the record
    lacks, as `sync.go:690-692` says it would. It gets a record of its own and a copy on every node.
    [`NoTwins` without `hist.unrecorded`, an issue, one edit, one fault]
20. A pull request that is closed on a replica before it is first read is recorded as closed, so that it counts as
    unchanged, and goes with the primary's copy when that is deleted. [`ChangedCopyKept` of `Fields`, three edits]

## 6. The proofs

Eight modules hold theorems; `tlapm` checks each to the last leaf. Every assumption on the constants is
named in the module that declares them, and TLC evaluates it.

`LeaseProofs`, for any set of processes and any `TTL > Renew > 0` and `Lag > 0`:

* `TypeCorrect`: `TypeOK`, directly inductive.
* `LeaseStaysWithinRow` and `OneLeader`, assuming `~LateRelease`. `LeaseWithinRow` alone is not
  inductive: an answer on its way may carry a lease, and a release may be on its way. `LeaseInv` adds
  `GrantWithinRow` (an answer in flight, shortened by its age, is within the row), `ResignedFirst` (only
  a process that stopped leading asks for the release) and `LateFromTheDead` (a release that outlives
  its caller is a stopped or crashed process's). The assumption is needed: without it, 15 in section 5.2
  happens. `OneLeader` follows because the row names one holder.
* `StaysQuiet`: `QuietInv` adds that no election call is open during the pause.
* `Implements`: each step of `Lease` is a step of `Leadership` or leaves `leaderNow` alone; the lemma
  `OnlyAnswersMakeLeaders` says only `Answer` makes a leader, and `LeaseInv` that nobody led before it.

The same module about `Supervise`, for any set of processes and any timings:

* `LeavesElectionAlone`: `SupSpec => Spec`. Work that is started, waits, is told or stops takes no step of the
  election, so every theorem about `Lease` holds of the supervised system as well.
* `SupTypeCorrect`: `SupTypeOK`, from `SupTyped` and `TypeOK`.
* `WorkIsCancelled`, assuming `Punctual` (a process serves its timers before time passes; a paused one is
  late by as much as it was paused). `CancelledWithinRenew` bounds how long work has outlived its lease, which alone says
  nothing of the next instant. `CancelInv` says what will end it: work without a lease has a timer running that
  was set while it still had one, and `lapse + poll <= Renew`. `NotBegun` is needed beside it: a process that has
  not been started holds nothing, so that no work starts without a timer.

`HandoffProofs`, for any nodes, histories, names, pull requests and failures:

* `TypeCorrect`: `TypeOK`, without a hypothesis.
* `BackupStays` (`BackupKept`) and `NothingLost` (`KeepsWork`), when rows are saved (`~Unsaved`) and no crash falls
  between deleting a branch and updating its row (`[][Recorded]_vars`). Both hypotheses are needed: 18
  in section 5.2 shows what happens without each. Every other crash, failed call, lost answer and push of other people
  is allowed, between any two steps.
* The inductive invariant is `Held /\ Covered`. `Held` ties a run to its rows and the rows to branches: `Stages` (what a
  run knows of the row it is at), `InStep` (the rows a run read are still those of the table, and an active row
  is the last one that used its branch's name) and `Backed` (an active row's branch is its own and holds what was
  handed off, from before the row is written until its deletion is decided). `Covered` says where the rest is: what the
  primary holds or was read to hold, and every base, the primary has had; a version that was seen to differ is
  still on a node or was had; and what is on a branch that may be deleted is on a node or on a branch that
  stays. It is needed because a run deletes by rows it read several steps, and other people's pushes, before.

`FleetProofs`, for any controllers, nodes, priorities and thresholds: `HandsOverOnce`. That fewer than two
hand-overs were made is not inductive; `StoppedIsStill` is: nothing is counted against a controller that
runs, and one that was handed the lease after it stopped has no heartbeat left that the one who
handed over has not seen. `RoundKeeps` is the step that matters.

`RunQueueProofs`, for any number of goroutines: `RunsApart` and `FlagsStand`. `OneRun` is not inductive:
a goroutine enters because the flag is clear, so `FlagsMatch` (the flag is set exactly while one is
inside) is proved with it.

`ReplicationProofs`, for any nodes, refs, tags, histories, writers and number of overlapping
controllers, with and without failures: `TypeCorrect`, `BaseIsHistory`, `NothingLost`, `TagsNeverMove`.
The inductive invariant is `TypeOK`, `HadWhole` (what the primary has held is closed under history),
`PrimaryHad` (its present value is part of it), `BaseFromPrimary`, and `RunOK`: what a run carries from
step to step of the primary, of the base and of its issues is of the primary's history, and what
`autoFix` will take over is new to the primary's ref or builds on it, and never moves a tag. `RunOK` is
needed because a run writes what it read several steps, and any number of other people's pushes, before.
`PlanFacts` and `VerdictFacts` are what the proof uses of `plan.go`; `ReplicaPushKeeps` and
`PrimaryTakesKeeps` are the two places where a ref is written.

`PartsProofs`, for any nodes in any order, names, values, kinds and bounds:

* `MergeConverges`, about `set.go` by itself, for any sets: once all that `Decide` asks for is done, every node that was
  read holds what all still had of the base and all that was new anywhere; `Settle` records just that, and
  another pass has nothing to do.
* `OneValuePerName` (`PartsTypeOK`), `BaseIsShared` (`BaseWasEverywhere`) and `NewValuesKept`
  (`NewValueStands`), from `PartsInv`: `AllTyped`; `AllSound` (what any node holds, was read to hold or is
  believed to hold has one value a name, and the shape its kind has); `CallsMeant` (the calls left are
  those `Decide` asked for, of the right layer); `Phases` (what a pass has when); `ReadAll` (a pass that
  left no node unread has read every node that is compared); `HasHad` (what a node holds, or is believed to
  hold, it has had); and `BaseWasEverywhere`. The
  base is the place where beliefs, formed several calls before, become the record, which is why
  `HasHad` and `ReadAll` are needed: `SettleFacts` says a new member of the base is believed of every
  node read, `ReadAll` that these are all, and `HasHad` that what is believed was true once.
* For `NewValuesKept`: a member that is removed was in the base, hence everywhere (`BaseWasEverywhere`).
  One that is replaced has the same name as a member being added; were it not in the base it would be new
  too, and its name contested and left alone (`contestedVariables`).
* `PeopleRemove` (`OnlyPeopleRemove`), from `PartsInv` and `TakenInv`. A name is *excused* once a person took it away, or,
  in a kind that spreads both of two new values, once they clashed. What is not excused is on every node that
  was read with it, is believed to have it, or is compared and has it in the base (`NamesKept`), and every read finds it
  (`SeenKept`). `BaseOne` (two values of a name in the base have clashed), `ClashNoted` and `BeliefFrom` (a
  belief is what was read, or what the turn makes of it) are needed because a changed member is taken off and
  put back by two calls, between which the name is not there; `Asking` keeps the two together.
  `RemovalExcused` is what `Decide` comes to, `TwoTurned` that a turn cannot leave two values of a name that has not
  clashed, `CallLeaves` that no call takes off another name than its own.

`IssuesProofs`, for any nodes in any order, keys, texts, records, kinds and bounds:

* `TypeCorrect` (`IssuesTypeOK`) from `TypeInv`: `NodesTyped`, `RecordsOK`, `Origins`, and of the run `RunOK`,
  `AtHand` (the record at hand names no copy the store does not), `Pending` (the calls left are for copies that are to be
  written, or for nodes without one) and `HaveOK`. That no two records share a copy needs them all: a new copy's
  id is new, and only a thing that no record names is attached.
* `NothingBack` (`NotCopiedBack`), from `Origins` and `AtHand`: a record that was on the primary has its copy there or
  is marked deleted, from one run to the next and in the one at hand. It holds without an excuse.
* `KeptIfChanged` (`ChangedCopyKept`) and `NothingNewLost` (`NewValuesStand`), from `HadInv`: what is on a
  node or was read there it has had (`Been`); the base of each record every copy has had (`BaseHad`; after a
  copy was made in the middle of a merge only the primary's, `Counts`), and so the record at hand's, unless
  it is still to be written (`RecHad`); and what is written over, or deleted, was read as the base
  (`Wants`). A run writes and deletes by what it read several calls before, and people go on meanwhile.
* `NothingTakenOff` (`MarksStay`), from `MarksInv`: as long as nobody took anything off, the base hangs on every
  copy (`OnNodes`), on every copy as read (`OnRead`, `AtMerge`), what was read is still there (`ReadOn`), what the
  run counts as there is there (`AtMark`), and so there is nothing to take off (`OnlyAdds`).
* `NoneTwice` (`NoTwins`), from `TwinInv`, by counting per key. To count the things of a key on a node against what
  people made, each has to belong to one record, or to become one's:
  `Keyed` says records, things and what was read of them have one key (`OnKey`, `ReadKey`, `SnapKey`, `HandKey`);
  `Placed` that what a record to come names is older than what was read (`InSnap`), that a deleted record has nothing on the
  primary (`NotOnPrimary`), that a node is read once (`ReadOnce`), that all that was read has a record once all is
  attached (`AllKnown`) and that a copy a record at hand lost was deleted (`GoneBefore`). `Counted`
  is the count, of one key: until all is attached, the records with a copy on a node, what is there still to be
  attached, and what came to any one node since it was read (each may become a record of its own, and then a copy
  everywhere) are together no more than people made; afterwards, of a node that was read, the records that have or will
  have a copy there and what came since. A copy that was made and not recorded is in the count because the
  next run finds it unknown and attaches it before it makes anything. What people rename, and the copy made in place of
  one the store still names (19 in section 5.2), are excused, as in the property. `TwinInv` was first checked with TLC
  on the run's instance (233,733 states) and on three nodes with two failures (1,729,307).
* The lemma `OnlyCalls` says an edit, a closing, a mark and a deletion, each of a copy of the record at hand, are all that
  ForgeSync does to a thing that is there.

`RepositoriesProofs`, for any nodes in any order, names and bounds:

* `NamesApart` (`RepositoriesTypeOK`), from `TypeInv`: `OnOK` (no two live repositories of a node share a name), `RecordsOK` (no two
  records share one; rows name repositories their node has had), `AliasesOK`, `ArchivesOK`, and of what
  is under way `RoundOK` and `JobOK`. A round and a run carry records and rows that were read many steps before, by which
  names are given and archives are written; so what they carry must name repositories the node has had too, and
  every step keeps that, since a node never uses an id again (`Grows`, `AllKept`). A renamed archive is given a name
  that is free: of one more number than there are repositories, one is not taken (`ArchivedIsFree`). A new
  record's id is no other's (`NewIdIsNew`); a list that is recorded row by row is `RecordedAllIs`.
  Archives of archives have names of their own, so the names are a tower (`AllNames`).
* `OnlyDueGoes` (`OnlyArchivesGo`): ForgeSync takes no work off a repository, and deletes only what is in the archive
  organization and was kept there for its time. `PrimaryKeepsNames` (`OnlyCopiesRenamed`): it renames nothing on the
  node it has for the primary; elsewhere it gives a copy its repository's new name, or takes the name off what was
  read as lost there or as deleted. From `GentleInv`: `WayOK` (the nodes a run has left are not its primary, and it archives
  what was lost or deleted, through every phase, failure and skipped node) and `AwayOK` (an archive that was moved is never
  again a live repository). `AwayOK` is needed because `Purge` deletes by an id saved long before. Both
  properties are stated in `Repositories` and in no run of section 3; TLC agreed on the run's instance (1,639,265 states).

Model-checked and not proved:

* Everything about liveness (`LeaderReturns`, `WorkFollowsLeadership`, `TriggerSeen`, `Resolves`, `RowSettles`,
  `PreferredLeads` and each `Settles`) and about `ENABLED`, which the prover does not do.
* `ArchivedOnlyIfDeleted` and `WorkKept` of `Repositories`, which the run shows for one edit (and TLC for two): they are
  false of three, by 8 and 9 in section 5.2, so no theorem can state them for every bound. What holds for every bound is
  `PrimaryKeepsNames` and `OnlyDueGoes`: what is archived was *read* as lost or deleted.
* `NoSecondCopy`, which needs an invariant of whose copy is whose after any number of renames.

No theorem is about what a recursive definition computes for every input: that is induction over data, and out of the
prover's reach here too.

## 7. Plan

Done: every module of section 2. Left, in this order:

1. The wiki with the conflict records: `syncWiki` keeps a base of its own that takes everything found on
   the replica (`wiki.go:163-166`), and clears conflicts the git pass opened (`wiki.go:89-103`); the records
   themselves are dismissed and reopened by their details (`store/conflicts.go:28-101`).
2. A primary that changes under open hand-offs (`handoff.go:168`): `Handoff` composed with the primary of
   `Repositories`.
3. `Repositories`: an invariant of whose copy is whose, from what a run may believe of a record it read before the
   last scan. `NoSecondCopy` would follow from it, and what exactly `ArchivedOnlyIfDeleted` has to excuse.
4. Accounts: a crash between `AdminCreateUser` and `NoteCreatedAccount`.
5. Issues: comments of a deleted issue, references between issues, the order of creation.

## 8. Not modelled, and why

* Wiki, conflict records, accounts: see the plan. What conflicts a pass reports and clears is in each
  module that has a pass.
* The Forgejo client, configuration, secrets, the command line and the web interface do input and output
  over the state above and keep none of their own. Of the client the modules have what a call does to a
  node, which errors are told apart, and that a failed call may have had its effect.
* Sessions, roles and the API's handlers are single statements over the store. What they change of the
  rest is an action where it matters: a primary chosen, an owner moved, a controller chosen, a run triggered.
* Migrations run under one lock at start-up; the audit log and the health history are only appended to.
* LFS objects and the files of packages are addressed by content: copying only adds, and keeps no state.
* The inventory comparison is a report over one scan.
* Secrets of Actions cannot be read, so ForgeSync only reports which are missing.
