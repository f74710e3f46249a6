# Narrarium: TLA+ models of the local-first application

Narrarium keeps each book of an author in two places: a working copy in the
browser's IndexedDB, which is what the editor reads and writes, and a branch of
a GitHub repository. The author's account (settings, chats) lives in IndexedDB
as well and is copied to the user's own storage: Google Drive, OneDrive, a
GitHub repository. There is no server of Narrarium's own: every device, and every
tab of a device, runs the protocols by itself, over stores that other devices
write too.

That is the hard part of the program, and what is modelled here. Edits, commits,
pulls, pushes and copies overlap at every `await`; the network fails or loses
answers; tabs close, sleep and come back. Through all of that no text of the
author may be lost, none of another device overwritten unseen, and whatever was
deleted or interrupted must end.

The models are checked with TLC, and the core of them proved with TLAPS. Paths
below are relative to `src/narrarium-site/src/` of the repository unless they
start with another top-level directory.

## Inventory

| component | state | operations | what is hard | what makes it correct |
|---|---|---|---|---|
| local working copy (`repository/localRepository.ts`) | per file a row: content, base, status, committed; local commits; recovery snapshots; last known head and remote status | write, delete, commit, unwind commits, settle a push, merge, replace the tree, snapshot, restore | writes without a lease between two transactions of a leased operation; reads in one transaction used in another | rows are well formed; bases agree with the known head; every committed row is in a commit |
| repository service (`repository/repositoryService.ts`, `remoteMutationReconciliation.ts`) | one leased operation at a time, the periodic check beside it | remote check, pull, remote-wins pull, push, full sync with conflicts, local-source overwrite, restore | stale heads, lost answers, stale conflict answers, partial failure of a long operation | nothing overwritten unseen, nothing local lost, everything drains |
| confirmed change (`repository/safeRepositoryMutation.ts`) | one change from its preflight to its push or rollback | preflight, write and commit, push, reconcile, roll back | the rollback comes long after the write | it takes back only itself |
| conflict dialog (`components/layout/Topbar.tsx`) | the conflicts shown | bind choices to what was shown | answers that are old | a choice is valid only for exactly what was shown |
| life of a working copy (`localRepository.ts`, `repositoryMaintenance.ts`) | clone state and its lease, removal journal, backup receipt, fences | clone, repair, back up, remove in nine steps, cancel, resume, reclone | crashes between any two steps, tabs that sleep through their lease | what is called complete is whole; unsaved work stays; what was interrupted ends |
| rewrite operations (`localRewriteOperationStore.ts`) | operation records in a database of their own, fences, markers and tombstones | save, delete, fence, remove | a record that is saved after its copy went | no record without its copy |
| account replication (`account/`) | a manifest with a vector clock per device, one replica per storage | save, compare, push, adopt, resolve, delete a replica | concurrent tabs and devices, conditional writes, lost answers | a replica gives way only to what knows it, or to a decision of the user |
| cloud write barrier (`drive/cloudWriteBarrier.ts`) | one record per account: leases of writers, tombstone, journal, fences | acquire, assert, release; request a deletion, claim it, work it off, reclaim it | writers against a deletion over tabs that sleep and close | nothing is written into a deletion; a deletion that is done is; it ends |
| assistant chats (`assistant/sessionAutosave.ts`, `assistant/chatLocal.ts`, `components/assistant/AssistantPanel.tsx`) | the open chat, what was saved of it, the save on its way and its retries; the stored chats | edit, autosave, flush, switch, delete, save as a note | a save that is on its way while its chat is switched or deleted | an edit is stored or still going to be |
| cloud settings (`drive/cloudSettingsClient.ts`) | one file with a revision | optimistic save | ambiguous updates | no lost update |
| update intent (`pwaUpdateIntent.ts`) | intent in tab storage | set, begin, finish | reloads | no loop |
| the rest: UI, model routing and prompts, GitHub client, book format, MCP server, reader, SDKs, .NET, infrastructure | | | little shared protocol state | |

The rows from the working copy to the assistant chats are modelled, each in the
parts that are named below. `PROJECT.json` lists every component with its
sources and what of it is left out, and the hazards of this code, line by line,
with the properties that cover each, or the reason why none does.

How they interact:

* The editor and the assistant write rows directly; the repository dialog, the
  timer and the assistant start leased operations; those read and write the same
  rows, commits and repository record in short IndexedDB transactions between
  requests to GitHub. The dialog keeps the conflicts of the last sync until the
  user answers.
* Opening a book clones or repairs its copy under a lifecycle lease; a removal
  fences the copy and its rewrite operations, in two databases, before it deletes
  either.
* Every save of the account marks the store dirty and schedules a
  synchronization, which holds a lock per device and writes replicas other
  devices write too.
* Everything written to a cloud folder passes the write barrier; the deletion of
  that folder takes the barrier first.
* The panel and the Chats page share the open chat in memory and the stored chats
  in IndexedDB, but only the panel saves.

Working copies and replicas meet nothing of each other's state: a book is
synchronized with its branch, the account with its replicas. So the models
compose where the code does: `WorkingCopy` within `RepositorySync`,
`AccountSync` over `AccountReplicas`, both databases of a working copy within
`RepositoryLifecycle`.

## Modules

| module | what it is |
|---|---|
| `WorkingCopy` | a row, a commit entry, a conflict, and one operator for what each transaction does to one row; no variables |
| `RepositorySync` | one open repository: rows, commits, recoveries, head and status; the branch; the leased operation, the periodic check, a write between its transactions, a confirmed change, the conflicts shown |
| `RepositoryLifecycle` | the life of one working copy in several tabs: clone, repair, edit, rewrite, backup, removal, reclone |
| `AccountReplicas` | the promise of account replication: snapshots as what they know and hold, no clocks, locks or messages |
| `AccountSync` | account replication as the code does it: local stores, tabs, vector clocks, manifests, conditional writes, decisions of the user; implements `AccountReplicas` |
| `CloudWriteBarrier` | the lease record of one cloud account, its writers and a deletion |
| `AssistantChats` | the open chat, its autosave and retries, switches, deletions and notes |
| `MC...` | instances for TLC |
| `RepositorySyncProofs`, `PublicationProofs`, `RemoteStatusProofs` | theorems about `RepositorySync` |
| `AccountReplicasProofs`, `AccountSyncProofs`, `CloudWriteBarrierProofs`, `RepositoryLifecycleProofs`, `AssistantChatsProofs` | theorems about the module they are named for |

An action is one IndexedDB transaction or one request everywhere; between two of
them anything else may run. What happens without an `await` in between is one
action.

### How the actions follow the code

**RepositorySync.** A leased operation has a `phase`, which is where it awaits.
For a full sync: `started` -> `marked` (the status says checking) -> `resolved`
(the head is read) -> `captured` (the files are listed) -> `saved` (a snapshot,
if there were commits or something is given up) -> `merged` -> `unwinding` ->
`dirty` (commits are dirty rows again) -> `committed` -> `listed` -> `planned`
-> `landed` (updateRef) -> `published` (settled) -> `reread` -> done. A push is
the part from `listed` to `landed`, a pull goes from `started` to `captured` and
replaces the tree.

**RepositoryLifecycle.** `act[a].at` is where a flow of a tab awaits. A clone:
`create` -> `download` -> `release`. A repair claims the copy with a higher fence
first. A removal, under the Web Lock: `prepare` (tombstone and journal) ->
`fence` (the rewrites go, a marker and a tombstone of their own stay; if one
landed after the backup, `cancel`) -> `fenced` -> `delete` (the copy) ->
`removed` -> `deleted` -> `finalize` (the tombstone of the rewrites) ->
`complete` -> `completed` -> `clean` (tombstone and journal) -> `settle`. Any tab
resumes at the phase the journal names; a finished removal may be replayed from
its completion, which then clears the marker as well.

**AccountSync.** A synchronization goes `pull` (one read per backend) -> `apply`
(adopt, ask, or go on) -> `next` (the next replica to write) -> `write`
(conditional on the revision read) -> `manifest` -> `check` (does the store still
hold what was written) -> `confirm`. Local saves, decisions, reloads and the
deletion of a replica, which disables it on its device, happen beside it; replicas
are not enabled again, and disabling one without deleting its data is left out. A
change puts what the replicas show back to "dirty", also an error
(`PropagateDirty`); a request for one replica cancels what was scheduled for all,
and opening a tab schedules a synchronization. The status pill shows the errors of
enabled replicas only, so `failed` counts within `enabled`.

**CloudWriteBarrier.** A write goes `leased` -> `ready` (the barrier was read) ->
`renewed` -> `sent` -> `end`. A deletion goes `drain` (the writes of its own
tab end) -> `claim` (the lease of another tab's write is over) -> `start` -> `read` -> `journal` -> `reread`, then per object `delete`
-> `send` -> `mark`, then `finish` -> `complete`, or `fail` -> `settle`; its
heartbeat runs beside it in three steps.

**AssistantChats.** `Effect` is the autosave effect, which runs in the same step
as whatever changed the open chat. `queue` is the sequence of transactions on
their way, which IndexedDB ends in order; what the code does when one ends (start
a retry, put up the loaded chat, close the deleted one) is in the action that ends
it, and is left out when the request is no longer `live` (aborted, or its panel
was closed). A note goes `pending` -> `append` -> `saved` -> `refresh` ->
`delete`.

## Abstractions

Common to all: contents are members of a small set or the set of edits they
hold; hashes, blob SHAs, fingerprints and revisions identify content, so they are
the content. One account for the whole run. Time is whether a lease or a timer is
over. Wording, logging and layout are left out.

**RepositorySync**

* `Absent` is no content. The branch always has other files that nobody touches,
  so a tree is never empty and `overwriteRemoteWithLocal` never finds nothing to
  send. Other devices only fast-forward the branch, one file per push.
* "unavailable" and "unverified" are one status. Size limits and aborts are the
  action `Fail`.
* A write touches one path. A confirmed change that would change nothing is left
  out. Its `expectedCurrentHash` is always checked. At most one two-transaction
  write is under way.
* The id of a commit is its order number; a new number is larger than those of
  every commit anybody still refers to. In the code ids are random, and the order
  comes from `nextCommitOrder`, which a restore sets back to the one of its
  snapshot: no stored commit has a later one then, so the order among the stored
  commits is the same, and only equality is asked of the others.
* A change that squashes the pending commits meets them in the order of their
  random keys (`KeyOrders`); every other reader sorts them.
* The list of dirty rows a full sync commits and the transaction that commits them
  (`createLocalCommit`, which refuses if these rows changed in between) are one
  step. A refusal leaves what a failure in phase `dirty` leaves; a write to another
  file in between is one after the step.
* A push that cannot read the tree it deletes from attempts every deletion
  (`repositoryService.ts:1069`) instead of those of files the branch has; left out,
  as deleting what is not there is refused or changes nothing.
* Reads that follow each other are one step where their order cannot be told
  apart by what runs between. Where it can (the files and then the commits of an
  overwrite) they are two. The snapshot before commits are unwound and the list
  of them are one step: a commit between them changes nothing that snapshot
  shows.
* One complete copy, one tab, leased operations in the order of their queue.
* `agreed` is history, kept only for the properties: the remote contents the
  user was shown and chose to overwrite, and those of a file whose deletion the
  code forgot (below, under weak spots).

**RepositoryLifecycle**

* Removals and repairs are serialized by the Web Lock; the durable mutation lease
  is taken inside it and never contended. Browsers without Web Locks are not
  modelled.
* A lifecycle operation is named by the fence its claim took, a copy by its
  number, a removal by its receipt. The generations of the tombstone of rewrites
  agree, so they are left out. Commits, logs and recoveries follow the files. The
  two reads of a backup are one step. A rewrite is begun on a complete copy only.
* Left out: migration of a legacy workspace, removal without a backup (only the
  end-to-end tests use it), `removeLocalRepository` and
  `removeAbandonedLocalClone` (without a caller).
* History: `safe` (work in a bundle or discarded by its author), `replayed`,
  `overtaken`.

**AccountSync**

* A snapshot identity is the device and the counter that issued it. Chats, each a
  record of its own written the same way, the import of a legacy account, recovery
  snapshots, the bootstrap and credentials are left out.
* A conditional write is one request. A failed call may or may not have been done.
* The list of replicas still to write is the set of them: they are written in the
  order of `Order`, so the set determines the list.
* Going offline and online is not an action: an offline call is a failed call, and
  what comes online only schedules more. Opening a tab schedules a synchronization
  (`components/layout/Shell.tsx:63`); initially that has run, and the user has just
  enabled the replicas.
* History: `made`, `stored` (what a backend ever stored), `left` (since the last
  change or reload the user dismissed the question, or deleted a replica whose
  error was the answer or could become it).

**CloudWriteBarrier**

* An object is what one DELETE removes, a OneDrive item at its eTag; a rewritten
  file is another object. That is OneDrive, where the journal keeps the eTag and
  the DELETE is conditional on it; Google Drive has no such condition, and its
  folder is one object that is deleted by the same steps.
* The look at the tombstone before a claim, and the read back after a
  transition, are folded into the transaction beside them;
  `updateCloudDeletionPhase` is a heartbeat. The copy of data to another provider
  is left out.
* A request its tab abandoned, or slept through the lease of, is `late`: the code
  cannot recall it. History: `lapsed`, `rolledBack`.

**AssistantChats**

* The content of a chat is the set of its changes. Answers of the model,
  compaction and attachments are changes like the author's. A note has the whole
  chat; its text is not kept. One note at a time. The import of an archive, the
  queue of cloud saves and a second tab are left out. So is a synchronization of the
  account that adopts a newer snapshot, which replaces the stored chats as well
  while one is open: the stored chats change only by this tab's own requests.
* In the beginning the panel is open, with no chat or one that was just loaded.
* History: `deleted`, `exposed` (the tab showed the chat after its deletion was
  asked), `noted`, `dropped` (changes that left the memory), and the panel's
  `stopped` (contents whose saving was given up).

## Runs

| run | instance | result |
|---|---|---|
| `pull_push` | one file, heads to 3, one failure; pull, push, check | passes, 1.2 million states |
| `full_sync` | two files, heads to 2, one lost reply or closed tab; full sync | passes, 1.2 million states |
| `tab` | one file, heads to 2, two troubles; asset writes, confirmed changes, overwrite, remote-wins pull, restore, push | passes, 1.0 million states |
| `drains` | one file, fair full syncs, one trouble | passes, 0.3 million states |
| `account_sync` | two devices, a tab each, Google Drive and GitHub, counters to 2, five snapshots with one fault or act of the user, four with both, three with one fault and two acts | passes, 0.5 million states |
| `cloud_barrier` | two tabs, one of them writing, two leases, writes and claims, one heartbeat, one trouble | passes, 0.7 million states |
| `lifecycle` | two flows, one file, two copies, two edits or rewrites, one backup, two troubles | passes, 0.5 million states |
| `assistant_chats` | two chats, one stored, one change, two requests of the user, two failures, one retry | passes, 0.6 million states |
| `sync_reread`, `local_choice`, `overwrite_deletion`, `rollback` | small instances of `RepositorySync` | violated: the findings |

Why these bounds are enough for the cases that matter. *Repository:* with two
contents and `Absent` a file has three states, so base, local and remote may all
differ. One recovery snapshot makes eviction happen at once. One trouble is enough
for a failure at every step, with the retry after it undisturbed; `tab` has two,
for a lost reply whose reconciliation fails as well. `full_sync` leaves failing
requests to `drains` (the instance with both has 1.6 million states and passes
too). With two writes a file can be edited back, but not edited away and back
twice around one merge. *Account:* two devices diverge, two
replicas disagree, and a third write meets either; Google is the one backend
where a create never finds the name taken, GitHub the one without a manifest. Two of
the snapshots are the devices' first ones. Acts change nothing: a request to
synchronize one replica or all, a reload, the deletion of a replica. Two acts and a
fault are needed for a change to lose its timer to a request, the request to fail,
and the error to be deleted with its replica; that schedule needs one change only,
so the budgets trade changes for it (`Budgets`). The acts are those of one tab,
the devices being alike.
*Barrier:* a second claim is a reclaim or a deletion after a resumption, a second
write lands before, in or after a deletion. *Lifecycle:* the second copy is the
reclone that what was late for the first one meets, and two troubles close the tab
of a removal and of its resumption. *Chats:* two requests of the user are a switch
or deletion and another that overtakes it, two failures stop an autosave with one
retry. Larger instances were run and pass too: two changes (4.0 million states),
and three requests (14.1 million, safety only).

Deadlock is not checked: with bounded work every one of these systems rests.

### What they show

Repository:

* `BaseAtKnownHead`: the base of a row is what the last known head holds there,
  or the user chose to overwrite that, or the deletion of the file was forgotten.
  Every push rests on this: it only compares
  heads.
* `NoBlindOverwrite` (action property): a push replaces only content its author
  had, or was shown and gave up.
* `LocalWorkKept` (action property): a file with local changes keeps what it shows
  unless the author writes it or a retained snapshot shows it. Two steps are exempt
  and say so: writes of the author, and the file a user gave up in a conflict,
  between snapshot and merge.
* `CommittedIsPending`: nothing is marked committed without a commit that will
  publish it. `CleanWasPublished`: nothing is clean that GitHub never had.
* `ChangedIsTrue`, `CheckingIsOwned`: the remote status is never invented, and
  never stuck at "checking".
* `RollbackTakesOnlyItsOwn` (action property): a failed confirmed change leaves
  everything else alone. `RowsWellFormed`.
* `Drains` (liveness): when the author rests, syncing and answering conflicts
  empties everything pending.

Which run checks what is a matter of what holds. `BaseAtKnownHead`,
`NoBlindOverwrite` and `CommittedIsPending` are not checked in `tab`, where the
two-transaction writes and the rollback break them; those are findings or hazards
below. Changes that commit what they write (`editAndCommit`), which squash the
pending commits, are in no run with two files. The feature `endRace` lets another device push in the window in which the
code records a head it did not merge; only `sync_reread` and `tab` have it.

Life of a copy:

* `WorkKept` (action property): nothing the author made goes without a bundle that
  holds it, by whichever removal, clone or repair, resumed by whichever tab.
* `CompleteIsWhole`: a copy called complete has every file, though the clone that
  fetched some of them was reclaimed from a tab that lives on.
* `RewritesHaveTheirCopy`: no rewrite is stored for a copy that is gone.
* `RemovalEnds`, `Recovers` (liveness): a journaled removal ends, and an
  incomplete copy becomes whole or goes, wherever tabs closed.

Account:

* `ImplementsReplicas`: `AccountSync` implements `AccountReplicas`. The mapping
  reads a clock as the set of events it counts (`Abstract`). A stored copy gives
  way only to a snapshot that knows all it knew, a device only moves forward, no
  counter names two edits, and only a decision of the user joins what diverged.
* `ConfirmedIsStored`: the safety report, on which the user deletes local data, is
  never early.
* `ChangeIsAnswered` (liveness): a change is confirmed, or the user is asked, or
  sees an enabled replica in error; unless the user put the question or that
  replica away, and neither changed anything nor reloaded since (`left`).

Cloud folder:

* `NoWriteIntoDeletion` (action property), `DeletedIsGone`: no write in hand lands
  in a deletion, and a deletion that is done is. `LaterWritesKept` (action
  property): the deletion removes nothing that was written after the user
  reconnected, even from a tab that slept. `DeletionEnds` (liveness).

Chats:

* `QuietMeansSaved`: when no timer, retry or save is under way and the panel did
  not say it gave up, the open chat is stored whole. `EditsSettle` (liveness): it
  gets there.
* `BeliefIsTrue`: what the panel takes for stored is; it leaves a chat without a
  save because of that.
* `StoredEditsStay` (action property): a late save takes no change from a stored
  chat. `DeletedStaysDeleted`: it does not bring a deleted one back.
* `ArchivedBeforeDeleted`: saving as a note and deleting deletes only what was
  appended.

Each module has its `TypeOK`, checked once.

### Findings

1. `sync_reread`: a full sync reads the head again after its push and records it
   unseen. Another device's push in that window is silently reverted by the
   next push. (`repositoryService.ts:1303-1306`)
2. `local_choice`: keeping the local file in a conflict leaves its old base;
   editing it back to that base shows it clean though the branch differs.
   (`repositoryService.ts:1194`, `localRepository.ts:639`)
3. `overwrite_deletion`: deleting a file while an overwrite is in flight is
   undone by its settlement, which compares hashes and not status.
   (`localRepository.ts:2725-2733`)
4. `rollback`: rolling back a confirmed change deletes the commit the author's
   own commit was folded into. (`localRepository.ts:1803-1806`, `1886-1953`)

### Weak spots the properties exempt

Met while modelling. They have no run of their own; the property that would fail
names the exemption, and the hazard list has the line.

* Repository: an ambiguous push is settled at the latest head (the cause of
  finding 1 again); bases are written back by two-transaction writes; a push stays
  refused after an edit back, until a full sync; a restore takes no snapshot of
  what it replaces. A full sync lists the pending commits before the transaction
  that unwinds them: a commit taken in between stays, but its row is unwound by the
  entry of an older commit (`localRepository.ts:2237`, `2257`), and may then say
  "new" though it has a base. Deleting that file drops the row, so its deletion is
  never sent and the file comes back with a later merge (`Forgets`). A few writes of the
  author around one sync reach it; the attempt to prove `BaseAtKnownHead` found it, beyond
  the bounds of the runs. An instance with one file and four writes passes with the
  exemption (1.5 million states). A change that commits what it writes squashes the
  pending commits in the order of their random keys (`localRepository.ts:1841`,
  `1804`): after two commits of one file, a change of another may keep the older
  entry, and the push is then refused because the file "changed after it was
  committed". TLC finds `CommittedIsPending` violated with two files and edits,
  commits and such changes alone.
* Life of a copy: opening the book creates a copy while a removal is pending, which
  then fails for good or fences the new copy (`overtaken`;
  `i18n/locales/en.ts:116` says otherwise). A save of a rewrite paused since before
  a removal lands after a replay cleared the markers (`replayed`). An edit that
  looked at the old copy lands in one that is being cloned and is overwritten
  (`early`).
* Account: the first content of a device has an empty clock, so an edit made
  elsewhere replaces it with no question (`vectorClock.ts:45`, against
  `docs/guide-4-github-drive.en.md:32`). A tab saves all it holds in memory, also
  over what a sync adopted meanwhile (`accountSync.ts:196`). A dirty store is not
  scheduled again after a failed push: the error stands for it, and when the user
  deletes the replica in error, or the one a push is just going to fail for, the
  change waits with nothing shown until the next change or reload
  (`accountSync.ts:285`; `left`). Two first creates on Google leave two files, which
  block the replica (`drive/jsonFile.ts:74`).
* Cloud folder: a heartbeat of a deletion writes back the record it read, and a
  newer journal or a finished state is lost (`cloudWriteBarrier.ts:487`, `504`;
  `rolledBack`).
* Chats: the Chats page shows another chat without storing the open one, and may
  put up content older than a save under way (`AssistantChatsPage.tsx:49`, `118`);
  saving a note sets back what was edited meanwhile (`AssistantPanel.tsx:1147`,
  `1162`; `dropped`). A chat deleted while it is shown comes back with its next
  save (`exposed`): the queue which deletion retires carries no saves of the panel
  any more. A retry of older content withdraws the message that newer content was
  given up (`stopped`). A note taken up again may be older than the chat that is
  then deleted (`chatNoteSave.ts:20`).

### Fairness

* `RepositorySync`: `FairSpec` has weak fairness of the steps of a leased operation
  (`Checking`, `Push`, `Sync`): a request is answered or fails, a transaction ends,
  and the queue of `withRepositoryMutationLease` runs the next operation. It has
  strong fairness of `Answer`, a sync with choices for all conflicts shown: the
  timer and the user start syncs again and again, and a user who is shown a
  conflict eventually answers it. `SyncStart` without choices is fair only through
  `Answer`, which with nothing shown is a plain sync.
* `RepositoryLifecycle`: weak fairness of the steps of each flow and of the expiry
  of a lease nobody renews; strong fairness of opening the book and of resuming a
  removal, which the code does whenever the author opens the book or the
  maintenance page, so again and again.
* `AccountSync`: weak fairness, for each device, of what its timers and the
  synchronization that runs do next (`Runs`): a timer fires unless it is cancelled,
  a call answers or fails. `CloudWriteBarrier`: of the steps of writers and removers, and
  of expiry. `AssistantChats`: of timers and of transactions.

Nothing is assumed of what authors, users, other devices, books and failures do;
these are bounded. A tab that closes takes its steps with it.

## Proofs

Assumptions on the constants are named in the modules that declare them: markers
(`None`, `Absent`, `NoRow`, `NoEntry`, `Failed`, `Unasked`) are none of the values
they stand beside, bounds are natural numbers, writers are tabs, a book has a file,
the drives and the backends that let two creates succeed are backends. Nothing is
assumed of how many paths, contents, tabs, devices, backends or chats there are, nor
of the features where the theorem does not say so.

* `RepositorySyncProofs!TypeCorrect`: `Spec => []TypeOK`, and `AllRowsWellFormed`:
  `Spec => []RowsWellFormed`. Neither is inductive alone: a malformed row could
  enter from a row captured by an operation, a write between its transactions, the
  row a confirmed change keeps for its rollback, or a snapshot. `Inv` therefore
  says of all of these that they hold only good rows, of pending commits that they
  are commits, of an overwrite that lands that its files are good, and of every
  head recorded anywhere that it is on the branch, which only grows. One lemma per
  row operator says it makes good rows of good rows, one per action that it keeps
  `Inv`; `NextInv` collects them.
* `PublicationProofs!RollbackIsOwn`: `Spec => RollbackTakesOnlyItsOwn`. The
  rollback finds its commit by number, long after writing it. `OwnPart` says that a
  commit of that number, in the store or in a snapshot that may be restored, has
  the change's entry for its path. It is kept because new commits take later
  numbers and every other step only removes commits. So a row that matches that
  entry shows the change, and the rollback touches no other.
* `PublicationProofs!CommittedStaysPending`: without overwrites, confirmed changes
  and changes that squash the pending commits, `Spec => []CommittedIsPending`. The inductive `PendingPart` says it of the
  rows and of every snapshot that may be restored (`RowsBacked`, `SavedBacked`),
  and that commits stay in their order. A settlement or unwinding takes whole
  commits that were listed earlier. An overwrite, the rollback of a confirmed change
  (finding 4) and a squash in the order of the keys do separate the two.
* `PublicationProofs!BaseStaysAtHead` and `PushesNothingUnseen`:
  `Spec => []BaseAtKnownHead` and `Spec => NoBlindOverwrite`, for every author,
  pull, push, full sync, overwrite, failure, lost reply, crash and restore. Excluded
  (`NothingBehindTheBase`) are the two-transaction writes, the confirmed change and
  the window of finding 1. A push only compares heads, so the
  invariant `BasePart` carries the base from the step that reads a head to the one
  that sends: it says of rows and snapshots that they are based on the head beside
  them, and of an operation in each phase that the files it captured are based on
  the head it will expect (`OpBased`); of an overwrite, which asks no head, that it
  settles exactly at the tree it sent (`OverwriteFine`).
* `PublicationProofs!LocalWorkAlwaysKept`: `Spec => LocalWorkKept` without
  overwrites and confirmed changes. A step that drops local work must find it in
  the snapshot its operation took: the replacement of the tree because it compares
  the captured files, the merge because a file that was given up is the one
  exception. No bound on the number of retained snapshots is needed: the newest is
  never the one evicted.
* `PublicationProofs!CleanAlwaysPublished`: `Spec => []CleanWasPublished`, with all
  features. `HadPart` says that every base anywhere, in a row, a snapshot, a captured
  file, a write between its transactions or the row a confirmed change keeps, is
  something the branch had at that path, and that what an operation sent it has
  once it arrived.
* `RemoteStatusProofs!CheckingEnds`: without closed tabs and restores,
  `Spec => []CheckingIsOwned`. `OwnedPart` says that "checking" is shown only while
  a check of the known head may still take it back, and that what a check puts
  back when it fails is never "checking". `ChangedNeverLies`: without restores,
  `Spec => []ChangedIsTrue`; an answer that arrives late finds the baseline moved and
  is dropped. With a closed tab or a restore of an old
  snapshot the status really stays until the next check.
* `CloudWriteBarrierProofs!TypeCorrect` and `NoWriteLands`:
  `Spec => NoWriteIntoDeletion`, for any number of tabs. `Inv` says that a write in
  hand holds a live lease (`LeaseInHand`) and may be sent (`WritersMay`). That
  survives a deletion because fences are handed out once and in order
  (`FencesApart`), so the claim of a deletion waits for the lease in hand, and
  because a deletion that left "requesting" never returns to it, not even by a
  heartbeat's write back (`Generations`).
* `CloudWriteBarrierProofs!DeletedAlways`: `Spec => []DeletedIsGone`. The invariant
  `SweepInv` adds to `Inv` what the journal promises. `Covered`: once it lists
  something no write is in hand, so everything stored is listed or late, and it is
  empty when the deletion is called done. `Sweeps` says the same of what the flow
  that owns the record has in memory at each step, and `GensApart` that only one
  flow owns it. All of it is conditional on no heartbeat having written back an
  older record (`rolledBack`), which is a weak spot of the code.
* `CloudWriteBarrierProofs!LaterWritesAlwaysKept`: `Spec => LaterWritesKept`. The
  invariant `AgesInv` says that no object is younger than the account's present
  era, and that nothing a record lists is younger than the request it was made for.
  A record is copied by flows and heartbeats and written back later, so the same is
  said of every copy (`FlowAges`, `BeatAges`).
* `AccountReplicasProofs`: `ReplicasCorrect`, that every copy was issued and a
  device knows every event of its own; from it `EqualClocksAreEqualContent`
  (`Coherent`), that snapshots which know the same events are one unless they know
  none, which is why comparing clocks is enough; and `NoDeviceForgets`
  (`KnowledgeGrows`). `Implements` carries them over to `AccountSync`.
* `AccountSyncProofs!Implements`: `Spec => ImplementsReplicas`. Most steps stutter in
  the abstract specification; a save, an adoption, a decision and a stored snapshot
  are its steps. Each needs that what was read stays true until it is used:
  `SyncFine` says in each phase what a synchronization knows of the replicas it
  read, and the condition of a write that the replica still holds what was
  compared. `Named` and `Coherent` make a clock stand for what it counts.
  `ConfirmedAlways` (`[]ConfirmedIsStored`) and `TypeCorrect` follow from the same
  `Inv`.
* `RepositoryLifecycleProofs`: `TypeCorrect`, `WholeWhenComplete`
  (`[]CompleteIsWhole`), `RewritesHaveCopies` (`[]RewritesHaveTheirCopy`) and
  `NoWorkLost` (`WorkKept`), from one `Inv`. The two databases have no common
  transaction, so `MarkerPart` says that each copy there ever was is the present
  one, has a marker that refuses its rewrites, or was replayed. `SafePart` says that
  from the tombstone on all a copy holds is in a bundle; it holds because the
  tombstone is set by the transaction that compares the copy with its bundle, and
  a fenced copy is not written.
  `Removal` says what the flow that holds the lock may count on at each of its
  steps, the resumed ones as well, and `Clone` that what an older clone fetched is
  there while its fence is the last one given: that is why a late completion
  never calls a copy whole that is not.
* `AssistantChatsProofs!TypeCorrect`, `ArchivedFirst` (`[]ArchivedBeforeDeleted`)
  and `DeletedStays` (`[]DeletedStaysDeleted`). Beside the types, `Inv` says what
  each kind of request carries, that a timer runs for the open chat, and that a
  note has at most one request under way and waits for it. `ArchivedPart` says of
  every copy of a chat, stored, open or on its way, that it is marked as appended
  only if it was: a reused note is therefore real. `DeletedPart` says of a chat the
  tab did not show that once a deletion is in the queue no request behind it
  carries the chat, and that a new chat is not begun twice. The order of
  transactions does the rest.
* `AssistantChatsProofs!EditsStay` (`Spec => StoredEditsStay`), `BeliefAlwaysTrue`
  (`[]BeliefIsTrue`) and `QuietAlwaysSaved` (`[]QuietMeansSaved`). `OrderPart` lines
  up all that holds a chat, the store, the requests that write it, oldest first,
  what a failed deletion would put back, and memory, and says that each holds what
  the ones before it hold, up to `dropped`. Every step is one of a few kinds of
  change of the store and the queue (`Moves`) and of the open chat (`Turns`), and
  these keep the order. That a new chat is bare (`NewIsBare`) is needed where it is
  shown empty. For the panel, `PendingPart` says that a save it waits for is on its
  way and its callback still heard, or stopped with a message, and `QuietPart` that
  the open chat has a timer, a retry, such a save or all it holds in the store. A
  queue that merely holds a save of the open chat would not do: it may be one the
  panel has replaced, whose failure changes nothing (`FailAutosave`).

Only model-checked: the properties of `RepositorySync` above for the features their
theorems exclude. Those exclusions are not conveniences: with each excluded feature,
added alone to edits, commits, pulls, pushes, syncs and failures, TLC finds the
property violated in small instances (the causes are the findings and weak spots
above), so there is nothing to prove there.
Liveness (`Drains`, `RemovalEnds`, `Recovers`, `ChangeIsAnswered`, `DeletionEnds`,
`EditsSettle`) is outside the prover: it does not reason about fairness.

## Plan

Done: the working copy and its synchronization, the life of a copy, account
replication with its abstract specification, the cloud write barrier, the
assistant's chats; the theorems above, which state every safety property of the
passing runs.

Next:

1. The migration of a legacy workspace (`localRepository.ts:1134`), phases and
   journal like a removal.
2. A second tab for the chats, and their cloud saves.
3. The mutation lease of browsers without Web Locks.

## Not modelled

* Migration of a legacy workspace, the fallback without Web Locks, publication of
  a new book: protocol state, left for the plan.
* Cloud settings: superseded by account replication. The local workspace is always
  the identity, so its save is reached only from `drive/migration.ts:162`.
* Update intent: a small state machine in the storage of one tab, without
  concurrency. Sign-in: one account for a whole run.
* The GitHub client, model routing, prompts and their parsing, the UI: formatting
  and calls without shared protocol state of their own. Their effects appear as the
  branch and its requests, and as the actions of the author.
* Book format (`packages/core`), MCP server, reader, SDKs, scaffolding, .NET: most
  of the code by size; sequential parsing and rendering of files, to be tested
  rather than model-checked.

## Running

    tlc -workers 2 -config PullPush.cfg MCRepositorySync
    tlc -workers 2 -config AccountSync.cfg MCAccountSync
    tlapm RepositorySyncProofs.tla

and so on: `FullSync`, `Tab`, `Drains` and the findings' configurations belong to
`MCRepositorySync`, `CloudWriteBarrier`, `RepositoryLifecycle` and
`AssistantChats` to the MC module of their name. A run takes one to two minutes,
the proofs of one module up to a few.
