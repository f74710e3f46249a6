--------------------------- MODULE RepositorySync ---------------------------
(***************************************************************************)
(* One book's local working copy and the GitHub branch it follows:         *)
(* repository/repositoryService.ts over repository/localRepository.ts.     *)
(*                                                                         *)
(* The author's edits, local commits and the periodic remote check take no *)
(* lease: they interleave with the one operation that holds the            *)
(* repository mutation lease (pull, push, full sync, local-source          *)
(* overwrite), which stops at every await on the network or on IndexedDB.  *)
(* A step below is one IndexedDB transaction or one request to GitHub.     *)
(* Other devices push to the same branch at any moment.                    *)
(***************************************************************************)
EXTENDS WorkingCopy, Sequences

CONSTANTS
    Features,       \* the operations this instance offers
    MaxHead,        \* bound: other devices push while the branch is shorter
    MaxWork,        \* bound: what the author writes, publishes, overwrites or restores
    MaxOrder,       \* bound: order numbers of live local commits
    MaxRecoveries,  \* MAX_RECOVERY_SNAPSHOTS_PER_REPOSITORY
    MaxTrouble      \* bound: failed requests and closed tabs

AllFeatures == {"edit", "asset", "commit", "editAndCommit", "pull", "remoteWins",
                "push", "sync", "overwrite", "fetch", "restore", "lostReply",
                "failure", "crash", "foreign", "endRace",
                "publish"}

ASSUME BoundAssumption ==
    /\ Features \subseteq AllFeatures
    /\ MaxHead \in Nat \ {0}
    /\ MaxWork \in Nat
    /\ MaxOrder \in Nat
    /\ MaxRecoveries \in Nat \ {0}
    /\ MaxTrouble \in Nat

VARIABLES
    \* the repository's IndexedDB records
    rows,          \* the files store, by path
    commits,       \* the commits that are not pushed
    known,         \* remoteHeadSha, as a position in branch
    remoteStatus,  \* remoteStatus; "unverified" stands for "unavailable" too
    recoveries,    \* the recovery snapshots retained, oldest first
    \* GitHub
    branch,        \* the trees of the branch's commits, in order
    \* what runs in the tab
    op,            \* the operation that holds the repository mutation lease
    fetch,         \* fetchRemoteStatus, the periodic remote check
    writes,        \* the write that has read its row and not stored it yet
    publish,       \* commitAndPushTextFileMutation, a confirmed assistant change
    shown,         \* the conflicts of the last full sync, as shown to the user
    \* bookkeeping of the model
    work,          \* local writes, overwrites and restores so far
    trouble,       \* failed requests and closed tabs so far
    agreed         \* history: remote content the user gave up and no row tells of:
                   \* in a conflict, or with a file whose row passed for new

disk == <<rows, commits, known, remoteStatus, recoveries>>
tab == <<op, fetch, writes, publish, shown>>
bounds == <<work, trouble>>
vars == <<rows, commits, known, remoteStatus, recoveries, branch, op, fetch,
          writes, publish, shown, work, trouble, agreed>>

\* LocalCommit: its order is its id, since no two live commits share one
Commits == [order : 1..MaxOrder, files : [Paths -> Entry \cup {NoEntry}]]

Choices == {"none", "local", "remote"}
RemoteStatus == {"clean", "changed", "checking", "unverified"}

\* The operation nobody runs; head and landed are positions in branch
NoOp == [kind |-> "none", phase |-> "idle",
         expected |-> 1,          \* meta.remoteHeadSha when it started
         previous |-> "clean",    \* RemoteVerificationSnapshot
         head |-> 1,              \* the branch head it resolved
         landed |-> 1,            \* the head its settlement will record
         force |-> FALSE,         \* a confirmed remote-wins pull
         tidy |-> TRUE,           \* nothing dirty and nothing ahead when it started
         files |-> [p \in Paths |-> NoRow],     \* listAllLocalFiles
         pending |-> {},                        \* listUnpushedLocalCommits
         choice |-> [p \in Paths |-> "none"]]   \* conflictResolutions

NoFetch == [phase |-> "idle", expected |-> 1, previous |-> "clean", head |-> 1]

NoPublish == [phase |-> "idle", path |-> Absent, value |-> Absent, seen |-> NoRow,
              expected |-> 1, order |-> 0, landed |-> 0]

Tip == Len(branch)
Tree(i) == branch[i]

-----------------------------------------------------------------------------
(* Helpers                                                                 *)

\* nextCommitOrder + 1: later than every commit anybody still refers to
ReferredCommits ==
    commits \cup op.pending \cup UNION {recoveries[i].commits : i \in DOMAIN recoveries}
LaterOrders ==
    {n \in 1..MaxOrder : publish.order < n /\ \A c \in ReferredCommits : c.order < n}
NextOrder == CHOOSE n \in LaterOrders : TRUE

AnyDirty == \E p \in Paths : Dirty(rows[p])

\* createLocalRecoverySnapshot's record of the given rows; agreed is history
Snapshot(files) ==
    [rows |-> files, commits |-> commits, known |-> known,
     remoteStatus |-> remoteStatus, agreed |-> agreed]

\* retainRecoverySnapshot: the oldest goes first
Retain(snapshot) ==
    LET all == Append(recoveries, snapshot)
    IN IF Len(all) > MaxRecoveries THEN Tail(all) ELSE all

\* updateLocalRepositoryHead
RecordHead(head) == known' = head /\ remoteStatus' = "clean"

\* Mutant: the status that is shown is taken for a result, "checking" included
PreviousAsShown == remoteStatus

\* markLocalRepositoryRemoteChecking: a check that already runs is no result
Previous == IF remoteStatus = "checking" THEN "unverified" ELSE remoteStatus
MarkChecking(expected) ==
    remoteStatus' = IF known = expected THEN "checking" ELSE remoteStatus

\* markLocalRepositoryRemoteFailure: an aborted check restores the previous
\* status, any other failure leaves "unverified"
MarkFailure(expected, outcomes) ==
    \E status \in outcomes :
        remoteStatus' = IF known = expected THEN status ELSE remoteStatus

-----------------------------------------------------------------------------
Init ==
    /\ branch \in [{1} -> Trees]
    /\ rows = [p \in Paths |-> IF branch[1][p] = Absent THEN NoRow
                               ELSE CleanRow(branch[1][p])]
    /\ commits = {}
    /\ known = 1
    /\ remoteStatus = "clean"
    /\ recoveries = <<>>
    /\ op = NoOp
    /\ fetch = NoFetch
    /\ writes = {}
    /\ publish = NoPublish
    /\ shown = {}
    /\ work = 0
    /\ trouble = 0
    /\ agreed = [p \in Paths |-> {}]

-----------------------------------------------------------------------------
(* The author: local transactions that take no lease                       *)

Work == work < MaxWork /\ work' = work + 1

\* A deleted file whose row says "new" leaves no row.  It has a base all the
\* same when a full sync unwound a later commit of it by the entry of an older
\* one: the deletion will not be sent, and the base is forgotten.
Forgets(path) ==
    agreed' = IF rows'[path] # NoRow \/ BaseOf(rows[path]) = Absent THEN agreed
              ELSE [agreed EXCEPT ![path] = @ \cup {BaseOf(rows[path])}]

\* mutateLocalTextFilesAtomically: write path, or delete it
Edit(path, value) ==
    /\ "edit" \in Features
    /\ Work
    /\ ~Unaffected(rows[path], value)
    /\ rows' = [rows EXCEPT ![path] = Mutated(@, value, FALSE)]
    /\ Forgets(path)
    /\ UNCHANGED <<commits, known, remoteStatus, recoveries, branch, tab, trouble>>

\* mutateLocalTextFilesAndCreateCommitAtomically: every pending commit is
\* squashed into the new one.  They are taken in the order of their keys, not
\* in the order they were made: an older entry of another file may win.
MutateAndCommit(path, value) ==
    /\ MutationEntry(rows[path], value) # NoEntry
    /\ LaterOrders # {}
    /\ rows' = [rows EXCEPT ![path] = Mutated(@, value, TRUE)]
    /\ Forgets(path)
    /\ \E key \in KeyOrders(commits) :
          commits' = {[order |-> NextOrder,
                       files |-> [p \in Paths |-> IF p = path
                                                  THEN MutationEntry(rows[p], value)
                                                  ELSE LastRead(commits, key, p)]]}

EditAndCommit(path, value) ==
    /\ "editAndCommit" \in Features
    /\ Work
    /\ MutateAndCommit(path, value)
    /\ UNCHANGED <<known, remoteStatus, recoveries, branch, tab, trouble>>

\* createLocalCommit of all dirty rows
CommitDirty ==
    /\ AnyDirty
    /\ LaterOrders # {}
    /\ rows' = [p \in Paths |-> CommittedRow(rows[p])]
    /\ commits' = commits \cup {[order |-> NextOrder,
                                 files |-> [p \in Paths |-> CommitEntry(rows[p])]]}

\* commitLocalChanges
CommitLocalChanges ==
    /\ "commit" \in Features
    /\ CommitDirty
    /\ UNCHANGED <<known, remoteStatus, recoveries, branch, tab, work, trouble, agreed>>

\* writeLocalBinaryScoped and applyLocalFileChangesAtomically read the row in
\* one transaction ...
ReadForWrite(way, path, value) ==
    /\ "asset" \in Features
    /\ Work
    /\ writes = {}
    /\ way = "scoped" => value # Absent
    /\ writes' = {[way |-> way, path |-> path, seen |-> rows[path], value |-> value]}
    /\ UNCHANGED <<disk, branch, op, fetch, publish, shown, trouble, agreed>>

\* The row write stores, given the row it finds
Stored(write, row) ==
    CASE write.value = Absent /\ write.seen = NoRow -> row
      [] write.value = Absent /\ write.seen # NoRow -> Deleted(write.seen, FALSE)
      [] write.value # Absent /\ write.way = "scoped" -> Written(write.seen, write.value)
      [] OTHER -> Replaced(write.seen, write.value)

\* ... and store the new row in another, whatever the row is by then
StoreWrite ==
    /\ \E w \in writes : rows' = [rows EXCEPT ![w.path] = Stored(w, @)]
    /\ writes' = {}
    /\ UNCHANGED <<commits, known, remoteStatus, recoveries, branch, op, fetch, publish, shown,
                   bounds, agreed>>

-----------------------------------------------------------------------------
(* Other devices and the tab itself                                        *)

\* The branch has moved by this device's push, and the operation will record
\* the head it reads later rather than the one it pushed
EndWindow ==
    \/ op.phase = "ambiguous"
    \/ op.kind = "sync" /\ op.phase \in {"landed", "published"}

\* Another device pushes one file to the branch; instances without "endRace"
\* exclude the moments in which the final head would swallow that push
Foreign(path, value) ==
    /\ "foreign" \in Features
    /\ EndWindow => "endRace" \in Features
    /\ Tip < MaxHead
    /\ branch[Tip][path] # value
    /\ branch' = Append(branch, [branch[Tip] EXCEPT ![path] = value])
    /\ UNCHANGED <<disk, tab, bounds, agreed>>

Trouble == trouble < MaxTrouble /\ trouble' = trouble + 1

\* The tab closes: IndexedDB and the branch stay, whatever was running does not
Crash ==
    /\ "crash" \in Features
    /\ Trouble
    /\ op' = NoOp
    /\ fetch' = NoFetch
    /\ writes' = {}
    /\ publish' = NoPublish
    /\ shown' = {}
    /\ UNCHANGED <<disk, branch, work, agreed>>

-----------------------------------------------------------------------------
(* fetchRemoteStatus, the periodic check: it takes no lease                *)

FetchStart ==
    /\ "fetch" \in Features
    /\ fetch.phase = "idle"
    /\ fetch' = [NoFetch EXCEPT !.phase = "started", !.expected = known]
    /\ UNCHANGED <<disk, branch, op, writes, publish, shown, bounds, agreed>>

FetchMark ==
    /\ fetch.phase = "started"
    /\ MarkChecking(fetch.expected)
    /\ fetch' = [fetch EXCEPT !.phase = "marked", !.previous = Previous]
    /\ UNCHANGED <<rows, commits, known, recoveries, branch, op, writes, publish, shown, bounds,
                   agreed>>

\* resolveRemoteChangeState
FetchResolve ==
    /\ fetch.phase = "marked"
    /\ fetch' = [fetch EXCEPT !.phase = "resolved", !.head = Tip]
    /\ UNCHANGED <<disk, branch, op, writes, publish, shown, bounds, agreed>>

\* Mutant: the result of a check counts whatever happened meanwhile
BaselineIgnored(expected) == FALSE
BaselineMoved(expected) == known # expected

\* markLocalRepositoryRemoteCheck: void when the baseline moved meanwhile
FetchRecord ==
    /\ fetch.phase = "resolved"
    /\ IF BaselineMoved(fetch.expected) THEN UNCHANGED <<known, remoteStatus>>
       ELSE IF branch[fetch.head] = branch[fetch.expected] THEN RecordHead(fetch.head)
       ELSE remoteStatus' = "changed" /\ UNCHANGED known
    /\ fetch' = NoFetch
    /\ UNCHANGED <<rows, commits, recoveries, branch, op, writes, publish, shown, bounds, agreed>>

FetchFail ==
    /\ "failure" \in Features
    /\ Trouble
    /\ fetch.phase \in {"marked", "resolved"}
    /\ MarkFailure(fetch.expected, {"unverified", fetch.previous})
    /\ fetch' = NoFetch
    /\ UNCHANGED <<rows, commits, known, recoveries, branch, op, writes, publish, shown, work,
                   agreed>>

-----------------------------------------------------------------------------
(* What the leased operations share                                        *)

Step(phase) == [op EXCEPT !.phase = phase]

\* Pull and full sync announce the check; a failed one must record it
Checks == op.kind \in {"pull", "sync"}

\* Mutant: a push does not look at the branch head
MismatchIgnored == FALSE

\* RemoteHeadMismatchError
Mismatch == Tip # IF op.kind = "sync" THEN op.head ELSE op.expected

\* The operation throws: the lease is released, and a pull or a full sync that
\* has announced its check records the failure.  The change that waits for its
\* push learns whether the generated commit may be on the branch; after a head
\* mismatch it leaves the rest to a full sync
Abandon(outcomes) ==
    /\ op' = NoOp
    /\ IF Checks /\ op.phase # "started"
       THEN MarkFailure(op.expected, outcomes)
       ELSE UNCHANGED remoteStatus
    /\ publish' = CASE publish.phase # "pushing" -> publish
                    [] publish.phase = "pushing" /\ op.phase = "listed" /\ Mismatch -> NoPublish
                    [] OTHER -> [publish EXCEPT !.phase = "failed", !.landed =
                                   IF op.phase = "ambiguous" THEN op.landed ELSE 0]
    /\ UNCHANGED <<rows, commits, known, recoveries, branch, fetch, writes, agreed>>

\* A request fails, or the caller's signal aborts the operation
Fail ==
    /\ "failure" \in Features
    /\ Trouble
    /\ op.kind # "none"
    /\ Abandon({"unverified", op.previous})
    /\ UNCHANGED <<shown, work>>

OpMark ==
    /\ Checks
    /\ op.phase = "started"
    /\ MarkChecking(op.expected)
    /\ op' = [op EXCEPT !.phase = "marked", !.previous = Previous]
    /\ UNCHANGED <<rows, commits, known, recoveries, branch, fetch, writes, publish, shown, bounds,
                   agreed>>

\* resolveRemoteChangeState, and for a full sync pendingBeforeSync
OpResolve ==
    /\ Checks
    /\ op.phase = "marked"
    /\ op' = [op EXCEPT !.phase = "resolved", !.head = Tip,
                        !.pending = IF op.kind = "sync" THEN commits ELSE @]
    /\ UNCHANGED <<disk, branch, fetch, writes, publish, shown, bounds, agreed>>

SameTree == branch[op.head] = branch[op.expected]

\* listAllLocalFiles once the remote tree is known; the blobs come after
OpCapture ==
    /\ Checks
    /\ op.phase = "resolved"
    /\ IF op.kind = "pull" THEN ~(op.tidy /\ SameTree) ELSE ~SameTree
    /\ op' = [op EXCEPT !.phase = "captured", !.files = rows]
    /\ UNCHANGED <<disk, branch, fetch, writes, publish, shown, bounds, agreed>>

-----------------------------------------------------------------------------
(* pullRemoteChanges                                                       *)

PullStart(force) ==
    /\ IF force THEN "remoteWins" \in Features ELSE "pull" \in Features
    /\ op.kind = "none"
    /\ force \/ (~AnyDirty /\ commits = {})
    /\ op' = [NoOp EXCEPT !.kind = "pull", !.phase = "started", !.expected = known,
                          !.force = force, !.pending = commits,
                          !.tidy = ~AnyDirty /\ commits = {}]
    /\ UNCHANGED <<disk, branch, fetch, writes, publish, shown, bounds, agreed>>

\* Nothing to download: the same head, or another head with the same tree
PullUnchanged ==
    /\ op.kind = "pull"
    /\ op.phase = "resolved"
    /\ op.tidy /\ SameTree
    /\ IF op.head = op.expected
       THEN /\ remoteStatus' = IF known = op.expected THEN "clean" ELSE remoteStatus
            /\ UNCHANGED known
       ELSE RecordHead(op.head)
    /\ op' = NoOp
    /\ UNCHANGED <<rows, commits, recoveries, branch, fetch, writes, publish, shown, bounds, agreed>>

\* Mutant: only the pending commits are compared
MayReplaceAnyFile == {c.order : c \in commits} = {c.order : c \in op.pending}

\* The checks of replaceLocalTreeAtomically
MayReplace ==
    /\ SameFiles(op.files, rows)
    /\ op.force \/ ~\E p \in Paths : LocalChanged(rows[p])
    /\ {c.order : c \in commits} = {c.order : c \in op.pending}

\* replaceLocalTreeAtomically
PullReplace ==
    /\ op.kind = "pull"
    /\ op.phase = "captured"
    /\ MayReplace
    /\ recoveries' = Retain(Snapshot(op.files))
    /\ rows' = [p \in Paths |-> Pulled(op.files[p], branch[op.head][p])]
    /\ commits' = {}
    /\ RecordHead(op.head)
    /\ agreed' = [p \in Paths |-> {}]
    /\ op' = NoOp
    /\ UNCHANGED <<branch, fetch, writes, publish, shown, bounds>>

PullRefused ==
    /\ op.kind = "pull"
    /\ op.phase = "captured"
    /\ ~MayReplace
    /\ Abandon({"unverified"})
    /\ UNCHANGED <<shown, bounds>>

-----------------------------------------------------------------------------
(* pushLocalCommits: phases "listed" to "landed", also run by a full sync  *)

EntryOf(path) == LatestEntry(op.pending, path)
Pushed == {p \in Paths : EntryOf(p) # NoEntry}

\* The content the push publishes for a path
Outgoing(path) ==
    IF EntryOf(path).status = "deleted" THEN Absent ELSE op.files[path].cur

PushStart ==
    /\ "push" \in Features
    /\ op.kind = "none"
    /\ ~AnyDirty
    /\ commits # {}
    /\ op' = [NoOp EXCEPT !.kind = "push", !.phase = "listed", !.expected = known,
                          !.pending = commits]
    /\ UNCHANGED <<disk, branch, fetch, writes, publish, shown, bounds, agreed>>

\* The remote head must be the expected one, every committed file unchanged
MayPush ==
    /\ ~Mismatch
    /\ \A p \in Pushed : MatchesCommit(rows[p], EntryOf(p))

\* A deletion of a path the remote does not hold is not sent
Sent(path) == path \in Pushed /\ (EntryOf(path).status = "deleted" => branch[Tip][path] # Absent)

\* getRef, listAllLocalFiles and the tree; nothing to send settles at once
PushPlan ==
    /\ op.phase = "listed"
    /\ MayPush
    /\ op' = [op EXCEPT !.phase = IF \E p \in Paths : Sent(p) THEN "planned" ELSE "landed",
                        !.head = Tip, !.landed = Tip, !.files = rows]
    /\ UNCHANGED <<disk, branch, fetch, writes, publish, shown, bounds, agreed>>

\* updateRef is a fast-forward from the head that was read
Publish(tree) ==
    /\ Tip = op.head
    /\ branch' = Append(branch, tree)

PushedTree == [p \in Paths |-> IF p \in Pushed THEN Outgoing(p) ELSE branch[op.head][p]]

PushLand ==
    /\ op.kind \in {"push", "sync"}
    /\ op.phase = "planned"
    /\ Publish(PushedTree)
    /\ op' = [op EXCEPT !.phase = "landed", !.landed = Tip + 1]
    /\ UNCHANGED <<disk, fetch, writes, publish, shown, bounds, agreed>>

\* The branch moves, the reply does not arrive
PushReplyLost ==
    /\ "lostReply" \in Features
    /\ Trouble
    /\ op.kind \in {"push", "sync"}
    /\ op.phase = "planned"
    /\ Publish(PushedTree)
    /\ op' = [op EXCEPT !.phase = "ambiguous", !.landed = Tip + 1]
    /\ UNCHANGED <<disk, fetch, writes, publish, shown, work, agreed>>

\* reconcileRemoteMutation: the generated commit is an ancestor of the latest
\* head, and every pushed path still has the pushed content there
PushReconcile ==
    /\ op.phase = "ambiguous"
    /\ \A p \in Pushed : branch[Tip][p] = Outgoing(p)
    /\ op' = [op EXCEPT !.phase = "landed", !.landed = Tip]
    /\ UNCHANGED <<disk, branch, fetch, writes, publish, shown, bounds, agreed>>

\* Mutant: a commit stays while one of its files is another one by now
UnmatchedCommitsLeft ==
    {c \in commits : \/ \A d \in op.pending : c.order # d.order
                     \/ \E p \in Paths : /\ c.files[p] # NoEntry
                                         /\ ~MatchesCommit(rows[p], c.files[p])}
\* The commits that are not among the ones the operation works on
CommitsLeft == {c \in commits : \A d \in op.pending : c.order # d.order}

\* markLocalCommitsPushed
MaySettle == {c.order : c \in op.pending} \subseteq {c.order : c \in commits}
PushSettle ==
    /\ op.kind \in {"push", "sync"}
    /\ op.phase = "landed"
    /\ MaySettle
    /\ rows' = [p \in Paths |-> IF p \in Pushed
                                 THEN Settled(rows[p], EntryOf(p), Outgoing(p))
                                 ELSE rows[p]]
    /\ commits' = CommitsLeft
    /\ RecordHead(op.landed)
    /\ agreed' = [p \in Paths |-> IF p \in Pushed THEN {} ELSE agreed[p]]
    /\ op' = IF op.kind = "sync" THEN Step("published") ELSE NoOp
    /\ publish' = IF publish.phase = "pushing" THEN NoPublish ELSE publish
    /\ UNCHANGED <<recoveries, branch, fetch, writes, shown, bounds>>

PushRefused ==
    /\ op.kind \in {"push", "sync"}
    /\ \/ op.phase = "listed" /\ ~MayPush
       \/ op.phase = "planned" /\ Tip # op.head
       \/ op.phase = "ambiguous" /\ \E p \in Pushed : branch[Tip][p] # Outgoing(p)
       \/ op.phase = "landed" /\ ~MaySettle
    /\ Abandon({"unverified"})
    /\ UNCHANGED <<shown, bounds>>

-----------------------------------------------------------------------------
(* syncFullRepository                                                      *)

\* With no resolutions, or with a choice for every conflict that was shown
SyncStart(choice) ==
    /\ "sync" \in Features
    /\ op.kind = "none"
    /\ op' = [NoOp EXCEPT !.kind = "sync", !.phase = "started", !.expected = known,
                          !.choice = choice]
    /\ UNCHANGED <<disk, branch, fetch, writes, publish, shown, bounds, agreed>>

Resolutions ==
    {choice \in [Paths -> Choices] :
        \/ \A p \in Paths : choice[p] = "none"
        \/ \A p \in Paths : choice[p] # "none" <=> \E c \in shown : c.path = p}

Choosing == \E p \in Paths : op.choice[p] # "none"

\* No other tree on the remote; choices made for another one are stale
SyncUnchanged ==
    /\ op.kind = "sync"
    /\ op.phase = "resolved"
    /\ SameTree /\ ~Choosing
    /\ RecordHead(op.head)
    /\ op' = Step("merged")
    /\ UNCHANGED <<rows, commits, recoveries, branch, fetch, writes, publish, shown, bounds, agreed>>

Remote(path) == branch[op.head][path]

\* A choice whose conflict is not exactly the one that was shown
Stale(path) ==
    /\ op.choice[path] # "none"
    /\ Conflict(path, op.files[path], Remote(path)) \notin shown

\* The conflicts of this plan, for paths without a valid choice
NewConflicts ==
    {Conflict(p, op.files[p], Remote(p)) :
        p \in {q \in Paths : /\ op.choice[q] = "none" \/ Stale(q)
                             /\ Plan(op.files[q], Remote(q)) = "conflict"}}

PlanStands == NewConflicts = {} /\ ~\E p \in Paths : Stale(p)

\* RepositorySyncConflictError or RepositorySyncChoiceStaleError: the user
\* sees the new conflicts (Topbar.runFullSync)
SyncConflicts ==
    /\ op.kind = "sync"
    /\ \/ op.phase = "captured" /\ ~PlanStands /\ shown' = NewConflicts
       \/ op.phase = "resolved" /\ SameTree /\ Choosing /\ shown' = {}
    /\ Abandon({"unverified"})
    /\ UNCHANGED bounds

\* Mutant: giving up an uncommitted file saves nothing
MustSaveCommits == op.pending # {}

\* Pending commits, or a file the user gives up, are saved before the merge
MustSave == op.pending # {} \/ \E p \in Paths : op.choice[p] = "remote"

SyncSave ==
    /\ op.kind = "sync"
    /\ op.phase = "captured"
    /\ PlanStands /\ MustSave
    /\ recoveries' = Retain(Snapshot(rows))
    /\ op' = Step("saved")
    /\ UNCHANGED <<rows, commits, known, remoteStatus, branch, fetch, writes, publish, shown, bounds,
                   agreed>>

MergePlanned ==
    /\ op.kind = "sync"
    /\ \/ op.phase = "captured" /\ PlanStands /\ ~MustSave
       \/ op.phase = "saved"

Decision(path) == Resolved(op.choice[path], op.files[path], Remote(path))

\* applyRemoteMergeAtomically
SyncMerge ==
    /\ MergePlanned
    /\ SameFiles(op.files, rows)
    /\ rows' = [p \in Paths |-> Merged(Decision(p), rows[p], Remote(p))]
    /\ RecordHead(op.head)
    /\ agreed' = [p \in Paths |->
                    CASE op.choice[p] = "local" -> {c.remote : c \in {d \in shown : d.path = p}}
                      [] op.choice[p] = "none" /\ Decision(p) = "keep" -> agreed[p]
                      [] OTHER -> {}]
    /\ op' = Step("merged")
    /\ UNCHANGED <<commits, recoveries, branch, fetch, writes, publish, shown, bounds>>

SyncRefused ==
    /\ \/ MergePlanned /\ ~SameFiles(op.files, rows)
       \/ op.kind = "sync" /\ op.phase = "committed" /\ commits # {} /\ AnyDirty
    /\ Abandon({"unverified"})
    /\ UNCHANGED <<shown, bounds>>

\* The second snapshot, and the list restoreUnpushedCommitsAsDirty works from
SyncSavePending ==
    /\ op.kind = "sync"
    /\ op.phase = "merged"
    /\ recoveries' = IF op.pending = {} THEN recoveries ELSE Retain(Snapshot(rows))
    /\ op' = [op EXCEPT !.phase = "unwinding", !.pending = commits]
    /\ UNCHANGED <<rows, commits, known, remoteStatus, branch, fetch, writes, publish, shown, bounds,
                   agreed>>

\* restoreUnpushedCommitsAsDirty
SyncUncommit ==
    /\ op.kind = "sync"
    /\ op.phase = "unwinding"
    /\ rows' = [p \in Paths |-> Uncommitted(rows[p], EntryOf(p))]
    /\ commits' = CommitsLeft
    /\ op' = [op EXCEPT !.phase = "dirty", !.pending = {}]
    /\ UNCHANGED <<known, remoteStatus, recoveries, branch, fetch, writes, publish, shown, bounds,
                   agreed>>

\* createLocalCommit with the dirty rows just listed
SyncCommit ==
    /\ op.kind = "sync"
    /\ op.phase = "dirty"
    /\ CommitDirty \/ (~AnyDirty /\ UNCHANGED <<rows, commits>>)
    /\ op' = Step("committed")
    /\ UNCHANGED <<known, remoteStatus, recoveries, branch, fetch, writes, publish, shown, bounds,
                   agreed>>

SyncPushStart ==
    /\ op.kind = "sync"
    /\ op.phase = "committed"
    /\ commits # {} /\ ~AnyDirty
    /\ op' = [op EXCEPT !.phase = "listed", !.pending = commits]
    /\ UNCHANGED <<disk, branch, fetch, writes, publish, shown, bounds, agreed>>

\* The head is read again once the push has settled ...
SyncReread ==
    /\ op.kind = "sync"
    /\ op.phase = "published"
    /\ op' = [op EXCEPT !.phase = "reread", !.landed = Tip]
    /\ UNCHANGED <<disk, branch, fetch, writes, publish, shown, bounds, agreed>>

\* ... and recorded; a sync with nothing to push is done before
SyncFinish ==
    /\ op.kind = "sync"
    /\ \/ op.phase = "reread" /\ RecordHead(op.landed)
       \/ op.phase = "committed" /\ commits = {} /\ UNCHANGED <<known, remoteStatus>>
    /\ op' = NoOp
    /\ shown' = {}
    /\ UNCHANGED <<rows, commits, recoveries, branch, fetch, writes, publish, bounds,
                   agreed>>

-----------------------------------------------------------------------------
(* overwriteRemoteWithLocal and restoreRepositoryRecovery                  *)

OverwriteStart ==
    /\ "overwrite" \in Features
    /\ Work
    /\ op.kind = "none"
    /\ op' = [NoOp EXCEPT !.kind = "overwrite", !.phase = "captured", !.expected = known,
                          !.head = Tip, !.files = rows]
    /\ UNCHANGED <<disk, branch, fetch, writes, publish, shown, trouble, agreed>>

\* commitsBeforePush is read after the files
OverwriteCount ==
    /\ op.kind = "overwrite"
    /\ op.phase = "captured"
    /\ op' = [op EXCEPT !.phase = "counted", !.pending = commits]
    /\ UNCHANGED <<disk, branch, fetch, writes, publish, shown, bounds, agreed>>

OverwriteSave ==
    /\ op.kind = "overwrite"
    /\ op.phase = "counted"
    /\ recoveries' = Retain(Snapshot(rows))
    /\ op' = Step("saved")
    /\ UNCHANGED <<rows, commits, known, remoteStatus, branch, fetch, writes, publish, shown, bounds,
                   agreed>>

\* The whole tree becomes what the working copy showed; a lost reply ends the
\* operation, nothing reconciles it
OverwriteLand ==
    /\ op.kind = "overwrite"
    /\ op.phase = "saved"
    /\ Publish([p \in Paths |-> View(op.files[p])])
    /\ \/ op' = [op EXCEPT !.phase = "landed", !.landed = Tip + 1] /\ UNCHANGED trouble
       \/ "lostReply" \in Features /\ Trouble /\ op' = NoOp
    /\ UNCHANGED <<disk, fetch, writes, publish, shown, work, agreed>>

OverwriteRefused ==
    /\ op.kind = "overwrite"
    /\ op.phase = "saved"
    /\ Tip # op.head
    /\ Abandon({"unverified"})
    /\ UNCHANGED <<shown, bounds>>

\* settleLocalSourceOverwriteAtomically
OverwriteSettle ==
    /\ op.kind = "overwrite"
    /\ op.phase = "landed"
    /\ rows' = [p \in Paths |-> OverwriteSettled(op.files[p], rows[p])]
    /\ commits' = CommitsLeft
    /\ RecordHead(op.landed)
    /\ agreed' = [p \in Paths |-> {}]
    /\ op' = NoOp
    /\ UNCHANGED <<recoveries, branch, fetch, writes, publish, shown, bounds>>

\* restoreLocalRecoverySnapshot: files, commits and repository record at once
RestoreRecovery ==
    /\ "restore" \in Features
    /\ Work
    /\ op.kind = "none"
    /\ \E i \in DOMAIN recoveries :
          /\ rows' = recoveries[i].rows
          /\ commits' = recoveries[i].commits
          /\ known' = recoveries[i].known
          /\ remoteStatus' = recoveries[i].remoteStatus
          /\ agreed' = recoveries[i].agreed
    /\ UNCHANGED <<recoveries, branch, tab, trouble>>

-----------------------------------------------------------------------------
(* commitAndPushTextFileMutation (safeRepositoryMutation.ts)               *)

\* preflightRepositoryOperation: the copy must be clean, its head is expected
PublishPreflight ==
    /\ "publish" \in Features
    /\ Work
    /\ publish.phase = "idle"
    /\ ~AnyDirty /\ commits = {}
    /\ publish' = [NoPublish EXCEPT !.phase = "ready", !.expected = known]
    /\ UNCHANGED <<disk, branch, op, fetch, writes, shown, trouble, agreed>>

\* The row is kept for a rollback; getLocalFile hides a deleted one
PublishRead(path, value) ==
    /\ publish.phase = "ready"
    /\ known = publish.expected
    /\ View(rows[path]) # value
    /\ publish' = [publish EXCEPT !.phase = "read", !.path = path, !.value = value,
                                  !.seen = IF Gone(rows[path]) THEN NoRow ELSE rows[path]]
    /\ UNCHANGED <<disk, branch, op, fetch, writes, shown, bounds, agreed>>

\* The write and its commit; the file must still be the one that was read
PublishCommit ==
    /\ publish.phase = "read"
    /\ View(rows[publish.path]) = View(publish.seen)
    /\ MutateAndCommit(publish.path, publish.value)
    /\ publish' = [publish EXCEPT !.phase = "committed", !.order = NextOrder]
    /\ UNCHANGED <<known, remoteStatus, recoveries, branch, op, fetch, writes, shown, bounds>>

\* The head or the file changed before anything was written
PublishRefused ==
    /\ \/ publish.phase = "ready" /\ known # publish.expected
       \/ publish.phase = "read" /\ View(rows[publish.path]) # View(publish.seen)
       \/ publish.phase = "read" /\ MutationEntry(rows[publish.path], publish.value) = NoEntry
    /\ publish' = NoPublish
    /\ UNCHANGED <<disk, branch, op, fetch, writes, shown, bounds, agreed>>

\* pushLocalCommits with the head of the preflight
PublishPush ==
    /\ publish.phase = "committed"
    /\ op.kind = "none"
    /\ IF AnyDirty \/ commits = {}
       THEN publish' = [publish EXCEPT !.phase = "failed"] /\ UNCHANGED op
       ELSE /\ publish' = [publish EXCEPT !.phase = "pushing"]
            /\ op' = [NoOp EXCEPT !.kind = "push", !.phase = "listed",
                                  !.expected = publish.expected, !.pending = commits]
    /\ UNCHANGED <<disk, branch, fetch, writes, shown, bounds, agreed>>

OwnCommits == {c \in commits : c.order = publish.order}
OwnEntry == LatestEntry(OwnCommits, publish.path)
OwnChangeLanded ==
    /\ publish.landed # 0
    /\ branch[Tip][publish.path] = publish.value

\* After an ambiguous push the change alone is looked for, and its commit settled
PublishReconcile ==
    /\ publish.phase = "failed"
    /\ OwnChangeLanded
    /\ IF OwnCommits = {} THEN UNCHANGED disk
       ELSE /\ rows' = [rows EXCEPT ![publish.path] = Settled(@, OwnEntry, publish.value)]
            /\ commits' = commits \ OwnCommits
            /\ RecordHead(Tip)
            /\ UNCHANGED recoveries
    /\ agreed' = [agreed EXCEPT ![publish.path] = IF OwnCommits = {} THEN @ ELSE {}]
    /\ publish' = NoPublish
    /\ UNCHANGED <<branch, op, fetch, writes, shown, bounds>>

\* Mutant: the rollback does not look at the file
OwnChangeAssumed == OwnCommits # {}
OwnChangeStands ==
    OwnCommits # {} /\ OwnEntry # NoEntry /\ MatchesCommit(rows[publish.path], OwnEntry)

\* restoreLocalFilesAndDeleteCommit: the row that was read comes back if the
\* file is still the committed one, and the commit goes
PublishRollback ==
    /\ publish.phase = "failed"
    /\ ~OwnChangeLanded
    /\ rows' = IF OwnChangeStands THEN [rows EXCEPT ![publish.path] = publish.seen] ELSE rows
    /\ commits' = commits \ OwnCommits
    /\ publish' = NoPublish
    /\ UNCHANGED <<known, remoteStatus, recoveries, branch, op, fetch, writes, shown, bounds,
                   agreed>>

PublishChange ==
    \/ PublishPreflight
    \/ \E p \in Paths, v \in Contents : PublishRead(p, v)
    \/ PublishCommit \/ PublishRefused \/ PublishPush
    \/ PublishReconcile \/ PublishRollback

-----------------------------------------------------------------------------
Author ==
    \/ \E p \in Paths, v \in Contents : Edit(p, v) \/ EditAndCommit(p, v)
    \/ \E way \in {"scoped", "atomic"}, p \in Paths, v \in Contents : ReadForWrite(way, p, v)
    \/ StoreWrite
    \/ CommitLocalChanges
    \/ RestoreRecovery

Environment ==
    \/ \E p \in Paths, v \in Contents : Foreign(p, v)
    \/ Crash
    \/ Fail
    \/ FetchFail
    \/ PushReplyLost

Fetch == FetchStart \/ FetchMark \/ FetchResolve \/ FetchRecord

Checking == OpMark \/ OpResolve \/ OpCapture

Pull == PullUnchanged \/ PullReplace \/ PullRefused

Push == PushPlan \/ PushLand \/ PushReconcile \/ PushSettle \/ PushRefused

Sync == \/ SyncUnchanged \/ SyncConflicts \/ SyncSave \/ SyncMerge \/ SyncRefused
        \/ SyncSavePending \/ SyncUncommit \/ SyncCommit \/ SyncPushStart
        \/ SyncReread \/ SyncFinish

Overwrite == OverwriteCount \/ OverwriteSave \/ OverwriteLand \/ OverwriteRefused \/ OverwriteSettle

Begin ==
    \/ \E force \in BOOLEAN : PullStart(force)
    \/ PushStart
    \/ \E choice \in Resolutions : SyncStart(choice)
    \/ OverwriteStart

Next == Author \/ Environment \/ Fetch \/ Begin \/ Checking \/ Pull \/ Push \/ Sync
        \/ Overwrite \/ PublishChange

Spec == Init /\ [][Next]_vars


-----------------------------------------------------------------------------
(* Type invariant                                                          *)

Phases == {"idle", "started", "marked", "resolved", "captured", "counted", "saved",
           "merged", "unwinding", "dirty", "committed", "listed", "planned", "ambiguous",
           "landed", "published", "reread"}

Operations ==
    [kind : {"none", "pull", "push", "sync", "overwrite"}, phase : Phases,
     expected : 1..Tip, previous : RemoteStatus, head : 1..Tip, landed : 1..Tip,
     force : BOOLEAN, tidy : BOOLEAN, files : Files, pending : SUBSET Commits,
     choice : [Paths -> Choices]]

Snapshots ==
    [rows : Files, commits : SUBSET Commits, known : 1..Tip,
     remoteStatus : RemoteStatus, agreed : [Paths -> SUBSET Contents]]

Fetches ==
    [phase : {"idle", "started", "marked", "resolved"}, expected : 1..Tip,
     previous : RemoteStatus, head : 1..Tip]

PendingWrites ==
    [way : {"scoped", "atomic"}, path : Paths, seen : Row \cup {NoRow}, value : Contents]

Publications ==
    [phase : {"idle", "ready", "read", "committed", "pushing", "failed"},
     path : Paths \cup {Absent}, value : Contents, seen : Row \cup {NoRow},
     expected : 1..Tip, order : 0..MaxOrder, landed : 0..Tip]

TypeOK ==
    /\ rows \in Files
    /\ commits \in SUBSET Commits
    /\ branch \in Seq(Trees)
    /\ known \in 1..Tip
    /\ remoteStatus \in RemoteStatus
    /\ recoveries \in Seq(Snapshots)
    /\ op \in Operations
    /\ fetch \in Fetches
    /\ writes \in SUBSET PendingWrites
    /\ publish \in Publications
    /\ shown \in SUBSET Conflicts
    /\ work \in Nat
    /\ trouble \in Nat
    /\ agreed \in [Paths -> SUBSET Contents]

-----------------------------------------------------------------------------
(* Safety                                                                  *)

\* What every reader of the files store relies on: a row with nothing local
\* says exactly what its base says, and a committed row is either the clean
\* result of a commit or a committed deletion.
WellFormed(row) ==
    row # NoRow =>
        /\ row.status = "clean" /\ ~row.committed => row.cur = row.base
        /\ row.committed => row.status \in {"clean", "deleted"}

\* No transaction, in whatever order the lease-free ones cut into the leased
\* ones, stores or snapshots a malformed row.
RowsWellFormed ==
    /\ \A p \in Paths : WellFormed(rows[p])
    /\ \A i \in DOMAIN recoveries, p \in Paths : WellFormed(recoveries[i].rows[p])

\* The base of a row is what the last known head holds at its path, unless the
\* user was shown the remote content and chose the local one, or deleted it
\* with a row that passed for new.  A push decides by this head alone that
\* nothing of another device is lost.
BaseAtKnownHead ==
    \A p \in Paths : branch[known][p] \in {BaseOf(rows[p])} \cup agreed[p]

\* A committed row is in a pending commit: otherwise nothing would ever publish
\* it, and it would still block every pull.
CommittedIsPending ==
    \A p \in Paths : rows[p] # NoRow /\ rows[p].committed =>
        LatestEntry(commits, p) # NoEntry /\ MatchesCommit(rows[p], LatestEntry(commits, p))

\* With nothing dirty and nothing running, the pending commits can be pushed:
\* every file they end with is still the file that was committed.
PendingIsPushable ==
    ~AnyDirty /\ op.kind = "none" =>
        \A p \in Paths : LatestEntry(commits, p) # NoEntry =>
            MatchesCommit(rows[p], LatestEntry(commits, p))

\* The working copy shows a file as clean only when it is what the last known
\* head of the branch holds at its path.
CleanMatchesHead ==
    \A p \in Paths : ~LocalChanged(rows[p]) => View(rows[p]) = branch[known][p]

\* Nothing is declared published that GitHub never had: a file with nothing
\* local shows what some commit of the branch holds at its path.
CleanWasPublished ==
    \A p \in Paths : rows[p] # NoRow /\ ~LocalChanged(rows[p]) =>
        \E i \in 1..Tip : branch[i][p] = rows[p].cur

\* "changed" is never shown by mistake: a later commit of the branch really has
\* another tree than the last known head.
ChangedIsTrue ==
    remoteStatus = "changed" => \E i \in known..Tip : branch[i] # branch[known]

\* "checking" is shown only while a check runs.
CheckingIsOwned ==
    remoteStatus = "checking" =>
        \/ Checks /\ op.phase # "started"
        \/ fetch.phase \in {"marked", "resolved"}

-----------------------------------------------------------------------------
(* Action properties                                                       *)

\* A push replaces, at every path, only content the working copy was based on,
\* or that its user was shown and chose to give up, or that is the same.
\* The confirmed local-source overwrite is the exception.
NoBlindOverwrite ==
    [][branch' # branch /\ op' # op /\ op.kind \in {"push", "sync"} =>
         \A p \in Paths :
            branch[Tip][p] \in {branch'[Tip'][p], BaseOf(op.files[p])} \cup agreed[p]]_vars

\* Local work is never lost: except by a write or a restore of the author, a
\* file with local changes keeps what it shows, unless a recovery snapshot
\* retained by then shows it.  A full sync that saved its snapshot may also
\* drop the file its user gave up, edited back and forth since the snapshot.
AuthorWrites == work' # work \/ writes' # writes \/ PublishCommit
GivenUp(path) == op.kind = "sync" /\ op.phase = "saved" /\ op.choice[path] = "remote"
LocalWorkKept ==
    [][~AuthorWrites => \A p \in Paths : LocalChanged(rows[p]) =>
         \/ View(rows'[p]) = View(rows[p])
         \/ GivenUp(p)
         \/ \E i \in DOMAIN recoveries' : View(recoveries'[i].rows[p]) = View(rows[p])]_vars

\* A confirmed change that fails takes back only itself: a file that shows
\* anything else with local changes keeps it.
RollbackTakesOnlyItsOwn ==
    [][PublishRollback => \A p \in Paths :
         LocalChanged(rows[p]) /\ (p = publish.path => View(rows[p]) # publish.value) =>
            rows'[p] = rows[p]]_vars

-----------------------------------------------------------------------------
(* Liveness                                                                *)

\* The user answers every conflict of the last full sync
Answer ==
    \E choice \in Resolutions :
        /\ \A p \in Paths : choice[p] # "none" <=> \E c \in shown : c.path = p
        /\ SyncStart(choice)

\* A request that was sent is answered or fails, and a transaction ends; full
\* syncs are started again and again, by the timer or by the user
FairSpec ==
    /\ Spec
    /\ WF_vars(Checking \/ Push \/ Sync)
    /\ SF_vars(Answer)

\* Once the author rests, repeated full syncs publish or give up everything
\* local, whatever failed, crashed or raced before.
Drains == <>[](commits = {} /\ \A p \in Paths : ~LocalChanged(rows[p]))

=============================================================================
