-------------------------- MODULE PublicationProofs --------------------------
(***************************************************************************)
(* Publication, for every number of paths, contents and bounds: what a     *)
(* failed confirmed change takes back, that a committed file is always in  *)
(* a pending commit, that a push replaces nothing of another device        *)
(* unseen, that local work is kept, and that what is shown clean was       *)
(* published.                                                              *)
(***************************************************************************)
EXTENDS RepositorySyncProofs

\* Every commit the working copy stores, those of its snapshots included
StoredCommits == commits \cup UNION {recoveries[i].commits : i \in DOMAIN recoveries}

\* The entry a confirmed change leaves in its commit
OwnChange(entry) ==
    /\ entry # NoEntry
    /\ publish.value = Absent => entry.status = "deleted"
    /\ publish.value # Absent => entry.status # "deleted" /\ entry.hash = publish.value

\* A stored commit under the order number of the running change is its commit:
\* the rollback finds it by that number alone, long after it was made
Committed == publish.phase \in {"committed", "pushing", "failed"}
OwnPart ==
    Committed =>
        \A c \in StoredCommits :
            c.order = publish.order => OwnChange(c.files[publish.path])

-----------------------------------------------------------------------------
(* Which steps can disturb OwnPart                                         *)

LEMMA OwnKept ==
    ASSUME Inv, OwnPart,
           \A c \in StoredCommits' : c \in StoredCommits \/ publish.order < c.order,
           Committed' => /\ Committed
                         /\ publish'.path = publish.path
                         /\ publish'.value = publish.value
                         /\ publish'.order = publish.order
    PROVE  OwnPart'
<1> SUFFICES ASSUME Committed', NEW c \in StoredCommits', c.order = publish'.order
             PROVE  OwnChange(c.files[publish.path])'
  BY DEF OwnPart
<1>1. publish.order \in Nat
  BY BoundAssumption DEF Inv, PublishPart, Publications
<1>2. c \in StoredCommits
  BY <1>1
<1>3. OwnChange(c.files[publish.path])
  BY <1>2 DEF OwnPart
<1>4. QED
  BY <1>3 DEF OwnChange

LEMMA SamePublication ==
    UNCHANGED publish =>
        (Committed' => /\ Committed
                       /\ publish'.path = publish.path
                       /\ publish'.value = publish.value
                       /\ publish'.order = publish.order)
BY DEF Committed

LEMMA Quiet ==
    ASSUME Inv, OwnPart, commits' \subseteq commits, UNCHANGED <<recoveries, publish>>
    PROVE  OwnPart'
BY OwnKept, SamePublication DEF StoredCommits

LEMMA Ended ==
    ASSUME publish' = NoPublish
    PROVE  OwnPart'
BY DEF OwnPart, Committed, NoPublish

LEMMA AbandonKeeps ==
    ASSUME Inv, OwnPart, NEW outcomes, Abandon(outcomes)
    PROVE  OwnPart'
<1>1. StoredCommits' = StoredCommits
  BY DEF StoredCommits, Abandon
<1>2. CASE publish' = NoPublish
  BY <1>2, Ended
<1>3. CASE publish' = publish
  BY <1>1, <1>3, OwnKept, SamePublication
<1>4. CASE /\ publish.phase = "pushing"
           /\ publish' = [publish EXCEPT !.phase = "failed", !.landed =
                            IF op.phase = "ambiguous" THEN op.landed ELSE 0]
  <2>1. /\ publish'.path = publish.path
        /\ publish'.value = publish.value
        /\ publish'.order = publish.order
    BY <1>4 DEF Inv, PublishPart, Publications
  <2>2. QED
    BY <1>1, <1>4, <2>1, OwnKept DEF Committed
<1>5. QED
  BY <1>2, <1>3, <1>4 DEF Abandon

\* Retain drops a snapshot or none, and adds the new one
LEMMA Retained ==
    ASSUME Inv, NEW snapshot, recoveries' = Retain(snapshot)
    PROVE  \A i \in DOMAIN recoveries' :
              \/ recoveries'[i] = snapshot
              \/ \E j \in DOMAIN recoveries : recoveries'[i] = recoveries[j]
<1>1. recoveries \in Seq(Snapshots)
  BY DEF Inv, RecoveriesPart
<1>2. recoveries' = Append(recoveries, snapshot) \/ recoveries' = Tail(Append(recoveries, snapshot))
  BY DEF Retain
<1>3. recoveries \in Seq(Snapshots \cup {snapshot}) /\ snapshot \in Snapshots \cup {snapshot}
  BY <1>1
<1>4. \A i \in 1..Len(Append(recoveries, snapshot)) :
          Append(recoveries, snapshot)[i] =
              IF i = Len(recoveries) + 1 THEN snapshot ELSE recoveries[i]
  BY <1>3
<1>5. Append(recoveries, snapshot) \in Seq(Snapshots \cup {snapshot})
      /\ Len(Append(recoveries, snapshot)) = Len(recoveries) + 1
      /\ Len(recoveries) \in Nat
  BY <1>3
<1>6. CASE recoveries' = Append(recoveries, snapshot)
  BY <1>4, <1>5, <1>6, <1>1
<1>7. CASE recoveries' = Tail(Append(recoveries, snapshot))
  <2>1. \A i \in 1..Len(recoveries) : recoveries'[i] = Append(recoveries, snapshot)[i + 1]
    BY <1>5, <1>7
  <2>2. DOMAIN recoveries' = 1..Len(recoveries)
    BY <1>5, <1>7
  <2>3. QED
    BY <1>4, <1>5, <2>1, <2>2, <1>1
<1>8. QED
  BY <1>2, <1>6, <1>7

LEMMA SnapshotKeeps ==
    ASSUME Inv, OwnPart, NEW files, recoveries' = Retain(Snapshot(files)),
           commits' \subseteq commits, UNCHANGED publish
    PROVE  OwnPart'
<1>1. \A i \in DOMAIN recoveries' :
          \/ recoveries'[i] = Snapshot(files)
          \/ \E j \in DOMAIN recoveries : recoveries'[i] = recoveries[j]
  BY Retained
<1>2. Snapshot(files).commits = commits
  BY DEF Snapshot
<1>3. StoredCommits' \subseteq StoredCommits
  BY <1>1, <1>2 DEF StoredCommits
<1>4. QED
  BY <1>3, OwnKept, SamePublication

\* A new commit is later than every commit anybody still refers to
LEMMA NextOrderLater ==
    ASSUME Inv, LaterOrders # {}
    PROVE  /\ publish.order < NextOrder
           /\ \A c \in StoredCommits : c.order < NextOrder
BY DEF NextOrder, LaterOrders, ReferredCommits, StoredCommits

LEMMA CommitKeeps ==
    ASSUME Inv, OwnPart, LaterOrders # {}, UNCHANGED <<recoveries, publish>>,
           \A c \in commits' : c \in commits \/ c.order = NextOrder
    PROVE  OwnPart'
<1>1. \A c \in StoredCommits' : c \in StoredCommits \/ publish.order < c.order
  BY NextOrderLater DEF StoredCommits
<1>2. QED
  BY <1>1, OwnKept, SamePublication

LEMMA RestoreKeeps ==
    ASSUME Inv, OwnPart, RestoreRecovery
    PROVE  OwnPart'
<1>1. StoredCommits' \subseteq StoredCommits
  BY DEF StoredCommits, RestoreRecovery
<1>2. QED
  BY <1>1, OwnKept, SamePublication DEF RestoreRecovery, tab

\* The commit of the running change takes a new order and holds its change
LEMMA PublishCommitMakes ==
    ASSUME Inv, PublishCommit
    PROVE  OwnPart'
<1> DEFINE path == publish.path
           value == publish.value
           entry == MutationEntry(rows[path], value)
<1>1. path \in Paths /\ value \in Contents /\ rows[path] \in GoodRows
  BY RowsType DEF Inv, PublishPart, Publications, PublishCommit, GoodFiles
<1>2. /\ publish'.path = path
      /\ publish'.value = value
      /\ publish'.order = NextOrder
  BY DEF Inv, PublishPart, Publications, PublishCommit
<1>3. entry # NoEntry /\ LaterOrders # {} /\ UNCHANGED recoveries
  BY DEF PublishCommit, MutateAndCommit
<1>4. OwnChange(entry)
  <2>1. CASE value = Absent
    BY <1>3, <2>1 DEF OwnChange, MutationEntry
  <2>2. CASE value # Absent
    BY <1>1, <1>3, <2>2, StatusAfterWriteType DEF OwnChange, MutationEntry, Contents
  <2>3. QED
    BY <2>1, <2>2
<1>5. \A c \in commits' : c.files[path] = entry
  BY <1>1 DEF PublishCommit, MutateAndCommit
<1>6. \A c \in StoredCommits : c.order # NextOrder
  <2>1. \A c \in StoredCommits : c.order < NextOrder
    BY <1>3, NextOrderLater
  <2>2. NextOrder \in Nat
    BY <1>3, NextOrderType, BoundAssumption
  <2>3. QED
    BY <2>1, <2>2
<1>7. \A c \in StoredCommits' : c.order = NextOrder => c \in commits'
  BY <1>3, <1>6 DEF StoredCommits
<1> HIDE DEF entry
<1>8. QED
  BY <1>2, <1>4, <1>5, <1>7 DEF OwnPart, OwnChange

-----------------------------------------------------------------------------
(* OwnPart holds from the start and is kept by every step                  *)

LEMMA AuthorKeeps ==
    ASSUME Inv, OwnPart, Author
    PROVE  OwnPart'
<1>1. CASE \E p \in Paths, v \in Contents : Edit(p, v)
  BY <1>1, Quiet DEF Edit, tab
<1>2. CASE \E p \in Paths, v \in Contents : EditAndCommit(p, v)
  BY <1>2, CommitKeeps DEF EditAndCommit, MutateAndCommit, tab
<1>3. CASE \E way \in {"scoped", "atomic"}, p \in Paths, v \in Contents : ReadForWrite(way, p, v)
  BY <1>3, Quiet DEF ReadForWrite, disk
<1>4. CASE StoreWrite
  BY <1>4, Quiet DEF StoreWrite
<1>5. CASE CommitLocalChanges
  BY <1>5, CommitKeeps DEF CommitLocalChanges, CommitDirty, tab
<1>6. CASE RestoreRecovery
  BY <1>6, RestoreKeeps
<1>7. QED
  BY <1>1, <1>2, <1>3, <1>4, <1>5, <1>6 DEF Author

LEMMA EnvironmentKeeps ==
    ASSUME Inv, OwnPart, Environment
    PROVE  OwnPart'
<1>1. CASE \E p \in Paths, v \in Contents : Foreign(p, v)
  BY <1>1, Quiet DEF Foreign, disk, tab
<1>2. CASE Crash
  BY <1>2, Ended DEF Crash
<1>3. CASE Fail
  BY <1>3, AbandonKeeps DEF Fail
<1>4. CASE FetchFail
  BY <1>4, Quiet DEF FetchFail
<1>5. CASE PushReplyLost
  BY <1>5, Quiet DEF PushReplyLost, disk
<1>6. QED
  BY <1>1, <1>2, <1>3, <1>4, <1>5 DEF Environment

LEMMA PushKeeps ==
    ASSUME Inv, OwnPart, Push
    PROVE  OwnPart'
<1>1. CASE PushPlan \/ PushLand \/ PushReconcile
  BY <1>1, Quiet DEF PushPlan, PushLand, PushReconcile, disk
<1>2. CASE PushSettle
  <2>1. StoredCommits' \subseteq StoredCommits
    BY <1>2 DEF PushSettle, StoredCommits, CommitsLeft
  <2>2. QED
    BY <1>2, <2>1, Ended, OwnKept, SamePublication DEF PushSettle
<1>3. CASE PushRefused
  BY <1>3, AbandonKeeps DEF PushRefused
<1>4. QED
  BY <1>1, <1>2, <1>3 DEF Push

LEMMA PullKeeps ==
    ASSUME Inv, OwnPart, Pull
    PROVE  OwnPart'
<1>1. CASE PullUnchanged
  BY <1>1, Quiet DEF PullUnchanged
<1>2. CASE PullReplace
  BY <1>2, SnapshotKeeps DEF PullReplace
<1>3. CASE PullRefused
  BY <1>3, AbandonKeeps DEF PullRefused
<1>4. QED
  BY <1>1, <1>2, <1>3 DEF Pull

LEMMA SyncKeeps ==
    ASSUME Inv, OwnPart, Sync
    PROVE  OwnPart'
<1>1. CASE SyncUnchanged \/ SyncMerge \/ SyncUncommit \/ SyncPushStart \/ SyncReread
           \/ SyncFinish
  BY <1>1, Quiet
     DEF SyncUnchanged, SyncMerge, SyncUncommit, SyncPushStart, SyncReread, SyncFinish,
         CommitsLeft, disk
<1>2. CASE SyncConflicts \/ SyncRefused
  BY <1>2, AbandonKeeps DEF SyncConflicts, SyncRefused
<1>3. CASE SyncSave \/ SyncSavePending
  BY <1>3, SnapshotKeeps, Quiet DEF SyncSave, SyncSavePending
<1>4. CASE SyncCommit
  BY <1>4, CommitKeeps, Quiet DEF SyncCommit, CommitDirty
<1>5. QED
  BY <1>1, <1>2, <1>3, <1>4 DEF Sync

LEMMA OverwriteKeeps ==
    ASSUME Inv, OwnPart, Overwrite
    PROVE  OwnPart'
<1>1. CASE OverwriteSave
  BY <1>1, SnapshotKeeps DEF OverwriteSave
<1>2. CASE OverwriteCount \/ OverwriteLand \/ OverwriteSettle
  BY <1>2, Quiet DEF OverwriteCount, OverwriteLand, OverwriteSettle, CommitsLeft, disk
<1>3. CASE OverwriteRefused
  BY <1>3, AbandonKeeps DEF OverwriteRefused
<1>4. QED
  BY <1>1, <1>2, <1>3 DEF Overwrite

LEMMA PublishKeeps ==
    ASSUME Inv, OwnPart, PublishChange
    PROVE  OwnPart'
<1>1. CASE PublishPreflight \/ \E p \in Paths, v \in Contents : PublishRead(p, v)
  BY <1>1 DEF PublishPreflight, PublishRead, NoPublish, OwnPart, Committed, Inv,
     PublishPart, Publications
<1>2. CASE PublishCommit
  BY <1>2, PublishCommitMakes
<1>3. CASE PublishRefused \/ PublishReconcile \/ PublishRollback
  BY <1>3, Ended DEF PublishRefused, PublishReconcile, PublishRollback
<1>4. CASE PublishPush
  <2>1. StoredCommits' = StoredCommits
    BY <1>4 DEF StoredCommits, PublishPush, disk
  <2>2. /\ Committed
        /\ publish'.path = publish.path
        /\ publish'.value = publish.value
        /\ publish'.order = publish.order
    BY <1>4 DEF PublishPush, Committed, Inv, PublishPart, Publications
  <2>3. QED
    BY <2>1, <2>2, OwnKept
<1>5. QED
  BY <1>1, <1>2, <1>3, <1>4 DEF PublishChange

LEMMA OwnInductive ==
    ASSUME Inv, OwnPart, [Next]_vars
    PROVE  OwnPart'
<1>1. CASE Fetch
  BY <1>1, Quiet DEF Fetch, FetchStart, FetchMark, FetchResolve, FetchRecord, disk
<1>2. CASE Begin
  BY <1>2, Quiet DEF Begin, PullStart, PushStart, SyncStart, OverwriteStart, disk
<1>3. CASE Checking
  BY <1>3, Quiet DEF Checking, OpMark, OpResolve, OpCapture, disk
<1>4. CASE UNCHANGED vars
  BY <1>4, Quiet DEF vars
<1>5. QED
  BY <1>1, <1>2, <1>3, <1>4, AuthorKeeps, EnvironmentKeeps, PullKeeps, PushKeeps,
     SyncKeeps, OverwriteKeeps, PublishKeeps DEF Next

-----------------------------------------------------------------------------
(* The rollback                                                            *)

\* The entry that a failed change finds under its order number is its own
LEMMA OwnEntryIsOwn ==
    ASSUME Inv, OwnPart, publish.phase = "failed", OwnEntry # NoEntry
    PROVE  OwnChange(OwnEntry)
<1> DEFINE path == publish.path
           last == CHOOSE c \in Touching(OwnCommits, path) :
                      \A d \in Touching(OwnCommits, path) : d.order <= c.order
<1>1. path \in Paths /\ OwnCommits \in SUBSET Commits
  BY DEF Inv, PublishPart, CommitsPart, OwnCommits
<1>2. Touching(OwnCommits, path) # {}
  BY DEF OwnEntry, LatestEntry
<1>3. last \in Touching(OwnCommits, path)
  BY <1>1, <1>2, LastTouching
<1>4. OwnEntry = last.files[path]
  BY <1>2 DEF OwnEntry, LatestEntry
<1>5. \E c \in OwnCommits : OwnEntry = c.files[path]
  BY <1>3, <1>4 DEF Touching
<1>6. QED
  BY <1>5 DEF OwnPart, Committed, StoredCommits, OwnCommits

\* A file the rollback replaces shows exactly what the change wrote
LEMMA OwnChangeShows ==
    ASSUME Inv, OwnPart, publish.phase = "failed", OwnChangeStands
    PROVE  View(rows[publish.path]) = publish.value
<1>1. OwnChange(OwnEntry) /\ MatchesCommit(rows[publish.path], OwnEntry)
  BY OwnEntryIsOwn DEF OwnChangeStands
<1>2. QED
  BY <1>1 DEF OwnChange, MatchesCommit, View, Gone

LEMMA RollbackStep ==
    ASSUME Inv, OwnPart, PublishRollback, NEW p \in Paths, LocalChanged(rows[p]),
           p = publish.path => View(rows[p]) # publish.value
    PROVE  rows'[p] = rows[p]
<1>1. CASE OwnChangeStands
  BY <1>1, OwnChangeShows, RowsType DEF PublishRollback, GoodFiles
<1>2. CASE ~OwnChangeStands
  BY <1>2 DEF PublishRollback
<1>3. QED
  BY <1>1, <1>2

LEMMA AlwaysOwn == Spec => []OwnPart
<1>1. Init => OwnPart
  BY DEF Init, OwnPart, Committed, NoPublish
<1>2. Inv /\ OwnPart /\ [Next]_vars => OwnPart'
  BY OwnInductive
<1>3. QED
  BY <1>1, <1>2, AlwaysInv, PTL DEF Spec

\* The rollback of a failed confirmed change never takes a file that shows
\* anything else than that change wrote, whatever was edited, committed,
\* settled, restored or renumbered since: restoreLocalFilesAndDeleteCommit
\* finds its commit by id and its file by localFileMatchesCommitResult.
THEOREM RollbackIsOwn == Spec => RollbackTakesOnlyItsOwn
<1>1. Inv /\ OwnPart /\ [Next]_vars =>
        [PublishRollback => \A p \in Paths :
           LocalChanged(rows[p]) /\ (p = publish.path => View(rows[p]) # publish.value) =>
              rows'[p] = rows[p]]_vars
  BY RollbackStep
<1>2. QED
  BY <1>1, AlwaysInv, AlwaysOwn, PTL DEF Spec, RollbackTakesOnlyItsOwn

-----------------------------------------------------------------------------
(* What is committed is pending, unless a local-source overwrite or a      *)
(* confirmed change is at work.  The commits that an operation listed may  *)
(* have been squashed into another one since, or settled, never in part:   *)
(* an operation that unwinds or settles them takes away whole commits.     *)

Distinct(cs) == \A c, d \in cs : c.order = d.order => c = d

\* A committed row is what the last commit of its path says
Backed(row, cs, path) ==
    row # NoRow /\ row.committed =>
        LatestEntry(cs, path) # NoEntry /\ MatchesCommit(row, LatestEntry(cs, path))

OrdersPart ==
    /\ Distinct(commits \cup op.pending)
    /\ op.pending \subseteq commits \/ op.pending \cap commits = {}
    /\ op.kind = "none" => op.pending = {}
RowsBacked == \A p \in Paths : Backed(rows[p], commits, p)
SavedBacked ==
    \A i \in DOMAIN recoveries :
        /\ Distinct(recoveries[i].commits)
        /\ \A p \in Paths : Backed(recoveries[i].rows[p], recoveries[i].commits, p)

\* Neither of the two operations that make the exception
Apart == publish = NoPublish /\ op.kind # "overwrite"

PendingPart == Apart /\ OrdersPart /\ RowsBacked /\ SavedBacked

LEMMA PendingImplies == PendingPart => CommittedIsPending
BY DEF PendingPart, RowsBacked, Backed, CommittedIsPending

\* The entry that counts is one of a commit that touches the path
LEMMA LatestOf ==
    ASSUME NEW cs \in SUBSET Commits, NEW path \in Paths, Touching(cs, path) # {}
    PROVE  \E c \in Touching(cs, path) :
              /\ \A d \in Touching(cs, path) : d.order <= c.order
              /\ LatestEntry(cs, path) = c.files[path]
              /\ LatestEntry(cs, path) # NoEntry
<1> DEFINE last == CHOOSE c \in Touching(cs, path) :
                      \A d \in Touching(cs, path) : d.order <= c.order
<1>1. last \in Touching(cs, path) /\ \A d \in Touching(cs, path) : d.order <= last.order
  BY LastTouching
<1>2. LatestEntry(cs, path) = last.files[path]
  BY DEF LatestEntry
<1>3. last.files[path] # NoEntry
  BY <1>1 DEF Touching
<1>4. QED
  BY <1>1, <1>2, <1>3

\* ... the one with the highest order
LEMMA LatestIs ==
    ASSUME NEW cs \in SUBSET Commits, NEW path \in Paths, Distinct(cs),
           NEW c \in Touching(cs, path), \A d \in Touching(cs, path) : d.order <= c.order
    PROVE  LatestEntry(cs, path) = c.files[path] /\ LatestEntry(cs, path) # NoEntry
<1>1. PICK e \in Touching(cs, path) :
          /\ \A d \in Touching(cs, path) : d.order <= e.order
          /\ LatestEntry(cs, path) = e.files[path]
          /\ LatestEntry(cs, path) # NoEntry
  BY LatestOf
<1>2. c.order \in Nat /\ e.order \in Nat /\ c \in cs /\ e \in cs
  BY BoundAssumption DEF Touching, Commits
<1>3. c.order = e.order
  BY <1>1, <1>2
<1>4. QED
  BY <1>1, <1>2, <1>3 DEF Distinct

LEMMA LatestSame ==
    ASSUME NEW as, NEW bs, NEW path, Touching(as, path) = Touching(bs, path)
    PROVE  LatestEntry(as, path) = LatestEntry(bs, path)
BY DEF LatestEntry

LEMMA NoneTouching ==
    ASSUME NEW cs \in SUBSET Commits, NEW path \in Paths, LatestEntry(cs, path) = NoEntry
    PROVE  Touching(cs, path) = {}
BY LatestOf

-----------------------------------------------------------------------------
(* The order numbers                                                       *)

LEMMA OrdersListed ==
    ASSUME OrdersPart, UNCHANGED commits, op'.pending \in {op.pending, commits, {}},
           op'.kind = "none" => op'.pending = {}
    PROVE  OrdersPart'
BY DEF OrdersPart, Distinct

LEMMA OrdersTaken ==
    ASSUME OrdersPart, commits' = CommitsLeft, op'.pending \in {op.pending, {}},
           op'.kind = "none" => op'.pending = {}
    PROVE  OrdersPart'
BY DEF OrdersPart, Distinct, CommitsLeft

LEMMA OrdersDone ==
    ASSUME op'.pending = {}, Distinct(commits')
    PROVE  OrdersPart'
BY DEF OrdersPart, Distinct

LEMMA OrdersAdded ==
    ASSUME Inv, OrdersPart, LaterOrders # {}, NEW new, new.order = NextOrder,
           commits' = commits \cup {new},
           op'.pending = op.pending, op'.kind = op.kind
    PROVE  OrdersPart'
<1>1. \A c \in commits \cup op.pending : c.order < NextOrder
  BY DEF NextOrder, LaterOrders, ReferredCommits
<1>2. \A c \in commits \cup op.pending : c.order # NextOrder
  BY <1>1, NextOrderType
<1>3. QED
  BY <1>2 DEF OrdersPart, Distinct

LEMMA OrdersCommitted ==
    ASSUME Inv, OrdersPart, op'.pending = op.pending, op'.kind = op.kind, CommitDirty
    PROVE  OrdersPart'
<1> DEFINE new == [order |-> NextOrder, files |-> [p \in Paths |-> CommitEntry(rows[p])]]
<1>1. LaterOrders # {} /\ commits' = commits \cup {new} /\ new.order = NextOrder
  BY DEF CommitDirty
<1> HIDE DEF new
<1>2. QED
  BY <1>1, OrdersAdded

-----------------------------------------------------------------------------
(* The rows                                                                *)

LEMMA BackedKept ==
    ASSUME RowsBacked, UNCHANGED <<rows, commits>>
    PROVE  RowsBacked'
BY DEF RowsBacked

LEMMA SavedKept ==
    ASSUME SavedBacked, UNCHANGED recoveries
    PROVE  SavedBacked'
BY DEF SavedBacked

LEMMA SavedAdded ==
    ASSUME Inv, OrdersPart, SavedBacked, NEW files, \A p \in Paths : Backed(files[p], commits, p),
           recoveries' = Retain(Snapshot(files))
    PROVE  SavedBacked'
<1>1. \A i \in DOMAIN recoveries' :
          \/ recoveries'[i] = Snapshot(files)
          \/ \E j \in DOMAIN recoveries : recoveries'[i] = recoveries[j]
  BY Retained
<1>2. Distinct(commits)
  BY DEF OrdersPart, Distinct
<1>3. Snapshot(files).rows = files /\ Snapshot(files).commits = commits
  BY DEF Snapshot
<1> SUFFICES ASSUME NEW i \in DOMAIN recoveries'
             PROVE  /\ Distinct(recoveries'[i].commits)
                    /\ \A p \in Paths : Backed(recoveries'[i].rows[p], recoveries'[i].commits, p)
  BY DEF SavedBacked
<1>4. CASE recoveries'[i] = Snapshot(files)
  BY <1>2, <1>3, <1>4
<1>5. CASE \E j \in DOMAIN recoveries : recoveries'[i] = recoveries[j]
  BY <1>5 DEF SavedBacked
<1>6. QED
  BY <1>1, <1>4, <1>5

\* A row that is not committed, or that stays, needs no other commit
LEMMA BackedUncommitted ==
    ASSUME NEW row, NEW cs, NEW path, row # NoRow => row.committed = FALSE
    PROVE  Backed(row, cs, path)
BY DEF Backed

LEMMA EditBacked ==
    ASSUME Inv, RowsBacked, NEW path \in Paths, NEW value \in Contents, Edit(path, value)
    PROVE  RowsBacked'
<1>1. rows[path] \in GoodRows /\ ~Unaffected(rows[path], value)
  BY RowsType DEF GoodFiles, Edit
<1>2. Mutated(rows[path], value, FALSE) # NoRow =>
          Mutated(rows[path], value, FALSE).committed = FALSE
  <2>1. CASE value = Absent
    BY <1>1, <2>1 DEF Mutated, Deleted, Unaffected, Gone, GoodRows, Row
  <2>2. CASE value # Absent
    BY <1>1, <2>2 DEF Mutated
  <2>3. QED
    BY <2>1, <2>2
<1>3. rows'[path] = Mutated(rows[path], value, FALSE)
      /\ \A p \in Paths \ {path} : rows'[p] = rows[p]
  BY RowsType DEF Edit, Files
<1>4. QED
  BY <1>2, <1>3 DEF RowsBacked, Backed, Edit

LEMMA StoreBacked ==
    ASSUME Inv, RowsBacked, StoreWrite
    PROVE  RowsBacked'
<1>1. PICK w \in writes : rows' = [rows EXCEPT ![w.path] = Stored(w, @)]
  BY DEF StoreWrite
<1>2. w \in PendingWrites /\ w.seen \in GoodRows /\ w.path \in Paths
  BY DEF Inv, WritesPart, PendingWrites
<1>3. \/ Stored(w, rows[w.path]) = rows[w.path]
      \/ Stored(w, rows[w.path]) # NoRow => Stored(w, rows[w.path]).committed = FALSE
  <2>1. CASE w.value = Absent
    BY <1>2, <2>1 DEF Stored, Deleted, GoodRows, Row
  <2>2. CASE w.value # Absent /\ w.way = "scoped"
    BY <2>2 DEF Stored, Written
  <2>3. CASE w.value # Absent /\ w.way # "scoped"
    BY <2>3 DEF Stored, Replaced, Written
  <2>4. QED
    BY <2>1, <2>2, <2>3
<1>4. rows'[w.path] = Stored(w, rows[w.path])
      /\ \A p \in Paths \ {w.path} : rows'[p] = rows[p]
  BY <1>1, <1>2, RowsType DEF Files
<1>5. QED
  BY <1>3, <1>4 DEF RowsBacked, Backed, StoreWrite

LEMMA CommitDirtyBacked ==
    ASSUME Inv, OrdersPart, RowsBacked, CommitDirty
    PROVE  RowsBacked'
<1> DEFINE new == [order |-> NextOrder, files |-> [p \in Paths |-> CommitEntry(rows[p])]]
<1>1. commits' = commits \cup {new} /\ commits' \in SUBSET Commits /\ commits \in SUBSET Commits
  BY CommitDirtyTypes DEF CommitDirty, CommitsPart, Inv
<1>2. (\A p \in Paths : new.files[p] = CommitEntry(rows[p])) /\ new.order = NextOrder
  OBVIOUS
<1> HIDE DEF new
<1>3. \A c \in commits : c.order < NextOrder /\ c.order \in Nat
  BY <1>1, BoundAssumption DEF CommitDirty, NextOrder, LaterOrders, ReferredCommits, Commits
<1>4. NextOrder \in Nat
  BY NextOrderType, BoundAssumption DEF CommitDirty
<1>5. Distinct(commits')
  BY <1>1, <1>2, <1>3, <1>4 DEF OrdersPart, Distinct
<1> SUFFICES ASSUME NEW p \in Paths
             PROVE  Backed(rows'[p], commits', p)
  BY DEF RowsBacked
<1>6. rows[p] \in GoodRows /\ rows'[p] = CommittedRow(rows[p])
  BY RowsType DEF GoodFiles, CommitDirty
<1>7. CASE Dirty(rows[p])
  <2>1. CommitEntry(rows[p]) # NoEntry
    BY <1>6, <1>7, NoEntryAssumption DEF CommitEntry, Dirty, GoodRows, Row, Entry, Status
  <2>2. new \in Touching(commits', p)
    BY <1>1, <1>2, <2>1 DEF Touching
  <2>3. \A d \in Touching(commits', p) : d.order <= new.order
    BY <1>1, <1>2, <1>3, <1>4 DEF Touching
  <2>4. LatestEntry(commits', p) = CommitEntry(rows[p])
    BY <1>1, <1>2, <1>5, <2>2, <2>3, LatestIs
  <2>5. MatchesCommit(rows'[p], CommitEntry(rows[p]))
    <3>1. rows[p] \in Row /\ rows[p].status # "clean"
      BY <1>6, <1>7 DEF Dirty, GoodRows
    <3>2. /\ rows'[p] \in Row /\ rows'[p].committed /\ rows'[p].cur = rows[p].cur
          /\ rows'[p].status = IF rows[p].status = "deleted" THEN "deleted" ELSE "clean"
      BY <1>6, <1>7, <3>1 DEF CommittedRow, Row, Status
    <3>3. QED
      BY <1>7, <3>2, NoRowAssumption DEF MatchesCommit, CommitEntry
  <2>6. QED
    BY <2>1, <2>4, <2>5 DEF Backed
<1>8. CASE ~Dirty(rows[p])
  <2>1. rows'[p] = rows[p] /\ new.files[p] = NoEntry
    BY <1>2, <1>6, <1>8 DEF CommittedRow, CommitEntry
  <2>2. Touching(commits', p) = Touching(commits, p)
    BY <1>1, <2>1 DEF Touching
  <2>3. LatestEntry(commits', p) = LatestEntry(commits, p)
    BY <2>2, LatestSame
  <2>4. QED
    BY <2>1, <2>3 DEF RowsBacked, Backed
<1>9. QED
  BY <1>7, <1>8

LEMMA PullBacked ==
    ASSUME PullReplace
    PROVE  RowsBacked'
<1> SUFFICES ASSUME NEW p \in Paths
             PROVE  Backed(rows'[p], commits', p)
  BY DEF RowsBacked
<1>1. rows'[p] = Pulled(op.files[p], branch[op.head][p])
  BY DEF PullReplace
<1>2. rows'[p] # NoRow => rows'[p].committed = FALSE
  BY <1>1 DEF Pulled, CleanRow
<1>3. QED
  BY <1>2 DEF Backed

LEMMA MergeBacked ==
    ASSUME RowsBacked, SyncMerge
    PROVE  RowsBacked'
<1> SUFFICES ASSUME NEW p \in Paths
             PROVE  Backed(rows'[p], commits', p)
  BY DEF RowsBacked
<1>1. rows'[p] = Merged(Decision(p), rows[p], Remote(p)) /\ commits' = commits
  BY DEF SyncMerge
<1>2. rows'[p] = rows[p] \/ (rows'[p] # NoRow => rows'[p].committed = FALSE)
  BY <1>1 DEF Merged, CleanRow
<1>3. QED
  BY <1>1, <1>2 DEF RowsBacked, Backed

\* A commit that is not the operation's stays, and stays the last one
LEMMA LeftLatest ==
    ASSUME Inv, OrdersPart, NEW p \in Paths, NEW c \in Touching(commits, p),
           \A d \in Touching(commits, p) : d.order <= c.order,
           c \notin op.pending
    PROVE  LatestEntry(CommitsLeft, p) = c.files[p] /\ LatestEntry(CommitsLeft, p) # NoEntry
<1>1. CommitsLeft \in SUBSET Commits /\ CommitsLeft \subseteq commits
  BY DEF CommitsLeft, Inv, CommitsPart
<1>2. Distinct(CommitsLeft)
  BY <1>1 DEF OrdersPart, Distinct
<1>3. c \in CommitsLeft
  BY DEF CommitsLeft, OrdersPart, Distinct, Touching
<1>4. c \in Touching(CommitsLeft, p) /\ Touching(CommitsLeft, p) \subseteq Touching(commits, p)
  BY <1>1, <1>3 DEF Touching
<1>5. QED
  BY <1>1, <1>2, <1>4, LatestIs

LEMMA SettleBacked ==
    ASSUME Inv, OrdersPart, RowsBacked, PushSettle
    PROVE  RowsBacked'
<1> SUFFICES ASSUME NEW p \in Paths
             PROVE  Backed(rows'[p], commits', p)
  BY DEF RowsBacked
<1>1. rows[p] \in GoodRows /\ commits' = CommitsLeft
  BY RowsType DEF GoodFiles, PushSettle
<1>2. CASE p \in Pushed
  <2>1. rows'[p] = Settled(rows[p], EntryOf(p), Outgoing(p)) /\ EntryOf(p) # NoEntry
    BY <1>2 DEF PushSettle, Pushed
  <2>2. rows'[p] # NoRow => rows'[p].committed = FALSE
    BY <1>1, <2>1 DEF Settled, GoodRows, Row
  <2>3. QED
    BY <2>2 DEF Backed
<1>3. CASE p \notin Pushed
  <2>1. rows'[p] = rows[p]
    BY <1>3 DEF PushSettle
  <2>2. Touching(op.pending, p) = {}
    BY <1>3, NoneTouching DEF Pushed, EntryOf, Inv, OpPart, Operations
  <2>3. SUFFICES ASSUME rows[p] # NoRow, rows[p].committed
                 PROVE  /\ LatestEntry(CommitsLeft, p) # NoEntry
                        /\ MatchesCommit(rows[p], LatestEntry(CommitsLeft, p))
    BY <1>1, <2>1 DEF Backed
  <2>4. LatestEntry(commits, p) # NoEntry /\ MatchesCommit(rows[p], LatestEntry(commits, p))
    BY <2>3 DEF RowsBacked, Backed
  <2>5. Touching(commits, p) # {} /\ commits \in SUBSET Commits
    BY <2>4 DEF LatestEntry, Inv, CommitsPart
  <2>6. PICK c \in Touching(commits, p) :
            /\ \A d \in Touching(commits, p) : d.order <= c.order
            /\ LatestEntry(commits, p) = c.files[p]
    BY <2>5, LatestOf
  <2>7. c \notin op.pending
    BY <2>2, <2>6 DEF Touching
  <2>8. QED
    BY <2>4, <2>6, <2>7, LeftLatest
<1>4. QED
  BY <1>2, <1>3

\* A row that stays committed was committed by none of the commits taken away
LEMMA UncommitBacked ==
    ASSUME Inv, OrdersPart, RowsBacked, SyncUncommit
    PROVE  RowsBacked'
<1> SUFFICES ASSUME NEW p \in Paths
             PROVE  Backed(rows'[p], commits', p)
  BY DEF RowsBacked
<1>1. /\ rows[p] \in GoodRows /\ commits' = CommitsLeft
      /\ rows'[p] = Uncommitted(rows[p], EntryOf(p))
  BY RowsType DEF GoodFiles, SyncUncommit
<1>2. CASE EntryOf(p) # NoEntry /\ MatchesCommit(rows[p], EntryOf(p))
  <2>1. rows'[p] # NoRow => rows'[p].committed = FALSE
    BY <1>1, <1>2 DEF Uncommitted, MatchesCommit, GoodRows, Row
  <2>2. QED
    BY <2>1 DEF Backed
<1>3. CASE ~(EntryOf(p) # NoEntry /\ MatchesCommit(rows[p], EntryOf(p)))
  <2>1. rows'[p] = rows[p]
    BY <1>1, <1>3 DEF Uncommitted
  <2>2. SUFFICES ASSUME rows[p] # NoRow, rows[p].committed
                 PROVE  /\ LatestEntry(CommitsLeft, p) # NoEntry
                        /\ MatchesCommit(rows[p], LatestEntry(CommitsLeft, p))
    BY <1>1, <2>1 DEF Backed
  <2>3. LatestEntry(commits, p) # NoEntry /\ MatchesCommit(rows[p], LatestEntry(commits, p))
    BY <2>2 DEF RowsBacked, Backed
  <2>4. Touching(commits, p) # {} /\ commits \in SUBSET Commits
    BY <2>3 DEF LatestEntry, Inv, CommitsPart
  <2>5. PICK c \in Touching(commits, p) :
            /\ \A d \in Touching(commits, p) : d.order <= c.order
            /\ LatestEntry(commits, p) = c.files[p]
    BY <2>4, LatestOf
  <2>6. ASSUME c \in op.pending
        PROVE  FALSE
    <3>1. op.pending \subseteq commits /\ op.pending \in SUBSET Commits /\ Distinct(op.pending)
      BY <2>5, <2>6 DEF OrdersPart, Touching, Distinct, Inv, OpPart, Operations
    <3>2. c \in Touching(op.pending, p) /\ Touching(op.pending, p) \subseteq Touching(commits, p)
      BY <2>5, <2>6, <3>1 DEF Touching
    <3>3. EntryOf(p) = c.files[p] /\ EntryOf(p) # NoEntry
      BY <2>5, <3>1, <3>2, LatestIs DEF EntryOf
    <3>4. QED
      BY <1>3, <2>3, <2>5, <3>3
  <2>7. QED
    BY <2>3, <2>5, <2>6, LeftLatest
<1>4. QED
  BY <1>2, <1>3

-----------------------------------------------------------------------------
(* The steps                                                               *)

\* A step that moves no row, no commit and no snapshot
LEMMA PendingQuiet ==
    ASSUME PendingPart, UNCHANGED <<rows, commits, recoveries>>, publish' = publish,
           op'.kind # "overwrite", op'.pending \in {op.pending, commits, {}},
           op'.kind = "none" => op'.pending = {}
    PROVE  PendingPart'
BY OrdersListed, BackedKept, SavedKept DEF PendingPart, Apart

LEMMA NoOpEmpty == NoOp.kind = "none" /\ NoOp.pending = {} /\ NoOp.phase = "idle"
BY DEF NoOp

LEMMA AbandonPending ==
    ASSUME PendingPart, NEW outcomes, Abandon(outcomes)
    PROVE  PendingPart'
<1>1. publish' = publish
  BY DEF PendingPart, Apart, Abandon, NoPublish
<1>2. op' = NoOp /\ UNCHANGED <<rows, commits, recoveries>>
  BY DEF Abandon
<1>3. QED
  BY <1>1, <1>2, PendingQuiet, NoOpEmpty

LEMMA AuthorPending ==
    ASSUME "editAndCommit" \notin Features, Inv, PendingPart, Author
    PROVE  PendingPart'
<1>1. UNCHANGED <<op, publish>>
  BY DEF Author, Edit, EditAndCommit, ReadForWrite, StoreWrite, CommitLocalChanges,
     RestoreRecovery, tab
<1>2. CASE \E p \in Paths, v \in Contents : Edit(p, v)
  <2>1. UNCHANGED <<commits, recoveries>>
    BY <1>2 DEF Edit
  <2>2. RowsBacked'
    BY <1>2, EditBacked DEF PendingPart
  <2>3. QED
    BY <1>1, <2>1, <2>2, OrdersListed, SavedKept DEF PendingPart, Apart, OrdersPart
<1>3. ~\E p \in Paths, v \in Contents : EditAndCommit(p, v)
  BY DEF EditAndCommit
<1>4. CASE \E way \in {"scoped", "atomic"}, p \in Paths, v \in Contents : ReadForWrite(way, p, v)
  <2>1. UNCHANGED <<rows, commits, recoveries>>
    BY <1>4 DEF ReadForWrite, disk
  <2>2. QED
    BY <1>1, <2>1, PendingQuiet DEF PendingPart, Apart, OrdersPart
<1>5. CASE StoreWrite
  <2>1. UNCHANGED <<commits, recoveries>>
    BY <1>5 DEF StoreWrite
  <2>2. RowsBacked'
    BY <1>5, StoreBacked DEF PendingPart
  <2>3. QED
    BY <1>1, <2>1, <2>2, OrdersListed, SavedKept DEF PendingPart, Apart, OrdersPart
<1>6. CASE CommitLocalChanges
  <2>1. CommitDirty /\ UNCHANGED recoveries
    BY <1>6 DEF CommitLocalChanges
  <2>2. RowsBacked'
    BY <2>1, CommitDirtyBacked DEF PendingPart
  <2>3. OrdersPart'
    BY <1>1, <2>1, OrdersCommitted DEF PendingPart
  <2>4. QED
    BY <1>1, <2>1, <2>2, <2>3, SavedKept DEF PendingPart, Apart
<1>7. CASE RestoreRecovery
  <2>1. PICK i \in DOMAIN recoveries :
            rows' = recoveries[i].rows /\ commits' = recoveries[i].commits
    BY <1>7 DEF RestoreRecovery
  <2>2. op.kind = "none" /\ UNCHANGED recoveries
    BY <1>7 DEF RestoreRecovery
  <2>3. Distinct(commits') /\ RowsBacked'
    BY <2>1 DEF PendingPart, SavedBacked, RowsBacked
  <2>4. op'.pending = {}
    BY <1>1, <2>2 DEF PendingPart, OrdersPart
  <2>5. QED
    BY <1>1, <2>2, <2>3, <2>4, OrdersDone, SavedKept DEF PendingPart, Apart
<1>8. QED
  BY <1>2, <1>3, <1>4, <1>5, <1>6, <1>7 DEF Author

LEMMA EnvironmentPending ==
    ASSUME Inv, PendingPart, Environment
    PROVE  PendingPart'
<1>1. CASE (\E p \in Paths, v \in Contents : Foreign(p, v)) \/ FetchFail
  <2>1. UNCHANGED <<rows, commits, recoveries, op, publish>>
    BY <1>1 DEF Foreign, FetchFail, disk, tab
  <2>2. QED
    BY <2>1, PendingQuiet DEF PendingPart, Apart, OrdersPart
<1>2. CASE Crash
  <2>1. /\ UNCHANGED <<rows, commits, recoveries>>
        /\ op' = NoOp /\ publish' = NoPublish
    BY <1>2 DEF Crash, disk
  <2>2. QED
    BY <2>1, PendingQuiet, NoOpEmpty DEF PendingPart, Apart
<1>3. CASE Fail
  BY <1>3, AbandonPending DEF Fail
<1>4. CASE PushReplyLost
  <2>1. UNCHANGED <<rows, commits, recoveries, publish>>
    BY <1>4 DEF PushReplyLost, disk
  <2>2. op'.kind = op.kind /\ op'.pending = op.pending
    BY <1>4 DEF PushReplyLost, Inv, OpPart, Operations
  <2>3. QED
    BY <2>1, <2>2, PendingQuiet DEF PendingPart, Apart, OrdersPart
<1>5. QED
  BY <1>1, <1>2, <1>3, <1>4 DEF Environment

LEMMA BeginPending ==
    ASSUME "overwrite" \notin Features, Inv, PendingPart, Fetch \/ Begin \/ Checking
    PROVE  PendingPart'
<1>1. CASE Fetch
  <2>1. UNCHANGED <<rows, commits, recoveries, op, publish>>
    BY <1>1 DEF Fetch, FetchStart, FetchMark, FetchResolve, FetchRecord, disk
  <2>2. QED
    BY <2>1, PendingQuiet DEF PendingPart, Apart, OrdersPart
<1>2. CASE Begin
  <2>1. UNCHANGED <<rows, commits, recoveries, publish>>
    <3>1. CASE \E force \in BOOLEAN : PullStart(force)
      BY <3>1 DEF PullStart, disk
    <3>2. CASE \E choice \in Resolutions : SyncStart(choice)
      BY <3>2 DEF SyncStart, disk
    <3>3. CASE PushStart \/ OverwriteStart
      BY <3>3 DEF PushStart, OverwriteStart, disk
    <3>4. QED
      BY <1>2, <3>1, <3>2, <3>3 DEF Begin
  <2>2. /\ op'.kind \in {"pull", "push", "sync"}
        /\ op'.pending \in {commits, {}}
    <3>1. CASE \E force \in BOOLEAN : PullStart(force)
      BY <3>1 DEF PullStart, NoOp
    <3>2. CASE PushStart
      BY <3>2 DEF PushStart, NoOp
    <3>3. CASE \E choice \in Resolutions : SyncStart(choice)
      BY <3>3 DEF SyncStart, NoOp
    <3>4. QED
      BY <1>2, <3>1, <3>2, <3>3 DEF Begin, OverwriteStart
  <2>3. QED
    BY <2>1, <2>2, PendingQuiet
<1>3. CASE Checking
  <2>1. UNCHANGED <<rows, commits, recoveries, publish>>
    BY <1>3 DEF Checking, OpMark, OpResolve, OpCapture, disk
  <2>2. op'.kind = op.kind /\ op.kind # "none" /\ op'.pending \in {op.pending, commits}
    BY <1>3 DEF Checking, OpMark, OpResolve, OpCapture, Checks, Inv, OpPart, Operations
  <2>3. QED
    BY <2>1, <2>2, PendingQuiet DEF PendingPart, Apart
<1>4. QED
  BY <1>1, <1>2, <1>3

LEMMA PullPending ==
    ASSUME Inv, PendingPart, Pull
    PROVE  PendingPart'
<1>1. CASE PullUnchanged
  <2>1. UNCHANGED <<rows, commits, recoveries, publish>> /\ op' = NoOp
    BY <1>1 DEF PullUnchanged
  <2>2. QED
    BY <2>1, PendingQuiet, NoOpEmpty
<1>2. CASE PullReplace
  <2>1. commits' = {} /\ op' = NoOp /\ publish' = publish
    BY <1>2 DEF PullReplace
  <2>2. Distinct(commits')
    BY <2>1 DEF Distinct
  <2>3. ASSUME NEW p \in Paths
        PROVE  Backed(op.files[p], commits, p)
    <3>1. Version(op.files[p]) = Version(rows[p])
      BY <1>2 DEF PullReplace, MayReplace, SameFiles
    <3>2. op.files[p] # NoRow => /\ rows[p] # NoRow
                                 /\ rows[p].cur = op.files[p].cur
                                 /\ rows[p].status = op.files[p].status
                                 /\ rows[p].committed = op.files[p].committed
      BY <3>1 DEF Version
    <3>3. Backed(rows[p], commits, p)
      BY DEF PendingPart, RowsBacked
    <3>4. QED
      BY <3>2, <3>3 DEF Backed, MatchesCommit
  <2>4. SavedBacked'
    BY <1>2, <2>3, SavedAdded DEF PullReplace, PendingPart
  <2>5. QED
    BY <1>2, <2>1, <2>2, <2>4, PullBacked, OrdersDone, NoOpEmpty DEF PendingPart, Apart
<1>3. CASE PullRefused
  BY <1>3, AbandonPending DEF PullRefused
<1>4. QED
  BY <1>1, <1>2, <1>3 DEF Pull

LEMMA PushPending ==
    ASSUME Inv, PendingPart, Push
    PROVE  PendingPart'
<1>1. CASE PushPlan \/ PushLand \/ PushReconcile
  <2>1. UNCHANGED <<rows, commits, recoveries, publish>>
    BY <1>1 DEF PushPlan, PushLand, PushReconcile, disk
  <2>2. op'.kind = op.kind /\ op'.pending = op.pending
    BY <1>1 DEF PushPlan, PushLand, PushReconcile, Inv, OpPart, Operations
  <2>3. QED
    BY <2>1, <2>2, PendingQuiet DEF PendingPart, Apart, OrdersPart
<1>2. CASE PushSettle
  <2>1. commits' = CommitsLeft /\ UNCHANGED recoveries
    BY <1>2 DEF PushSettle
  <2>2. publish' = publish
    BY <1>2 DEF PushSettle, PendingPart, Apart
  <2>3. \/ op'.kind = "sync" /\ op'.pending = op.pending
        \/ op' = NoOp
    BY <1>2 DEF PushSettle, Step, Inv, OpPart, Operations
  <2>4. OrdersPart'
    BY <2>1, <2>3, OrdersTaken, NoOpEmpty DEF PendingPart
  <2>5. QED
    BY <1>2, <2>1, <2>2, <2>3, <2>4, SettleBacked, SavedKept, NoOpEmpty DEF PendingPart, Apart
<1>3. CASE PushRefused
  BY <1>3, AbandonPending DEF PushRefused
<1>4. QED
  BY <1>1, <1>2, <1>3 DEF Push

LEMMA SyncPending ==
    ASSUME Inv, PendingPart, Sync
    PROVE  PendingPart'
<1>1. ASSUME NEW phase PROVE Step(phase).kind = op.kind /\ Step(phase).pending = op.pending
  BY DEF Step, Inv, OpPart, Operations
<1>2. CASE SyncUnchanged \/ SyncReread \/ SyncPushStart \/ SyncFinish
  <2>1. UNCHANGED <<rows, commits, recoveries, publish>>
    BY <1>2 DEF SyncUnchanged, SyncReread, SyncPushStart, SyncFinish, disk
  <2>2. \/ op'.kind = "sync" /\ op'.pending \in {op.pending, commits}
        \/ op' = NoOp
    BY <1>1, <1>2
       DEF SyncUnchanged, SyncReread, SyncPushStart, SyncFinish, Inv, OpPart, Operations
  <2>3. QED
    BY <2>1, <2>2, PendingQuiet, NoOpEmpty
<1>3. CASE SyncConflicts \/ SyncRefused
  BY <1>3, AbandonPending DEF SyncConflicts, SyncRefused
<1>4. CASE SyncSave \/ SyncSavePending
  <2>1. UNCHANGED <<rows, commits, publish>>
        /\ (UNCHANGED recoveries \/ recoveries' = Retain(Snapshot(rows)))
    BY <1>4 DEF SyncSave, SyncSavePending
  <2>2. op'.kind = "sync" /\ op'.pending \in {op.pending, commits}
    BY <1>1, <1>4 DEF SyncSave, SyncSavePending, Inv, OpPart, Operations
  <2>3. SavedBacked'
    BY <2>1, SavedAdded, SavedKept DEF PendingPart, RowsBacked
  <2>4. QED
    BY <2>1, <2>2, <2>3, OrdersListed, BackedKept DEF PendingPart, Apart
<1>5. CASE SyncMerge
  <2>1. UNCHANGED <<commits, recoveries, publish>> /\ op' = Step("merged") /\ op.kind = "sync"
    BY <1>5 DEF SyncMerge, MergePlanned
  <2>2. QED
    BY <1>1, <1>5, <2>1, MergeBacked, OrdersListed, SavedKept DEF PendingPart, Apart
<1>6. CASE SyncUncommit
  <2>1. /\ op'.kind = "sync" /\ op'.pending = {} /\ commits' = CommitsLeft
        /\ UNCHANGED <<recoveries, publish>>
    BY <1>6 DEF SyncUncommit, Inv, OpPart, Operations
  <2>2. QED
    BY <1>6, <2>1, UncommitBacked, OrdersTaken, SavedKept DEF PendingPart, Apart
<1>7. CASE SyncCommit
  <2>1. /\ op'.kind = "sync" /\ op.kind = "sync" /\ op'.pending = op.pending
        /\ UNCHANGED <<recoveries, publish>>
    BY <1>1, <1>7 DEF SyncCommit
  <2>2. CASE CommitDirty
    <3>1. OrdersPart'
      BY <2>1, <2>2, OrdersCommitted DEF PendingPart
    <3>2. QED
      BY <2>1, <2>2, <3>1, CommitDirtyBacked, SavedKept DEF PendingPart, Apart
  <2>3. CASE UNCHANGED <<rows, commits>>
    BY <2>1, <2>3, PendingQuiet
  <2>4. QED
    BY <1>7, <2>2, <2>3 DEF SyncCommit
<1>8. QED
  BY <1>2, <1>3, <1>4, <1>5, <1>6, <1>7 DEF Sync

LEMMA PendingInductive ==
    ASSUME "overwrite" \notin Features, "publish" \notin Features,
           "editAndCommit" \notin Features, Inv, PendingPart, [Next]_vars
    PROVE  PendingPart'
<1>1. CASE UNCHANGED vars
  BY <1>1, PendingQuiet DEF vars, PendingPart, Apart, OrdersPart
<1>2. ~Overwrite
  BY DEF Overwrite, OverwriteCount, OverwriteSave, OverwriteLand, OverwriteRefused,
     OverwriteSettle, PendingPart, Apart
<1>3. ~PublishChange
  BY DEF PublishChange, PublishPreflight, PublishRead, PublishCommit, PublishRefused,
     PublishPush, PublishReconcile, PublishRollback, PendingPart, Apart, NoPublish
<1>4. CASE Next
  BY <1>2, <1>3, <1>4, AuthorPending, EnvironmentPending, BeginPending, PullPending,
     PushPending, SyncPending DEF Next
<1>5. QED
  BY <1>1, <1>4

LEMMA AlwaysPending ==
    "overwrite" \notin Features /\ "publish" \notin Features /\ "editAndCommit" \notin Features
      => (Spec => []PendingPart)
<1> SUFFICES ASSUME "overwrite" \notin Features, "publish" \notin Features,
                    "editAndCommit" \notin Features
             PROVE  Spec => []PendingPart
  OBVIOUS
<1>1. Init => PendingPart
  <2> SUFFICES ASSUME Init PROVE PendingPart
    OBVIOUS
  <2>1. Apart /\ OrdersPart /\ SavedBacked
    BY DEF Init, Apart, OrdersPart, SavedBacked, Distinct, NoOp
  <2>2. \A p \in Paths : rows[p] # NoRow => rows[p].committed = FALSE
    BY DEF Init, CleanRow
  <2>3. QED
    BY <2>1, <2>2 DEF PendingPart, RowsBacked, Backed
<1>2. Inv /\ PendingPart /\ [Next]_vars => PendingPart'
  BY PendingInductive
<1>3. QED
  BY <1>1, <1>2, AlwaysInv, PTL DEF Spec

\* Without a local-source overwrite, and without the changes that squash the
\* pending commits (mutateLocalTextFilesAndCreateCommitAtomically takes them in
\* no order, and may keep an older entry of a file), whatever runs and however
\* it is cut into, a committed file is what the last pending commit of it says,
\* for any paths, contents and bounds: the settlement of markLocalCommitsPushed,
\* the unwinding of restoreUnpushedCommitsAsDirty, which may have listed too few
\* commits, and a restore leave no committed row behind that nothing would
\* publish.
THEOREM CommittedStaysPending ==
    "overwrite" \notin Features /\ "publish" \notin Features /\ "editAndCommit" \notin Features
      => (Spec => []CommittedIsPending)
<1> SUFFICES ASSUME "overwrite" \notin Features, "publish" \notin Features,
                    "editAndCommit" \notin Features
             PROVE  Spec => []CommittedIsPending
  OBVIOUS
<1>1. Spec => []PendingPart
  BY AlwaysPending
<1>2. QED
  BY <1>1, PendingImplies, PTL

-----------------------------------------------------------------------------
(* Confirmed changes                                                       *)

LEMMA PublicationMovers ==
    ASSUME [Next]_vars, publish' # publish
    PROVE  \/ publish' = NoPublish \/ PublishPreflight \/ PublishCommit \/ PublishPush
           \/ \E p \in Paths, v \in Contents : PublishRead(p, v)
           \/ \E outcomes : Abandon(outcomes)
<1>1. ~UNCHANGED vars
  BY DEF vars
<1>2. (\E p \in Paths, v \in Contents : Foreign(p, v)) => UNCHANGED publish
  BY Zenon DEF Foreign, tab
<1>3. Author => UNCHANGED publish
  BY DEF Author, Edit, EditAndCommit, ReadForWrite, StoreWrite, CommitLocalChanges,
     RestoreRecovery, tab
<1>4. ~(FetchFail \/ PushReplyLost \/ Fetch)
  BY DEF FetchFail, PushReplyLost, Fetch, FetchStart, FetchMark, FetchResolve, FetchRecord
<1>5. ~(Begin \/ Checking)
  <2>1. (\E force \in BOOLEAN : PullStart(force)) => UNCHANGED publish
    BY Zenon DEF PullStart
  <2>2. (\E choice \in Resolutions : SyncStart(choice)) => UNCHANGED publish
    BY Zenon DEF SyncStart
  <2>3. PushStart \/ OverwriteStart \/ Checking => UNCHANGED publish
    BY DEF PushStart, OverwriteStart, Checking, OpMark, OpResolve, OpCapture
  <2>4. QED
    BY <2>1, <2>2, <2>3 DEF Begin
<1>6. ~(PullUnchanged \/ PullReplace \/ PushPlan \/ PushLand \/ PushReconcile)
  BY DEF PullUnchanged, PullReplace, PushPlan, PushLand, PushReconcile
<1>7. ~(SyncUnchanged \/ SyncSave \/ SyncMerge \/ SyncSavePending \/ SyncUncommit \/ SyncCommit)
  BY DEF SyncUnchanged, SyncSave, SyncMerge, SyncSavePending, SyncUncommit, SyncCommit
<1>8. ~(SyncPushStart \/ SyncReread \/ SyncFinish)
  BY DEF SyncPushStart, SyncReread, SyncFinish
<1>9. ~(OverwriteCount \/ OverwriteSave \/ OverwriteLand \/ OverwriteSettle)
  BY DEF OverwriteCount, OverwriteSave, OverwriteLand, OverwriteSettle
<1>10. Crash \/ PushSettle \/ PublishRefused \/ PublishReconcile \/ PublishRollback =>
          publish' = NoPublish
  BY DEF Crash, PushSettle, PublishRefused, PublishReconcile, PublishRollback
<1>11. Fail \/ PullRefused \/ PushRefused \/ SyncConflicts \/ SyncRefused \/ OverwriteRefused =>
          \E outcomes : Abandon(outcomes)
  BY Zenon DEF Fail, PullRefused, PushRefused, SyncConflicts, SyncRefused, OverwriteRefused
<1>12. QED
  BY <1>1, <1>2, <1>3, <1>4, <1>5, <1>6, <1>7, <1>8, <1>9, <1>10, <1>11
     DEF Next, Environment, Pull, Push, Sync, Overwrite, PublishChange

NothingConfirmed == publish = NoPublish

LEMMA NoneConfirmed == "publish" \notin Features => (Spec => []NothingConfirmed)
<1> SUFFICES ASSUME "publish" \notin Features
             PROVE  Spec => []NothingConfirmed
  OBVIOUS
<1>1. Init => NothingConfirmed
  BY DEF Init, NothingConfirmed
<1>2. NothingConfirmed /\ [Next]_vars => NothingConfirmed'
  <2> USE DEF NothingConfirmed
  <2> SUFFICES ASSUME publish = NoPublish, [Next]_vars, publish' # publish
               PROVE  publish' = NoPublish
    OBVIOUS
  <2>1. ~(PublishPreflight \/ PublishCommit \/ PublishPush)
    BY DEF PublishPreflight, PublishCommit, PublishPush, NoPublish
  <2>2. ~\E p \in Paths, v \in Contents : PublishRead(p, v)
    BY DEF PublishRead, NoPublish
  <2>3. ~\E outcomes : Abandon(outcomes)
    BY DEF Abandon, NoPublish
  <2>4. QED
    BY <2>1, <2>2, <2>3, PublicationMovers
<1>3. QED
  BY <1>1, <1>2, PTL DEF Spec

NothingOverwritten == op.kind # "overwrite"

LEMMA NoneOverwritten == "overwrite" \notin Features => (Spec => []NothingOverwritten)
<1> SUFFICES ASSUME "overwrite" \notin Features
             PROVE  Spec => []NothingOverwritten
  OBVIOUS
<1>1. Init => NothingOverwritten
  BY DEF Init, NoOp, NothingOverwritten
<1>2. Inv /\ NothingOverwritten /\ [Next]_vars => NothingOverwritten'
  <2> SUFFICES ASSUME Inv, op.kind # "overwrite", [Next]_vars
               PROVE  op'.kind # "overwrite"
    BY DEF NothingOverwritten
  <2>1. CASE UNCHANGED op
    BY <2>1
  <2>2. CASE op' = NoOp
    BY <2>2 DEF NoOp
  <2>3. op \in Operations /\ \A phase : Step(phase).kind = op.kind
    BY DEF Step, Inv, OpPart, Operations
  <2>4. (\E outcomes : Abandon(outcomes)) => op' = NoOp
    BY DEF Abandon
  <2>5. Author \/ Fetch \/ FetchFail => UNCHANGED op
    BY DEF Author, Edit, EditAndCommit, ReadForWrite, StoreWrite, CommitLocalChanges,
       RestoreRecovery, tab, Fetch, FetchStart, FetchMark, FetchResolve, FetchRecord, FetchFail
  <2>6. (\E p \in Paths, v \in Contents : Foreign(p, v)) => UNCHANGED op
    BY Zenon DEF Foreign, tab
  <2>7. Crash \/ PullUnchanged \/ PullReplace \/ SyncFinish => op' = NoOp
    BY DEF Crash, PullUnchanged, PullReplace, SyncFinish
  <2>8. Fail \/ PullRefused \/ PushRefused \/ SyncConflicts \/ SyncRefused =>
            \E outcomes : Abandon(outcomes)
    BY Zenon DEF Fail, PullRefused, PushRefused, SyncConflicts, SyncRefused
  <2>9. CASE PushReplyLost \/ Checking \/ PushPlan \/ PushLand \/ PushReconcile
    BY <2>3, <2>9 DEF PushReplyLost, Checking, OpMark, OpResolve, OpCapture, PushPlan, PushLand,
       PushReconcile, Operations
  <2>10. CASE SyncUnchanged \/ SyncSave \/ SyncMerge \/ SyncSavePending \/ SyncUncommit
              \/ SyncCommit \/ SyncPushStart \/ SyncReread \/ PushSettle
    <3>1. SyncUnchanged \/ SyncSave \/ SyncMerge \/ SyncCommit => \E phase : op' = Step(phase)
      BY DEF SyncUnchanged, SyncSave, SyncMerge, SyncCommit
    <3>2. SyncSavePending \/ SyncUncommit \/ SyncPushStart \/ SyncReread => op'.kind = op.kind
      BY <2>3 DEF SyncSavePending, SyncUncommit, SyncPushStart, SyncReread, Operations
    <3>3. PushSettle => op' = NoOp \/ op' = Step("published")
      BY DEF PushSettle
    <3>4. QED
      BY <2>2, <2>3, <2>10, <3>1, <3>2, <3>3
  <2>11. CASE Begin
    <3>1. CASE \E force \in BOOLEAN : PullStart(force)
      BY <3>1 DEF PullStart, NoOp
    <3>2. CASE \E choice \in Resolutions : SyncStart(choice)
      BY <3>2 DEF SyncStart, NoOp
    <3>3. CASE PushStart \/ OverwriteStart
      BY <3>3 DEF PushStart, OverwriteStart, NoOp
    <3>4. QED
      BY <2>11, <3>1, <3>2, <3>3 DEF Begin
  <2>12. ~Overwrite
    BY DEF Overwrite, OverwriteCount, OverwriteSave, OverwriteLand, OverwriteRefused,
       OverwriteSettle
  <2>13. CASE PublishChange
    <3>1. (\E p \in Paths, v \in Contents : PublishRead(p, v)) => UNCHANGED op
      BY Zenon DEF PublishRead
    <3>2. PublishPreflight \/ PublishCommit \/ PublishRefused \/ PublishReconcile
             \/ PublishRollback => UNCHANGED op
      BY DEF PublishPreflight, PublishCommit, PublishRefused, PublishReconcile, PublishRollback
    <3>3. PublishPush => op'.kind # "overwrite"
      BY DEF PublishPush, NoOp
    <3>4. QED
      BY <2>1, <2>13, <3>1, <3>2, <3>3 DEF PublishChange
  <2>14. QED
    BY <2>1, <2>2, <2>4, <2>5, <2>6, <2>7, <2>8, <2>9, <2>10, <2>11, <2>12, <2>13
       DEF Next, Environment, Pull, Push, Sync, vars
<1>3. QED
  BY <1>1, <1>2, AlwaysInv, PTL DEF Spec

-----------------------------------------------------------------------------
(* What a push may replace.  A push only looks at heads; that the head it  *)
(* expects holds nothing the working copy was not based on is an invariant *)
(* of the rows, of the snapshots, and of what the running operation read.  *)
(* It holds for an author who edits, commits and restores, and for pulls,  *)
(* pushes, full syncs and overwrites; not for an asset written from an old *)
(* row, a confirmed change that is reconciled, or a push of another device *)
(* just before a final head is read.                                       *)

\* The row's base is that content, unless the user has given it up
Based(row, content, given) == content \in {BaseOf(row)} \cup given

RowsBased == \A p \in Paths : Based(rows[p], branch[known][p], agreed[p])
SavedBased ==
    \A i \in DOMAIN recoveries, p \in Paths :
        Based(recoveries[i].rows[p], branch[recoveries[i].known][p], recoveries[i].agreed[p])

\* The rows an operation has read, as long as it works from them
CapturedBased ==
    op.phase \in {"captured", "counted", "saved", "planned", "ambiguous", "landed"} =>
        \A p \in Paths : /\ Based(op.files[p], branch[known][p], agreed[p])
                         /\ Based(rows[p], BaseOf(op.files[p]), agreed[p])

\* Which head of the operation has the tree of the known one
HeadExpected ==
    \/ /\ op.kind \in {"pull", "sync"}
       /\ op.phase \in {"started", "marked", "resolved", "captured", "saved"}
    \/ op.kind = "push" /\ op.phase = "listed"
HeadMerged ==
    \/ /\ op.kind = "sync"
       /\ op.phase \in {"merged", "unwinding", "dirty", "committed", "listed"}
    \/ op.phase = "planned"
HeadLanded == op.kind # "overwrite" /\ op.phase \in {"ambiguous", "landed"}
HeadsAgree ==
    /\ HeadExpected => branch[known] = branch[op.expected]
    /\ HeadMerged => branch[known] = branch[op.head]
    /\ HeadLanded => \A p \in Paths :
          branch[op.landed][p] = IF p \in Pushed THEN Outgoing(p) ELSE branch[known][p]
    /\ op.phase \in {"published", "reread"} => branch[known] = branch[op.landed]
    /\ EndWindow => op.landed = Tip

\* A pushed row was the committed one, and is not new: it cannot vanish
PushedFine ==
    op.kind # "overwrite" /\ op.phase \in {"planned", "ambiguous", "landed"} =>
        \A p \in Pushed : /\ MatchesCommit(op.files[p], EntryOf(p))
                          /\ rows[p] # NoRow /\ rows[p].status # "new"

\* A merge that has saved its snapshot still has valid decisions
Decided(path) ==
    /\ op.choice[path] = "local" => Conflict(path, op.files[path], Remote(path)) \in shown
    /\ op.choice[path] = "none" => Plan(op.files[path], Remote(path)) # "conflict"
SavedStands == op.kind = "sync" /\ op.phase = "saved" => \A p \in Paths : Decided(p)

\* An overwrite settles at the tree it made of the rows it captured.  A file
\* that had no row then has none with a base now.
OverwriteFine ==
    op.kind = "overwrite" =>
        /\ op.phase \in {"captured", "counted", "saved", "landed"}
        /\ \A p \in Paths : op.files[p] = NoRow => BaseOf(rows[p]) = Absent
        /\ op.phase = "landed" => \A p \in Paths : branch[op.landed][p] = View(op.files[p])

OpBased ==
    /\ op.kind = "none" => op.phase = "idle"
    /\ op.phase = "listed" => op.kind \in {"push", "sync"}
    /\ CapturedBased /\ HeadsAgree /\ PushedFine /\ SavedStands /\ OverwriteFine

BasePart == writes = {} /\ RowsBased /\ SavedBased /\ OpBased

LEMMA BaseImplies == BasePart => BaseAtKnownHead
<1> SUFFICES ASSUME BasePart, NEW p \in Paths
             PROVE  branch[known][p] \in {BaseOf(rows[p])} \cup agreed[p]
  BY Zenon DEF BaseAtKnownHead
<1>1. QED
  BY DEF BasePart, RowsBased, Based

LEMMA PlanDecides ==
    ASSUME Inv, PlanStands, NEW path \in Paths
    PROVE  Decided(path)
<1>1. op.choice[path] = "local" => Conflict(path, op.files[path], Remote(path)) \in shown
  BY DEF PlanStands, Stale
<1>2. op.choice[path] = "none" => Plan(op.files[path], Remote(path)) # "conflict"
  BY DEF PlanStands, NewConflicts
<1>3. QED
  BY <1>1, <1>2 DEF Decided

-----------------------------------------------------------------------------
(* Which steps can disturb BasePart                                        *)

\* Another row, or other content given up, hides nothing
RowKept(path) ==
    /\ agreed[path] \subseteq agreed'[path]
    /\ BaseOf(rows'[path]) = BaseOf(rows[path]) \/ BaseOf(rows[path]) \in agreed'[path]
    /\ BaseOf(rows'[path]) \in {BaseOf(rows[path]), Absent}
    /\ rows[path] # NoRow /\ rows[path].status # "new" =>
          rows'[path] # NoRow /\ rows'[path].status # "new"

LEMMA HeadsInside ==
    Inv => /\ Tip \in Nat /\ known \in 1..Tip
           /\ op.expected \in 1..Tip /\ op.head \in 1..Tip /\ op.landed \in 1..Tip
           /\ fetch.expected \in 1..Tip /\ fetch.head \in 1..Tip
BY HeadRange DEF Inv, HeadPart, OpPart, Operations, FetchPart, Fetches

LEMMA RowsBasedKept ==
    ASSUME Inv, RowsBased, [Next]_vars, \A p \in Paths : RowKept(p),
           branch'[known'] = branch[known]
    PROVE  RowsBased'
BY DEF RowsBased, Based, RowKept

LEMMA RowsSame ==
    ASSUME UNCHANGED <<rows, agreed>>
    PROVE  \A p \in Paths : RowKept(p)
BY DEF RowKept

LEMMA KnownSame ==
    ASSUME Inv, [Next]_vars, UNCHANGED known
    PROVE  branch'[known'] = branch[known]
BY HeadsInside, BranchGrows

LEMMA SavedBasedKept ==
    ASSUME Inv, SavedBased, [Next]_vars, UNCHANGED recoveries
    PROVE  SavedBased'
<1>1. \A i \in DOMAIN recoveries : recoveries[i] \in Snapshots
  BY DEF Inv, RecoveriesPart
<1>2. \A i \in DOMAIN recoveries : recoveries[i].known \in 1..Tip
  BY <1>1 DEF Snapshots
<1>3. \A i \in DOMAIN recoveries :
          branch'[recoveries[i].known] = branch[recoveries[i].known]
  BY <1>2, BranchGrows
<1>4. QED
  BY <1>3 DEF SavedBased

LEMMA SavedBasedAdded ==
    ASSUME Inv, SavedBased, [Next]_vars, UNCHANGED branch, NEW files,
           \A p \in Paths : Based(files[p], branch[known][p], agreed[p]),
           recoveries' = Retain(Snapshot(files))
    PROVE  SavedBased'
<1>1. \A i \in DOMAIN recoveries' :
          \/ recoveries'[i] = Snapshot(files)
          \/ \E j \in DOMAIN recoveries : recoveries'[i] = recoveries[j]
  BY Retained
<1>2. /\ Snapshot(files).rows = files /\ Snapshot(files).known = known
      /\ Snapshot(files).agreed = agreed
  BY DEF Snapshot
<1> SUFFICES ASSUME NEW i \in DOMAIN recoveries', NEW p \in Paths
             PROVE  Based(recoveries'[i].rows[p], branch[recoveries'[i].known][p],
                          recoveries'[i].agreed[p])
  BY DEF SavedBased
<1>3. CASE recoveries'[i] = Snapshot(files)
  BY <1>2, <1>3
<1>4. CASE \E j \in DOMAIN recoveries : recoveries'[i] = recoveries[j]
  BY <1>4 DEF SavedBased
<1>5. QED
  BY <1>1, <1>3, <1>4

LEMMA NothingRuns == ASSUME op' = NoOp PROVE OpBased'
BY DEF OpBased, NoOp, CapturedBased, HeadsAgree, HeadExpected, HeadMerged, HeadLanded,
   EndWindow, PushedFine, SavedStands, OverwriteFine

\* The operation does not move, the rows and the heads only as they may
LEMMA OpBasedKept ==
    ASSUME Inv, OpBased, [Next]_vars, \A p \in Paths : RowKept(p), UNCHANGED <<op, shown>>,
           branch'[known'] = branch[known],
           EndWindow => Tip' = Tip
    PROVE  OpBased'
<1>1. /\ branch'[op.expected] = branch[op.expected]
      /\ branch'[op.head] = branch[op.head]
      /\ branch'[op.landed] = branch[op.landed]
  BY HeadsInside, BranchGrows
<1>2. CapturedBased'
  BY DEF OpBased, CapturedBased, Based, RowKept
<1>3. Pushed' = Pushed /\ \A p \in Paths : Outgoing(p)' = Outgoing(p) /\ EntryOf(p)' = EntryOf(p)
  BY DEF Pushed, EntryOf, Outgoing
<1>4. HeadsAgree'
  BY <1>1, <1>3
     DEF OpBased, HeadsAgree, HeadExpected, HeadMerged, HeadLanded, EndWindow
<1>5. PushedFine'
  BY <1>3 DEF OpBased, PushedFine, RowKept, Pushed
<1>6. SavedStands'
  BY <1>1 DEF OpBased, SavedStands, Decided, Remote
<1>7. OverwriteFine'
  BY <1>1 DEF OpBased, OverwriteFine, RowKept
<1>8. QED
  BY <1>2, <1>4, <1>5, <1>6, <1>7 DEF OpBased

LEMMA BaseKept ==
    ASSUME Inv, BasePart, [Next]_vars, \A p \in Paths : RowKept(p),
           UNCHANGED <<op, shown, writes, recoveries>>,
           branch'[known'] = branch[known],
           EndWindow => Tip' = Tip
    PROVE  BasePart'
BY RowsBasedKept, SavedBasedKept, OpBasedKept DEF BasePart

\* The operation is over, or has a step of its own
LEMMA BaseMoves ==
    ASSUME Inv, BasePart, [Next]_vars, UNCHANGED <<rows, known, agreed, recoveries, writes>>,
           OpBased'
    PROVE  BasePart'
BY RowsBasedKept, RowsSame, KnownSame, SavedBasedKept DEF BasePart

-----------------------------------------------------------------------------
(* The steps                                                               *)

LEMMA MutatedBase ==
    ASSUME NEW row \in GoodRows, NEW value \in Contents, NEW commit \in BOOLEAN,
           Mutated(row, value, commit) # NoRow
    PROVE  BaseOf(Mutated(row, value, commit)) = BaseOf(row)
<1>1. CASE Unaffected(row, value)
  BY <1>1 DEF Mutated
<1>2. CASE ~Unaffected(row, value) /\ value = Absent
  BY <1>2, NoRowAssumption DEF Mutated, Deleted, BaseOf, Unaffected, Gone, GoodRows, Row
<1>3. CASE ~Unaffected(row, value) /\ value # Absent
  BY <1>3 DEF Mutated, BaseOf
<1>4. QED
  BY <1>1, <1>2, <1>3

LEMMA CommittedBase ==
    ASSUME NEW row \in GoodRows
    PROVE  /\ BaseOf(CommittedRow(row)) = BaseOf(row)
           /\ row # NoRow /\ row.status # "new" =>
                 CommittedRow(row) # NoRow /\ CommittedRow(row).status # "new"
<1>1. CASE ~Dirty(row)
  BY <1>1 DEF CommittedRow
<1>2. CASE Dirty(row)
  <2>1. row \in Row
    BY <1>2 DEF Dirty, GoodRows
  <2>2. /\ CommittedRow(row) \in Row /\ CommittedRow(row).base = row.base
        /\ CommittedRow(row).status \in {"deleted", "clean"}
    BY <1>2, <2>1 DEF CommittedRow, Row, Status
  <2>3. QED
    BY <2>1, <2>2, NoRowAssumption DEF BaseOf
<1>3. QED
  BY <1>1, <1>2

LEMMA MutatedKept ==
    ASSUME Inv, NEW path \in Paths, NEW value \in Contents, NEW commit \in BOOLEAN,
           rows' = [rows EXCEPT ![path] = Mutated(@, value, commit)], Forgets(path)
    PROVE  \A p \in Paths : RowKept(p)
<1>1. rows[path] \in GoodRows
  BY RowsType DEF GoodFiles
<1>2. rows'[path] = Mutated(rows[path], value, commit)
      /\ \A p \in Paths \ {path} : rows'[p] = rows[p]
  BY RowsType DEF Files
<1>3. /\ \A p \in Paths : agreed[p] \subseteq agreed'[p]
      /\ rows'[path] # NoRow \/ BaseOf(rows[path]) = Absent
           \/ BaseOf(rows[path]) \in agreed'[path]
  BY DEF Forgets, Inv, AgreedPart
<1>4. rows'[path] # NoRow => BaseOf(rows'[path]) = BaseOf(rows[path])
  BY <1>1, <1>2, MutatedBase
<1>5. rows[path] # NoRow /\ rows[path].status # "new" =>
          rows'[path] # NoRow /\ rows'[path].status # "new"
  <2>1. SUFFICES ASSUME rows[path] # NoRow, rows[path].status # "new"
                 PROVE  rows'[path] # NoRow /\ rows'[path].status # "new"
    OBVIOUS
  <2>2. CASE Unaffected(rows[path], value)
    BY <1>2, <2>1, <2>2 DEF Mutated
  <2>3. CASE ~Unaffected(rows[path], value) /\ value = Absent
    <3>1. rows[path] \in Row
      BY <1>1, <2>1 DEF GoodRows
    <3>2. rows'[path] = [rows[path] EXCEPT !.status = "deleted", !.committed = commit]
      BY <1>2, <2>1, <2>3 DEF Mutated, Deleted
    <3> DEFINE row == rows[path]
    <3>3. ASSUME row \in Row
          PROVE  /\ [row EXCEPT !.status = "deleted", !.committed = commit] \in Row
                 /\ [row EXCEPT !.status = "deleted", !.committed = commit].status = "deleted"
      <4> HIDE DEF row
      <4>1. QED
        BY <3>3 DEF Row, Status
    <3>4. QED
      BY <3>1, <3>2, <3>3, NoRowAssumption
  <2>4. CASE ~Unaffected(rows[path], value) /\ value # Absent
    <3>1. StatusAfterWrite(rows[path], value) # "new"
      BY <2>1 DEF StatusAfterWrite
    <3>2. Mutated(rows[path], value, commit) \in GoodRows
      BY <1>1, MutatedIsGood
    <3>3. rows'[path].status # "new"
      BY <1>2, <2>4, <3>1 DEF Mutated
    <3>4. rows'[path] \in Row
      <4>1. value \in Values /\ BaseOf(rows[path]) \in Contents
        BY <1>1, <2>4 DEF Contents, BaseOf, GoodRows, Row
      <4>2. StatusAfterWrite(rows[path], value) \in Status
        BY DEF StatusAfterWrite, Status
      <4> DEFINE committed == commit /\ StatusAfterWrite(rows[path], value) # "clean"
      <4>3. committed \in BOOLEAN
        OBVIOUS
      <4>4. rows'[path] = [cur |-> value, base |-> BaseOf(rows[path]),
                           status |-> IF commit THEN "clean"
                                      ELSE StatusAfterWrite(rows[path], value),
                           committed |-> committed]
        BY <1>2, <2>4 DEF Mutated
      <4> HIDE DEF committed
      <4>5. QED
        BY <4>1, <4>2, <4>3, <4>4 DEF Row, Status
    <3>5. QED
      BY <3>3, <3>4, NoRowAssumption
  <2>5. QED
    BY <2>2, <2>3, <2>4
<1>6. BaseOf(rows'[path]) = BaseOf(rows[path]) \/ BaseOf(rows[path]) \in agreed'[path]
  BY <1>3, <1>4 DEF BaseOf
<1>7. BaseOf(rows'[path]) \in {BaseOf(rows[path]), Absent}
  BY <1>4 DEF BaseOf
<1>8. QED
  BY <1>2, <1>3, <1>5, <1>6, <1>7 DEF RowKept

LEMMA CommittedKept ==
    ASSUME Inv, CommitDirty, UNCHANGED agreed
    PROVE  \A p \in Paths : RowKept(p)
<1> SUFFICES ASSUME NEW p \in Paths PROVE RowKept(p)
  OBVIOUS
<1>1. rows[p] \in GoodRows /\ rows'[p] = CommittedRow(rows[p])
  BY RowsType DEF GoodFiles, CommitDirty
<1>2. QED
  BY <1>1, CommittedBase DEF RowKept

LEMMA AuthorBase ==
    ASSUME Inv, BasePart, [Next]_vars, "asset" \notin Features, Author
    PROVE  BasePart'
<1>1. UNCHANGED <<op, shown, branch>> /\ Tip' = Tip
  BY DEF Author, Edit, EditAndCommit, ReadForWrite, StoreWrite, CommitLocalChanges,
     RestoreRecovery, tab, Tip
<1>2. CASE \E p \in Paths, v \in Contents : Edit(p, v) \/ EditAndCommit(p, v)
  <2>1. PICK p \in Paths, v \in Contents : Edit(p, v) \/ EditAndCommit(p, v)
    BY <1>2
  <2>2. UNCHANGED <<known, writes, recoveries>>
    BY <2>1 DEF Edit, EditAndCommit, tab
  <2>3. \A q \in Paths : RowKept(q)
    BY <2>1, MutatedKept DEF Edit, EditAndCommit, MutateAndCommit
  <2>4. QED
    BY <1>1, <2>2, <2>3, KnownSame, BaseKept
<1>3. CASE CommitLocalChanges
  <2>1. CommitDirty /\ UNCHANGED <<known, writes, recoveries, agreed>>
    BY <1>3 DEF CommitLocalChanges, tab
  <2>2. \A q \in Paths : RowKept(q)
    BY <2>1, CommittedKept
  <2>3. QED
    BY <1>1, <2>1, <2>2, KnownSame, BaseKept
<1>4. CASE RestoreRecovery
  <2>1. PICK i \in DOMAIN recoveries :
            /\ rows' = recoveries[i].rows
            /\ known' = recoveries[i].known
            /\ agreed' = recoveries[i].agreed
    BY <1>4 DEF RestoreRecovery
  <2>2. op.kind = "none" /\ UNCHANGED <<recoveries, writes>>
    BY <1>4 DEF RestoreRecovery, tab
  <2>3. RowsBased'
    BY <1>1, <2>1 DEF BasePart, SavedBased, RowsBased
  <2>4. op'.phase = "idle" /\ op'.kind = "none"
    BY <1>1, <2>2 DEF BasePart, OpBased
  <2>5. OpBased'
    BY <2>4 DEF OpBased, CapturedBased, HeadsAgree, HeadExpected, HeadMerged, HeadLanded,
       EndWindow, PushedFine, SavedStands, OverwriteFine
  <2>6. SavedBased'
    BY <2>2, SavedBasedKept DEF BasePart
  <2>7. QED
    BY <1>1, <2>2, <2>3, <2>5, <2>6 DEF BasePart
<1>5. ~StoreWrite
  BY DEF StoreWrite, BasePart
<1>6. ~\E way \in {"scoped", "atomic"}, p \in Paths, v \in Contents : ReadForWrite(way, p, v)
  BY DEF ReadForWrite
<1>7. QED
  BY <1>2, <1>3, <1>4, <1>5, <1>6 DEF Author

LEMMA AbandonBase ==
    ASSUME Inv, BasePart, [Next]_vars, NEW outcomes, Abandon(outcomes)
    PROVE  BasePart'
<1>1. op' = NoOp /\ UNCHANGED <<rows, known, agreed, recoveries, writes>>
  BY DEF Abandon
<1>2. QED
  BY <1>1, NothingRuns, BaseMoves

LEMMA EnvironmentBase ==
    ASSUME Inv, BasePart, [Next]_vars, "endRace" \notin Features,
           (\E p \in Paths, v \in Contents : Foreign(p, v)) \/ Crash \/ Fail \/ FetchFail
    PROVE  BasePart'
<1>1. CASE \E p \in Paths, v \in Contents : Foreign(p, v)
  <2>1. ~EndWindow /\ UNCHANGED <<rows, known, agreed, op, shown, writes, recoveries>>
    BY <1>1 DEF Foreign, disk, tab
  <2>2. QED
    BY <2>1, RowsSame, KnownSame, BaseKept
<1>2. CASE Crash
  <2>1. op' = NoOp /\ writes' = {} /\ UNCHANGED <<rows, known, agreed, recoveries>>
    BY <1>2 DEF Crash, disk
  <2>2. QED
    BY <2>1, NothingRuns, BaseMoves DEF BasePart
<1>3. CASE Fail
  BY <1>3, AbandonBase DEF Fail
<1>4. CASE FetchFail
  <2>1. UNCHANGED <<rows, known, agreed, op, shown, writes, recoveries, branch>>
    BY <1>4 DEF FetchFail
  <2>2. QED
    BY <2>1, RowsSame, KnownSame, BaseKept DEF Tip
<1>5. QED
  BY <1>1, <1>2, <1>3, <1>4

LEMMA FetchBase ==
    ASSUME Inv, BasePart, [Next]_vars, Fetch
    PROVE  BasePart'
<1>1. UNCHANGED <<rows, agreed, op, shown, writes, recoveries, branch>> /\ Tip' = Tip
  BY DEF Fetch, FetchStart, FetchMark, FetchResolve, FetchRecord, disk, Tip
<1>2. branch'[known'] = branch[known]
  <2>1. CASE UNCHANGED known
    BY <2>1, KnownSame
  <2>2. CASE FetchRecord /\ known' # known
    BY <1>1, <2>2 DEF FetchRecord, RecordHead, BaselineMoved
  <2>3. QED
    BY <2>1, <2>2 DEF Fetch, FetchStart, FetchMark, FetchResolve, disk
<1>3. QED
  BY <1>1, <1>2, RowsSame, BaseKept

LEMMA BeginBase ==
    ASSUME Inv, BasePart, [Next]_vars, Begin
    PROVE  BasePart'
<1>1. UNCHANGED <<rows, known, agreed, recoveries, writes, branch>>
  <2>1. CASE \E force \in BOOLEAN : PullStart(force)
    BY <2>1 DEF PullStart, disk
  <2>2. CASE \E choice \in Resolutions : SyncStart(choice)
    BY <2>2 DEF SyncStart, disk
  <2>3. CASE PushStart \/ OverwriteStart
    BY <2>3 DEF PushStart, OverwriteStart, disk
  <2>4. QED
    BY <2>1, <2>2, <2>3 DEF Begin
<1>2. /\ op'.expected = known
      /\ \/ op'.kind \in {"pull", "sync"} /\ op'.phase = "started"
         \/ op'.kind = "push" /\ op'.phase = "listed"
         \/ op'.kind = "overwrite" /\ op'.phase = "captured" /\ op'.files = rows
  <2>1. CASE \E force \in BOOLEAN : PullStart(force)
    BY <2>1 DEF PullStart, NoOp
  <2>2. CASE \E choice \in Resolutions : SyncStart(choice)
    BY <2>2 DEF SyncStart, NoOp
  <2>3. CASE PushStart
    BY <2>3 DEF PushStart, NoOp
  <2>4. CASE OverwriteStart
    BY <2>4 DEF OverwriteStart, NoOp
  <2>5. QED
    BY <2>1, <2>2, <2>3, <2>4 DEF Begin
<1>3. HeadsAgree' /\ PushedFine' /\ SavedStands'
  BY <1>1, <1>2 DEF HeadsAgree, HeadExpected, HeadMerged, HeadLanded, EndWindow,
     PushedFine, SavedStands
<1>4. CapturedBased'
  BY <1>1, <1>2 DEF BasePart, RowsBased, CapturedBased, Based
<1>5. OverwriteFine'
  BY <1>1, <1>2 DEF OverwriteFine, BaseOf
<1>6. QED
  BY <1>1, <1>2, <1>3, <1>4, <1>5, BaseMoves DEF OpBased

LEMMA CheckingBase ==
    ASSUME Inv, BasePart, [Next]_vars, Checking
    PROVE  BasePart'
<1>1. UNCHANGED <<rows, known, agreed, recoveries, writes, branch>> /\ Checks
  BY DEF Checking, OpMark, OpResolve, OpCapture, disk
<1>2. /\ op'.kind = op.kind /\ op'.expected = op.expected
      /\ op.phase \in {"started", "marked", "resolved"}
      /\ op'.phase \in {"marked", "resolved", "captured"}
      /\ op'.phase = "captured" => op'.files = rows
  BY DEF Checking, OpMark, OpResolve, OpCapture, Inv, OpPart, Operations
<1>3. HeadsAgree'
  BY <1>1, <1>2 DEF BasePart, OpBased, HeadsAgree, HeadExpected, HeadMerged, HeadLanded,
     EndWindow, Checks
<1>4. CapturedBased'
  BY <1>1, <1>2 DEF BasePart, RowsBased, CapturedBased, Based
<1>5. PushedFine' /\ SavedStands' /\ OverwriteFine'
  BY <1>1, <1>2 DEF PushedFine, SavedStands, OverwriteFine, Checks
<1>6. QED
  BY <1>1, <1>2, <1>3, <1>4, <1>5, BaseMoves DEF OpBased, Checks

LEMMA PulledBase ==
    ASSUME NEW captured \in GoodRows, NEW remote \in Contents
    PROVE  BaseOf(Pulled(captured, remote)) = remote
<1>1. CASE remote = Absent
  BY <1>1 DEF Pulled, BaseOf
<1>2. CASE remote # Absent
  <2>1. Pulled(captured, remote) \in Row /\ Pulled(captured, remote).base = remote
    BY <1>2 DEF Pulled, CleanRow, LocalChanged, GoodRows, Row, Status, Contents
  <2>2. QED
    BY <2>1, NoRowAssumption DEF BaseOf
<1>3. QED
  BY <1>1, <1>2

LEMMA PullBase ==
    ASSUME Inv, BasePart, [Next]_vars, Pull
    PROVE  BasePart'
<1>1. CASE PullUnchanged
  <2>1. op' = NoOp /\ UNCHANGED <<rows, agreed, recoveries, writes, branch>>
    BY <1>1 DEF PullUnchanged
  <2>2. branch'[known'] = branch[known]
    BY <1>1, <2>1 DEF PullUnchanged, SameTree, RecordHead, BasePart, OpBased, HeadsAgree,
       HeadExpected
  <2>3. QED
    BY <2>1, <2>2, RowsSame, RowsBasedKept, SavedBasedKept, NothingRuns DEF BasePart
<1>2. CASE PullReplace
  <2>1. op' = NoOp /\ UNCHANGED <<writes, branch>> /\ known' = op.head
    BY <1>2 DEF PullReplace, RecordHead
  <2>2. \A p \in Paths : Based(op.files[p], branch[known][p], agreed[p])
    BY <1>2 DEF PullReplace, BasePart, OpBased, CapturedBased
  <2>3. SavedBased'
    BY <1>2, <2>1, <2>2, SavedBasedAdded DEF PullReplace, BasePart
  <2>4. ASSUME NEW p \in Paths
        PROVE  Based(rows'[p], branch'[known'][p], agreed'[p])
    <3>1. rows'[p] = Pulled(op.files[p], branch[op.head][p])
      BY <1>2 DEF PullReplace
    <3>2. branch[op.head][p] \in Contents /\ op.files[p] \in GoodRows
      BY HeadsInside, TreeType DEF Inv, OpPart, GoodFiles
    <3>3. QED
      BY <1>2, <2>1, <3>1, <3>2, PulledBase DEF Based
  <2>5. RowsBased'
    BY <2>4 DEF RowsBased
  <2>6. QED
    BY <2>1, <2>3, <2>5, NothingRuns DEF BasePart
<1>3. CASE PullRefused
  BY <1>3, AbandonBase DEF PullRefused
<1>4. QED
  BY <1>1, <1>2, <1>3 DEF Pull

LEMMA PushPlanBase ==
    ASSUME Inv, BasePart, [Next]_vars, PushPlan
    PROVE  BasePart'
<1>1. UNCHANGED <<rows, known, agreed, recoveries, writes, branch>> /\ Tip' = Tip
  BY DEF PushPlan, disk, Tip
<1>2. /\ op'.kind = op.kind /\ op.kind \in {"push", "sync"} /\ op.phase = "listed"
      /\ op'.phase = IF \E p \in Paths : Sent(p) THEN "planned" ELSE "landed"
      /\ op'.head = Tip /\ op'.landed = Tip /\ op'.files = rows /\ op'.pending = op.pending
  BY DEF PushPlan, BasePart, OpBased, Inv, OpPart, Operations
<1>3. branch[known] = branch[Tip]
  BY <1>2 DEF PushPlan, MayPush, Mismatch, BasePart, OpBased, HeadsAgree, HeadExpected, HeadMerged
<1>4. Pushed' = Pushed /\ \A p \in Paths : EntryOf(p)' = EntryOf(p)
  BY <1>2 DEF Pushed, EntryOf
<1>5. \A p \in Pushed : MatchesCommit(rows[p], EntryOf(p))
  BY DEF PushPlan, MayPush
<1>6. PushedFine'
  BY <1>1, <1>2, <1>4, <1>5 DEF PushedFine, MatchesCommit, Pushed
<1>7. CapturedBased'
  BY <1>1, <1>2 DEF BasePart, RowsBased, CapturedBased, Based
<1>8. ASSUME HeadLanded', NEW p \in Paths
      PROVE  branch[Tip][p] = IF p \in Pushed THEN Outgoing(p)' ELSE branch[known][p]
  <2>1. ~Sent(p)
    BY <1>2, <1>8 DEF HeadLanded
  <2>2. CASE p \in Pushed
    <3>1. EntryOf(p).status = "deleted" /\ branch[Tip][p] = Absent
      BY <2>1, <2>2 DEF Sent
    <3>2. QED
      BY <1>4, <2>2, <3>1 DEF Outgoing
  <2>3. CASE p \notin Pushed
    BY <1>3, <2>3
  <2>4. QED
    BY <2>2, <2>3
<1>9. HeadsAgree'
  BY <1>1, <1>2, <1>3, <1>4, <1>8
     DEF HeadsAgree, HeadExpected, HeadMerged, HeadLanded, EndWindow
<1>10. SavedStands' /\ OverwriteFine'
  BY <1>2 DEF SavedStands, OverwriteFine
<1>11. OpBased'
  BY <1>2, <1>6, <1>7, <1>9, <1>10 DEF OpBased
<1>12. QED
  BY <1>1, <1>2, <1>11, BaseMoves

LEMMA PushLandBase ==
    ASSUME Inv, BasePart, [Next]_vars, PushLand \/ PushReplyLost
    PROVE  BasePart'
<1>1. UNCHANGED <<rows, known, agreed, recoveries, writes>>
  BY DEF PushLand, PushReplyLost, disk
<1>2. branch' = Append(branch, PushedTree) /\ Tip = op.head
  BY DEF PushLand, PushReplyLost, Publish
<1>3. /\ op'.kind = op.kind /\ op.kind \in {"push", "sync"} /\ op.phase = "planned"
      /\ op'.phase \in {"landed", "ambiguous"} /\ op'.landed = Tip + 1
      /\ op'.head = op.head /\ op'.files = op.files /\ op'.pending = op.pending
  BY DEF PushLand, PushReplyLost, Inv, OpPart, Operations
<1>4. PushedTree \in Trees
  BY <1>3, PushedTreeType
<1>5. Tip' = Tip + 1 /\ branch'[Tip + 1] = PushedTree
  BY <1>2, <1>4, HeadsInside DEF Inv, HeadPart, Tip
<1>6. branch'[known'] = branch[known] /\ branch[known] = branch[op.head]
  BY <1>1, <1>3, KnownSame DEF BasePart, OpBased, HeadsAgree, HeadMerged
<1>7. Pushed' = Pushed /\ \A p \in Paths : EntryOf(p)' = EntryOf(p) /\ Outgoing(p)' = Outgoing(p)
  BY <1>3 DEF Pushed, EntryOf, Outgoing
<1>8. HeadLanded' => \A p \in Paths :
         branch'[op'.landed][p] = IF p \in Pushed THEN Outgoing(p) ELSE branch[known][p]
  BY <1>3, <1>5, <1>6 DEF PushedTree
<1>9. HeadsAgree'
  BY <1>3, <1>5, <1>6, <1>7, <1>8
     DEF HeadsAgree, HeadExpected, HeadMerged, HeadLanded, EndWindow
<1>10. CapturedBased' /\ SavedStands' /\ OverwriteFine'
  BY <1>1, <1>3, <1>6
     DEF BasePart, OpBased, CapturedBased, Based, SavedStands, OverwriteFine
<1>11. PushedFine'
  BY <1>1, <1>3, <1>7 DEF BasePart, OpBased, PushedFine, Pushed
<1>12. OpBased'
  BY <1>3, <1>9, <1>10, <1>11 DEF OpBased
<1>13. QED
  BY <1>1, <1>3, <1>12, BaseMoves

LEMMA PushReconcileBase ==
    ASSUME Inv, BasePart, [Next]_vars, PushReconcile
    PROVE  BasePart'
<1>1. UNCHANGED <<rows, known, agreed, recoveries, writes, branch>> /\ Tip' = Tip
  BY DEF PushReconcile, disk, Tip
<1>2. /\ op'.kind = op.kind /\ op.phase = "ambiguous" /\ op'.phase = "landed"
      /\ op.kind # "overwrite"
      /\ op'.landed = Tip /\ op'.files = op.files /\ op'.pending = op.pending
  BY DEF PushReconcile, Inv, OpPart, Operations, BasePart, OpBased, OverwriteFine
<1>3. op.landed = Tip
  BY <1>2 DEF BasePart, OpBased, HeadsAgree, EndWindow
<1>4. Pushed' = Pushed /\ \A p \in Paths : EntryOf(p)' = EntryOf(p) /\ Outgoing(p)' = Outgoing(p)
  BY <1>2 DEF Pushed, EntryOf, Outgoing
<1>5. HeadsAgree'
  BY <1>1, <1>2, <1>3, <1>4 DEF BasePart, OpBased, HeadsAgree, HeadExpected, HeadMerged,
     HeadLanded, EndWindow
<1>6. CapturedBased' /\ SavedStands' /\ OverwriteFine'
  BY <1>1, <1>2 DEF BasePart, OpBased, CapturedBased, Based, SavedStands, OverwriteFine
<1>7. PushedFine'
  BY <1>1, <1>2, <1>4 DEF BasePart, OpBased, PushedFine, Pushed
<1>8. OpBased'
  BY <1>2, <1>5, <1>6, <1>7 DEF BasePart, OpBased
<1>9. QED
  BY <1>1, <1>2, <1>8, BaseMoves DEF BasePart

LEMMA SettledBase ==
    ASSUME NEW row \in Row, NEW captured \in Row, NEW entry \in Entry,
           MatchesCommit(captured, entry), NEW pushed,
           pushed = IF entry.status = "deleted" THEN Absent ELSE captured.cur
    PROVE  BaseOf(Settled(row, entry, pushed)) = pushed
<1>1. row # NoRow /\ entry # NoEntry
  BY NoRowAssumption, NoEntryAssumption
<1>2. entry.hash = captured.cur
  BY DEF MatchesCommit
<1>3. CASE pushed = Absent /\ MatchesCommit(row, entry)
  BY <1>1, <1>3 DEF Settled, BaseOf
<1>4. CASE pushed = Absent /\ ~MatchesCommit(row, entry)
  <2> DEFINE status == IF row.status = "deleted" THEN "deleted" ELSE "new"
             result == [row EXCEPT !.base = Absent, !.committed = FALSE, !.status = status]
  <2>1. Settled(row, entry, pushed) = result
    BY <1>1, <1>4 DEF Settled
  <2>2. result.base = Absent
    BY DEF Row
  <2> HIDE DEF result
  <2>3. QED
    BY <1>4, <2>1, <2>2 DEF BaseOf
<1>5. CASE pushed # Absent /\ MatchesCommit(row, entry)
  <2> DEFINE result == [row EXCEPT !.base = row.cur, !.status = "clean", !.committed = FALSE]
  <2>1. Settled(row, entry, pushed) = result
    BY <1>1, <1>5 DEF Settled
  <2>2. result.base = row.cur /\ result \in Row
    <3>1. row.cur \in Contents
      BY DEF Row, Contents
    <3>2. QED
      BY <3>1 DEF Row, Status
  <2> HIDE DEF result
  <2>3. row.cur = pushed
    BY <1>2, <1>5 DEF MatchesCommit
  <2>4. QED
    BY <2>1, <2>2, <2>3, NoRowAssumption DEF BaseOf
<1>6. CASE pushed # Absent /\ ~MatchesCommit(row, entry)
  <2> DEFINE status == IF row.status = "deleted" THEN "deleted" ELSE "modified"
             result == [row EXCEPT !.base = entry.hash, !.committed = FALSE, !.status = status]
  <2>1. Settled(row, entry, pushed) = result
    BY <1>1, <1>6 DEF Settled
  <2>2. result.base = entry.hash /\ result \in Row
    <3>1. entry.hash \in Contents
      BY <1>2 DEF Row, Contents
    <3>2. QED
      BY <3>1 DEF Row, Status
  <2> HIDE DEF result
  <2>3. QED
    BY <1>2, <1>6, <2>1, <2>2, NoRowAssumption DEF BaseOf
<1>7. QED
  BY <1>3, <1>4, <1>5, <1>6

LEMMA PushSettleBase ==
    ASSUME Inv, BasePart, [Next]_vars, PushSettle
    PROVE  BasePart'
<1>1. /\ op.phase = "landed" /\ op.kind \in {"push", "sync"} /\ known' = op.landed
      /\ UNCHANGED <<recoveries, writes, branch>> /\ Tip' = Tip
  BY DEF PushSettle, RecordHead, Tip
<1>2. op' = IF op.kind = "sync" THEN Step("published") ELSE NoOp
  BY DEF PushSettle
<1>3. \A p \in Paths :
          branch[op.landed][p] = IF p \in Pushed THEN Outgoing(p) ELSE branch[known][p]
  BY <1>1 DEF BasePart, OpBased, HeadsAgree, HeadLanded
<1>4. ASSUME NEW p \in Pushed
      PROVE  BaseOf(rows'[p]) = Outgoing(p)
  <2>1. /\ p \in Paths /\ EntryOf(p) # NoEntry
        /\ rows'[p] = Settled(rows[p], EntryOf(p), Outgoing(p))
    BY DEF PushSettle, Pushed
  <2>2. MatchesCommit(op.files[p], EntryOf(p)) /\ rows[p] # NoRow
    BY <1>1 DEF BasePart, OpBased, PushedFine
  <2>3. rows[p] \in Row /\ op.files[p] \in Row
    BY <2>1, <2>2, RowsType DEF GoodFiles, GoodRows, Inv, OpPart, MatchesCommit
  <2>4. EntryOf(p) \in Entry
    BY <2>1, PendingType
  <2>5. Outgoing(p) = IF EntryOf(p).status = "deleted" THEN Absent ELSE op.files[p].cur
    BY DEF Outgoing
  <2>6. QED
    BY <2>1, <2>2, <2>3, <2>4, <2>5, SettledBase
<1>5. ASSUME NEW p \in Paths \ Pushed
      PROVE  Based(rows'[p], branch[known][p], agreed'[p])
  <2>1. rows'[p] = rows[p] /\ agreed'[p] = agreed[p]
    BY DEF PushSettle
  <2>2. QED
    BY <2>1 DEF BasePart, RowsBased, Based
<1>6. RowsBased'
  BY <1>1, <1>3, <1>4, <1>5 DEF RowsBased, Based
<1>7. SavedBased'
  BY <1>1, SavedBasedKept DEF BasePart
<1>8. CASE op.kind = "sync"
  <2>1. /\ op'.kind = "sync" /\ op'.phase = "published" /\ op'.landed = op.landed
    BY <1>2, <1>8 DEF Step, Inv, OpPart, Operations
  <2>2. op.landed = Tip
    BY <1>1, <1>8 DEF BasePart, OpBased, HeadsAgree, EndWindow
  <2>3. OpBased'
    BY <1>1, <2>1, <2>2 DEF OpBased, CapturedBased, HeadsAgree, HeadExpected, HeadMerged,
       HeadLanded, EndWindow, PushedFine, SavedStands, OverwriteFine
  <2>4. QED
    BY <1>1, <1>6, <1>7, <2>1, <2>3 DEF BasePart
<1>9. CASE op.kind # "sync"
  BY <1>1, <1>2, <1>6, <1>7, <1>9, NothingRuns DEF BasePart
<1>10. QED
  BY <1>8, <1>9

\* The middle of a full sync: the known head is the one it has merged
LEMMA SyncMiddle ==
    ASSUME op'.kind = "sync",
           op'.phase \in {"merged", "unwinding", "dirty", "committed", "listed"},
           branch'[known'] = branch'[op'.head]
    PROVE  OpBased'
BY DEF OpBased, CapturedBased, HeadsAgree, HeadExpected, HeadMerged, HeadLanded, EndWindow,
   PushedFine, SavedStands, OverwriteFine

LEMMA MergedBase ==
    ASSUME Inv, OpBased, MergePlanned, NEW p \in Paths,
           rows'[p] = Merged(Decision(p), rows[p], Remote(p)),
           agreed'[p] =
              CASE op.choice[p] = "local" -> {c.remote : c \in {d \in shown : d.path = p}}
                [] op.choice[p] = "none" /\ Decision(p) = "keep" -> agreed[p]
                [] OTHER -> {}
    PROVE  Based(rows'[p], Remote(p), agreed'[p])
<1>1. /\ op.choice[p] \in {"none", "local", "remote"}
      /\ Remote(p) \in Contents
  BY HeadsInside, TreeType DEF Inv, OpPart, Operations, Choices, Remote
<1>2. Decided(p)
  BY PlanDecides DEF MergePlanned, OpBased, SavedStands
<1>3. Based(rows[p], BaseOf(op.files[p]), agreed[p])
  BY DEF MergePlanned, OpBased, CapturedBased
<1>4. CASE Decision(p) = "delete" /\ Remote(p) = Absent
  BY <1>4 DEF Merged, BaseOf, Based
<1>5. CASE Decision(p) = "write" /\ Remote(p) # Absent
  <2>1. CleanRow(Remote(p)) \in Row /\ CleanRow(Remote(p)).base = Remote(p)
    BY <1>1, <1>5 DEF CleanRow, Row, Contents, Status
  <2>2. QED
    BY <1>5, <2>1, NoRowAssumption DEF Merged, BaseOf, Based
<1>6. CASE op.choice[p] = "local"
  <2> DEFINE conflict == Conflict(p, op.files[p], Remote(p))
  <2>1. conflict \in shown
    BY <1>2, <1>6 DEF Decided
  <2>2. conflict.path = p /\ conflict.remote = Remote(p)
    BY DEF Conflict
  <2> HIDE DEF conflict
  <2>3. agreed'[p] = {c.remote : c \in {d \in shown : d.path = p}}
    BY <1>6
  <2>4. QED
    BY <2>1, <2>2, <2>3 DEF Based
<1>7. CASE op.choice[p] = "remote"
  BY <1>4, <1>5, <1>7 DEF Decision, Resolved
<1>8. CASE op.choice[p] = "none"
  <2>1. Decision(p) = Plan(op.files[p], Remote(p)) /\ Decision(p) # "conflict"
    BY <1>2, <1>8 DEF Decision, Resolved, Decided
  <2>2. CASE Decision(p) = "keep"
    <3>1. Remote(p) = BaseOf(op.files[p])
      BY <2>1, <2>2 DEF Plan
    <3>2. rows'[p] = rows[p] /\ agreed'[p] = agreed[p]
      BY <1>8, <2>2 DEF Merged
    <3>3. QED
      BY <1>3, <3>1, <3>2
  <2>3. CASE Decision(p) # "keep"
    <3>1. \/ Decision(p) = "delete" /\ Remote(p) = Absent
          \/ Decision(p) = "write" /\ Remote(p) # Absent
      BY <2>1, <2>3 DEF Plan
    <3>2. QED
      BY <1>4, <1>5, <3>1
  <2>4. QED
    BY <2>2, <2>3
<1>9. QED
  BY <1>1, <1>6, <1>7, <1>8

LEMMA SyncMergeBase ==
    ASSUME Inv, BasePart, [Next]_vars, SyncMerge
    PROVE  BasePart'
<1>1. UNCHANGED <<recoveries, writes, branch>> /\ known' = op.head /\ MergePlanned
  BY DEF SyncMerge, RecordHead
<1>2. op'.kind = "sync" /\ op'.phase = "merged" /\ op'.head = op.head
  BY DEF SyncMerge, MergePlanned, Step, Inv, OpPart, Operations
<1>3. ASSUME NEW p \in Paths
      PROVE  Based(rows'[p], Remote(p), agreed'[p])
  <2>1. /\ rows'[p] = Merged(Decision(p), rows[p], Remote(p))
        /\ agreed'[p] =
              CASE op.choice[p] = "local" -> {c.remote : c \in {d \in shown : d.path = p}}
                [] op.choice[p] = "none" /\ Decision(p) = "keep" -> agreed[p]
                [] OTHER -> {}
    BY DEF SyncMerge
  <2>2. QED
    BY <1>1, <2>1, MergedBase DEF BasePart
<1>4. RowsBased'
  BY <1>1, <1>3 DEF RowsBased, Remote
<1>5. SavedBased'
  BY <1>1, SavedBasedKept DEF BasePart
<1>6. OpBased'
  BY <1>1, <1>2, SyncMiddle
<1>7. QED
  BY <1>1, <1>2, <1>4, <1>5, <1>6 DEF BasePart

LEMMA UncommittedBase ==
    ASSUME NEW row \in Row \cup {NoRow}, NEW entry \in Entry \cup {NoEntry}
    PROVE  BaseOf(Uncommitted(row, entry)) = BaseOf(row)
<1>1. CASE entry # NoEntry /\ MatchesCommit(row, entry)
  <2> DEFINE result == [row EXCEPT !.status = entry.status, !.committed = FALSE]
  <2>1. row \in Row /\ entry \in Entry
    BY <1>1 DEF MatchesCommit
  <2>2. result \in Row /\ result.base = row.base
    BY <2>1 DEF Row, Entry
  <2>3. Uncommitted(row, entry) = result
    BY <1>1 DEF Uncommitted
  <2> HIDE DEF result
  <2>4. QED
    BY <2>1, <2>2, <2>3, NoRowAssumption DEF BaseOf
<1>2. CASE ~(entry # NoEntry /\ MatchesCommit(row, entry))
  BY <1>2 DEF Uncommitted
<1>3. QED
  BY <1>1, <1>2

LEMMA SyncPendingBase ==
    ASSUME Inv, BasePart, [Next]_vars, SyncSavePending \/ SyncUncommit \/ SyncCommit \/ SyncPushStart
    PROVE  BasePart'
<1>1. UNCHANGED <<known, agreed, writes, branch>>
  BY DEF SyncSavePending, SyncUncommit, SyncCommit, SyncPushStart, disk
<1>2. /\ op.kind = "sync" /\ op.phase \in {"merged", "unwinding", "dirty", "committed"}
      /\ op'.kind = "sync" /\ op'.phase \in {"unwinding", "dirty", "committed", "listed"}
      /\ op'.head = op.head
  <2>1. op \in Operations
    BY DEF Inv, OpPart
  <2>2. CASE SyncSavePending
    BY <2>1, <2>2 DEF SyncSavePending, Operations
  <2>3. CASE SyncUncommit
    BY <2>1, <2>3 DEF SyncUncommit, Operations
  <2>4. CASE SyncCommit
    BY <2>1, <2>4 DEF SyncCommit, Step, Operations
  <2>5. CASE SyncPushStart
    BY <2>1, <2>5 DEF SyncPushStart, Operations
  <2>6. QED
    BY <2>2, <2>3, <2>4, <2>5
<1>3. OpBased'
  <2>1. branch[known] = branch[op.head]
    BY <1>2 DEF BasePart, OpBased, HeadsAgree, HeadMerged
  <2>2. QED
    BY <1>1, <1>2, <2>1, SyncMiddle
<1>4. RowsBased'
  <2>1. CASE SyncSavePending \/ SyncPushStart
    <3>1. UNCHANGED rows
      BY <2>1 DEF SyncSavePending, SyncPushStart, disk
    <3>2. QED
      BY <1>1, <3>1, RowsSame, RowsBasedKept DEF BasePart
  <2>2. CASE SyncUncommit
    <3>1. ASSUME NEW p \in Paths
          PROVE  BaseOf(rows'[p]) = BaseOf(rows[p])
      <4>1. rows[p] \in Row \cup {NoRow} /\ EntryOf(p) \in Entry \cup {NoEntry}
        BY RowsType, PendingType DEF Files
      <4>2. rows'[p] = Uncommitted(rows[p], EntryOf(p))
        BY <2>2 DEF SyncUncommit
      <4>3. QED
        BY <4>1, <4>2, UncommittedBase
    <3>2. QED
      BY <1>1, <3>1 DEF BasePart, RowsBased, Based
  <2>3. CASE SyncCommit
    <3>1. \A p \in Paths : RowKept(p)
      BY <1>1, <2>3, CommittedKept, RowsSame DEF SyncCommit
    <3>2. QED
      BY <1>1, <3>1, RowsBasedKept DEF BasePart
  <2>4. QED
    BY <2>1, <2>2, <2>3
<1>5. SavedBased'
  <2>1. CASE UNCHANGED recoveries
    BY <2>1, SavedBasedKept DEF BasePart
  <2>2. CASE recoveries' = Retain(Snapshot(rows))
    BY <1>1, <2>2, SavedBasedAdded DEF BasePart, RowsBased
  <2>3. QED
    BY <2>1, <2>2 DEF SyncSavePending, SyncUncommit, SyncCommit, SyncPushStart, disk
<1>6. QED
  BY <1>1, <1>2, <1>3, <1>4, <1>5 DEF BasePart

LEMMA SyncBase ==
    ASSUME Inv, BasePart, [Next]_vars, Sync
    PROVE  BasePart'
<1>1. CASE SyncUnchanged
  <2>1. UNCHANGED <<rows, agreed, recoveries, writes, branch>> /\ known' = op.head
    BY <1>1 DEF SyncUnchanged, RecordHead
  <2>2. op'.kind = "sync" /\ op'.phase = "merged" /\ op'.head = op.head
    BY <1>1 DEF SyncUnchanged, Step, Inv, OpPart, Operations
  <2>3. branch[op.head] = branch[known]
    BY <1>1 DEF SyncUnchanged, SameTree, BasePart, OpBased, HeadsAgree, HeadExpected
  <2>4. RowsBased'
    BY <2>1, <2>3, RowsSame, RowsBasedKept DEF BasePart
  <2>5. OpBased'
    BY <2>1, <2>2, SyncMiddle
  <2>6. QED
    BY <2>1, <2>2, <2>4, <2>5, SavedBasedKept DEF BasePart
<1>2. CASE SyncConflicts \/ SyncRefused
  BY <1>2, AbandonBase DEF SyncConflicts, SyncRefused
<1>3. CASE SyncSave
  <2>1. /\ UNCHANGED <<rows, known, agreed, writes, branch, shown>>
        /\ recoveries' = Retain(Snapshot(rows))
    BY <1>3 DEF SyncSave
  <2>2. /\ op.kind = "sync" /\ op.phase = "captured"
        /\ op'.kind = "sync" /\ op'.phase = "saved" /\ op'.head = op.head
        /\ op'.expected = op.expected /\ op'.files = op.files /\ op'.choice = op.choice
    BY <1>3 DEF SyncSave, Step, Inv, OpPart, Operations
  <2>3. \A p \in Paths : Decided(p)
    BY <1>3, PlanDecides DEF SyncSave
  <2>4. SavedStands'
    BY <2>1, <2>2, <2>3 DEF SavedStands, Decided, Remote
  <2>5. HeadsAgree' /\ CapturedBased' /\ PushedFine' /\ OverwriteFine'
    BY <2>1, <2>2 DEF BasePart, OpBased, HeadsAgree, HeadExpected, HeadMerged, HeadLanded,
       EndWindow, CapturedBased, Based, PushedFine, OverwriteFine
  <2>6. SavedBased'
    BY <2>1, SavedBasedAdded DEF BasePart, RowsBased
  <2>7. OpBased' /\ RowsBased'
    BY <2>1, <2>2, <2>4, <2>5, RowsSame, RowsBasedKept DEF BasePart, OpBased
  <2>8. QED
    BY <2>1, <2>2, <2>6, <2>7 DEF BasePart
<1>4. CASE SyncMerge
  BY <1>4, SyncMergeBase
<1>5. CASE SyncSavePending \/ SyncUncommit \/ SyncCommit \/ SyncPushStart
  BY <1>5, SyncPendingBase
<1>6. CASE SyncReread
  <2>1. UNCHANGED <<rows, known, agreed, recoveries, writes, branch>>
    BY <1>6 DEF SyncReread, disk
  <2>2. /\ op.kind = "sync" /\ op.phase = "published"
        /\ op'.kind = "sync" /\ op'.phase = "reread" /\ op'.landed = Tip
    BY <1>6 DEF SyncReread, Inv, OpPart, Operations
  <2>3. op.landed = Tip /\ branch[known] = branch[op.landed]
    BY <2>2 DEF BasePart, OpBased, HeadsAgree, EndWindow
  <2>4. OpBased'
    BY <2>1, <2>2, <2>3 DEF OpBased, HeadsAgree, HeadExpected, HeadMerged, HeadLanded,
       EndWindow, CapturedBased, PushedFine, SavedStands, OverwriteFine
  <2>5. QED
    BY <2>1, <2>2, <2>4, BaseMoves
<1>7. CASE SyncFinish
  <2>1. op' = NoOp /\ UNCHANGED <<rows, agreed, recoveries, writes, branch>>
    BY <1>7 DEF SyncFinish
  <2>2. branch'[known'] = branch[known]
    BY <1>7, <2>1 DEF SyncFinish, RecordHead, BasePart, OpBased, HeadsAgree
  <2>3. QED
    BY <2>1, <2>2, RowsSame, RowsBasedKept, SavedBasedKept, NothingRuns DEF BasePart
<1>8. QED
  BY <1>1, <1>2, <1>3, <1>4, <1>5, <1>6, <1>7 DEF Sync

LEMMA OverwriteSettledIs ==
    ASSUME NEW expected \in GoodRows, NEW row \in GoodRows,
           expected = NoRow => BaseOf(row) = Absent
    PROVE  BaseOf(OverwriteSettled(expected, row)) = View(expected)
<1>1. CASE expected = NoRow
  BY <1>1 DEF OverwriteSettled, View, Gone
<1>2. CASE expected # NoRow /\ expected.status = "deleted"
  <2>1. CASE row = NoRow \/ Version(row) = Version(expected)
    BY <1>2, <2>1 DEF OverwriteSettled, BaseOf, View, Gone
  <2>2. CASE ~(row = NoRow \/ Version(row) = Version(expected))
    <3> DEFINE status == IF row.committed \/ row.status = "deleted" THEN row.status ELSE "new"
               result == [row EXCEPT !.base = Absent, !.status = status]
    <3>1. OverwriteSettled(expected, row) = result
      BY <1>2, <2>2 DEF OverwriteSettled
    <3>2. result.base = Absent
      BY <2>2 DEF GoodRows, Row
    <3> HIDE DEF result
    <3>3. QED
      BY <1>2, <3>1, <3>2 DEF BaseOf, View, Gone
  <2>3. QED
    BY <2>1, <2>2
<1>3. CASE expected # NoRow /\ expected.status # "deleted" /\ row = NoRow
  <2> DEFINE result == [expected EXCEPT !.base = expected.cur, !.committed = FALSE,
                                        !.status = "deleted"]
  <2>1. OverwriteSettled(expected, row) = result
    BY <1>3 DEF OverwriteSettled
  <2>2. result \in Row /\ result.base = expected.cur
    <3>1. expected \in Row /\ expected.cur \in Contents
      BY <1>3 DEF GoodRows, Row, Contents
    <3>2. QED
      BY <3>1 DEF Row, Status
  <2> HIDE DEF result
  <2>3. QED
    BY <1>3, <2>1, <2>2, NoRowAssumption DEF BaseOf, View, Gone
<1>4. CASE expected # NoRow /\ expected.status # "deleted" /\ row # NoRow
  <2> DEFINE committed == row.committed /\ Version(row) # Version(expected)
             status == IF row.committed \/ row.cur = expected.cur THEN "clean" ELSE "modified"
             result == [row EXCEPT !.base = expected.cur, !.committed = committed,
                                   !.status = status]
  <2>1. OverwriteSettled(expected, row) = result
    BY <1>4 DEF OverwriteSettled
  <2>2. result \in Row /\ result.base = expected.cur
    <3>1. row \in Row /\ expected.cur \in Contents
      BY <1>4 DEF GoodRows, Row, Contents
    <3>2. committed \in BOOLEAN /\ status \in Status
      BY <3>1 DEF Row, Status
    <3> HIDE DEF committed, status
    <3>3. QED
      BY <3>1, <3>2 DEF Row
  <2> HIDE DEF result
  <2>3. QED
    BY <1>4, <2>1, <2>2, NoRowAssumption DEF BaseOf, View, Gone
<1>5. QED
  BY <1>1, <1>2, <1>3, <1>4

LEMMA OverwriteLandBase ==
    ASSUME Inv, BasePart, [Next]_vars, OverwriteLand
    PROVE  BasePart'
<1>1. UNCHANGED <<rows, known, agreed, recoveries, writes>>
  BY DEF OverwriteLand, disk
<1>2. CASE op' = NoOp
  BY <1>1, <1>2, NothingRuns, BaseMoves
<1>3. CASE op' = [op EXCEPT !.phase = "landed", !.landed = Tip + 1]
  <2> DEFINE tree == [p \in Paths |-> View(op.files[p])]
  <2>1. /\ op'.kind = "overwrite" /\ op'.phase = "landed" /\ op'.landed = Tip + 1
        /\ op'.files = op.files /\ op.kind = "overwrite" /\ op.phase = "saved"
    BY <1>3 DEF OverwriteLand, Inv, OpPart, Operations
  <2>2. branch' = Append(branch, tree)
    BY DEF OverwriteLand, Publish
  <2>3. branch'[Tip + 1] = tree
    BY <2>2 DEF Inv, HeadPart, Tip
  <2>4. \A p \in Paths : branch'[Tip + 1][p] = View(op.files[p])
    BY <2>3
  <2> HIDE DEF tree
  <2>5. OverwriteFine'
    BY <1>1, <2>1, <2>4 DEF BasePart, OpBased, OverwriteFine
  <2>6. CapturedBased'
    BY <1>1, <2>1, KnownSame DEF BasePart, OpBased, CapturedBased, Based
  <2>7. OpBased'
    BY <2>1, <2>5, <2>6 DEF OpBased, HeadsAgree, HeadExpected, HeadMerged, HeadLanded,
       EndWindow, PushedFine, SavedStands
  <2>8. QED
    BY <1>1, <2>7, BaseMoves
<1>4. QED
  BY <1>2, <1>3 DEF OverwriteLand

LEMMA OverwriteBase ==
    ASSUME Inv, BasePart, [Next]_vars, Overwrite
    PROVE  BasePart'
<1>1. CASE OverwriteCount \/ OverwriteSave
  <2>1. UNCHANGED <<rows, known, agreed, writes, branch>>
    BY <1>1 DEF OverwriteCount, OverwriteSave, disk
  <2>2. /\ op.kind = "overwrite" /\ op.phase \in {"captured", "counted"}
        /\ op'.kind = "overwrite" /\ op'.phase \in {"counted", "saved"}
        /\ op'.files = op.files
    BY <1>1 DEF OverwriteCount, OverwriteSave, Step, Inv, OpPart, Operations
  <2>3. CapturedBased' /\ OverwriteFine'
    BY <2>1, <2>2 DEF BasePart, OpBased, CapturedBased, Based, OverwriteFine
  <2>4. OpBased'
    BY <2>2, <2>3 DEF OpBased, HeadsAgree, HeadExpected, HeadMerged, HeadLanded, EndWindow,
       PushedFine, SavedStands
  <2>5. SavedBased'
    <3>1. CASE UNCHANGED recoveries
      BY <3>1, SavedBasedKept DEF BasePart
    <3>2. CASE recoveries' = Retain(Snapshot(rows))
      BY <2>1, <3>2, SavedBasedAdded DEF BasePart, RowsBased
    <3>3. QED
      BY <1>1, <3>1, <3>2 DEF OverwriteCount, OverwriteSave, disk
  <2>6. QED
    BY <2>1, <2>4, <2>5, RowsSame, RowsBasedKept DEF BasePart
<1>2. CASE OverwriteLand
  BY <1>2, OverwriteLandBase
<1>3. CASE OverwriteRefused
  BY <1>3, AbandonBase DEF OverwriteRefused
<1>4. CASE OverwriteSettle
  <2>1. /\ op' = NoOp /\ known' = op.landed
        /\ UNCHANGED <<recoveries, writes, branch>>
    BY <1>4 DEF OverwriteSettle, RecordHead
  <2>2. ASSUME NEW p \in Paths
        PROVE  BaseOf(rows'[p]) = branch[op.landed][p]
    <3>1. rows[p] \in GoodRows /\ op.files[p] \in GoodRows
      BY RowsType DEF GoodFiles, Inv, OpPart
    <3>2. rows'[p] = OverwriteSettled(op.files[p], rows[p])
      BY <1>4 DEF OverwriteSettle
    <3>3. /\ op.files[p] = NoRow => BaseOf(rows[p]) = Absent
          /\ branch[op.landed][p] = View(op.files[p])
      BY <1>4 DEF OverwriteSettle, BasePart, OpBased, OverwriteFine
    <3>4. QED
      BY <3>1, <3>2, <3>3, OverwriteSettledIs
  <2>3. RowsBased'
    BY <2>1, <2>2 DEF RowsBased, Based
  <2>4. QED
    BY <2>1, <2>3, SavedBasedKept, NothingRuns DEF BasePart
<1>5. QED
  BY <1>1, <1>2, <1>3, <1>4 DEF Overwrite

\* The features under which a push is known to be well founded
NothingBehindTheBase == Features \cap {"asset", "publish", "endRace"} = {}

LEMMA BaseInductive ==
    ASSUME NothingBehindTheBase, Inv, NothingConfirmed, BasePart, [Next]_vars
    PROVE  BasePart'
<1>1. "asset" \notin Features /\ "publish" \notin Features /\ "endRace" \notin Features
  BY DEF NothingBehindTheBase
<1>2. CASE UNCHANGED vars
  <2>1. UNCHANGED <<rows, known, agreed, op, shown, writes, recoveries, branch>>
    BY <1>2 DEF vars
  <2>2. QED
    BY <2>1, RowsSame, KnownSame, BaseKept DEF Tip
<1>3. CASE Overwrite
  BY <1>3, OverwriteBase
<1>4. ~PublishChange
  BY <1>1 DEF PublishChange, PublishPreflight, PublishRead, PublishCommit, PublishRefused,
     PublishPush, PublishReconcile, PublishRollback, NothingConfirmed, NoPublish
<1>5. CASE Author \/ Fetch \/ Begin \/ Checking \/ Pull \/ Sync
  BY <1>1, <1>5, AuthorBase, FetchBase, BeginBase, CheckingBase, PullBase, SyncBase
<1>6. CASE Environment
  BY <1>1, <1>6, EnvironmentBase, PushLandBase DEF Environment
<1>7. CASE Push
  <2>1. CASE PushRefused
    BY <2>1, AbandonBase DEF PushRefused
  <2>2. QED
    BY <1>7, <2>1, PushPlanBase, PushLandBase, PushReconcileBase, PushSettleBase DEF Push
<1>8. QED
  BY <1>2, <1>3, <1>4, <1>5, <1>6, <1>7 DEF Next

LEMMA InitBase == Init => BasePart
<1> SUFFICES ASSUME Init PROVE BasePart
  OBVIOUS
<1>1. op = NoOp /\ writes = {} /\ recoveries = <<>> /\ known = 1
  BY DEF Init
<1>2. OpBased
  BY <1>1 DEF OpBased, NoOp, CapturedBased, HeadsAgree, HeadExpected, HeadMerged, HeadLanded,
     EndWindow, PushedFine, SavedStands, OverwriteFine
<1>3. RowsBased
  <2>1. ASSUME NEW p \in Paths
        PROVE  BaseOf(rows[p]) = branch[1][p]
    <3>1. branch[1][p] \in Contents
      BY DEF Init, Trees
    <3>2. CASE branch[1][p] = Absent
      BY <3>2 DEF Init, BaseOf
    <3>3. CASE branch[1][p] # Absent
      <4>1. rows[p] = CleanRow(branch[1][p])
        BY <3>3 DEF Init
      <4>2. CleanRow(branch[1][p]) \in Row /\ CleanRow(branch[1][p]).base = branch[1][p]
        BY <3>1, <3>3 DEF CleanRow, Row, Contents, Status
      <4>3. QED
        BY <4>1, <4>2, NoRowAssumption DEF BaseOf
    <3>4. QED
      BY <3>2, <3>3
  <2>2. \A p \in Paths : branch[known][p] = BaseOf(rows[p])
    <3>1. known = 1
      BY <1>1
    <3>2. QED
      BY <2>1, <3>1, Zenon
  <2>3. QED
    BY <2>2, Zenon DEF RowsBased, Based
<1>4. SavedBased
  BY <1>1 DEF SavedBased
<1>5. QED
  BY <1>1, <1>2, <1>3, <1>4 DEF BasePart

LEMMA AlwaysBase == NothingBehindTheBase => (Spec => []BasePart)
<1> SUFFICES ASSUME NothingBehindTheBase
             PROVE  Spec => []BasePart
  OBVIOUS
<1>1. Init => BasePart
  BY InitBase
<1>2. Inv /\ NothingConfirmed /\ BasePart /\ [Next]_vars => BasePart'
  BY BaseInductive
<1>3. Spec => []NothingConfirmed
  BY NoneConfirmed DEF NothingBehindTheBase
<1>4. QED
  BY <1>1, <1>2, <1>3, AlwaysInv, PTL DEF Spec

\* The author edits, commits and restores, pulls, pushes, full syncs and
\* overwrites run in any order and fail anywhere, other devices push: the base of a row stays
\* what the last known head holds, or the user has given up what it holds.  So
\* the push, which compares nothing but heads, decides on true grounds.
THEOREM BaseStaysAtHead == NothingBehindTheBase => (Spec => []BaseAtKnownHead)
<1> SUFFICES ASSUME NothingBehindTheBase
             PROVE  Spec => []BaseAtKnownHead
  OBVIOUS
<1>1. Spec => []BasePart
  BY AlwaysBase
<1>2. QED
  BY <1>1, BaseImplies, PTL

LEMMA PushSeen ==
    ASSUME Inv, BasePart, [Next]_vars, branch' # branch, op' # op,
           op.kind \in {"push", "sync"}, NEW p \in Paths
    PROVE  branch[Tip][p] \in {branch'[Tip'][p], BaseOf(op.files[p])} \cup agreed[p]
<1>1. PushLand \/ PushReplyLost
  <2>1. ~OverwriteLand
    BY DEF OverwriteLand
  <2>2. ~\E path \in Paths, value \in Contents : Foreign(path, value)
    BY DEF Foreign, tab
  <2>3. QED
    BY <2>1, <2>2, BranchMovers
<1>2. op.phase = "planned" /\ Tip = op.head
  BY <1>1 DEF PushLand, PushReplyLost, Publish
<1>3. branch[known] = branch[op.head]
  BY <1>2 DEF BasePart, OpBased, HeadsAgree, HeadMerged
<1>4. branch[known][p] \in {BaseOf(op.files[p])} \cup agreed[p]
  BY <1>2 DEF BasePart, OpBased, CapturedBased, Based
<1>5. QED
  BY <1>2, <1>3, <1>4

\* Under the same features a push, its reply lost or not, replaces only content
\* the working copy was based on when the push read it, or that the user has
\* seen and given up: updateRef's fast-forward is enough.
THEOREM PushesNothingUnseen == NothingBehindTheBase => (Spec => NoBlindOverwrite)
<1> SUFFICES ASSUME NothingBehindTheBase
             PROVE  Spec => NoBlindOverwrite
  OBVIOUS
<1>1. Spec => []BasePart
  BY AlwaysBase
<1>2. Inv /\ BasePart /\ [Next]_vars =>
        [branch' # branch /\ op' # op /\ op.kind \in {"push", "sync"} =>
           \A p \in Paths :
              branch[Tip][p] \in {branch'[Tip'][p], BaseOf(op.files[p])} \cup agreed[p]]_vars
  <2> SUFFICES ASSUME Inv, BasePart, [Next]_vars, branch' # branch, op' # op,
                      op.kind \in {"push", "sync"}, NEW p \in Paths
               PROVE  branch[Tip][p] \in {branch'[Tip'][p], BaseOf(op.files[p])} \cup agreed[p]
    OBVIOUS
  <2>1. QED
    BY PushSeen
<1>3. QED
  BY <1>1, <1>2, AlwaysInv, PTL DEF Spec, NoBlindOverwrite

-----------------------------------------------------------------------------
(* Local work.  Only a few steps store rows, and each keeps what a file    *)
(* with local changes shows, or takes it into a snapshot first.            *)

LEMMA RowMovers ==
    ASSUME [Next]_vars, rows' # rows
    PROVE  \/ Author \/ PullReplace \/ PushSettle \/ SyncMerge \/ SyncUncommit \/ SyncCommit
           \/ OverwriteSettle \/ PublishCommit \/ PublishReconcile \/ PublishRollback
<1>1. ~UNCHANGED vars
  BY DEF vars
<1>2. (\E p \in Paths, v \in Contents : Foreign(p, v)) => UNCHANGED rows
  BY Zenon DEF Foreign, disk
<1>3. ~(Crash \/ Fail \/ FetchFail \/ PushReplyLost \/ Fetch)
  BY DEF Crash, Fail, Abandon, FetchFail, PushReplyLost, Fetch, FetchStart, FetchMark,
     FetchResolve, FetchRecord, disk
<1>4. ~(Begin \/ Checking)
  <2>1. (\E force \in BOOLEAN : PullStart(force)) => UNCHANGED rows
    BY Zenon DEF PullStart, disk
  <2>2. (\E choice \in Resolutions : SyncStart(choice)) => UNCHANGED rows
    BY Zenon DEF SyncStart, disk
  <2>3. PushStart \/ OverwriteStart \/ Checking => UNCHANGED rows
    BY DEF PushStart, OverwriteStart, Checking, OpMark, OpResolve, OpCapture, disk
  <2>4. QED
    BY <2>1, <2>2, <2>3 DEF Begin
<1>5. ~(PullUnchanged \/ PullRefused \/ PushPlan \/ PushLand \/ PushReconcile \/ PushRefused)
  BY DEF PullUnchanged, PullRefused, PushPlan, PushLand, PushReconcile, PushRefused, Abandon, disk
<1>6. ~(SyncUnchanged \/ SyncConflicts \/ SyncSave \/ SyncRefused \/ SyncSavePending)
  BY DEF SyncUnchanged, SyncConflicts, SyncSave, SyncRefused, SyncSavePending, Abandon
<1>7. ~(SyncPushStart \/ SyncReread \/ SyncFinish)
  BY DEF SyncPushStart, SyncReread, SyncFinish, disk
<1>8. ~(OverwriteCount \/ OverwriteSave \/ OverwriteLand \/ OverwriteRefused)
  BY DEF OverwriteCount, OverwriteSave, OverwriteLand, OverwriteRefused, Abandon, disk
<1>9. ~(PublishPreflight \/ PublishRefused \/ PublishPush)
  BY DEF PublishPreflight, PublishRefused, PublishPush, disk
<1>10. (\E p \in Paths, v \in Contents : PublishRead(p, v)) => UNCHANGED rows
  BY Zenon DEF PublishRead, disk
<1>11. QED
  BY <1>1, <1>2, <1>3, <1>4, <1>5, <1>6, <1>7, <1>8, <1>9, <1>10
     DEF Next, Environment, Pull, Push, Sync, Overwrite, PublishChange

LEMMA CommittedView ==
    ASSUME NEW row \in GoodRows
    PROVE  View(CommittedRow(row)) = View(row)
<1>1. CASE ~Dirty(row)
  BY <1>1 DEF CommittedRow
<1>2. CASE Dirty(row)
  <2>1. row \in Row
    BY <1>2 DEF Dirty, GoodRows
  <2>2. /\ CommittedRow(row) \in Row /\ CommittedRow(row).cur = row.cur
        /\ CommittedRow(row).status = IF row.status = "deleted" THEN "deleted" ELSE "clean"
    BY <1>2, <2>1 DEF CommittedRow, Row, Status
  <2>3. QED
    BY <2>1, <2>2, NoRowAssumption DEF View, Gone
<1>3. QED
  BY <1>1, <1>2

LEMMA UncommittedView ==
    ASSUME NEW row \in GoodRows, NEW entry \in Entry \cup {NoEntry}
    PROVE  View(Uncommitted(row, entry)) = View(row)
<1>1. CASE entry # NoEntry /\ MatchesCommit(row, entry)
  <2> DEFINE result == [row EXCEPT !.status = entry.status, !.committed = FALSE]
  <2>1. row \in Row /\ entry \in Entry
    BY <1>1 DEF MatchesCommit, GoodRows
  <2>2. result \in Row /\ result.cur = row.cur /\ result.status = entry.status
    BY <2>1 DEF Row, Entry
  <2>3. Uncommitted(row, entry) = result
    BY <1>1 DEF Uncommitted
  <2>4. row.status = "deleted" <=> entry.status = "deleted"
    BY <1>1 DEF MatchesCommit
  <2> HIDE DEF result
  <2>5. QED
    BY <2>1, <2>2, <2>3, <2>4, NoRowAssumption DEF View, Gone
<1>2. CASE ~(entry # NoEntry /\ MatchesCommit(row, entry))
  BY <1>2 DEF Uncommitted
<1>3. QED
  BY <1>1, <1>2

LEMMA SettledView ==
    ASSUME NEW row \in Row, NEW captured \in Row, NEW entry \in Entry, NEW pushed,
           pushed = IF entry.status = "deleted" THEN Absent ELSE captured.cur
    PROVE  View(Settled(row, entry, pushed)) = View(row)
<1>1. row # NoRow /\ entry # NoEntry
  BY NoRowAssumption, NoEntryAssumption
<1>2. pushed = Absent <=> entry.status = "deleted"
  BY SentinelAssumption DEF Row
<1>3. CASE pushed = Absent /\ MatchesCommit(row, entry)
  <2>1. row.status = "deleted"
    BY <1>2, <1>3 DEF MatchesCommit
  <2>2. QED
    BY <1>1, <1>3, <2>1 DEF Settled, View, Gone
<1>4. CASE pushed # Absent /\ MatchesCommit(row, entry)
  <2> DEFINE result == [row EXCEPT !.base = row.cur, !.status = "clean", !.committed = FALSE]
  <2>1. Settled(row, entry, pushed) = result
    BY <1>1, <1>4 DEF Settled
  <2>2. row.status = "clean"
    BY <1>2, <1>4 DEF MatchesCommit
  <2>3. result \in Row /\ result.cur = row.cur /\ result.status = "clean"
    BY DEF Row, Status, Contents
  <2> HIDE DEF result
  <2>4. QED
    BY <1>1, <2>1, <2>2, <2>3, NoRowAssumption DEF View, Gone
<1>5. CASE ~MatchesCommit(row, entry)
  <2> DEFINE base == IF pushed = Absent THEN Absent ELSE entry.hash
             status == IF row.status = "deleted" THEN "deleted"
                       ELSE IF pushed = Absent THEN "new" ELSE "modified"
             result == [row EXCEPT !.base = base, !.committed = FALSE, !.status = status]
  <2>1. Settled(row, entry, pushed) = result
    BY <1>1, <1>5 DEF Settled
  <2>2. /\ base \in Contents /\ status \in Status
        /\ status = "deleted" <=> row.status = "deleted"
    BY DEF Entry, Contents, Status
  <2> HIDE DEF base, status
  <2>3. result \in Row /\ result.cur = row.cur /\ result.status = status
    BY <2>2 DEF Row
  <2> HIDE DEF result
  <2>4. QED
    BY <1>1, <2>1, <2>2, <2>3, NoRowAssumption DEF View, Gone
<1>6. QED
  BY <1>3, <1>4, <1>5

\* sameLocalFiles: two rows of one version differ in their base at most
LEMMA VersionTells ==
    ASSUME NEW a \in GoodRows, NEW b \in GoodRows, Version(a) = Version(b)
    PROVE  View(a) = View(b) /\ (LocalChanged(a) <=> LocalChanged(b))
<1>1. a = NoRow <=> b = NoRow
  BY DEF Version
<1>2. a # NoRow => a.cur = b.cur /\ a.status = b.status /\ a.committed = b.committed
  BY <1>1 DEF Version
<1>3. QED
  BY <1>1, <1>2 DEF View, Gone, LocalChanged

LEMMA MergedView ==
    ASSUME NEW captured \in GoodRows, NEW row \in GoodRows, NEW choice \in {"none", "local"},
           NEW remote \in Contents, Version(captured) = Version(row), LocalChanged(row)
    PROVE  View(Merged(Resolved(choice, captured, remote), row, remote)) = View(row)
<1>1. View(captured) = View(row) /\ LocalChanged(captured)
  BY VersionTells
<1>2. CASE choice = "local"
  BY <1>2 DEF Resolved, Merged
<1>3. CASE choice = "none" /\ Plan(captured, remote) \notin {"delete", "write"}
  BY <1>3 DEF Resolved, Merged
<1>4. CASE choice = "none" /\ Plan(captured, remote) = "delete"
  <2>1. View(captured) = remote /\ remote = Absent
    BY <1>1, <1>4 DEF Plan
  <2>2. QED
    BY <1>1, <1>4, <2>1 DEF Resolved, Merged, View, Gone
<1>5. CASE choice = "none" /\ Plan(captured, remote) = "write"
  <2>1. View(captured) = remote /\ remote # Absent
    BY <1>1, <1>5 DEF Plan
  <2>2. /\ CleanRow(remote) \in Row /\ CleanRow(remote).cur = remote
        /\ CleanRow(remote).status = "clean"
    BY <2>1 DEF CleanRow, Row, Contents, Status
  <2>3. View(CleanRow(remote)) = remote
    BY <2>2, NoRowAssumption DEF View, Gone
  <2>4. QED
    BY <1>1, <1>5, <2>1, <2>3 DEF Resolved, Merged
<1>6. QED
  BY <1>2, <1>3, <1>4, <1>5

\* The snapshot that is added stays: MAX_RECOVERY_SNAPSHOTS is not zero
LEMMA RetainedLast ==
    ASSUME Inv, NEW snapshot, recoveries' = Retain(snapshot)
    PROVE  \E i \in DOMAIN recoveries' : recoveries'[i] = snapshot
<1> DEFINE all == Append(recoveries, snapshot)
<1>1. recoveries \in Seq(Snapshots \cup {snapshot}) /\ snapshot \in Snapshots \cup {snapshot}
  BY DEF Inv, RecoveriesPart
<1>2. /\ all \in Seq(Snapshots \cup {snapshot}) /\ Len(all) = Len(recoveries) + 1
      /\ all[Len(all)] = snapshot /\ Len(recoveries) \in Nat
  BY <1>1
<1> HIDE DEF all
<1>3. CASE Len(all) > MaxRecoveries
  <2>1. Len(all) >= 2
    BY <1>2, <1>3, BoundAssumption
  <2>2. /\ recoveries' = Tail(all) /\ Len(Tail(all)) = Len(all) - 1
        /\ Tail(all)[Len(all) - 1] = all[Len(all)]
    BY <1>2, <1>3, <2>1 DEF Retain, all
  <2>3. Len(all) - 1 \in DOMAIN recoveries'
    BY <1>2, <2>1, <2>2
  <2>4. QED
    BY <1>2, <2>2, <2>3
<1>4. CASE ~(Len(all) > MaxRecoveries)
  <2>1. recoveries' = all /\ Len(all) \in DOMAIN all
    BY <1>2, <1>4 DEF Retain, all
  <2>2. QED
    BY <1>2, <2>1
<1>5. QED
  BY <1>3, <1>4

LEMMA WorkKeptStep ==
    ASSUME Inv, Apart, "publish" \notin Features, [Next]_vars, ~AuthorWrites,
           NEW p \in Paths, LocalChanged(rows[p])
    PROVE  \/ View(rows'[p]) = View(rows[p])
           \/ GivenUp(p)
           \/ \E i \in DOMAIN recoveries' : View(recoveries'[i].rows[p]) = View(rows[p])
<1>1. rows[p] \in GoodRows /\ op.files[p] \in GoodRows
  BY RowsType DEF GoodFiles, Inv, OpPart
<1>2. CASE UNCHANGED rows
  BY <1>2
<1>3. CASE CommitDirty
  BY <1>1, <1>3, CommittedView DEF CommitDirty
<1>4. CASE PullReplace
  <2>1. PICK i \in DOMAIN recoveries' : recoveries'[i] = Snapshot(op.files)
    BY <1>4, RetainedLast DEF PullReplace
  <2>2. recoveries'[i].rows[p] = op.files[p]
    BY <2>1 DEF Snapshot
  <2>3. Version(op.files[p]) = Version(rows[p])
    BY <1>4 DEF PullReplace, MayReplace, SameFiles
  <2>4. QED
    BY <1>1, <2>2, <2>3, VersionTells
<1>5. CASE PushSettle
  <2>1. CASE p \in Pushed
    <3>1. EntryOf(p) \in Entry /\ op.files[p] \in Row /\ rows[p] \in Row
      BY <1>1, <1>5, <2>1, OutgoingType
         DEF PushSettle, Inv, OpPart, GoodRows, LocalChanged
    <3>2. rows'[p] = Settled(rows[p], EntryOf(p), Outgoing(p))
      BY <1>5, <2>1 DEF PushSettle
    <3>3. Outgoing(p) = IF EntryOf(p).status = "deleted" THEN Absent ELSE op.files[p].cur
      BY DEF Outgoing
    <3>4. QED
      BY <3>1, <3>2, <3>3, SettledView
  <2>2. CASE p \notin Pushed
    BY <1>5, <2>2 DEF PushSettle
  <2>3. QED
    BY <2>1, <2>2
<1>6. CASE SyncMerge
  <2>1. rows'[p] = Merged(Resolved(op.choice[p], op.files[p], Remote(p)), rows[p], Remote(p))
    BY <1>6 DEF SyncMerge, Decision
  <2>2. op.choice[p] \in {"none", "local", "remote"} /\ Remote(p) \in Contents
    BY HeadsInside, TreeType DEF Inv, OpPart, Operations, Choices, Remote
  <2>3. CASE op.choice[p] = "remote"
    BY <1>6, <2>3 DEF SyncMerge, MergePlanned, MustSave, GivenUp
  <2>4. CASE op.choice[p] \in {"none", "local"}
    <3>1. Version(op.files[p]) = Version(rows[p])
      BY <1>6 DEF SyncMerge, SameFiles
    <3>2. QED
      BY <1>1, <2>1, <2>2, <2>4, <3>1, MergedView
  <2>5. QED
    BY <2>2, <2>3, <2>4
<1>7. CASE SyncUncommit
  <2>1. rows'[p] = Uncommitted(rows[p], EntryOf(p)) /\ EntryOf(p) \in Entry \cup {NoEntry}
    BY <1>7, PendingType DEF SyncUncommit
  <2>2. QED
    BY <1>1, <2>1, UncommittedView
<1>8. CASE SyncCommit
  BY <1>2, <1>3, <1>8 DEF SyncCommit
<1>9. CASE Author
  <2>1. work \in Nat
    BY DEF Inv, BoundsPart
  <2>2. ~\E q \in Paths, v \in Contents : Edit(q, v) \/ EditAndCommit(q, v)
    <3>1. ~Work
      BY <2>1 DEF AuthorWrites, Work
    <3>2. QED
      BY <3>1, Zenon DEF Edit, EditAndCommit
  <2>3. ~RestoreRecovery
    BY <2>1 DEF AuthorWrites, RestoreRecovery, Work
  <2>4. ~StoreWrite
    BY DEF AuthorWrites, StoreWrite
  <2>5. (\E way \in {"scoped", "atomic"}, q \in Paths, v \in Contents : ReadForWrite(way, q, v))
           => UNCHANGED rows
    BY Zenon DEF ReadForWrite, disk
  <2>6. QED
    BY <1>2, <1>3, <1>9, <2>2, <2>3, <2>4, <2>5 DEF Author, CommitLocalChanges
<1>10. ~(OverwriteSettle \/ PublishCommit \/ PublishReconcile \/ PublishRollback)
  BY DEF OverwriteSettle, PublishCommit, PublishReconcile, PublishRollback, Apart, NoPublish
<1>11. QED
  BY <1>2, <1>4, <1>5, <1>6, <1>7, <1>8, <1>9, <1>10, RowMovers

\* Without a local-source overwrite and a confirmed change, no step of a pull,
\* a push or a full sync, nothing that fails and no closed tab takes a local
\* change away: the file shows the same, or the user gave it up in a conflict,
\* or a snapshot of createLocalRecoverySnapshot that is still retained shows it.
THEOREM LocalWorkAlwaysKept ==
    "overwrite" \notin Features /\ "publish" \notin Features => (Spec => LocalWorkKept)
<1> SUFFICES ASSUME "overwrite" \notin Features, "publish" \notin Features
             PROVE  Spec => LocalWorkKept
  OBVIOUS
<1>1. NothingConfirmed /\ NothingOverwritten => Apart
  BY DEF NothingConfirmed, NothingOverwritten, Apart
<1>2. Inv /\ Apart /\ [Next]_vars =>
        [~AuthorWrites => \A p \in Paths : LocalChanged(rows[p]) =>
           \/ View(rows'[p]) = View(rows[p])
           \/ GivenUp(p)
           \/ \E i \in DOMAIN recoveries' : View(recoveries'[i].rows[p]) = View(rows[p])]_vars
  <2> SUFFICES ASSUME Inv, Apart, [Next]_vars, ~AuthorWrites,
                      NEW p \in Paths, LocalChanged(rows[p])
               PROVE  \/ View(rows'[p]) = View(rows[p])
                      \/ GivenUp(p)
                      \/ \E i \in DOMAIN recoveries' :
                            View(recoveries'[i].rows[p]) = View(rows[p])
    BY Zenon
  <2>1. QED
    BY WorkKeptStep
<1>3. QED
  BY <1>1, <1>2, AlwaysInv, NoneConfirmed, NoneOverwritten, PTL DEF Spec, LocalWorkKept

-----------------------------------------------------------------------------
(* What was published.  Every base, wherever a row is stored or remembered, *)
(* is what some commit of the branch held: a settlement makes the content   *)
(* it pushed a base, and it knows by then that the content has arrived.     *)

Had(content, path) == content = Absent \/ \E i \in 1..Tip : branch[i][path] = content

RowsHad == \A p \in Paths : Had(BaseOf(rows[p]), p)
SavedHad == \A i \in DOMAIN recoveries : \A p \in Paths : Had(BaseOf(recoveries[i].rows[p]), p)
FilesHad == \A p \in Paths : Had(BaseOf(op.files[p]), p)
WritesHad == \A w \in writes : Had(BaseOf(w.seen), w.path)
SeenHad == Had(BaseOf(publish.seen), publish.path)

\* What a push sends are the committed files; once it has arrived, the branch
\* has it
SentHad ==
    /\ op.phase \in {"listed", "planned", "ambiguous"} => op.kind \in {"push", "sync"}
    /\ op.phase \in {"planned", "ambiguous", "landed"} /\ op.kind # "overwrite" =>
          \A p \in Pushed : MatchesCommit(op.files[p], EntryOf(p))
    /\ op.phase \in {"ambiguous", "landed"} /\ op.kind # "overwrite" =>
          \A p \in Pushed : Had(Outgoing(p), p)
    /\ op.phase = "landed" /\ op.kind = "overwrite" =>
          \A p \in Paths : Had(View(op.files[p]), p)

HadPart == RowsHad /\ SavedHad /\ FilesHad /\ WritesHad /\ SeenHad /\ SentHad

LEMMA HadGrows ==
    ASSUME Inv, [Next]_vars, NEW content, NEW path, Had(content, path)
    PROVE  Had(content, path)'
<1>1. CASE content = Absent
  BY <1>1 DEF Had
<1>2. CASE \E i \in 1..Tip : branch[i][path] = content
  <2>1. PICK i \in 1..Tip : branch[i][path] = content
    BY <1>2
  <2>2. Tip \in Nat /\ i \in 1..Tip' /\ branch'[i] = branch[i]
    BY BranchGrows, HeadRange
  <2>3. QED
    BY <2>1, <2>2 DEF Had
<1>3. QED
  BY <1>1, <1>2 DEF Had

LEMMA HadImplies == Inv /\ HadPart => CleanWasPublished
<1> SUFFICES ASSUME Inv, HadPart, NEW p \in Paths, rows[p] # NoRow, ~LocalChanged(rows[p])
             PROVE  \E i \in 1..Tip : branch[i][p] = rows[p].cur
  BY DEF CleanWasPublished
<1>1. rows[p] \in Row /\ WellFormed(rows[p])
  BY RowsType DEF GoodFiles, GoodRows
<1>2. rows[p].cur = rows[p].base /\ rows[p].cur # Absent
  BY <1>1, SentinelAssumption DEF WellFormed, LocalChanged, Row
<1>3. Had(rows[p].cur, p)
  BY <1>2 DEF HadPart, RowsHad, BaseOf
<1>4. QED
  BY <1>2, <1>3 DEF Had

-----------------------------------------------------------------------------
(* The rows                                                                *)

LEMMA StoredBase ==
    ASSUME NEW write \in PendingWrites, write.seen \in GoodRows, NEW row \in GoodRows
    PROVE  BaseOf(Stored(write, row)) \in {Absent, BaseOf(row), BaseOf(write.seen)}
<1>1. CASE write.value = Absent /\ write.seen = NoRow
  BY <1>1 DEF Stored
<1>2. CASE write.value = Absent /\ write.seen # NoRow
  <2>1. write.seen \in Row
    BY <1>2 DEF GoodRows
  <2>2. \/ Stored(write, row) = NoRow
        \/ Stored(write, row).base = write.seen.base
    BY <1>2, <2>1 DEF Stored, Deleted, Row
  <2>3. QED
    BY <1>2, <2>2 DEF BaseOf
<1>3. CASE write.value # Absent
  <2>1. Written(write.seen, write.value).base = BaseOf(write.seen)
    BY DEF Written
  <2>2. Replaced(write.seen, write.value).base = BaseOf(write.seen)
    BY DEF Written, Replaced
  <2>3. QED
    BY <1>3, <2>1, <2>2 DEF Stored, BaseOf
<1>4. QED
  BY <1>1, <1>2, <1>3

LEMMA OverwriteSettledBase ==
    ASSUME NEW expected \in GoodRows, NEW row \in GoodRows
    PROVE  BaseOf(OverwriteSettled(expected, row)) \in {Absent, BaseOf(row), View(expected)}
<1>1. CASE expected = NoRow
  BY <1>1 DEF OverwriteSettled
<1>2. CASE expected # NoRow /\ expected.status = "deleted"
  <2>1. CASE row = NoRow \/ Version(row) = Version(expected)
    BY <1>2, <2>1 DEF OverwriteSettled, BaseOf
  <2>2. CASE ~(row = NoRow \/ Version(row) = Version(expected))
    <3> DEFINE status == IF row.committed \/ row.status = "deleted" THEN row.status ELSE "new"
               result == [row EXCEPT !.base = Absent, !.status = status]
    <3>1. OverwriteSettled(expected, row) = result
      BY <1>2, <2>2 DEF OverwriteSettled
    <3>2. result.base = Absent
      BY <2>2 DEF GoodRows, Row
    <3> HIDE DEF result
    <3>3. QED
      BY <3>1, <3>2 DEF BaseOf
  <2>3. QED
    BY <2>1, <2>2
<1>3. CASE expected # NoRow /\ expected.status # "deleted" /\ row = NoRow
  <2> DEFINE result == [expected EXCEPT !.base = expected.cur, !.committed = FALSE,
                                        !.status = "deleted"]
  <2>1. OverwriteSettled(expected, row) = result
    BY <1>3 DEF OverwriteSettled
  <2>2. result.base = expected.cur
    BY <1>3 DEF GoodRows, Row
  <2> HIDE DEF result
  <2>3. QED
    BY <1>3, <2>1, <2>2 DEF BaseOf, View, Gone
<1>4. CASE expected # NoRow /\ expected.status # "deleted" /\ row # NoRow
  <2> DEFINE committed == row.committed /\ Version(row) # Version(expected)
             status == IF row.committed \/ row.cur = expected.cur THEN "clean" ELSE "modified"
             result == [row EXCEPT !.base = expected.cur, !.committed = committed,
                                   !.status = status]
  <2>1. OverwriteSettled(expected, row) = result
    BY <1>4 DEF OverwriteSettled
  <2> HIDE DEF committed, status
  <2>2. result.base = expected.cur
    BY <1>4 DEF GoodRows, Row
  <2> HIDE DEF result
  <2>3. QED
    BY <1>4, <2>1, <2>2 DEF BaseOf, View, Gone
<1>5. QED
  BY <1>1, <1>2, <1>3, <1>4

LEMMA SettledBases ==
    ASSUME NEW row \in GoodRows, NEW entry \in Entry \cup {NoEntry}, NEW pushed
    PROVE  \/ BaseOf(Settled(row, entry, pushed)) \in {Absent, BaseOf(row)}
           \/ /\ entry # NoEntry /\ pushed # Absent
              /\ BaseOf(Settled(row, entry, pushed)) = entry.hash
<1>1. CASE row = NoRow \/ entry = NoEntry
  BY <1>1 DEF Settled
<1>2. CASE row # NoRow /\ entry # NoEntry /\ pushed = Absent /\ MatchesCommit(row, entry)
  BY <1>2 DEF Settled, BaseOf
<1>3. CASE row # NoRow /\ entry # NoEntry /\ pushed = Absent /\ ~MatchesCommit(row, entry)
  <2> DEFINE status == IF row.status = "deleted" THEN "deleted" ELSE "new"
             result == [row EXCEPT !.base = Absent, !.committed = FALSE, !.status = status]
  <2>1. Settled(row, entry, pushed) = result
    BY <1>3 DEF Settled
  <2>2. result.base = Absent
    BY <1>3 DEF GoodRows, Row
  <2> HIDE DEF result
  <2>3. QED
    BY <2>1, <2>2 DEF BaseOf
<1>4. CASE row # NoRow /\ entry # NoEntry /\ pushed # Absent /\ MatchesCommit(row, entry)
  <2> DEFINE result == [row EXCEPT !.base = row.cur, !.status = "clean", !.committed = FALSE]
  <2>1. Settled(row, entry, pushed) = result
    BY <1>4 DEF Settled
  <2>2. result.base = row.cur
    BY <1>4 DEF GoodRows, Row
  <2>3. row.cur = entry.hash
    BY <1>4 DEF MatchesCommit
  <2> HIDE DEF result
  <2>4. QED
    BY <1>4, <2>1, <2>2, <2>3 DEF BaseOf
<1>5. CASE row # NoRow /\ entry # NoEntry /\ pushed # Absent /\ ~MatchesCommit(row, entry)
  <2> DEFINE status == IF row.status = "deleted" THEN "deleted" ELSE "modified"
             result == [row EXCEPT !.base = entry.hash, !.committed = FALSE, !.status = status]
  <2>1. Settled(row, entry, pushed) = result
    BY <1>5 DEF Settled
  <2>2. result.base = entry.hash
    BY <1>5 DEF GoodRows, Row
  <2> HIDE DEF result
  <2>3. QED
    BY <1>5, <2>1, <2>2 DEF BaseOf
<1>6. QED
  BY <1>1, <1>2, <1>3, <1>4, <1>5

\* The changed rows have bases the branch had
LEMMA MutatedHad ==
    ASSUME Inv, RowsHad, NEW path \in Paths, NEW value \in Contents, NEW commit \in BOOLEAN,
           rows' = [rows EXCEPT ![path] = Mutated(@, value, commit)], NEW p \in Paths
    PROVE  Had(BaseOf(rows'[p]), p)
<1>1. rows[path] \in GoodRows
  BY RowsType DEF GoodFiles
<1>2. /\ rows'[path] = Mutated(rows[path], value, commit)
      /\ p # path => rows'[p] = rows[p]
  BY RowsType DEF Files
<1>3. BaseOf(Mutated(rows[path], value, commit)) \in {Absent, BaseOf(rows[path])}
  BY <1>1, MutatedBase DEF BaseOf
<1>4. QED
  BY <1>2, <1>3 DEF RowsHad, Had

LEMMA AuthorHad ==
    ASSUME Inv, HadPart, Author, NEW p \in Paths
    PROVE  Had(BaseOf(rows'[p]), p)
<1>1. RowsHad /\ rows[p] \in GoodRows
  BY RowsType DEF HadPart, GoodFiles
<1>2. CASE \E q \in Paths, v \in Contents : Edit(q, v) \/ EditAndCommit(q, v)
  <2>1. PICK q \in Paths, v \in Contents : Edit(q, v) \/ EditAndCommit(q, v)
    BY <1>2
  <2>2. \E commit \in BOOLEAN : rows' = [rows EXCEPT ![q] = Mutated(@, v, commit)]
    BY <2>1 DEF Edit, EditAndCommit, MutateAndCommit
  <2>3. QED
    BY <1>1, <2>2, MutatedHad
<1>3. CASE CommitLocalChanges
  <2>1. rows'[p] = CommittedRow(rows[p])
    BY <1>3 DEF CommitLocalChanges, CommitDirty
  <2>2. QED
    BY <1>1, <2>1, CommittedBase DEF RowsHad
<1>4. CASE StoreWrite
  <2>1. PICK w \in writes : rows' = [rows EXCEPT ![w.path] = Stored(w, @)]
    BY <1>4 DEF StoreWrite
  <2>2. /\ rows'[p] = IF p = w.path THEN Stored(w, rows[p]) ELSE rows[p]
        /\ w \in PendingWrites /\ w.seen \in GoodRows
    BY <2>1, RowsType DEF Files, Inv, WritesPart
  <2>3. Had(BaseOf(w.seen), w.path)
    BY DEF HadPart, WritesHad
  <2>4. BaseOf(Stored(w, rows[p])) \in {Absent, BaseOf(rows[p]), BaseOf(w.seen)}
    BY <1>1, <2>2, StoredBase
  <2>5. QED
    BY <1>1, <2>2, <2>3, <2>4 DEF RowsHad, Had
<1>5. CASE RestoreRecovery
  <2>1. PICK i \in DOMAIN recoveries : rows' = recoveries[i].rows
    BY <1>5 DEF RestoreRecovery
  <2>2. QED
    BY <2>1 DEF HadPart, SavedHad
<1>6. CASE \E way \in {"scoped", "atomic"}, q \in Paths, v \in Contents : ReadForWrite(way, q, v)
  <2>1. UNCHANGED rows
    BY <1>6, Zenon DEF ReadForWrite, disk
  <2>2. QED
    BY <1>1, <2>1 DEF RowsHad
<1>7. QED
  BY <1>2, <1>3, <1>4, <1>5, <1>6 DEF Author

LEMMA RemoteHad ==
    ASSUME Inv, NEW p \in Paths, NEW i \in 1..Tip
    PROVE  Had(branch[i][p], p)
BY DEF Had

LEMMA SettlementHad ==
    ASSUME Inv, HadPart, PushSettle \/ OverwriteSettle, NEW p \in Paths
    PROVE  Had(BaseOf(rows'[p]), p)
<1>1. Had(BaseOf(rows[p]), p) /\ rows[p] \in GoodRows /\ op.files[p] \in GoodRows
  BY RowsType DEF HadPart, RowsHad, GoodFiles, Inv, OpPart
<1>2. CASE OverwriteSettle
  <2>1. rows'[p] = OverwriteSettled(op.files[p], rows[p])
    BY <1>2 DEF OverwriteSettle
  <2>2. Had(View(op.files[p]), p)
    BY <1>2 DEF OverwriteSettle, HadPart, SentHad
  <2>3. BaseOf(rows'[p]) \in {Absent, BaseOf(rows[p]), View(op.files[p])}
    BY <1>1, <2>1, OverwriteSettledBase
  <2>4. QED
    BY <1>1, <2>2, <2>3 DEF Had
<1>3. CASE PushSettle /\ p \notin Pushed
  BY <1>1, <1>3 DEF PushSettle
<1>4. CASE PushSettle /\ p \in Pushed
  <2>1. /\ rows'[p] = Settled(rows[p], EntryOf(p), Outgoing(p))
        /\ EntryOf(p) \in Entry \cup {NoEntry}
    BY <1>4, PendingType DEF PushSettle
  <2>2. MatchesCommit(op.files[p], EntryOf(p)) /\ Had(Outgoing(p), p)
    BY <1>4 DEF PushSettle, HadPart, SentHad
  <2>3. Outgoing(p) # Absent => Outgoing(p) = EntryOf(p).hash
    BY <2>2 DEF Outgoing, MatchesCommit
  <2>4. \/ BaseOf(rows'[p]) \in {Absent, BaseOf(rows[p])}
        \/ Outgoing(p) # Absent /\ BaseOf(rows'[p]) = EntryOf(p).hash
    BY <1>1, <2>1, SettledBases
  <2>5. QED
    BY <1>1, <2>2, <2>3, <2>4 DEF Had
<1>5. QED
  BY <1>2, <1>3, <1>4

LEMMA PublicationHad ==
    ASSUME Inv, OwnPart, HadPart, PublishCommit \/ PublishReconcile \/ PublishRollback,
           NEW p \in Paths
    PROVE  Had(BaseOf(rows'[p]), p)
<1>1. RowsHad /\ rows[p] \in GoodRows
  BY RowsType DEF HadPart, GoodFiles
<1>2. publish.path \in Paths /\ publish.value \in Contents
  BY DEF PublishCommit, PublishReconcile, PublishRollback, Inv, PublishPart, Publications
<1>3. CASE PublishCommit
  BY <1>1, <1>2, <1>3, MutatedHad DEF PublishCommit, MutateAndCommit
<1>4. CASE PublishRollback
  <2>1. rows' = rows \/ rows' = [rows EXCEPT ![publish.path] = publish.seen]
    BY <1>4 DEF PublishRollback
  <2>2. rows'[p] = rows[p] \/ (p = publish.path /\ rows'[p] = publish.seen)
    BY <2>1, RowsType DEF Files
  <2>3. QED
    BY <1>1, <2>2 DEF RowsHad, HadPart, SeenHad
<1>5. CASE PublishReconcile
  <2>1. CASE OwnCommits = {} \/ p # publish.path
    <3>1. rows'[p] = rows[p]
      BY <1>5, <2>1, RowsType DEF PublishReconcile, disk, Files
    <3>2. QED
      BY <1>1, <3>1 DEF RowsHad
  <2>2. CASE OwnCommits # {} /\ p = publish.path
    <3>1. rows'[p] = Settled(rows[p], OwnEntry, publish.value)
      BY <1>5, <2>2, RowsType DEF PublishReconcile, Files
    <3>2. OwnEntry \in Entry \cup {NoEntry}
      BY <1>2, LatestEntryType DEF OwnEntry, OwnCommits, Inv, CommitsPart
    <3>3. \/ BaseOf(rows'[p]) \in {Absent, BaseOf(rows[p])}
          \/ /\ OwnEntry # NoEntry /\ publish.value # Absent
             /\ BaseOf(rows'[p]) = OwnEntry.hash
      BY <1>1, <3>1, <3>2, SettledBases
    <3>4. OwnEntry # NoEntry /\ publish.value # Absent => OwnEntry.hash = publish.value
      BY <1>5, OwnEntryIsOwn DEF PublishReconcile, OwnChange
    <3>5. Had(publish.value, p)
      BY <1>5, <2>2, HeadRange DEF PublishReconcile, OwnChangeLanded, Had
    <3>6. QED
      BY <1>1, <3>3, <3>4, <3>5 DEF RowsHad, Had
  <2>3. QED
    BY <2>1, <2>2
<1>6. QED
  BY <1>3, <1>4, <1>5

LEMMA StoredRowsHad ==
    ASSUME Inv, OwnPart, HadPart, [Next]_vars, NEW p \in Paths
    PROVE  Had(BaseOf(rows'[p]), p)
<1>1. Had(BaseOf(rows[p]), p) /\ rows[p] \in GoodRows /\ op.files[p] \in GoodRows
  BY RowsType DEF HadPart, RowsHad, GoodFiles, Inv, OpPart
<1>2. Remote(p) \in Contents /\ Had(Remote(p), p)
  BY HeadsInside, TreeType, RemoteHad DEF Remote
<1>3. CASE PullReplace
  BY <1>1, <1>2, <1>3, PulledBase DEF PullReplace, Remote
<1>4. CASE SyncMerge
  <2>1. rows'[p] = Merged(Decision(p), rows[p], Remote(p))
    BY <1>4 DEF SyncMerge
  <2>2. CleanRow(Remote(p)).base = Remote(p)
    BY DEF CleanRow
  <2>3. BaseOf(rows'[p]) \in {Absent, Remote(p), BaseOf(rows[p])}
    BY <2>1, <2>2 DEF Merged, BaseOf
  <2>4. QED
    BY <1>1, <1>2, <2>3 DEF Had
<1>5. CASE SyncUncommit
  <2>1. rows'[p] = Uncommitted(rows[p], EntryOf(p)) /\ EntryOf(p) \in Entry \cup {NoEntry}
    BY <1>5, PendingType DEF SyncUncommit
  <2>2. rows[p] \in Row \cup {NoRow}
    BY <1>1 DEF GoodRows
  <2>3. QED
    BY <1>1, <2>1, <2>2, UncommittedBase
<1>6. CASE SyncCommit
  <2>1. rows'[p] = CommittedRow(rows[p]) \/ rows'[p] = rows[p]
    BY <1>6 DEF SyncCommit, CommitDirty
  <2>2. QED
    BY <1>1, <2>1, CommittedBase
<1>7. CASE UNCHANGED rows
  BY <1>1, <1>7
<1>8. QED
  BY <1>3, <1>4, <1>5, <1>6, <1>7, RowMovers, AuthorHad, SettlementHad, PublicationHad

LEMMA RowsHadKept ==
    ASSUME Inv, OwnPart, HadPart, [Next]_vars
    PROVE  RowsHad'
<1>1. ASSUME NEW p \in Paths, NEW content, content = BaseOf(rows'[p])
      PROVE  Had(content, p)'
  BY <1>1, StoredRowsHad, HadGrows
<1>2. QED
  BY <1>1 DEF RowsHad, Had

-----------------------------------------------------------------------------
(* What is remembered of the rows                                          *)

LEMMA RecoveryMovers ==
    ASSUME [Next]_vars, recoveries' # recoveries
    PROVE  PullReplace \/ SyncSave \/ SyncSavePending \/ OverwriteSave
<1>1. ~UNCHANGED vars
  BY DEF vars
<1>2. (\E p \in Paths, v \in Contents : Foreign(p, v)) => UNCHANGED recoveries
  BY Zenon DEF Foreign, disk
<1>3. Author => UNCHANGED recoveries
  BY DEF Author, Edit, EditAndCommit, ReadForWrite, StoreWrite, CommitLocalChanges,
     RestoreRecovery, disk
<1>4. ~(Crash \/ Fail \/ FetchFail \/ PushReplyLost \/ Fetch)
  BY DEF Crash, Fail, Abandon, FetchFail, PushReplyLost, Fetch, FetchStart, FetchMark,
     FetchResolve, FetchRecord, disk
<1>5. ~(Begin \/ Checking)
  <2>1. (\E force \in BOOLEAN : PullStart(force)) => UNCHANGED recoveries
    BY Zenon DEF PullStart, disk
  <2>2. (\E choice \in Resolutions : SyncStart(choice)) => UNCHANGED recoveries
    BY Zenon DEF SyncStart, disk
  <2>3. PushStart \/ OverwriteStart \/ Checking => UNCHANGED recoveries
    BY DEF PushStart, OverwriteStart, Checking, OpMark, OpResolve, OpCapture, disk
  <2>4. QED
    BY <2>1, <2>2, <2>3 DEF Begin
<1>6. ~(PullUnchanged \/ PullRefused \/ Push)
  BY DEF PullUnchanged, PullRefused, Push, PushPlan, PushLand, PushReconcile, PushSettle,
     PushRefused, Abandon, disk
<1>7. ~(SyncUnchanged \/ SyncConflicts \/ SyncMerge \/ SyncRefused)
  BY DEF SyncUnchanged, SyncConflicts, SyncMerge, SyncRefused, Abandon
<1>8. ~(SyncUncommit \/ SyncCommit \/ SyncPushStart \/ SyncReread \/ SyncFinish)
  BY DEF SyncUncommit, SyncCommit, SyncPushStart, SyncReread, SyncFinish, disk
<1>9. ~(OverwriteCount \/ OverwriteLand \/ OverwriteRefused \/ OverwriteSettle)
  BY DEF OverwriteCount, OverwriteLand, OverwriteRefused, OverwriteSettle, Abandon, disk
<1>10. ~(PublishPreflight \/ PublishCommit \/ PublishRefused \/ PublishPush)
  BY DEF PublishPreflight, PublishCommit, PublishRefused, PublishPush, disk
<1>11. ~(PublishReconcile \/ PublishRollback)
  BY DEF PublishReconcile, PublishRollback, disk
<1>12. (\E p \in Paths, v \in Contents : PublishRead(p, v)) => UNCHANGED recoveries
  BY Zenon DEF PublishRead, disk
<1>13. QED
  BY <1>1, <1>2, <1>3, <1>4, <1>5, <1>6, <1>7, <1>8, <1>9, <1>10, <1>11, <1>12
     DEF Next, Environment, Pull, Sync, Overwrite, PublishChange

LEMMA SavedHadKept ==
    ASSUME Inv, HadPart, [Next]_vars
    PROVE  SavedHad'
<1>1. \A i \in DOMAIN recoveries' :
          \/ \E j \in DOMAIN recoveries : recoveries'[i] = recoveries[j]
          \/ recoveries'[i].rows \in {rows, op.files}
  <2>1. CASE UNCHANGED recoveries
    BY <2>1
  <2>2. ASSUME NEW files \in {rows, op.files}, recoveries' = Retain(Snapshot(files))
        PROVE  \A i \in DOMAIN recoveries' :
                  \/ \E j \in DOMAIN recoveries : recoveries'[i] = recoveries[j]
                  \/ recoveries'[i].rows \in {rows, op.files}
    <3>1. \A i \in DOMAIN recoveries' :
              \/ recoveries'[i] = Snapshot(files)
              \/ \E j \in DOMAIN recoveries : recoveries'[i] = recoveries[j]
      BY <2>2, Retained
    <3>2. Snapshot(files).rows = files
      BY DEF Snapshot
    <3>3. QED
      BY <2>2, <3>1, <3>2
  <2>3. recoveries' # recoveries =>
            \E files \in {rows, op.files} : recoveries' = Retain(Snapshot(files))
    BY RecoveryMovers DEF PullReplace, SyncSave, SyncSavePending, OverwriteSave
  <2>4. QED
    BY <2>1, <2>2, <2>3
<1>2. ASSUME NEW i \in DOMAIN recoveries', NEW p \in Paths
      PROVE  Had(BaseOf(recoveries'[i].rows[p]), p)
  BY <1>1 DEF HadPart, RowsHad, FilesHad, SavedHad
<1>3. ASSUME NEW i \in DOMAIN recoveries', NEW p \in Paths,
             NEW content, content = BaseOf(recoveries'[i].rows[p])
      PROVE  Had(content, p)'
  BY <1>2, <1>3, HadGrows
<1>4. QED
  BY <1>3 DEF SavedHad, Had

LEMMA WriteMovers ==
    ASSUME [Next]_vars, writes' # writes
    PROVE  \/ StoreWrite \/ Crash
           \/ \E way \in {"scoped", "atomic"}, p \in Paths, v \in Contents : ReadForWrite(way, p, v)
<1>1. ~UNCHANGED vars
  BY DEF vars
<1>2. (\E p \in Paths, v \in Contents : Foreign(p, v)) => UNCHANGED writes
  BY Zenon DEF Foreign, tab
<1>3. (\E p \in Paths, v \in Contents : Edit(p, v) \/ EditAndCommit(p, v)) => UNCHANGED writes
  BY Zenon DEF Edit, EditAndCommit, tab
<1>4. ~(CommitLocalChanges \/ RestoreRecovery)
  BY DEF CommitLocalChanges, RestoreRecovery, tab
<1>5. ~(Fail \/ FetchFail \/ PushReplyLost \/ Fetch)
  BY DEF Fail, Abandon, FetchFail, PushReplyLost, Fetch, FetchStart, FetchMark, FetchResolve,
     FetchRecord
<1>6. ~(Begin \/ Checking)
  <2>1. (\E force \in BOOLEAN : PullStart(force)) => UNCHANGED writes
    BY Zenon DEF PullStart
  <2>2. (\E choice \in Resolutions : SyncStart(choice)) => UNCHANGED writes
    BY Zenon DEF SyncStart
  <2>3. PushStart \/ OverwriteStart \/ Checking => UNCHANGED writes
    BY DEF PushStart, OverwriteStart, Checking, OpMark, OpResolve, OpCapture
  <2>4. QED
    BY <2>1, <2>2, <2>3 DEF Begin
<1>7. ~(Pull \/ Push)
  BY DEF Pull, PullUnchanged, PullReplace, PullRefused, Push, PushPlan, PushLand, PushReconcile,
     PushSettle, PushRefused, Abandon
<1>8. ~Sync
  BY DEF Sync, SyncUnchanged, SyncConflicts, SyncSave, SyncMerge, SyncRefused, SyncSavePending,
     SyncUncommit, SyncCommit, SyncPushStart, SyncReread, SyncFinish, Abandon
<1>9. ~Overwrite
  BY DEF Overwrite, OverwriteCount, OverwriteSave, OverwriteLand, OverwriteRefused,
     OverwriteSettle, Abandon
<1>10. ~(PublishPreflight \/ PublishCommit \/ PublishRefused \/ PublishPush)
  BY DEF PublishPreflight, PublishCommit, PublishRefused, PublishPush
<1>11. ~(PublishReconcile \/ PublishRollback)
  BY DEF PublishReconcile, PublishRollback
<1>12. (\E p \in Paths, v \in Contents : PublishRead(p, v)) => UNCHANGED writes
  BY Zenon DEF PublishRead
<1>13. QED
  BY <1>1, <1>2, <1>3, <1>4, <1>5, <1>6, <1>7, <1>8, <1>9, <1>10, <1>11, <1>12
     DEF Next, Author, Environment, PublishChange

LEMMA WritesHadKept ==
    ASSUME Inv, HadPart, [Next]_vars
    PROVE  WritesHad'
<1>1. writes' \subseteq writes \/ \E w : writes' = {w} /\ w.path \in Paths /\ w.seen = rows[w.path]
  <2>1. CASE \E way \in {"scoped", "atomic"}, p \in Paths, v \in Contents : ReadForWrite(way, p, v)
    <3>1. PICK way \in {"scoped", "atomic"}, p \in Paths, v \in Contents : ReadForWrite(way, p, v)
      BY <2>1
    <3>2. writes' = {[way |-> way, path |-> p, seen |-> rows[p], value |-> v]}
      BY <3>1 DEF ReadForWrite
    <3>3. QED
      BY <3>2
  <2>2. CASE StoreWrite \/ Crash
    BY <2>2 DEF StoreWrite, Crash
  <2>3. CASE UNCHANGED writes
    BY <2>3
  <2>4. QED
    BY <2>1, <2>2, <2>3, WriteMovers
<1>2. ASSUME NEW w \in writes'
      PROVE  Had(BaseOf(w.seen), w.path)
  BY <1>1 DEF HadPart, WritesHad, RowsHad
<1>3. ASSUME NEW w \in writes'
      PROVE  Had(BaseOf(w.seen), w.path)'
  BY <1>2, HadGrows
<1>4. QED
  BY <1>3 DEF WritesHad

LEMMA SeenHadKept ==
    ASSUME Inv, HadPart, [Next]_vars
    PROVE  SeenHad'
<1>1. \/ publish'.seen = publish.seen /\ publish'.path = publish.path
      \/ publish'.seen = NoRow
      \/ publish'.path \in Paths /\ publish'.seen = rows[publish'.path]
  <2>1. CASE \E p \in Paths, v \in Contents : PublishRead(p, v)
    <3>1. PICK p \in Paths, v \in Contents : PublishRead(p, v)
      BY <2>1
    <3>2. publish' = [publish EXCEPT !.phase = "read", !.path = p, !.value = v,
                         !.seen = IF Gone(rows[p]) THEN NoRow ELSE rows[p]]
      BY <3>1 DEF PublishRead
    <3>3. publish'.path = p /\ publish'.seen \in {NoRow, rows[p]}
      BY <3>2 DEF Inv, PublishPart, Publications
    <3>4. QED
      BY <3>3
  <2>2. CASE UNCHANGED publish
    BY <2>2
  <2>3. CASE publish' = NoPublish \/ PublishPreflight
    <3>1. publish'.seen = NoPublish.seen
      BY <2>3 DEF NoPublish, PublishPreflight
    <3>2. NoPublish.seen = NoRow
      BY DEF NoPublish
    <3>3. QED
      BY <3>1, <3>2
  <2>4. CASE \E outcomes : Abandon(outcomes)
    <3>1. \/ UNCHANGED publish
          \/ publish' = NoPublish
          \/ publish' = [publish EXCEPT !.phase = "failed", !.landed =
                                   IF op.phase = "ambiguous" THEN op.landed ELSE 0]
      BY <2>4 DEF Abandon
    <3>2. NoPublish.seen = NoRow
      BY DEF NoPublish
    <3>3. publish'.seen \in {publish.seen, NoPublish.seen}
          /\ (publish'.seen # NoPublish.seen => publish'.path = publish.path)
      BY <3>1 DEF Inv, PublishPart, Publications
    <3>4. QED
      BY <3>2, <3>3
  <2>5. CASE PublishCommit \/ PublishPush
    BY <2>5 DEF PublishCommit, PublishPush, Inv, PublishPart, Publications
  <2>6. QED
    BY <2>1, <2>2, <2>3, <2>4, <2>5, PublicationMovers
<1>2. Had(BaseOf(publish'.seen), publish'.path)
  BY <1>1 DEF HadPart, SeenHad, RowsHad, BaseOf, Had
<1>3. ASSUME NEW content, NEW path, content = BaseOf(publish'.seen), path = publish'.path
      PROVE  Had(content, path)'
  BY <1>2, <1>3, HadGrows
<1>4. QED
  BY <1>3 DEF SeenHad, Had

-----------------------------------------------------------------------------
(* What is sent                                                            *)

\* A step that starts no push, lands nothing and settles nothing
LEMMA OpSteps ==
    ASSUME Inv, [Next]_vars
    PROVE  \/ UNCHANGED op
           \/ PushPlan \/ PushLand \/ PushReplyLost \/ PushReconcile \/ OverwriteLand
           \/ /\ op'.files \in {op.files, rows, NoOp.files}
              /\ op'.phase \notin {"planned", "ambiguous", "landed"}
              /\ op'.phase = "listed" => op'.kind \in {"push", "sync"}
<1> DEFINE Other == /\ op'.files \in {op.files, rows, NoOp.files}
                    /\ op'.phase \notin {"planned", "ambiguous", "landed"}
                    /\ op'.phase = "listed" => op'.kind \in {"push", "sync"}
<1>1. op' = NoOp => Other
  BY DEF NoOp
<1>2. op \in Operations
  BY DEF Inv, OpPart
<1>3. CASE UNCHANGED vars
  BY <1>3 DEF vars
<1>4. CASE Author
  BY <1>4 DEF Author, Edit, EditAndCommit, ReadForWrite, StoreWrite, CommitLocalChanges,
     RestoreRecovery, tab
<1>5. CASE Environment
  <2>1. (\E p \in Paths, v \in Contents : Foreign(p, v)) => UNCHANGED op
    BY Zenon DEF Foreign, tab
  <2>2. FetchFail => UNCHANGED op
    BY DEF FetchFail
  <2>3. Crash \/ Fail => op' = NoOp
    BY DEF Crash, Fail, Abandon
  <2>4. QED
    BY <1>1, <1>5, <2>1, <2>2, <2>3 DEF Environment
<1>6. CASE Fetch
  BY <1>6 DEF Fetch, FetchStart, FetchMark, FetchResolve, FetchRecord
<1>7. CASE Begin
  <2>1. CASE \E force \in BOOLEAN : PullStart(force)
    BY <2>1 DEF PullStart, NoOp
  <2>2. CASE \E choice \in Resolutions : SyncStart(choice)
    BY <2>2 DEF SyncStart, NoOp
  <2>3. CASE PushStart
    BY <2>3 DEF PushStart, NoOp
  <2>4. CASE OverwriteStart
    BY <2>4 DEF OverwriteStart, NoOp
  <2>5. QED
    BY <1>7, <2>1, <2>2, <2>3, <2>4 DEF Begin
<1>8. CASE Checking
  <2>1. CASE OpMark \/ OpResolve
    BY <1>2, <2>1 DEF OpMark, OpResolve, Operations
  <2>2. CASE OpCapture
    BY <1>2, <2>2 DEF OpCapture, Operations
  <2>3. QED
    BY <1>8, <2>1, <2>2 DEF Checking
<1>9. CASE Pull
  BY <1>1, <1>9 DEF Pull, PullUnchanged, PullReplace, PullRefused, Abandon
<1>10. CASE PushSettle \/ PushRefused
  <2>1. CASE op' = Step("published")
    BY <1>2, <2>1 DEF Step, Operations
  <2>2. QED
    BY <1>1, <1>10, <2>1 DEF PushSettle, PushRefused, Abandon
<1>11. CASE Sync
  <2>1. CASE SyncUnchanged \/ SyncSave \/ SyncMerge \/ SyncCommit
    BY <1>2, <2>1 DEF SyncUnchanged, SyncSave, SyncMerge, SyncCommit, Step, Operations
  <2>2. CASE SyncSavePending \/ SyncUncommit
    BY <1>2, <2>2 DEF SyncSavePending, SyncUncommit, Operations
  <2>3. CASE SyncPushStart \/ SyncReread
    BY <1>2, <2>3 DEF SyncPushStart, SyncReread, Operations
  <2>4. CASE SyncConflicts \/ SyncRefused \/ SyncFinish
    BY <1>1, <2>4 DEF SyncConflicts, SyncRefused, SyncFinish, Abandon
  <2>5. QED
    BY <1>11, <2>1, <2>2, <2>3, <2>4 DEF Sync
<1>12. CASE OverwriteCount \/ OverwriteSave \/ OverwriteRefused \/ OverwriteSettle
  <2>1. CASE OverwriteCount \/ OverwriteSave
    BY <1>2, <2>1 DEF OverwriteCount, OverwriteSave, Step, Operations
  <2>2. QED
    BY <1>1, <1>12, <2>1 DEF OverwriteRefused, OverwriteSettle, Abandon
<1>13. CASE PublishChange
  <2>1. CASE PublishPush
    BY <2>1 DEF PublishPush, NoOp
  <2>2. (\E p \in Paths, v \in Contents : PublishRead(p, v)) => UNCHANGED op
    BY Zenon DEF PublishRead
  <2>3. PublishPreflight \/ PublishCommit \/ PublishRefused => UNCHANGED op
    BY DEF PublishPreflight, PublishCommit, PublishRefused
  <2>4. PublishReconcile \/ PublishRollback => UNCHANGED op
    BY DEF PublishReconcile, PublishRollback
  <2>5. QED
    BY <1>13, <2>1, <2>2, <2>3, <2>4 DEF PublishChange
<1>14. QED
  BY <1>3, <1>4, <1>5, <1>6, <1>7, <1>8, <1>9, <1>10, <1>11, <1>12, <1>13, Zenon
     DEF Next, Environment, Push, Overwrite

LEMMA FilesHadKept ==
    ASSUME Inv, HadPart, [Next]_vars
    PROVE  FilesHad'
<1>1. op'.files \in {op.files, rows, NoOp.files}
  <2>1. op \in Operations
    BY DEF Inv, OpPart
  <2>2. CASE PushPlan
    BY <2>1, <2>2 DEF PushPlan, Operations
  <2>3. CASE PushLand \/ PushReplyLost \/ PushReconcile
    BY <2>1, <2>3 DEF PushLand, PushReplyLost, PushReconcile, Operations
  <2>4. CASE OverwriteLand
    BY <2>1, <2>4 DEF OverwriteLand, Operations
  <2>5. QED
    BY <2>2, <2>3, <2>4, OpSteps
<1>2. ASSUME NEW p \in Paths
      PROVE  Had(BaseOf(op'.files[p]), p)
  <2>1. NoOp.files[p] = NoRow
    BY DEF NoOp
  <2>2. QED
    BY <1>1, <2>1 DEF HadPart, RowsHad, FilesHad, BaseOf, Had
<1>3. ASSUME NEW p \in Paths, NEW content, content = BaseOf(op'.files[p])
      PROVE  Had(content, p)'
  BY <1>2, <1>3, HadGrows
<1>4. QED
  BY <1>3 DEF FilesHad, Had

\* The operation keeps what it sends, and the branch may only have grown
LEMMA SentHadKept ==
    ASSUME Inv, HadPart, [Next]_vars, UNCHANGED <<op>>
    PROVE  SentHad'
<1>1. Pushed' = Pushed /\ \A p \in Paths : EntryOf(p)' = EntryOf(p) /\ Outgoing(p)' = Outgoing(p)
  BY DEF Pushed, EntryOf, Outgoing
<1>2. ASSUME NEW p \in Paths, NEW content, content = Outgoing(p), Had(content, p)
      PROVE  Had(Outgoing(p), p)'
  BY <1>1, <1>2, HadGrows DEF Had
<1>3. ASSUME NEW p \in Paths, NEW content, content = View(op.files[p]), Had(content, p)
      PROVE  Had(View(op.files[p]), p)'
  BY <1>3, HadGrows DEF Had
<1>4. Pushed \subseteq Paths
  BY DEF Pushed
<1>5. \A p \in Pushed : Had(Outgoing(p), p) => Had(Outgoing(p), p)'
  BY <1>2, <1>4
<1>6. \A p \in Paths : Had(View(op.files[p]), p) => Had(View(op.files[p]), p)'
  BY <1>3
<1>7. op.phase \in {"planned", "ambiguous", "landed"} /\ op.kind # "overwrite" =>
          \A p \in Pushed : MatchesCommit(op.files[p], EntryOf(p))'
  BY <1>1, <1>4 DEF HadPart, SentHad
<1>8. QED
  BY <1>1, <1>5, <1>6, <1>7 DEF HadPart, SentHad

LEMMA PlanSent ==
    ASSUME Inv, HadPart, PushPlan
    PROVE  SentHad'
<1>1. /\ op'.kind = op.kind /\ op.kind \in {"push", "sync"}
      /\ op'.phase = IF \E p \in Paths : Sent(p) THEN "planned" ELSE "landed"
      /\ op'.files = rows /\ op'.pending = op.pending
  BY DEF PushPlan, HadPart, SentHad, Inv, OpPart, Operations
<1>2. Pushed' = Pushed /\ \A p \in Paths : EntryOf(p)' = EntryOf(p)
  BY <1>1 DEF Pushed, EntryOf
<1>3. \A p \in Pushed : MatchesCommit(rows[p], EntryOf(p))
  BY DEF PushPlan, MayPush
<1>4. \A p \in Pushed' : MatchesCommit(op.files[p], EntryOf(p))'
  BY <1>1, <1>2, <1>3 DEF Pushed
<1>5. ASSUME op'.phase = "landed", NEW p \in Pushed
      PROVE  Outgoing(p)' = Absent
  <2>1. p \in Paths /\ EntryOf(p).status = "deleted"
    BY <1>1, <1>5 DEF Sent, Pushed
  <2>2. QED
    BY <1>2, <2>1 DEF Outgoing
<1>6. op'.phase = "landed" => \A p \in Pushed' : Had(Outgoing(p), p)'
  BY <1>2, <1>5 DEF Had
<1>7. QED
  BY <1>1, <1>4, <1>6 DEF SentHad

LEMMA LandSent ==
    ASSUME Inv, HadPart, [Next]_vars, PushLand \/ PushReplyLost
    PROVE  SentHad'
<1>1. /\ op'.kind = op.kind /\ op.kind \in {"push", "sync"} /\ op.phase = "planned"
      /\ op'.phase \in {"landed", "ambiguous"}
      /\ op'.files = op.files /\ op'.pending = op.pending
      /\ branch' = Append(branch, PushedTree)
  BY DEF PushLand, PushReplyLost, Publish, Inv, OpPart, Operations
<1>2. PushedTree \in Trees
  BY <1>1, PushedTreeType DEF PushLand, PushReplyLost, Publish
<1>3. Tip' = Tip + 1 /\ branch'[Tip + 1] = PushedTree /\ Tip + 1 \in 1..Tip'
  BY <1>1, <1>2, HeadRange DEF Inv, HeadPart, Tip
<1>4. Pushed' = Pushed /\ \A p \in Paths : EntryOf(p)' = EntryOf(p) /\ Outgoing(p)' = Outgoing(p)
  BY <1>1 DEF Pushed, EntryOf, Outgoing
<1>5. \A p \in Pushed : MatchesCommit(op.files[p], EntryOf(p))
  BY <1>1 DEF HadPart, SentHad
<1>6. \A p \in Pushed' : MatchesCommit(op.files[p], EntryOf(p))'
  BY <1>1, <1>4, <1>5 DEF Pushed
<1>7. ASSUME NEW p \in Pushed
      PROVE  p \in Paths /\ branch'[Tip + 1][p] = Outgoing(p)'
  BY <1>3, <1>4 DEF PushedTree, Pushed
<1>8. \A p \in Pushed' : Had(Outgoing(p), p)'
  BY <1>3, <1>4, <1>7 DEF Had
<1>9. QED
  BY <1>1, <1>6, <1>8 DEF SentHad

LEMMA ReconcileSent ==
    ASSUME Inv, HadPart, [Next]_vars, PushReconcile
    PROVE  SentHad'
<1>1. /\ op'.kind = op.kind /\ op.kind \in {"push", "sync"} /\ op.phase = "ambiguous"
      /\ op'.phase = "landed" /\ op'.files = op.files /\ op'.pending = op.pending
      /\ UNCHANGED branch
  BY DEF PushReconcile, HadPart, SentHad, Inv, OpPart, Operations
<1>2. Tip' = Tip
  BY <1>1 DEF Tip
<1>3. Pushed' = Pushed /\ \A p \in Paths : EntryOf(p)' = EntryOf(p) /\ Outgoing(p)' = Outgoing(p)
  BY <1>1 DEF Pushed, EntryOf, Outgoing
<1>4. \A p \in Pushed : MatchesCommit(op.files[p], EntryOf(p)) /\ Had(Outgoing(p), p)
  BY <1>1 DEF HadPart, SentHad
<1>5. \A p \in Pushed' : MatchesCommit(op.files[p], EntryOf(p))' /\ Had(Outgoing(p), p)'
  BY <1>1, <1>2, <1>3, <1>4 DEF Pushed, Had
<1>6. QED
  BY <1>1, <1>5 DEF SentHad

LEMMA OverwriteSent ==
    ASSUME Inv, HadPart, [Next]_vars, OverwriteLand
    PROVE  SentHad'
<1>1. CASE op' = NoOp
  BY <1>1 DEF NoOp, SentHad
<1>2. CASE op' # NoOp
  <2> DEFINE tree == [p \in Paths |-> View(op.files[p])]
  <2>1. /\ op'.kind = "overwrite" /\ op'.phase = "landed" /\ op'.files = op.files
        /\ branch' = Append(branch, tree)
    BY <1>2 DEF OverwriteLand, Publish, Inv, OpPart, Operations
  <2>2. tree \in Trees
    BY DEF Inv, OpPart, GoodFiles, GoodRows, View, Gone, Row, Contents, Trees
  <2>3. Tip' = Tip + 1 /\ branch'[Tip + 1] = tree /\ Tip + 1 \in 1..Tip'
    BY <2>1, <2>2, HeadRange DEF Inv, HeadPart, Tip
  <2>4. \A p \in Paths : branch'[Tip + 1][p] = View(op'.files[p])
    BY <2>1, <2>3
  <2>5. \A p \in Paths : Had(View(op.files[p]), p)'
    BY <2>3, <2>4 DEF Had
  <2>6. QED
    BY <2>1, <2>5 DEF SentHad
<1>3. QED
  BY <1>1, <1>2

LEMMA HadInductive ==
    ASSUME Inv, OwnPart, HadPart, [Next]_vars
    PROVE  HadPart'
<1>1. RowsHad' /\ SavedHad' /\ FilesHad' /\ WritesHad' /\ SeenHad'
  BY RowsHadKept, SavedHadKept, FilesHadKept, WritesHadKept, SeenHadKept
<1>2. SentHad'
  <2>1. CASE /\ op'.phase \notin {"planned", "ambiguous", "landed"}
             /\ op'.phase = "listed" => op'.kind \in {"push", "sync"}
    BY <2>1 DEF SentHad
  <2>2. QED
    BY <2>1, OpSteps, SentHadKept, PlanSent, LandSent, ReconcileSent, OverwriteSent
<1>3. QED
  BY <1>1, <1>2 DEF HadPart

\* Nothing counts as published that GitHub never had: whatever a pull, a push,
\* a full sync, a local-source overwrite, a confirmed change or a restore
\* declares settled, and in whatever order their transactions meet the
\* author's, a file with nothing local shows what a commit of the branch held.
THEOREM CleanAlwaysPublished == Spec => []CleanWasPublished
<1>1. Init => HadPart
  <2> SUFFICES ASSUME Init PROVE HadPart
    OBVIOUS
  <2>1. /\ op = NoOp /\ writes = {} /\ recoveries = <<>> /\ publish = NoPublish
        /\ Tip = 1
    BY DEF Init, Tip
  <2>2. RowsHad
    <3> SUFFICES ASSUME NEW p \in Paths PROVE Had(BaseOf(rows[p]), p)
      BY Zenon DEF RowsHad
    <3>1. rows[p] = NoRow \/ rows[p] = CleanRow(branch[1][p])
      BY DEF Init
    <3>2. BaseOf(rows[p]) \in {Absent, branch[1][p]}
      BY <3>1 DEF BaseOf, CleanRow
    <3>3. QED
      BY <2>1, <3>2 DEF Had
  <2>3. SavedHad /\ WritesHad
    BY <2>1 DEF SavedHad, WritesHad
  <2>4. FilesHad
    <3>1. ASSUME NEW p \in Paths PROVE Had(BaseOf(op.files[p]), p)
      <4>1. op.files[p] = NoRow
        BY <2>1 DEF NoOp
      <4>2. BaseOf(op.files[p]) = Absent
        BY <4>1 DEF BaseOf
      <4>3. QED
        BY <4>2, Zenon DEF Had
    <3>2. QED
      BY <3>1, Zenon DEF FilesHad
  <2>5. SeenHad
    BY <2>1 DEF SeenHad, NoPublish, BaseOf, Had
  <2>6. SentHad
    BY <2>1 DEF SentHad, NoOp
  <2>7. QED
    BY <2>2, <2>3, <2>4, <2>5, <2>6 DEF HadPart
<1>2. Inv /\ OwnPart /\ HadPart /\ [Next]_vars => HadPart'
  BY HadInductive
<1>3. Inv /\ HadPart => CleanWasPublished
  BY HadImplies
<1>4. QED
  BY <1>1, <1>2, <1>3, AlwaysInv, AlwaysOwn, PTL DEF Spec
=============================================================================
