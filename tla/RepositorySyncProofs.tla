------------------------ MODULE RepositorySyncProofs ------------------------
(***************************************************************************)
(* RepositorySync for every number of paths, contents and bounds: the type *)
(* invariant, and that every stored row is well formed.                    *)
(***************************************************************************)
EXTENDS RepositorySync, TLAPS, WellFoundedInduction

\* What the files store may hold at a path, and a whole files store of it
GoodRows == {row \in Row \cup {NoRow} : WellFormed(row)}
GoodFiles == [Paths -> GoodRows]

-----------------------------------------------------------------------------
(* Every operator of WorkingCopy turns good rows into good rows            *)

LEMMA NoRowIsGood == NoRow \in GoodRows
BY DEF GoodRows, WellFormed

LEMMA CleanRowIsGood ==
    ASSUME NEW value \in Values
    PROVE  CleanRow(value) \in GoodRows
BY NoRowAssumption DEF GoodRows, WellFormed, CleanRow, Row, Status, Contents

LEMMA StatusAfterWriteType ==
    ASSUME NEW row \in GoodRows, NEW value \in Values
    PROVE  /\ StatusAfterWrite(row, value) \in Status \ {"deleted"}
           /\ StatusAfterWrite(row, value) = "clean" => row # NoRow /\ row.base = value
BY DEF StatusAfterWrite, Status

LEMMA WrittenIsGood ==
    ASSUME NEW row \in GoodRows, NEW value \in Values
    PROVE  Written(row, value) \in GoodRows
BY StatusAfterWriteType, NoRowAssumption
   DEF GoodRows, WellFormed, Written, BaseOf, Row, Status, Contents

LEMMA ReplacedIsGood ==
    ASSUME NEW row \in GoodRows, NEW value \in Values
    PROVE  Replaced(row, value) \in GoodRows
<1>1. Written(row, value) \in Row /\ ~Written(row, value).committed
  BY StatusAfterWriteType, NoRowAssumption
     DEF Written, GoodRows, BaseOf, Row, Status, Contents
<1>2. BaseOf(row) # value => Written(row, value).status # "clean"
  BY StatusAfterWriteType DEF Written, BaseOf
<1>3. QED
  BY <1>1, <1>2, NoRowAssumption DEF Replaced, GoodRows, WellFormed, Row, Status

LEMMA DeletedIsGood ==
    ASSUME NEW row \in GoodRows, row # NoRow, NEW committed \in BOOLEAN
    PROVE  Deleted(row, committed) \in GoodRows
BY NoRowAssumption DEF GoodRows, WellFormed, Deleted, Row, Status

LEMMA MutatedIsGood ==
    ASSUME NEW row \in GoodRows, NEW value \in Contents, NEW commit \in BOOLEAN
    PROVE  Mutated(row, value, commit) \in GoodRows
<1>1. CASE Unaffected(row, value)
  BY <1>1 DEF Mutated
<1>2. CASE ~Unaffected(row, value) /\ value = Absent
  BY <1>2, DeletedIsGood DEF Mutated, Unaffected, Gone
<1>3. CASE ~Unaffected(row, value) /\ value # Absent
  <2>1. value \in Values
    BY <1>3 DEF Contents
  <2>2. BaseOf(row) \in Contents
    BY DEF BaseOf, GoodRows, Row, Contents
  <2>3. QED
    BY <1>3, <2>1, <2>2, StatusAfterWriteType, NoRowAssumption
       DEF Mutated, GoodRows, WellFormed, Row, Status, BaseOf
<1>4. QED
  BY <1>1, <1>2, <1>3

LEMMA MutationEntryType ==
    ASSUME NEW row \in GoodRows, NEW value \in Contents
    PROVE  MutationEntry(row, value) \in Entry \cup {NoEntry}
<1>1. CASE Unaffected(row, value)
  BY <1>1 DEF MutationEntry
<1>2. CASE ~Unaffected(row, value) /\ value = Absent
  BY <1>2 DEF MutationEntry, Unaffected, Gone, GoodRows, Row, Entry, Status
<1>3. CASE ~Unaffected(row, value) /\ value # Absent
  BY <1>3, StatusAfterWriteType DEF MutationEntry, Contents, Entry, Status
<1>4. QED
  BY <1>1, <1>2, <1>3

LEMMA CommittedRowIsGood ==
    ASSUME NEW row \in GoodRows
    PROVE  CommittedRow(row) \in GoodRows
BY NoRowAssumption DEF CommittedRow, Dirty, GoodRows, WellFormed, Row, Status

LEMMA CommitEntryType ==
    ASSUME NEW row \in GoodRows
    PROVE  CommitEntry(row) \in Entry \cup {NoEntry}
BY DEF CommitEntry, Dirty, GoodRows, Row, Entry, Status

LEMMA UncommittedIsGood ==
    ASSUME NEW row \in GoodRows, NEW entry \in Entry \cup {NoEntry}
    PROVE  Uncommitted(row, entry) \in GoodRows
BY NoRowAssumption
   DEF Uncommitted, MatchesCommit, GoodRows, WellFormed, Row, Entry, Status

LEMMA SettledIsGood ==
    ASSUME NEW row \in GoodRows, NEW entry \in Entry \cup {NoEntry},
           NEW pushed \in Contents
    PROVE  Settled(row, entry, pushed) \in GoodRows
<1>1. CASE row = NoRow \/ entry = NoEntry
  BY <1>1 DEF Settled
<1>2. CASE row # NoRow /\ entry # NoEntry /\ MatchesCommit(row, entry)
  BY <1>2, NoRowIsGood, NoRowAssumption
     DEF Settled, GoodRows, WellFormed, Row, Status, Contents
<1>3. CASE row # NoRow /\ entry # NoEntry /\ ~MatchesCommit(row, entry)
  BY <1>3, NoRowAssumption
     DEF Settled, GoodRows, WellFormed, Row, Status, Contents, Entry
<1>4. QED
  BY <1>1, <1>2, <1>3

LEMMA OverwriteSettledIsGood ==
    ASSUME NEW expected \in GoodRows, NEW row \in GoodRows
    PROVE  OverwriteSettled(expected, row) \in GoodRows
<1>1. CASE expected = NoRow
  BY <1>1 DEF OverwriteSettled
<1>2. CASE expected # NoRow /\ expected.status = "deleted"
  BY <1>2, NoRowIsGood, NoRowAssumption
     DEF OverwriteSettled, GoodRows, WellFormed, Row, Status, Contents
<1>3. CASE expected # NoRow /\ expected.status # "deleted" /\ row = NoRow
  BY <1>3, NoRowAssumption
     DEF OverwriteSettled, GoodRows, WellFormed, Row, Status, Contents
<1>4. CASE expected # NoRow /\ expected.status # "deleted" /\ row # NoRow
  BY <1>4, NoRowAssumption
     DEF OverwriteSettled, GoodRows, WellFormed, Version, Row, Status, Contents
<1>5. QED
  BY <1>1, <1>2, <1>3, <1>4

LEMMA PulledIsGood ==
    ASSUME NEW captured \in GoodRows, NEW remote \in Contents
    PROVE  Pulled(captured, remote) \in GoodRows
BY NoRowIsGood, NoRowAssumption
   DEF Pulled, CleanRow, LocalChanged, GoodRows, WellFormed, Row, Status, Contents

LEMMA MergedIsGood ==
    ASSUME NEW choice \in Choices, NEW captured \in GoodRows, NEW row \in GoodRows,
           NEW remote \in Contents
    PROVE  Merged(Resolved(choice, captured, remote), row, remote) \in GoodRows
<1>1. Resolved(choice, captured, remote) = "write" => remote \in Values
  BY DEF Resolved, Plan, Choices, Contents, LocalChanged, BaseOf, View, Gone
<1>2. QED
  BY <1>1, NoRowIsGood, CleanRowIsGood DEF Merged

-----------------------------------------------------------------------------
(* Local commits                                                           *)

\* Commits that touch a path have a last one, whatever keys they have
LEMMA LastByKey ==
    ASSUME NEW cs \in SUBSET Commits, NEW path \in Paths, Touching(cs, path) # {},
           NEW key \in [cs -> 1..MaxOrder]
    PROVE  \E c \in Touching(cs, path) : \A d \in Touching(cs, path) : key[d] <= key[c]
<1> DEFINE Rest == {MaxOrder - key[c] : c \in Touching(cs, path)}
<1>1. \A c \in Touching(cs, path) : key[c] \in 1..MaxOrder
  BY DEF Touching
<1>2. Rest \subseteq Nat /\ Rest # {}
  BY <1>1, BoundAssumption
<1>3. PICK x \in Rest : \A y \in Rest : ~(<<y, x>> \in OpToRel(<, Nat))
  BY <1>2, WFMin, NatLessThanWellFounded
<1>4. \A y \in Rest : ~(y < x)
  BY <1>2, <1>3 DEF OpToRel
<1>5. PICK c \in Touching(cs, path) : x = MaxOrder - key[c]
  OBVIOUS
<1>6. \A d \in Touching(cs, path) : key[d] <= key[c]
  <2>1. TAKE d \in Touching(cs, path)
  <2>2. MaxOrder - key[d] \in Rest
    OBVIOUS
  <2>3. ~(MaxOrder - key[d] < MaxOrder - key[c])
    BY <1>4, <1>5, <2>2
  <2>4. QED
    BY <1>1, <2>3, BoundAssumption
<1>7. QED
  BY <1>6

\* ... their orders, for one
LEMMA LastTouching ==
    ASSUME NEW cs \in SUBSET Commits, NEW path \in Paths, Touching(cs, path) # {}
    PROVE  \E c \in Touching(cs, path) : \A d \in Touching(cs, path) : d.order <= c.order
<1> DEFINE key == [c \in cs |-> c.order]
<1>1. key \in [cs -> 1..MaxOrder]
  BY DEF Commits
<1>2. \A c \in Touching(cs, path) : key[c] = c.order
  BY DEF Touching
<1> HIDE DEF key
<1>3. QED
  BY <1>1, <1>2, LastByKey

\* An entry read in any sequence is one of the commits'
LEMMA LastReadType ==
    ASSUME NEW cs \in SUBSET Commits, NEW path \in Paths, NEW key \in KeyOrders(cs)
    PROVE  LastRead(cs, key, path) \in Entry \cup {NoEntry}
<1>1. CASE Touching(cs, path) = {}
  BY <1>1 DEF LastRead
<1>2. CASE Touching(cs, path) # {}
  <2> DEFINE last == CHOOSE c \in Touching(cs, path) :
                        \A d \in Touching(cs, path) : key[d] <= key[c]
  <2>1. key \in [cs -> 1..MaxOrder]
    BY DEF KeyOrders, Commits
  <2>2. last \in Touching(cs, path)
    BY <1>2, <2>1, LastByKey
  <2>3. last \in Commits
    BY <2>2 DEF Touching
  <2>4. last.files[path] \in Entry \cup {NoEntry}
    BY <2>3 DEF Commits
  <2>5. QED
    BY <1>2, <2>4 DEF LastRead
<1>3. QED
  BY <1>1, <1>2

LEMMA LatestEntryType ==
    ASSUME NEW cs \in SUBSET Commits, NEW path \in Paths
    PROVE  LatestEntry(cs, path) \in Entry \cup {NoEntry}
<1>1. CASE Touching(cs, path) = {}
  BY <1>1 DEF LatestEntry
<1>2. CASE Touching(cs, path) # {}
  <2> DEFINE last == CHOOSE c \in Touching(cs, path) :
                        \A d \in Touching(cs, path) : d.order <= c.order
  <2>1. last \in Touching(cs, path)
    BY <1>2, LastTouching
  <2>2. last \in Commits
    BY <2>1 DEF Touching
  <2>3. last.files[path] \in Entry \cup {NoEntry}
    BY <2>2 DEF Commits
  <2>4. QED
    BY <1>2, <2>3 DEF LatestEntry
<1>3. QED
  BY <1>1, <1>2

-----------------------------------------------------------------------------
(* The inductive invariant.  Rows also live in what the running operations *)
(* have read earlier: whatever they store later must be good as well.  A   *)
(* push reads the content it publishes from rows that must exist.          *)

RowsPart == rows \in GoodFiles
CommitsPart == commits \in SUBSET Commits
HeadPart == branch \in Seq(Trees) /\ known \in 1..Tip /\ remoteStatus \in RemoteStatus
RecoveriesPart ==
    /\ recoveries \in Seq(Snapshots)
    /\ \A i \in DOMAIN recoveries : recoveries[i].rows \in GoodFiles
OpPart ==
    /\ op \in Operations
    /\ op.files \in GoodFiles
    /\ op.kind \in {"push", "sync"} /\ op.phase \in {"planned", "ambiguous", "landed"} =>
          \A p \in Pushed : op.files[p] # NoRow
FetchPart == fetch \in Fetches
WritesPart == writes \in SUBSET PendingWrites /\ \A w \in writes : w.seen \in GoodRows
PublishPart ==
    /\ publish \in Publications
    /\ publish.seen \in GoodRows
    /\ publish.phase \notin {"idle", "ready"} => publish.path \in Paths
ShownPart == shown \in SUBSET Conflicts
BoundsPart == work \in Nat /\ trouble \in Nat
AgreedPart == agreed \in [Paths -> SUBSET Contents]

Inv ==
    /\ RowsPart /\ CommitsPart /\ HeadPart /\ RecoveriesPart /\ OpPart /\ FetchPart
    /\ WritesPart /\ PublishPart /\ ShownPart /\ BoundsPart /\ AgreedPart

LEMMA InvImplies == Inv => TypeOK /\ RowsWellFormed
<1>1. GoodFiles \subseteq Files
  BY DEF GoodFiles, GoodRows, Files
<1>2. Inv => TypeOK
  BY <1>1 DEF Inv, RowsPart, CommitsPart, HeadPart, RecoveriesPart, OpPart, FetchPart,
     WritesPart, PublishPart, ShownPart, BoundsPart, AgreedPart, TypeOK
<1>3. Inv => RowsWellFormed
  BY DEF Inv, RowsPart, RecoveriesPart, RowsWellFormed, GoodFiles, GoodRows
<1>4. QED
  BY <1>2, <1>3

\* What a step leaves alone stays as it should be
LEMMA Frame ==
    ASSUME Inv, UNCHANGED branch
    PROVE  /\ UNCHANGED rows => RowsPart'
           /\ UNCHANGED commits => CommitsPart'
           /\ UNCHANGED <<known, remoteStatus>> => HeadPart'
           /\ UNCHANGED recoveries => RecoveriesPart'
           /\ UNCHANGED op => OpPart'
           /\ UNCHANGED fetch => FetchPart'
           /\ UNCHANGED writes => WritesPart'
           /\ UNCHANGED publish => PublishPart'
           /\ UNCHANGED shown => ShownPart'
           /\ UNCHANGED <<work, trouble>> => BoundsPart'
           /\ UNCHANGED agreed => AgreedPart'
<1>1. Tip' = Tip
  BY DEF Tip
<1>2. UNCHANGED op => OpPart'
  BY <1>1 DEF Inv, OpPart, Operations, Pushed, EntryOf
<1>3. UNCHANGED recoveries => RecoveriesPart'
  BY <1>1 DEF Inv, RecoveriesPart, Snapshots
<1>4. UNCHANGED fetch => FetchPart'
  BY <1>1 DEF Inv, FetchPart, Fetches
<1>5. UNCHANGED publish => PublishPart'
  BY <1>1 DEF Inv, PublishPart, Publications
<1>6. UNCHANGED <<known, remoteStatus>> => HeadPart'
  BY <1>1 DEF Inv, HeadPart
<1>7. QED
  BY <1>2, <1>3, <1>4, <1>5, <1>6
     DEF Inv, RowsPart, CommitsPart, WritesPart, ShownPart, BoundsPart, AgreedPart

\* A longer branch keeps every position in it
LEMMA Growth ==
    ASSUME Inv, NEW tree \in Trees, branch' = Append(branch, tree)
    PROVE  /\ Tip' = Tip + 1
           /\ Tip \in Nat \ {0}
           /\ branch' \in Seq(Trees)
           /\ UNCHANGED <<known, remoteStatus>> => HeadPart'
           /\ UNCHANGED recoveries => RecoveriesPart'
           /\ UNCHANGED op => OpPart'
           /\ UNCHANGED fetch => FetchPart'
           /\ UNCHANGED publish => PublishPart'
           /\ Operations \subseteq Operations'
<1>1. branch' \in Seq(Trees) /\ Tip' = Tip + 1 /\ Tip \in Nat \ {0}
  BY DEF Inv, HeadPart, Tip
<1>2. 1..Tip \subseteq 1..Tip' /\ 0..Tip \subseteq 0..Tip'
  BY <1>1
<1>3. Operations \subseteq Operations'
  BY <1>2 DEF Operations
<1>4. UNCHANGED op => OpPart'
  BY <1>3 DEF Inv, OpPart, Pushed, EntryOf
<1>5. Snapshots \subseteq Snapshots'
  BY <1>2 DEF Snapshots
<1>6. UNCHANGED recoveries => RecoveriesPart'
  BY <1>5 DEF Inv, RecoveriesPart
<1>7. UNCHANGED fetch => FetchPart'
  BY <1>2 DEF Inv, FetchPart, Fetches
<1>8. UNCHANGED publish => PublishPart'
  BY <1>2 DEF Inv, PublishPart, Publications
<1>9. UNCHANGED <<known, remoteStatus>> => HeadPart'
  BY <1>1, <1>2 DEF Inv, HeadPart
<1>10. QED
  BY <1>1, <1>3, <1>4, <1>6, <1>7, <1>8, <1>9

LEMMA HeadRange == Inv => Tip \in Nat \ {0} /\ 1 \in 1..Tip /\ Tip \in 1..Tip
BY DEF Inv, HeadPart, Tip

LEMMA TreeType ==
    ASSUME Inv, NEW i \in 1..Tip, NEW path \in Paths
    PROVE  branch[i] \in Trees /\ branch[i][path] \in Contents
BY DEF Inv, HeadPart, Tip, Trees

LEMMA NextOrderType == LaterOrders # {} => NextOrder \in 1..MaxOrder
BY DEF NextOrder, LaterOrders

LEMMA Idle ==
    ASSUME HeadPart', op' = NoOp
    PROVE  OpPart'
<1>1. 1 \in 1..Tip'
  BY DEF HeadPart, Tip
<1>2. [p \in Paths |-> NoRow] \in GoodFiles /\ [p \in Paths |-> NoRow] \in Files
  BY NoRowIsGood DEF GoodFiles, Files
<1>3. QED
  BY <1>1, <1>2
     DEF OpPart, NoOp, Operations, Phases, RemoteStatus, Choices

-----------------------------------------------------------------------------
(* The author's steps                                                      *)

LEMMA ForgetsType ==
    ASSUME Inv, NEW path \in Paths, Forgets(path)
    PROVE  AgreedPart'
<1>1. rows[path] \in GoodRows
  BY DEF Inv, RowsPart, GoodFiles
<1>2. BaseOf(rows[path]) \in Contents
  BY <1>1 DEF GoodRows, Row, BaseOf, Contents
<1>3. QED
  BY <1>2 DEF Inv, AgreedPart, Forgets

LEMMA EditStep ==
    ASSUME Inv, NEW path \in Paths, NEW value \in Contents, Edit(path, value)
    PROVE  Inv'
<1>1. RowsPart'
  BY MutatedIsGood DEF Inv, RowsPart, GoodFiles, Edit
<1>2. BoundsPart'
  BY DEF Inv, BoundsPart, Edit, Work
<1>3. AgreedPart'
  BY ForgetsType DEF Edit
<1>4. QED
  BY <1>1, <1>2, <1>3, Frame DEF Inv, Edit, tab

LEMMA MutateAndCommitTypes ==
    ASSUME Inv, NEW path \in Paths, NEW value \in Contents, MutateAndCommit(path, value)
    PROVE  RowsPart' /\ CommitsPart' /\ AgreedPart'
<1>1. RowsPart'
  BY MutatedIsGood DEF Inv, RowsPart, GoodFiles, MutateAndCommit
<1>2. \A p \in Paths : rows[p] \in GoodRows
  BY DEF Inv, RowsPart, GoodFiles
<1>3. CommitsPart'
  <2>1. PICK key \in KeyOrders(commits) :
            commits' = {[order |-> NextOrder,
                         files |-> [p \in Paths |-> IF p = path
                                                    THEN MutationEntry(rows[p], value)
                                                    ELSE LastRead(commits, key, p)]]}
    BY DEF MutateAndCommit
  <2>2. LaterOrders # {} /\ commits \in SUBSET Commits
    BY DEF MutateAndCommit, Inv, CommitsPart
  <2>3. QED
    BY <1>2, <2>1, <2>2, NextOrderType, MutationEntryType, LastReadType
       DEF CommitsPart, Commits
<1>4. AgreedPart'
  BY ForgetsType DEF MutateAndCommit
<1>5. QED
  BY <1>1, <1>3, <1>4

LEMMA EditAndCommitStep ==
    ASSUME Inv, NEW path \in Paths, NEW value \in Contents, EditAndCommit(path, value)
    PROVE  Inv'
<1>1. RowsPart' /\ CommitsPart' /\ AgreedPart'
  BY MutateAndCommitTypes DEF EditAndCommit
<1>2. BoundsPart'
  BY DEF Inv, BoundsPart, EditAndCommit, Work
<1>3. QED
  BY <1>1, <1>2, Frame DEF Inv, EditAndCommit, tab

LEMMA CommitDirtyTypes ==
    ASSUME Inv, CommitDirty
    PROVE  RowsPart' /\ CommitsPart'
<1>1. \A p \in Paths : rows[p] \in GoodRows
  BY DEF Inv, RowsPart, GoodFiles
<1>2. RowsPart'
  BY <1>1, CommittedRowIsGood DEF RowsPart, GoodFiles, CommitDirty
<1>3. CommitsPart'
  BY <1>1, NextOrderType, CommitEntryType
     DEF Inv, CommitsPart, Commits, CommitDirty
<1>4. QED
  BY <1>2, <1>3

LEMMA CommitLocalChangesStep ==
    ASSUME Inv, CommitLocalChanges
    PROVE  Inv'
BY CommitDirtyTypes, Frame DEF Inv, CommitLocalChanges, tab

LEMMA ReadForWriteStep ==
    ASSUME Inv, NEW way \in {"scoped", "atomic"}, NEW path \in Paths,
           NEW value \in Contents, ReadForWrite(way, path, value)
    PROVE  Inv'
<1>1. rows[path] \in GoodRows /\ rows[path] \in Row \cup {NoRow}
  BY DEF Inv, RowsPart, GoodFiles, GoodRows
<1>2. WritesPart'
  BY <1>1 DEF WritesPart, PendingWrites, ReadForWrite
<1>3. BoundsPart'
  BY DEF Inv, BoundsPart, ReadForWrite, Work
<1>4. QED
  BY <1>2, <1>3, Frame DEF Inv, ReadForWrite, disk

LEMMA StoredIsGood ==
    ASSUME NEW write \in PendingWrites, write.seen \in GoodRows, NEW row \in GoodRows
    PROVE  Stored(write, row) \in GoodRows
<1>1. CASE write.value = Absent
  BY <1>1, DeletedIsGood DEF Stored
<1>2. CASE write.value # Absent
  <2>1. write.value \in Values
    BY <1>2 DEF PendingWrites, Contents
  <2>2. QED
    BY <1>2, <2>1, WrittenIsGood, ReplacedIsGood DEF Stored
<1>3. QED
  BY <1>1, <1>2

LEMMA StoreWriteStep ==
    ASSUME Inv, StoreWrite
    PROVE  Inv'
<1>1. PICK w \in writes : rows' = [rows EXCEPT ![w.path] = Stored(w, @)]
  BY DEF StoreWrite
<1>2. w \in PendingWrites /\ w.seen \in GoodRows /\ w.path \in Paths
  BY DEF Inv, WritesPart, PendingWrites
<1>3. RowsPart'
  BY <1>1, <1>2, StoredIsGood DEF Inv, RowsPart, GoodFiles
<1>4. WritesPart'
  BY DEF WritesPart, StoreWrite
<1>5. QED
  BY <1>3, <1>4, Frame DEF Inv, StoreWrite, bounds

LEMMA RestoreRecoveryStep ==
    ASSUME Inv, RestoreRecovery
    PROVE  Inv'
<1>1. PICK i \in DOMAIN recoveries :
          /\ rows' = recoveries[i].rows
          /\ commits' = recoveries[i].commits
          /\ known' = recoveries[i].known
          /\ remoteStatus' = recoveries[i].remoteStatus
          /\ agreed' = recoveries[i].agreed
  BY DEF RestoreRecovery
<1>2. recoveries[i] \in Snapshots /\ recoveries[i].rows \in GoodFiles
  BY DEF Inv, RecoveriesPart
<1>3. RowsPart' /\ CommitsPart' /\ AgreedPart'
  BY <1>1, <1>2 DEF RowsPart, CommitsPart, AgreedPart, Snapshots
<1>4. HeadPart'
  BY <1>1, <1>2 DEF Inv, HeadPart, Snapshots, RestoreRecovery, Tip
<1>5. BoundsPart'
  BY DEF Inv, BoundsPart, RestoreRecovery, Work
<1>6. QED
  BY <1>3, <1>4, <1>5, Frame DEF Inv, RestoreRecovery, tab

-----------------------------------------------------------------------------
(* Other devices, crashes, and the periodic check                          *)

LEMMA ForeignStep ==
    ASSUME Inv, NEW path \in Paths, NEW value \in Contents, Foreign(path, value)
    PROVE  Inv'
<1>1. branch[Tip] \in Trees
  BY HeadRange DEF Inv, HeadPart, Tip
<1>2. [branch[Tip] EXCEPT ![path] = value] \in Trees
  BY <1>1 DEF Trees
<1>3. QED
  BY <1>2, Growth
     DEF Inv, RowsPart, CommitsPart, WritesPart, ShownPart, BoundsPart, AgreedPart,
         Foreign, disk, tab, bounds

LEMMA NoFetchType == ASSUME HeadPart', fetch' = NoFetch PROVE FetchPart'
BY DEF HeadPart, Tip, FetchPart, Fetches, NoFetch, RemoteStatus

LEMMA NoPublishType == ASSUME HeadPart', publish' = NoPublish PROVE PublishPart'
BY NoRowIsGood, BoundAssumption
   DEF HeadPart, Tip, PublishPart, Publications, NoPublish, Contents

LEMMA TroubleType == ASSUME Inv, Trouble, UNCHANGED work PROVE BoundsPart'
BY DEF Inv, BoundsPart, Trouble

LEMMA CrashStep ==
    ASSUME Inv, Crash
    PROVE  Inv'
<1>1. HeadPart' /\ BoundsPart'
  BY Frame, TroubleType DEF Crash, disk
<1>2. OpPart' /\ FetchPart' /\ PublishPart'
  BY <1>1, Idle, NoFetchType, NoPublishType DEF Crash
<1>3. WritesPart' /\ ShownPart'
  BY DEF WritesPart, ShownPart, Crash
<1>4. QED
  BY <1>1, <1>2, <1>3, Frame DEF Inv, Crash, disk

LEMMA MarkCheckingType ==
    ASSUME Inv, NEW expected, MarkChecking(expected), UNCHANGED <<branch, known>>
    PROVE  HeadPart'
BY DEF Inv, HeadPart, MarkChecking, RemoteStatus, Tip

LEMMA MarkFailureType ==
    ASSUME Inv, NEW expected, NEW outcomes \in SUBSET RemoteStatus,
           MarkFailure(expected, outcomes), UNCHANGED <<branch, known>>
    PROVE  HeadPart'
BY DEF Inv, HeadPart, MarkFailure, Tip

LEMMA RecordHeadType ==
    ASSUME Inv, NEW head \in 1..Tip, RecordHead(head), UNCHANGED branch
    PROVE  HeadPart'
BY DEF Inv, HeadPart, RecordHead, RemoteStatus, Tip

LEMMA PreviousType == Inv => Previous \in RemoteStatus
BY DEF Inv, HeadPart, Previous, RemoteStatus

LEMMA FetchStartStep ==
    ASSUME Inv, FetchStart
    PROVE  Inv'
<1>1. FetchPart'
  BY HeadRange DEF Inv, HeadPart, FetchPart, Fetches, FetchStart, NoFetch, RemoteStatus, Tip
<1>2. QED
  BY <1>1, Frame DEF Inv, FetchStart, disk, bounds

LEMMA FetchMarkStep ==
    ASSUME Inv, FetchMark
    PROVE  Inv'
<1>1. FetchPart'
  BY PreviousType DEF Inv, FetchPart, Fetches, FetchMark, Tip
<1>2. HeadPart'
  BY MarkCheckingType DEF FetchMark
<1>3. QED
  BY <1>1, <1>2, Frame DEF Inv, FetchMark, bounds

LEMMA FetchResolveStep ==
    ASSUME Inv, FetchResolve
    PROVE  Inv'
<1>1. FetchPart'
  BY HeadRange DEF Inv, FetchPart, Fetches, FetchResolve, Tip
<1>2. QED
  BY <1>1, Frame DEF Inv, FetchResolve, disk, bounds

LEMMA FetchRecordStep ==
    ASSUME Inv, FetchRecord
    PROVE  Inv'
<1>1. fetch.head \in 1..Tip
  BY DEF Inv, FetchPart, Fetches
<1>2. HeadPart'
  BY <1>1, RecordHeadType DEF Inv, HeadPart, FetchRecord, RemoteStatus, Tip
<1>3. FetchPart'
  BY <1>2, NoFetchType DEF FetchRecord
<1>4. QED
  BY <1>2, <1>3, Frame DEF Inv, FetchRecord, bounds

LEMMA FetchFailStep ==
    ASSUME Inv, FetchFail
    PROVE  Inv'
<1>1. {"unverified", fetch.previous} \in SUBSET RemoteStatus
  BY DEF Inv, FetchPart, Fetches, RemoteStatus
<1>2. HeadPart'
  BY <1>1, MarkFailureType DEF FetchFail
<1>3. FetchPart'
  BY <1>2, NoFetchType DEF FetchFail
<1>4. QED
  BY <1>2, <1>3, Frame, TroubleType DEF Inv, FetchFail

-----------------------------------------------------------------------------
(* The steps the leased operations share                                   *)

LEMMA AbandonTypes ==
    ASSUME Inv, NEW outcomes \in SUBSET RemoteStatus, Abandon(outcomes)
    PROVE  /\ RowsPart' /\ CommitsPart' /\ HeadPart' /\ RecoveriesPart' /\ OpPart'
           /\ FetchPart' /\ WritesPart' /\ PublishPart' /\ AgreedPart'
<1>1. HeadPart'
  BY MarkFailureType, Frame DEF Abandon
<1>2. OpPart'
  BY <1>1, Idle DEF Abandon
<1>3. op.landed \in 1..Tip
  BY DEF Inv, OpPart, Operations
<1>4. PublishPart'
  <2>1. CASE publish' = publish
    BY <2>1, Frame DEF Abandon
  <2>2. CASE publish' = NoPublish
    BY <2>2, <1>1, NoPublishType
  <2>3. CASE /\ publish.phase = "pushing"
             /\ publish' = [publish EXCEPT !.phase = "failed", !.landed =
                              IF op.phase = "ambiguous" THEN op.landed ELSE 0]
    <3>1. Tip' = Tip /\ (IF op.phase = "ambiguous" THEN op.landed ELSE 0) \in 0..Tip
      BY <1>3, HeadRange DEF Abandon, Tip
    <3>2. publish \in Publications /\ publish.seen \in GoodRows /\ publish.path \in Paths
      BY <2>3 DEF Inv, PublishPart
    <3>3. publish' \in Publications
      BY <2>3, <3>1, <3>2 DEF Publications
    <3>4. Publications' = Publications
      BY <3>1 DEF Publications
    <3>5. publish'.seen = publish.seen /\ publish'.path = publish.path
      BY <2>3, <3>2 DEF Publications
    <3>6. QED
      BY <3>2, <3>3, <3>4, <3>5 DEF PublishPart
  <2>4. QED
    BY <2>1, <2>2, <2>3 DEF Abandon
<1>5. QED
  BY <1>1, <1>2, <1>4, Frame DEF Abandon

LEMMA FailStep ==
    ASSUME Inv, Fail
    PROVE  Inv'
<1>1. {"unverified", op.previous} \in SUBSET RemoteStatus
  BY DEF Inv, OpPart, Operations, RemoteStatus
<1>2. QED
  BY <1>1, AbandonTypes, TroubleType, Frame DEF Inv, Fail, Abandon

LEMMA OpMarkStep ==
    ASSUME Inv, OpMark
    PROVE  Inv'
<1>1. OpPart'
  BY PreviousType DEF Inv, OpPart, Operations, Phases, OpMark, Tip
<1>2. HeadPart'
  BY MarkCheckingType DEF OpMark
<1>3. QED
  BY <1>1, <1>2, Frame DEF Inv, OpMark, bounds

LEMMA OpResolveStep ==
    ASSUME Inv, OpResolve
    PROVE  Inv'
<1>1. OpPart'
  BY HeadRange DEF Inv, OpPart, CommitsPart, Operations, Phases, OpResolve, Tip
<1>2. QED
  BY <1>1, Frame DEF Inv, OpResolve, disk, bounds

LEMMA RowsType == Inv => rows \in GoodFiles /\ rows \in Files
BY DEF Inv, RowsPart, GoodFiles, GoodRows, Files

LEMMA OpCaptureStep ==
    ASSUME Inv, OpCapture
    PROVE  Inv'
<1>1. OpPart'
  BY RowsType DEF Inv, OpPart, Operations, Phases, OpCapture, Tip
<1>2. QED
  BY <1>1, Frame DEF Inv, OpCapture, disk, bounds

-----------------------------------------------------------------------------
(* The recovery snapshots                                                  *)

LEMMA SnapshotType ==
    ASSUME Inv, NEW files \in GoodFiles
    PROVE  Snapshot(files) \in Snapshots /\ Snapshot(files).rows \in GoodFiles
<1>1. files \in Files
  BY DEF GoodFiles, GoodRows, Files
<1>2. QED
  BY <1>1 DEF Inv, CommitsPart, HeadPart, AgreedPart, Snapshot, Snapshots

LEMMA RetainType ==
    ASSUME Inv, NEW files \in GoodFiles, recoveries' = Retain(Snapshot(files)),
           UNCHANGED branch
    PROVE  RecoveriesPart'
<1> DEFINE all == Append(recoveries, Snapshot(files))
<1>1. Snapshot(files) \in Snapshots /\ Snapshot(files).rows \in GoodFiles
  BY SnapshotType
<1>2. /\ recoveries \in Seq(Snapshots)
      /\ \A i \in 1..Len(recoveries) : recoveries[i].rows \in GoodFiles
  BY DEF Inv, RecoveriesPart
<1>3. /\ all \in Seq(Snapshots)
      /\ Len(all) = Len(recoveries) + 1
      /\ \A i \in 1..Len(all) : all[i].rows \in GoodFiles
  BY <1>1, <1>2
<1>4. /\ Tail(all) \in Seq(Snapshots)
      /\ Len(Tail(all)) = Len(recoveries)
      /\ \A i \in 1..Len(Tail(all)) : Tail(all)[i].rows \in GoodFiles
  BY <1>2, <1>3
<1>5. recoveries' = all \/ recoveries' = Tail(all)
  BY DEF Retain
<1>6. Snapshots' = Snapshots
  BY DEF Snapshots, Tip
<1>7. recoveries' \in Seq(Snapshots) /\ \A i \in 1..Len(recoveries') : recoveries'[i].rows \in GoodFiles
  BY <1>3, <1>4, <1>5
<1>8. QED
  BY <1>6, <1>7 DEF RecoveriesPart

-----------------------------------------------------------------------------
(* Pull                                                                    *)

LEMMA PullStartStep ==
    ASSUME Inv, NEW force \in BOOLEAN, PullStart(force)
    PROVE  Inv'
<1> DEFINE tidy == ~AnyDirty /\ commits = {}
<1>1. [p \in Paths |-> NoRow] \in GoodFiles /\ [p \in Paths |-> NoRow] \in Files
  BY NoRowIsGood DEF GoodFiles, Files
<1>2. NoOp \in Operations /\ NoOp.files \in GoodFiles
  BY <1>1, HeadRange DEF NoOp, Operations, Phases, RemoteStatus, Choices
<1>3. tidy \in BOOLEAN
  OBVIOUS
<1> HIDE DEF tidy
<1>4. op' = [NoOp EXCEPT !.kind = "pull", !.phase = "started", !.expected = known,
                         !.force = force, !.pending = commits, !.tidy = tidy]
  BY DEF PullStart, tidy
<1>5. op' \in Operations /\ op'.files = NoOp.files /\ op'.kind = "pull"
  BY <1>2, <1>3, <1>4 DEF Inv, HeadPart, CommitsPart, Operations, Phases
<1>6. Operations' = Operations
  BY DEF Operations, PullStart, Tip
<1>7. OpPart'
  BY <1>2, <1>5, <1>6 DEF OpPart
<1>8. QED
  BY <1>7, Frame DEF Inv, PullStart, disk, bounds

LEMMA PullUnchangedStep ==
    ASSUME Inv, PullUnchanged
    PROVE  Inv'
<1>1. op.head \in 1..Tip
  BY DEF Inv, OpPart, Operations
<1>2. HeadPart'
  BY <1>1, RecordHeadType DEF Inv, HeadPart, PullUnchanged, RemoteStatus, Tip
<1>3. OpPart'
  BY <1>2, Idle DEF PullUnchanged
<1>4. QED
  BY <1>2, <1>3, Frame DEF Inv, PullUnchanged, bounds

LEMMA NothingAgreed ==
    ASSUME agreed' = [p \in Paths |-> {}]
    PROVE  AgreedPart'
BY DEF AgreedPart

LEMMA PullReplaceStep ==
    ASSUME Inv, PullReplace
    PROVE  Inv'
<1>1. op.head \in 1..Tip /\ op.files \in GoodFiles
  BY DEF Inv, OpPart, Operations
<1>2. RecoveriesPart'
  BY <1>1, RetainType DEF PullReplace
<1>3. \A p \in Paths : Pulled(op.files[p], branch[op.head][p]) \in GoodRows
  BY <1>1, TreeType, PulledIsGood DEF GoodFiles
<1>4. RowsPart'
  BY <1>3 DEF RowsPart, GoodFiles, PullReplace
<1>5. CommitsPart' /\ AgreedPart'
  BY NothingAgreed DEF CommitsPart, PullReplace
<1>6. HeadPart'
  BY <1>1, RecordHeadType DEF PullReplace
<1>7. OpPart'
  BY <1>6, Idle DEF PullReplace
<1>8. QED
  BY <1>2, <1>4, <1>5, <1>6, <1>7, Frame DEF Inv, PullReplace, bounds

LEMMA PullRefusedStep ==
    ASSUME Inv, PullRefused
    PROVE  Inv'
BY AbandonTypes, Frame DEF Inv, PullRefused, Abandon, bounds, RemoteStatus

-----------------------------------------------------------------------------
(* Push                                                                    *)

LEMMA PendingType ==
    ASSUME Inv, NEW path \in Paths
    PROVE  EntryOf(path) \in Entry \cup {NoEntry}
BY LatestEntryType DEF Inv, OpPart, Operations, EntryOf

LEMMA OutgoingType ==
    ASSUME Inv, op.kind \in {"push", "sync"}, op.phase \in {"planned", "ambiguous", "landed"},
           NEW path \in Pushed
    PROVE  EntryOf(path) \in Entry /\ Outgoing(path) \in Contents
<1>1. path \in Paths /\ EntryOf(path) \in Entry
  BY PendingType DEF Pushed
<1>2. op.files[path] # NoRow /\ op.files[path] \in GoodRows
  BY <1>1 DEF Inv, OpPart, GoodFiles
<1>3. QED
  BY <1>1, <1>2 DEF Outgoing, GoodRows, Row, Contents

LEMMA PushStartStep ==
    ASSUME Inv, PushStart
    PROVE  Inv'
<1>1. [p \in Paths |-> NoRow] \in GoodFiles /\ [p \in Paths |-> NoRow] \in Files
  BY NoRowIsGood DEF GoodFiles, Files
<1>2. OpPart'
  BY <1>1, HeadRange
     DEF Inv, HeadPart, CommitsPart, OpPart, Operations, Phases, RemoteStatus, Choices,
         NoOp, PushStart, Tip
<1>3. QED
  BY <1>2, Frame DEF Inv, PushStart, disk, bounds

LEMMA PushPlanStep ==
    ASSUME Inv, PushPlan
    PROVE  Inv'
<1>1. \A p \in Pushed : rows[p] # NoRow
  BY DEF PushPlan, MayPush, MatchesCommit
<1>2. op'.files = rows /\ op'.pending = op.pending /\ op' \in Operations
  BY RowsType, HeadRange DEF Inv, OpPart, Operations, Phases, PushPlan
<1>3. Pushed' = Pushed /\ Operations' = Operations
  BY <1>2 DEF PushPlan, Pushed, EntryOf, Operations, Tip
<1>4. OpPart'
  BY <1>1, <1>2, <1>3, RowsType DEF OpPart
<1>5. QED
  BY <1>4, Frame DEF Inv, PushPlan, disk, bounds

LEMMA PublishedType ==
    ASSUME Inv, NEW tree \in Trees, Publish(tree), NEW landed,
           NEW phase \in {"landed", "ambiguous"},
           op.phase \in {"planned", "saved"},
           op.kind \in {"push", "sync"} => op.phase = "planned",
           landed = Tip + 1,
           op' = [op EXCEPT !.phase = phase, !.landed = landed]
    PROVE  OpPart'
<1>1. /\ Operations \subseteq Operations'
      /\ Tip' = Tip + 1
      /\ Tip \in Nat
  BY Growth DEF Publish
<1>2. op \in Operations' /\ landed \in 1..Tip'
  BY <1>1 DEF Inv, OpPart
<1>3. op' \in Operations'
  BY <1>2 DEF Operations, Phases
<1>4. op'.files = op.files /\ op'.kind = op.kind /\ op'.pending = op.pending
  BY DEF Inv, OpPart, Operations
<1>5. Pushed' = Pushed
  BY <1>4 DEF Pushed, EntryOf
<1>6. QED
  BY <1>3, <1>4, <1>5 DEF Inv, OpPart

LEMMA PushedTreeType ==
    ASSUME Inv, op.kind \in {"push", "sync"}, op.phase = "planned"
    PROVE  PushedTree \in Trees
<1>1. op.head \in 1..Tip
  BY DEF Inv, OpPart, Operations
<1>2. \A p \in Paths : branch[op.head][p] \in Contents
  BY <1>1, TreeType
<1>3. \A p \in Pushed : Outgoing(p) \in Contents
  BY OutgoingType
<1>4. QED
  BY <1>2, <1>3 DEF PushedTree, Trees

LEMMA PushLandStep ==
    ASSUME Inv, PushLand
    PROVE  Inv'
<1>1. PushedTree \in Trees
  BY PushedTreeType DEF PushLand
<1>2. OpPart'
  BY <1>1, PublishedType DEF PushLand
<1>3. branch' = Append(branch, PushedTree)
  BY DEF PushLand, Publish
<1>4. QED
  BY <1>1, <1>2, <1>3, Growth
     DEF Inv, RowsPart, CommitsPart, WritesPart, ShownPart, BoundsPart, AgreedPart,
         PushLand, disk, bounds

LEMMA PushReplyLostStep ==
    ASSUME Inv, PushReplyLost
    PROVE  Inv'
<1>1. PushedTree \in Trees
  BY PushedTreeType DEF PushReplyLost
<1>2. OpPart'
  BY <1>1, PublishedType DEF PushReplyLost
<1>3. branch' = Append(branch, PushedTree)
  BY DEF PushReplyLost, Publish
<1>4. BoundsPart'
  BY TroubleType DEF PushReplyLost
<1>5. QED
  BY <1>1, <1>2, <1>3, <1>4, Growth
     DEF Inv, RowsPart, CommitsPart, WritesPart, ShownPart, AgreedPart,
         PushReplyLost, disk

\* Only the push's own steps make its phases: another step of the operation
\* that keeps its files and its commits keeps what the push needs of them
LEMMA OpStepType ==
    ASSUME Inv, UNCHANGED branch,
           NEW phase \in Phases \ {"planned", "ambiguous", "landed"},
           op' = [op EXCEPT !.phase = phase]
    PROVE  OpPart'
<1>1. op' \in Operations /\ op'.files = op.files /\ op'.phase = phase
  BY DEF Inv, OpPart, Operations
<1>2. Operations' = Operations
  BY DEF Operations, Tip
<1>3. QED
  BY <1>1, <1>2 DEF Inv, OpPart

LEMMA PushReconcileStep ==
    ASSUME Inv, PushReconcile
    PROVE  Inv'
<1>1. op' \in Operations /\ op'.files = op.files /\ op'.pending = op.pending /\ op'.kind = op.kind
  BY HeadRange DEF Inv, OpPart, Operations, Phases, PushReconcile
<1>2. Pushed' = Pushed /\ Operations' = Operations
  BY <1>1 DEF PushReconcile, Pushed, EntryOf, Operations, Tip
<1>3. OpPart'
  BY <1>1, <1>2 DEF Inv, OpPart, PushReconcile
<1>4. QED
  BY <1>3, Frame DEF Inv, PushReconcile, disk, bounds

LEMMA CommitsLeftType ==
    ASSUME Inv, commits' = CommitsLeft
    PROVE  CommitsPart'
BY DEF Inv, CommitsPart, CommitsLeft

LEMMA PushSettleStep ==
    ASSUME Inv, PushSettle
    PROVE  Inv'
<1>1. op.kind \in {"push", "sync"} /\ op.phase = "landed" /\ op.landed \in 1..Tip
  BY DEF Inv, OpPart, Operations, PushSettle
<1>2. \A p \in Paths : rows[p] \in GoodRows
  BY DEF Inv, RowsPart, GoodFiles
<1>3. \A p \in Pushed : p \in Paths /\ Settled(rows[p], EntryOf(p), Outgoing(p)) \in GoodRows
  BY <1>1, <1>2, OutgoingType, SettledIsGood DEF Pushed
<1>4. RowsPart'
  BY <1>2, <1>3 DEF RowsPart, GoodFiles, PushSettle
<1>5. CommitsPart'
  BY CommitsLeftType DEF PushSettle
<1>6. HeadPart'
  BY <1>1, RecordHeadType DEF PushSettle
<1>7. AgreedPart'
  BY DEF Inv, AgreedPart, PushSettle
<1>8. OpPart'
  BY <1>6, Idle, OpStepType DEF PushSettle, Step, Phases
<1>9. PublishPart'
  BY <1>6, NoPublishType, Frame DEF PushSettle
<1>10. QED
  BY <1>4, <1>5, <1>6, <1>7, <1>8, <1>9, Frame DEF Inv, PushSettle, bounds

LEMMA PushRefusedStep ==
    ASSUME Inv, PushRefused
    PROVE  Inv'
BY AbandonTypes, Frame DEF Inv, PushRefused, Abandon, bounds, RemoteStatus

-----------------------------------------------------------------------------
(* Full sync                                                               *)

LEMMA SyncStartStep ==
    ASSUME Inv, NEW choice \in [Paths -> Choices], SyncStart(choice)
    PROVE  Inv'
<1>1. [p \in Paths |-> NoRow] \in GoodFiles /\ [p \in Paths |-> NoRow] \in Files
  BY NoRowIsGood DEF GoodFiles, Files
<1>2. OpPart'
  BY <1>1, HeadRange
     DEF Inv, HeadPart, OpPart, Operations, Phases, RemoteStatus, Choices,
         NoOp, SyncStart, Tip
<1>3. QED
  BY <1>2, Frame DEF Inv, SyncStart, disk, bounds

LEMMA SyncUnchangedStep ==
    ASSUME Inv, SyncUnchanged
    PROVE  Inv'
<1>1. op.head \in 1..Tip
  BY DEF Inv, OpPart, Operations
<1>2. HeadPart'
  BY <1>1, RecordHeadType DEF SyncUnchanged
<1>3. OpPart'
  BY OpStepType DEF SyncUnchanged, Step, Phases
<1>4. QED
  BY <1>2, <1>3, Frame DEF Inv, SyncUnchanged, bounds

LEMMA ConflictType ==
    ASSUME NEW path \in Paths, NEW row \in GoodRows, NEW remote \in Contents
    PROVE  Conflict(path, row, remote) \in Conflicts
BY DEF Conflict, Conflicts, Gone, LocalChanged, BaseOf, GoodRows, Row, Contents

LEMMA SyncConflictsStep ==
    ASSUME Inv, SyncConflicts
    PROVE  Inv'
<1>1. op.head \in 1..Tip /\ op.files \in GoodFiles
  BY DEF Inv, OpPart, Operations
<1>2. NewConflicts \subseteq Conflicts
  BY <1>1, TreeType, ConflictType DEF NewConflicts, Remote, GoodFiles
<1>3. ShownPart'
  BY <1>2 DEF ShownPart, SyncConflicts
<1>4. QED
  BY <1>3, AbandonTypes, Frame DEF Inv, SyncConflicts, Abandon, bounds, RemoteStatus

LEMMA SyncSaveStep ==
    ASSUME Inv, SyncSave
    PROVE  Inv'
<1>1. RecoveriesPart'
  BY RowsType, RetainType DEF SyncSave
<1>2. OpPart'
  BY OpStepType DEF SyncSave, Step, Phases
<1>3. QED
  BY <1>1, <1>2, Frame DEF Inv, SyncSave, bounds

LEMMA SyncMergeStep ==
    ASSUME Inv, SyncMerge
    PROVE  Inv'
<1>1. op.head \in 1..Tip /\ op.files \in GoodFiles /\ op.choice \in [Paths -> Choices]
  BY DEF Inv, OpPart, Operations
<1>2. \A p \in Paths :
          Merged(Decision(p), rows[p], Remote(p)) \in GoodRows
  BY <1>1, RowsType, TreeType, MergedIsGood DEF GoodFiles, Remote, Decision
<1>3. RowsPart'
  BY <1>2 DEF RowsPart, GoodFiles, SyncMerge
<1>4. HeadPart'
  BY <1>1, RecordHeadType DEF SyncMerge
<1>5. \A c \in shown : c.remote \in Contents
  BY DEF Inv, ShownPart, Conflicts
<1>6. AgreedPart'
  BY <1>5 DEF Inv, AgreedPart, SyncMerge
<1>7. OpPart'
  BY OpStepType DEF SyncMerge, Step, Phases
<1>8. QED
  BY <1>3, <1>4, <1>6, <1>7, Frame DEF Inv, SyncMerge, bounds

LEMMA SyncRefusedStep ==
    ASSUME Inv, SyncRefused
    PROVE  Inv'
BY AbandonTypes, Frame DEF Inv, SyncRefused, Abandon, bounds, RemoteStatus

LEMMA SyncSavePendingStep ==
    ASSUME Inv, SyncSavePending
    PROVE  Inv'
<1>1. RecoveriesPart'
  BY RowsType, RetainType, Frame DEF SyncSavePending
<1>2. OpPart'
  BY DEF Inv, CommitsPart, OpPart, Operations, Phases, SyncSavePending, Tip
<1>3. QED
  BY <1>1, <1>2, Frame DEF Inv, SyncSavePending, bounds

LEMMA SyncUncommitStep ==
    ASSUME Inv, SyncUncommit
    PROVE  Inv'
<1>1. \A p \in Paths : Uncommitted(rows[p], EntryOf(p)) \in GoodRows
  BY RowsType, PendingType, UncommittedIsGood DEF GoodFiles
<1>2. RowsPart'
  BY <1>1 DEF RowsPart, GoodFiles, SyncUncommit
<1>3. CommitsPart'
  BY CommitsLeftType DEF SyncUncommit
<1>4. OpPart'
  BY DEF Inv, OpPart, Operations, Phases, SyncUncommit, Tip
<1>5. QED
  BY <1>2, <1>3, <1>4, Frame DEF Inv, SyncUncommit, bounds

LEMMA SyncCommitStep ==
    ASSUME Inv, SyncCommit
    PROVE  Inv'
<1>1. RowsPart' /\ CommitsPart'
  BY CommitDirtyTypes, Frame DEF SyncCommit
<1>2. OpPart'
  BY OpStepType DEF SyncCommit, Step, Phases
<1>3. QED
  BY <1>1, <1>2, Frame DEF Inv, SyncCommit, bounds

LEMMA SyncPushStartStep ==
    ASSUME Inv, SyncPushStart
    PROVE  Inv'
<1>1. OpPart'
  BY DEF Inv, CommitsPart, OpPart, Operations, Phases, SyncPushStart, Tip
<1>2. QED
  BY <1>1, Frame DEF Inv, SyncPushStart, disk, bounds

LEMMA SyncRereadStep ==
    ASSUME Inv, SyncReread
    PROVE  Inv'
<1>1. OpPart'
  BY HeadRange DEF Inv, OpPart, Operations, Phases, SyncReread, Tip
<1>2. QED
  BY <1>1, Frame DEF Inv, SyncReread, disk, bounds

LEMMA SyncFinishStep ==
    ASSUME Inv, SyncFinish
    PROVE  Inv'
<1>1. op.landed \in 1..Tip
  BY DEF Inv, OpPart, Operations
<1>2. HeadPart'
  BY <1>1, RecordHeadType, Frame DEF SyncFinish
<1>3. OpPart'
  BY <1>2, Idle DEF SyncFinish
<1>4. ShownPart'
  BY DEF ShownPart, SyncFinish
<1>5. QED
  BY <1>2, <1>3, <1>4, Frame DEF Inv, SyncFinish, bounds

-----------------------------------------------------------------------------
(* Local-source overwrite                                                  *)

LEMMA OverwriteStartStep ==
    ASSUME Inv, OverwriteStart
    PROVE  Inv'
<1>1. OpPart'
  BY HeadRange, RowsType
     DEF Inv, HeadPart, CommitsPart, OpPart, Operations, Phases, RemoteStatus, Choices,
         NoOp, OverwriteStart, Tip
<1>2. BoundsPart'
  BY DEF Inv, BoundsPart, OverwriteStart, Work
<1>3. QED
  BY <1>1, <1>2, Frame DEF Inv, OverwriteStart, disk

LEMMA OverwriteCountStep ==
    ASSUME Inv, OverwriteCount
    PROVE  Inv'
<1>1. OpPart'
  BY DEF Inv, CommitsPart, OpPart, Operations, Phases, OverwriteCount, Tip
<1>2. QED
  BY <1>1, Frame DEF Inv, OverwriteCount, disk, bounds

LEMMA OverwriteSaveStep ==
    ASSUME Inv, OverwriteSave
    PROVE  Inv'
<1>1. RecoveriesPart'
  BY RowsType, RetainType DEF OverwriteSave
<1>2. OpPart'
  BY OpStepType DEF OverwriteSave, Step, Phases
<1>3. QED
  BY <1>1, <1>2, Frame DEF Inv, OverwriteSave, bounds

LEMMA OverwriteLandStep ==
    ASSUME Inv, OverwriteLand
    PROVE  Inv'
<1> DEFINE tree == [p \in Paths |-> View(op.files[p])]
<1>1. op.files \in GoodFiles /\ op.kind = "overwrite" /\ op.phase = "saved"
  BY DEF Inv, OpPart, OverwriteLand
<1>2. \A p \in Paths : View(op.files[p]) \in Contents
  BY <1>1 DEF GoodFiles, GoodRows, View, Gone, Row, Contents
<1>3. tree \in Trees
  BY <1>2 DEF Trees
<1>4. branch' = Append(branch, tree)
  BY DEF OverwriteLand, Publish
<1>5. HeadPart'
  BY <1>3, <1>4, Growth DEF OverwriteLand, disk
<1>6. OpPart'
  BY <1>1, <1>3, <1>5, PublishedType, Idle DEF OverwriteLand
<1>7. BoundsPart'
  BY TroubleType DEF Inv, BoundsPart, OverwriteLand
<1>8. QED
  BY <1>3, <1>4, <1>5, <1>6, <1>7, Growth
     DEF Inv, RowsPart, CommitsPart, WritesPart, ShownPart, AgreedPart, OverwriteLand, disk

LEMMA OverwriteRefusedStep ==
    ASSUME Inv, OverwriteRefused
    PROVE  Inv'
BY AbandonTypes, Frame DEF Inv, OverwriteRefused, Abandon, bounds, RemoteStatus

LEMMA OverwriteSettleStep ==
    ASSUME Inv, OverwriteSettle
    PROVE  Inv'
<1>1. op.landed \in 1..Tip /\ op.files \in GoodFiles
  BY DEF Inv, OpPart, Operations
<1>2. \A p \in Paths : OverwriteSettled(op.files[p], rows[p]) \in GoodRows
  BY <1>1, RowsType, OverwriteSettledIsGood DEF GoodFiles
<1>3. RowsPart'
  BY <1>2 DEF RowsPart, GoodFiles, OverwriteSettle
<1>4. CommitsPart' /\ AgreedPart'
  BY CommitsLeftType, NothingAgreed DEF OverwriteSettle
<1>5. HeadPart'
  BY <1>1, RecordHeadType DEF OverwriteSettle
<1>6. OpPart'
  BY <1>5, Idle DEF OverwriteSettle
<1>7. QED
  BY <1>3, <1>4, <1>5, <1>6, Frame DEF Inv, OverwriteSettle, bounds

-----------------------------------------------------------------------------
(* A confirmed assistant change                                            *)

LEMMA PublishPreflightStep ==
    ASSUME Inv, PublishPreflight
    PROVE  Inv'
<1>1. known \in 1..Tip /\ Publications' = Publications
  BY DEF Inv, HeadPart, PublishPreflight, Publications, disk, Tip
<1>2. NoPublish \in Publications /\ NoPublish.seen \in GoodRows
  BY HeadRange, NoRowIsGood, BoundAssumption DEF NoPublish, Publications, Contents
<1>3. publish' \in Publications /\ publish'.seen = NoPublish.seen /\ publish'.phase = "ready"
  BY <1>1, <1>2 DEF Publications, PublishPreflight
<1>4. PublishPart'
  BY <1>1, <1>2, <1>3 DEF PublishPart
<1>5. BoundsPart'
  BY DEF Inv, BoundsPart, PublishPreflight, Work
<1>6. QED
  BY <1>4, <1>5, Frame DEF Inv, PublishPreflight, disk

LEMMA PublishReadStep ==
    ASSUME Inv, NEW path \in Paths, NEW value \in Contents, PublishRead(path, value)
    PROVE  Inv'
<1>1. rows[path] \in GoodRows
  BY RowsType DEF GoodFiles
<1>2. (IF Gone(rows[path]) THEN NoRow ELSE rows[path]) \in GoodRows
  BY <1>1, NoRowIsGood
<1>3. PublishPart'
  BY <1>2 DEF Inv, PublishPart, Publications, PublishRead, GoodRows, Tip
<1>4. QED
  BY <1>3, Frame DEF Inv, PublishRead, disk, bounds

LEMMA PublishCommitStep ==
    ASSUME Inv, PublishCommit
    PROVE  Inv'
<1>1. publish.path \in Paths /\ publish.value \in Contents
  BY DEF Inv, PublishPart, Publications, PublishCommit
<1>2. RowsPart' /\ CommitsPart' /\ AgreedPart'
  BY <1>1, MutateAndCommitTypes DEF PublishCommit
<1>3. NextOrder \in 0..MaxOrder
  BY NextOrderType DEF PublishCommit, MutateAndCommit
<1>4. PublishPart'
  BY <1>1, <1>3 DEF Inv, PublishPart, Publications, PublishCommit, Tip
<1>5. QED
  BY <1>2, <1>4, Frame DEF Inv, PublishCommit, bounds

LEMMA PublishRefusedStep ==
    ASSUME Inv, PublishRefused
    PROVE  Inv'
<1>1. HeadPart'
  BY Frame DEF PublishRefused, disk
<1>2. PublishPart'
  BY <1>1, NoPublishType DEF PublishRefused
<1>3. QED
  BY <1>1, <1>2, Frame DEF Inv, PublishRefused, disk, bounds

LEMMA PublishPushStep ==
    ASSUME Inv, PublishPush
    PROVE  Inv'
<1>1. [p \in Paths |-> NoRow] \in GoodFiles /\ [p \in Paths |-> NoRow] \in Files
  BY NoRowIsGood DEF GoodFiles, Files
<1>2. publish.expected \in 1..Tip
  BY DEF Inv, PublishPart, Publications
<1>3. OpPart'
  <2>1. CASE UNCHANGED op
    BY <2>1, Frame DEF PublishPush, disk
  <2>2. CASE op' = [NoOp EXCEPT !.kind = "push", !.phase = "listed",
                                !.expected = publish.expected, !.pending = commits]
    BY <1>1, <1>2, <2>2, HeadRange
       DEF Inv, CommitsPart, OpPart, Operations, Phases, RemoteStatus, Choices,
           NoOp, PublishPush, Tip
  <2>3. QED
    BY <2>1, <2>2 DEF PublishPush
<1>4. PublishPart'
  BY DEF Inv, PublishPart, Publications, PublishPush, Tip
<1>5. QED
  BY <1>3, <1>4, Frame DEF Inv, PublishPush, disk, bounds

LEMMA OwnEntryType ==
    ASSUME Inv, NEW path \in Paths, publish.path = path
    PROVE  OwnEntry \in Entry \cup {NoEntry}
BY LatestEntryType DEF Inv, CommitsPart, OwnEntry, OwnCommits

LEMMA PublishReconcileStep ==
    ASSUME Inv, PublishReconcile
    PROVE  Inv'
<1>1. publish.path \in Paths /\ publish.value \in Contents
  BY DEF Inv, PublishPart, Publications, PublishReconcile
<1>2. RowsPart' /\ CommitsPart' /\ HeadPart' /\ RecoveriesPart'
  <2>1. CASE OwnCommits = {}
    BY <2>1, Frame DEF PublishReconcile, disk
  <2>2. CASE OwnCommits # {}
    <3>1. Settled(rows[publish.path], OwnEntry, publish.value) \in GoodRows
      BY <1>1, RowsType, OwnEntryType, SettledIsGood DEF GoodFiles
    <3>2. RowsPart'
      BY <2>2, <3>1, <1>1, RowsType DEF RowsPart, GoodFiles, PublishReconcile
    <3>3. CommitsPart' /\ HeadPart' /\ RecoveriesPart'
      BY <2>2, HeadRange, RecordHeadType, Frame DEF Inv, CommitsPart, PublishReconcile
    <3>4. QED
      BY <3>2, <3>3
  <2>3. QED
    BY <2>1, <2>2
<1>3. AgreedPart'
  BY DEF Inv, AgreedPart, PublishReconcile
<1>4. PublishPart'
  BY <1>2, NoPublishType DEF PublishReconcile
<1>5. QED
  BY <1>2, <1>3, <1>4, Frame DEF Inv, PublishReconcile, bounds

LEMMA PublishRollbackStep ==
    ASSUME Inv, PublishRollback
    PROVE  Inv'
<1>1. publish.seen \in GoodRows
  BY DEF Inv, PublishPart
<1>2. RowsPart'
  BY <1>1, RowsType DEF RowsPart, GoodFiles, PublishRollback
<1>3. CommitsPart'
  BY DEF Inv, CommitsPart, PublishRollback
<1>4. HeadPart'
  BY Frame DEF PublishRollback
<1>5. PublishPart'
  BY <1>4, NoPublishType DEF PublishRollback
<1>6. QED
  BY <1>2, <1>3, <1>4, <1>5, Frame DEF Inv, PublishRollback, bounds

-----------------------------------------------------------------------------
(* The invariant holds from the start and is kept by every step            *)

LEMMA InitInv == Init => Inv
<1> SUFFICES ASSUME Init PROVE Inv
  OBVIOUS
<1>1. branch \in Seq(Trees) /\ Tip = 1
  <2>1. branch \in [1..1 -> Trees]
    BY DEF Init
  <2>2. branch = [i \in 1..1 |-> branch[i]] /\ branch[1] \in Trees
    BY <2>1
  <2>3. [i \in 1..1 |-> branch[i]] \in Seq(Trees) /\ Len([i \in 1..1 |-> branch[i]]) = 1
    BY <2>2
  <2>4. QED
    BY <2>2, <2>3 DEF Tip
<1>2. \A p \in Paths : branch[1][p] \in Contents
  BY DEF Init, Trees
<1>3. \A p \in Paths : rows[p] \in GoodRows
  BY <1>2, NoRowIsGood, CleanRowIsGood DEF Init, Contents
<1>4. RowsPart
  BY <1>3 DEF RowsPart, GoodFiles, Init
<1>5. CommitsPart /\ HeadPart /\ WritesPart /\ ShownPart /\ BoundsPart /\ AgreedPart
  BY <1>1 DEF Init, CommitsPart, HeadPart, WritesPart, ShownPart, BoundsPart,
     AgreedPart, RemoteStatus
<1>6. RecoveriesPart
  BY DEF Init, RecoveriesPart
<1>7. [p \in Paths |-> NoRow] \in GoodFiles /\ [p \in Paths |-> NoRow] \in Files
  BY NoRowIsGood DEF GoodFiles, Files
<1>8. OpPart
  BY <1>1, <1>7 DEF Init, OpPart, NoOp, Operations, Phases, RemoteStatus, Choices
<1>9. FetchPart
  BY <1>1 DEF Init, FetchPart, NoFetch, Fetches, RemoteStatus
<1>10. PublishPart
  BY <1>1, NoRowIsGood, BoundAssumption
     DEF Init, PublishPart, NoPublish, Publications, Contents
<1>11. QED
  BY <1>4, <1>5, <1>6, <1>8, <1>9, <1>10 DEF Inv

LEMMA NextInv == Inv /\ [Next]_vars => Inv'
<1> SUFFICES ASSUME Inv, [Next]_vars PROVE Inv'
  OBVIOUS
<1>1. CASE Author
  BY <1>1, EditStep, EditAndCommitStep, ReadForWriteStep, StoreWriteStep,
     CommitLocalChangesStep, RestoreRecoveryStep DEF Author
<1>2. CASE Environment
  BY <1>2, ForeignStep, CrashStep, FailStep, FetchFailStep, PushReplyLostStep
     DEF Environment
<1>3. CASE Fetch
  BY <1>3, FetchStartStep, FetchMarkStep, FetchResolveStep, FetchRecordStep DEF Fetch
<1>4. CASE Begin
  <2>1. Resolutions \subseteq [Paths -> Choices]
    BY DEF Resolutions
  <2>2. QED
    BY <1>4, <2>1, PullStartStep, PushStartStep, SyncStartStep, OverwriteStartStep
       DEF Begin
<1>5. CASE Checking
  BY <1>5, OpMarkStep, OpResolveStep, OpCaptureStep DEF Checking
<1>6. CASE Pull
  BY <1>6, PullUnchangedStep, PullReplaceStep, PullRefusedStep DEF Pull
<1>7. CASE Push
  BY <1>7, PushPlanStep, PushLandStep, PushReconcileStep, PushSettleStep, PushRefusedStep
     DEF Push
<1>8. CASE Sync
  BY <1>8, SyncUnchangedStep, SyncConflictsStep, SyncSaveStep, SyncMergeStep,
     SyncRefusedStep, SyncSavePendingStep, SyncUncommitStep, SyncCommitStep,
     SyncPushStartStep, SyncRereadStep, SyncFinishStep DEF Sync
<1>9. CASE Overwrite
  BY <1>9, OverwriteCountStep, OverwriteSaveStep, OverwriteLandStep,
     OverwriteRefusedStep, OverwriteSettleStep DEF Overwrite
<1>10. CASE PublishChange
  BY <1>10, PublishPreflightStep, PublishReadStep, PublishCommitStep,
     PublishRefusedStep, PublishPushStep, PublishReconcileStep, PublishRollbackStep
     DEF PublishChange
<1>11. CASE UNCHANGED vars
  BY <1>11, Frame DEF Inv, vars
<1>12. QED
  BY <1>1, <1>2, <1>3, <1>4, <1>5, <1>6, <1>7, <1>8, <1>9, <1>10, <1>11 DEF Next

-----------------------------------------------------------------------------
(* The branch only grows                                                   *)

LEMMA BranchMovers ==
    ASSUME [Next]_vars, branch' # branch
    PROVE  \/ \E path \in Paths, value \in Contents : Foreign(path, value)
           \/ PushLand \/ PushReplyLost \/ OverwriteLand
<1>1. ~UNCHANGED vars
  BY DEF vars
<1>2. ~Author
  BY DEF Author, Edit, EditAndCommit, ReadForWrite, StoreWrite, CommitLocalChanges,
     RestoreRecovery
<1>3. ~(Crash \/ Fail \/ FetchFail \/ Fetch)
  BY DEF Crash, Fail, Abandon, FetchFail, Fetch, FetchStart, FetchMark, FetchResolve,
     FetchRecord
<1>4. ~(Begin \/ Checking)
  <2>1. (\E force \in BOOLEAN : PullStart(force)) => UNCHANGED branch
    BY Zenon DEF PullStart
  <2>2. (\E choice \in Resolutions : SyncStart(choice)) => UNCHANGED branch
    BY Zenon DEF SyncStart
  <2>3. PushStart \/ OverwriteStart \/ Checking => UNCHANGED branch
    BY DEF PushStart, OverwriteStart, Checking, OpMark, OpResolve, OpCapture
  <2>4. QED
    BY <2>1, <2>2, <2>3 DEF Begin
<1>5. ~(Pull \/ PushPlan \/ PushReconcile \/ PushSettle \/ PushRefused)
  BY DEF Pull, PullUnchanged, PullReplace, PullRefused, PushPlan, PushReconcile,
     PushSettle, PushRefused, Abandon
<1>6. ~Sync
  BY DEF Sync, SyncUnchanged, SyncConflicts, SyncSave, SyncMerge, SyncRefused,
     SyncSavePending, SyncUncommit, SyncCommit, SyncPushStart, SyncReread, SyncFinish, Abandon
<1>7. ~(OverwriteCount \/ OverwriteSave \/ OverwriteRefused \/ OverwriteSettle)
  BY DEF OverwriteCount, OverwriteSave, OverwriteRefused, OverwriteSettle, Abandon
<1>8. ~PublishChange
  <2>1. (\E p \in Paths, v \in Contents : PublishRead(p, v)) => UNCHANGED branch
    BY Zenon DEF PublishRead
  <2>2. PublishPreflight \/ PublishCommit \/ PublishRefused \/ PublishPush => UNCHANGED branch
    BY DEF PublishPreflight, PublishCommit, PublishRefused, PublishPush
  <2>3. PublishReconcile \/ PublishRollback => UNCHANGED branch
    BY DEF PublishReconcile, PublishRollback
  <2>4. QED
    BY <2>1, <2>2, <2>3 DEF PublishChange
<1>9. QED
  BY <1>1, <1>2, <1>3, <1>4, <1>5, <1>6, <1>7, <1>8 DEF Next, Environment, Push, Overwrite

LEMMA BranchSteps ==
    ASSUME Inv, [Next]_vars
    PROVE  UNCHANGED branch \/ \E tree \in Trees : branch' = Append(branch, tree)
<1>1. CASE UNCHANGED branch
  BY <1>1
<1>2. CASE \E path \in Paths, value \in Contents : Foreign(path, value)
  <2>1. PICK path \in Paths, value \in Contents : Foreign(path, value)
    BY <1>2
  <2>2. Tip \in 1..Tip /\ branch[Tip] \in Trees
    BY HeadRange, TreeType
  <2>3. [branch[Tip] EXCEPT ![path] = value] \in Trees
    BY <2>2 DEF Trees
  <2>4. QED
    BY <2>1, <2>3 DEF Foreign
<1>3. CASE PushLand \/ PushReplyLost
  BY <1>3, PushedTreeType DEF PushLand, PushReplyLost, Publish
<1>4. CASE OverwriteLand
  <2>1. [p \in Paths |-> View(op.files[p])] \in Trees
    BY DEF Inv, OpPart, GoodFiles, GoodRows, View, Gone, Row, Contents, Trees
  <2>2. QED
    BY <1>4, <2>1 DEF OverwriteLand, Publish
<1>5. QED
  BY <1>1, <1>2, <1>3, <1>4, BranchMovers

LEMMA BranchGrows ==
    ASSUME Inv, [Next]_vars
    PROVE  Tip' \in Nat /\ Tip' >= Tip /\ \A i \in 1..Tip : branch'[i] = branch[i]
<1>1. CASE UNCHANGED branch
  BY <1>1, HeadRange DEF Tip
<1>2. CASE \E tree \in Trees : branch' = Append(branch, tree)
  BY <1>2 DEF Inv, HeadPart, Tip
<1>3. QED
  BY <1>1, <1>2, BranchSteps

LEMMA AlwaysInv == Spec => []Inv
<1>1. Init => Inv
  BY InitInv
<1>2. Inv /\ [Next]_vars => Inv'
  BY NextInv
<1>3. QED
  BY <1>1, <1>2, PTL DEF Spec

\* Every variable keeps its type, for any paths, contents and bounds: whatever
\* the lease-free transactions of localRepository.ts do between two steps of a
\* leased operation, rows, commits, snapshots and heads stay readable.
THEOREM TypeCorrect == Spec => []TypeOK
<1>1. Inv => TypeOK
  BY InvImplies
<1>2. QED
  BY <1>1, AlwaysInv, PTL

\* No transaction stores or snapshots a row that calls changed content clean,
\* or that is committed and still dirty, for any paths, contents and bounds.
THEOREM AllRowsWellFormed == Spec => []RowsWellFormed
<1>1. Inv => RowsWellFormed
  BY InvImplies
<1>2. QED
  BY <1>1, AlwaysInv, PTL

=============================================================================
