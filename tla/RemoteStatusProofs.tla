------------------------- MODULE RemoteStatusProofs -------------------------
(***************************************************************************)
(* What the remote status shows, for every number of paths, contents and   *)
(* bounds: "checking" never outlives the check, and "changed" is never     *)
(* shown by mistake.                                                       *)
(***************************************************************************)
EXTENDS RepositorySyncProofs

\* The check that runs is about the head the working copy knows: only such a
\* check may take "checking" back (updateLocalRepositoryIfBaseline)
OpOwns ==
    /\ Checks
    /\ op.phase \in {"marked", "resolved", "captured", "saved"}
    /\ op.expected = known
FetchOwns ==
    /\ fetch.phase \in {"marked", "resolved"}
    /\ fetch.expected = known

\* What a check puts back when it fails is never "checking" itself
OwnedPart ==
    /\ remoteStatus = "checking" => OpOwns \/ FetchOwns
    /\ op.previous # "checking" /\ fetch.previous # "checking"

LEMMA OwnedImplies == Inv /\ OwnedPart => CheckingIsOwned
BY DEF OwnedPart, CheckingIsOwned, OpOwns, FetchOwns

-----------------------------------------------------------------------------
(* Which steps can disturb OwnedPart                                       *)

LEMMA StatusRecorded ==
    ASSUME OwnedPart, remoteStatus' \in {"clean", "changed"},
           op'.previous # "checking", fetch'.previous # "checking"
    PROVE  OwnedPart'
BY DEF OwnedPart

\* A step that leaves the status and the head alone, and ends no check
LEMMA StatusKept ==
    ASSUME OwnedPart, UNCHANGED <<known, remoteStatus, fetch>>,
           op'.previous # "checking",
           OpOwns => OpOwns'
    PROVE  OwnedPart'
BY DEF OwnedPart, FetchOwns

\* A failed check takes its own "checking" back, and only its own
LEMMA AbandonOwned ==
    ASSUME Inv, OwnedPart, NEW outcomes, "checking" \notin outcomes, Abandon(outcomes)
    PROVE  OwnedPart'
<1>1. op'.previous # "checking"
  BY DEF Abandon, NoOp
<1>2. UNCHANGED <<known, fetch>>
  BY DEF Abandon
<1>3. CASE Checks /\ op.phase # "started"
  <2>1. known # op.expected => UNCHANGED remoteStatus
    BY <1>3 DEF Abandon, MarkFailure
  <2>2. known = op.expected => remoteStatus' # "checking"
    BY <1>3 DEF Abandon, MarkFailure
  <2>3. QED
    BY <1>1, <1>2, <2>1, <2>2 DEF OwnedPart, OpOwns, FetchOwns
<1>4. CASE ~(Checks /\ op.phase # "started")
  BY <1>1, <1>2, <1>4 DEF OwnedPart, OpOwns, FetchOwns, Abandon
<1>5. QED
  BY <1>3, <1>4

LEMMA OpFields ==
    Inv => op = [kind |-> op.kind, phase |-> op.phase, expected |-> op.expected,
                 previous |-> op.previous, head |-> op.head, landed |-> op.landed,
                 force |-> op.force, tidy |-> op.tidy, files |-> op.files,
                 pending |-> op.pending, choice |-> op.choice]
BY DEF Inv, OpPart, Operations

LEMMA FetchFields ==
    Inv => fetch = [phase |-> fetch.phase, expected |-> fetch.expected,
                    previous |-> fetch.previous, head |-> fetch.head]
BY DEF Inv, FetchPart, Fetches

-----------------------------------------------------------------------------
LEMMA AuthorOwned ==
    ASSUME Inv, OwnedPart, "restore" \notin Features, Author
    PROVE  OwnedPart'
<1>1. UNCHANGED <<known, remoteStatus, fetch, op>>
  BY DEF Author, Edit, EditAndCommit, MutateAndCommit, ReadForWrite, StoreWrite,
     CommitLocalChanges, CommitDirty, RestoreRecovery, tab, disk
<1>2. QED
  BY <1>1 DEF OwnedPart, OpOwns, FetchOwns, Checks

LEMMA EnvironmentOwned ==
    ASSUME Inv, OwnedPart, "crash" \notin Features, Environment
    PROVE  OwnedPart'
<1>1. CASE \E p \in Paths, v \in Contents : Foreign(p, v)
  BY <1>1 DEF Foreign, disk, tab, OwnedPart, OpOwns, FetchOwns, Checks
<1>2. CASE Fail
  BY <1>2, AbandonOwned DEF Fail, OwnedPart
<1>3. CASE FetchFail
  <2>1. UNCHANGED <<known, op>> /\ fetch' = NoFetch /\ NoFetch.previous # "checking"
    BY <1>3 DEF FetchFail, NoFetch
  <2>2. known = fetch.expected => remoteStatus' # "checking"
    BY <1>3 DEF FetchFail, MarkFailure, OwnedPart
  <2>3. known # fetch.expected => UNCHANGED remoteStatus
    BY <1>3 DEF FetchFail, MarkFailure
  <2>4. QED
    BY <2>1, <2>2, <2>3 DEF OwnedPart, OpOwns, FetchOwns, Checks
<1>4. CASE PushReplyLost
  <2>1. op'.previous = op.previous
    BY <1>4, OpFields DEF PushReplyLost
  <2>2. QED
    BY <1>4, <2>1, StatusKept DEF PushReplyLost, disk, OpOwns, OwnedPart
<1>5. QED
  BY <1>1, <1>2, <1>3, <1>4 DEF Environment, Crash

LEMMA FetchOwned ==
    ASSUME Inv, OwnedPart, Fetch
    PROVE  OwnedPart'
<1>1. CASE FetchStart
  BY <1>1 DEF FetchStart, NoFetch, disk, OwnedPart, OpOwns, FetchOwns, Checks
<1>2. CASE FetchMark
  <2>1. fetch'.phase = "marked" /\ fetch'.expected = fetch.expected
    BY <1>2, FetchFields DEF FetchMark
  <2>2. fetch'.previous # "checking"
    BY <1>2, FetchFields DEF FetchMark, Previous
  <2>3. QED
    BY <1>2, <2>1, <2>2
       DEF FetchMark, MarkChecking, OwnedPart, OpOwns, FetchOwns, Checks
<1>3. CASE FetchResolve
  <2>1. /\ fetch'.phase = "resolved" /\ fetch'.expected = fetch.expected
        /\ fetch'.previous = fetch.previous
    BY <1>3, FetchFields DEF FetchResolve
  <2>2. QED
    BY <1>3, <2>1 DEF FetchResolve, disk, OwnedPart, OpOwns, FetchOwns, Checks
<1>4. CASE FetchRecord
  <2>1. UNCHANGED op /\ fetch' = NoFetch /\ NoFetch.previous # "checking"
    BY <1>4 DEF FetchRecord, NoFetch
  <2>2. CASE BaselineMoved(fetch.expected)
    BY <1>4, <2>1, <2>2
       DEF FetchRecord, BaselineMoved, OwnedPart, OpOwns, FetchOwns, Checks
  <2>3. CASE ~BaselineMoved(fetch.expected)
    BY <1>4, <2>1, <2>3, StatusRecorded DEF FetchRecord, RecordHead, OwnedPart
  <2>4. QED
    BY <2>2, <2>3
<1>5. QED
  BY <1>1, <1>2, <1>3, <1>4 DEF Fetch

LEMMA BeginOwned ==
    ASSUME Inv, OwnedPart, Begin
    PROVE  OwnedPart'
<1>1. UNCHANGED <<known, remoteStatus, fetch>> /\ op.kind = "none"
  BY DEF Begin, PullStart, PushStart, SyncStart, OverwriteStart, disk
<1>2. op'.previous # "checking"
  BY DEF Begin, PullStart, PushStart, SyncStart, OverwriteStart, NoOp
<1>3. QED
  BY <1>1, <1>2, StatusKept DEF OpOwns, Checks

LEMMA CheckingOwned ==
    ASSUME Inv, OwnedPart, Checking
    PROVE  OwnedPart'
<1>1. CASE OpMark
  <2>1. /\ op'.kind = op.kind /\ op'.phase = "marked" /\ op'.expected = op.expected
        /\ op'.previous = Previous
    BY <1>1, OpFields DEF OpMark
  <2>2. Previous # "checking"
    BY DEF Previous
  <2>3. QED
    BY <1>1, <2>1, <2>2 DEF OpMark, MarkChecking, OwnedPart, OpOwns, FetchOwns, Checks
<1>2. CASE OpResolve \/ OpCapture
  <2>1. /\ op'.kind = op.kind /\ op'.phase \in {"resolved", "captured"}
        /\ op'.expected = op.expected /\ op'.previous = op.previous
    BY <1>2, OpFields DEF OpResolve, OpCapture
  <2>2. UNCHANGED <<known, remoteStatus, fetch>>
    BY <1>2 DEF OpResolve, OpCapture, disk
  <2>3. QED
    BY <2>1, <2>2, StatusKept DEF OwnedPart, OpOwns, Checks
<1>3. QED
  BY <1>1, <1>2 DEF Checking

LEMMA PullOwned ==
    ASSUME Inv, OwnedPart, Pull
    PROVE  OwnedPart'
<1>1. CASE PullUnchanged
  <2>1. op' = NoOp /\ NoOp.previous # "checking" /\ UNCHANGED fetch
    BY <1>1 DEF PullUnchanged, NoOp
  <2>2. CASE op.head = op.expected
    BY <1>1, <2>1, <2>2 DEF PullUnchanged, OwnedPart, OpOwns, FetchOwns
  <2>3. CASE op.head # op.expected
    BY <1>1, <2>1, <2>3, StatusRecorded DEF PullUnchanged, RecordHead, OwnedPart
  <2>4. QED
    BY <2>2, <2>3
<1>2. CASE PullReplace
  BY <1>2, StatusRecorded DEF PullReplace, RecordHead, NoOp, OwnedPart
<1>3. CASE PullRefused
  BY <1>3, AbandonOwned DEF PullRefused
<1>4. QED
  BY <1>1, <1>2, <1>3 DEF Pull

LEMMA PushOwned ==
    ASSUME Inv, OwnedPart, Push
    PROVE  OwnedPart'
<1>1. CASE PushPlan \/ PushLand \/ PushReconcile
  <2>1. /\ op'.previous = op.previous /\ op.phase \in {"listed", "planned", "ambiguous"}
        /\ UNCHANGED <<known, remoteStatus, fetch>>
    BY <1>1, OpFields DEF PushPlan, PushLand, PushReconcile, disk
  <2>2. QED
    BY <2>1, StatusKept DEF OwnedPart, OpOwns
<1>2. CASE PushSettle
  <2>1. op'.previous # "checking"
    BY <1>2, OpFields DEF PushSettle, Step, NoOp, OwnedPart
  <2>2. QED
    BY <1>2, <2>1, StatusRecorded DEF PushSettle, RecordHead, OwnedPart
<1>3. CASE PushRefused
  BY <1>3, AbandonOwned DEF PushRefused
<1>4. QED
  BY <1>1, <1>2, <1>3 DEF Push

LEMMA SyncOwned ==
    ASSUME Inv, OwnedPart, Sync
    PROVE  OwnedPart'
<1>1. ASSUME NEW phase PROVE Step(phase).previous # "checking"
  BY OpFields DEF Step, OwnedPart
<1>2. CASE SyncUnchanged \/ SyncMerge
  BY <1>1, <1>2, StatusRecorded DEF SyncUnchanged, SyncMerge, RecordHead, OwnedPart
<1>3. CASE SyncConflicts \/ SyncRefused
  BY <1>3, AbandonOwned DEF SyncConflicts, SyncRefused
<1>4. CASE SyncSave
  <2>1. op'.kind = op.kind /\ op'.phase = "saved" /\ op'.expected = op.expected
    BY <1>4, OpFields DEF SyncSave, Step
  <2>2. QED
    BY <1>1, <1>4, <2>1, StatusKept DEF SyncSave, OpOwns, Checks
<1>5. CASE SyncSavePending \/ SyncUncommit \/ SyncCommit \/ SyncPushStart \/ SyncReread
  <2>1. op'.previous = op.previous
    BY <1>5, OpFields
       DEF SyncSavePending, SyncUncommit, SyncCommit, SyncPushStart, SyncReread, Step
  <2>2. /\ op.phase \in {"merged", "unwinding", "dirty", "committed", "published"}
        /\ UNCHANGED <<known, remoteStatus, fetch>>
    BY <1>5 DEF SyncSavePending, SyncUncommit, SyncCommit, SyncPushStart, SyncReread, disk
  <2>3. QED
    BY <2>1, <2>2, StatusKept DEF OwnedPart, OpOwns
<1>6. CASE SyncFinish
  <2>1. op'.previous # "checking" /\ UNCHANGED fetch
    BY <1>6 DEF SyncFinish, NoOp
  <2>2. \/ RecordHead(op.landed)
        \/ op.phase = "committed" /\ UNCHANGED <<known, remoteStatus>>
    BY <1>6 DEF SyncFinish
  <2>3. QED
    BY <2>1, <2>2, StatusRecorded, StatusKept DEF RecordHead, OwnedPart, OpOwns
<1>7. QED
  BY <1>2, <1>3, <1>4, <1>5, <1>6 DEF Sync

LEMMA OverwriteOwned ==
    ASSUME Inv, OwnedPart, Overwrite
    PROVE  OwnedPart'
<1>1. CASE OverwriteCount \/ OverwriteSave \/ OverwriteLand
  <2>1. op'.previous = op.previous \/ op' = NoOp
    BY <1>1, OpFields DEF OverwriteCount, OverwriteSave, OverwriteLand, Step
  <2>2. op'.previous # "checking"
    BY <2>1 DEF NoOp, OwnedPart
  <2>3. ~OpOwns /\ UNCHANGED <<known, remoteStatus, fetch>>
    BY <1>1 DEF OverwriteCount, OverwriteSave, OverwriteLand, disk, OpOwns, Checks
  <2>4. QED
    BY <2>2, <2>3, StatusKept
<1>2. CASE OverwriteRefused
  BY <1>2, AbandonOwned DEF OverwriteRefused
<1>3. CASE OverwriteSettle
  BY <1>3, StatusRecorded DEF OverwriteSettle, RecordHead, NoOp, OwnedPart
<1>4. QED
  BY <1>1, <1>2, <1>3 DEF Overwrite

LEMMA PublishOwned ==
    ASSUME Inv, OwnedPart, PublishChange
    PROVE  OwnedPart'
<1>1. CASE PublishPush
  <2>1. op.kind = "none" /\ UNCHANGED <<known, remoteStatus, fetch>>
    BY <1>1 DEF PublishPush, disk
  <2>2. op'.previous # "checking"
    BY <1>1 DEF PublishPush, NoOp, OwnedPart
  <2>3. QED
    BY <2>1, <2>2, StatusKept DEF OpOwns, Checks
<1>2. CASE PublishReconcile
  <2>1. UNCHANGED <<op, fetch>>
    BY <1>2 DEF PublishReconcile
  <2>2. UNCHANGED <<known, remoteStatus>> \/ remoteStatus' = "clean"
    BY <1>2 DEF PublishReconcile, RecordHead, disk
  <2>3. QED
    BY <2>1, <2>2, StatusRecorded DEF OwnedPart, OpOwns, FetchOwns, Checks
<1>3. CASE ~PublishPush /\ ~PublishReconcile
  <2>1. UNCHANGED <<known, remoteStatus, fetch, op>>
    BY <1>3 DEF PublishChange, PublishPreflight, PublishRead, PublishCommit,
       PublishRefused, PublishRollback, disk
  <2>2. QED
    BY <2>1 DEF OwnedPart, OpOwns, FetchOwns, Checks
<1>4. QED
  BY <1>1, <1>2, <1>3

LEMMA OwnedInductive ==
    ASSUME "crash" \notin Features, "restore" \notin Features,
           Inv, OwnedPart, [Next]_vars
    PROVE  OwnedPart'
<1>1. CASE UNCHANGED vars
  BY <1>1 DEF vars, OwnedPart, OpOwns, FetchOwns, Checks
<1>2. CASE Next
  BY <1>2, AuthorOwned, EnvironmentOwned, FetchOwned, BeginOwned, CheckingOwned, PullOwned,
     PushOwned, SyncOwned, OverwriteOwned, PublishOwned DEF Next
<1>3. QED
  BY <1>1, <1>2

\* While its tab lives and restores no snapshot, a working copy shows
\* "checking" only while a check of the head it knows runs, for any paths,
\* contents and bounds: whatever two overlapping checks, a failure, an abort
\* or a push do, the status is taken back (markLocalRepositoryRemoteChecking
\* never remembers "checking" as the status before).
THEOREM CheckingEnds ==
    "crash" \notin Features /\ "restore" \notin Features => (Spec => []CheckingIsOwned)
<1> SUFFICES ASSUME "crash" \notin Features, "restore" \notin Features
             PROVE  Spec => []CheckingIsOwned
  OBVIOUS
<1>1. Init => OwnedPart
  BY DEF Init, OwnedPart, NoOp, NoFetch
<1>2. Inv /\ OwnedPart /\ [Next]_vars => OwnedPart'
  BY OwnedInductive
<1>3. Inv /\ OwnedPart => CheckingIsOwned
  BY OwnedImplies
<1>4. QED
  BY <1>1, <1>2, <1>3, AlwaysInv, PTL DEF Spec

-----------------------------------------------------------------------------
(* "changed" is true.  A check may put back the status it found when it    *)
(* began, after the head has moved and other checks have ended: what made  *)
(* that status true must still hold for the head it is put back for.       *)

Differs(k) == \E i \in k..Tip : branch[i] # branch[k]

Landing == {"ambiguous", "landed", "reread"}

\* A check never looks at an older commit than the one it started from.
HeadsRise ==
    /\ Checks => op.expected <= known
    /\ Checks /\ op.phase \notin {"started", "marked"} => op.expected <= op.head
    /\ Checks /\ op.phase \in Landing => op.expected <= op.landed
    /\ fetch.phase = "resolved" => fetch.expected <= fetch.head

ChangedShown ==
    remoteStatus = "changed" =>
        /\ Differs(known)
        /\ fetch.phase # "idle" => Differs(fetch.expected)

\* An operation that found "changed" will resolve another head; until it puts
\* "changed" back for the head it started from, no check started from another.
ChangedBefore ==
    Checks /\ op.phase # "started" /\ op.previous = "changed" =>
        /\ Differs(op.expected)
        /\ op.phase # "marked" => op.head # op.expected
        /\ op.phase \in Landing => op.landed # op.expected
        /\ known = op.expected /\ fetch.phase # "idle" => Differs(fetch.expected)

ChangedFetched ==
    fetch.phase \in {"marked", "resolved"} /\ fetch.previous = "changed" =>
        Differs(fetch.expected)

ChangedPart == HeadsRise /\ ChangedShown /\ ChangedBefore /\ ChangedFetched

LEMMA HeadTypes ==
    Inv => /\ Tip \in Nat \ {0} /\ known \in 1..Tip
           /\ op.expected \in 1..Tip /\ op.head \in 1..Tip /\ op.landed \in 1..Tip
           /\ fetch.expected \in 1..Tip /\ fetch.head \in 1..Tip
BY HeadRange DEF Inv, HeadPart, OpPart, Operations, FetchPart, Fetches

\* A head that has moved back in the branch is no less outdated.
LEMMA EarlierDiffers ==
    ASSUME Inv, NEW k \in 1..Tip, NEW j \in 1..k, Differs(k)
    PROVE  Differs(j)
<1>1. PICK i \in k..Tip : branch[i] # branch[k]
  BY DEF Differs
<1>2. i \in j..Tip /\ k \in j..Tip
  BY HeadTypes
<1>3. QED
  BY <1>1, <1>2 DEF Differs

LEMMA ChangedStays ==
    ASSUME Inv, [Next]_vars
    PROVE  /\ \A k \in 1..Tip : Differs(k) => \E i \in k..Tip' : branch'[i] # branch'[k]
           /\ \A k \in 1..Tip : Differs(k) => k < Tip
<1>1. \A k \in 1..Tip : \A i \in k..Tip : i \in k..Tip' /\ i \in 1..Tip
  BY BranchGrows, HeadTypes
<1>2. QED
  BY <1>1, BranchGrows, HeadTypes DEF Differs

\* An operation that checks has just begun, or goes on with what it resolved
Begins == op'.phase = "started" /\ op'.expected <= known'
Proceeds ==
    /\ Checks /\ op.phase # "started" /\ op'.phase # "started"
    /\ op'.expected = op.expected /\ op'.previous = op.previous
    /\ op.expected <= known'
    /\ op'.phase # "marked" =>
          op.expected <= op'.head /\ (op.previous = "changed" => op.expected # op'.head)
    /\ op'.phase \in Landing =>
          op.expected <= op'.landed /\ (op.previous = "changed" => op.expected # op'.landed)
GoesOn == Checks' => Begins \/ Proceeds

\* A step that announces or fails no check: the periodic check stays as it is
\* or ends, and the status stays or the head is recorded
LEMMA ChangedKept ==
    ASSUME Inv, ChangedPart, [Next]_vars, GoesOn,
           fetch' = fetch \/ fetch' = NoFetch,
           \/ UNCHANGED <<known, remoteStatus>>
           \/ /\ remoteStatus' = "clean"
              /\ Checks' /\ op'.phase # "started" /\ op.previous = "changed" =>
                    known' # op.expected
    PROVE  ChangedPart'
<1>1. HeadsRise'
  BY DEF ChangedPart, HeadsRise, GoesOn, Begins, Proceeds, Checks, NoFetch, Landing
<1>2. ChangedShown'
  <2>1. CASE remoteStatus' = "clean"
    BY <2>1 DEF ChangedShown
  <2>2. CASE UNCHANGED <<known, remoteStatus>>
    BY <2>2, ChangedStays, HeadTypes DEF ChangedPart, ChangedShown, Differs, NoFetch
  <2>3. QED
    BY <2>1, <2>2
<1>3. ChangedBefore'
  <2>1. SUFFICES ASSUME Checks', op'.phase # "started", op'.previous = "changed"
                 PROVE  /\ Differs(op.expected)'
                        /\ (op.phase # "marked" => op.head # op.expected)'
                        /\ (op.phase \in Landing => op.landed # op.expected)'
                        /\ (known = op.expected /\ fetch.phase # "idle" =>
                              Differs(fetch.expected))'
    BY DEF ChangedBefore
  <2>2. Proceeds
    BY <2>1 DEF GoesOn, Begins
  <2>3. Differs(op.expected)
    BY <2>1, <2>2 DEF Proceeds, ChangedPart, ChangedBefore
  <2>4. Differs(op.expected)'
    BY <2>2, <2>3, ChangedStays, HeadTypes DEF Proceeds, Differs
  <2>5. known' = op'.expected /\ fetch'.phase # "idle" => Differs(fetch.expected)'
    <3>1. CASE UNCHANGED known
      BY <2>1, <2>2, <3>1, ChangedStays, HeadTypes
         DEF Proceeds, ChangedPart, ChangedBefore, Differs, NoFetch
    <3>2. CASE known' # op.expected
      BY <2>2, <3>2 DEF Proceeds
    <3>3. QED
      BY <2>1, <2>2, <3>1, <3>2 DEF Proceeds
  <2>6. QED
    BY <2>1, <2>2, <2>4, <2>5 DEF Proceeds
<1>4. ChangedFetched'
  BY ChangedStays, HeadTypes DEF ChangedPart, ChangedFetched, Differs, NoFetch
<1>5. QED
  BY <1>1, <1>2, <1>3, <1>4 DEF ChangedPart

\* The operation stays as it is, at a head that has not moved back
LEMMA OpStays ==
    ASSUME Inv, ChangedPart, UNCHANGED op, known' >= known, known' \in 1..Tip'
    PROVE  GoesOn
<1>1. Checks => op.expected <= known
  BY DEF ChangedPart, HeadsRise
<1>2. Checks => op.expected <= known'
  BY <1>1, HeadTypes
<1>3. QED
  BY <1>2 DEF ChangedPart, HeadsRise, ChangedBefore, GoesOn, Begins, Proceeds, Checks

LEMMA NoCheckGoesOn == ASSUME ~Checks' PROVE GoesOn
BY DEF GoesOn

-----------------------------------------------------------------------------
\* A failed check puts back what it found, if its head is still the known one
LEMMA AbandonChanged ==
    ASSUME Inv, ChangedPart, [Next]_vars, NEW outcomes,
           outcomes \subseteq {"unverified", op.previous}, Abandon(outcomes)
    PROVE  ChangedPart'
<1>1. ~Checks' /\ UNCHANGED <<known, fetch>>
  BY DEF Abandon, NoOp, Checks
<1>2. CASE UNCHANGED remoteStatus \/ remoteStatus' = "clean"
  BY <1>1, <1>2, ChangedKept, NoCheckGoesOn
<1>3. CASE remoteStatus' # remoteStatus /\ remoteStatus' # "clean"
  <2>1. /\ Checks /\ op.phase # "started" /\ known = op.expected
        /\ remoteStatus' \in {"unverified", op.previous}
    BY <1>3 DEF Abandon, MarkFailure
  <2>2. ChangedShown'
    BY <1>1, <2>1, ChangedStays, HeadTypes
       DEF ChangedPart, ChangedBefore, ChangedShown, Differs
  <2>3. HeadsRise' /\ ChangedBefore'
    BY <1>1 DEF ChangedPart, HeadsRise, ChangedBefore
  <2>4. ChangedFetched'
    BY <1>1, ChangedStays, HeadTypes DEF ChangedPart, ChangedFetched, Differs
  <2>5. QED
    BY <2>2, <2>3, <2>4 DEF ChangedPart
<1>4. QED
  BY <1>2, <1>3

LEMMA AuthorChanged ==
    ASSUME Inv, ChangedPart, "restore" \notin Features, [Next]_vars, Author
    PROVE  ChangedPart'
<1>1. UNCHANGED <<known, remoteStatus, fetch, op, branch>>
  BY DEF Author, Edit, EditAndCommit, MutateAndCommit, ReadForWrite, StoreWrite,
     CommitLocalChanges, CommitDirty, RestoreRecovery, tab, disk
<1>2. QED
  BY <1>1, OpStays, ChangedKept, HeadTypes DEF Tip

LEMMA EnvironmentChanged ==
    ASSUME Inv, ChangedPart, [Next]_vars, Environment
    PROVE  ChangedPart'
<1>1. CASE \E p \in Paths, v \in Contents : Foreign(p, v)
  <2>1. UNCHANGED <<known, remoteStatus, fetch, op>>
    BY <1>1 DEF Foreign, disk, tab
  <2>2. GoesOn
    BY <2>1, OpStays, HeadTypes, BranchGrows
  <2>3. QED
    BY <2>1, <2>2, ChangedKept
<1>2. CASE Crash
  BY <1>2, ChangedKept, NoCheckGoesOn DEF Crash, NoOp, Checks, disk
<1>3. CASE Fail
  BY <1>3, AbandonChanged DEF Fail
<1>4. CASE FetchFail
  <2>1. UNCHANGED <<known, op, branch>> /\ fetch' = NoFetch
    BY <1>4 DEF FetchFail
  <2>2. GoesOn
    BY <2>1, OpStays, HeadTypes DEF Tip
  <2>3. CASE UNCHANGED remoteStatus
    BY <2>1, <2>2, <2>3, ChangedKept
  <2>4. CASE remoteStatus' # remoteStatus
    <3>1. /\ known = fetch.expected /\ fetch.phase \in {"marked", "resolved"}
          /\ remoteStatus' \in {"unverified", fetch.previous}
      BY <1>4, <2>4 DEF FetchFail, MarkFailure
    <3>2. ChangedShown'
      BY <2>1, <3>1 DEF ChangedPart, ChangedFetched, ChangedShown, Differs, NoFetch, Tip
    <3>3. HeadsRise' /\ ChangedFetched'
      BY <2>1 DEF ChangedPart, HeadsRise, ChangedFetched, Checks, NoFetch
    <3>4. ChangedBefore'
      BY <2>1 DEF ChangedPart, ChangedBefore, Checks, Differs, NoFetch, Tip
    <3>5. QED
      BY <3>2, <3>3, <3>4 DEF ChangedPart
  <2>5. QED
    BY <2>3, <2>4
<1>5. CASE PushReplyLost
  <2>1. /\ op.phase = "planned" /\ op'.phase = "ambiguous" /\ op'.landed = Tip + 1
        /\ op'.kind = op.kind /\ op'.expected = op.expected /\ op'.head = op.head
        /\ op'.previous = op.previous
        /\ UNCHANGED <<known, remoteStatus, fetch>>
    BY <1>5, OpFields DEF PushReplyLost, disk
  <2>2. GoesOn
    BY <2>1, HeadTypes
       DEF GoesOn, Proceeds, Checks, Landing, ChangedPart, HeadsRise, ChangedBefore
  <2>3. QED
    BY <2>1, <2>2, ChangedKept
<1>6. QED
  BY <1>1, <1>2, <1>3, <1>4, <1>5 DEF Environment

LEMMA FetchChanged ==
    ASSUME Inv, ChangedPart, [Next]_vars, Fetch
    PROVE  ChangedPart'
<1>1. UNCHANGED <<op, branch>> /\ Tip' = Tip
  BY DEF Fetch, FetchStart, FetchMark, FetchResolve, FetchRecord, Tip
<1>2. CASE FetchStart
  <2>1. /\ UNCHANGED <<known, remoteStatus>>
        /\ fetch'.phase = "started" /\ fetch'.expected = known
    BY <1>2 DEF FetchStart, disk, NoFetch
  <2>2. HeadsRise' /\ ChangedShown' /\ ChangedFetched'
    BY <1>1, <2>1
       DEF ChangedPart, HeadsRise, ChangedShown, ChangedFetched, Checks, Differs
  <2>3. ChangedBefore'
    BY <1>1, <2>1 DEF ChangedPart, ChangedBefore, Checks, Differs
  <2>4. QED
    BY <2>2, <2>3 DEF ChangedPart
<1>3. CASE FetchMark
  <2>1. /\ fetch.phase = "started" /\ fetch'.phase = "marked"
        /\ fetch'.expected = fetch.expected /\ fetch'.previous = Previous
        /\ remoteStatus' \in {remoteStatus, "checking"}
        /\ UNCHANGED known
    BY <1>3, FetchFields DEF FetchMark, MarkChecking
  <2>2. HeadsRise' /\ ChangedShown'
    BY <1>1, <2>1 DEF ChangedPart, HeadsRise, ChangedShown, Checks, Differs
  <2>3. ChangedFetched'
    BY <1>1, <2>1 DEF ChangedPart, ChangedShown, ChangedFetched, Previous, Differs
  <2>4. ChangedBefore'
    BY <1>1, <2>1 DEF ChangedPart, ChangedBefore, Checks, Differs
  <2>5. QED
    BY <2>2, <2>3, <2>4 DEF ChangedPart
<1>4. CASE FetchResolve
  <2>1. /\ fetch.phase = "marked" /\ fetch'.phase = "resolved" /\ fetch'.head = Tip
        /\ fetch'.expected = fetch.expected /\ fetch'.previous = fetch.previous
        /\ UNCHANGED <<known, remoteStatus>>
    BY <1>4, FetchFields DEF FetchResolve, disk
  <2>2. HeadsRise'
    BY <1>1, <2>1, HeadTypes DEF ChangedPart, HeadsRise, Checks
  <2>3. ChangedShown' /\ ChangedFetched'
    BY <1>1, <2>1 DEF ChangedPart, ChangedShown, ChangedFetched, Differs
  <2>4. ChangedBefore'
    BY <1>1, <2>1 DEF ChangedPart, ChangedBefore, Checks, Differs
  <2>5. QED
    BY <2>2, <2>3, <2>4 DEF ChangedPart
<1>5. CASE FetchRecord
  <2>1. fetch.phase = "resolved" /\ fetch' = NoFetch
    BY <1>5 DEF FetchRecord
  <2>2. CASE UNCHANGED <<known, remoteStatus>>
    BY <1>1, <2>1, <2>2, OpStays, ChangedKept, HeadTypes
  <2>3. CASE ~BaselineMoved(fetch.expected) /\ RecordHead(fetch.head)
    <3>1. known = fetch.expected /\ known' = fetch.head /\ known' >= known
          /\ remoteStatus' = "clean"
      BY <2>1, <2>3 DEF BaselineMoved, RecordHead, ChangedPart, HeadsRise
    <3>2. HeadsRise'
      BY <1>1, <2>1, <3>1, HeadTypes DEF ChangedPart, HeadsRise, Checks, NoFetch
    <3>3. ChangedShown' /\ ChangedFetched'
      BY <2>1, <3>1 DEF ChangedShown, ChangedFetched, NoFetch
    <3>4. ChangedBefore'
      BY <1>1, <2>1 DEF ChangedPart, ChangedBefore, Checks, NoFetch, Differs
    <3>5. QED
      BY <3>2, <3>3, <3>4 DEF ChangedPart
  <2>4. CASE /\ ~BaselineMoved(fetch.expected)
             /\ branch[fetch.head] # branch[fetch.expected]
             /\ remoteStatus' = "changed" /\ UNCHANGED known
    <3>1. known = fetch.expected /\ fetch.head \in known..Tip
      BY <2>1, <2>4, HeadTypes DEF BaselineMoved, ChangedPart, HeadsRise
    <3>2. Differs(known)
      BY <2>4, <3>1 DEF Differs
    <3>3. ChangedShown' /\ ChangedFetched'
      BY <1>1, <2>1, <2>4, <3>2 DEF ChangedShown, ChangedFetched, NoFetch, Differs
    <3>4. HeadsRise' /\ ChangedBefore'
      BY <1>1, <2>1, <2>4
         DEF ChangedPart, HeadsRise, ChangedBefore, Checks, NoFetch, Differs
    <3>5. QED
      BY <3>3, <3>4 DEF ChangedPart
  <2>5. QED
    BY <1>5, <2>2, <2>3, <2>4 DEF FetchRecord
<1>6. QED
  BY <1>2, <1>3, <1>4, <1>5 DEF Fetch

LEMMA BeginChanged ==
    ASSUME Inv, ChangedPart, [Next]_vars, Begin
    PROVE  ChangedPart'
<1>1. /\ UNCHANGED <<known, remoteStatus, fetch>>
      /\ Checks' => op'.phase = "started" /\ op'.expected = known
  <2>1. CASE \E force \in BOOLEAN : PullStart(force)
    BY <2>1 DEF PullStart, NoOp, disk
  <2>2. CASE \E choice \in Resolutions : SyncStart(choice)
    BY <2>2 DEF SyncStart, NoOp, disk
  <2>3. CASE PushStart \/ OverwriteStart
    BY <2>3 DEF PushStart, OverwriteStart, NoOp, Checks, disk
  <2>4. QED
    BY <2>1, <2>2, <2>3 DEF Begin
<1>2. GoesOn
  BY <1>1, HeadTypes DEF GoesOn, Begins
<1>3. QED
  BY <1>1, <1>2, ChangedKept

LEMMA CheckingChanged ==
    ASSUME Inv, ChangedPart, [Next]_vars, Checking
    PROVE  ChangedPart'
<1>1. CASE OpMark
  <2>1. /\ Checks /\ op'.kind = op.kind /\ op.phase = "started" /\ op'.phase = "marked"
        /\ op'.expected = op.expected /\ op'.previous = Previous
        /\ remoteStatus' \in {remoteStatus, "checking"}
        /\ UNCHANGED <<known, fetch, branch>> /\ Tip' = Tip
    BY <1>1, OpFields DEF OpMark, MarkChecking, Tip
  <2>2. HeadsRise'
    BY <2>1 DEF ChangedPart, HeadsRise, Checks, Landing
  <2>3. ChangedShown' /\ ChangedFetched'
    BY <2>1 DEF ChangedPart, ChangedShown, ChangedFetched, Differs
  <2>4. Previous = "changed" =>
          Differs(op.expected) /\ (fetch.phase # "idle" => Differs(fetch.expected))
    <3>1. op.expected \in 1..known
      BY <2>1, HeadTypes DEF ChangedPart, HeadsRise
    <3>2. QED
      BY <3>1, EarlierDiffers, HeadTypes DEF Previous, ChangedPart, ChangedShown
  <2>5. ChangedBefore'
    BY <2>1, <2>4 DEF ChangedBefore, Differs, Landing
  <2>6. QED
    BY <2>2, <2>3, <2>5 DEF ChangedPart
<1>2. CASE OpResolve
  <2>1. /\ op.phase = "marked" /\ op'.phase = "resolved" /\ op'.head = Tip
        /\ op'.kind = op.kind /\ op'.expected = op.expected /\ op'.previous = op.previous
        /\ UNCHANGED <<known, remoteStatus, fetch>>
    BY <1>2, OpFields DEF OpResolve, disk
  <2>2. Checks /\ op.previous = "changed" => op.expected < Tip
    BY <2>1, ChangedStays, HeadTypes DEF ChangedPart, ChangedBefore
  <2>3. GoesOn
    BY <2>1, <2>2, HeadTypes DEF GoesOn, Proceeds, Checks, Landing, ChangedPart, HeadsRise
  <2>4. QED
    BY <2>1, <2>3, ChangedKept
<1>3. CASE OpCapture
  <2>1. /\ op.phase = "resolved" /\ op'.phase = "captured" /\ op'.head = op.head
        /\ op'.kind = op.kind /\ op'.expected = op.expected /\ op'.previous = op.previous
        /\ UNCHANGED <<known, remoteStatus, fetch>>
    BY <1>3, OpFields DEF OpCapture, disk
  <2>2. GoesOn
    BY <2>1 DEF GoesOn, Proceeds, Checks, Landing, ChangedPart, HeadsRise, ChangedBefore
  <2>3. QED
    BY <2>1, <2>2, ChangedKept
<1>4. QED
  BY <1>1, <1>2, <1>3 DEF Checking

LEMMA PullChanged ==
    ASSUME Inv, ChangedPart, [Next]_vars, Pull
    PROVE  ChangedPart'
<1>1. CASE PullUnchanged \/ PullReplace
  <2>1. op' = NoOp /\ fetch' = fetch
    BY <1>1 DEF PullUnchanged, PullReplace
  <2>2. UNCHANGED <<known, remoteStatus>> \/ remoteStatus' = "clean"
    BY <1>1 DEF PullUnchanged, PullReplace, RecordHead
  <2>3. ~Checks'
    BY <2>1 DEF NoOp, Checks
  <2>4. QED
    BY <2>1, <2>2, <2>3, NoCheckGoesOn, ChangedKept
<1>2. CASE PullRefused
  BY <1>2, AbandonChanged DEF PullRefused
<1>3. QED
  BY <1>1, <1>2 DEF Pull

LEMMA PushChanged ==
    ASSUME Inv, ChangedPart, [Next]_vars, Push
    PROVE  ChangedPart'
<1>1. Checks /\ op.phase \notin {"started", "marked"} /\ op.previous = "changed" =>
        op.expected < Tip
  BY ChangedStays, HeadTypes DEF ChangedPart, ChangedBefore
<1>2. CASE PushPlan
  <2>1. /\ op.phase = "listed" /\ op'.phase \in {"planned", "landed"}
        /\ op'.head = Tip /\ op'.landed = Tip
        /\ op'.kind = op.kind /\ op'.expected = op.expected /\ op'.previous = op.previous
        /\ UNCHANGED <<known, remoteStatus, fetch>>
    BY <1>2, OpFields DEF PushPlan, disk
  <2>2. GoesOn
    BY <1>1, <2>1, HeadTypes DEF GoesOn, Proceeds, Checks, Landing, ChangedPart, HeadsRise
  <2>3. QED
    BY <2>1, <2>2, ChangedKept
<1>3. CASE PushLand \/ PushReconcile
  <2>1. /\ op.phase \in {"planned", "ambiguous"} /\ op'.phase = "landed"
        /\ op'.landed \in {Tip, Tip + 1} /\ op'.head = op.head
        /\ op'.kind = op.kind /\ op'.expected = op.expected /\ op'.previous = op.previous
        /\ UNCHANGED <<known, remoteStatus, fetch>>
    BY <1>3, OpFields DEF PushLand, PushReconcile, disk
  <2>2. GoesOn
    BY <1>1, <2>1, HeadTypes
       DEF GoesOn, Proceeds, Checks, Landing, ChangedPart, HeadsRise, ChangedBefore
  <2>3. QED
    BY <2>1, <2>2, ChangedKept
<1>4. CASE PushSettle
  <2>1. /\ op.phase = "landed" /\ known' = op.landed /\ remoteStatus' = "clean"
        /\ fetch' = fetch
    BY <1>4 DEF PushSettle, RecordHead
  <2>2. Checks' =>
          /\ Checks /\ op'.phase = "published" /\ op'.head = op.head
          /\ op'.expected = op.expected /\ op'.previous = op.previous
    BY <1>4, OpFields DEF PushSettle, Step, NoOp, Checks
  <2>3. Checks => /\ op.expected <= op.landed
                  /\ op.previous = "changed" => op.expected # op.landed
    BY <2>1 DEF ChangedPart, HeadsRise, ChangedBefore, Landing
  <2>4. GoesOn
    BY <2>1, <2>2, <2>3
       DEF GoesOn, Proceeds, Landing, ChangedPart, HeadsRise, ChangedBefore
  <2>5. QED
    BY <2>1, <2>2, <2>3, <2>4, ChangedKept
<1>5. CASE PushRefused
  BY <1>5, AbandonChanged DEF PushRefused
<1>6. QED
  BY <1>2, <1>3, <1>4, <1>5 DEF Push

\* A full sync that goes on with the head it resolved, after recording a head
\* or without touching any
LEMMA SyncGoesOn ==
    ASSUME Inv, ChangedPart, [Next]_vars, op.kind = "sync",
           op.phase \notin {"idle", "started", "marked"},
           op'.kind = "sync", op'.head = op.head, op'.landed \in {op.landed, Tip},
           op'.expected = op.expected, op'.previous = op.previous,
           op'.phase \notin {"started", "marked", "ambiguous", "landed"},
           op'.phase = "reread" => op'.landed = Tip,
           fetch' = fetch,
           \/ UNCHANGED <<known, remoteStatus>>
           \/ known' = op.head /\ remoteStatus' = "clean"
    PROVE  ChangedPart'
<1>1. op.previous = "changed" => op.expected < Tip
  BY ChangedStays, HeadTypes DEF ChangedPart, ChangedBefore, Checks
<1>2. GoesOn
  BY <1>1, HeadTypes DEF GoesOn, Proceeds, Checks, Landing, ChangedPart, HeadsRise, ChangedBefore
<1>3. op.previous = "changed" => op.head # op.expected
  BY DEF ChangedPart, ChangedBefore, Checks
<1>4. QED
  BY <1>2, <1>3, ChangedKept

LEMMA SyncChanged ==
    ASSUME Inv, ChangedPart, [Next]_vars, Sync
    PROVE  ChangedPart'
<1>1. CASE SyncUnchanged \/ SyncMerge
  <2>1. /\ op.kind = "sync" /\ op.phase \in {"resolved", "captured", "saved"}
        /\ known' = op.head /\ remoteStatus' = "clean" /\ fetch' = fetch
        /\ op' = Step("merged")
    BY <1>1 DEF SyncUnchanged, SyncMerge, MergePlanned, RecordHead
  <2>2. QED
    BY <2>1, OpFields, SyncGoesOn DEF Step
<1>2. CASE SyncSave \/ SyncCommit
  <2>1. /\ op.kind = "sync" /\ op.phase \in {"captured", "dirty"}
        /\ UNCHANGED <<known, remoteStatus, fetch>>
        /\ op' = Step("saved") \/ op' = Step("committed")
    BY <1>2 DEF SyncSave, SyncCommit
  <2>2. QED
    BY <2>1, OpFields, SyncGoesOn DEF Step
<1>3. CASE SyncSavePending \/ SyncUncommit \/ SyncPushStart \/ SyncReread
  <2>1. /\ op.kind = "sync" /\ op.phase \in {"merged", "unwinding", "committed", "published"}
        /\ UNCHANGED <<known, remoteStatus, fetch>>
    BY <1>3 DEF SyncSavePending, SyncUncommit, SyncPushStart, SyncReread, disk
  <2>2. /\ op'.kind = op.kind /\ op'.head = op.head /\ op'.expected = op.expected
        /\ op'.previous = op.previous
        /\ op'.phase \in {"unwinding", "dirty", "listed", "reread"}
        /\ op'.landed = IF op'.phase = "reread" THEN Tip ELSE op.landed
    BY <1>3, OpFields DEF SyncSavePending, SyncUncommit, SyncPushStart, SyncReread
  <2>3. QED
    BY <2>1, <2>2, SyncGoesOn
<1>4. CASE SyncConflicts \/ SyncRefused
  BY <1>4, AbandonChanged DEF SyncConflicts, SyncRefused
<1>5. CASE SyncFinish
  <2>1. ~Checks' /\ fetch' = fetch
    BY <1>5 DEF SyncFinish, NoOp, Checks
  <2>2. UNCHANGED <<known, remoteStatus>> \/ remoteStatus' = "clean"
    BY <1>5 DEF SyncFinish, RecordHead
  <2>3. QED
    BY <2>1, <2>2, NoCheckGoesOn, ChangedKept
<1>6. QED
  BY <1>1, <1>2, <1>3, <1>4, <1>5 DEF Sync

LEMMA OverwriteChanged ==
    ASSUME Inv, ChangedPart, [Next]_vars, Overwrite
    PROVE  ChangedPart'
<1>1. CASE ~OverwriteRefused
  <2>1. \/ op'.kind = op.kind /\ op.kind = "overwrite"
        \/ op' = NoOp
    BY <1>1, OpFields DEF Overwrite, OverwriteCount, OverwriteSave, OverwriteLand,
       OverwriteSettle, Step
  <2>2. ~Checks'
    BY <2>1 DEF NoOp, Checks
  <2>3. fetch' = fetch /\ (UNCHANGED <<known, remoteStatus>> \/ remoteStatus' = "clean")
    BY <1>1 DEF Overwrite, OverwriteCount, OverwriteSave, OverwriteLand,
       OverwriteSettle, RecordHead, disk
  <2>4. QED
    BY <2>2, <2>3, NoCheckGoesOn, ChangedKept
<1>2. CASE OverwriteRefused
  BY <1>2, AbandonChanged DEF OverwriteRefused
<1>3. QED
  BY <1>1, <1>2

LEMMA PublishChanged ==
    ASSUME Inv, ChangedPart, [Next]_vars, PublishChange
    PROVE  ChangedPart'
<1>1. CASE PublishPush
  <2>1. fetch' = fetch /\ UNCHANGED <<known, remoteStatus>>
    BY <1>1 DEF PublishPush, disk
  <2>2. ~Checks'
    BY <1>1 DEF PublishPush, NoOp, Checks
  <2>3. QED
    BY <2>1, <2>2, NoCheckGoesOn, ChangedKept
<1>2. CASE PublishReconcile
  <2>1. UNCHANGED <<op, fetch, branch>>
    BY <1>2 DEF PublishReconcile
  <2>2. \/ UNCHANGED <<known, remoteStatus>>
        \/ known' = Tip /\ remoteStatus' = "clean"
    BY <1>2 DEF PublishReconcile, RecordHead, disk
  <2>3. GoesOn
    BY <2>1, <2>2, OpStays, HeadTypes DEF Tip
  <2>4. Checks /\ op.phase # "started" /\ op.previous = "changed" => op.expected < Tip
    BY ChangedStays, HeadTypes DEF ChangedPart, ChangedBefore
  <2>5. QED
    BY <2>1, <2>2, <2>3, <2>4, ChangedKept, HeadTypes DEF Checks
<1>3. CASE ~PublishPush /\ ~PublishReconcile
  <2>1. UNCHANGED <<known, remoteStatus, fetch, op, branch>>
    <3>1. CASE PublishCommit \/ PublishRollback
      BY <3>1 DEF PublishCommit, PublishRollback
    <3>2. CASE PublishPreflight \/ PublishRefused
      BY <3>2 DEF PublishPreflight, PublishRefused, disk
    <3>3. CASE \E p \in Paths, v \in Contents : PublishRead(p, v)
      BY <3>3 DEF PublishRead, disk
    <3>4. QED
      BY <1>3, <3>1, <3>2, <3>3 DEF PublishChange
  <2>2. QED
    BY <2>1, OpStays, ChangedKept, HeadTypes DEF Tip
<1>4. QED
  BY <1>1, <1>2, <1>3

LEMMA ChangedInductive ==
    ASSUME "restore" \notin Features, Inv, ChangedPart, [Next]_vars
    PROVE  ChangedPart'
<1>1. CASE UNCHANGED vars
  BY <1>1, OpStays, ChangedKept, HeadTypes DEF vars, Tip
<1>2. CASE Next
  BY <1>2, AuthorChanged, EnvironmentChanged, FetchChanged, BeginChanged, CheckingChanged,
     PullChanged, PushChanged, SyncChanged, OverwriteChanged, PublishChanged DEF Next
<1>3. QED
  BY <1>1, <1>2

\* While no snapshot is restored, "changed" always means that the branch really
\* has another tree after the known head, for any paths, contents and bounds:
\* whichever checks, pushes, failures, aborts and closed tabs cut into each
\* other, no outdated result and no status put back late announces a change
\* that is not there (markLocalRepositoryRemoteCheck and -Failure act only
\* while the head they checked is still the known one).
THEOREM ChangedNeverLies == "restore" \notin Features => (Spec => []ChangedIsTrue)
<1> SUFFICES ASSUME "restore" \notin Features
             PROVE  Spec => []ChangedIsTrue
  OBVIOUS
<1>1. Init => ChangedPart
  BY DEF Init, ChangedPart, HeadsRise, ChangedShown, ChangedBefore, ChangedFetched,
     NoOp, NoFetch, Checks
<1>2. Inv /\ ChangedPart /\ [Next]_vars => ChangedPart'
  BY ChangedInductive
<1>3. ChangedPart => ChangedIsTrue
  BY DEF ChangedPart, ChangedShown, ChangedIsTrue, Differs
<1>4. QED
  BY <1>1, <1>2, <1>3, AlwaysInv, PTL DEF Spec
=============================================================================
