------------------------ MODULE RepositoryLifecycle ------------------------
(***************************************************************************)
(* The life of one local working copy: it is cloned, repaired when a clone *)
(* was interrupted, worked on, backed up, removed under its backup, and    *)
(* cloned again, by several tabs that may close at any step                *)
(* (repository/localRepository.ts, repositoryService.ts,                   *)
(* repositoryMaintenance.ts, localRewriteOperationStore.ts).               *)
(*                                                                         *)
(* Two databases are written: the primary one (row, files, tombstone,      *)
(* journal, completion) and the one of rewrite operations (records, its    *)
(* own tombstone, markers).  An action is one transaction on one of them.  *)
(* A copy is named by its number (localInstanceId), a lifecycle operation  *)
(* by the fence its claim took, a removal by its receipt.  An actor is one *)
(* flow of a tab; removals and repairs hold the lock of the repository.    *)
(***************************************************************************)
EXTENDS Naturals, FiniteSets

CONSTANTS Actors,
          Paths,          \* the files of the branch
          None, Branch,  \* no value; the content a file has in the branch
          MaxCopies,      \* bound on the clones
          MaxWork,        \* bound on the edits and rewrite operations
          MaxReceipts,    \* bound on the backups
          MaxTrouble      \* bound on closed or sleeping tabs and failed downloads

Copies == 1..MaxCopies
Work == [n : 1..MaxWork, copy : Copies, early : BOOLEAN]   \* early: into an incomplete copy
Contents == Work \cup {None, Branch}

Statuses == {"cloning", "repair-required", "repairing", "complete"}
Rows == [copy : Copies, fence : Nat, status : Statuses, lease : {"none", "live", "expired"}]

\* A removal is one backup used on one copy.
Removals == [id : 1..MaxReceipts, copy : Copies]
Receipts == [id : 1..MaxReceipts, copy : Copies, fence : Nat, status : Statuses,
             files : [Paths -> Contents], rewrites : SUBSET Work]
Journals == [id : 1..MaxReceipts, copy : Copies, fence : Nat, rewrites : SUBSET Work,
             phase : {"prepared", "rewrites-fenced", "primary-deleted", "finalizing", "finalized"}]
Completions == [id : 1..MaxReceipts, copy : Copies, rewrites : SUBSET Work, evident : BOOLEAN,
                phase : {"finalizing", "finalized"}]

ASSUME LifecycleAssumption ==
  /\ Paths # {} /\ {MaxCopies, MaxWork, MaxReceipts, MaxTrouble} \subseteq Nat
  /\ None \notin Rows \cup Removals \cup Journals \cup Completions
  /\ None \notin Actors \cup Work \cup {Branch} /\ Branch \notin Work

VARIABLES
  row,          \* the copy: its number, operationFence, cloneStatus, operationLease
  files,        \* its files: absent, as in the branch, or an edit
  mfence,       \* maintenanceFences
  tombstone,    \* maintenanceTombstones: the copy being removed, by its receipt
  journal,      \* removalJournals
  completion,   \* maintenanceCompletions
  rewrites,     \* the records of rewrite operations
  rwTombstone, markers,  \* ... their tombstone, and the removals that deleted some
  receipts,     \* the backups whose receipts a tab holds
  act,          \* what each actor is doing
  lock,         \* the actor that holds the Web Lock of the repository
  copies, worked, backups, trouble,
  safe,         \* history: the work that is in a bundle, or that its author discarded
  replayed,     \* history: copies whose removal was replayed from its completion
  overtaken     \* history: a copy was created before a removal had ended

primary == <<row, files, mfence, tombstone, journal, completion>>
secondary == <<rewrites, rwTombstone, markers>>
counters == <<copies, worked, backups, trouble>>
history == <<safe, replayed, overtaken>>
vars == <<primary, secondary, receipts, act, lock, counters, history>>

Idle == [at |-> "idle", id |-> 0, copy |-> 0, seen |-> {}]

Init ==
  /\ row = None /\ files = [p \in Paths |-> None] /\ mfence = 0
  /\ tombstone = None /\ journal = None /\ completion = None
  /\ rewrites = {} /\ rwTombstone = None /\ markers = {}
  /\ receipts = {} /\ act = [a \in Actors |-> Idle] /\ lock = None
  /\ copies = 0 /\ worked = 0 /\ backups = 0 /\ trouble = 0
  /\ safe = {} /\ replayed = {} /\ overtaken = FALSE

Trouble == trouble < MaxTrouble /\ trouble' = trouble + 1

Goto(a, at) == act' = [act EXCEPT ![a].at = at]
Quit(a) == act' = [act EXCEPT ![a] = Idle] /\ lock' = IF lock = a THEN None ELSE lock

\* guardedWriteTransaction
Fenced == tombstone # None \/ completion # None

HasRow == row # None
Status(s) == IF HasRow THEN row.status = s ELSE FALSE

----------------------------------------------------------------------------
(* Opening the book: ensureLocalBookStructure *)

\* There is no row: the branch is read, then the copy is created.
OpenMissing(a) ==
  /\ act[a] = Idle /\ ~HasRow /\ copies < MaxCopies
  /\ Goto(a, "create")
  /\ UNCHANGED <<primary, secondary, receipts, lock, counters, history>>

\* createLocalRepositoryClone: it asks for no row, and not for the journal.
Create(a) ==
  /\ act[a].at = "create"
  /\ \/ /\ ~HasRow /\ copies < MaxCopies
        /\ copies' = copies + 1 /\ mfence' = mfence + 1
        /\ row' = [copy |-> copies + 1, fence |-> mfence + 1, status |-> "cloning", lease |-> "live"]
        /\ tombstone' = None /\ completion' = None
        /\ act' = [act EXCEPT ![a].at = "download", ![a].id = mfence + 1]
        /\ overtaken' = (overtaken \/ journal # None)
        /\ UNCHANGED lock
     \/ (HasRow \/ copies = MaxCopies) /\ Quit(a)
        /\ UNCHANGED <<row, mfence, tombstone, completion, copies, overtaken>>
  /\ UNCHANGED <<files, journal, secondary, receipts, worked, backups, trouble, safe, replayed>>

\* Mutant: the row is still being cloned, whoever clones it.
OwnsStatus(a, status) == ~Fenced /\ Status(status)

\* validateCloneOperation, validateRepairOperation: the operation still owns the
\* row.  Its lease may have expired, as long as nobody claimed it.
Owns(a, status) ==
  /\ ~Fenced /\ Status(status)
  /\ IF HasRow THEN row.lease # "none" /\ row.fence = act[a].id ELSE FALSE

\* putCleanLocalFileScoped
Download(a) ==
  /\ act[a].at = "download"
  /\ \E p \in Paths :
       \/ /\ p \notin act[a].seen /\ Owns(a, "cloning")
          /\ files' = [files EXCEPT ![p] = Branch]
          /\ act' = [act EXCEPT ![a].seen = @ \cup {p}]
          /\ UNCHANGED trouble
       \/ /\ p \notin act[a].seen
          /\ IF Owns(a, "cloning") THEN Trouble ELSE UNCHANGED trouble
          /\ Goto(a, "release") /\ UNCHANGED files
  /\ UNCHANGED <<row, mfence, tombstone, journal, completion, secondary, receipts, lock,
                 copies, worked, backups, history>>

\* markLocalRepositoryCloneComplete
CloneComplete(a) ==
  /\ act[a].at = "download" /\ act[a].seen = Paths
  /\ row' = IF Owns(a, "cloning") THEN [row EXCEPT !.status = "complete", !.lease = "none"] ELSE row
  /\ Quit(a)
  /\ UNCHANGED <<files, mfence, tombstone, journal, completion, secondary, receipts, counters, history>>

\* markLocalRepositoryRepairRequired, releaseLocalRepositoryRepair: swallowed on
\* failure, and what comes next when the operation was reclaimed.
Release(a) ==
  /\ act[a].at \in {"release", "reclaimed"}
  /\ LET owned == Owns(a, "cloning") \/ Owns(a, "repairing") IN
     /\ row' = IF owned THEN [row EXCEPT !.status = "repair-required", !.lease = "none"] ELSE row
     /\ IF act[a].at = "reclaimed" /\ owned THEN Goto(a, "repair") /\ UNCHANGED lock ELSE Quit(a)
  /\ UNCHANGED <<files, mfence, tombstone, journal, completion, secondary, receipts, counters, history>>

\* Mutant: only a clone is reclaimed from a tab that is gone, not a repair.
OpenExpiredClone(a) ==
  /\ act[a] = Idle /\ HasRow /\ ~Fenced
  /\ row.lease = "expired" /\ row.status = "cloning"
  /\ row' = [row EXCEPT !.fence = @ + 1, !.lease = "live"]
  /\ act' = [act EXCEPT ![a].at = "reclaimed", ![a].id = row.fence + 1]
  /\ UNCHANGED <<files, mfence, tombstone, journal, completion, secondary, receipts, lock, counters, history>>

\* reclaimExpiredRepositoryLifecycleLease
OpenExpired(a) ==
  /\ act[a] = Idle /\ HasRow /\ ~Fenced
  /\ row.lease = "expired"
  /\ row' = [row EXCEPT !.fence = @ + 1, !.lease = "live"]
  /\ act' = [act EXCEPT ![a].at = "reclaimed", ![a].id = row.fence + 1]
  /\ UNCHANGED <<files, mfence, tombstone, journal, completion, secondary, receipts, lock, counters, history>>

OpenIncomplete(a) ==
  /\ act[a] = Idle /\ Status("repair-required") /\ ~Fenced
  /\ Goto(a, "repair")
  /\ UNCHANGED <<primary, secondary, receipts, lock, counters, history>>

\* claimLocalRepositoryRepair, under the lock, and the look at the files
Repair(a) ==
  /\ act[a].at = "repair" /\ lock = None
  /\ \/ /\ Status("repair-required") /\ ~Fenced
        /\ row' = [row EXCEPT !.fence = @ + 1, !.status = "repairing", !.lease = "live"]
        /\ act' = [act EXCEPT ![a].at = "repairing", ![a].id = row.fence + 1,
                              ![a].seen = {<<p, files[p]>> : p \in Paths}]
        /\ lock' = a
     \/ (Fenced \/ ~Status("repair-required")) /\ Quit(a) /\ UNCHANGED row
  /\ UNCHANGED <<files, mfence, tombstone, journal, completion, secondary, receipts, counters, history>>

\* applyCloneRepairAtomically, if no file changed since it looked
Repaired(a) ==
  /\ act[a].at = "repairing"
  /\ \/ /\ Owns(a, "repairing") /\ act[a].seen = {<<p, files[p]>> : p \in Paths}
        /\ files' = [p \in Paths |-> IF files[p] = None THEN Branch ELSE files[p]]
        /\ row' = [row EXCEPT !.status = "complete", !.lease = "none"]
        /\ Quit(a) /\ UNCHANGED trouble
     \/ /\ IF Owns(a, "repairing") /\ act[a].seen = {<<p, files[p]>> : p \in Paths}
           THEN Trouble ELSE UNCHANGED trouble
        /\ Goto(a, "release") /\ UNCHANGED <<row, files, lock>>
  /\ UNCHANGED <<mfence, tombstone, journal, completion, secondary, receipts,
                 copies, worked, backups, history>>

----------------------------------------------------------------------------
(* The author's work: edits, and the records of rewrite operations *)

\* exactLocalRepository, and assertNoRepositoryMigration before a rewrite
Begin(a) ==
  /\ act[a] = Idle /\ Status("complete") /\ worked < MaxWork
  /\ \E kind \in {"edit"} \cup (IF journal = None THEN {"rewrite"} ELSE {}) :
       act' = [act EXCEPT ![a].at = kind, ![a].copy = row.copy]
  /\ UNCHANGED <<primary, secondary, receipts, lock, counters, history>>

\* putScopedLocalFile: for the repository, whichever copy of it there is now.
Edit(a) ==
  /\ act[a].at = "edit" /\ Quit(a)
  /\ \/ /\ HasRow /\ ~Fenced /\ worked < MaxWork /\ worked' = worked + 1
        /\ \E p \in Paths :
             /\ files' = [files EXCEPT ![p] =
                  [n |-> worked + 1, copy |-> row.copy, early |-> row.status # "complete"]]
             /\ safe' = safe \cup ({files[p]} \cap Work)
     \/ (~HasRow \/ Fenced \/ worked = MaxWork) /\ UNCHANGED <<files, worked, safe>>
  /\ UNCHANGED <<row, mfence, tombstone, journal, completion, secondary, receipts,
                 copies, backups, trouble, replayed, overtaken>>

\* Mutant: only the tombstone keeps a late record out.
MaySaveUnmarked(copy) == IF rwTombstone = None THEN TRUE ELSE rwTombstone.copy # copy

\* saveLocalRewriteOperation
MaySave(copy) ==
  /\ \A m \in markers : m.copy # copy
  /\ IF rwTombstone = None THEN TRUE ELSE rwTombstone.copy # copy

SaveRewrite(a) ==
  /\ act[a].at = "rewrite" /\ Quit(a)
  /\ \/ /\ MaySave(act[a].copy) /\ worked < MaxWork /\ worked' = worked + 1
        /\ rewrites' = rewrites \cup {[n |-> worked + 1, copy |-> act[a].copy, early |-> FALSE]}
     \/ (~MaySave(act[a].copy) \/ worked = MaxWork) /\ UNCHANGED <<rewrites, worked>>
  /\ UNCHANGED <<primary, rwTombstone, markers, receipts, copies, backups, trouble, history>>

\* deleteLocalRewriteOperation
DeleteRewrite(a) ==
  /\ act[a] = Idle
  /\ \E r \in rewrites :
       /\ IF rwTombstone = None THEN TRUE ELSE rwTombstone.copy # r.copy
       /\ rewrites' = rewrites \ {r} /\ safe' = safe \cup {r}
  /\ UNCHANGED <<primary, rwTombstone, markers, receipts, act, lock, counters, replayed, overtaken>>

\* createMaintenanceBackupBundle.  Its two reads are checked apart when the
\* receipt is used, so reading both at once shows the same removals.
Backup(a) ==
  /\ act[a] = Idle /\ HasRow /\ tombstone = None /\ journal = None
  /\ \A r \in rewrites : r.copy = row.copy
  /\ backups < MaxReceipts /\ backups' = backups + 1
  /\ receipts' = receipts \cup {[id |-> backups + 1, copy |-> row.copy, fence |-> row.fence,
                                 status |-> row.status, files |-> files, rewrites |-> rewrites]}
  /\ safe' = safe \cup rewrites \cup ({files[p] : p \in Paths} \cap Work)
  /\ UNCHANGED <<primary, secondary, act, lock, copies, worked, trouble, replayed, overtaken>>

----------------------------------------------------------------------------
(* Removing the copy: removeRepositoryWithBackupReceipt, under the lock *)

\* Mutant: a finalized removal goes on at a step there is not.
PhaseNextFinished(phase) ==
  CASE phase = "prepared" -> "fence"
    [] phase = "rewrites-fenced" -> "delete"
    [] phase = "primary-deleted" -> "deleted"
    [] phase = "finalizing" -> "finalize"
    [] phase = "finalized" -> "finished"

PhaseNext(phase) ==
  CASE phase = "prepared" -> "fence"
    [] phase = "rewrites-fenced" -> "delete"
    [] phase = "primary-deleted" -> "deleted"
    [] phase = "finalizing" -> "finalize"
    [] phase = "finalized" -> "complete"

\* What the databases say about earlier attempts decides where this one begins.
Attempt(a, receipt) ==
  /\ act[a] = Idle /\ lock = None /\ lock' = a
  /\ act' = [act EXCEPT ![a].id = receipt,
                        ![a].seen = IF completion = None THEN {} ELSE {completion},
                        ![a].at = IF completion # None THEN "replay"
                                  ELSE IF journal # None THEN PhaseNext(journal.phase)
                                  ELSE "prepare"]
  /\ UNCHANGED <<primary, secondary, receipts, counters, history>>

Remove(a) ==
  /\ journal = None /\ HasRow
  /\ \E r \in receipts : Attempt(a, r.id)

Resume(a) ==
  /\ journal # None \/ (IF completion = None THEN FALSE ELSE completion.phase # "finalized")
  /\ Attempt(a, 0)

\* Mutant: the copy and its fence are taken to say that nothing changed.
ValidFence(receipt) ==
  /\ tombstone = None /\ HasRow
  /\ row.copy = receipt.copy /\ row.fence = receipt.fence

\* prepareRemoval: one transaction against everything the bundle holds
Valid(receipt) ==
  /\ tombstone = None /\ HasRow
  /\ row.copy = receipt.copy /\ row.fence = receipt.fence
  /\ row.status = receipt.status /\ files = receipt.files

Prepare(a) ==
  /\ act[a].at = "prepare"
  /\ \E r \in receipts : r.id = act[a].id /\
       \/ /\ Valid(r)
          /\ row' = [row EXCEPT !.fence = @ + 1, !.lease = "none"]
          /\ mfence' = row.fence + 1
          /\ tombstone' = [id |-> r.id, copy |-> r.copy]
          /\ journal' = [id |-> r.id, copy |-> r.copy, fence |-> row.fence + 1,
                         rewrites |-> r.rewrites, phase |-> "prepared"]
          /\ Goto(a, "fence") /\ UNCHANGED lock
       \/ ~Valid(r) /\ Quit(a) /\ UNCHANGED <<row, mfence, tombstone, journal>>
  /\ UNCHANGED <<files, completion, secondary, receipts, counters, history>>

Mine(m) == m.id = journal.id /\ m.copy = journal.copy
Marked == \E m \in markers : Mine(m)
OwnTombstone == IF rwTombstone = None THEN TRUE ELSE Mine(rwTombstone)

\* Mutant: a removal that comes back does not know its own marker.
FenceRewritesOnce(a) ==
  /\ act[a].at = "fence"
  /\ \/ /\ rwTombstone = None /\ rewrites = journal.rewrites
        /\ rwTombstone' = [id |-> journal.id, copy |-> journal.copy]
        /\ markers' = markers \cup {[id |-> journal.id, copy |-> journal.copy]}
        /\ rewrites' = {}
        /\ Goto(a, "fenced") /\ UNCHANGED lock
     \/ /\ rwTombstone = None /\ rewrites # journal.rewrites
        /\ Goto(a, "cancel") /\ UNCHANGED <<secondary, lock>>
     \/ rwTombstone # None /\ Quit(a) /\ UNCHANGED secondary
  /\ UNCHANGED <<primary, receipts, counters, history>>

\* fenceAndRemoveLocalRewriteOperationsForMaintenance
FenceRewrites(a) ==
  /\ act[a].at = "fence"
  /\ \/ /\ Marked /\ rewrites = {} /\ OwnTombstone
        /\ Goto(a, "fenced") /\ UNCHANGED <<secondary, lock>>
     \/ /\ ~Marked /\ OwnTombstone /\ rewrites = journal.rewrites
        /\ rwTombstone' = [id |-> journal.id, copy |-> journal.copy]
        /\ markers' = markers \cup {[id |-> journal.id, copy |-> journal.copy]}
        /\ rewrites' = {}
        /\ Goto(a, "fenced") /\ UNCHANGED lock
     \/ /\ ~Marked /\ rwTombstone = None /\ rewrites # journal.rewrites
        /\ Goto(a, "cancel") /\ UNCHANGED <<secondary, lock>>
     \/ /\ IF Marked THEN ~OwnTombstone \/ rewrites # {}
           ELSE rwTombstone # None /\ (~OwnTombstone \/ rewrites # journal.rewrites)
        /\ Quit(a) /\ UNCHANGED secondary
  /\ UNCHANGED <<primary, receipts, counters, history>>

IsTarget == IF HasRow THEN row.copy = journal.copy /\ row.fence = journal.fence ELSE FALSE

\* cancelPreparedRemoval
Cancel(a) ==
  /\ act[a].at = "cancel" /\ Quit(a)
  /\ IF IsTarget
     THEN /\ row' = [row EXCEPT !.fence = @ - 1] /\ tombstone' = None /\ journal' = None
          /\ receipts' = {r \in receipts : r.id # journal.id}
     ELSE UNCHANGED <<row, tombstone, journal, receipts>>
  /\ UNCHANGED <<files, mfence, completion, secondary, counters, history>>

\* updateJournal puts what the flow holds, which under the lock is what is stored.
Advance(a, at, phase, next) ==
  /\ act[a].at = at
  /\ journal' = [journal EXCEPT !.phase = phase] /\ Goto(a, next)
  /\ UNCHANGED <<row, files, mfence, tombstone, completion, secondary, receipts, lock, counters, history>>

RewritesFenced(a) == Advance(a, "fenced", "rewrites-fenced", "delete")
PrimaryDeleted(a) == Advance(a, "removed", "primary-deleted", "deleted")
Finalizing(a) == Advance(a, "deleted", "finalizing", "finalize")
Finalized(a) == Advance(a, "completed", "finalized", "clean")

\* deletePrimary
DeletePrimary(a) ==
  /\ act[a].at = "delete"
  /\ \/ /\ ~HasRow \/ IsTarget
        /\ row' = None /\ files' = [p \in Paths |-> None]
        /\ Goto(a, "removed") /\ UNCHANGED lock
     \/ HasRow /\ ~IsTarget /\ Quit(a) /\ UNCHANGED <<row, files>>
  /\ UNCHANGED <<mfence, tombstone, journal, completion, secondary, receipts, counters, history>>

\* finalizeLocalRewriteMaintenanceTombstone
FinalizeRewrites(a) ==
  /\ act[a].at = "finalize"
  /\ \/ /\ Marked /\ rewrites = {} /\ OwnTombstone
        /\ rwTombstone' = None /\ Goto(a, "complete") /\ UNCHANGED lock
     \/ (~Marked \/ rewrites # {} \/ ~OwnTombstone) /\ Quit(a) /\ UNCHANGED rwTombstone
  /\ UNCHANGED <<primary, rewrites, markers, receipts, counters, history>>

\* The completion, with the evidence that the rewrites were deleted
Complete(a) ==
  /\ act[a].at = "complete" /\ Goto(a, "completed")
  /\ completion' = [id |-> journal.id, copy |-> journal.copy, rewrites |-> journal.rewrites,
                    evident |-> Marked \/ journal.rewrites = {}, phase |-> "finalizing"]
  /\ UNCHANGED <<row, files, mfence, tombstone, journal, secondary, receipts, lock, counters, history>>

Clean(a) ==
  /\ act[a].at \in {"clean", "reClean"}
  /\ tombstone' = None /\ journal' = None
  /\ Goto(a, IF act[a].at = "clean" THEN "settle" ELSE "unmark")
  /\ UNCHANGED <<row, files, mfence, completion, secondary, receipts, lock, counters, history>>

Settle(a) ==
  /\ act[a].at = "settle" /\ Quit(a)
  /\ completion' = IF completion = None THEN None ELSE [completion EXCEPT !.phase = "finalized"]
  /\ UNCHANGED <<row, files, mfence, tombstone, journal, secondary, receipts, counters, history>>

----------------------------------------------------------------------------
(* Removing a copy whose completion is there: the rest of the removal again *)

Held(a) == CHOOSE c \in act[a].seen : TRUE
HeldMarker(a) == [id |-> Held(a).id, copy |-> Held(a).copy]

\* Nothing of the copy is left, the lookup finds nothing foreign, and the
\* completion is evidence that its rewrites were deleted.
Exact(a) ==
  /\ IF journal = None THEN TRUE ELSE journal.id = Held(a).id
  /\ IF HasRow THEN journal = None /\ tombstone = None ELSE TRUE
  /\ \A p \in Paths : files[p] = None
  /\ rewrites = {} /\ Held(a).evident

Replay(a) ==
  /\ act[a].at = "replay"
  /\ IF ~Exact(a) THEN Quit(a)
     ELSE /\ Goto(a, IF Held(a).rewrites = {} \/ Held(a).phase = "finalized" THEN "reJournal"
                     ELSE IF HeldMarker(a) \in markers THEN "reFinalize" ELSE "reUntomb")
          /\ UNCHANGED lock
  /\ UNCHANGED <<primary, secondary, receipts, counters, history>>

ReplayFinalize(a) ==
  LET ok == HeldMarker(a) \in markers /\ rewrites = {} /\ rwTombstone \in {None, HeldMarker(a)} IN
  /\ act[a].at = "reFinalize"
  /\ \/ ok /\ rwTombstone' = None /\ Goto(a, "reUnmark") /\ UNCHANGED lock
     \/ ~ok /\ Quit(a) /\ UNCHANGED rwTombstone
  /\ UNCHANGED <<primary, rewrites, markers, receipts, counters, history>>

\* clearRewriteMaintenanceCompletion
Unmark(a) ==
  /\ act[a].at \in {"reUnmark", "unmark"}
  /\ markers' = markers \ {HeldMarker(a)}
  /\ replayed' = replayed \cup {Held(a).copy}
  /\ Goto(a, IF act[a].at = "unmark" THEN "untomb" ELSE "reUntomb")
  /\ UNCHANGED <<primary, rewrites, rwTombstone, receipts, lock, counters, safe, overtaken>>

\* clearRewriteMaintenanceTombstone
Untomb(a) ==
  /\ act[a].at \in {"reUntomb", "untomb"}
  /\ rwTombstone' = None
  /\ Goto(a, IF act[a].at = "untomb" THEN "forget" ELSE "reJournal")
  /\ UNCHANGED <<primary, rewrites, markers, receipts, lock, counters, history>>

ReplayFinalized(a) ==
  /\ act[a].at = "reJournal"
  /\ journal' = IF journal = None THEN None ELSE [journal EXCEPT !.phase = "finalized"]
  /\ Goto(a, "reClean")
  /\ UNCHANGED <<row, files, mfence, tombstone, completion, secondary, receipts, lock, counters, history>>

\* clearRemovalCompletion
Forget(a) ==
  /\ act[a].at = "forget" /\ Quit(a)
  /\ completion' = None
  /\ UNCHANGED <<row, files, mfence, tombstone, journal, secondary, receipts, counters, history>>

----------------------------------------------------------------------------
(* Tabs that close, and leases nobody renews *)

\* The receipts are in the session, which outlives a reload.
Close(a) ==
  /\ Trouble /\ act[a] # Idle /\ Quit(a)
  /\ UNCHANGED <<primary, secondary, receipts, copies, worked, backups, history>>

KeepsLease(a) == act[a].at \in {"download", "release", "reclaimed", "repairing"} /\ act[a].id = row.fence

\* REPOSITORY_LEASE_MS pass without a heartbeat: its tab is gone, or sleeps.
Expire ==
  /\ HasRow
  /\ row.lease = "live"
  /\ IF \E a \in Actors : KeepsLease(a) THEN Trouble ELSE UNCHANGED trouble
  /\ row' = [row EXCEPT !.lease = "expired"]
  /\ UNCHANGED <<files, mfence, tombstone, journal, completion, secondary, receipts, act, lock,
                 copies, worked, backups, history>>

Open(a) == OpenMissing(a) \/ OpenExpired(a) \/ OpenIncomplete(a)

\* What an actor goes on to do once it began
Step(a) ==
  \/ Create(a) \/ Download(a) \/ CloneComplete(a) \/ Release(a) \/ Repair(a) \/ Repaired(a)
  \/ Edit(a) \/ SaveRewrite(a)
  \/ Prepare(a) \/ FenceRewrites(a) \/ Cancel(a) \/ RewritesFenced(a)
  \/ DeletePrimary(a) \/ PrimaryDeleted(a) \/ Finalizing(a) \/ FinalizeRewrites(a)
  \/ Complete(a) \/ Finalized(a) \/ Clean(a) \/ Settle(a)
  \/ Replay(a) \/ ReplayFinalize(a) \/ Unmark(a) \/ Untomb(a) \/ ReplayFinalized(a) \/ Forget(a)

Next ==
  \/ \E a \in Actors : \/ Open(a) \/ Begin(a) \/ DeleteRewrite(a) \/ Backup(a)
                       \/ Remove(a) \/ Resume(a) \/ Step(a) \/ Close(a)
  \/ Expire

\* Flows go on, time passes, and the user comes back: opens the book while its
\* copy is incomplete, and resumes a removal while one is pending.
Fairness ==
  /\ \A a \in Actors : WF_vars(Step(a))
  /\ WF_vars(Expire)
  /\ SF_vars(\E a \in Actors : OpenExpired(a) \/ OpenIncomplete(a))
  /\ SF_vars(\E a \in Actors : Resume(a))

Spec == Init /\ [][Next]_vars /\ Fairness

----------------------------------------------------------------------------
(* Properties *)

Phases == {"idle", "create", "download", "release", "reclaimed", "repair", "repairing", "edit",
           "rewrite", "prepare", "fence", "fenced", "cancel", "delete", "removed", "deleted",
           "finalize", "complete", "completed", "clean", "settle", "replay", "reFinalize",
           "reUnmark", "reUntomb", "reJournal", "reClean", "unmark", "untomb", "forget"}

TypeOK ==
  /\ row \in Rows \cup {None} /\ files \in [Paths -> Contents] /\ mfence \in Nat
  /\ {tombstone, rwTombstone} \subseteq Removals \cup {None} /\ markers \subseteq Removals
  /\ journal \in Journals \cup {None} /\ completion \in Completions \cup {None}
  /\ receipts \subseteq Receipts /\ rewrites \subseteq Work /\ safe \subseteq Work
  /\ \A a \in Actors : act[a].at \in Phases
  /\ lock \in Actors \cup {None} /\ replayed \subseteq Copies /\ overtaken \in BOOLEAN
  /\ copies \in 0..MaxCopies /\ worked \in 0..MaxWork /\ backups \in 0..MaxReceipts
  /\ trouble \in 0..MaxTrouble

\* Nothing the author made is ever lost without a bundle that holds it, by
\* whichever removal, clone or repair, resumed by whichever tab
\* (test-browser/repositoryMaintenance.test.ts:288, "a rewrite landing before
\* rewrite fencing cancels removal rather than deleting unbacked work").
Made == {w \in rewrites \cup {files[p] : p \in Paths} : w \in Work}
WorkKept == [][\A w \in Made : w.early \/ w \in Made' \/ w \in safe']_vars

\* A copy that is called complete has every file of the branch, though the
\* operation that fetched some of them was reclaimed from a tab that lives on.
CompleteIsWhole == Status("complete") => \A p \in Paths : files[p] # None

\* A rewrite operation is never stored for a copy that is gone: one whose save
\* looked at that copy before it was removed is refused, unless the removal was
\* replayed meanwhile, which clears what would refuse it.
Orphans == {r \in rewrites : IF HasRow THEN row.copy # r.copy ELSE TRUE}
RewritesHaveTheirCopy == \A r \in Orphans : r.copy \in replayed

\* A removal that was journaled ends, whatever step its tab closed at: the copy
\* is gone or free again, unless it was created anew before the removal ended,
\* or a replay let a rewrite of it through.
RemovalEnds == []<>(journal = None \/ overtaken \/ Orphans # {})

\* A copy a closed tab left incomplete becomes whole, or is removed.
Recovers == []<>(row = None \/ Status("complete") \/ overtaken)
=============================================================================
