---------------------------- MODULE AccountSync ----------------------------
(***************************************************************************)
(* Account data is edited on several devices, in several tabs of each, and *)
(* copied to the replicas the user enabled: account/accountLocalStore.ts   *)
(* (the local store, one transaction per write), account/vectorClock.ts,   *)
(* account/accountSync.ts (the synchronization and the dialog that settles *)
(* a divergence), account/sync/driveBackend.ts and githubBackend.ts over   *)
(* drive/jsonFile.ts.                                                      *)
(*                                                                         *)
(* Content is the set of edits it holds, a snapshot identity the device    *)
(* and the counter that issued it, a content hash the content itself, and  *)
(* a provider's revision the snapshot stored under it.                     *)
(***************************************************************************)
EXTENDS Naturals, FiniteSets

CONSTANTS
  Devices,
  Tabs,
  DeviceOf,       \* the device of each tab
  Order,          \* the backends, in the order they are written
  Drives,         \* those with a manifest file: Google Drive, OneDrive
  Duplicating,    \* those where a create never finds the name taken: Google
  MaxEdits,       \* bound on a device's counter
  Budgets,        \* bounds that go together: snapshots made, calls that fail,
                  \* and acts of the user that change nothing
  Restless,       \* the tabs whose users do such acts
  None, Failed, Unasked

Backends == {Order[i] : i \in DOMAIN Order}

Edits == Devices \X (0..MaxEdits)

Clocks == [Devices -> 0..MaxEdits]

Snapshots == [id : Edits, clock : Clocks, edits : SUBSET Edits]

Replies == Snapshots \cup {None, Failed, Unasked}

Phases == {"pull", "apply", "next", "write", "manifest", "check", "confirm"}

\* A synchronization: the snapshot it writes, the replicas it has still to
\* write, what each replica answered, the drives whose manifest is old.
Syncs == [tab : Tabs, phase : Phases, local : Snapshots, queue : SUBSET Backends,
          got : [Backends -> Replies], repair : SUBSET Drives]

\* A decision the user is asked for
Requests == [local : Snapshots, remotes : SUBSET Snapshots]

ASSUME SyncAssumption ==
  /\ DeviceOf \in [Tabs -> Devices] /\ DOMAIN Order \subseteq Nat
  /\ Duplicating \subseteq Drives /\ Drives \subseteq Backends
  /\ MaxEdits \in Nat /\ Budgets \subseteq [made : Nat, fault : Nat, act : Nat]
  /\ None \notin Snapshots /\ Failed \notin Snapshots /\ Unasked \notin Snapshots
  /\ None \notin Edits

VARIABLES
  store,          \* the local store of each device
  dirty,          \* its mark of changes no replica confirmed
  view,           \* what each tab holds in memory
  timer,          \* the tab has a synchronization scheduled
  sync,           \* the synchronization of each device that holds the lock
  request,        \* the decision each tab is asked for
  enabled,        \* the replicas enabled on each device
  known,          \* the snapshot last seen at each replica, by device
  failed,         \* the replicas each device shows in error
  files,          \* account-data.json (or the branch) of each backend
  manifest,       \* manifest.json of each drive
  extras,         \* failed calls and rarer acts of the user so far
  left,           \* history: devices where the user, since the last change or
                  \* reload, dismissed the question or deleted a replica whose
                  \* error was the answer or could become it
  made, stored    \* history: snapshots issued, and stored at each backend

local == <<store, dirty, view, made>>
replicas == <<enabled, known, failed>>
remote == <<files, manifest, stored>>
rare == <<extras, left>>
vars == <<local, timer, sync, request, replicas, remote, rare>>

----------------------------------------------------------------------------
(* Clocks and plans *)

Leq(a, b) == \A d \in Devices : a[d] <= b[d]

\* compareAccountManifests
Comparison(l, r) ==
  IF r = None THEN "missing"
  ELSE IF l.clock = r.clock THEN IF l.edits = r.edits THEN "same" ELSE "diverged"
  ELSE IF Leq(r.clock, l.clock) THEN "ahead"
  ELSE IF Leq(l.clock, r.clock) THEN "behind" ELSE "diverged"

MaxClock(S) == [d \in Devices |-> CHOOSE n \in 0..MaxEdits :
                                    /\ \E s \in S : s.clock[d] = n
                                    /\ \A s \in S : s.clock[d] <= n]

\* nextAccountManifest and reconciledAccountManifest: the clocks merged,
\* the device's counter one more, and a fresh identity.
Issued(d, S, content) ==
  LET clock == MaxClock(S) IN
  [id |-> <<d, clock[d] + 1>>, clock |-> [clock EXCEPT ![d] = @ + 1], edits |-> content]

Within(snapshots, counts) ==
  \E b \in Budgets : /\ snapshots <= b.made
                     /\ counts.fault <= b.fault /\ counts.act <= b.act

CanIssue(d, S) == MaxClock(S)[d] < MaxEdits /\ Within(Cardinality(made) + 1, extras)

Seed(d) == [id |-> <<d, 0>>, clock |-> [e \in Devices |-> 0], edits |-> {<<d, 0>>}]

NoSync == [tab |-> None]

Found(got) == {r \in {got[b] : b \in Backends} : r \in Snapshots}

\* planAccountSync: a divergence, or two replicas that differ, is the user's.
MustReconcile(l, got) ==
  \/ \E r \in Found(got) : Comparison(l, r) = "diverged"
  \/ \E r, s \in Found(got) : <<r.clock, r.edits>> # <<s.clock, s.edits>>

Newer(l, got) == {r \in Found(got) : Comparison(l, r) = "behind"}

----------------------------------------------------------------------------
\* The user has just enabled the replicas: what opening the tabs scheduled has
\* run before, and found none.
Init ==
  /\ store = [d \in Devices |-> Seed(d)]
  /\ dirty = [d \in Devices |-> FALSE]
  /\ view = [t \in Tabs |-> {<<DeviceOf[t], 0>>}]
  /\ timer = [t \in Tabs |-> FALSE]
  /\ sync = [d \in Devices |-> NoSync]
  /\ request = [t \in Tabs |-> None]
  /\ enabled = [d \in Devices |-> Backends]
  /\ known = [d \in Devices |-> [b \in Backends |-> None]]
  /\ failed = [d \in Devices |-> {}]
  /\ files = [b \in Backends |-> {}]
  /\ manifest = [b \in Drives |-> None]
  /\ extras = [fault |-> 0, act |-> 0] /\ left = {}
  /\ made = {Seed(d) : d \in Devices}
  /\ stored = [b \in Backends |-> {}]

\* installAccountDirtyPropagation: a change puts every replica back to "dirty",
\* so that an error shown before is shown no more.
PropagateDirty(d) == failed' = [failed EXCEPT ![d] = {}]

\* Mutant: a change waits for the next one to be scheduled.
SaveUnscheduled(t) ==
  LET d == DeviceOf[t]
      content == view[t] \cup {<<d, store[d].clock[d] + 1>>}
      s == Issued(d, {store[d]}, content)
  IN /\ CanIssue(d, {store[d]})
     /\ store' = [store EXCEPT ![d] = s]
     /\ dirty' = [dirty EXCEPT ![d] = TRUE]
     /\ view' = [view EXCEPT ![t] = content]
     /\ made' = made \cup {s}
     /\ timer' = [timer EXCEPT ![t] = dirty[d]]
     /\ PropagateDirty(d)
     /\ left' = left \ {d}
     /\ UNCHANGED <<sync, request, enabled, known, remote, extras>>

\* updateCore, one transaction: the tab writes the whole of what it holds in
\* memory, under the next clock, and marks the store.  A chat is written the
\* same way, as a record of its own.  The event it emits also schedules a
\* synchronization.
Save(t) ==
  LET d == DeviceOf[t]
      content == view[t] \cup {<<d, store[d].clock[d] + 1>>}
      s == Issued(d, {store[d]}, content)
  IN /\ CanIssue(d, {store[d]})
     /\ store' = [store EXCEPT ![d] = s]
     /\ dirty' = [dirty EXCEPT ![d] = TRUE]
     /\ view' = [view EXCEPT ![t] = content]
     /\ made' = made \cup {s}
     /\ timer' = [timer EXCEPT ![t] = TRUE]
     /\ PropagateDirty(d)
     /\ left' = left \ {d}
     /\ UNCHANGED <<sync, request, enabled, known, remote, extras>>

----------------------------------------------------------------------------
(* One synchronization, under the device's lock *)

Running(d, phase) == sync[d] # NoSync /\ sync[d].phase = phase

Go(d, phase) == sync' = [sync EXCEPT ![d].phase = phase]

\* The replicas are written one after the other, in their order.
Kind(d) == Order[CHOOSE i \in DOMAIN Order :
                   /\ Order[i] \in sync[d].queue
                   /\ \A j \in DOMAIN Order : Order[j] \in sync[d].queue => i <= j]

\* The synchronization ends, and with it a question asked before.
Release(d) == /\ sync' = [sync EXCEPT ![d] = NoSync]
              /\ request' = [request EXCEPT ![sync[d].tab] = None]

Stay(d, phase) == Go(d, phase) /\ UNCHANGED request

NextKind(d) ==
  IF sync[d].queue = {Kind(d)} THEN Release(d)
  ELSE /\ sync' = [sync EXCEPT ![d].phase = "next", ![d].queue = @ \ {Kind(d)}]
       /\ UNCHANGED request

\* One replica fails; the others go on.
FailKind(d) == /\ failed' = [failed EXCEPT ![d] = @ \cup {Kind(d)}]
               /\ NextKind(d)

Fault == extras' = [extras EXCEPT !.fault = @ + 1] /\ Within(Cardinality(made), extras')

\* What the user of a tab does beside writing
Act(t) == /\ t \in Restless
          /\ extras' = [extras EXCEPT !.act = @ + 1] /\ Within(Cardinality(made), extras')

\* withAccountSyncLock, localSnapshotWithHash
Begin(t, kinds) ==
  LET d == DeviceOf[t] IN
  /\ sync[d] = NoSync /\ kinds # {}
  /\ failed' = [failed EXCEPT ![d] = @ \ kinds]
  /\ sync' = [sync EXCEPT ![d] =
       [tab |-> t, phase |-> "pull", local |-> store[d],
        queue |-> kinds, got |-> [b \in Backends |-> Unasked], repair |-> {}]]
  /\ UNCHANGED <<local, request, enabled, known, remote, left>>

\* What the tab had scheduled is cancelled.
Cancel(t) == timer' = [timer EXCEPT ![t] = FALSE]

\* scheduleAccountSync: the timer fires.
SyncAll(t) == timer[t] /\ Begin(t, enabled[DeviceOf[t]]) /\ Cancel(t) /\ UNCHANGED extras

\* The user synchronizes one replica (syncOneAccountReplica), or all of them,
\* which leaves what is scheduled alone.
SyncNow(t) == /\ Act(t)
              /\ \/ \E b \in enabled[DeviceOf[t]] : Begin(t, {b}) /\ Cancel(t)
                 \/ Begin(t, enabled[DeviceOf[t]]) /\ UNCHANGED timer

\* pull, of every replica at once.  Two files of one name are an error.
Answer(d, b, reply) ==
  /\ sync' = [sync EXCEPT ![d].got[b] = reply,
                          ![d].repair = IF reply \in Snapshots /\ b \in Drives
                                           /\ manifest[b] # reply.id
                                        THEN @ \cup {b} ELSE @]
  /\ failed' = IF reply = Failed THEN [failed EXCEPT ![d] = @ \cup {b}] ELSE failed

Pull(d) ==
  /\ Running(d, "pull")
  /\ \E b \in sync[d].queue :
       /\ sync[d].got[b] = Unasked
       /\ \/ files[b] = {} /\ Answer(d, b, None) /\ UNCHANGED extras
          \/ Cardinality(files[b]) = 1 /\ Answer(d, b, CHOOSE s \in files[b] : TRUE)
             /\ UNCHANGED extras
          \/ Cardinality(files[b]) > 1 /\ Answer(d, b, Failed) /\ UNCHANGED extras
          \/ Fault /\ Answer(d, b, Failed)
  /\ UNCHANGED <<local, timer, request, enabled, known, remote, left>>

\* Every answer is in: ask the user, adopt what is newer, or go on to write.
Plan(d) ==
  LET l == sync[d].local
      got == sync[d].got
      t == sync[d].tab
  IN
  /\ Running(d, "pull") /\ \A b \in sync[d].queue : got[b] # Unasked
  /\ \/ /\ MustReconcile(l, got)
        /\ request' = [request EXCEPT ![t] = [local |-> l, remotes |-> Found(got)]]
        /\ sync' = [sync EXCEPT ![d] = NoSync]
        /\ UNCHANGED <<local, timer>>
     \/ /\ ~MustReconcile(l, got) /\ Newer(l, got) = {}
        /\ Go(d, "next")
        /\ UNCHANGED <<local, timer, request>>
     \/ /\ ~MustReconcile(l, got) /\ Newer(l, got) # {}
        /\ store[d].id = l.id                       \* adoptRemoteAccountSnapshot
        /\ \E r \in Newer(l, got) :
             /\ store' = [store EXCEPT ![d] = r]
             /\ sync' = [sync EXCEPT ![d].local = r, ![d].phase = "apply"]
        /\ dirty' = [dirty EXCEPT ![d] = FALSE]
        /\ UNCHANGED <<view, made, timer, request>>
     \/ /\ ~MustReconcile(l, got) /\ Newer(l, got) # {}
        /\ store[d].id # l.id                       \* LocalAccountSnapshotChangedError
        /\ timer' = [timer EXCEPT ![t] = TRUE]
        /\ sync' = [sync EXCEPT ![d] = NoSync]
        /\ UNCHANGED <<local, request>>
  /\ UNCHANGED <<replicas, remote, rare>>

\* applyLocalSnapshot: the memory of this tab, and of no other.
Apply(d) ==
  /\ Running(d, "apply")
  /\ view' = [view EXCEPT ![sync[d].tab] = sync[d].local.edits]
  /\ Go(d, "next")
  /\ UNCHANGED <<store, dirty, made, timer, request, replicas, remote, rare>>

\* The replica must be written: nothing there, older, or its manifest is.
MustPush(d, b) ==
  \/ Comparison(sync[d].local, sync[d].got[b]) \in {"missing", "ahead"}
  \/ b \in sync[d].repair

\* Before a write, push reads the replica again: it must be what was pulled.
AsPulled(d, b) == files[b] = IF sync[d].got[b] = None THEN {} ELSE {sync[d].got[b]}

Turn(d) ==
  /\ Running(d, "next")
  /\ LET b == Kind(d) IN
     \/ sync[d].got[b] = Failed /\ NextKind(d) /\ UNCHANGED failed
     \/ sync[d].got[b] # Failed /\ MustPush(d, b) /\ AsPulled(d, b) /\ Stay(d, "write")
        /\ UNCHANGED failed
     \/ sync[d].got[b] # Failed /\ MustPush(d, b) /\ ~AsPulled(d, b) /\ FailKind(d)
     \/ /\ sync[d].got[b] # Failed /\ ~MustPush(d, b)
        /\ IF Comparison(sync[d].local, sync[d].got[b]) = "diverged"
           THEN NextKind(d) ELSE Stay(d, "check")
        /\ UNCHANGED failed
  /\ UNCHANGED <<local, timer, enabled, known, remote, rare>>

\* Mutant: the write carries no condition.
AcceptsBlindly(d, b) == TRUE

\* The provider's condition: If-Match on the revision pulled, If-None-Match,
\* or a fast-forward of the branch.  A create of Google Drive has none.
Accepts(d, b) == IF sync[d].got[b] = None THEN files[b] = {} \/ b \in Duplicating
                 ELSE sync[d].got[b] \in files[b]

Stored(d, b) ==
  /\ files' = [files EXCEPT ![b] = (@ \ {sync[d].got[b]}) \cup {sync[d].local}]
  /\ stored' = [stored EXCEPT ![b] = @ \cup {sync[d].local}]

PushData(d) ==
  /\ Running(d, "write")
  /\ LET b == Kind(d) IN
     \/ /\ Accepts(d, b) /\ Stored(d, b)
        /\ Stay(d, IF b \in Drives THEN "manifest" ELSE "check")
        /\ UNCHANGED <<failed, extras>>
     \/ Accepts(d, b) /\ Stored(d, b) /\ Fault /\ FailKind(d)     \* the answer is lost
     \/ Fault /\ FailKind(d) /\ UNCHANGED <<files, stored>>
     \/ ~Accepts(d, b) /\ FailKind(d) /\ UNCHANGED <<files, stored, extras>>
  /\ UNCHANGED <<local, timer, enabled, known, manifest, left>>

\* The manifest is written beside the data, and the data read back.
PushManifest(d) ==
  /\ Running(d, "manifest")
  /\ \/ /\ manifest' = [manifest EXCEPT ![Kind(d)] = sync[d].local.id]
        /\ files[Kind(d)] = {sync[d].local} /\ Stay(d, "check")
        /\ UNCHANGED <<failed, extras>>
     \/ /\ manifest' = [manifest EXCEPT ![Kind(d)] = sync[d].local.id]
        /\ files[Kind(d)] # {sync[d].local} /\ FailKind(d)
        /\ UNCHANGED extras
     \/ Fault /\ FailKind(d) /\ UNCHANGED manifest
  /\ UNCHANGED <<local, timer, enabled, known, files, stored, left>>

\* The local store is read again: a newer change starts over.
Check(d) ==
  /\ Running(d, "check")
  /\ \/ /\ store[d].id = sync[d].local.id
        /\ known' = [known EXCEPT ![d][Kind(d)] = sync[d].local.id]
        /\ Stay(d, "confirm")
        /\ UNCHANGED timer
     \/ /\ store[d].id # sync[d].local.id
        /\ timer' = [timer EXCEPT ![sync[d].tab] = TRUE]
        /\ Release(d)
        /\ UNCHANGED known
  /\ UNCHANGED <<local, enabled, failed, remote, rare>>

\* Mutant: whatever the store holds by now counts as confirmed.
ConfirmUnseen(d) ==
  /\ Running(d, "confirm")
  /\ dirty' = [dirty EXCEPT ![d] = FALSE]
  /\ NextKind(d)
  /\ UNCHANGED <<store, view, made, timer, replicas, remote, rare>>

\* markLocalAccountReplicaConfirmed
Confirm(d) ==
  /\ Running(d, "confirm")
  /\ dirty' = [dirty EXCEPT ![d] = @ /\ store[d].id # sync[d].local.id]
  /\ NextKind(d)
  /\ UNCHANGED <<store, view, made, timer, replicas, remote, rare>>

----------------------------------------------------------------------------
(* The user, and the browser *)

\* resolveAccountReconciliation: outside the lock, against the snapshot the
\* request was made for; the new clock dominates every copy in the request.
\* It emits the event of any other change.
Resolve(t) ==
  LET d == DeviceOf[t]
      asked == {request[t].local} \cup request[t].remotes
  IN /\ request[t] # None /\ store[d].id = request[t].local.id
     /\ CanIssue(d, asked)
     /\ \E s \in asked :
          LET chosen == Issued(d, asked, s.edits) IN
          /\ store' = [store EXCEPT ![d] = chosen]
          /\ made' = made \cup {chosen}
          /\ view' = [view EXCEPT ![t] = chosen.edits]
     /\ dirty' = [dirty EXCEPT ![d] = TRUE]
     /\ timer' = [timer EXCEPT ![t] = TRUE]
     /\ request' = [request EXCEPT ![t] = None]
     /\ PropagateDirty(d)
     /\ UNCHANGED <<sync, enabled, known, remote, rare>>

Dismiss(t) == /\ request[t] # None
              /\ request' = [request EXCEPT ![t] = None]
              /\ left' = left \cup {DeviceOf[t]}
              /\ UNCHANGED <<local, timer, sync, replicas, remote, extras>>

\* The answer to a change is the error of this replica, or may become it
Carries(d, b) == b \in failed[d] \/ (sync[d] # NoSync /\ b \in sync[d].queue)

\* Mutant: what was seen at a deleted replica turns into a failed answer.
DeleteReplicaAsFailed(d) ==
  \E b \in enabled[d], t \in Tabs :
    /\ DeviceOf[t] = d /\ Act(t) /\ Cardinality(files[b]) <= 1
    /\ files' = [files EXCEPT ![b] = {}]
    /\ manifest' = [c \in Drives |-> IF c = b THEN None ELSE manifest[c]]
    /\ enabled' = [enabled EXCEPT ![d] = @ \ {b}]
    /\ known' = [known EXCEPT ![d][b] = Failed]
    /\ failed' = [failed EXCEPT ![d] = @ \ {b}]
    /\ left' = IF Carries(d, b) THEN left \cup {d} ELSE left
    /\ UNCHANGED <<local, timer, sync, request, stored>>

\* deleteRemoteAccountData; the replica is disabled on this device, and what
\* it showed goes with it, while a synchronization of it runs on.
DeleteReplica(d) ==
  \E b \in enabled[d], t \in Tabs :
    /\ DeviceOf[t] = d /\ Act(t) /\ Cardinality(files[b]) <= 1
    /\ files' = [files EXCEPT ![b] = {}]
    /\ manifest' = [c \in Drives |-> IF c = b THEN None ELSE manifest[c]]
    /\ enabled' = [enabled EXCEPT ![d] = @ \ {b}]
    /\ known' = [known EXCEPT ![d][b] = None]
    /\ failed' = [failed EXCEPT ![d] = @ \ {b}]
    /\ left' = IF Carries(d, b) THEN left \cup {d} ELSE left
    /\ UNCHANGED <<local, timer, sync, request, stored>>

\* A tab is closed and opened again, in the middle of anything; opening it
\* schedules a synchronization.
Reload(t) ==
  LET d == DeviceOf[t] IN
  /\ Act(t)
  /\ left' = left \ {d}
  /\ view' = [view EXCEPT ![t] = store[d].edits]
  /\ timer' = [timer EXCEPT ![t] = TRUE]
  /\ request' = [request EXCEPT ![t] = None]
  /\ sync' = IF sync[d].tab = t THEN [sync EXCEPT ![d] = NoSync] ELSE sync
  /\ UNCHANGED <<store, dirty, made, replicas, remote>>

User(t) == Save(t) \/ SyncNow(t) \/ Resolve(t) \/ Dismiss(t) \/ Reload(t)

Sync(d) == \/ Pull(d) \/ Plan(d) \/ Apply(d) \/ Turn(d) \/ PushData(d) \/ PushManifest(d)
           \/ Check(d) \/ Confirm(d)

Next == \/ \E t \in Tabs : User(t) \/ SyncAll(t)
        \/ \E d \in Devices : Sync(d) \/ DeleteReplica(d)

\* The timers of a device fire, and its calls answer or fail; nothing makes the
\* user act.
Runs(d) == Sync(d) \/ \E t \in Tabs : DeviceOf[t] = d /\ SyncAll(t)

Fairness == \A d \in Devices : WF_vars(Runs(d))

Spec == Init /\ [][Next]_vars /\ Fairness

----------------------------------------------------------------------------
(* Properties *)

TypeOK ==
  /\ store \in [Devices -> Snapshots] /\ dirty \in [Devices -> BOOLEAN]
  /\ view \in [Tabs -> SUBSET Edits] /\ timer \in [Tabs -> BOOLEAN]
  /\ sync \in [Devices -> Syncs \cup {NoSync}]
  /\ \A d \in Devices : sync[d] = NoSync \/ DeviceOf[sync[d].tab] = d
  /\ request \in [Tabs -> Requests \cup {None}]
  /\ enabled \in [Devices -> SUBSET Backends] /\ failed \in [Devices -> SUBSET Backends]
  /\ known \in [Devices -> [Backends -> Edits \cup {None}]]
  /\ files \in [Backends -> SUBSET Snapshots] /\ stored \in [Backends -> SUBSET Snapshots]
  /\ manifest \in [Drives -> Edits \cup {None}]
  /\ extras \in [fault : Nat, act : Nat] /\ left \subseteq Devices
  /\ made \subseteq Snapshots

\* A clock read as the events it counts
Abstract(s) == [knows |-> {e \in Devices \X (1..MaxEdits) : e[2] <= s.clock[e[1]]},
                holds |-> s.edits]

Replicas == INSTANCE AccountReplicas WITH
  local <- [d \in Devices |-> Abstract(store[d])],
  remote <- [b \in Backends |-> {Abstract(s) : s \in files[b]}],
  issued <- {Abstract(s) : s \in made}

\* Whatever the interleaving of tabs, devices, faults and decisions, a stored
\* copy is replaced only by a snapshot that knows everything it knew, a device
\* only moves forward, and no counter names two edits
\* (docs/guide-4-github-drive.en.md:32, "Diverged copies are never overwritten
\* automatically").
ImplementsReplicas == Replicas!Spec

\* A device that shows no unconfirmed change, or a replica it reports as
\* holding the current snapshot (dataSafety.ts getAccountSafetyReport), has
\* had its snapshot stored there: the report the user deletes local data on is
\* never early, whatever was saved while the replica was being written.
ConfirmedIsStored ==
  \A d \in Devices :
    /\ dirty[d] \/ store[d] = Seed(d) \/ \E b \in Backends : store[d] \in stored[b]
    /\ \A b \in Backends : known[d][b] = store[d].id => store[d] \in stored[b]

\* A change is confirmed by a replica, or the user is asked, or sees an enabled
\* replica in error: whatever is requested, cancelled, reloaded or failing, it
\* never waits in silence, unless the user put the question or the replica in
\* error away and neither changed anything nor reloaded since.
ChangeIsAnswered ==
  \A d \in Devices :
    []<>(\/ ~dirty[d] \/ failed[d] \cap enabled[d] # {} \/ enabled[d] = {} \/ d \in left
         \/ \E t \in Tabs : DeviceOf[t] = d /\ request[t] # None)
=============================================================================
