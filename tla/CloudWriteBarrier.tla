------------------------- MODULE CloudWriteBarrier -------------------------
(***************************************************************************)
(* Tabs write to one cloud account while another may be deleting all it    *)
(* stores: drive/cloudWriteBarrier.ts, with the deletion that drives it in *)
(* drive/migration.ts, drive/googleAppFolder.ts and pages/MigratePage.tsx. *)
(* One durable record holds the lease and the deletion; each action is one *)
(* transaction on it, or one request to the provider.                      *)
(*                                                                         *)
(* An object is what one DELETE removes: a OneDrive item at its eTag, so a *)
(* rewritten file is another object.  An owner is named by the fence its   *)
(* claim took, a nonce by its generation, and a time by whether it is past.*)
(***************************************************************************)
EXTENDS Naturals

CONSTANTS Tabs,
          Writers,       \* the tabs that write
          MaxLeases,     \* bound on the leases taken to write
          MaxWrites,     \* bound on the objects ever written
          MaxClaims,     \* bound on the deletions requested or reclaimed
          MaxBeats,      \* bound on the heartbeats of deletions
          MaxTrouble,    \* bound on lapses, failed requests and closed tabs
          None

ASSUME BarrierAssumption ==
  Writers \subseteq Tabs /\ {MaxLeases, MaxWrites, MaxClaims, MaxBeats, MaxTrouble} \subseteq Nat

VARIABLES
  lease,         \* the record's lease: its fence, whether its owner is named, and unexpired
  deletion,      \* the record's deletion
  writer,        \* the write each tab has in hand (its queue admits one)
  remover,       \* the deletion each tab is running
  beat,          \* the heartbeat each tab's deletion has in flight
  cloud,         \* the objects the provider stores
  adrift,        \* requests whose tab no longer waits for them, by fence
  era,           \* deletions begun and resumed from so far
  leases, written, claims, beats, trouble,
  lapsed,        \* history: leases that expired under a living owner
  rolledBack     \* history: a heartbeat wrote an older record back

record == <<lease, deletion>>
counts == <<era, leases, claims, beats>>
history == <<lapsed, rolledBack>>
vars == <<record, writer, remover, beat, cloud, adrift, written, counts, trouble, history>>

Fences == Nat
Eras == Nat
Objects == [n : 1..MaxWrites, era : Eras, late : BOOLEAN]

States == {"requesting", "deleting", "deleted", "nothing"}
Deletions == [op : Eras, gen : 1..MaxClaims, state : States, live : BOOLEAN,
              open : SUBSET Objects, done : SUBSET Objects]

WriterPhases == {"idle", "leased", "ready", "renewed", "sent", "end"}
RemoverPhases == {"drain", "claim", "start", "read", "journal", "reread",
                  "delete", "send", "mark", "finish", "complete", "nothing", "fail", "settle"}

Leases == [fence : Fences, named : BOOLEAN, live : BOOLEAN]

Writes == [phase : WriterPhases, fence : Fences]

Removers == [phase : RemoverPhases, op : Eras, gen : 1..MaxClaims, fence : Fences,
             todo : SUBSET Objects, target : Objects \cup {None},
             next : Deletions \cup {None}, lost : BOOLEAN]

Beats == [fence : Fences, renewed : BOOLEAN, copy : Deletions]

Targets == deletion.open \cup deletion.done
Pending == IF deletion = None THEN FALSE ELSE deletion.state \in {"requesting", "deleting"}
MayWrite == IF deletion = None THEN TRUE ELSE deletion.state = "requesting"

Trouble == trouble < MaxTrouble /\ trouble' = trouble + 1

Idle == [phase |-> "idle", fence |-> 0]

Init ==
  /\ lease = [fence |-> 0, named |-> FALSE, live |-> FALSE]
  /\ deletion = None
  /\ writer = [t \in Tabs |-> Idle]
  /\ remover = [t \in Tabs |-> None] /\ beat = [t \in Tabs |-> None]
  /\ cloud = {} /\ adrift = {}
  /\ era = 0 /\ leases = 0 /\ written = 0 /\ claims = 0 /\ beats = 0 /\ trouble = 0
  /\ lapsed = {} /\ rolledBack = FALSE

----------------------------------------------------------------------------
(* The lease *)

Holds(fence) == lease.named /\ lease.fence = fence

\* claimLease, under a new owner, once any other has released it or let it expire
Claim == lease' = [fence |-> lease.fence + 1, named |-> TRUE, live |-> TRUE]

\* releaseLease
Release(fence) == lease' = IF Holds(fence) THEN [lease EXCEPT !.live = FALSE] ELSE lease

Refresh == lease' = [lease EXCEPT !.live = TRUE]

----------------------------------------------------------------------------
(* A write: acquireCloudWriteLease, then fencedCloudMutation for each request *)

WPhase(t, phase) == writer' = [writer EXCEPT ![t].phase = phase]

\* The looks at the tombstone before the claim ask no more than the claim.
ClaimWrite(t) ==
  /\ t \in Writers /\ writer[t] = Idle /\ deletion = None
  /\ ~lease.live /\ leases < MaxLeases /\ leases' = leases + 1 /\ Claim
  /\ writer' = [writer EXCEPT ![t] = [phase |-> "leased", fence |-> lease.fence + 1]]
  /\ UNCHANGED <<deletion, remover, beat, cloud, adrift, written, era, claims, beats, trouble, history>>

AfterClaim(t) ==
  /\ writer[t].phase = "leased"
  /\ WPhase(t, IF deletion = None THEN "ready" ELSE "end")
  /\ UNCHANGED <<record, remover, beat, cloud, adrift, written, counts, trouble, history>>

CanRenew(t) == Holds(writer[t].fence) /\ MayWrite

\* assertCloudWriteAllowed: renew the lease, then look at the tombstone again.
Renew(t) ==
  /\ writer[t].phase = "ready"
  /\ \/ CanRenew(t) /\ Refresh /\ WPhase(t, "renewed")
     \/ ~CanRenew(t) /\ WPhase(t, "end") /\ UNCHANGED lease
  /\ UNCHANGED <<deletion, remover, beat, cloud, adrift, written, counts, trouble, history>>

Send(t) ==
  /\ writer[t].phase = "renewed"
  /\ WPhase(t, IF MayWrite THEN "sent" ELSE "end")
  /\ UNCHANGED <<record, remover, beat, cloud, adrift, written, counts, trouble, history>>

\* The provider stores an object, new or in the place of one.
Store(late) ==
  /\ written < MaxWrites /\ written' = written + 1
  /\ \E old \in {{}} \cup {{o} : o \in cloud} :
       cloud' = (cloud \ old) \cup {[n |-> written + 1, era |-> era, late |-> late]}

Land(t) ==
  /\ writer[t].phase = "sent"
  /\ \/ Store(writer[t].fence \in lapsed) /\ (WPhase(t, "ready") \/ WPhase(t, "end"))
     \/ WPhase(t, "end") /\ UNCHANGED <<cloud, written>>       \* an error
  /\ UNCHANGED <<record, remover, beat, adrift, counts, trouble, history>>

\* A heartbeat that cannot renew aborts what the tab is doing; the request it
\* was waiting for may still arrive, as it may after any abort.
Abort(t) ==
  /\ adrift' = IF writer[t].phase = "sent" THEN adrift \cup {writer[t].fence} ELSE adrift

WriteBeat(t) ==
  /\ writer[t].phase \notin {"idle", "end"}
  /\ \/ CanRenew(t) /\ ~lease.live /\ Refresh /\ UNCHANGED <<writer, adrift>>
     \/ ~CanRenew(t) /\ Abort(t) /\ WPhase(t, "end") /\ UNCHANGED lease
  /\ UNCHANGED <<deletion, remover, beat, cloud, written, counts, trouble, history>>

GiveUp(t) ==
  /\ Trouble /\ writer[t].phase = "sent" /\ Abort(t) /\ WPhase(t, "end")
  /\ UNCHANGED <<record, remover, beat, cloud, written, counts, history>>

Drift(fence) ==
  /\ Store(TRUE) /\ adrift' = adrift \ {fence}
  /\ UNCHANGED <<record, writer, remover, beat, counts, trouble, history>>

EndWrite(t) ==
  /\ writer[t].phase = "end"
  /\ Release(writer[t].fence) /\ writer' = [writer EXCEPT ![t] = Idle]
  /\ UNCHANGED <<deletion, remover, beat, cloud, adrift, written, counts, trouble, history>>

----------------------------------------------------------------------------
(* A deletion takes the account: suspendCloudWrites *)

Owns(t) == IF deletion = None THEN FALSE ELSE deletion.gen = remover[t].gen

\* Ownership a transaction on the deletion asks for
Commands(t) == Holds(remover[t].fence) /\ Owns(t) /\ deletion.state = "deleting"

RPhase(t, phase) == remover' = [remover EXCEPT ![t].phase = phase]

Quit(t) == remover' = [remover EXCEPT ![t] = None]

\* claimDeletionIntent: a new operation, or the one whose owner let it expire,
\* with the targets it had journaled.
ClaimIntent(t) ==
  /\ remover[t] = None /\ claims < MaxClaims
  /\ claims' = claims + 1
  /\ \/ /\ deletion = None
        /\ era' = era + 1
        /\ deletion' = [op |-> era + 1, gen |-> claims + 1, state |-> "requesting",
                        live |-> TRUE, open |-> {}, done |-> {}]
     \/ /\ Pending /\ ~deletion.live
        /\ deletion' = [deletion EXCEPT !.gen = claims + 1, !.state = "requesting", !.live = TRUE]
        /\ UNCHANGED era
  /\ remover' = [remover EXCEPT ![t] =
       [phase |-> "drain", op |-> deletion'.op, gen |-> claims + 1, fence |-> 0,
        todo |-> {}, target |-> None, next |-> None, lost |-> FALSE]]
  /\ UNCHANGED <<lease, writer, beat, beats, leases, cloud, adrift, written, trouble, history>>

\* refreshDeletionRequest, once the tab's own writes are over
RefreshRequest(t) ==
  /\ remover[t].phase = "drain" /\ writer[t] = Idle
  /\ \/ /\ Owns(t) /\ deletion.state = "requesting"
        /\ deletion' = [deletion EXCEPT !.live = TRUE]
        /\ RPhase(t, "claim")
     \/ /\ ~(Owns(t) /\ deletion.state = "requesting")
        /\ Quit(t) /\ UNCHANGED deletion
  /\ UNCHANGED <<lease, writer, beat, cloud, adrift, written, counts, trouble, history>>

\* Mutant: the tombstone alone is taken to keep the writers away.
MayClaimOverWriters(t) == deletion = None \/ Owns(t)

\* Mutant: wait until the record names no owner, not until the lease is over.
MayClaimUnnamed(t) == (deletion = None \/ Owns(t)) /\ ~lease.named

\* The writes of other tabs are over when their lease is: until then, poll.
MayClaim(t) == (deletion = None \/ Owns(t)) /\ ~lease.live

ClaimForDeletion(t) ==
  /\ remover[t].phase = "claim"
  /\ \/ /\ MayClaim(t) /\ Claim
        /\ remover' = [remover EXCEPT ![t].phase = "start", ![t].fence = lease.fence + 1]
     \/ ~MayClaim(t) /\ RPhase(t, "drain") /\ UNCHANGED lease
  /\ UNCHANGED <<deletion, writer, beat, cloud, adrift, written, counts, trouble, history>>

\* transitionDeletionRequest; reading it back fails only where the next read does.
Start(t) ==
  LET mine == Holds(remover[t].fence) /\ Owns(t) /\ deletion.state = "requesting" IN
  /\ remover[t].phase = "start"
  /\ \/ /\ mine /\ RPhase(t, "read")
        /\ deletion' = [deletion EXCEPT !.state = "deleting", !.live = TRUE]
     \/ ~mine /\ Quit(t) /\ UNCHANGED deletion
  /\ UNCHANGED <<lease, writer, beat, cloud, adrift, written, counts, trouble, history>>

----------------------------------------------------------------------------
(* The deletion: deleteNarrariumCloudData *)

Working(t) == remover[t] # None /\ remover[t].phase \notin {"drain", "claim", "start"}

Reads(t) == Owns(t) /\ deletion.state = "deleting"

\* cloudDeletionTargetJournal: what an earlier owner journaled is what remains;
\* with no journal, what the provider lists.
ReadJournal(t) ==
  /\ remover[t].phase = "read"
  /\ remover' = [remover EXCEPT
       ![t].phase = IF ~Reads(t) THEN "fail"
                    ELSE IF Targets # {} THEN IF deletion.open = {} THEN "finish" ELSE "delete"
                    ELSE IF cloud = {} THEN "nothing" ELSE "journal",
       ![t].todo = IF ~Reads(t) THEN {} ELSE IF Targets = {} THEN cloud ELSE deletion.open]
  /\ UNCHANGED <<record, writer, beat, cloud, adrift, written, counts, trouble, history>>

\* journalCloudDeletionTargets
Journal(t) ==
  LET valid == Commands(t) /\ Targets \in {{}, remover[t].todo} IN
  /\ remover[t].phase = "journal"
  /\ RPhase(t, IF valid THEN "reread" ELSE "fail")
  /\ deletion' = IF valid /\ Targets = {} THEN [deletion EXCEPT !.open = remover[t].todo]
                 ELSE deletion
  /\ UNCHANGED <<lease, writer, beat, cloud, adrift, written, counts, trouble, history>>

ReadBack(t) ==
  /\ remover[t].phase = "reread"
  /\ remover' = [remover EXCEPT
       ![t].phase = IF ~Reads(t) THEN "fail" ELSE IF Targets = {} THEN "fail" ELSE "delete",
       ![t].todo = IF Reads(t) THEN deletion.open ELSE {}]
  /\ UNCHANGED <<record, writer, beat, cloud, adrift, written, counts, trouble, history>>

\* fencedCloudDeletionMutation: the intent, the request, the completion.  The
\* intent joins the journal when it is not there.
Intend(t) ==
  /\ remover[t].phase = "delete"
  /\ \/ remover[t].todo = {} /\ RPhase(t, "complete") /\ UNCHANGED deletion
     \/ \E o \in remover[t].todo :
          \/ /\ Commands(t)
             /\ deletion' = [deletion EXCEPT !.open = @ \cup ({o} \ deletion.done)]
             /\ remover' = [remover EXCEPT ![t].phase = "send", ![t].target = o,
                                           ![t].todo = @ \ {o}]
          \/ ~Commands(t) /\ RPhase(t, "fail") /\ UNCHANGED deletion
  /\ UNCHANGED <<lease, writer, beat, cloud, adrift, written, counts, trouble, history>>

\* Mutant: an error is taken for an answer.
DeleteIgnoringErrors(t) ==
  /\ remover[t].phase = "send"
  /\ \/ cloud' = cloud \ {remover[t].target} /\ RPhase(t, "mark") /\ UNCHANGED trouble
     \/ Trouble /\ cloud' = cloud /\ RPhase(t, "mark")
  /\ UNCHANGED <<record, writer, beat, adrift, written, counts, history>>

\* Mutant: the folder is deleted, with whatever it holds by now.
DeleteFolder(t) ==
  /\ remover[t].phase = "send"
  /\ cloud' = {} /\ RPhase(t, "mark")
  /\ UNCHANGED <<record, writer, beat, adrift, written, counts, trouble, history>>

Delete(t) ==
  LET o == remover[t].target IN
  /\ remover[t].phase = "send"
  /\ \/ /\ ~remover[t].lost /\ cloud' = cloud \ {o}
        /\ RPhase(t, "mark") /\ UNCHANGED trouble              \* ok or 404
     \/ /\ ~remover[t].lost /\ o \notin cloud /\ RPhase(t, "fail")
        /\ UNCHANGED <<cloud, trouble>>                        \* 412: the file was rewritten
     \/ /\ ~remover[t].lost /\ Trouble /\ cloud' \in {cloud, cloud \ {o}}
        /\ RPhase(t, "fail")                                   \* an error, or no answer
     \/ remover[t].lost /\ RPhase(t, "fail") /\ UNCHANGED <<cloud, trouble>>
  /\ UNCHANGED <<record, writer, beat, adrift, written, counts, history>>

MarkDone(t) ==
  LET o == remover[t].target
      valid == Commands(t) /\ o \in Targets IN
  /\ remover[t].phase = "mark"
  /\ remover' = [remover EXCEPT ![t].phase = IF valid THEN "delete" ELSE "fail",
                                ![t].target = None]
  /\ deletion' = IF valid THEN [deletion EXCEPT !.open = @ \ {o}, !.done = @ \cup {o}]
                 ELSE deletion
  /\ UNCHANGED <<lease, writer, beat, cloud, adrift, written, counts, trouble, history>>

----------------------------------------------------------------------------
(* The deletion ends: a read, then transitionDeletionOwner with what was read *)

Settling(t, next) == remover' = [remover EXCEPT ![t].phase = "settle", ![t].next = next]

\* completeCloudDeletion, after the journal is worked off ("complete") or found so
Complete(t) ==
  LET done == Owns(t) /\ Targets # {} /\ deletion.open = {} IN
  /\ remover[t].phase \in {"finish", "complete"}
  /\ \/ done /\ Settling(t, [deletion EXCEPT !.state = "deleted", !.live = FALSE])
     \/ ~done /\ remover[t].phase = "finish" /\ RPhase(t, "fail")
     \/ ~done /\ remover[t].phase = "complete" /\ Quit(t)
  /\ UNCHANGED <<record, writer, beat, cloud, adrift, written, counts, trouble, history>>

\* completeCloudDeletionNothingToDelete
Nothing(t) ==
  LET valid == Reads(t) /\ Targets = {} IN
  /\ remover[t].phase = "nothing"
  /\ \/ valid /\ Settling(t, [deletion EXCEPT !.state = "nothing", !.live = FALSE])
     \/ ~valid /\ RPhase(t, "fail")
  /\ UNCHANGED <<record, writer, beat, cloud, adrift, written, counts, trouble, history>>

\* Mutant: a failure is a state of its own.
FailForGood(t) ==
  /\ remover[t].phase = "fail"
  /\ \/ Owns(t) /\ Settling(t, [deletion EXCEPT !.state = "failed", !.live = FALSE])
     \/ ~Owns(t) /\ Quit(t)
  /\ UNCHANGED <<record, writer, beat, cloud, adrift, written, counts, trouble, history>>

\* failCloudDeletion: another attempt may begin at once.
Fail(t) ==
  /\ remover[t].phase = "fail"
  /\ \/ Owns(t) /\ Settling(t, [deletion EXCEPT !.live = FALSE])
     \/ ~Owns(t) /\ Quit(t)
  /\ UNCHANGED <<record, writer, beat, cloud, adrift, written, counts, trouble, history>>

Settle(t) ==
  LET valid == Holds(remover[t].fence) /\ Owns(t) IN
  /\ remover[t].phase = "settle"
  /\ deletion' = IF valid THEN remover[t].next ELSE deletion
  /\ lease' = IF valid THEN [lease EXCEPT !.named = FALSE, !.live = FALSE] ELSE lease
  /\ Quit(t)
  /\ UNCHANGED <<writer, beat, cloud, adrift, written, counts, trouble, history>>

----------------------------------------------------------------------------
(* heartbeatCloudDeletion: read the deletion, renew the lease, and write back *)
(* what was read.  Stopping the interval does not stop one in flight.         *)

Lose(t) == remover' = [r \in Tabs |-> IF r = t /\ remover[t] # None
                                      THEN [remover[t] EXCEPT !.lost = TRUE] ELSE remover[r]]

BeatRead(t) ==
  /\ Working(t) /\ beat[t] = None /\ beats < MaxBeats /\ beats' = beats + 1
  /\ \/ /\ Reads(t) /\ UNCHANGED remover
        /\ beat' = [beat EXCEPT ![t] = [fence |-> remover[t].fence, renewed |-> FALSE,
                                        copy |-> [deletion EXCEPT !.live = TRUE]]]
     \/ ~Reads(t) /\ Lose(t) /\ UNCHANGED beat
  /\ UNCHANGED <<record, writer, cloud, adrift, written, era, leases, claims, trouble, history>>

SameGeneration(t) == IF deletion = None THEN FALSE ELSE deletion.gen = beat[t].copy.gen

BeatRenew(t) ==
  LET ok == Holds(beat[t].fence) /\ (MayWrite \/ SameGeneration(t)) IN
  /\ beat[t] # None /\ ~beat[t].renewed
  /\ \/ ok /\ Refresh /\ beat' = [beat EXCEPT ![t].renewed = TRUE] /\ UNCHANGED remover
     \/ ~ok /\ beat' = [beat EXCEPT ![t] = None] /\ Lose(t) /\ UNCHANGED lease
  /\ UNCHANGED <<deletion, writer, cloud, adrift, written, counts, trouble, history>>

\* persistDeletionProgress asks for the generation, not for the lease.
BeatWrite(t) ==
  /\ beat[t] # None /\ beat[t].renewed
  /\ beat' = [beat EXCEPT ![t] = None]
  /\ \/ /\ SameGeneration(t) /\ deletion' = beat[t].copy
        /\ rolledBack' = (rolledBack \/ [deletion EXCEPT !.live = TRUE] # beat[t].copy)
        /\ UNCHANGED remover
     \/ ~SameGeneration(t) /\ Lose(t) /\ UNCHANGED <<deletion, rolledBack>>
  /\ UNCHANGED <<lease, writer, cloud, adrift, written, counts, trouble, lapsed>>

----------------------------------------------------------------------------
(* The user, time, and closed tabs *)

\* resumeCloudWrites, with the operation and the fence the user was shown
Resume ==
  /\ IF deletion = None THEN FALSE ELSE deletion.state \in {"deleted", "nothing"}
  /\ deletion' = None /\ era' = era + 1
  /\ lease' = [lease EXCEPT !.named = FALSE, !.live = FALSE]
  /\ UNCHANGED <<writer, remover, beat, cloud, adrift, written, leases, claims, beats, trouble, history>>

KeepsLease(t) == \/ writer[t] # Idle /\ writer[t].fence = lease.fence
                 \/ remover[t] # None /\ remover[t].fence = lease.fence

KeepsDeletion(t) == remover[t] # None /\ remover[t].gen = deletion.gen

\* LEASE_MS pass without a heartbeat: nobody is there to send one ...
Expire ==
  /\ \/ /\ lease.live /\ \A t \in Tabs : ~KeepsLease(t)
        /\ lease' = [lease EXCEPT !.live = FALSE] /\ UNCHANGED deletion
     \/ /\ Pending /\ deletion.live /\ \A t \in Tabs : ~KeepsDeletion(t)
        /\ deletion' = [deletion EXCEPT !.live = FALSE] /\ UNCHANGED lease
  /\ UNCHANGED <<writer, remover, beat, cloud, adrift, written, counts, trouble, history>>

\* ... or the tab sleeps, and lets all it keeps expire.
Sleep(t) ==
  LET leaseEnds == lease.live /\ KeepsLease(t)
      deletionEnds == Pending /\ deletion.live /\ KeepsDeletion(t)
  IN
  /\ Trouble /\ TRUE \in {leaseEnds, deletionEnds}
  /\ lease' = [lease EXCEPT !.live = @ /\ ~leaseEnds]
  /\ lapsed' = IF leaseEnds THEN lapsed \cup {lease.fence} ELSE lapsed
  /\ deletion' = IF deletionEnds THEN [deletion EXCEPT !.live = FALSE] ELSE deletion
  /\ UNCHANGED <<writer, remover, beat, cloud, adrift, written, counts, rolledBack>>

Reload(t) ==
  /\ Trouble /\ <<writer[t], remover[t], beat[t]>> # <<Idle, None, None>>
  /\ Abort(t) /\ writer' = [writer EXCEPT ![t] = Idle]
  /\ Quit(t) /\ beat' = [beat EXCEPT ![t] = None]
  /\ UNCHANGED <<record, cloud, written, counts, history>>

WriteStep(t) == AfterClaim(t) \/ Renew(t) \/ Send(t) \/ Land(t) \/ EndWrite(t)

RemoveStep(t) ==
  /\ remover[t] # None
  /\ \/ RefreshRequest(t) \/ ClaimForDeletion(t) \/ Start(t)
     \/ ReadJournal(t) \/ Journal(t) \/ ReadBack(t)
     \/ Intend(t) \/ Delete(t) \/ MarkDone(t)
     \/ Complete(t) \/ Nothing(t) \/ Fail(t) \/ Settle(t)

Next ==
  \/ \E t \in Tabs : \/ ClaimWrite(t) \/ WriteStep(t) \/ WriteBeat(t) \/ GiveUp(t)
                     \/ ClaimIntent(t) \/ RemoveStep(t)
                     \/ BeatRead(t) \/ BeatRenew(t) \/ BeatWrite(t)
                     \/ Sleep(t) \/ Reload(t)
  \/ \E fence \in adrift : Drift(fence)
  \/ Resume \/ Expire

\* Requests are answered, transactions commit, and time passes.
Fairness == /\ \A t \in Tabs : WF_vars(WriteStep(t)) /\ WF_vars(RemoveStep(t))
            /\ WF_vars(Expire)

Spec == Init /\ [][Next]_vars /\ Fairness

----------------------------------------------------------------------------
(* Properties *)

TypeOK ==
  /\ lease \in Leases
  /\ deletion \in Deletions \cup {None}
  /\ writer \in [Tabs -> Writes]
  /\ remover \in [Tabs -> Removers \cup {None}] /\ beat \in [Tabs -> Beats \cup {None}]
  /\ cloud \subseteq Objects /\ adrift \subseteq Fences
  /\ era \in Eras /\ leases \in 0..MaxLeases /\ written \in 0..MaxWrites
  /\ claims \in 0..MaxClaims /\ beats \in 0..MaxBeats
  /\ trouble \in 0..MaxTrouble /\ lapsed \subseteq Fences /\ rolledBack \in BOOLEAN

\* No request of a write reaches the provider once a deletion has taken the
\* account, unless its tab slept through its lease or stopped waiting for it
\* (test/cloudWriteBarrier.test.mjs:16, "deletion suspension waits for active
\* writes to drain").
NoWriteIntoDeletion ==
  [][\A o \in cloud' \ cloud : o.late \/ MayWrite]_vars

\* A deletion reported as done has left nothing of what was there when it took
\* the account, whichever tab finished it after whatever failures: unless a
\* heartbeat wrote an older journal over a newer one.
DeletedIsGone ==
  IF deletion = None THEN TRUE
  ELSE deletion.state = "deleted" => rolledBack \/ \A o \in cloud : o.late

\* What is written after the user reconnected is never removed by the deletion
\* that was resumed from, even by a tab that slept meanwhile.
LaterWritesKept ==
  [][\A o \in cloud \ cloud' :
       \/ cloud' \ cloud # {}                                  \* rewritten
       \/ \E t \in Tabs : remover[t] # None /\ o.era <= remover[t].op]_vars

\* A requested deletion does not wait for ever for the writes of other tabs, nor
\* for a tab that was closed: it ends, done or failed, and says so.
DeletionEnds == \A t \in Tabs : []<>(remover[t] = None)
=============================================================================
