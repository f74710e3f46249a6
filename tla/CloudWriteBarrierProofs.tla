---------------------- MODULE CloudWriteBarrierProofs ----------------------
(***************************************************************************)
(* For any number of tabs, leases, writes, deletions, lapses and closed    *)
(* tabs: no write reaches the provider once a deletion has taken the       *)
(* account, a deletion that is done has left nothing, and it removes       *)
(* nothing that was written after the account was taken up again.          *)
(*                                                                         *)
(* None is inductive.  A write in hand may land because its fence still    *)
(* holds the lease (LeaseInHand) and no deletion has command of the        *)
(* account (WritersMay).  A deletion gets command only by a fence of its   *)
(* own (FencesApart), and neither a heartbeat nor a failure ever puts a    *)
(* deletion back to where writes may go on (Generations).                  *)
(*                                                                         *)
(* A deletion that is done listed all there was once the writes were over  *)
(* (Covered), and the flow that worked the list off is the one the record  *)
(* names (GensApart, Sweeps).  What it lists is no younger than its        *)
(* request, in every copy of the record a flow or a heartbeat may write    *)
(* back (Ages).                                                            *)
(***************************************************************************)
EXTENDS CloudWriteBarrier, TLAPS

InHand(t) == /\ writer[t].phase \in {"leased", "ready", "renewed", "sent"}
             /\ writer[t].fence \notin lapsed

\* A write in hand holds a live lease.
LeaseInHand == \A t \in Tabs : InHand(t) => Holds(writer[t].fence) /\ lease.live

\* A write in hand may be sent.
WritersMay == \A t \in Tabs : InHand(t) => MayWrite

\* Fences are handed out once, in order.
FencesApart ==
  /\ \A f \in lapsed : f <= lease.fence
  /\ \A t \in Tabs : remover[t] # None => remover[t].fence <= lease.fence
  /\ \A t \in Tabs : writer[t].phase # "idle" => writer[t].fence \in 1..lease.fence
  /\ \A t, u \in Tabs :
       writer[t].phase # "idle" =>
         /\ t # u /\ writer[u].phase # "idle" => writer[t].fence # writer[u].fence
         /\ remover[u] # None => writer[t].fence # remover[u].fence

Requesting == deletion # None /\ deletion.state = "requesting"

\* A generation that left "requesting" never returns to it.
Generations ==
  /\ deletion # None => deletion.gen <= claims
  /\ \A t \in Tabs : remover[t] # None =>
       /\ remover[t].gen <= claims
       /\ remover[t].phase = "settle" => /\ remover[t].next.state # "requesting"
                                         /\ remover[t].next.gen = remover[t].gen
       /\ Working(t) /\ Owns(t) => ~Requesting
  /\ \A t \in Tabs : beat[t] # None =>
       /\ beat[t].copy.gen <= claims /\ beat[t].copy.state = "deleting"
       /\ SameGeneration(t) => ~Requesting

Inv == TypeOK /\ LeaseInHand /\ WritersMay /\ FencesApart /\ Generations

----------------------------------------------------------------------------
(* Types *)

\* The bounds are numbers.
LEMMA Bounds == {MaxLeases, MaxWrites, MaxClaims, MaxBeats, MaxTrouble} \subseteq Nat
BY BarrierAssumption DEF BarrierAssumption

\* The fields a transaction rewrites keep a deletion a deletion.
LEMMA DeletionFields ==
  ASSUME deletion \in Deletions
  PROVE  /\ [deletion EXCEPT !.live = TRUE] \in Deletions
         /\ [deletion EXCEPT !.live = FALSE] \in Deletions
         /\ [deletion EXCEPT !.state = "deleting", !.live = TRUE] \in Deletions
         /\ [deletion EXCEPT !.state = "deleted", !.live = FALSE] \in Deletions
         /\ [deletion EXCEPT !.state = "nothing", !.live = FALSE] \in Deletions
         /\ deletion.open \subseteq Objects /\ deletion.done \subseteq Objects
BY DEF Deletions, States

\* The empty record, no deletion and nothing in hand have their types.
LEMMA InitType == Init => TypeOK
<1> SUFFICES ASSUME Init PROVE TypeOK
  OBVIOUS
<1> USE Bounds DEF Init
<1>1. lease \in Leases
  BY DEF Leases, Fences
<1>2. writer \in [Tabs -> Writes]
  BY DEF Writes, Idle, Fences, WriterPhases
<1>3. era \in Eras /\ leases \in 0..MaxLeases /\ written \in 0..MaxWrites
  BY DEF Eras
<1>4. claims \in 0..MaxClaims /\ beats \in 0..MaxBeats /\ trouble \in 0..MaxTrouble
  OBVIOUS
<1> QED
  BY <1>1, <1>2, <1>3, <1>4 DEF TypeOK

\* Claiming, renewing and giving back keep a lease a lease.
LEMMA LeaseFields ==
  ASSUME lease \in Leases, NEW l \in BOOLEAN
  PROVE  /\ [lease EXCEPT !.live = l] \in Leases
         /\ [lease EXCEPT !.named = FALSE, !.live = FALSE] \in Leases
         /\ [fence |-> lease.fence + 1, named |-> TRUE, live |-> TRUE] \in Leases
         /\ lease.fence + 1 \in Fences
<1> USE DEF Leases, Fences
<1>1. [lease EXCEPT !.live = l] \in Leases
  OBVIOUS
<1>2. [lease EXCEPT !.named = FALSE, !.live = FALSE] \in Leases
  OBVIOUS
<1>3. lease.fence + 1 \in Nat
  OBVIOUS
<1> QED
  BY <1>1, <1>2, <1>3

\* A write that goes on stays a write.
LEMMA WriterGoesOn ==
  ASSUME writer \in [Tabs -> Writes], NEW t \in Tabs, NEW p \in WriterPhases, WPhase(t, p)
  PROVE  writer' \in [Tabs -> Writes]
BY DEF WPhase, Writes

\* The provider stores objects.
LEMMA StoreType ==
  ASSUME cloud \subseteq Objects, era \in Eras, written \in 0..MaxWrites,
         NEW late \in BOOLEAN, Store(late)
  PROVE  cloud' \subseteq Objects /\ written' \in 0..MaxWrites
<1>1. written + 1 \in 1..MaxWrites
  BY Bounds DEF Store
<1>2. [n |-> written + 1, era |-> era, late |-> late] \in Objects
  BY <1>1 DEF Objects
<1> QED
  BY <1>1, <1>2 DEF Store

\* Each step of a write keeps the types.
LEMMA WriteType ==
  ASSUME TypeOK, NEW t \in Tabs,
         ClaimWrite(t) \/ WriteStep(t) \/ WriteBeat(t) \/ GiveUp(t)
  PROVE  TypeOK'
<1> USE Bounds DEF record, counts, history
<1>1. CASE ClaimWrite(t)
  <2>1. lease' \in Leases
    BY <1>1, LeaseFields DEF ClaimWrite, Claim, TypeOK
  <2>2. writer' \in [Tabs -> Writes]
    BY <1>1, LeaseFields DEF ClaimWrite, TypeOK, Writes, WriterPhases
  <2>3. leases' \in 0..MaxLeases
    BY <1>1 DEF ClaimWrite, TypeOK
  <2> QED
    BY <1>1, <2>1, <2>2, <2>3 DEF ClaimWrite, TypeOK
<1>2. CASE AfterClaim(t)
  <2>1. writer' \in [Tabs -> Writes]
    BY <1>2, WriterGoesOn DEF AfterClaim, TypeOK, WriterPhases
  <2> QED
    BY <1>2, <2>1 DEF AfterClaim, TypeOK
<1>3. CASE Renew(t)
  <2>1. lease' \in Leases
    BY <1>3, LeaseFields DEF Renew, Refresh, TypeOK
  <2>2. writer' \in [Tabs -> Writes]
    BY <1>3, WriterGoesOn DEF Renew, TypeOK, WriterPhases
  <2> QED
    BY <1>3, <2>1, <2>2 DEF Renew, TypeOK
<1>4. CASE Send(t)
  <2>1. writer' \in [Tabs -> Writes]
    BY <1>4, WriterGoesOn DEF Send, TypeOK, WriterPhases
  <2> QED
    BY <1>4, <2>1 DEF Send, TypeOK
<1>5. CASE Land(t)
  <2>1. writer' \in [Tabs -> Writes]
    BY <1>5, WriterGoesOn DEF Land, TypeOK, WriterPhases
  <2>2. cloud' \subseteq Objects /\ written' \in 0..MaxWrites
    <3>1. CASE Store(writer[t].fence \in lapsed)
      <4>1. (writer[t].fence \in lapsed) \in BOOLEAN
        OBVIOUS
      <4>2. cloud \subseteq Objects /\ era \in Eras /\ written \in 0..MaxWrites
        BY DEF TypeOK
      <4> QED
        BY <3>1, <4>1, <4>2, StoreType, Zenon
    <3>2. CASE UNCHANGED <<cloud, written>>
      BY <3>2 DEF TypeOK
    <3> QED
      BY <1>5, <3>1, <3>2 DEF Land
  <2> QED
    BY <1>5, <2>1, <2>2 DEF Land, TypeOK
<1>6. CASE WriteBeat(t)
  <2>1. lease' \in Leases
    BY <1>6, LeaseFields DEF WriteBeat, Refresh, TypeOK
  <2>2. adrift' \subseteq Fences
    BY <1>6 DEF WriteBeat, Abort, TypeOK, Writes
  <2>3. writer' \in [Tabs -> Writes]
    BY <1>6, WriterGoesOn DEF WriteBeat, TypeOK, WriterPhases
  <2> QED
    BY <1>6, <2>1, <2>2, <2>3 DEF WriteBeat, TypeOK
<1>7. CASE GiveUp(t)
  <2>1. adrift' \subseteq Fences
    BY <1>7 DEF GiveUp, Abort, TypeOK, Writes
  <2>2. trouble' \in 0..MaxTrouble
    BY <1>7 DEF GiveUp, Trouble, TypeOK
  <2>3. writer' \in [Tabs -> Writes]
    BY <1>7, WriterGoesOn DEF GiveUp, TypeOK, WriterPhases
  <2> QED
    BY <1>7, <2>1, <2>2, <2>3 DEF GiveUp, TypeOK
<1>8. CASE EndWrite(t)
  <2>1. lease' \in Leases
    BY <1>8, LeaseFields DEF EndWrite, Release, TypeOK
  <2>2. writer' \in [Tabs -> Writes]
    BY <1>8 DEF EndWrite, Idle, TypeOK, Writes, WriterPhases, Fences
  <2> QED
    BY <1>8, <2>1, <2>2 DEF EndWrite, TypeOK
<1> QED
  BY <1>1, <1>2, <1>3, <1>4, <1>5, <1>6, <1>7, <1>8 DEF WriteStep

\* A deletion that goes on stays one.
LEMMA RemoverGoesOn ==
  ASSUME remover \in [Tabs -> Removers \cup {None}], NEW t \in Tabs, remover[t] # None,
         NEW p \in RemoverPhases, RPhase(t, p)
  PROVE  remover' \in [Tabs -> Removers \cup {None}]
BY DEF RPhase, Removers

\* ... with the fence it took.
LEMMA RemoverTakesFence ==
  ASSUME remover \in [Tabs -> Removers \cup {None}], NEW t \in Tabs, remover[t] # None,
         NEW p \in RemoverPhases, NEW f \in Fences,
         remover' = [remover EXCEPT ![t].phase = p, ![t].fence = f]
  PROVE  remover' \in [Tabs -> Removers \cup {None}]
<1>1. \A u \in Tabs : u # t => remover'[u] = remover[u]
  OBVIOUS
<1>2. remover'[t] \in Removers
  BY DEF Removers
<1>3. remover' = [u \in Tabs |-> remover'[u]]
  OBVIOUS
<1> QED
  BY <1>1, <1>2, <1>3

\* ... with the objects it has to delete.
LEMMA RemoverLists ==
  ASSUME remover \in [Tabs -> Removers \cup {None}], NEW t \in Tabs, remover[t] # None,
         NEW p \in RemoverPhases, NEW S \in SUBSET Objects,
         remover' = [remover EXCEPT ![t].phase = p, ![t].todo = S]
  PROVE  remover' \in [Tabs -> Removers \cup {None}]
<1>1. \A u \in Tabs : u # t => remover'[u] = remover[u]
  OBVIOUS
<1>2. remover'[t] \in Removers
  BY DEF Removers
<1>3. remover' = [u \in Tabs |-> remover'[u]]
  OBVIOUS
<1> QED
  BY <1>1, <1>2, <1>3

\* ... with the object it turns to.
LEMMA RemoverTurns ==
  ASSUME remover \in [Tabs -> Removers \cup {None}], NEW t \in Tabs, remover[t] # None,
         NEW p \in RemoverPhases, NEW S \in SUBSET Objects, NEW o \in Objects,
         remover' = [remover EXCEPT ![t].phase = p, ![t].target = o, ![t].todo = S]
  PROVE  remover' \in [Tabs -> Removers \cup {None}]
<1>1. \A u \in Tabs : u # t => remover'[u] = remover[u]
  OBVIOUS
<1>2. remover'[t] \in Removers
  BY DEF Removers
<1>3. remover' = [u \in Tabs |-> remover'[u]]
  OBVIOUS
<1> QED
  BY <1>1, <1>2, <1>3

\* ... with the object it is done with forgotten.
LEMMA RemoverDone ==
  ASSUME remover \in [Tabs -> Removers \cup {None}], NEW t \in Tabs, remover[t] # None,
         NEW p \in RemoverPhases,
         remover' = [remover EXCEPT ![t].phase = p, ![t].target = None]
  PROVE  remover' \in [Tabs -> Removers \cup {None}]
<1>1. \A u \in Tabs : u # t => remover'[u] = remover[u]
  OBVIOUS
<1>2. remover'[t] \in Removers
  BY DEF Removers
<1>3. remover' = [u \in Tabs |-> remover'[u]]
  OBVIOUS
<1> QED
  BY <1>1, <1>2, <1>3

\* ... with what it is going to store.
LEMMA RemoverSettles ==
  ASSUME remover \in [Tabs -> Removers \cup {None}], NEW t \in Tabs, remover[t] # None,
         NEW p \in RemoverPhases, NEW d \in Deletions,
         remover' = [remover EXCEPT ![t].phase = p, ![t].next = d]
  PROVE  remover' \in [Tabs -> Removers \cup {None}]
<1>1. \A u \in Tabs : u # t => remover'[u] = remover[u]
  OBVIOUS
<1>2. remover'[t] \in Removers
  BY DEF Removers
<1>3. remover' = [u \in Tabs |-> remover'[u]]
  OBVIOUS
<1> QED
  BY <1>1, <1>2, <1>3

\* A deletion that gives up leaves nothing.
LEMMA RemoverQuits ==
  ASSUME remover \in [Tabs -> Removers \cup {None}], NEW t \in Tabs, Quit(t)
  PROVE  remover' \in [Tabs -> Removers \cup {None}]
BY DEF Quit

\* Requesting a deletion keeps the types.
LEMMA ClaimIntentType == ASSUME TypeOK, NEW t \in Tabs, ClaimIntent(t) PROVE TypeOK'
<1>1. claims' = claims + 1 /\ claims' \in 1..MaxClaims
  BY Bounds DEF ClaimIntent, TypeOK
<1>2. deletion' \in Deletions
  <2>1. CASE deletion' = [op |-> era + 1, gen |-> claims + 1, state |-> "requesting",
                          live |-> TRUE, open |-> {}, done |-> {}]
    BY <1>1, <2>1 DEF Deletions, States, Eras, TypeOK
  <2>2. CASE /\ deletion # None
             /\ deletion' = [deletion EXCEPT !.gen = claims + 1, !.state = "requesting", !.live = TRUE]
    BY <1>1, <2>2 DEF Deletions, States, TypeOK
  <2> QED
    BY <2>1, <2>2 DEF ClaimIntent, Pending
<1>3. era' \in Eras
  BY DEF ClaimIntent, Eras, TypeOK
<1>4. remover' \in [Tabs -> Removers \cup {None}]
  <2> DEFINE r == [phase |-> "drain", op |-> deletion'.op, gen |-> claims + 1, fence |-> 0,
                   todo |-> {}, target |-> None, next |-> None, lost |-> FALSE]
  <2>1. r \in Removers
    BY <1>1, <1>2 DEF Removers, RemoverPhases, Fences, Deletions
  <2>2. remover' = [remover EXCEPT ![t] = r]
    BY DEF ClaimIntent
  <2> QED
    BY <2>1, <2>2 DEF TypeOK
<1> QED
  BY <1>1, <1>2, <1>3, <1>4, Bounds DEF ClaimIntent, TypeOK, history

\* Taking the account, or giving up before it, keeps the types.
LEMMA TakeType ==
  ASSUME TypeOK, NEW t \in Tabs, remover[t] # None,
         RefreshRequest(t) \/ ClaimForDeletion(t) \/ Start(t)
  PROVE  TypeOK'
<1> USE DEF record, counts, history
<1> {"claim", "drain", "read"} \subseteq RemoverPhases
  BY DEF RemoverPhases
<1>1. CASE RefreshRequest(t)
  <2>1. deletion' \in Deletions \cup {None}
    BY <1>1, DeletionFields DEF RefreshRequest, Owns, TypeOK
  <2>2. remover' \in [Tabs -> Removers \cup {None}]
    BY <1>1, RemoverGoesOn, RemoverQuits DEF RefreshRequest, TypeOK
  <2> QED
    BY <1>1, <2>1, <2>2 DEF RefreshRequest, TypeOK
<1>2. CASE ClaimForDeletion(t)
  <2>1. lease' \in Leases
    BY <1>2, LeaseFields DEF ClaimForDeletion, Claim, TypeOK
  <2>2. remover' \in [Tabs -> Removers \cup {None}]
    <3>1. CASE remover' = [remover EXCEPT ![t].phase = "start", ![t].fence = lease.fence + 1]
      <4>1. lease.fence + 1 \in Fences /\ "start" \in RemoverPhases
        BY LeaseFields DEF TypeOK, RemoverPhases
      <4> QED
        BY <3>1, <4>1, RemoverTakesFence DEF TypeOK
    <3> QED
      BY <1>2, <3>1, RemoverGoesOn DEF ClaimForDeletion, TypeOK
  <2> QED
    BY <1>2, <2>1, <2>2 DEF ClaimForDeletion, TypeOK
<1>3. CASE Start(t)
  <2>1. deletion' \in Deletions \cup {None}
    BY <1>3, DeletionFields DEF Start, Owns, TypeOK
  <2>2. remover' \in [Tabs -> Removers \cup {None}]
    BY <1>3, RemoverGoesOn, RemoverQuits DEF Start, TypeOK
  <2> QED
    BY <1>3, <2>1, <2>2 DEF Start, TypeOK
<1> QED
  BY <1>1, <1>2, <1>3

\* Reading, journaling and reading back the targets keeps the types.
LEMMA JournalType ==
  ASSUME TypeOK, NEW t \in Tabs, remover[t] # None,
         ReadJournal(t) \/ Journal(t) \/ ReadBack(t)
  PROVE  TypeOK'
<1> USE DEF record, counts, history
<1> {"fail", "finish", "delete", "nothing", "journal", "reread"} \subseteq RemoverPhases
  BY DEF RemoverPhases
<1>0. Reads(t) => deletion \in Deletions
  BY DEF Reads, Owns, TypeOK
<1>1. CASE ReadJournal(t)
  <2> DEFINE p == IF ~Reads(t) THEN "fail"
                  ELSE IF Targets # {} THEN IF deletion.open = {} THEN "finish" ELSE "delete"
                  ELSE IF cloud = {} THEN "nothing" ELSE "journal"
             S == IF ~Reads(t) THEN {} ELSE IF Targets = {} THEN cloud ELSE deletion.open
  <2>1. p \in RemoverPhases
    OBVIOUS
  <2>2. S \in SUBSET Objects
    BY <1>0, DeletionFields DEF TypeOK
  <2>3. remover' = [remover EXCEPT ![t].phase = p, ![t].todo = S]
    BY <1>1 DEF ReadJournal
  <2> HIDE DEF p, S
  <2>4. remover' \in [Tabs -> Removers \cup {None}]
    BY <2>1, <2>2, <2>3, RemoverLists DEF TypeOK
  <2> QED
    BY <1>1, <2>4 DEF ReadJournal, TypeOK
<1>2. CASE Journal(t)
  <2>1. deletion' \in Deletions \cup {None}
    <3>1. CASE deletion \in Deletions /\ deletion' = [deletion EXCEPT !.open = remover[t].todo]
      <4>1. remover[t].todo \subseteq Objects
        BY DEF TypeOK, Removers
      <4> QED
        BY <3>1, <4>1 DEF Deletions
    <3> QED
      BY <1>2, <3>1 DEF Journal, Commands, Owns, TypeOK
  <2>2. remover' \in [Tabs -> Removers \cup {None}]
    BY <1>2, RemoverGoesOn DEF Journal, TypeOK
  <2> QED
    BY <1>2, <2>1, <2>2 DEF Journal, TypeOK
<1>3. CASE ReadBack(t)
  <2> DEFINE p == IF ~Reads(t) THEN "fail" ELSE IF Targets = {} THEN "fail" ELSE "delete"
             S == IF Reads(t) THEN deletion.open ELSE {}
  <2>1. p \in RemoverPhases
    OBVIOUS
  <2>2. S \in SUBSET Objects
    BY <1>0, DeletionFields DEF TypeOK
  <2>3. remover' = [remover EXCEPT ![t].phase = p, ![t].todo = S]
    BY <1>3 DEF ReadBack
  <2> HIDE DEF p, S
  <2>4. remover' \in [Tabs -> Removers \cup {None}]
    BY <2>1, <2>2, <2>3, RemoverLists DEF TypeOK
  <2> QED
    BY <1>3, <2>4 DEF ReadBack, TypeOK
<1> QED
  BY <1>1, <1>2, <1>3

\* Deleting one target after the other keeps the types.
LEMMA DeleteType ==
  ASSUME TypeOK, NEW t \in Tabs, remover[t] # None, Intend(t) \/ Delete(t) \/ MarkDone(t)
  PROVE  TypeOK'
<1> USE DEF record, counts, history
<1> {"complete", "send", "fail", "mark", "delete"} \subseteq RemoverPhases
  BY DEF RemoverPhases
<1>0. /\ remover[t].todo \subseteq Objects
      /\ Owns(t) => deletion \in Deletions
  BY DEF TypeOK, Removers, Owns
<1>1. CASE Intend(t)
  <2>1. ASSUME NEW o \in remover[t].todo, deletion \in Deletions,
               deletion' = [deletion EXCEPT !.open = @ \cup ({o} \ deletion.done)],
               remover' = [remover EXCEPT ![t].phase = "send", ![t].target = o,
                                          ![t].todo = @ \ {o}]
        PROVE  /\ deletion' \in Deletions
               /\ remover' \in [Tabs -> Removers \cup {None}]
    <3>1. o \in Objects
      BY <1>0
    <3>2. deletion' \in Deletions
      BY <2>1, <3>1 DEF Deletions
    <3>3. remover' = [remover EXCEPT ![t].phase = "send", ![t].target = o,
                                     ![t].todo = remover[t].todo \ {o}]
      BY <2>1 DEF TypeOK
    <3> DEFINE S == remover[t].todo \ {o}
    <3>4. S \in SUBSET Objects
      BY <1>0
    <3> HIDE DEF S
    <3> QED
      BY <3>1, <3>2, <3>3, <3>4, RemoverTurns DEF TypeOK, S
  <2>2. ASSUME RPhase(t, "complete") \/ RPhase(t, "fail")
        PROVE  remover' \in [Tabs -> Removers \cup {None}]
    BY <2>2, RemoverGoesOn DEF TypeOK
  <2>3. /\ deletion' \in Deletions \cup {None}
        /\ remover' \in [Tabs -> Removers \cup {None}]
    BY <1>0, <1>1, <2>1, <2>2 DEF Intend, Commands, TypeOK
  <2> QED
    BY <1>1, <2>3 DEF Intend, TypeOK
<1>2. CASE Delete(t)
  <2>1. remover' \in [Tabs -> Removers \cup {None}]
    BY <1>2, RemoverGoesOn DEF Delete, TypeOK
  <2>2. cloud' \subseteq Objects /\ trouble' \in 0..MaxTrouble
    BY <1>2, Bounds DEF Delete, Trouble, TypeOK
  <2> QED
    BY <1>2, <2>1, <2>2 DEF Delete, TypeOK
<1>3. CASE MarkDone(t)
  <2> DEFINE o == remover[t].target
             valid == Commands(t) /\ o \in Targets
             p == IF valid THEN "delete" ELSE "fail"
  <2>1. deletion' \in Deletions \cup {None}
    <3>1. CASE valid
      <4>1. deletion \in Deletions /\ o \in Objects
        BY <1>0, <3>1, DeletionFields DEF Commands, Targets
      <4>2. deletion' = [deletion EXCEPT !.open = @ \ {o}, !.done = @ \cup {o}]
        BY <1>3, <3>1 DEF MarkDone
      <4> QED
        BY <4>1, <4>2 DEF Deletions
    <3> QED
      BY <1>3, <3>1 DEF MarkDone, TypeOK
  <2>2. p \in RemoverPhases
    OBVIOUS
  <2>3. remover' = [remover EXCEPT ![t].phase = p, ![t].target = None]
    BY <1>3 DEF MarkDone
  <2> HIDE DEF p
  <2>4. remover' \in [Tabs -> Removers \cup {None}]
    BY <2>2, <2>3, RemoverDone DEF TypeOK
  <2> QED
    BY <1>3, <2>1, <2>4 DEF MarkDone, TypeOK
<1> QED
  BY <1>1, <1>2, <1>3

\* Settling what becomes of the deletion keeps the types.
LEMMA SettleType ==
  ASSUME TypeOK, NEW t \in Tabs, remover[t] # None,
         Complete(t) \/ Nothing(t) \/ Fail(t) \/ Settle(t)
  PROVE  TypeOK'
<1> USE DEF record, counts, history
<1> {"settle", "fail"} \subseteq RemoverPhases
  BY DEF RemoverPhases
<1>0. Owns(t) => deletion \in Deletions
  BY DEF TypeOK, Owns
<1>1. ASSUME NEW d \in Deletions, Settling(t, d) PROVE remover' \in [Tabs -> Removers \cup {None}]
  BY <1>1, RemoverSettles DEF TypeOK, Settling
<1>2. CASE Complete(t) \/ Nothing(t) \/ Fail(t)
  <2>1. remover' \in [Tabs -> Removers \cup {None}]
    <3>1. CASE RPhase(t, "fail") \/ Quit(t)
      BY <3>1, RemoverGoesOn, RemoverQuits DEF TypeOK
    <3>2. CASE Owns(t) /\ \/ Settling(t, [deletion EXCEPT !.state = "deleted", !.live = FALSE])
                          \/ Settling(t, [deletion EXCEPT !.state = "nothing", !.live = FALSE])
                          \/ Settling(t, [deletion EXCEPT !.live = FALSE])
      BY <1>0, <1>1, <3>2, DeletionFields
    <3> QED
      BY <1>2, <3>1, <3>2 DEF Complete, Nothing, Fail, Reads
  <2> QED
    BY <1>2, <2>1 DEF Complete, Nothing, Fail, TypeOK
<1>3. CASE Settle(t)
  <2>1. deletion' \in Deletions \cup {None}
    BY <1>3 DEF Settle, TypeOK, Removers
  <2>2. lease' \in Leases
    BY <1>3, LeaseFields DEF Settle, TypeOK
  <2>3. remover' \in [Tabs -> Removers \cup {None}]
    BY <1>3, RemoverQuits DEF Settle, TypeOK
  <2> QED
    BY <1>3, <2>1, <2>2, <2>3 DEF Settle, TypeOK
<1> QED
  BY <1>2, <1>3

\* A heartbeat keeps the types.
LEMMA BeatType ==
  ASSUME TypeOK, NEW t \in Tabs, BeatRead(t) \/ BeatRenew(t) \/ BeatWrite(t)
  PROVE  TypeOK'
<1> USE DEF record, counts, history
<1>0. Lose(t) => remover' \in [Tabs -> Removers \cup {None}]
  <2>1. remover[t] # None => [remover[t] EXCEPT !.lost = TRUE] \in Removers
    BY DEF TypeOK, Removers
  <2> QED
    BY <2>1 DEF Lose, TypeOK
<1>1. CASE BeatRead(t)
  <2>1. beat' \in [Tabs -> Beats \cup {None}]
    <3> DEFINE b == [fence |-> remover[t].fence, renewed |-> FALSE,
                     copy |-> [deletion EXCEPT !.live = TRUE]]
    <3>1. CASE Reads(t) /\ beat' = [beat EXCEPT ![t] = b]
      <4>1. [deletion EXCEPT !.live = TRUE] \in Deletions
        BY <3>1, DeletionFields DEF Reads, Owns, TypeOK
      <4>2. remover[t].fence \in Fences
        BY <1>1 DEF BeatRead, Working, TypeOK, Removers
      <4>3. b \in Beats
        BY <4>1, <4>2 DEF Beats
      <4> HIDE DEF b
      <4> QED
        BY <3>1, <4>3 DEF TypeOK
    <3> QED
      BY <1>1, <3>1 DEF BeatRead, TypeOK
  <2>2. remover' \in [Tabs -> Removers \cup {None}]
    BY <1>0, <1>1 DEF BeatRead, TypeOK
  <2>3. beats' \in 0..MaxBeats
    BY <1>1, Bounds DEF BeatRead, TypeOK
  <2> QED
    BY <1>1, <2>1, <2>2, <2>3 DEF BeatRead, TypeOK
<1>2. CASE BeatRenew(t)
  <2>1. lease' \in Leases
    BY <1>2, LeaseFields DEF BeatRenew, Refresh, TypeOK
  <2>2. beat' \in [Tabs -> Beats \cup {None}]
    <3>1. [beat[t] EXCEPT !.renewed = TRUE] \in Beats
      BY <1>2 DEF BeatRenew, TypeOK, Beats
    <3> QED
      BY <1>2, <3>1 DEF BeatRenew, TypeOK
  <2>3. remover' \in [Tabs -> Removers \cup {None}]
    BY <1>0, <1>2 DEF BeatRenew, TypeOK
  <2> QED
    BY <1>2, <2>1, <2>2, <2>3 DEF BeatRenew, TypeOK
<1>3. CASE BeatWrite(t)
  <2>1. beat[t].copy \in Deletions
    BY <1>3 DEF BeatWrite, TypeOK, Beats
  <2>2. rolledBack' \in BOOLEAN
    BY <1>3 DEF BeatWrite, TypeOK
  <2>3. remover' \in [Tabs -> Removers \cup {None}] /\ beat' \in [Tabs -> Beats \cup {None}]
    BY <1>0, <1>3 DEF BeatWrite, TypeOK
  <2> QED
    BY <1>3, <2>1, <2>2, <2>3 DEF BeatWrite, TypeOK
<1> QED
  BY <1>1, <1>2, <1>3

\* Time, late requests, closed tabs and reconnecting keep the types.
LEMMA OtherType ==
  ASSUME TypeOK,
         \/ \E t \in Tabs : Sleep(t) \/ Reload(t)
         \/ \E fence \in adrift : Drift(fence)
         \/ Resume \/ Expire
  PROVE  TypeOK'
<1> USE DEF record, counts, history
<1>1. ASSUME NEW t \in Tabs, Sleep(t) PROVE TypeOK'
  <2>1. lease' \in Leases
    <3>1. lease' = [lease EXCEPT !.live = FALSE] \/ lease' = lease
      BY <1>1 DEF Sleep, TypeOK, Leases
    <3> QED
      BY <3>1, LeaseFields DEF TypeOK
  <2>2. deletion' \in Deletions \cup {None}
    BY <1>1, DeletionFields DEF Sleep, Pending, TypeOK
  <2>3. lapsed' \subseteq Fences
    BY <1>1 DEF Sleep, TypeOK, Leases
  <2>4. trouble' \in 0..MaxTrouble
    BY <1>1, Bounds DEF Sleep, Trouble, TypeOK
  <2> QED
    BY <1>1, <2>1, <2>2, <2>3, <2>4 DEF Sleep, TypeOK
<1>2. ASSUME NEW t \in Tabs, Reload(t) PROVE TypeOK'
  <2>1. adrift' \subseteq Fences
    BY <1>2 DEF Reload, Abort, TypeOK, Writes
  <2>2. writer' \in [Tabs -> Writes]
    BY <1>2 DEF Reload, Idle, TypeOK, Writes, WriterPhases, Fences
  <2>3. remover' \in [Tabs -> Removers \cup {None}] /\ beat' \in [Tabs -> Beats \cup {None}]
    BY <1>2, RemoverQuits DEF Reload, TypeOK
  <2>4. trouble' \in 0..MaxTrouble
    BY <1>2, Bounds DEF Reload, Trouble, TypeOK
  <2> QED
    BY <1>2, <2>1, <2>2, <2>3, <2>4 DEF Reload, TypeOK
<1>3. ASSUME NEW fence \in adrift, Drift(fence) PROVE TypeOK'
  <2>1. cloud' \subseteq Objects /\ written' \in 0..MaxWrites
    BY <1>3, StoreType DEF Drift, TypeOK
  <2> QED
    BY <1>3, <2>1 DEF Drift, TypeOK
<1>4. CASE Resume
  <2>1. era' \in Eras
    BY <1>4 DEF Resume, TypeOK, Eras
  <2>2. lease' \in Leases
    BY <1>4, LeaseFields DEF Resume, TypeOK
  <2> QED
    BY <1>4, <2>1, <2>2 DEF Resume, TypeOK
<1>5. CASE Expire
  <2>1. lease' \in Leases /\ deletion' \in Deletions \cup {None}
    BY <1>5, LeaseFields, DeletionFields DEF Expire, Pending, TypeOK
  <2> QED
    BY <1>5, <2>1 DEF Expire, TypeOK
<1> QED
  BY <1>1, <1>2, <1>3, <1>4, <1>5

\* No step leaves the types.
LEMMA NextType == TypeOK /\ [Next]_vars => TypeOK'
<1> SUFFICES ASSUME TypeOK, [Next]_vars PROVE TypeOK'
  OBVIOUS
<1>1. CASE UNCHANGED vars
  BY <1>1 DEF vars, record, counts, history, TypeOK
<1>2. CASE \E t \in Tabs : ClaimWrite(t) \/ WriteStep(t) \/ WriteBeat(t) \/ GiveUp(t)
  BY <1>2, WriteType
<1>3. CASE \E t \in Tabs : ClaimIntent(t) \/ RemoveStep(t)
  BY <1>3, ClaimIntentType, TakeType, JournalType, DeleteType, SettleType DEF RemoveStep
<1>4. CASE \E t \in Tabs : BeatRead(t) \/ BeatRenew(t) \/ BeatWrite(t)
  BY <1>4, BeatType
<1> QED
  BY <1>1, <1>2, <1>3, <1>4, OtherType DEF Next

----------------------------------------------------------------------------
(* What no step does to writes in hand, to fences, and to generations *)

Active == {"leased", "ready", "renewed", "sent"}

\* A write stays what it is, goes on, or ends: only a claim begins one, and
\* none comes back in hand.
LEMMA WriterFrame ==
  ASSUME TypeOK, Next, NEW t \in Tabs, ~ClaimWrite(t)
  PROVE  /\ writer'[t].phase # "idle" => writer[t].phase # "idle" /\ writer'[t].fence = writer[t].fence
         /\ InHand(t)' => InHand(t)
<1> DEFINE Framed == /\ writer'[t].phase # "idle" => /\ writer[t].phase # "idle"
                                                     /\ writer'[t].fence = writer[t].fence
                     /\ writer'[t].phase \in Active => writer[t].phase \in Active
<1>1. lapsed \subseteq lapsed'
  <2> USE DEF history
  <2>1. CASE \E u \in Tabs : ClaimWrite(u) \/ WriteStep(u) \/ WriteBeat(u) \/ GiveUp(u)
    BY <2>1 DEF ClaimWrite, WriteStep, AfterClaim, Renew, Send, Land, EndWrite, WriteBeat, GiveUp
  <2>2. CASE \E u \in Tabs : ClaimIntent(u) \/ RemoveStep(u)
    BY <2>2 DEF ClaimIntent, RemoveStep, RefreshRequest, ClaimForDeletion, Start, ReadJournal,
       Journal, ReadBack, Intend, Delete, MarkDone, Complete, Nothing, Fail, Settle
  <2>3. CASE \E u \in Tabs : BeatRead(u) \/ BeatRenew(u) \/ BeatWrite(u) \/ Sleep(u) \/ Reload(u)
    BY <2>3 DEF BeatRead, BeatRenew, BeatWrite, Sleep, Reload
  <2>4. CASE (\E fence \in adrift : Drift(fence)) \/ Resume \/ Expire
    BY <2>4 DEF Drift, Resume, Expire
  <2> QED
    BY <2>1, <2>2, <2>3, <2>4 DEF Next
<1>2. ASSUME writer' = writer PROVE Framed
  BY <1>2
<1>3. ASSUME NEW u \in Tabs, WriteStep(u) \/ WriteBeat(u) \/ GiveUp(u) PROVE Framed
  <2>1. ASSUME NEW p, WPhase(u, p), writer[u].phase # "idle",
               p \in Active => writer[u].phase \in Active
        PROVE  Framed
    BY <2>1 DEF WPhase, TypeOK, Writes
  <2>2. WPhase(u, "end") /\ writer[u].phase # "idle" => Framed
    BY <2>1 DEF Active
  <2>3. CASE AfterClaim(u) \/ Renew(u) \/ Send(u) \/ Land(u)
    BY <2>1, <2>3 DEF AfterClaim, Renew, Send, Land, Active
  <2>4. CASE EndWrite(u)
    BY <2>4 DEF EndWrite, Idle, Active, TypeOK, Writes
  <2>5. CASE WriteBeat(u) \/ GiveUp(u)
    BY <2>2, <2>5 DEF WriteBeat, GiveUp
  <2> QED
    BY <1>3, <2>3, <2>4, <2>5 DEF WriteStep
<1>4. ASSUME NEW u \in Tabs, Reload(u) PROVE Framed
  BY <1>4 DEF Reload, Idle, Active, TypeOK, Writes
<1>5. ASSUME NEW u \in Tabs, ClaimWrite(u) PROVE Framed
  BY <1>5 DEF ClaimWrite, TypeOK, Writes
<1>6. ASSUME NEW u \in Tabs, ClaimIntent(u) \/ RemoveStep(u) PROVE Framed
  BY <1>2, <1>6 DEF ClaimIntent, RemoveStep, RefreshRequest, ClaimForDeletion, Start, ReadJournal,
     Journal, ReadBack, Intend, Delete, MarkDone, Complete, Nothing, Fail, Settle
<1>7. ASSUME \/ \E u \in Tabs : BeatRead(u) \/ BeatRenew(u) \/ BeatWrite(u) \/ Sleep(u)
             \/ (\E fence \in adrift : Drift(fence)) \/ Resume \/ Expire
      PROVE  Framed
  BY <1>2, <1>7 DEF BeatRead, BeatRenew, BeatWrite, Sleep, Drift, Resume, Expire
<1>8. Framed
  BY <1>3, <1>4, <1>5, <1>6, <1>7 DEF Next
<1> QED
  BY <1>1, <1>8 DEF InHand, Active

\* A deletion's flow keeps its fence: only the claims give it one.
LEMMA RemoverFrame ==
  ASSUME TypeOK, Next, NEW t \in Tabs, remover'[t] # None,
         ~ClaimIntent(t), remover[t] # None => ~ClaimForDeletion(t)
  PROVE  /\ remover[t] # None
         /\ remover'[t].fence = remover[t].fence /\ remover'[t].gen = remover[t].gen
<1> USE DEF TypeOK, Removers
<1>1. CASE remover' = remover
  BY <1>1
<1>2. ASSUME NEW u \in Tabs, NEW p, RPhase(u, p), remover[u] # None
      PROVE  /\ remover[t] # None
             /\ remover'[t].fence = remover[t].fence /\ remover'[t].gen = remover[t].gen
  BY <1>2 DEF RPhase
<1>3. ASSUME NEW u \in Tabs, Quit(u)
      PROVE  /\ remover[t] # None
             /\ remover'[t].fence = remover[t].fence /\ remover'[t].gen = remover[t].gen
  BY <1>3 DEF Quit
<1>4. ASSUME NEW u \in Tabs, NEW d, Settling(u, d), remover[u] # None
      PROVE  /\ remover[t] # None
             /\ remover'[t].fence = remover[t].fence /\ remover'[t].gen = remover[t].gen
  BY <1>4 DEF Settling
<1>5. ASSUME NEW u \in Tabs, Lose(u)
      PROVE  /\ remover[t] # None
             /\ remover'[t].fence = remover[t].fence /\ remover'[t].gen = remover[t].gen
  BY <1>5 DEF Lose
<1>6. ASSUME NEW u \in Tabs, ClaimIntent(u)
      PROVE  /\ remover[t] # None
             /\ remover'[t].fence = remover[t].fence /\ remover'[t].gen = remover[t].gen
  BY <1>6 DEF ClaimIntent
<1>7. ASSUME NEW u \in Tabs, remover[u] # None, RefreshRequest(u) \/ Start(u) \/ Journal(u)
      PROVE  /\ remover[t] # None
             /\ remover'[t].fence = remover[t].fence /\ remover'[t].gen = remover[t].gen
  BY <1>2, <1>3, <1>7 DEF RefreshRequest, Start, Journal
<1>8. ASSUME NEW u \in Tabs, remover[u] # None, ClaimForDeletion(u)
      PROVE  /\ remover[t] # None
             /\ remover'[t].fence = remover[t].fence /\ remover'[t].gen = remover[t].gen
  BY <1>2, <1>8 DEF ClaimForDeletion
<1>9. ASSUME NEW u \in Tabs, remover[u] # None, ReadJournal(u) \/ ReadBack(u)
      PROVE  /\ remover[t] # None
             /\ remover'[t].fence = remover[t].fence /\ remover'[t].gen = remover[t].gen
  BY <1>9 DEF ReadJournal, ReadBack
<1>10. ASSUME NEW u \in Tabs, remover[u] # None, Intend(u) \/ Delete(u) \/ MarkDone(u)
      PROVE  /\ remover[t] # None
             /\ remover'[t].fence = remover[t].fence /\ remover'[t].gen = remover[t].gen
  <2>1. CASE Intend(u)
    <3>1. ASSUME NEW o, remover' = [remover EXCEPT ![u].phase = "send", ![u].target = o,
                                                   ![u].todo = @ \ {o}]
          PROVE  /\ remover[t] # None
                 /\ remover'[t].fence = remover[t].fence /\ remover'[t].gen = remover[t].gen
      <4>1. CASE t = u
        <5>1. remover[u] \in Removers
          BY <1>10
        <5>2. remover'[u].fence = remover[u].fence /\ remover'[u].gen = remover[u].gen
          BY <3>1, <5>1
        <5> QED
          BY <1>10, <4>1, <5>2
      <4>2. CASE t # u
        BY <3>1, <4>2
      <4> QED
        BY <4>1, <4>2
    <3> QED
      BY <1>2, <1>10, <2>1, <3>1 DEF Intend
  <2>2. CASE Delete(u)
    BY <1>2, <1>10, <2>2 DEF Delete
  <2>3. CASE MarkDone(u)
    BY <1>10, <2>3 DEF MarkDone
  <2> QED
    BY <1>10, <2>1, <2>2, <2>3
<1>11. ASSUME NEW u \in Tabs, remover[u] # None, Complete(u) \/ Nothing(u) \/ Fail(u) \/ Settle(u)
      PROVE  /\ remover[t] # None
             /\ remover'[t].fence = remover[t].fence /\ remover'[t].gen = remover[t].gen
  BY <1>2, <1>3, <1>4, <1>11 DEF Complete, Nothing, Fail, Settle
<1>12. ASSUME NEW u \in Tabs, BeatRead(u) \/ BeatRenew(u) \/ BeatWrite(u) \/ Sleep(u) \/ Reload(u)
      PROVE  /\ remover[t] # None
             /\ remover'[t].fence = remover[t].fence /\ remover'[t].gen = remover[t].gen
  BY <1>1, <1>3, <1>5, <1>12 DEF BeatRead, BeatRenew, BeatWrite, Sleep, Reload
<1>13. CASE (\E u \in Tabs : ClaimWrite(u) \/ WriteStep(u) \/ WriteBeat(u) \/ GiveUp(u))
            \/ (\E fence \in adrift : Drift(fence)) \/ Resume \/ Expire
  BY <1>1, <1>13 DEF ClaimWrite, WriteStep, AfterClaim, Renew, Send, Land, EndWrite, WriteBeat,
     GiveUp, Drift, Resume, Expire
<1> QED
  BY <1>6, <1>7, <1>8, <1>9, <1>10, <1>11, <1>12, <1>13 DEF Next, RemoveStep

----------------------------------------------------------------------------
(* The invariant *)

\* A write in hand excludes a deletion in command, and every other holder.
LEMMA AloneInHand ==
  ASSUME Inv, NEW t \in Tabs, InHand(t)
  PROVE  /\ lease.live /\ MayWrite /\ Holds(writer[t].fence) /\ writer[t].phase # "idle"
         /\ \A u \in Tabs : remover[u] # None => ~Holds(remover[u].fence)
         /\ \A u \in Tabs : u # t /\ writer[u].phase # "idle" => ~Holds(writer[u].fence)
BY DEF Inv, LeaseInHand, WritersMay, FencesApart, InHand, Holds

\* The lease of a write in hand is taken from it by nobody.
LEMMA LeaseNext ==
  ASSUME Inv, Next, NEW t \in Tabs, InHand(t)'
  PROVE  Holds(writer[t].fence)' /\ lease.live'
<1> USE DEF record
<1>0. writer'[t].phase # "idle" /\ writer'[t].fence \notin lapsed'
  BY DEF InHand
<1>1. CASE ClaimWrite(t)
  BY <1>1 DEF ClaimWrite, Claim, Holds, Inv, TypeOK
<1>2. CASE ~ClaimWrite(t)
  <2> InHand(t) /\ writer'[t].fence = writer[t].fence
    BY <1>0, <1>2, WriterFrame DEF Inv
  <2> lease.live /\ MayWrite /\ Holds(writer[t].fence) /\ writer[t].phase # "idle"
    BY AloneInHand
  <2> lease \in Leases
    BY DEF Inv, TypeOK
  <2>1. ASSUME lease' = lease \/ Refresh PROVE Holds(writer[t].fence)' /\ lease.live'
    BY <2>1 DEF Refresh, Holds, Leases
  <2>2. CASE \E u \in Tabs : AfterClaim(u) \/ Renew(u) \/ Send(u) \/ Land(u) \/ WriteBeat(u) \/ GiveUp(u)
    BY <2>1, <2>2 DEF AfterClaim, Renew, Send, Land, WriteBeat, GiveUp
  <2>3. ASSUME NEW u \in Tabs, EndWrite(u) PROVE lease' = lease
    <3>1. u # t
      BY <1>0, <2>3 DEF EndWrite, Idle, Inv, TypeOK
    <3>2. ~Holds(writer[u].fence)
      BY <2>3, <3>1, AloneInHand DEF EndWrite
    <3> QED
      BY <2>3, <3>2 DEF EndWrite, Release
  <2>4. ASSUME NEW u \in Tabs, ClaimWrite(u) PROVE FALSE
    BY <2>4 DEF ClaimWrite
  <2>5. ASSUME NEW u \in Tabs, ClaimIntent(u) \/ RemoveStep(u) PROVE lease' = lease
    <3>1. CASE ClaimForDeletion(u)
      BY <3>1 DEF ClaimForDeletion, MayClaim
    <3>2. CASE remover[u] # None /\ Settle(u)
      BY <3>2, AloneInHand DEF Settle
    <3> QED
      BY <2>5, <3>1, <3>2 DEF ClaimIntent, RemoveStep, RefreshRequest, Start, ReadJournal,
         Journal, ReadBack, Intend, Delete, MarkDone, Complete, Nothing, Fail
  <2>6. CASE \E u \in Tabs : BeatRead(u) \/ BeatRenew(u) \/ BeatWrite(u) \/ Reload(u)
    BY <2>1, <2>6 DEF BeatRead, BeatRenew, BeatWrite, Reload
  <2>7. ASSUME NEW u \in Tabs, Sleep(u) PROVE lease' = lease
    <3> DEFINE leaseEnds == lease.live /\ KeepsLease(u)
    <3>1. ~leaseEnds
      <4>1. leaseEnds => lease.fence \in lapsed'
        BY <2>7 DEF Sleep
      <4> QED
        BY <1>0, <4>1 DEF Holds
    <3>2. lease' = [lease EXCEPT !.live = @ /\ ~leaseEnds]
      BY <2>7 DEF Sleep
    <3> HIDE DEF leaseEnds
    <3> QED
      BY <3>1, <3>2 DEF Leases
  <2>8. CASE Expire
    <3>1. KeepsLease(t)
      BY DEF KeepsLease, Holds, Idle
    <3> QED
      BY <2>1, <2>8, <3>1 DEF Expire
  <2>9. CASE Resume
    BY <2>9 DEF Resume, MayWrite
  <2>10. CASE \E fence \in adrift : Drift(fence)
    BY <2>1, <2>10 DEF Drift
  <2> QED
    BY <2>1, <2>2, <2>3, <2>4, <2>5, <2>6, <2>7, <2>8, <2>9, <2>10 DEF Next, WriteStep
<1> QED
  BY <1>1, <1>2

\* Nor does a deletion take command while a write is in hand.
LEMMA MayNext ==
  ASSUME Inv, Next, NEW t \in Tabs, InHand(t)'
  PROVE  MayWrite'
<1> USE DEF record
<1>0. writer'[t].phase # "idle"
  BY DEF InHand
<1>1. CASE ClaimWrite(t)
  BY <1>1 DEF ClaimWrite, MayWrite
<1>2. CASE ~ClaimWrite(t)
  <2> InHand(t)
    BY <1>0, <1>2, WriterFrame DEF Inv
  <2> MayWrite /\ \A u \in Tabs : remover[u] # None => ~Holds(remover[u].fence)
    BY AloneInHand
  <2>1. ASSUME deletion' = deletion PROVE MayWrite'
    BY <2>1 DEF MayWrite
  <2>2. ASSUME NEW l, deletion # None, deletion' = [deletion EXCEPT !.live = l] PROVE MayWrite'
    BY <2>2 DEF MayWrite, Inv, TypeOK, Deletions
  <2>3. CASE \E u \in Tabs : ClaimWrite(u) \/ WriteStep(u) \/ WriteBeat(u) \/ GiveUp(u)
    BY <2>1, <2>3 DEF ClaimWrite, WriteStep, AfterClaim, Renew, Send, Land, EndWrite, WriteBeat, GiveUp
  <2>4. ASSUME NEW u \in Tabs, ClaimIntent(u) PROVE MayWrite'
    <3>1. CASE deletion' = [op |-> era + 1, gen |-> claims + 1, state |-> "requesting",
                            live |-> TRUE, open |-> {}, done |-> {}]
      BY <3>1 DEF MayWrite
    <3>2. CASE /\ deletion \in Deletions
               /\ deletion' = [deletion EXCEPT !.gen = claims + 1, !.state = "requesting", !.live = TRUE]
      BY <3>2 DEF MayWrite, Deletions
    <3> QED
      BY <2>4, <3>1, <3>2 DEF ClaimIntent, Pending, Inv, TypeOK
  <2>5. ASSUME NEW u \in Tabs, remover[u] # None, RefreshRequest(u) PROVE MayWrite'
    BY <2>1, <2>2, <2>5 DEF RefreshRequest, Owns
  <2>6. ASSUME NEW u \in Tabs, remover[u] # None, RemoveStep(u), ~RefreshRequest(u)
        PROVE  deletion' = deletion
    BY <2>6 DEF RemoveStep, ClaimForDeletion, Start, ReadJournal, Journal, ReadBack, Intend, Delete,
       MarkDone, Complete, Nothing, Fail, Settle, Commands
  <2>7. ASSUME NEW u \in Tabs, BeatRead(u) \/ BeatRenew(u) \/ BeatWrite(u) \/ Reload(u)
        PROVE  deletion' = deletion
    <3>1. CASE BeatWrite(u)
      <4>1. ~SameGeneration(u)
        BY <3>1 DEF BeatWrite, Inv, Generations, Requesting, SameGeneration, MayWrite
      <4> QED
        BY <3>1, <4>1 DEF BeatWrite
    <3> QED
      BY <2>7, <3>1 DEF BeatRead, BeatRenew, Reload
  <2>8. CASE (\E u \in Tabs : Sleep(u)) \/ Expire
    BY <2>1, <2>2, <2>8 DEF Sleep, Expire, Pending
  <2>9. CASE Resume
    BY <2>9 DEF Resume, MayWrite
  <2>10. CASE \E fence \in adrift : Drift(fence)
    BY <2>1, <2>10 DEF Drift
  <2> QED
    BY <2>1, <2>3, <2>4, <2>5, <2>6, <2>7, <2>8, <2>9, <2>10 DEF Next, RemoveStep
<1> QED
  BY <1>1, <1>2

\* Only claims move the fence, and only the lease of the moment lapses.
LEMMA LeaseFrame ==
  ASSUME TypeOK, Next, \A t \in Tabs : ~ClaimWrite(t),
         \A t \in Tabs : ClaimForDeletion(t) /\ remover[t] # None => UNCHANGED lease
  PROVE  lease'.fence = lease.fence /\ lapsed' \subseteq lapsed \cup {lease.fence}
<1> USE DEF record, history
<1> lease \in Leases
  BY DEF TypeOK
<1>1. ASSUME NEW u \in Tabs, WriteStep(u) \/ WriteBeat(u) \/ GiveUp(u)
      PROVE  lease'.fence = lease.fence /\ lapsed' = lapsed
  BY <1>1 DEF WriteStep, AfterClaim, Renew, Send, Land, EndWrite, WriteBeat, GiveUp, Refresh,
     Release, Leases
<1>2. ASSUME NEW u \in Tabs, ClaimIntent(u) \/ RemoveStep(u)
      PROVE  lease'.fence = lease.fence /\ lapsed' = lapsed
  <2>1. lapsed' = lapsed
    BY <1>2 DEF ClaimIntent, RemoveStep, RefreshRequest, ClaimForDeletion, Start, ReadJournal,
       Journal, ReadBack, Intend, Delete, MarkDone, Complete, Nothing, Fail, Settle
  <2>2. CASE remover[u] # None /\ Settle(u)
    BY <2>1, <2>2 DEF Settle, Leases
  <2>3. CASE remover[u] # None /\ ClaimForDeletion(u)
    BY <2>1, <2>3
  <2> QED
    BY <1>2, <2>1, <2>2, <2>3 DEF ClaimIntent, RemoveStep, RefreshRequest, Start, ReadJournal,
       Journal, ReadBack, Intend, Delete, MarkDone, Complete, Nothing, Fail
<1>3. ASSUME NEW u \in Tabs, BeatRead(u) \/ BeatRenew(u) \/ BeatWrite(u) \/ Reload(u)
      PROVE  lease'.fence = lease.fence /\ lapsed' = lapsed
  BY <1>3 DEF BeatRead, BeatRenew, BeatWrite, Reload, Refresh, Leases
<1>4. ASSUME NEW u \in Tabs, Sleep(u)
      PROVE  lease'.fence = lease.fence /\ lapsed' \subseteq lapsed \cup {lease.fence}
  BY <1>4 DEF Sleep, Leases
<1>5. ASSUME (\E fence \in adrift : Drift(fence)) \/ Resume \/ Expire
      PROVE  lease'.fence = lease.fence /\ lapsed' = lapsed
  BY <1>5 DEF Drift, Resume, Expire, Leases
<1> QED
  BY <1>1, <1>2, <1>3, <1>4, <1>5 DEF Next

\* No fence is handed out twice.
LEMMA FencesNext == ASSUME Inv, Next PROVE FencesApart'
<1> USE DEF record
<1>0. /\ lease \in Leases /\ lease.fence \in Nat
      /\ \A u \in Tabs : remover[u] # None => remover[u].fence \in Nat
      /\ \A u \in Tabs : writer[u].fence \in Nat
  BY DEF Inv, TypeOK, Leases, Fences, Writes, Removers
<1>1. ASSUME NEW t \in Tabs, ClaimWrite(t) PROVE FencesApart'
  <2>1. /\ lease'.fence = lease.fence + 1 /\ UNCHANGED <<remover, lapsed>>
        /\ writer'[t].phase = "leased" /\ writer'[t].fence = lease.fence + 1
        /\ \A u \in Tabs : u # t => writer'[u] = writer[u]
    BY <1>1 DEF ClaimWrite, Claim, history, Inv, TypeOK
  <2>2. \A f \in lapsed : f \in Nat
    BY DEF Inv, TypeOK, Fences
  <2> QED
    BY <1>0, <2>1, <2>2 DEF FencesApart, Inv
<1>2. ASSUME \A t \in Tabs : ~ClaimWrite(t), NEW t \in Tabs, ClaimForDeletion(t), remover[t] # None,
             ~UNCHANGED lease
      PROVE  FencesApart'
  <2>1. /\ lease'.fence = lease.fence + 1 /\ UNCHANGED <<writer, lapsed>>
        /\ remover' = [remover EXCEPT ![t].phase = "start", ![t].fence = lease.fence + 1]
    BY <1>2 DEF ClaimForDeletion, Claim, history
  <2>2. remover'[t].fence = lease.fence + 1 /\ \A u \in Tabs : u # t => remover'[u] = remover[u]
    BY <1>2, <2>1 DEF Inv, TypeOK, Removers
  <2>3. \A f \in lapsed : f \in Nat
    BY DEF Inv, TypeOK, Fences
  <2>4. \A u \in Tabs : writer[u].phase # "idle" => writer[u].fence <= lease.fence
    BY <1>0 DEF FencesApart, Inv
  <2>5. \A u, w \in Tabs : writer[u].phase # "idle" /\ remover'[w] # None
                             => writer[u].fence # remover'[w].fence
    BY <1>0, <2>2, <2>4 DEF FencesApart, Inv
  <2>6. \A f \in lapsed' : f <= lease'.fence
    BY <1>0, <2>1, <2>3 DEF FencesApart, Inv
  <2>7. \A u \in Tabs : remover'[u] # None => remover'[u].fence <= lease'.fence
    <3> TAKE u \in Tabs
    <3>1. lease'.fence = lease.fence + 1 /\ lease.fence \in Nat
      BY <1>0, <2>1
    <3>2. CASE u = t
      BY <2>2, <3>1, <3>2
    <3>3. CASE u # t
      <4>1. remover'[u] = remover[u] /\ (remover[u] # None => remover[u].fence \in Nat)
        BY <1>0, <2>2, <3>3
      <4>2. remover[u] # None => remover[u].fence <= lease.fence
        BY DEF FencesApart, Inv
      <4> QED
        BY <3>1, <4>1, <4>2
    <3> QED
      BY <3>2, <3>3
  <2>8. \A u \in Tabs : writer'[u].phase # "idle" => writer'[u].fence \in 1..lease'.fence
    BY <1>0, <2>1, <2>4 DEF FencesApart, Inv
  <2>9. \A u, w \in Tabs : writer'[u].phase # "idle" /\ u # w /\ writer'[w].phase # "idle"
                             => writer'[u].fence # writer'[w].fence
    BY <2>1 DEF FencesApart, Inv
  <2> QED
    BY <2>1, <2>5, <2>6, <2>7, <2>8, <2>9 DEF FencesApart
<1>3. ASSUME NEW t \in Tabs, ClaimIntent(t) PROVE FencesApart'
  <2>1. /\ UNCHANGED <<lease, writer, lapsed>> /\ remover'[t].fence = 0
        /\ \A u \in Tabs : u # t => remover'[u] = remover[u]
    BY <1>3 DEF ClaimIntent, history, Inv, TypeOK
  <2> QED
    BY <1>0, <2>1 DEF FencesApart, Inv
<1>4. ASSUME \A t \in Tabs : ~ClaimWrite(t) /\ ~ClaimIntent(t),
             \A t \in Tabs : ClaimForDeletion(t) /\ remover[t] # None => UNCHANGED lease
      PROVE  FencesApart'
  <2>1. \A t \in Tabs : writer'[t].phase # "idle" =>
          writer[t].phase # "idle" /\ writer'[t].fence = writer[t].fence
    BY <1>4, WriterFrame DEF Inv
  <2>2. \A t \in Tabs : remover'[t] # None => remover[t] # None /\ remover'[t].fence = remover[t].fence
    <3> TAKE t \in Tabs
    <3>1. CASE ClaimForDeletion(t) /\ remover[t] # None
      <4>1. RPhase(t, "drain")
        BY <1>0, <1>4, <3>1 DEF ClaimForDeletion, Claim
      <4> QED
        BY <3>1, <4>1 DEF RPhase, Inv, TypeOK, Removers
    <3>2. CASE remover[t] # None => ~ClaimForDeletion(t)
      BY <1>4, <3>2, RemoverFrame DEF Inv
    <3> QED
      BY <3>1, <3>2
  <2>3. lease'.fence = lease.fence /\ lapsed' \subseteq lapsed \cup {lease.fence}
    BY <1>4, LeaseFrame DEF Inv
  <2> QED
    BY <1>0, <2>1, <2>2, <2>3 DEF FencesApart, Inv
<1> QED
  BY <1>1, <1>2, <1>3, <1>4

----------------------------------------------------------------------------
(* Generations *)

\* A deletion's flow works once it started, and settles what it read then.
LEMMA WorkFrame ==
  ASSUME TypeOK, Next, NEW t \in Tabs, remover'[t] # None, ~ClaimIntent(t)
  PROVE  /\ remover[t] # None /\ remover'[t].gen = remover[t].gen
         /\ Working(t)' => Working(t) \/ Start(t)
         /\ remover'[t].phase = "settle" =>
              \/ remover[t].phase = "settle" /\ remover'[t].next = remover[t].next
              \/ Complete(t) \/ Nothing(t) \/ Fail(t)
<1> USE DEF TypeOK, Removers
<1> DEFINE Framed == /\ remover[t] # None /\ remover'[t].gen = remover[t].gen
                     /\ Working(t)' => Working(t) \/ Start(t)
                     /\ remover'[t].phase = "settle" =>
                          \/ remover[t].phase = "settle" /\ remover'[t].next = remover[t].next
                          \/ Complete(t) \/ Nothing(t) \/ Fail(t)
<1>1. CASE remover'[t] = remover[t]
  BY <1>1 DEF Working
<1>2. ASSUME NEW u \in Tabs, NEW p, RPhase(u, p), remover[u] # None, p # "settle",
             p \in {"drain", "claim", "start"} \/ Working(u) \/ Start(u)
      PROVE  Framed
  <2>1. CASE u = t
    BY <1>2, <2>1 DEF RPhase, Working
  <2>2. CASE u # t
    BY <1>1, <1>2, <2>2 DEF RPhase
  <2> QED
    BY <2>1, <2>2
<1>3. ASSUME NEW u \in Tabs, Quit(u) PROVE Framed
  BY <1>1, <1>3 DEF Quit
<1>4. ASSUME NEW u \in Tabs, NEW d, Settling(u, d), remover[u] # None,
             Complete(u) \/ Nothing(u) \/ Fail(u)
      PROVE  Framed
  <2>1. Working(u)
    BY <1>4 DEF Working, Complete, Nothing, Fail
  <2>2. CASE u = t
    BY <1>4, <2>1, <2>2 DEF Settling
  <2>3. CASE u # t
    BY <1>1, <1>4, <2>3 DEF Settling
  <2> QED
    BY <2>2, <2>3
<1>5. ASSUME NEW u \in Tabs, Lose(u) PROVE Framed
  <2>1. CASE u = t
    BY <1>5, <2>1 DEF Lose, Working
  <2>2. CASE u # t
    BY <1>1, <1>5, <2>2 DEF Lose
  <2> QED
    BY <2>1, <2>2
<1>6. ASSUME NEW u \in Tabs, ClaimIntent(u) PROVE Framed
  BY <1>1, <1>6 DEF ClaimIntent
<1>7. ASSUME NEW u \in Tabs, remover[u] # None, RefreshRequest(u) \/ Start(u) \/ ClaimForDeletion(u)
      PROVE  Framed
  <2>1. CASE RefreshRequest(u)
    BY <1>2, <1>3, <1>7, <2>1 DEF RefreshRequest
  <2>2. CASE Start(u)
    BY <1>2, <1>3, <1>7, <2>2 DEF Start
  <2>3. ASSUME NEW f, remover' = [remover EXCEPT ![u].phase = "start", ![u].fence = f] PROVE Framed
    <3>1. CASE u = t
      BY <1>7, <2>3, <3>1 DEF Working
    <3>2. CASE u # t
      BY <1>1, <2>3, <3>2
    <3> QED
      BY <3>1, <3>2
  <2>4. CASE ClaimForDeletion(u)
    BY <1>2, <1>7, <2>3, <2>4 DEF ClaimForDeletion
  <2> QED
    BY <1>7, <2>1, <2>2, <2>4
<1>8. ASSUME NEW u \in Tabs, remover[u] # None, Working(u), NEW p, p # "settle", NEW S,
             remover' = [remover EXCEPT ![u].phase = p, ![u].todo = S]
      PROVE  Framed
  <2>1. CASE u = t
    BY <1>8, <2>1
  <2>2. CASE u # t
    BY <1>1, <1>8, <2>2
  <2> QED
    BY <2>1, <2>2
<1>9. ASSUME NEW u \in Tabs, remover[u] # None, ReadJournal(u) \/ ReadBack(u) PROVE Framed
  <2>1. CASE ReadJournal(u)
    BY <1>8, <1>9, <2>1 DEF ReadJournal, Working
  <2>2. CASE ReadBack(u)
    BY <1>8, <1>9, <2>2 DEF ReadBack, Working
  <2> QED
    BY <1>9, <2>1, <2>2
<1>10. ASSUME NEW u \in Tabs, remover[u] # None, Journal(u) \/ Delete(u) PROVE Framed
  BY <1>2, <1>10 DEF Journal, Delete, Working
<1>11. ASSUME NEW u \in Tabs, remover[u] # None, Intend(u) PROVE Framed
  <2>0. Working(u)
    BY <1>11 DEF Intend, Working
  <2>1. ASSUME NEW o, remover' = [remover EXCEPT ![u].phase = "send", ![u].target = o,
                                                 ![u].todo = @ \ {o}]
        PROVE  Framed
    <3>1. CASE u = t
      <4>1. remover[u] \in Removers
        BY <1>11
      <4>2. remover'[u].gen = remover[u].gen /\ remover'[u].phase = "send"
        BY <2>1, <4>1
      <4> QED
        BY <1>11, <2>0, <3>1, <4>2
    <3>2. CASE u # t
      BY <1>1, <2>1, <3>2
    <3> QED
      BY <3>1, <3>2
  <2> QED
    BY <1>2, <1>11, <2>0, <2>1 DEF Intend
<1>12. ASSUME NEW u \in Tabs, remover[u] # None, MarkDone(u) PROVE Framed
  <2>0. Working(u)
    BY <1>12 DEF MarkDone, Working
  <2>1. ASSUME NEW p, p # "settle", remover' = [remover EXCEPT ![u].phase = p, ![u].target = None]
        PROVE  Framed
    <3>1. CASE u = t
      BY <1>12, <2>0, <2>1, <3>1
    <3>2. CASE u # t
      BY <1>1, <2>1, <3>2
    <3> QED
      BY <3>1, <3>2
  <2> QED
    BY <1>12, <2>1 DEF MarkDone
<1>13. ASSUME NEW u \in Tabs, remover[u] # None, Complete(u) \/ Nothing(u) \/ Fail(u) PROVE Framed
  <2>1. Working(u)
    BY <1>13 DEF Working, Complete, Nothing, Fail
  <2>2. CASE Complete(u)
    BY <1>2, <1>3, <1>4, <1>13, <2>1, <2>2 DEF Complete
  <2>3. CASE Nothing(u)
    BY <1>2, <1>4, <1>13, <2>1, <2>3 DEF Nothing
  <2>4. CASE Fail(u)
    BY <1>3, <1>4, <1>13, <2>4 DEF Fail
  <2> QED
    BY <1>13, <2>2, <2>3, <2>4
<1>14. ASSUME NEW u \in Tabs, remover[u] # None, Settle(u) PROVE Framed
  BY <1>3, <1>14 DEF Settle
<1>15. ASSUME NEW u \in Tabs, BeatRead(u) \/ BeatRenew(u) \/ BeatWrite(u) \/ Sleep(u) \/ Reload(u)
      PROVE  Framed
  BY <1>1, <1>3, <1>5, <1>15 DEF BeatRead, BeatRenew, BeatWrite, Sleep, Reload
<1>16. CASE (\E u \in Tabs : ClaimWrite(u) \/ WriteStep(u) \/ WriteBeat(u) \/ GiveUp(u))
            \/ (\E fence \in adrift : Drift(fence)) \/ Resume \/ Expire
  BY <1>1, <1>16 DEF ClaimWrite, WriteStep, AfterClaim, Renew, Send, Land, EndWrite, WriteBeat,
     GiveUp, Drift, Resume, Expire
<1> QED
  BY <1>6, <1>7, <1>9, <1>10, <1>11, <1>12, <1>13, <1>14, <1>15, <1>16 DEF Next, RemoveStep

\* Only a claim begins a generation; the rest let it go on, or end it.
LEMMA DeletionFrame ==
  ASSUME Inv, Next, \A t \in Tabs : ~ClaimIntent(t)
  PROVE  /\ claims' = claims
         /\ deletion' # None => deletion # None /\ deletion'.gen = deletion.gen
         /\ Requesting' => Requesting
<1> USE DEF record, counts, Requesting
<1> DEFINE Framed == /\ deletion' # None => deletion # None /\ deletion'.gen = deletion.gen
                     /\ Requesting' => Requesting
<1>0. deletion # None => deletion \in Deletions
  BY DEF Inv, TypeOK
<1>1. ASSUME deletion' = deletion PROVE Framed
  BY <1>1
<1>2. ASSUME NEW l, deletion # None, deletion' = [deletion EXCEPT !.live = l] PROVE Framed
  BY <1>0, <1>2 DEF Deletions
<1>3. claims' = claims
  <2>1. CASE \E u \in Tabs : ClaimWrite(u) \/ WriteStep(u) \/ WriteBeat(u) \/ GiveUp(u)
    BY <2>1 DEF ClaimWrite, WriteStep, AfterClaim, Renew, Send, Land, EndWrite, WriteBeat, GiveUp
  <2>2. CASE \E u \in Tabs : RemoveStep(u)
    BY <2>2 DEF RemoveStep, RefreshRequest, ClaimForDeletion, Start, ReadJournal,
       Journal, ReadBack, Intend, Delete, MarkDone, Complete, Nothing, Fail, Settle
  <2>3. CASE \E u \in Tabs : BeatRead(u) \/ BeatRenew(u) \/ BeatWrite(u) \/ Sleep(u) \/ Reload(u)
    BY <2>3 DEF BeatRead, BeatRenew, BeatWrite, Sleep, Reload
  <2>4. CASE (\E fence \in adrift : Drift(fence)) \/ Resume \/ Expire
    BY <2>4 DEF Drift, Resume, Expire
  <2> QED
    BY <2>1, <2>2, <2>3, <2>4 DEF Next
<1>4. CASE \E u \in Tabs : ClaimWrite(u) \/ WriteStep(u) \/ WriteBeat(u) \/ GiveUp(u)
  BY <1>1, <1>3, <1>4 DEF ClaimWrite, WriteStep, AfterClaim, Renew, Send, Land, EndWrite, WriteBeat, GiveUp
<1>5. ASSUME NEW u \in Tabs, remover[u] # None, RefreshRequest(u) \/ ClaimForDeletion(u) PROVE Framed
  BY <1>1, <1>2, <1>5 DEF RefreshRequest, ClaimForDeletion, Owns
<1>6. ASSUME NEW u \in Tabs, remover[u] # None, Start(u) PROVE Framed
  <2>1. CASE deletion # None /\ deletion' = [deletion EXCEPT !.state = "deleting", !.live = TRUE]
    BY <1>0, <2>1 DEF Deletions
  <2> QED
    BY <1>1, <1>6, <2>1 DEF Start, Owns
<1>7. ASSUME NEW u \in Tabs, remover[u] # None,
             ReadJournal(u) \/ ReadBack(u) \/ Delete(u) \/ Complete(u) \/ Nothing(u) \/ Fail(u)
      PROVE  Framed
  BY <1>1, <1>7 DEF ReadJournal, ReadBack, Delete, Complete, Nothing, Fail
<1>8. CASE \E u \in Tabs : BeatRead(u) \/ BeatRenew(u) \/ Reload(u)
  BY <1>1, <1>3, <1>8 DEF BeatRead, BeatRenew, Reload
<1>9. ASSUME NEW S, deletion # None, deletion' = [deletion EXCEPT !.open = S] PROVE Framed
  BY <1>0, <1>9 DEF Deletions
<1>10. ASSUME NEW u \in Tabs, remover[u] # None, Journal(u) \/ Intend(u) \/ MarkDone(u) PROVE Framed
  <2>1. CASE Journal(u)
    BY <1>1, <1>9, <2>1 DEF Journal, Commands, Owns
  <2>2. CASE Intend(u)
    BY <1>1, <1>9, <2>2 DEF Intend, Commands, Owns
  <2>3. ASSUME MarkDone(u), deletion' # deletion PROVE Framed
    <3>1. deletion # None
      BY <2>3 DEF MarkDone, Commands, Owns
    <3>2. deletion' = [deletion EXCEPT !.open = @ \ {remover[u].target},
                                       !.done = @ \cup {remover[u].target}]
      BY <2>3 DEF MarkDone
    <3> QED
      BY <1>0, <3>1, <3>2 DEF Deletions
  <2> QED
    BY <1>1, <1>10, <2>1, <2>2, <2>3
<1>11. ASSUME NEW u \in Tabs, remover[u] # None, Settle(u) PROVE Framed
  <2>1. remover[u].next.state # "requesting" /\ remover[u].next.gen = remover[u].gen
    BY <1>11 DEF Inv, Generations, Settle
  <2>2. CASE Owns(u) /\ deletion' = remover[u].next
    BY <2>1, <2>2 DEF Owns
  <2> QED
    BY <1>1, <1>11, <2>2 DEF Settle
<1>12. ASSUME NEW u \in Tabs, BeatWrite(u) PROVE Framed
  <2>1. beat[u].copy.state = "deleting"
    BY <1>12 DEF Inv, Generations, BeatWrite
  <2>2. CASE SameGeneration(u) /\ deletion' = beat[u].copy
    BY <2>1, <2>2 DEF SameGeneration
  <2> QED
    BY <1>1, <1>12, <2>2 DEF BeatWrite
<1>13. CASE (\E fence \in adrift : Drift(fence)) \/ Resume
  BY <1>1, <1>3, <1>13 DEF Drift, Resume
<1>14. CASE (\E u \in Tabs : Sleep(u)) \/ Expire
  BY <1>1, <1>2, <1>3, <1>14 DEF Sleep, Expire, Pending
<1> QED
  BY <1>3, <1>4, <1>5, <1>6, <1>7, <1>8, <1>10, <1>11, <1>12, <1>13, <1>14 DEF Next, RemoveStep

\* A heartbeat carries the deletion it read, which had begun.
LEMMA BeatFrame ==
  ASSUME TypeOK, Next, NEW t \in Tabs, beat'[t] # None
  PROVE  \/ beat[t] # None /\ beat'[t].copy = beat[t].copy
         \/ /\ deletion # None /\ deletion' = deletion /\ deletion.state = "deleting"
            /\ beat'[t].copy = [deletion EXCEPT !.live = TRUE]
<1> USE DEF TypeOK, Beats
<1>1. CASE beat' = beat
  BY <1>1
<1>2. ASSUME NEW u \in Tabs, beat' = [beat EXCEPT ![u] = None] PROVE beat'[t] = beat[t]
  BY <1>2
<1>3. CASE \E u \in Tabs : ClaimWrite(u) \/ WriteStep(u) \/ WriteBeat(u) \/ GiveUp(u)
  BY <1>1, <1>3 DEF ClaimWrite, WriteStep, AfterClaim, Renew, Send, Land, EndWrite, WriteBeat, GiveUp
<1>4. CASE \E u \in Tabs : ClaimIntent(u) \/ RemoveStep(u)
  BY <1>1, <1>4 DEF ClaimIntent, RemoveStep, RefreshRequest, ClaimForDeletion, Start, ReadJournal,
     Journal, ReadBack, Intend, Delete, MarkDone, Complete, Nothing, Fail, Settle
<1>5. ASSUME NEW u \in Tabs, BeatRead(u)
      PROVE  \/ beat'[t] = beat[t]
             \/ /\ deletion # None /\ deletion' = deletion /\ deletion.state = "deleting"
                /\ beat'[t].copy = [deletion EXCEPT !.live = TRUE]
  <2>1. deletion' = deletion
    BY <1>5 DEF BeatRead, record
  <2>2. ASSUME Reads(u), beat' = [beat EXCEPT ![u] = [fence |-> remover[u].fence, renewed |-> FALSE,
                                                      copy |-> [deletion EXCEPT !.live = TRUE]]]
        PROVE  \/ beat'[t] = beat[t]
               \/ /\ deletion # None /\ deletion.state = "deleting"
                  /\ beat'[t].copy = [deletion EXCEPT !.live = TRUE]
    <3>1. deletion # None /\ deletion.state = "deleting"
      BY <2>2 DEF Reads, Owns
    <3>2. CASE u = t
      BY <2>2, <3>1, <3>2
    <3>3. CASE u # t
      BY <2>2, <3>3
    <3> QED
      BY <3>2, <3>3
  <2> QED
    BY <1>5, <2>1, <2>2 DEF BeatRead
<1>6. ASSUME NEW u \in Tabs, BeatRenew(u), beat[u] # None
      PROVE  beat[t] # None /\ beat'[t].copy = beat[t].copy
  BY <1>2, <1>6 DEF BeatRenew
<1>7. CASE \E u \in Tabs : BeatWrite(u) \/ Reload(u)
  BY <1>2, <1>7 DEF BeatWrite, Reload
<1>8. CASE (\E u \in Tabs : Sleep(u)) \/ (\E fence \in adrift : Drift(fence)) \/ Resume \/ Expire
  BY <1>1, <1>8 DEF Sleep, Drift, Resume, Expire
<1> QED
  BY <1>3, <1>4, <1>5, <1>6, <1>7, <1>8 DEF Next, BeatRenew

\* A claim's generation is above every other.
LEMMA GenerationClaimed == ASSUME Inv, NEW t \in Tabs, ClaimIntent(t) PROVE Generations'
<1> USE DEF Requesting
<1>0. /\ claims \in Nat /\ claims' = claims + 1 /\ UNCHANGED beat
      /\ deletion' # None => deletion'.gen = claims + 1
      /\ remover'[t].gen = claims + 1 /\ remover'[t].phase = "drain"
      /\ \A u \in Tabs : u # t => remover'[u] = remover[u]
      /\ \A u \in Tabs : remover[u] # None => remover[u].gen \in Nat
      /\ \A u \in Tabs : beat[u] # None => beat[u].copy.gen \in Nat
  <2>1. claims \in Nat /\ claims' = claims + 1 /\ UNCHANGED beat
    BY Bounds DEF ClaimIntent, Inv, TypeOK
  <2>2. deletion' # None => deletion'.gen = claims + 1
    <3>1. CASE Pending /\ deletion' = [deletion EXCEPT !.gen = claims + 1, !.state = "requesting",
                                                       !.live = TRUE]
      <4>1. deletion \in Deletions
        BY <3>1 DEF Pending, Inv, TypeOK
      <4> QED
        BY <3>1, <4>1 DEF Deletions
    <3>2. CASE deletion' = [op |-> era + 1, gen |-> claims + 1, state |-> "requesting",
                            live |-> TRUE, open |-> {}, done |-> {}]
      BY <3>2
    <3> QED
      BY <3>1, <3>2 DEF ClaimIntent
  <2> QED
    BY <2>1, <2>2 DEF ClaimIntent, Inv, TypeOK, Removers, Beats, Deletions
<1> QED
  <2>1. \A u \in Tabs : remover'[u] # None =>
          /\ remover'[u].gen <= claims'
          /\ remover'[u].phase = "settle" => /\ remover'[u].next.state # "requesting"
                                             /\ remover'[u].next.gen = remover'[u].gen
          /\ Working(u)' => ~Owns(u)'
    <3> TAKE u \in Tabs
    <3>1. CASE u = t
      BY <1>0, <3>1 DEF Working
    <3>2. CASE u # t
      <4>1. remover[u] # None => /\ remover[u].gen <= claims
                                 /\ remover[u].phase = "settle" =>
                                      /\ remover[u].next.state # "requesting"
                                      /\ remover[u].next.gen = remover[u].gen
        BY DEF Inv, Generations
      <4> QED
        BY <1>0, <3>2, <4>1 DEF Owns
    <3> QED
      BY <3>1, <3>2
  <2>2. \A u \in Tabs : beat'[u] # None =>
          beat'[u].copy.gen <= claims' /\ beat'[u].copy.state = "deleting" /\ ~SameGeneration(u)'
    <3> TAKE u \in Tabs
    <3>1. beat[u] # None => beat[u].copy.gen <= claims /\ beat[u].copy.state = "deleting"
      BY DEF Inv, Generations
    <3> QED
      BY <1>0, <3>1 DEF SameGeneration
  <2> QED
    BY <1>0, <2>1, <2>2 DEF Generations

\* Every other step keeps the generations it finds.
LEMMA GenerationsKept ==
  ASSUME Inv, Next, \A t \in Tabs : ~ClaimIntent(t)
  PROVE  Generations'
<1>0. /\ claims' = claims
      /\ Requesting' => Requesting
      /\ deletion' # None => deletion # None /\ deletion'.gen = deletion.gen
  BY DeletionFrame
<1>1. deletion' # None => deletion'.gen <= claims'
  <2>1. deletion # None => deletion.gen <= claims
    BY DEF Inv, Generations
  <2> QED
    BY <1>0, <2>1
<1>2. ASSUME NEW t \in Tabs, remover'[t] # None
      PROVE  /\ remover'[t].gen <= claims'
             /\ remover'[t].phase = "settle" => /\ remover'[t].next.state # "requesting"
                                                /\ remover'[t].next.gen = remover'[t].gen
             /\ Working(t)' /\ Owns(t)' => ~Requesting'
  <2>0. /\ remover[t] # None /\ remover'[t].gen = remover[t].gen
        /\ Working(t)' => Working(t) \/ Start(t)
        /\ remover'[t].phase = "settle" =>
             \/ remover[t].phase = "settle" /\ remover'[t].next = remover[t].next
             \/ Complete(t) \/ Nothing(t) \/ Fail(t)
    BY <1>2, WorkFrame DEF Inv
  <2>1. /\ remover[t].gen <= claims
        /\ remover[t].phase = "settle" => /\ remover[t].next.state # "requesting"
                                          /\ remover[t].next.gen = remover[t].gen
        /\ Working(t) /\ Owns(t) => ~Requesting
    BY <2>0 DEF Inv, Generations
  <2>2. Owns(t)' => Owns(t)
    BY <1>0, <2>0 DEF Owns
  <2>3. ASSUME Start(t), Owns(t)' PROVE ~Requesting'
    <3>1. CASE deletion # None /\ deletion' = [deletion EXCEPT !.state = "deleting", !.live = TRUE]
      BY <3>1 DEF Requesting, Inv, TypeOK, Deletions
    <3>2. CASE Quit(t)
      BY <1>2, <3>2 DEF Quit, Inv, TypeOK
    <3> QED
      BY <2>3, <3>1, <3>2 DEF Start, Owns
  <2>4. ASSUME Complete(t) \/ Nothing(t) \/ Fail(t), remover'[t].phase = "settle",
               ~(remover[t].phase = "settle" /\ remover'[t].next = remover[t].next)
        PROVE  remover'[t].next.state # "requesting" /\ remover'[t].next.gen = remover'[t].gen
    <3>0. Working(t) /\ remover[t] \in Removers
      BY <2>0, <2>4 DEF Working, Complete, Nothing, Fail, Inv, TypeOK
    <3>1. ASSUME NEW d, Settling(t, d) PROVE remover'[t].next = d
      BY <3>0, <3>1 DEF Settling, Inv, TypeOK, Removers
    <3>2. ASSUME Owns(t) PROVE deletion \in Deletions /\ deletion.gen = remover[t].gen
                               /\ deletion.state # "requesting"
      BY <2>1, <3>0, <3>2 DEF Owns, Requesting, Inv, TypeOK
    <3>3. ASSUME NEW s, s # "requesting", Owns(t), Settling(t, [deletion EXCEPT !.state = s, !.live = FALSE])
          PROVE  remover'[t].next.state # "requesting" /\ remover'[t].next.gen = remover[t].gen
      BY <3>1, <3>2, <3>3 DEF Deletions
    <3>4. ASSUME Owns(t), Settling(t, [deletion EXCEPT !.live = FALSE])
          PROVE  remover'[t].next.state # "requesting" /\ remover'[t].next.gen = remover[t].gen
      BY <3>1, <3>2, <3>4 DEF Deletions
    <3>5. ASSUME NEW p, RPhase(t, p), p # "settle" PROVE FALSE
      BY <2>4, <3>0, <3>5 DEF RPhase, Inv, TypeOK, Removers
    <3>6. ~Quit(t)
      BY <1>2 DEF Quit, Inv, TypeOK
    <3>7. CASE Complete(t)
      BY <2>0, <3>3, <3>5, <3>6, <3>7 DEF Complete
    <3>8. CASE Nothing(t)
      BY <2>0, <3>3, <3>5, <3>8 DEF Nothing, Reads
    <3>9. CASE Fail(t)
      BY <2>0, <3>4, <3>6, <3>9 DEF Fail
    <3> QED
      BY <2>4, <3>7, <3>8, <3>9
  <2>5. Working(t)' /\ Owns(t)' => ~Requesting'
    BY <1>0, <2>0, <2>1, <2>2, <2>3, Zenon
  <2>6. remover'[t].gen <= claims'
    BY <1>0, <2>0, <2>1
  <2>7. remover'[t].phase = "settle" => /\ remover'[t].next.state # "requesting"
                                        /\ remover'[t].next.gen = remover'[t].gen
    BY <2>0, <2>1, <2>4
  <2> QED
    BY <2>5, <2>6, <2>7
<1>3. ASSUME NEW t \in Tabs, beat'[t] # None
      PROVE  /\ beat'[t].copy.gen <= claims' /\ beat'[t].copy.state = "deleting"
             /\ SameGeneration(t)' => ~Requesting'
  <2>1. CASE beat[t] # None /\ beat'[t].copy = beat[t].copy
    <3>1. /\ beat[t].copy.gen <= claims /\ beat[t].copy.state = "deleting"
          /\ SameGeneration(t) => ~Requesting
      BY <2>1 DEF Inv, Generations
    <3>2. SameGeneration(t)' => SameGeneration(t)
      BY <1>0, <2>1 DEF SameGeneration
    <3>3. SameGeneration(t)' => ~Requesting'
      BY <1>0, <3>1, <3>2
    <3> QED
      BY <1>0, <2>1, <3>1, <3>3
  <2>2. CASE /\ deletion # None /\ deletion' = deletion /\ deletion.state = "deleting"
             /\ beat'[t].copy = [deletion EXCEPT !.live = TRUE]
    <3>1. deletion \in Deletions /\ deletion.gen <= claims
      BY <2>2 DEF Inv, TypeOK, Generations
    <3>2. beat'[t].copy.gen <= claims' /\ beat'[t].copy.state = "deleting"
      BY <1>0, <2>2, <3>1 DEF Deletions
    <3>3. ~Requesting'
      BY <2>2 DEF Requesting
    <3> QED
      BY <3>2, <3>3
  <2> QED
    BY <1>3, <2>1, <2>2, BeatFrame DEF Inv
<1> QED
  BY <1>1, <1>2, <1>3 DEF Generations

----------------------------------------------------------------------------
(* The theorems *)

\* It holds to begin with: nothing is in hand.
LEMMA InitInv == Init => Inv
<1> SUFFICES ASSUME Init PROVE Inv
  OBVIOUS
<1>1. TypeOK
  BY InitType
<1>2. \A t \in Tabs : writer[t].phase = "idle" /\ remover[t] = None /\ beat[t] = None
  BY DEF Init, Idle
<1> QED
  BY <1>1, <1>2 DEF Inv, LeaseInHand, WritersMay, InHand, FencesApart, Generations, Init

\* Every step keeps it.
LEMMA InvNext == Inv /\ [Next]_vars => Inv'
<1> SUFFICES ASSUME Inv, [Next]_vars PROVE Inv'
  OBVIOUS
<1>1. CASE UNCHANGED vars
  BY <1>1 DEF vars, record, counts, history, Inv, TypeOK, LeaseInHand, WritersMay, InHand, Holds,
     MayWrite, FencesApart, Generations, Requesting, Working, Owns, SameGeneration
<1>2. CASE Next
  <2>1. TypeOK'
    BY NextType DEF Inv
  <2>2. LeaseInHand' /\ WritersMay'
    BY <1>2, LeaseNext, MayNext, WriterFrame DEF Inv, LeaseInHand, WritersMay
  <2>3. FencesApart'
    BY <1>2, FencesNext
  <2>4. Generations'
    BY <1>2, GenerationClaimed, GenerationsKept
  <2> QED
    BY <2>1, <2>2, <2>3, <2>4 DEF Inv
<1> QED
  BY <1>1, <1>2

\* The invariant holds throughout.
LEMMA Invariant == Spec => []Inv
<1> QED
  BY InitInv, InvNext, PTL DEF Spec

\* The record, the tabs' flows and the store keep their types.
THEOREM TypeCorrect == Spec => []TypeOK
<1>1. Inv => TypeOK
  BY DEF Inv
<1> QED
  BY <1>1, Invariant, PTL

\* A deletion adds nothing.
LEMMA RemoverAddsNothing == ASSUME NEW t \in Tabs, RemoveStep(t) PROVE cloud' \subseteq cloud
<1>1. RefreshRequest(t) \/ ClaimForDeletion(t) \/ Start(t) \/ Intend(t) => cloud' = cloud
  BY Zenon DEF RefreshRequest, ClaimForDeletion, Start, Intend
<1>2. ReadJournal(t) \/ Journal(t) \/ ReadBack(t) \/ MarkDone(t) => cloud' = cloud
  BY DEF ReadJournal, Journal, ReadBack, MarkDone
<1>3. Complete(t) \/ Nothing(t) \/ Fail(t) \/ Settle(t) => cloud' = cloud
  BY DEF Complete, Nothing, Fail, Settle
<1>4. Delete(t) => cloud' \subseteq cloud
  BY DEF Delete
<1> QED
  BY <1>1, <1>2, <1>3, <1>4 DEF RemoveStep

\* An object that a step adds, and that is not late, was in hand.
LEMMA NewObjects ==
  ASSUME Next, NEW o \in cloud' \ cloud, ~o.late
  PROVE  \E t \in Tabs : InHand(t)
<1>1. ASSUME NEW late, Store(late) PROVE o.late = late
  BY <1>1 DEF Store
<1>2. ASSUME NEW t \in Tabs, Land(t) PROVE InHand(t)
  <2>1. Store(writer[t].fence \in lapsed)
    BY <1>2 DEF Land
  <2>2. writer[t].fence \notin lapsed
    BY <1>1, <2>1
  <2> QED
    BY <1>2, <2>2 DEF Land, InHand
<1>3. ASSUME NEW fence \in adrift, Drift(fence) PROVE FALSE
  BY <1>1, <1>3 DEF Drift
<1>4. ASSUME NEW t \in Tabs, WriteStep(t) \/ ClaimWrite(t), ~Land(t) PROVE FALSE
  BY <1>4 DEF WriteStep, ClaimWrite, AfterClaim, Renew, Send, EndWrite
<1>5. ASSUME NEW t \in Tabs, \/ WriteBeat(t) \/ GiveUp(t) \/ ClaimIntent(t) \/ BeatRead(t) \/ BeatRenew(t)
                              \/ BeatWrite(t) \/ Sleep(t) \/ Reload(t)
      PROVE  FALSE
  BY <1>5 DEF WriteBeat, GiveUp, ClaimIntent, BeatRead, BeatRenew, BeatWrite, Sleep, Reload
<1>6. ASSUME Resume \/ Expire PROVE FALSE
  BY <1>6 DEF Resume, Expire
<1>7. ASSUME NEW t \in Tabs, RemoveStep(t) PROVE FALSE
  BY <1>7, RemoverAddsNothing
<1> QED
  BY <1>2, <1>3, <1>4, <1>5, <1>6, <1>7 DEF Next

\* What is in hand may be sent.
LEMMA WriteLands == Inv /\ [Next]_vars => [\A o \in cloud' \ cloud : o.late \/ MayWrite]_vars
BY NewObjects DEF Inv, WritersMay

\* No request of a write reaches the provider once a deletion has taken the
\* account, however many tabs write, delete, sleep and close, and however often.
THEOREM NoWriteLands == Spec => NoWriteIntoDeletion
<1> QED
  BY Invariant, WriteLands, PTL DEF Spec, NoWriteIntoDeletion

----------------------------------------------------------------------------
(* A deletion reported as done has left nothing.                           *)
(*                                                                         *)
(* The journal, once it lists anything, lists all that may still be there  *)
(* (Covered), and what each flow read of it stays true while its           *)
(* generation lasts (Sweeps), unless a heartbeat wrote an older journal.   *)

\* What is listed is all there is to delete, but for late requests.
Covers(d) == d.open \cup d.done # {} => \A o \in cloud : o.late \/ o \in d.open

\* Done means that all that was listed was deleted.
Over(d) == d.state = "deleted" => d.open = {} /\ d.done # {}

Covered ==
  deletion # None =>
    /\ Targets # {} => \A t \in Tabs : ~InHand(t)
    /\ ~rolledBack => Covers(deletion) /\ Over(deletion)

\* What the flow of a deletion may count on, by its step
Sweeps(t) ==
  remover[t] # None /\ Owns(t) /\ ~rolledBack =>
    /\ remover[t].phase = "journal" => \A o \in cloud : o.late \/ o \in remover[t].todo
    /\ remover[t].phase \in {"delete", "send", "mark"} => Targets # {}
    /\ remover[t].phase = "mark" => \A o \in cloud : o.late \/ o # remover[t].target
    /\ remover[t].phase = "settle" => Covers(remover[t].next) /\ Over(remover[t].next)

\* No two flows have one generation.
GensApart ==
  \A t, u \in Tabs : t # u /\ remover[t] # None /\ remover[u] # None => remover[t].gen # remover[u].gen

SweepInv == Inv /\ GensApart /\ Covered /\ \A t \in Tabs : Sweeps(t)

\* The journal is as it was; only its lease or its state moved on.
SameJournal ==
  /\ deletion # None /\ deletion' # None
  /\ deletion'.gen = deletion.gen /\ deletion'.op = deletion.op
  /\ deletion'.open = deletion.open /\ deletion'.done = deletion.done
  /\ deletion'.state = "deleted" => deletion.state = "deleted"

\* The ways a step treats the record of the deletion
DeletionWays ==
  \/ deletion' = None
  \/ \E u \in Tabs : ClaimIntent(u)
  \/ SameJournal
  \/ \E u \in Tabs : remover[u] # None /\ Commands(u) /\ (Journal(u) \/ Intend(u) \/ MarkDone(u))
  \/ \E u \in Tabs : remover[u] # None /\ Settle(u) /\ Owns(u) /\ deletion' = remover[u].next
  \/ \E u \in Tabs : BeatWrite(u) /\ SameGeneration(u) /\ deletion' = beat[u].copy /\ rolledBack'

LEMMA DeletionSteps ==
  ASSUME Inv, Next
  PROVE  DeletionWays
<1> USE DEF record
<1>0. deletion # None => deletion \in Deletions
  BY DEF Inv, TypeOK
<1>1. ASSUME deletion' = deletion PROVE deletion' = None \/ SameJournal
  BY <1>1 DEF SameJournal
<1>2. ASSUME NEW l, deletion # None, deletion' = [deletion EXCEPT !.live = l]
      PROVE  deletion' = None \/ SameJournal
  BY <1>0, <1>2 DEF SameJournal, Deletions
<1>3. ASSUME deletion # None, deletion' = [deletion EXCEPT !.state = "deleting", !.live = TRUE]
      PROVE  deletion' = None \/ SameJournal
  BY <1>0, <1>3 DEF SameJournal, Deletions
<1>4. ASSUME NEW u \in Tabs, ClaimWrite(u) \/ WriteStep(u) \/ WriteBeat(u) \/ GiveUp(u) PROVE DeletionWays
  <2>1. deletion' = deletion
    BY <1>4 DEF ClaimWrite, WriteStep, AfterClaim, Renew, Send, Land, EndWrite, WriteBeat, GiveUp
  <2> QED
    BY <1>1, <2>1 DEF DeletionWays
<1>5. ASSUME NEW u \in Tabs, RemoveStep(u) PROVE DeletionWays
  <2>0. remover[u] # None
    BY <1>5 DEF RemoveStep
  <2>1. CASE RefreshRequest(u)
    BY <1>1, <1>2, <2>1 DEF DeletionWays, RefreshRequest, Owns
  <2>2. CASE Start(u)
    BY <1>1, <1>3, <2>2 DEF DeletionWays, Start, Owns
  <2>3. CASE ClaimForDeletion(u) \/ ReadJournal(u) \/ ReadBack(u) \/ Delete(u) \/ Complete(u) \/ Nothing(u)
             \/ Fail(u)
    <3>1. deletion' = deletion
      BY <2>3 DEF ClaimForDeletion, ReadJournal, ReadBack, Delete, Complete, Nothing, Fail
    <3> QED
      BY <1>1, <3>1 DEF DeletionWays
  <2>4. CASE Journal(u) \/ Intend(u) \/ MarkDone(u)
    <3>1. CASE Commands(u)
      BY <2>0, <2>4, <3>1 DEF DeletionWays
    <3>2. CASE ~Commands(u)
      <4>1. Journal(u) => deletion' = deletion
        BY <3>2 DEF Journal
      <4>2. Intend(u) => deletion' = deletion
        BY <3>2, Zenon DEF Intend
      <4>3. MarkDone(u) => deletion' = deletion
        BY <3>2 DEF MarkDone
      <4> QED
        BY <1>1, <2>4, <4>1, <4>2, <4>3 DEF DeletionWays
    <3> QED
      BY <3>1, <3>2
  <2>5. CASE Settle(u)
    <3>1. deletion' = deletion \/ (Owns(u) /\ deletion' = remover[u].next)
      BY <2>5 DEF Settle
    <3> QED
      BY <1>1, <2>0, <2>5, <3>1 DEF DeletionWays
  <2> QED
    BY <1>5, <2>1, <2>2, <2>3, <2>4, <2>5 DEF RemoveStep
<1>6. ASSUME NEW u \in Tabs, BeatRead(u) \/ BeatRenew(u) \/ Reload(u) PROVE DeletionWays
  <2>1. deletion' = deletion
    BY <1>6 DEF BeatRead, BeatRenew, Reload
  <2> QED
    BY <1>1, <2>1 DEF DeletionWays
<1>7. ASSUME NEW u \in Tabs, BeatWrite(u) PROVE DeletionWays
  <2>1. CASE ~SameGeneration(u)
    BY <1>1, <1>7, <2>1 DEF DeletionWays, BeatWrite
  <2>2. CASE SameGeneration(u)
    <3>1. /\ deletion # None /\ deletion' = beat[u].copy
          /\ rolledBack' = (rolledBack \/ [deletion EXCEPT !.live = TRUE] # beat[u].copy)
      BY <1>7, <2>2 DEF BeatWrite, SameGeneration
    <3>2. CASE [deletion EXCEPT !.live = TRUE] # beat[u].copy
      BY <1>7, <2>2, <3>1, <3>2 DEF DeletionWays
    <3>3. CASE deletion' = [deletion EXCEPT !.live = TRUE]
      BY <1>2, <3>1, <3>3 DEF DeletionWays
    <3> QED
      BY <3>1, <3>2, <3>3
  <2> QED
    BY <2>1, <2>2
<1>8. ASSUME NEW u \in Tabs, Sleep(u) PROVE DeletionWays
  <2>1. deletion' = deletion \/ (deletion # None /\ deletion' = [deletion EXCEPT !.live = FALSE])
    BY <1>8 DEF Sleep, Pending
  <2> QED
    BY <1>1, <1>2, <2>1 DEF DeletionWays
<1>9. CASE Expire
  <2>1. deletion' = deletion \/ (deletion # None /\ deletion' = [deletion EXCEPT !.live = FALSE])
    BY <1>9 DEF Expire, Pending
  <2> QED
    BY <1>1, <1>2, <2>1 DEF DeletionWays
<1>10. CASE Resume \/ \E fence \in adrift : Drift(fence)
  BY <1>1, <1>10 DEF DeletionWays, Resume, Drift
<1>11. ASSUME NEW u \in Tabs, ClaimIntent(u) PROVE DeletionWays
  BY <1>11 DEF DeletionWays
<1> QED
  BY <1>4, <1>5, <1>6, <1>7, <1>8, <1>9, <1>10, <1>11 DEF Next

\* A flow is where it was.
SameWork(t) ==
  /\ remover[t] # None /\ remover'[t] # None
  /\ remover'[t].phase = remover[t].phase /\ remover'[t].gen = remover[t].gen
  /\ remover'[t].op = remover[t].op /\ remover'[t].todo = remover[t].todo
  /\ remover'[t].target = remover[t].target /\ remover'[t].next = remover[t].next

\* A flow that has still to take the account
Takes(t) ==
  /\ remover[t] # None /\ remover'[t] # None
  /\ remover'[t].phase \in {"drain", "claim", "start", "read"}
  /\ remover'[t].gen = remover[t].gen /\ remover'[t].op = remover[t].op
  /\ remover'[t].todo = remover[t].todo

\* The ways a step treats the flow of a deletion
RemoverWays(t) ==
  \/ remover'[t] = None
  \/ ClaimIntent(t)
  \/ SameWork(t)
  \/ Takes(t)
  \/ /\ remover[t] # None
     /\ \/ ReadJournal(t) \/ Journal(t) \/ ReadBack(t) \/ Intend(t) \/ Delete(t) \/ MarkDone(t)
        \/ Complete(t) \/ Nothing(t) \/ Fail(t)

LEMMA RemoverSteps ==
  ASSUME TypeOK, Next, NEW t \in Tabs
  PROVE  RemoverWays(t)
<1>0. remover \in [Tabs -> Removers \cup {None}]
  BY DEF TypeOK
<1>1. ASSUME remover'[t] = remover[t] PROVE remover'[t] = None \/ SameWork(t)
  BY <1>1 DEF SameWork
<1>2. ASSUME NEW u \in Tabs, Quit(u) PROVE remover'[t] = None \/ SameWork(t)
  BY <1>0, <1>1, <1>2 DEF Quit
<1>3. ASSUME NEW u \in Tabs, Lose(u) PROVE remover'[t] = None \/ SameWork(t)
  <2>1. CASE u = t /\ remover[t] # None
    <3>1. remover[t] \in Removers /\ remover'[t] = [remover[t] EXCEPT !.lost = TRUE]
      BY <1>0, <1>3, <2>1 DEF Lose
    <3>2. remover'[t] \in Removers
      BY <3>1 DEF Removers
    <3>3. /\ remover'[t].phase = remover[t].phase /\ remover'[t].gen = remover[t].gen
          /\ remover'[t].op = remover[t].op /\ remover'[t].todo = remover[t].todo
          /\ remover'[t].target = remover[t].target /\ remover'[t].next = remover[t].next
      BY <3>1 DEF Removers
    <3> QED
      BY <2>1, <3>3 DEF SameWork
  <2>2. CASE u # t \/ remover[t] = None
    BY <1>1, <1>3, <2>2 DEF Lose
  <2> QED
    BY <2>1, <2>2
<1>4. ASSUME NEW u \in Tabs, ClaimWrite(u) \/ WriteStep(u) \/ WriteBeat(u) \/ GiveUp(u) PROVE RemoverWays(t)
  <2>1. remover' = remover
    BY <1>4 DEF ClaimWrite, WriteStep, AfterClaim, Renew, Send, Land, EndWrite, WriteBeat, GiveUp
  <2> QED
    BY <1>1, <2>1 DEF RemoverWays
<1>5. ASSUME NEW u \in Tabs, RemoveStep(u), u # t PROVE RemoverWays(t)
  <2>1. ASSUME NEW r, remover' = [remover EXCEPT ![u] = r] PROVE remover'[t] = remover[t]
    BY <1>0, <1>5, <2>1
  <2>2. RefreshRequest(u) \/ ClaimForDeletion(u) \/ Start(u) => remover'[t] = remover[t]
    BY <2>1 DEF RefreshRequest, ClaimForDeletion, Start, Quit, RPhase
  <2>3. ReadJournal(u) \/ Journal(u) \/ ReadBack(u) => remover'[t] = remover[t]
    BY <2>1 DEF ReadJournal, Journal, ReadBack, RPhase
  <2>4. Delete(u) \/ MarkDone(u) => remover'[t] = remover[t]
    BY <2>1 DEF Delete, MarkDone, RPhase
  <2>6. Intend(u) => remover'[t] = remover[t]
    <3>1. ASSUME NEW o, remover' = [remover EXCEPT ![u].phase = "send", ![u].target = o,
                                                   ![u].todo = @ \ {o}]
          PROVE  remover'[t] = remover[t]
      BY <1>0, <1>5, <3>1
    <3>2. ASSUME NEW p, RPhase(u, p) PROVE remover'[t] = remover[t]
      BY <2>1, <3>2 DEF RPhase
    <3> QED
      BY <3>1, <3>2, Zenon DEF Intend
  <2>5. Complete(u) \/ Nothing(u) \/ Fail(u) \/ Settle(u) => remover'[t] = remover[t]
    BY <2>1 DEF Complete, Nothing, Fail, Settle, Settling, Quit, RPhase
  <2> QED
    BY <1>1, <1>5, <2>2, <2>3, <2>4, <2>5, <2>6 DEF RemoverWays, RemoveStep
<1>6. ASSUME RemoveStep(t) PROVE RemoverWays(t)
  <2>0. remover[t] # None /\ remover[t] \in Removers
    BY <1>0, <1>6 DEF RemoveStep
  <2>1. ASSUME NEW p \in {"drain", "claim", "read"}, RPhase(t, p) PROVE RemoverWays(t)
    <3>1. remover'[t] = [remover[t] EXCEPT !.phase = p]
      BY <1>0, <2>1 DEF RPhase
    <3>2. /\ remover'[t].phase = p /\ remover'[t].gen = remover[t].gen /\ remover'[t].op = remover[t].op
          /\ remover'[t].todo = remover[t].todo
      BY <2>0, <3>1 DEF Removers
    <3> QED
      BY <2>0, <3>2 DEF Takes, RemoverWays
  <2>2. CASE RefreshRequest(t)
    BY <1>2, <2>1, <2>2 DEF RefreshRequest, RemoverWays
  <2>3. CASE Start(t)
    BY <1>2, <2>1, <2>3 DEF Start, RemoverWays
  <2>4. CASE ClaimForDeletion(t)
    <3>1. ASSUME remover' = [remover EXCEPT ![t].phase = "start", ![t].fence = lease.fence + 1]
          PROVE  RemoverWays(t)
      <4>1. /\ remover'[t].phase = "start" /\ remover'[t].gen = remover[t].gen
            /\ remover'[t].op = remover[t].op /\ remover'[t].todo = remover[t].todo
        BY <1>0, <2>0, <3>1 DEF Removers
      <4> QED
        BY <2>0, <4>1 DEF Takes, RemoverWays
    <3> QED
      BY <2>1, <2>4, <3>1 DEF ClaimForDeletion
  <2>5. CASE Settle(t)
    BY <1>2, <2>5 DEF Settle, RemoverWays
  <2> QED
    BY <1>6, <2>0, <2>2, <2>3, <2>4, <2>5 DEF RemoveStep, RemoverWays
<1>7. ASSUME NEW u \in Tabs, BeatRead(u) \/ BeatRenew(u) \/ BeatWrite(u) \/ Reload(u) PROVE RemoverWays(t)
  BY <1>1, <1>2, <1>3, <1>7 DEF BeatRead, BeatRenew, BeatWrite, Reload, RemoverWays
<1>8. CASE (\E u \in Tabs : Sleep(u)) \/ (\E fence \in adrift : Drift(fence)) \/ Resume \/ Expire
  <2>1. remover' = remover
    BY <1>8 DEF Sleep, Drift, Resume, Expire
  <2> QED
    BY <1>1, <2>1 DEF RemoverWays
<1>9. ASSUME NEW u \in Tabs, ClaimIntent(u) PROVE RemoverWays(t)
  <2>1. CASE u = t
    BY <1>9, <2>1 DEF RemoverWays
  <2>2. CASE u # t
    <3>1. remover'[t] = remover[t]
      BY <1>0, <1>9, <2>2 DEF ClaimIntent
    <3> QED
      BY <1>1, <3>1 DEF RemoverWays
  <2> QED
    BY <2>1, <2>2
<1> QED
  BY <1>4, <1>5, <1>6, <1>7, <1>8, <1>9 DEF Next

----------------------------------------------------------------------------

\* Once nothing is in hand, what arrives is late: a set that holds the rest of
\* what the provider stores keeps holding it.
LEMMA StillLate ==
  ASSUME Next, \A t \in Tabs : ~InHand(t), NEW S, \A o \in cloud : o.late \/ o \in S
  PROVE  \A o \in cloud' : o.late \/ o \in S
BY NewObjects

\* Nothing comes in hand while there is a deletion.
LEMMA NoneInHand ==
  ASSUME TypeOK, Next, deletion # None, \A t \in Tabs : ~InHand(t)
  PROVE  \A t \in Tabs : ~InHand(t)'
<1> SUFFICES ASSUME NEW t \in Tabs PROVE ~InHand(t)'
  OBVIOUS
<1>1. ~ClaimWrite(t)
  BY DEF ClaimWrite
<1> QED
  BY <1>1, WriterFrame

\* Nothing is in hand while a deletion has command.
LEMMA NoWriters ==
  ASSUME Inv, deletion # None, ~Requesting
  PROVE  \A t \in Tabs : ~InHand(t)
<1> SUFFICES ASSUME NEW t \in Tabs, InHand(t) PROVE FALSE
  BY Zenon
<1>1. MayWrite
  BY DEF Inv, WritersMay
<1> QED
  BY <1>1 DEF MayWrite, Requesting

LEMMA Commanding ==
  ASSUME Inv, NEW t \in Tabs, Working(t), Owns(t)
  PROVE  deletion # None /\ \A u \in Tabs : ~InHand(u)
<1>1. deletion # None /\ remover[t] # None
  BY DEF Owns, Working
<1>2. ~Requesting
  BY <1>1 DEF Inv, Generations
<1> QED
  BY <1>1, <1>2, NoWriters

\* A heartbeat's fault is remembered.
LEMMA RolledFrame == ASSUME Next, rolledBack PROVE rolledBack'
<1> USE DEF history
<1>1. CASE \E u \in Tabs : ClaimWrite(u) \/ WriteStep(u) \/ WriteBeat(u) \/ GiveUp(u)
  BY <1>1 DEF ClaimWrite, WriteStep, AfterClaim, Renew, Send, Land, EndWrite, WriteBeat, GiveUp
<1>2. CASE \E u \in Tabs : ClaimIntent(u) \/ RemoveStep(u)
  <2>1. ASSUME NEW u \in Tabs, Intend(u) PROVE rolledBack'
    BY <2>1, Zenon DEF Intend
  <2> QED
    BY <1>2, <2>1 DEF ClaimIntent, RemoveStep, RefreshRequest, ClaimForDeletion, Start, ReadJournal,
       Journal, ReadBack, Delete, MarkDone, Complete, Nothing, Fail, Settle
<1>3. CASE \E u \in Tabs : BeatRead(u) \/ BeatRenew(u) \/ BeatWrite(u) \/ Sleep(u) \/ Reload(u)
  BY <1>3 DEF BeatRead, BeatRenew, BeatWrite, Sleep, Reload
<1>4. CASE (\E fence \in adrift : Drift(fence)) \/ Resume \/ Expire
  BY <1>4 DEF Drift, Resume, Expire
<1> QED
  BY <1>1, <1>2, <1>3, <1>4 DEF Next

\* A request for a deletion begins a generation above every other, and leaves
\* the journal, the provider and the writes as they are.
LEMMA ClaimedFlow ==
  ASSUME Inv, NEW t \in Tabs, ClaimIntent(t)
  PROVE  /\ remover[t] = None /\ remover'[t].phase = "drain" /\ remover'[t].gen = claims + 1
         /\ \A u \in Tabs : u # t => remover'[u] = remover[u]
         /\ deletion'.gen = claims + 1 /\ deletion'.state = "requesting"
         /\ \/ deletion'.open = {} /\ deletion'.done = {}
            \/ deletion # None /\ deletion'.open = deletion.open /\ deletion'.done = deletion.done
         /\ UNCHANGED <<cloud, writer, history>>
<1>1. /\ remover[t] = None /\ UNCHANGED <<cloud, writer, history>>
      /\ remover' = [remover EXCEPT ![t] =
           [phase |-> "drain", op |-> deletion'.op, gen |-> claims + 1, fence |-> 0,
            todo |-> {}, target |-> None, next |-> None, lost |-> FALSE]]
  BY DEF ClaimIntent
<1>2. remover'[t].phase = "drain" /\ remover'[t].gen = claims + 1
      /\ \A u \in Tabs : u # t => remover'[u] = remover[u]
  BY <1>1 DEF Inv, TypeOK
<1>3. CASE deletion' = [op |-> era + 1, gen |-> claims + 1, state |-> "requesting",
                        live |-> TRUE, open |-> {}, done |-> {}]
  BY <1>1, <1>2, <1>3
<1>4. CASE /\ Pending
           /\ deletion' = [deletion EXCEPT !.gen = claims + 1, !.state = "requesting", !.live = TRUE]
  <2>1. deletion \in Deletions /\ deletion # None
    BY <1>4 DEF Pending, Inv, TypeOK
  <2>2. /\ deletion'.gen = claims + 1 /\ deletion'.state = "requesting"
        /\ deletion'.open = deletion.open /\ deletion'.done = deletion.done
    BY <1>4, <2>1 DEF Deletions
  <2> QED
    BY <1>1, <1>2, <2>1, <2>2
<1> QED
  BY <1>3, <1>4 DEF ClaimIntent

\* A step that is no claim leaves a flow its generation, and the deletion its own.
LEMMA StillOwned ==
  ASSUME Inv, Next, NEW t \in Tabs, ~ClaimIntent(t), remover'[t] # None, Owns(t)'
  PROVE  /\ remover[t] # None /\ Owns(t) /\ deletion' # None
         /\ \A u \in Tabs : ~ClaimIntent(u)
<1>1. remover[t] # None /\ remover'[t].gen = remover[t].gen
  BY WorkFrame DEF Inv
<1>2. deletion' # None /\ deletion'.gen = remover[t].gen
  BY <1>1 DEF Owns
<1>3. ASSUME NEW u \in Tabs, ClaimIntent(u) PROVE FALSE
  <2>1. deletion'.gen = claims + 1
    BY <1>3, ClaimedFlow
  <2>2. remover[t].gen <= claims
    BY <1>1 DEF Inv, Generations
  <2>3. claims \in Nat
    BY Bounds DEF Inv, TypeOK
  <2>4. remover[t].gen \in Nat
    BY <1>1 DEF Inv, TypeOK, Removers
  <2> QED
    BY <1>2, <2>1, <2>2, <2>3, <2>4
<1>4. deletion # None /\ deletion'.gen = deletion.gen
  BY <1>2, <1>3, DeletionFrame
<1> QED
  BY <1>1, <1>2, <1>3, <1>4 DEF Owns

\* No two flows ever have one generation.
LEMMA GensNext == ASSUME Inv, GensApart, Next PROVE GensApart'
<1> SUFFICES ASSUME NEW t \in Tabs, NEW u \in Tabs, t # u, remover'[t] # None, remover'[u] # None
             PROVE  remover'[t].gen # remover'[u].gen
  BY DEF GensApart
<1>1. ASSUME NEW v \in Tabs, NEW w \in Tabs, v # w, remover'[w] # None, ClaimIntent(v)
      PROVE  remover'[v].gen # remover'[w].gen
  <2>1. remover'[v].gen = claims + 1 /\ remover'[w] = remover[w]
    BY <1>1, ClaimedFlow
  <2>2. remover[w].gen <= claims /\ remover[w].gen \in Nat
    BY <1>1, <2>1 DEF Inv, Generations, TypeOK, Removers
  <2>3. claims \in Nat
    BY Bounds DEF Inv, TypeOK
  <2> QED
    BY <2>1, <2>2, <2>3
<1>2. CASE ClaimIntent(t) \/ ClaimIntent(u)
  BY <1>1, <1>2
<1>3. CASE ~ClaimIntent(t) /\ ~ClaimIntent(u)
  <2>1. remover[t] # None /\ remover'[t].gen = remover[t].gen
    BY <1>3, WorkFrame DEF Inv
  <2>2. remover[u] # None /\ remover'[u].gen = remover[u].gen
    BY <1>3, WorkFrame DEF Inv
  <2> QED
    BY <2>1, <2>2 DEF GensApart
<1> QED
  BY <1>2, <1>3

\* The journal goes on covering what may still be there.
LEMMA CoveredNext ==
  ASSUME SweepInv, Next
  PROVE  Covered'
<1> Inv /\ TypeOK /\ GensApart /\ Covered
  BY DEF SweepInv, Inv
<1> SUFFICES ASSUME deletion' # None
             PROVE  /\ Targets' # {} => \A t \in Tabs : ~InHand(t)'
                    /\ ~rolledBack' => Covers(deletion)' /\ Over(deletion)'
  BY DEF Covered
<1> DEFINE Safe == /\ Targets' # {} => \A t \in Tabs : ~InHand(t)'
                   /\ ~rolledBack' => Covers(deletion)' /\ Over(deletion)'
<1>0. deletion # None => deletion \in Deletions
  BY DEF TypeOK
<1>1. ASSUME NEW u \in Tabs, ClaimIntent(u) PROVE Safe
  <2>1. UNCHANGED <<cloud, writer, history>> /\ deletion'.state = "requesting"
    BY <1>1, ClaimedFlow
  <2>2. Over(deletion)'
    BY <2>1 DEF Over
  <2>3. CASE deletion'.open = {} /\ deletion'.done = {}
    <3>1. Targets' = {}
      BY <2>3 DEF Targets
    <3>2. Covers(deletion)'
      BY <2>3 DEF Covers
    <3> QED
      BY <2>2, <3>1, <3>2
  <2>4. CASE deletion # None /\ deletion'.open = deletion.open /\ deletion'.done = deletion.done
    <3>1. Targets' = Targets
      BY <2>4 DEF Targets
    <3>2. \A t \in Tabs : InHand(t)' => InHand(t)
      BY <2>1 DEF InHand, history
    <3>3. Covers(deletion) => Covers(deletion)'
      BY <2>1, <2>4 DEF Covers
    <3>4. rolledBack' = rolledBack
      BY <2>1 DEF history
    <3> QED
      BY <2>2, <2>4, <3>1, <3>2, <3>3, <3>4 DEF Covered
  <2> QED
    BY <1>1, <2>3, <2>4, ClaimedFlow
<1>2. ASSUME SameJournal PROVE Safe
  <2>1. deletion # None /\ Targets' = Targets
    BY <1>2 DEF SameJournal, Targets
  <2>2. CASE Targets = {}
    BY <1>2, <2>1, <2>2, RolledFrame DEF Covered, SameJournal, Covers, Over, Targets
  <2>3. CASE Targets # {}
    <3>1. \A t \in Tabs : ~InHand(t)
      BY <2>1, <2>3 DEF Covered
    <3>2. \A t \in Tabs : ~InHand(t)'
      BY <2>1, <3>1, NoneInHand
    <3>3. ASSUME ~rolledBack' PROVE Covers(deletion)' /\ Over(deletion)'
      <4>1. Covers(deletion) /\ Over(deletion)
        BY <2>1, <3>3, RolledFrame DEF Covered
      <4>2. \A o \in cloud : o.late \/ o \in deletion.open
        BY <2>3, <4>1 DEF Covers, Targets
      <4>3. \A o \in cloud' : o.late \/ o \in deletion.open
        BY <3>1, <4>2, StillLate
      <4> QED
        BY <1>2, <4>1, <4>3 DEF SameJournal, Covers, Over
    <3> QED
      BY <3>2, <3>3
  <2> QED
    BY <2>2, <2>3
<1>3. ASSUME NEW u \in Tabs, remover[u] # None, Commands(u), Journal(u) \/ Intend(u) \/ MarkDone(u)
      PROVE  Safe
  <2>1. Working(u) /\ Owns(u) /\ deletion.state = "deleting"
    <3>1. remover[u].phase \in {"journal", "delete", "mark"}
      BY <1>3, Zenon DEF Journal, Intend, MarkDone
    <3> QED
      BY <1>3, <3>1 DEF Working, Commands
  <2>2. deletion # None /\ \A t \in Tabs : ~InHand(t)
    BY <2>1, Commanding
  <2>3. \A t \in Tabs : ~InHand(t)'
    BY <2>2, NoneInHand
  <2>4. deletion \in Deletions
    BY <1>0, <2>2
  <2>5. cloud' = cloud /\ rolledBack' = rolledBack
    <3>1. Intend(u) => cloud' = cloud /\ rolledBack' = rolledBack
      BY Zenon DEF Intend, history
    <3> QED
      BY <1>3, <3>1 DEF Journal, MarkDone, history
  <2>6. ASSUME ~rolledBack' PROVE Covers(deletion)' /\ Over(deletion)'
    <3>1. Covers(deletion) /\ Sweeps(u)
      BY <2>2, <2>5, <2>6 DEF Covered, SweepInv
    <3>2. CASE Journal(u)
      <4>1. \A o \in cloud : o.late \/ o \in remover[u].todo
        BY <1>3, <2>1, <2>5, <2>6, <3>1, <3>2 DEF Sweeps, Journal
      <4>2. CASE deletion' = [deletion EXCEPT !.open = remover[u].todo]
        <5>1. deletion'.open = remover[u].todo /\ deletion'.state = "deleting"
          BY <2>1, <2>4, <4>2 DEF Deletions
        <5> QED
          BY <2>5, <4>1, <5>1 DEF Covers, Over
      <4>3. CASE deletion' = deletion
        BY <2>1, <2>5, <3>1, <4>3 DEF Covers, Over
      <4> QED
        BY <3>2, <4>2, <4>3 DEF Journal
    <3>3. CASE Intend(u)
      <4>1. Targets # {}
        <5>1. remover[u].phase = "delete"
          BY <3>3, Zenon DEF Intend
        <5> QED
          BY <1>3, <2>1, <2>5, <2>6, <3>1, <5>1 DEF Sweeps
      <4>2. \A o \in cloud : o.late \/ o \in deletion.open
        BY <3>1, <4>1 DEF Covers, Targets
      <4>3. ASSUME NEW o, deletion' = [deletion EXCEPT !.open = @ \cup ({o} \ deletion.done)]
            PROVE  deletion.open \subseteq deletion'.open /\ deletion'.state = "deleting"
        BY <2>1, <2>4, <4>3 DEF Deletions
      <4>4. deletion.open \subseteq deletion'.open /\ deletion'.state = "deleting"
        <5>1. deletion' = deletion => deletion.open \subseteq deletion'.open /\ deletion'.state = "deleting"
          BY <2>1
        <5> QED
          BY <3>3, <4>3, <5>1, Zenon DEF Intend
      <4> QED
        BY <2>5, <4>2, <4>4 DEF Covers, Over
    <3>4. CASE MarkDone(u)
      <4>1. CASE deletion' = deletion
        BY <2>1, <2>5, <3>1, <4>1 DEF Covers, Over
      <4>2. CASE /\ remover[u].target \in Targets
                 /\ deletion' = [deletion EXCEPT !.open = @ \ {remover[u].target},
                                                 !.done = @ \cup {remover[u].target}]
        <5>1. deletion'.open = deletion.open \ {remover[u].target} /\ deletion'.state = "deleting"
          BY <2>1, <2>4, <4>2 DEF Deletions
        <5>2. \A o \in cloud : o.late \/ o # remover[u].target
          BY <1>3, <2>1, <2>5, <2>6, <3>1, <3>4 DEF Sweeps, MarkDone
        <5>3. \A o \in cloud : o.late \/ o \in deletion.open
          BY <3>1, <4>2 DEF Covers, Targets
        <5> QED
          BY <2>5, <5>1, <5>2, <5>3 DEF Covers, Over
      <4> QED
        BY <3>4, <4>1, <4>2 DEF MarkDone
    <3> QED
      BY <1>3, <3>2, <3>3, <3>4
  <2> QED
    BY <2>3, <2>6
<1>4. ASSUME NEW u \in Tabs, remover[u] # None, Settle(u), Owns(u), deletion' = remover[u].next
      PROVE  Safe
  <2>1. Working(u) /\ cloud' = cloud /\ rolledBack' = rolledBack /\ remover[u].phase = "settle"
    BY <1>4 DEF Working, Settle, history
  <2>2. deletion # None /\ \A t \in Tabs : ~InHand(t)
    BY <1>4, <2>1, Commanding
  <2>3. \A t \in Tabs : ~InHand(t)'
    BY <2>2, NoneInHand
  <2>4. ~rolledBack => Covers(remover[u].next) /\ Over(remover[u].next)
    BY <1>4, <2>1 DEF SweepInv, Sweeps
  <2> QED
    BY <1>4, <2>1, <2>3, <2>4 DEF Covers, Over
<1>5. ASSUME NEW u \in Tabs, BeatWrite(u), SameGeneration(u), rolledBack' PROVE Safe
  <2>1. deletion # None /\ ~Requesting
    <3>1. beat[u] # None
      BY <1>5 DEF BeatWrite
    <3> QED
      BY <1>5, <3>1 DEF Inv, Generations, SameGeneration
  <2>2. \A t \in Tabs : ~InHand(t)
    BY <2>1, NoWriters
  <2>3. \A t \in Tabs : ~InHand(t)'
    BY <2>1, <2>2, NoneInHand
  <2> QED
    BY <1>5, <2>3
<1> QED
  BY <1>1, <1>2, <1>3, <1>4, <1>5, DeletionSteps DEF DeletionWays

\* A deletion that still commands keeps its journal, once it has one.
LEMMA TargetsKept ==
  ASSUME SweepInv, Next, NEW t \in Tabs, SameWork(t), Owns(t)', ~rolledBack', Targets # {}
  PROVE  Targets' # {}
<1> Inv /\ TypeOK /\ GensApart
  BY DEF SweepInv, Inv
<1>0. remover[t] # None /\ remover'[t] # None /\ remover'[t].phase = remover[t].phase
  BY DEF SameWork
<1>1. ~ClaimIntent(t)
  BY <1>0 DEF ClaimIntent
<1>2. Owns(t) /\ deletion' # None /\ \A u \in Tabs : ~ClaimIntent(u)
  BY <1>0, <1>1, StillOwned
<1>3. CASE SameJournal
  BY <1>3 DEF SameJournal, Targets
<1>4. ASSUME NEW u \in Tabs, Commands(u), Journal(u) \/ Intend(u) \/ MarkDone(u) PROVE Targets' # {}
  <2>1. deletion \in Deletions
    BY <1>2 DEF TypeOK, Owns
  <2>2. CASE Journal(u)
    BY <2>2 DEF Journal, Targets
  <2>3. CASE Intend(u)
    <3>1. ASSUME NEW o, deletion' = [deletion EXCEPT !.open = @ \cup ({o} \ deletion.done)]
          PROVE  Targets' # {}
      <4>1. deletion.open \subseteq deletion'.open /\ deletion'.done = deletion.done
        BY <2>1, <3>1 DEF Deletions
      <4> QED
        BY <4>1 DEF Targets
    <3>2. deletion' = deletion => Targets' # {}
      BY DEF Targets
    <3> QED
      BY <2>3, <3>1, <3>2, Zenon DEF Intend
  <2>4. CASE MarkDone(u)
    <3>1. CASE deletion' = deletion
      BY <3>1 DEF Targets
    <3>2. CASE deletion' = [deletion EXCEPT !.open = @ \ {remover[u].target},
                                            !.done = @ \cup {remover[u].target}]
      <4>1. deletion'.done = deletion.done \cup {remover[u].target}
        BY <2>1, <3>2 DEF Deletions
      <4> QED
        BY <4>1 DEF Targets
    <3> QED
      BY <2>4, <3>1, <3>2 DEF MarkDone
  <2> QED
    BY <1>4, <2>2, <2>3, <2>4
<1>5. ASSUME NEW u \in Tabs, remover[u] # None, Settle(u), Owns(u) PROVE FALSE
  <2>1. u = t
    BY <1>0, <1>2, <1>5 DEF GensApart, Owns
  <2>2. remover'[u] = None
    BY <1>5 DEF Settle, Quit, TypeOK
  <2> QED
    BY <1>0, <2>1, <2>2
<1>6. CASE \E u \in Tabs : BeatWrite(u) /\ SameGeneration(u) /\ deletion' = beat[u].copy /\ rolledBack'
  BY <1>6, Zenon
<1> QED
  BY <1>2, <1>3, <1>4, <1>5, <1>6, DeletionSteps DEF DeletionWays

\* A flow that goes on keeps what it may count on.
LEMMA SweepsKept ==
  ASSUME SweepInv, Next, NEW t \in Tabs, SameWork(t)
  PROVE  Sweeps(t)'
<1> Inv
  BY DEF SweepInv
<1> SUFFICES ASSUME remover'[t] # None, Owns(t)', ~rolledBack'
             PROVE  /\ remover'[t].phase = "journal" => \A o \in cloud' : o.late \/ o \in remover'[t].todo
                    /\ remover'[t].phase \in {"delete", "send", "mark"} => Targets' # {}
                    /\ remover'[t].phase = "mark" => \A o \in cloud' : o.late \/ o # remover'[t].target
                    /\ remover'[t].phase = "settle" => Covers(remover[t].next)' /\ Over(remover[t].next)'
  BY DEF Sweeps
<1>0. /\ remover[t] # None
      /\ remover'[t].phase = remover[t].phase /\ remover'[t].todo = remover[t].todo
      /\ remover'[t].target = remover[t].target /\ remover'[t].next = remover[t].next
  BY DEF SameWork
<1>1. ~ClaimIntent(t)
  BY <1>0 DEF ClaimIntent
<1>2. Owns(t) /\ ~rolledBack
  BY <1>1, StillOwned, RolledFrame
<1>3. /\ remover[t].phase = "journal" => \A o \in cloud : o.late \/ o \in remover[t].todo
      /\ remover[t].phase \in {"delete", "send", "mark"} => Targets # {}
      /\ remover[t].phase = "mark" => \A o \in cloud : o.late \/ o # remover[t].target
      /\ remover[t].phase = "settle" => Covers(remover[t].next) /\ Over(remover[t].next)
  BY <1>0, <1>2 DEF SweepInv, Sweeps
<1>4. remover[t].phase \in {"journal", "mark", "settle"} => \A u \in Tabs : ~InHand(u)
  BY <1>0, <1>2, Commanding DEF Working
<1>5. ASSUME remover'[t].phase = "journal" PROVE \A o \in cloud' : o.late \/ o \in remover'[t].todo
  BY <1>0, <1>3, <1>4, <1>5, StillLate
<1>6. ASSUME remover'[t].phase \in {"delete", "send", "mark"} PROVE Targets' # {}
  BY <1>0, <1>3, <1>6, TargetsKept
<1>7. ASSUME remover'[t].phase = "mark" PROVE \A o \in cloud' : o.late \/ o # remover'[t].target
  <2>1. \A o \in cloud : o.late \/ o \in cloud \ {remover[t].target}
    BY <1>0, <1>3, <1>7
  <2>2. \A o \in cloud' : o.late \/ o \in cloud \ {remover[t].target}
    BY <1>0, <1>4, <1>7, <2>1, StillLate
  <2> QED
    BY <1>0, <2>2
<1>8. ASSUME remover'[t].phase = "settle" PROVE Covers(remover[t].next)' /\ Over(remover[t].next)'
  <2>1. Covers(remover[t].next) /\ Over(remover[t].next)
    BY <1>0, <1>3, <1>8
  <2>2. ASSUME remover[t].next.open \cup remover[t].next.done # {}
        PROVE  \A o \in cloud' : o.late \/ o \in remover[t].next.open
    <3>1. \A o \in cloud : o.late \/ o \in remover[t].next.open
      BY <2>1, <2>2 DEF Covers
    <3> QED
      BY <1>0, <1>4, <1>8, <3>1, StillLate
  <2> QED
    BY <1>0, <2>1, <2>2 DEF Covers, Over
<1> QED
  BY <1>5, <1>6, <1>7, <1>8

\* A step of the flow finds what it may count on next.
LEMMA SweepsStep ==
  ASSUME SweepInv, Next, NEW t \in Tabs, remover[t] # None,
         \/ ReadJournal(t) \/ Journal(t) \/ ReadBack(t) \/ Intend(t) \/ Delete(t) \/ MarkDone(t)
         \/ Complete(t) \/ Nothing(t) \/ Fail(t)
  PROVE  Sweeps(t)'
<1> Inv /\ TypeOK
  BY DEF SweepInv, Inv
<1> SUFFICES ASSUME remover'[t] # None, Owns(t)', ~rolledBack'
             PROVE  /\ remover'[t].phase = "journal" => \A o \in cloud' : o.late \/ o \in remover'[t].todo
                    /\ remover'[t].phase \in {"delete", "send", "mark"} => Targets' # {}
                    /\ remover'[t].phase = "mark" => \A o \in cloud' : o.late \/ o # remover'[t].target
                    /\ remover'[t].phase = "settle" => Covers(remover[t].next)' /\ Over(remover[t].next)'
  BY DEF Sweeps
<1> DEFINE Good == /\ remover'[t].phase = "journal" => \A o \in cloud' : o.late \/ o \in remover'[t].todo
                   /\ remover'[t].phase \in {"delete", "send", "mark"} => Targets' # {}
                   /\ remover'[t].phase = "mark" => \A o \in cloud' : o.late \/ o # remover'[t].target
                   /\ remover'[t].phase = "settle" => Covers(remover[t].next)' /\ Over(remover[t].next)'
<1>1. ~ClaimIntent(t)
  BY DEF ClaimIntent
<1>2. Owns(t) /\ deletion # None /\ deletion' # None /\ ~rolledBack
  BY <1>1, StillOwned, RolledFrame DEF Owns
<1>3. /\ remover[t] \in Removers /\ remover \in [Tabs -> Removers \cup {None}]
      /\ deletion \in Deletions
  BY <1>2 DEF TypeOK
<1>4. /\ Covers(deletion) /\ Over(deletion)
      /\ remover[t].phase \in {"delete", "send", "mark"} => Targets # {}
  BY <1>2 DEF SweepInv, Covered, Sweeps
<1>5. ASSUME remover'[t].phase \notin {"journal", "delete", "send", "mark", "settle"} PROVE Good
  BY <1>5
<1>6. ASSUME NEW p, RPhase(t, p), p \notin {"journal", "delete", "send", "mark", "settle"} PROVE Good
  <2>1. remover'[t].phase = p
    BY <1>3, <1>6 DEF RPhase, Removers
  <2> QED
    BY <1>5, <1>6, <2>1
<1>7. CASE ReadJournal(t)
  <2>1. /\ remover'[t].phase = IF ~Reads(t) THEN "fail"
                               ELSE IF Targets # {} THEN IF deletion.open = {} THEN "finish" ELSE "delete"
                               ELSE IF cloud = {} THEN "nothing" ELSE "journal"
        /\ remover'[t].todo = IF ~Reads(t) THEN {} ELSE IF Targets = {} THEN cloud ELSE deletion.open
    BY <1>3, <1>7 DEF ReadJournal, Removers
  <2>2. cloud' = cloud /\ deletion' = deletion /\ Targets' = Targets
    BY <1>7 DEF ReadJournal, record, Targets
  <2> QED
    BY <2>1, <2>2
<1>8. CASE Journal(t)
  BY <1>6, <1>8 DEF Journal
<1>9. CASE ReadBack(t)
  <2>1. remover'[t].phase = IF ~Reads(t) THEN "fail" ELSE IF Targets = {} THEN "fail" ELSE "delete"
    BY <1>3, <1>9 DEF ReadBack, Removers
  <2>2. Targets' = Targets
    BY <1>9 DEF ReadBack, record, Targets
  <2> QED
    BY <2>1, <2>2
<1>10. CASE Intend(t)
  <2>1. RPhase(t, "complete") \/ RPhase(t, "fail") => Good
    BY <1>6
  <2>2. ASSUME remover[t].phase = "delete", NEW o,
               deletion' = [deletion EXCEPT !.open = @ \cup ({o} \ deletion.done)],
               remover' = [remover EXCEPT ![t].phase = "send", ![t].target = o, ![t].todo = @ \ {o}]
        PROVE  Good
    <3>1. deletion.open \subseteq deletion'.open /\ deletion'.done = deletion.done
      BY <1>3, <2>2 DEF Deletions
    <3>2. Targets' # {}
      BY <1>4, <2>2, <3>1 DEF Targets
    <3>3. remover'[t].phase = "send"
      <4> DEFINE r == [remover EXCEPT ![t] = [remover[t] EXCEPT !.phase = "send"]]
      <4>1. remover'[t].phase = [remover[t] EXCEPT !.phase = "send"].phase
        BY <1>3, <2>2 DEF Removers
      <4> QED
        BY <1>3, <4>1 DEF Removers
    <3> QED
      BY <3>2, <3>3
  <2> QED
    BY <1>10, <2>1, <2>2, Zenon DEF Intend
<1>11. CASE Delete(t)
  <2>1. RPhase(t, "fail") => Good
    BY <1>6
  <2>2. ASSUME RPhase(t, "mark"), cloud' = cloud \ {remover[t].target} PROVE Good
    <3>1. remover'[t].phase = "mark" /\ remover'[t].target = remover[t].target
      BY <1>3, <2>2 DEF RPhase, Removers
    <3>2. Targets' = Targets /\ remover[t].phase = "send"
      BY <1>11 DEF Delete, record, Targets
    <3> QED
      BY <1>4, <2>2, <3>1, <3>2
  <2> QED
    BY <1>11, <2>1, <2>2 DEF Delete
<1>12. CASE MarkDone(t)
  <2> DEFINE valid == Commands(t) /\ remover[t].target \in Targets
  <2>1. remover'[t].phase = IF valid THEN "delete" ELSE "fail"
    BY <1>3, <1>12 DEF MarkDone, Removers
  <2>2. ASSUME valid PROVE Targets' # {}
    <3>1. deletion' = [deletion EXCEPT !.open = @ \ {remover[t].target}, !.done = @ \cup {remover[t].target}]
      BY <1>12, <2>2 DEF MarkDone
    <3>2. deletion'.done = deletion.done \cup {remover[t].target}
      BY <1>3, <3>1 DEF Deletions
    <3> QED
      BY <3>2 DEF Targets
  <2> HIDE DEF valid
  <2> QED
    BY <2>1, <2>2
<1>13. ASSUME Complete(t) \/ Nothing(t) \/ Fail(t) PROVE Good
  <2>0. cloud' = cloud
    BY <1>13 DEF Complete, Nothing, Fail
  <2>1. ASSUME NEW d, Settling(t, d), Covers(d), Over(d) PROVE Good
    <3>1. remover'[t].phase = "settle" /\ remover'[t].next = d
      BY <1>3, <2>1 DEF Settling, Removers
    <3> QED
      BY <2>0, <2>1, <3>1 DEF Covers, Over
  <2>2. RPhase(t, "fail") => Good
    BY <1>6
  <2>3. Quit(t) => Good
    BY <1>3 DEF Quit
  <2>4. CASE Complete(t)
    <3>1. ASSUME Targets # {}, deletion.open = {}
          PROVE  /\ Covers([deletion EXCEPT !.state = "deleted", !.live = FALSE])
                 /\ Over([deletion EXCEPT !.state = "deleted", !.live = FALSE])
      <4> DEFINE d == [deletion EXCEPT !.state = "deleted", !.live = FALSE]
      <4>1. d.open = deletion.open /\ d.done = deletion.done
        BY <1>3 DEF Deletions
      <4> HIDE DEF d
      <4>2. Covers(d) /\ Over(d)
        BY <1>4, <3>1, <4>1 DEF Covers, Over, Targets
      <4> QED
        BY <4>2 DEF d
    <3> QED
      BY <2>1, <2>2, <2>3, <2>4, <3>1 DEF Complete
  <2>5. CASE Nothing(t)
    <3>1. ASSUME Targets = {}
          PROVE  /\ Covers([deletion EXCEPT !.state = "nothing", !.live = FALSE])
                 /\ Over([deletion EXCEPT !.state = "nothing", !.live = FALSE])
      <4> DEFINE d == [deletion EXCEPT !.state = "nothing", !.live = FALSE]
      <4>1. d.open = deletion.open /\ d.done = deletion.done /\ d.state = "nothing"
        BY <1>3 DEF Deletions
      <4> HIDE DEF d
      <4>2. Covers(d) /\ Over(d)
        BY <3>1, <4>1 DEF Covers, Over, Targets
      <4> QED
        BY <4>2 DEF d
    <3> QED
      BY <2>1, <2>2, <2>5, <3>1 DEF Nothing
  <2>6. CASE Fail(t)
    <3>1. /\ Covers([deletion EXCEPT !.live = FALSE])
          /\ Over([deletion EXCEPT !.live = FALSE])
      <4> DEFINE d == [deletion EXCEPT !.live = FALSE]
      <4>1. d.open = deletion.open /\ d.done = deletion.done /\ d.state = deletion.state
        BY <1>3 DEF Deletions
      <4> HIDE DEF d
      <4>2. Covers(d) /\ Over(d)
        BY <1>4, <4>1 DEF Covers, Over
      <4> QED
        BY <4>2 DEF d
    <3> QED
      BY <2>1, <2>3, <2>6, <3>1 DEF Fail
  <2> QED
    BY <1>13, <2>4, <2>5, <2>6
<1> QED
  BY <1>7, <1>8, <1>9, <1>10, <1>11, <1>12, <1>13

LEMMA SweepsNext == ASSUME SweepInv, Next, NEW t \in Tabs PROVE Sweeps(t)'
<1> TypeOK /\ Inv
  BY DEF SweepInv, Inv
<1>1. CASE remover'[t] = None
  BY <1>1 DEF Sweeps
<1>2. CASE ClaimIntent(t)
  BY <1>2, ClaimedFlow DEF Sweeps
<1>3. CASE Takes(t)
  BY <1>3 DEF Sweeps, Takes
<1> QED
  BY <1>1, <1>2, <1>3, RemoverSteps, SweepsKept, SweepsStep DEF RemoverWays

LEMMA SweepInvariant == Spec => []SweepInv
<1>1. Init => SweepInv
  <2> SUFFICES ASSUME Init PROVE SweepInv
    OBVIOUS
  <2>1. deletion = None /\ \A t \in Tabs : remover[t] = None
    BY DEF Init
  <2> QED
    BY <2>1, InitInv DEF SweepInv, GensApart, Covered, Sweeps
<1>2. SweepInv /\ [Next]_vars => SweepInv'
  <2> SUFFICES ASSUME SweepInv, [Next]_vars PROVE SweepInv'
    OBVIOUS
  <2>1. CASE UNCHANGED vars
    <3>1. Inv'
      BY InvNext DEF SweepInv
    <3>2. GensApart' /\ Covered'
      BY <2>1 DEF SweepInv, vars, record, history, GensApart, Covered, Targets, InHand, Covers, Over
    <3>3. \A t \in Tabs : Sweeps(t)'
      BY <2>1 DEF SweepInv, vars, record, history, Sweeps, Owns, Targets, Covers, Over
    <3> QED
      BY <3>1, <3>2, <3>3 DEF SweepInv
  <2>2. CASE Next
    <3>1. Inv' /\ GensApart'
      BY <2>2, InvNext, GensNext DEF SweepInv
    <3>2. Covered' /\ \A t \in Tabs : Sweeps(t)'
      BY <2>2, CoveredNext, SweepsNext
    <3> QED
      BY <3>1, <3>2 DEF SweepInv
  <2> QED
    BY <2>1, <2>2
<1> QED
  BY <1>1, <1>2, PTL DEF Spec

\* A deletion reported as done has left nothing of what was there when it took
\* the account, whichever tab began it, took it over or finished it, and after
\* whatever lapses, failures and restarts.
THEOREM DeletedAlways == Spec => []DeletedIsGone
<1>1. SweepInv => DeletedIsGone
  BY DEF SweepInv, Covered, Covers, Over, Targets, DeletedIsGone
<1> QED
  BY <1>1, SweepInvariant, PTL

----------------------------------------------------------------------------
(* What is written after a deletion is resumed from stays.                 *)
(*                                                                         *)
(* Everything a deletion lists, and every copy of that list a flow or a    *)
(* heartbeat carries, is of the deletion's era or an earlier one (Ages).   *)

Aged(objects, op) == \A o \in objects : o.era <= op

\* The record of a deletion lists what was there when it was requested.
AgedRecord(d) == Aged(d.open, d.op) /\ Aged(d.done, d.op)

CloudAges == /\ \A o \in cloud : o.n <= written
             /\ Aged(cloud, era)

DeletionAges == deletion # None => deletion.op = era /\ AgedRecord(deletion)

FlowAges(t) ==
  remover[t] # None =>
    /\ Aged(remover[t].todo, remover[t].op)
    /\ remover[t].phase = "send" => remover[t].target.era <= remover[t].op
    /\ Owns(t) => remover[t].op = deletion.op
    /\ remover[t].phase = "settle" =>
         remover[t].next.op = remover[t].op /\ AgedRecord(remover[t].next)

BeatAges(t) ==
  beat[t] # None => /\ AgedRecord(beat[t].copy)
                    /\ SameGeneration(t) => beat[t].copy.op = deletion.op

Ages == CloudAges /\ DeletionAges /\ \A t \in Tabs : FlowAges(t) /\ BeatAges(t)

AgesInv == Inv /\ Ages

\* The ways a step treats what the provider stores
StoreWays ==
  \/ \E late : Store(late) /\ era' = era
  \/ /\ cloud' \subseteq cloud /\ written' = written
     /\ \/ era' = era
        \/ era' = era + 1 /\ (Resume \/ \E u \in Tabs : ClaimIntent(u))
     /\ \/ cloud' = cloud
        \/ \E u \in Tabs : remover[u] # None /\ remover[u].phase = "send" /\ cloud' = cloud \ {remover[u].target}

LEMMA StoreSteps == ASSUME Next PROVE StoreWays
<1> USE DEF counts
<1>1. ASSUME cloud' = cloud, written' = written, era' = era PROVE StoreWays
  BY <1>1 DEF StoreWays
<1>2. ASSUME NEW late, Store(late), era' = era PROVE StoreWays
  BY <1>2, Zenon DEF StoreWays
<1>3. ASSUME NEW t \in Tabs, Land(t) PROVE StoreWays
  BY <1>1, <1>2, <1>3, Zenon DEF Land
<1>4. ASSUME NEW t \in Tabs, WriteStep(t) \/ ClaimWrite(t), ~Land(t) PROVE StoreWays
  BY <1>1, <1>4 DEF WriteStep, ClaimWrite, AfterClaim, Renew, Send, EndWrite
<1>5. ASSUME NEW t \in Tabs, \/ WriteBeat(t) \/ GiveUp(t) \/ BeatRead(t) \/ BeatRenew(t)
                              \/ BeatWrite(t) \/ Sleep(t) \/ Reload(t)
      PROVE  StoreWays
  BY <1>1, <1>5 DEF WriteBeat, GiveUp, BeatRead, BeatRenew, BeatWrite, Sleep, Reload
<1>6. ASSUME NEW t \in Tabs, RemoveStep(t), ~Delete(t) PROVE StoreWays
  <2>1. Intend(t) => cloud' = cloud /\ written' = written /\ era' = era
    BY Zenon DEF Intend
  <2>2. RefreshRequest(t) \/ ClaimForDeletion(t) \/ Start(t) \/ ReadJournal(t) \/ Journal(t) \/ ReadBack(t)
          => cloud' = cloud /\ written' = written /\ era' = era
    BY DEF RefreshRequest, ClaimForDeletion, Start, ReadJournal, Journal, ReadBack
  <2>3. MarkDone(t) \/ Complete(t) \/ Nothing(t) \/ Fail(t) \/ Settle(t)
          => cloud' = cloud /\ written' = written /\ era' = era
    BY DEF MarkDone, Complete, Nothing, Fail, Settle
  <2> QED
    BY <1>1, <1>6, <2>1, <2>2, <2>3 DEF RemoveStep
<1>7. ASSUME NEW t \in Tabs, RemoveStep(t), Delete(t) PROVE StoreWays
  <2>1. /\ remover[t] # None /\ remover[t].phase = "send" /\ written' = written /\ era' = era
        /\ cloud' = cloud \/ cloud' = cloud \ {remover[t].target}
    BY <1>7 DEF RemoveStep, Delete
  <2>2. cloud' \subseteq cloud
    BY <2>1
  <2> QED
    BY <2>1, <2>2, Zenon DEF StoreWays
<1>8. ASSUME NEW t \in Tabs, ClaimIntent(t) PROVE StoreWays
  <2>1. cloud' = cloud /\ written' = written /\ era' \in {era, era + 1}
    BY <1>8 DEF ClaimIntent
  <2> QED
    BY <1>8, <2>1 DEF StoreWays
<1>9. CASE Resume \/ Expire
  BY <1>1, <1>9 DEF StoreWays, Resume, Expire
<1>10. ASSUME NEW fence \in adrift, Drift(fence) PROVE StoreWays
  BY <1>2, <1>10 DEF Drift
<1> QED
  BY <1>3, <1>4, <1>5, <1>6, <1>7, <1>8, <1>9, <1>10 DEF Next

\* Numbers and eras of what is stored are those handed out so far.
LEMMA CloudAgesNext == ASSUME TypeOK, CloudAges, Next PROVE CloudAges'
<1>0. /\ era \in Nat /\ written \in Nat
      /\ \A o \in cloud : o.n \in Nat /\ o.era \in Nat
  BY Bounds DEF TypeOK, Eras, Objects
<1>1. CASE \E late : Store(late) /\ era' = era
  <2>1. PICK late : Store(late) /\ era' = era
    BY <1>1
  <2>2. \A o \in cloud' : o \in cloud \/ o = [n |-> written + 1, era |-> era, late |-> late]
    BY <2>1 DEF Store
  <2>3. written' = written + 1
    BY <2>1 DEF Store
  <2> QED
    BY <1>0, <2>1, <2>2, <2>3 DEF CloudAges, Aged
<1>2. CASE cloud' \subseteq cloud /\ written' = written /\ era' \in {era, era + 1}
  BY <1>0, <1>2 DEF CloudAges, Aged
<1> QED
  BY <1>1, <1>2, StoreSteps DEF StoreWays

\* While a deletion lasts, the era does.
LEMMA EraFrame ==
  ASSUME Next, deletion' # None, \A u \in Tabs : ~ClaimIntent(u)
  PROVE  era' = era
<1>1. ~Resume
  BY DEF Resume
<1> QED
  BY <1>1, StoreSteps DEF StoreWays

\* A request for a deletion is of a new era, or of the one it takes over.
LEMMA ClaimedAges ==
  ASSUME AgesInv, NEW t \in Tabs, ClaimIntent(t)
  PROVE  /\ deletion'.op = era' /\ AgedRecord(deletion)'
         /\ remover'[t].op = deletion'.op /\ remover'[t].todo = {}
<1> Inv /\ TypeOK /\ Ages
  BY DEF AgesInv, Inv
<1>1. remover'[t].op = deletion'.op /\ remover'[t].todo = {}
  <2>1. remover' = [remover EXCEPT ![t] =
           [phase |-> "drain", op |-> deletion'.op, gen |-> claims + 1, fence |-> 0,
            todo |-> {}, target |-> None, next |-> None, lost |-> FALSE]]
    BY DEF ClaimIntent
  <2> QED
    BY <2>1 DEF TypeOK
<1>2. CASE /\ era' = era + 1
           /\ deletion' = [op |-> era + 1, gen |-> claims + 1, state |-> "requesting",
                           live |-> TRUE, open |-> {}, done |-> {}]
  BY <1>1, <1>2 DEF AgedRecord, Aged
<1>3. CASE /\ Pending /\ era' = era
           /\ deletion' = [deletion EXCEPT !.gen = claims + 1, !.state = "requesting", !.live = TRUE]
  <2>1. deletion \in Deletions /\ deletion # None
    BY <1>3 DEF Pending, TypeOK
  <2>2. deletion'.op = deletion.op /\ deletion'.open = deletion.open /\ deletion'.done = deletion.done
    BY <1>3, <2>1 DEF Deletions
  <2> QED
    BY <1>1, <1>3, <2>1, <2>2 DEF Ages, DeletionAges, AgedRecord, Aged
<1> QED
  BY <1>2, <1>3 DEF ClaimIntent

\* The journal stays of its era.
LEMMA DeletionAgesNext == ASSUME AgesInv, Next PROVE DeletionAges'
<1> Inv /\ TypeOK /\ Ages
  BY DEF AgesInv, Inv
<1> SUFFICES ASSUME deletion' # None PROVE deletion'.op = era' /\ AgedRecord(deletion)'
  BY DEF DeletionAges
<1>1. CASE \E u \in Tabs : ClaimIntent(u)
  BY <1>1, ClaimedAges
<1>2. CASE \A u \in Tabs : ~ClaimIntent(u)
  <2>0. deletion # None /\ era' = era /\ deletion'.gen = deletion.gen
    BY <1>2, DeletionFrame, EraFrame
  <2>1. deletion \in Deletions /\ deletion.op = era /\ AgedRecord(deletion)
    BY <2>0 DEF TypeOK, Ages, DeletionAges
  <2>2. CASE SameJournal
    BY <2>0, <2>1, <2>2 DEF SameJournal, AgedRecord, Aged
  <2>3. ASSUME NEW u \in Tabs, remover[u] # None, Commands(u), Journal(u) \/ Intend(u) \/ MarkDone(u)
        PROVE  deletion'.op = era' /\ AgedRecord(deletion)'
    <3>1. Aged(remover[u].todo, deletion.op)
      BY <2>3 DEF Ages, FlowAges, Commands
    <3>2. CASE deletion' = deletion
      BY <2>0, <2>1, <3>2 DEF AgedRecord, Aged
    <3>3. ASSUME deletion' = [deletion EXCEPT !.open = remover[u].todo]
          PROVE  deletion'.op = era' /\ AgedRecord(deletion)'
      <4>1. deletion'.op = deletion.op /\ deletion'.open = remover[u].todo /\ deletion'.done = deletion.done
        BY <2>1, <3>3 DEF Deletions
      <4> QED
        BY <2>0, <2>1, <3>1, <4>1 DEF AgedRecord
    <3>4. ASSUME NEW o \in remover[u].todo, deletion' = [deletion EXCEPT !.open = @ \cup ({o} \ deletion.done)]
          PROVE  deletion'.op = era' /\ AgedRecord(deletion)'
      <4>1. /\ deletion'.op = deletion.op /\ deletion'.open \subseteq deletion.open \cup remover[u].todo
            /\ deletion'.done = deletion.done
        BY <2>1, <3>4 DEF Deletions
      <4> QED
        BY <2>0, <2>1, <3>1, <4>1 DEF AgedRecord, Aged
    <3>5. ASSUME remover[u].target \in Targets,
                 deletion' = [deletion EXCEPT !.open = @ \ {remover[u].target},
                                              !.done = @ \cup {remover[u].target}]
          PROVE  deletion'.op = era' /\ AgedRecord(deletion)'
      <4>1. /\ deletion'.op = deletion.op /\ deletion'.open \subseteq deletion.open
            /\ deletion'.done = deletion.done \cup {remover[u].target}
        BY <2>1, <3>5 DEF Deletions
      <4> QED
        BY <2>0, <2>1, <3>5, <4>1 DEF AgedRecord, Aged, Targets
    <3>6. Journal(u) => deletion'.op = era' /\ AgedRecord(deletion)'
      BY <3>2, <3>3 DEF Journal
    <3>7. Intend(u) => deletion'.op = era' /\ AgedRecord(deletion)'
      BY <3>2, <3>4, Zenon DEF Intend
    <3>8. MarkDone(u) => deletion'.op = era' /\ AgedRecord(deletion)'
      BY <3>2, <3>5 DEF MarkDone
    <3> QED
      BY <2>3, <3>6, <3>7, <3>8
  <2>4. ASSUME NEW u \in Tabs, remover[u] # None, Settle(u), Owns(u), deletion' = remover[u].next
        PROVE  deletion'.op = era' /\ AgedRecord(deletion)'
    <3>1. remover[u].phase = "settle"
      BY <2>4 DEF Settle
    <3>2. /\ remover[u].next.op = remover[u].op /\ remover[u].op = deletion.op
          /\ AgedRecord(remover[u].next)
      BY <2>4, <3>1 DEF Ages, FlowAges
    <3> QED
      BY <2>0, <2>1, <2>4, <3>2 DEF AgedRecord, Aged
  <2>5. ASSUME NEW u \in Tabs, BeatWrite(u), SameGeneration(u), deletion' = beat[u].copy
        PROVE  deletion'.op = era' /\ AgedRecord(deletion)'
    <3>1. beat[u].copy.op = deletion.op /\ AgedRecord(beat[u].copy)
      BY <2>5 DEF BeatWrite, Ages, BeatAges
    <3> QED
      BY <2>0, <2>1, <2>5, <3>1 DEF AgedRecord, Aged
  <2> QED
    BY <1>2, <2>2, <2>3, <2>4, <2>5, DeletionSteps DEF DeletionWays
<1> QED
  BY <1>1, <1>2

\* What a flow carries stays of the era of its deletion.
LEMMA FlowAgesNext == ASSUME AgesInv, Next, DeletionAges', NEW t \in Tabs PROVE FlowAges(t)'
<1> Inv /\ TypeOK /\ Ages
  BY DEF AgesInv, Inv
<1> SUFFICES ASSUME remover'[t] # None
             PROVE  /\ Aged(remover'[t].todo, remover'[t].op)
                    /\ remover'[t].phase = "send" => remover'[t].target.era <= remover'[t].op
                    /\ Owns(t)' => remover'[t].op = deletion'.op
                    /\ remover'[t].phase = "settle" =>
                         remover'[t].next.op = remover'[t].op /\ AgedRecord(remover[t].next)'
  BY DEF FlowAges, Aged
<1> DEFINE Carried == /\ Aged(remover'[t].todo, remover'[t].op)
                      /\ remover'[t].phase = "send" => remover'[t].target.era <= remover'[t].op
                      /\ remover'[t].phase = "settle" =>
                           remover'[t].next.op = remover'[t].op /\ AgedRecord(remover[t].next)'
<1>1. CASE ClaimIntent(t)
  <2>1. remover'[t].op = deletion'.op /\ remover'[t].todo = {} /\ remover'[t].phase = "drain"
    BY <1>1, ClaimedAges, ClaimedFlow
  <2> QED
    BY <2>1 DEF Aged
<1>2. CASE ~ClaimIntent(t)
  <2>0. /\ remover[t] # None /\ remover[t] \in Removers /\ remover \in [Tabs -> Removers \cup {None}]
        /\ FlowAges(t)
    BY <1>2, WorkFrame DEF TypeOK, Ages
  <2>1. ASSUME remover'[t].op = remover[t].op PROVE Owns(t)' => remover'[t].op = deletion'.op
    <3> SUFFICES ASSUME Owns(t)' PROVE remover'[t].op = deletion'.op
      OBVIOUS
    <3>1. Owns(t) /\ deletion' # None /\ \A u \in Tabs : ~ClaimIntent(u)
      BY <1>2, StillOwned
    <3>2. deletion # None
      BY <3>1 DEF Owns
    <3>3. deletion.op = era /\ deletion'.op = era' /\ era' = era
      BY <3>1, <3>2, EraFrame DEF Ages, DeletionAges
    <3>4. remover[t].op = deletion.op
      BY <2>0, <3>1 DEF FlowAges
    <3> QED
      BY <2>1, <3>3, <3>4
  <2>2. CASE SameWork(t)
    <3>1. Carried
      BY <2>0, <2>2 DEF SameWork, FlowAges, AgedRecord, Aged
    <3> QED
      BY <2>1, <2>2, <3>1 DEF SameWork
  <2>3. CASE Takes(t)
    <3>1. Carried
      BY <2>0, <2>3 DEF Takes, FlowAges, Aged
    <3> QED
      BY <2>1, <2>3, <3>1 DEF Takes
  <2>4. ASSUME NEW p, RPhase(t, p), p \notin {"send", "settle"}
        PROVE  Carried /\ remover'[t].op = remover[t].op
    <3>1. remover'[t].phase = p /\ remover'[t].todo = remover[t].todo /\ remover'[t].op = remover[t].op
      BY <2>0, <2>4 DEF RPhase, Removers
    <3> QED
      BY <2>0, <2>4, <3>1 DEF FlowAges
  <2>5. CASE ReadJournal(t)
    <3>1. /\ remover'[t].todo = IF ~Reads(t) THEN {} ELSE IF Targets = {} THEN cloud ELSE deletion.open
          /\ remover'[t].op = remover[t].op
          /\ remover'[t].phase \notin {"send", "settle"}
      BY <2>0, <2>5 DEF ReadJournal, Removers
    <3>2. ASSUME Reads(t) PROVE Aged(cloud, remover[t].op) /\ Aged(deletion.open, remover[t].op)
      BY <2>0, <3>2 DEF Reads, Owns, Ages, CloudAges, DeletionAges, FlowAges, AgedRecord
    <3>3. Aged(remover'[t].todo, remover'[t].op)
      BY <3>1, <3>2 DEF Aged
    <3> QED
      BY <2>1, <3>1, <3>3
  <2>6. CASE ReadBack(t)
    <3>1. /\ remover'[t].todo = IF Reads(t) THEN deletion.open ELSE {}
          /\ remover'[t].op = remover[t].op
          /\ remover'[t].phase \notin {"send", "settle"}
      BY <2>0, <2>6 DEF ReadBack, Removers
    <3>2. ASSUME Reads(t) PROVE Aged(deletion.open, remover[t].op)
      BY <2>0, <3>2 DEF Reads, Owns, Ages, DeletionAges, FlowAges, AgedRecord
    <3>3. Aged(remover'[t].todo, remover'[t].op)
      BY <3>1, <3>2 DEF Aged
    <3> QED
      BY <2>1, <3>1, <3>3
  <2>7. CASE Journal(t)
    <3>1. Carried /\ remover'[t].op = remover[t].op
      BY <2>4, <2>7 DEF Journal
    <3> QED
      BY <2>1, <3>1
  <2>8. CASE Intend(t)
    <3>1. ASSUME NEW o \in remover[t].todo,
                 remover' = [remover EXCEPT ![t].phase = "send", ![t].target = o, ![t].todo = @ \ {o}]
          PROVE  Carried /\ remover'[t].op = remover[t].op
      <4>1. /\ remover'[t].phase = "send" /\ remover'[t].target = o
            /\ remover'[t].todo = remover[t].todo \ {o} /\ remover'[t].op = remover[t].op
        BY <2>0, <3>1 DEF Removers
      <4> QED
        BY <2>0, <4>1 DEF FlowAges, Aged
    <3>2. Carried /\ remover'[t].op = remover[t].op
      BY <2>4, <2>8, <3>1, Zenon DEF Intend
    <3> QED
      BY <2>1, <3>2
  <2>9. CASE Delete(t)
    <3>1. Carried /\ remover'[t].op = remover[t].op
      BY <2>4, <2>9 DEF Delete
    <3> QED
      BY <2>1, <3>1
  <2>10. CASE MarkDone(t)
    <3>1. /\ remover'[t].phase \in {"delete", "fail"}
          /\ remover'[t].todo = remover[t].todo /\ remover'[t].op = remover[t].op
      BY <2>0, <2>10 DEF MarkDone, Removers
    <3> QED
      BY <2>0, <2>1, <3>1 DEF FlowAges
  <2>11. CASE Complete(t) \/ Nothing(t) \/ Fail(t)
    <3>1. ASSUME NEW d, Owns(t), Settling(t, d),
                 d.op = deletion.op, d.open = deletion.open, d.done = deletion.done
          PROVE  Carried /\ remover'[t].op = remover[t].op
      <4>1. /\ remover'[t].phase = "settle" /\ remover'[t].next = d
            /\ remover'[t].todo = remover[t].todo /\ remover'[t].op = remover[t].op
        BY <2>0, <3>1 DEF Settling, Removers
      <4>2. deletion # None /\ remover[t].op = deletion.op
        BY <2>0, <3>1 DEF FlowAges, Owns
      <4>3. AgedRecord(remover[t].next)'
        BY <3>1, <4>1, <4>2 DEF Ages, DeletionAges, AgedRecord, Aged
      <4> QED
        BY <2>0, <3>1, <4>1, <4>2, <4>3 DEF FlowAges
    <3>2. ASSUME Owns(t), NEW d,
                 \/ d = [deletion EXCEPT !.state = "deleted", !.live = FALSE]
                 \/ d = [deletion EXCEPT !.state = "nothing", !.live = FALSE]
                 \/ d = [deletion EXCEPT !.live = FALSE]
          PROVE  d.op = deletion.op /\ d.open = deletion.open /\ d.done = deletion.done
      BY <3>2 DEF Owns, TypeOK, Deletions
    <3>3. ~Quit(t)
      BY <2>0 DEF Quit
    <3>4. \/ RPhase(t, "fail")
          \/ Owns(t) /\ Settling(t, [deletion EXCEPT !.state = "deleted", !.live = FALSE])
          \/ Owns(t) /\ Settling(t, [deletion EXCEPT !.state = "nothing", !.live = FALSE])
          \/ Owns(t) /\ Settling(t, [deletion EXCEPT !.live = FALSE])
      BY <2>11, <3>3, Zenon DEF Complete, Nothing, Fail, Reads
    <3>5. RPhase(t, "fail") => Carried /\ remover'[t].op = remover[t].op
      BY <2>4
    <3>6. ASSUME NEW d, Owns(t), Settling(t, d),
                 \/ d = [deletion EXCEPT !.state = "deleted", !.live = FALSE]
                 \/ d = [deletion EXCEPT !.state = "nothing", !.live = FALSE]
                 \/ d = [deletion EXCEPT !.live = FALSE]
          PROVE  Carried /\ remover'[t].op = remover[t].op
      <4>1. d.op = deletion.op /\ d.open = deletion.open /\ d.done = deletion.done
        BY <3>2, <3>6, Zenon
      <4> QED
        BY <3>1, <3>6, <4>1
    <3> HIDE DEF Carried
    <3>8. Carried /\ remover'[t].op = remover[t].op
      BY <3>4, <3>5, <3>6, Zenon
    <3> QED
      BY <2>1, <3>8 DEF Carried
  <2> QED
    BY <1>2, <2>2, <2>3, <2>5, <2>6, <2>7, <2>8, <2>9, <2>10, <2>11, RemoverSteps DEF RemoverWays
<1> QED
  BY <1>1, <1>2

\* What a heartbeat carries stays of the era of its deletion.
LEMMA BeatAgesNext == ASSUME AgesInv, Next, DeletionAges', NEW t \in Tabs PROVE BeatAges(t)'
<1> Inv /\ TypeOK /\ Ages
  BY DEF AgesInv, Inv
<1> SUFFICES ASSUME beat'[t] # None
             PROVE  /\ AgedRecord(beat[t].copy)'
                    /\ SameGeneration(t)' => beat'[t].copy.op = deletion'.op
  BY DEF BeatAges
<1>1. CASE beat[t] # None /\ beat'[t].copy = beat[t].copy
  <2>1. AgedRecord(beat[t].copy)'
    BY <1>1 DEF Ages, BeatAges, AgedRecord, Aged
  <2>2. ASSUME SameGeneration(t)' PROVE beat'[t].copy.op = deletion'.op
    <3>1. deletion' # None /\ deletion'.gen = beat[t].copy.gen
      BY <1>1, <2>2 DEF SameGeneration
    <3>2. ASSUME NEW u \in Tabs, ClaimIntent(u) PROVE FALSE
      <4>1. deletion'.gen = claims + 1
        BY <3>2, ClaimedFlow
      <4>2. beat[t].copy.gen <= claims /\ beat[t].copy.gen \in Nat /\ claims \in Nat
        BY <1>1, Bounds DEF Inv, Generations, TypeOK, Beats, Deletions
      <4> QED
        BY <3>1, <4>1, <4>2
    <3>3. deletion # None /\ deletion'.gen = deletion.gen /\ era' = era
      BY <3>1, <3>2, DeletionFrame, EraFrame
    <3>4. deletion.op = era /\ deletion'.op = era'
      BY <3>1, <3>3 DEF Ages, DeletionAges
    <3>5. SameGeneration(t)
      BY <3>1, <3>3 DEF SameGeneration
    <3> QED
      BY <1>1, <3>3, <3>4, <3>5 DEF Ages, BeatAges
  <2> QED
    BY <2>1, <2>2
<1>2. CASE /\ deletion # None /\ deletion' = deletion
           /\ beat'[t].copy = [deletion EXCEPT !.live = TRUE]
  <2>1. /\ beat'[t].copy.op = deletion.op /\ beat'[t].copy.open = deletion.open
        /\ beat'[t].copy.done = deletion.done
    BY <1>2 DEF TypeOK, Deletions
  <2> QED
    BY <1>2, <2>1 DEF Ages, DeletionAges, AgedRecord, Aged
<1> QED
  BY <1>1, <1>2, BeatFrame

LEMMA AgesInvariant == Spec => []AgesInv
<1>1. Init => AgesInv
  <2> SUFFICES ASSUME Init PROVE AgesInv
    OBVIOUS
  <2>1. /\ cloud = {} /\ deletion = None
        /\ \A t \in Tabs : remover[t] = None /\ beat[t] = None
    BY DEF Init
  <2> QED
    BY <2>1, InitInv DEF AgesInv, Ages, CloudAges, DeletionAges, FlowAges, BeatAges, Aged
<1>2. AgesInv /\ [Next]_vars => AgesInv'
  <2> SUFFICES ASSUME AgesInv, [Next]_vars PROVE AgesInv'
    OBVIOUS
  <2>1. CASE UNCHANGED vars
    <3>1. Inv'
      BY InvNext DEF AgesInv
    <3>2. CloudAges' /\ DeletionAges'
      BY <2>1 DEF AgesInv, Ages, vars, record, counts, CloudAges, DeletionAges, AgedRecord, Aged
    <3>3. \A t \in Tabs : FlowAges(t)' /\ BeatAges(t)'
      BY <2>1 DEF AgesInv, Ages, vars, record, FlowAges, BeatAges, Owns, SameGeneration, AgedRecord, Aged
    <3> QED
      BY <3>1, <3>2, <3>3 DEF AgesInv, Ages
  <2>2. CASE Next
    <3>1. Inv' /\ CloudAges'
      BY <2>2, InvNext, CloudAgesNext DEF AgesInv, Inv, Ages
    <3>2. DeletionAges'
      BY <2>2, DeletionAgesNext
    <3>3. \A t \in Tabs : FlowAges(t)' /\ BeatAges(t)'
      BY <2>2, <3>2, FlowAgesNext, BeatAgesNext
    <3> QED
      BY <3>1, <3>2, <3>3 DEF AgesInv, Ages
  <2> QED
    BY <2>1, <2>2
<1> QED
  BY <1>1, <1>2, PTL DEF Spec

\* A step that removes an object rewrites it, or deletes what its flow lists.
LEMMA RemovesOlder ==
  AgesInv /\ [Next]_vars =>
    [\A o \in cloud \ cloud' :
       \/ cloud' \ cloud # {}
       \/ \E t \in Tabs : remover[t] # None /\ o.era <= remover[t].op]_vars
<1> SUFFICES ASSUME AgesInv, Next, NEW o \in cloud \ cloud', cloud' \ cloud = {}
             PROVE  \E t \in Tabs : remover[t] # None /\ o.era <= remover[t].op
  OBVIOUS
<1>1. ASSUME NEW late, Store(late) PROVE FALSE
  <2>1. [n |-> written + 1, era |-> era, late |-> late] \in cloud'
    BY <1>1 DEF Store
  <2>2. \A p \in cloud : p.n <= written
    BY DEF AgesInv, Ages, CloudAges
  <2>3. written \in Nat
    BY Bounds DEF AgesInv, Inv, TypeOK
  <2>4. [n |-> written + 1, era |-> era, late |-> late] \notin cloud
    BY <2>2, <2>3
  <2> QED
    BY <2>1, <2>4
<1>2. ASSUME NEW u \in Tabs, remover[u] # None, remover[u].phase = "send", cloud' = cloud \ {remover[u].target}
      PROVE  remover[u] # None /\ o.era <= remover[u].op
  <2>1. o = remover[u].target
    BY <1>2
  <2> QED
    BY <1>2, <2>1 DEF AgesInv, Ages, FlowAges
<1> QED
  BY <1>1, <1>2, StoreSteps DEF StoreWays

\* What is written after the user reconnected is never removed by the deletion
\* that was resumed from, whatever the tab that ran it still carries.
THEOREM LaterWritesAlwaysKept == Spec => LaterWritesKept
<1> QED
  BY AgesInvariant, RemovesOlder, PTL DEF Spec, LaterWritesKept
=============================================================================
