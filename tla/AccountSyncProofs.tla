------------------------- MODULE AccountSyncProofs -------------------------
(***************************************************************************)
(* AccountSync implements AccountReplicas for any devices, tabs, backends  *)
(* and bounds, and its safety report is never early.                       *)
(*                                                                         *)
(* The inductive invariant Inv says beside the types that whatever         *)
(* circulates was issued, that identities and clocks name one snapshot,    *)
(* that a device knows its own counter, and what a synchronization knows   *)
(* in each of its phases.                                                  *)
(***************************************************************************)
EXTENDS AccountSync, FiniteSetTheorems, WellFoundedInduction, TLAPS

Seeds == {Seed(d) : d \in Devices}

\* Failed calls and acts of the users, counted
Tallies == [fault : Nat, act : Nat]

\* A device's counter is never behind one of its own.
KnowsItsOwn == \A d \in Devices : \A s \in made : s.clock[d] <= store[d].clock[d]

\* An identity is the counter that issued it, and names one snapshot.
Named ==
  /\ \A s \in made : s.id[2] = s.clock[s.id[1]]
  /\ \A s, r \in made : s.id = r.id => s = r

\* A clock stands for one snapshot, but the clock of the first contents.
Coherent == \A s, r \in made : s.clock = r.clock => s = r \/ (s \in Seeds /\ r \in Seeds)

LocalPart ==
  /\ store \in [Devices -> Snapshots] /\ made \subseteq Snapshots
  /\ \A d \in Devices : store[d] \in made
  /\ KnowsItsOwn /\ Named /\ Coherent

\* What a replica holds was stored there, and issued; only a backend that lets
\* two creates succeed keeps two files.
RemotePart ==
  /\ files \in [Backends -> SUBSET Snapshots] /\ stored \in [Backends -> SUBSET Snapshots]
  /\ \A b \in Backends : files[b] \subseteq stored[b] /\ stored[b] \subseteq made
  /\ \A b \in Backends \ Duplicating : \A s, r \in files[b] : s = r

RequestPart ==
  /\ request \in [Tabs -> Requests \cup {None}]
  /\ \A t \in Tabs : request[t] # None =>
       request[t].local \in made /\ request[t].remotes \subseteq made

\* After its plan a synchronization writes only over what it knows.
Planned(x) ==
  /\ \A b \in x.queue : x.got[b] # Unasked
  /\ \A b \in Backends : x.got[b] \in Snapshots => Comparison(x.local, x.got[b]) \in {"same", "ahead"}

\* It writes what was issued, found what was stored, and checks what it stored.
SyncFine(d) ==
  sync[d] # NoSync =>
    /\ sync[d].local \in made /\ sync[d].queue # {}
    /\ \A b \in Backends : sync[d].got[b] \in Snapshots => sync[d].got[b] \in stored[b]
    /\ sync[d].phase # "pull" => Planned(sync[d])
    /\ sync[d].phase = "write" => sync[d].got[Kind(d)] # Failed
    /\ sync[d].phase \in {"manifest", "check", "confirm"} => sync[d].local \in stored[Kind(d)]

SyncPart ==
  /\ sync \in [Devices -> Syncs \cup {NoSync}]
  /\ \A d \in Devices : sync[d] = NoSync \/ DeviceOf[sync[d].tab] = d
  /\ \A d \in Devices : SyncFine(d)

ConfirmedPart ==
  /\ dirty \in [Devices -> BOOLEAN] /\ known \in [Devices -> [Backends -> Edits \cup {None}]]
  /\ \A d \in Devices :
       /\ dirty[d] \/ store[d] = Seed(d) \/ \E b \in Backends : store[d] \in stored[b]
       /\ \A b \in Backends : known[d][b] = None \/ \E s \in stored[b] : s.id = known[d][b]

OtherTypes ==
  /\ view \in [Tabs -> SUBSET Edits] /\ timer \in [Tabs -> BOOLEAN]
  /\ enabled \in [Devices -> SUBSET Backends] /\ failed \in [Devices -> SUBSET Backends]
  /\ manifest \in [Drives -> Edits \cup {None}]
  /\ extras \in Tallies /\ left \subseteq Devices

Inv == LocalPart /\ RemotePart /\ RequestPart /\ SyncPart /\ ConfirmedPart /\ OtherTypes

----------------------------------------------------------------------------
(* Least numbers: the next replica, the largest counter                    *)

LEMMA Least ==
  ASSUME NEW S, S \subseteq Nat, S # {}
  PROVE  \E n \in S : \A m \in S : n <= m
<1>1. PICK n \in S : \A m \in S : ~(<<m, n>> \in OpToRel(<, Nat))
  BY WFMin, NatLessThanWellFounded, Zenon
<1>2. \A m \in S : m < n => <<m, n>> \in OpToRel(<, Nat)
  BY Zenon DEF OpToRel
<1>3. n \in Nat /\ \A m \in S : m \in Nat /\ ~(m < n)
  BY <1>1, <1>2, Zenon
<1> QED
  BY <1>3

LEMMA Largest ==
  ASSUME NEW S, NEW k \in Nat, S \subseteq 0..k, S # {}
  PROVE  \E n \in S : \A m \in S : m <= n
<1> DEFINE T == {k - m : m \in S}
<1>1. T \subseteq Nat /\ T # {}
  <2>1. \A m \in S : k - m \in Nat
    OBVIOUS
  <2> QED
    BY <2>1
<1>2. PICK n \in T : \A m \in T : n <= m
  BY <1>1, Least
<1>3. PICK x \in S : n = k - x
  BY <1>2
<1>4. \A m \in S : m <= x
  BY <1>2, <1>3
<1> QED
  BY <1>4

\* The replica to write next is one of those to write.
LEMMA KindIsQueued ==
  ASSUME NEW d \in Devices, sync[d].queue \subseteq Backends, sync[d].queue # {}
  PROVE  Kind(d) \in sync[d].queue
<1> DEFINE S == {i \in DOMAIN Order : Order[i] \in sync[d].queue}
<1>1. S \subseteq Nat /\ S # {}
  BY SyncAssumption DEF Backends
<1>2. PICK n \in S : \A m \in S : n <= m
  BY <1>1, Least
<1> DEFINE First(i) == Order[i] \in sync[d].queue
                       /\ \A j \in DOMAIN Order : Order[j] \in sync[d].queue => i <= j
<1>3. \E i \in DOMAIN Order : First(i)
  BY <1>2
<1>4. First(CHOOSE i \in DOMAIN Order : First(i))
  BY <1>3
<1> QED
  BY <1>4 DEF Kind

----------------------------------------------------------------------------
(* Clocks                                                                  *)

LEMMA Numbers == MaxEdits \in Nat
BY SyncAssumption

LEMMA ClockValues ==
  ASSUME NEW s \in Snapshots, NEW d \in Devices
  PROVE  s.clock[d] \in 0..MaxEdits
BY DEF Snapshots, Clocks

\* The merged clock knows what each clock knows, and no more than one of them.
LEMMA MaxClockIsMax ==
  ASSUME NEW S, S \subseteq Snapshots, S # {}
  PROVE  /\ MaxClock(S) \in Clocks
         /\ \A d \in Devices : /\ \E s \in S : s.clock[d] = MaxClock(S)[d]
                               /\ \A s \in S : s.clock[d] <= MaxClock(S)[d]
<1> DEFINE Top(d, n) == /\ \E s \in S : s.clock[d] = n
                        /\ \A s \in S : s.clock[d] <= n
<1>1. ASSUME NEW d \in Devices
      PROVE  \E n \in 0..MaxEdits : Top(d, n)
  <2> DEFINE T == {s.clock[d] : s \in S}
  <2>1. T \subseteq 0..MaxEdits /\ T # {}
    BY ClockValues
  <2>2. PICK n \in T : \A m \in T : m <= n
    BY <2>1, Largest, Numbers
  <2> QED
    BY <2>1, <2>2
<1>2. \A d \in Devices : LET n == CHOOSE n \in 0..MaxEdits : Top(d, n) IN
        n \in 0..MaxEdits /\ Top(d, n)
  BY <1>1
<1>3. MaxClock(S) = [d \in Devices |-> CHOOSE n \in 0..MaxEdits : Top(d, n)]
  BY DEF MaxClock
<1> HIDE DEF Top
<1>4. MaxClock(S) \in Clocks /\ \A d \in Devices : Top(d, MaxClock(S)[d])
  BY <1>2, <1>3 DEF Clocks
<1> QED
  BY <1>4 DEF Top

\* What is issued counts its device on, and knows nothing new of the others.
LEMMA IssuedCountsOn ==
  ASSUME NEW d \in Devices, NEW S, S \subseteq Snapshots, S # {},
         NEW content \in SUBSET Edits, CanIssue(d, S),
         NEW s, s = Issued(d, S, content)
  PROVE  /\ s \in Snapshots /\ s.edits = content
         /\ s.clock[d] = MaxClock(S)[d] + 1 /\ s.id = <<d, s.clock[d]>>
         /\ \A e \in Devices \ {d} : s.clock[e] = MaxClock(S)[e]
<1> DEFINE clock == MaxClock(S)
           next == [clock EXCEPT ![d] = @ + 1]
<1>1. clock \in Clocks
  BY MaxClockIsMax
<1>2. clock[d] \in 0..MaxEdits /\ clock[d] < MaxEdits
  BY <1>1 DEF CanIssue, Clocks
<1>3. clock[d] + 1 \in 0..MaxEdits
  BY <1>2, Numbers
<1>4. /\ next \in Clocks /\ next[d] = clock[d] + 1
      /\ \A e \in Devices \ {d} : next[e] = clock[e]
  BY <1>1, <1>3 DEF Clocks
<1>5. <<d, clock[d] + 1>> \in Edits
  BY <1>3 DEF Edits
<1> HIDE DEF next, clock
<1>6. [id |-> <<d, clock[d] + 1>>, clock |-> next, edits |-> content] \in Snapshots
  BY <1>4, <1>5 DEF Snapshots
<1>7. Issued(d, S, content) = [id |-> <<d, clock[d] + 1>>, clock |-> next, edits |-> content]
  BY DEF Issued, next, clock
<1> QED
  BY <1>4, <1>6, <1>7 DEF clock

LEMMA Compared ==
  ASSUME NEW l \in Snapshots, NEW r \in Snapshots
  PROVE  /\ Comparison(l, r) = "same" <=> l.clock = r.clock /\ l.edits = r.edits
         /\ Comparison(l, r) = "ahead" => Leq(r.clock, l.clock) /\ l.clock # r.clock
         /\ Comparison(l, r) = "behind" => Leq(l.clock, r.clock) /\ l.clock # r.clock
         /\ Comparison(l, r) \in {"same", "ahead", "behind", "diverged"}
BY SyncAssumption DEF Comparison

\* What a plan leaves to write is the same as what was found, or ahead of it.
LEMMA PlanIsSafe ==
  ASSUME NEW l \in Snapshots, NEW got, ~MustReconcile(l, got), NEW r \in Found(got)
  PROVE  /\ Newer(l, got) = {} => Comparison(l, r) \in {"same", "ahead"}
         /\ \A s \in Found(got) : Comparison(s, r) = "same"
<1>1. Found(got) \subseteq Snapshots
  BY DEF Found
<1>2. Newer(l, got) = {} => Comparison(l, r) \in {"same", "ahead"}
  BY <1>1, Compared DEF Newer, MustReconcile
<1>3. ASSUME NEW s \in Found(got) PROVE Comparison(s, r) = "same"
  BY <1>1, Compared DEF MustReconcile
<1> QED
  BY <1>2, <1>3

----------------------------------------------------------------------------
(* Issuing a snapshot                                                      *)

Issues(d, s) ==
  /\ s \in Snapshots /\ s.id = <<d, s.clock[d]>> /\ s.clock[d] = store[d].clock[d] + 1
  /\ \A e \in Devices \ {d} : \E r \in made : s.clock[e] = r.clock[e]
  /\ store' = [store EXCEPT ![d] = s] /\ made' = made \cup {s}

\* The snapshot of a save
Written(t) == LET d == DeviceOf[t] IN
  Issued(d, {store[d]}, view[t] \cup {<<d, store[d].clock[d] + 1>>})

LEMMA TabDevice == \A t \in Tabs : DeviceOf[t] \in Devices
BY SyncAssumption

LEMMA SaveIssues ==
  ASSUME Inv, NEW t \in Tabs, Save(t)
  PROVE  LET d == DeviceOf[t] IN
         /\ Issues(d, Written(t))
         /\ Written(t).edits = view[t] \cup {<<d, Written(t).clock[d]>>}
         /\ \A e \in Devices \ {d} : Written(t).clock[e] = store[d].clock[e]
         /\ view' = [view EXCEPT ![t] = Written(t).edits]
<1> DEFINE d == DeviceOf[t]
           S == {store[d]}
           content == view[t] \cup {<<d, store[d].clock[d] + 1>>}
<1>1. d \in Devices /\ S \subseteq Snapshots /\ S # {} /\ store[d] \in made
  BY TabDevice DEF Inv, LocalPart
<1>2. /\ MaxClock(S) \in Clocks
      /\ \A e \in Devices : MaxClock(S)[e] = store[d].clock[e]
  BY <1>1, MaxClockIsMax
<1>3. CanIssue(d, S)
  BY DEF Save
<1>4. store[d].clock[d] + 1 \in 0..MaxEdits
  <2>1. store[d].clock[d] \in 0..MaxEdits /\ store[d].clock[d] < MaxEdits
    BY <1>1, <1>2, <1>3, ClockValues DEF CanIssue
  <2> QED
    BY <2>1, Numbers
<1>5. content \in SUBSET Edits
  BY <1>1, <1>4 DEF Inv, OtherTypes, Edits
<1>7. Written(t) = Issued(d, S, content)
  BY DEF Written
<1>8. /\ store' = [store EXCEPT ![d] = Written(t)] /\ made' = made \cup {Written(t)}
      /\ view' = [view EXCEPT ![t] = content]
  BY <1>7 DEF Save
<1> HIDE DEF d, S, content
<1>6. /\ Written(t) \in Snapshots /\ Written(t).edits = content
      /\ Written(t).clock[d] = MaxClock(S)[d] + 1 /\ Written(t).id = <<d, Written(t).clock[d]>>
      /\ \A e \in Devices \ {d} : Written(t).clock[e] = MaxClock(S)[e]
  BY <1>1, <1>3, <1>5, <1>7, IssuedCountsOn
<1>9. /\ Written(t).clock[d] = store[d].clock[d] + 1
      /\ \A e \in Devices \ {d} : Written(t).clock[e] = store[d].clock[e]
  BY <1>1, <1>2, <1>6
<1>10. content = view[t] \cup {<<d, store[d].clock[d] + 1>>}
  BY DEF content, d
<1>11. d = DeviceOf[t]
  BY DEF d
<1> QED
  BY <1>1, <1>6, <1>8, <1>9, <1>10, <1>11 DEF Issues

\* A decision: the clocks of all that was asked about, counted on.
Decides(t, s) ==
  LET d == DeviceOf[t]
      asked == {request[t].local} \cup request[t].remotes
  IN /\ Issues(d, s) /\ store[d] = request[t].local /\ asked \subseteq made
     /\ \E r \in asked : s.edits = r.edits
     /\ \A e \in Devices \ {d} : \E r \in asked : s.clock[e] = r.clock[e]
     /\ \A e \in Devices : \A r \in asked : r.clock[e] <= s.clock[e]
     /\ view' = [view EXCEPT ![t] = s.edits]

LEMMA ResolveDecides ==
  ASSUME Inv, NEW t \in Tabs, Resolve(t)
  PROVE  \E s : Decides(t, s)
<1> DEFINE d == DeviceOf[t]
           asked == {request[t].local} \cup request[t].remotes
<1>1. d \in Devices
  BY TabDevice
<1>2. request[t] # None /\ request[t] \in Requests
  BY DEF Resolve, Inv, RequestPart
<1>3. asked \subseteq made /\ asked \subseteq Snapshots /\ asked # {}
  BY <1>2 DEF Inv, LocalPart, RequestPart
<1>4. store[d] = request[t].local
  BY <1>1, <1>2 DEF Resolve, Inv, LocalPart, RequestPart, Named
<1>5. CanIssue(d, asked)
  BY DEF Resolve
<1>6. /\ MaxClock(asked) \in Clocks
      /\ \A e \in Devices : /\ \E s \in asked : s.clock[e] = MaxClock(asked)[e]
                            /\ \A s \in asked : s.clock[e] <= MaxClock(asked)[e]
  BY <1>3, MaxClockIsMax
<1>7. MaxClock(asked)[d] = store[d].clock[d]
  <2>1. \A s \in asked : s.clock[d] <= store[d].clock[d]
    BY <1>1, <1>3 DEF Inv, LocalPart, KnowsItsOwn
  <2>2. store[d].clock[d] <= MaxClock(asked)[d]
    BY <1>1, <1>4, <1>6
  <2>3. MaxClock(asked)[d] \in 0..MaxEdits /\ store[d].clock[d] \in 0..MaxEdits
    BY <1>1, <1>6, ClockValues DEF Clocks, Inv, LocalPart
  <2>4. MaxClock(asked)[d] <= store[d].clock[d]
    BY <1>1, <1>6, <2>1
  <2> QED
    BY <2>2, <2>3, <2>4, Numbers
<1>8. PICK r \in asked : LET chosen == Issued(d, asked, r.edits) IN
          /\ store' = [store EXCEPT ![d] = chosen]
          /\ made' = made \cup {chosen}
          /\ view' = [view EXCEPT ![t] = chosen.edits]
  BY DEF Resolve
<1>9. r.edits \in SUBSET Edits
  BY <1>3 DEF Snapshots
<1> DEFINE s == Issued(d, asked, r.edits)
<1>11. /\ store' = [store EXCEPT ![d] = s] /\ made' = made \cup {s}
       /\ view' = [view EXCEPT ![t] = s.edits]
  BY <1>8
<1>16. s = Issued(d, asked, r.edits)
  OBVIOUS
<1> HIDE DEF d, asked, s
<1>10. /\ s \in Snapshots /\ s.edits = r.edits
       /\ s.clock[d] = MaxClock(asked)[d] + 1 /\ s.id = <<d, s.clock[d]>>
       /\ \A e \in Devices \ {d} : s.clock[e] = MaxClock(asked)[e]
  BY <1>1, <1>3, <1>5, <1>9, <1>16, IssuedCountsOn
<1>12. Issues(d, s)
  BY <1>3, <1>6, <1>7, <1>10, <1>11 DEF Issues
<1>13. \A e \in Devices \ {d} : \E x \in asked : s.clock[e] = x.clock[e]
  BY <1>6, <1>10
<1>14. \A e \in Devices : \A x \in asked : x.clock[e] <= s.clock[e]
  <2> SUFFICES ASSUME NEW e \in Devices, NEW x \in asked PROVE x.clock[e] <= s.clock[e]
    OBVIOUS
  <2>1. MaxClock(asked)[e] \in 0..MaxEdits /\ x.clock[e] \in 0..MaxEdits
    BY <1>3, <1>6, ClockValues DEF Clocks
  <2>2. x.clock[e] <= MaxClock(asked)[e]
    BY <1>6
  <2>3. CASE e = d
    BY <1>10, <2>1, <2>2, <2>3, Numbers
  <2>4. CASE e # d
    BY <1>10, <2>2, <2>4
  <2> QED
    BY <2>3, <2>4
<1>15. Decides(t, s)
  BY <1>3, <1>4, <1>10, <1>11, <1>12, <1>13, <1>14 DEF Decides, d, asked
<1> QED
  BY <1>15

----------------------------------------------------------------------------
(* What keeps each part of the invariant                                   *)

Grows == made \subseteq made' /\ \A b \in Backends : stored[b] \subseteq stored'[b]

LEMMA InvTypes == Inv => TypeOK
BY DEF Inv, LocalPart, RemotePart, RequestPart, SyncPart, ConfirmedPart, OtherTypes, Tallies, TypeOK

LEMMA LocalKept ==
  ASSUME LocalPart, UNCHANGED <<store, made>>
  PROVE  LocalPart'
BY DEF LocalPart, KnowsItsOwn, Named, Coherent, Seeds

LEMMA RemoteKept ==
  ASSUME RemotePart, UNCHANGED <<files, stored>>, made \subseteq made'
  PROVE  RemotePart'
BY DEF RemotePart

LEMMA RequestKept ==
  ASSUME RequestPart, made \subseteq made',
         request' = request \/ \E t \in Tabs : request' = [request EXCEPT ![t] = None]
  PROVE  RequestPart'
<1>1. CASE request' = request
  BY <1>1 DEF RequestPart
<1>2. CASE \E t \in Tabs : request' = [request EXCEPT ![t] = None]
  <2>1. PICK t \in Tabs : request' = [request EXCEPT ![t] = None]
    BY <1>2
  <2>2. request' \in [Tabs -> Requests \cup {None}]
    BY <2>1 DEF RequestPart
  <2>3. \A u \in Tabs : request'[u] # None => request'[u] = request[u] /\ request[u] # None
    BY <2>1 DEF RequestPart
  <2> QED
    BY <2>2, <2>3 DEF RequestPart
<1> QED
  BY <1>1, <1>2

LEMMA KindKept ==
  ASSUME NEW d, sync'[d].queue = sync[d].queue
  PROVE  Kind(d)' = Kind(d)
BY DEF Kind

LEMMA SyncTypes ==
  ASSUME SyncPart, NEW d \in Devices, sync[d] # NoSync
  PROVE  /\ sync[d] \in Syncs /\ sync[d].tab \in Tabs /\ DeviceOf[sync[d].tab] = d
         /\ sync[d].local \in Snapshots /\ sync[d].got \in [Backends -> Replies]
         /\ sync[d].queue \subseteq Backends
         /\ Kind(d) \in sync[d].queue /\ Kind(d) \in Backends
<1>1. sync[d] \in Syncs /\ DeviceOf[sync[d].tab] = d /\ sync[d].queue # {}
  BY DEF SyncPart, SyncFine
<1>2. /\ sync[d].tab \in Tabs /\ sync[d].local \in Snapshots
      /\ sync[d].got \in [Backends -> Replies] /\ sync[d].queue \subseteq Backends
  BY <1>1 DEF Syncs
<1>3. Kind(d) \in sync[d].queue
  BY <1>1, <1>2, KindIsQueued
<1> QED
  BY <1>1, <1>2, <1>3

LEMMA SyncFineKept ==
  ASSUME SyncPart, NEW d \in Devices, sync'[d] = sync[d], Grows
  PROVE  SyncFine(d)'
<1> SUFFICES ASSUME sync[d] # NoSync PROVE SyncFine(d)'
  BY DEF SyncFine
<1>1. Kind(d)' = Kind(d) /\ Kind(d) \in Backends /\ SyncFine(d)
  BY KindKept, SyncTypes DEF SyncPart
<1>2. /\ sync'[d].local \in made' /\ sync'[d].queue # {}
      /\ sync'[d].phase # "pull" => Planned(sync'[d])
      /\ sync'[d].phase = "write" => sync'[d].got[Kind(d)'] # Failed
  BY <1>1 DEF SyncFine, Grows
<1>3. \A b \in Backends : sync'[d].got[b] \in Snapshots => sync'[d].got[b] \in stored'[b]
  BY <1>1 DEF SyncFine, Grows
<1>4. sync'[d].phase \in {"manifest", "check", "confirm"}
        => sync'[d].local \in stored'[Kind(d)']
  BY <1>1 DEF SyncFine, Grows
<1> QED
  BY <1>2, <1>3, <1>4 DEF SyncFine, Planned

LEMMA SyncKept ==
  ASSUME SyncPart, sync' = sync, Grows
  PROVE  SyncPart'
BY SyncFineKept DEF SyncPart

LEMMA SyncChanges ==
  ASSUME SyncPart, NEW d \in Devices, NEW x, x = NoSync \/ (x \in Syncs /\ DeviceOf[x.tab] = d),
         sync' = [sync EXCEPT ![d] = x], Grows, SyncFine(d)'
  PROVE  SyncPart'
<1>1. sync' \in [Devices -> Syncs \cup {NoSync}]
  BY DEF SyncPart
<1>2. \A e \in Devices : sync'[e] = IF e = d THEN x ELSE sync[e]
  BY DEF SyncPart
<1>3. \A e \in Devices : sync'[e] = NoSync \/ DeviceOf[sync'[e].tab] = e
  BY <1>2 DEF SyncPart
<1>4. \A e \in Devices : SyncFine(e)'
  BY <1>2, SyncFineKept
<1> QED
  BY <1>1, <1>3, <1>4 DEF SyncPart

LEMMA SyncEnds ==
  ASSUME SyncPart, NEW d \in Devices, sync' = [sync EXCEPT ![d] = NoSync], Grows
  PROVE  SyncPart'
<1>1. sync'[d] = NoSync
  BY DEF SyncPart
<1>2. SyncFine(d)'
  BY <1>1 DEF SyncFine
<1> QED
  BY <1>2, SyncChanges

\* The synchronization goes on with the replica it is at.
LEMMA StayKeeps ==
  ASSUME SyncPart, NEW d \in Devices, sync[d] # NoSync, sync[d].phase # "pull",
         NEW phase \in Phases \ {"pull"}, Go(d, phase), Grows,
         phase = "write" => sync[d].got[Kind(d)] # Failed,
         phase \in {"manifest", "check", "confirm"} => sync[d].local \in stored'[Kind(d)]
  PROVE  SyncPart'
<1> DEFINE x == [sync[d] EXCEPT !.phase = phase]
<1>1. sync[d] \in Syncs /\ Kind(d) \in Backends /\ DeviceOf[sync[d].tab] = d /\ SyncFine(d)
  BY SyncTypes DEF SyncPart
<1>2. /\ x \in Syncs /\ x.tab = sync[d].tab /\ x.phase = phase /\ x.local = sync[d].local
      /\ x.queue = sync[d].queue /\ x.got = sync[d].got
  BY <1>1 DEF Syncs
<1>3. sync' = [sync EXCEPT ![d] = x]
  BY DEF Go
<1> HIDE DEF x
<1>4. sync'[d] = x
  BY <1>3 DEF SyncPart
<1>5. Kind(d)' = Kind(d)
  BY <1>2, <1>4, KindKept
<1>6. Planned(x)
  BY <1>1, <1>2 DEF SyncFine, Planned
<1>7. \A b \in Backends : x.got[b] \in Snapshots => x.got[b] \in stored'[b]
  BY <1>1, <1>2 DEF SyncFine, Grows
<1>8. x.local \in made' /\ x.queue # {}
  BY <1>1, <1>2 DEF SyncFine, Grows
<1>9. SyncFine(d)'
  BY <1>2, <1>4, <1>5, <1>6, <1>7, <1>8 DEF SyncFine, Planned
<1> QED
  BY <1>1, <1>2, <1>3, <1>9, SyncChanges

\* It goes on with the next replica, or ends.
LEMMA NextKeeps ==
  ASSUME SyncPart, RequestPart, NEW d \in Devices, sync[d] # NoSync, sync[d].phase # "pull",
         NextKind(d), Grows
  PROVE  SyncPart' /\ RequestPart'
<1>1. /\ sync[d] \in Syncs /\ Kind(d) \in sync[d].queue /\ DeviceOf[sync[d].tab] = d
      /\ sync[d].tab \in Tabs /\ SyncFine(d)
  BY SyncTypes DEF SyncPart
<1>2. CASE Release(d)
  <2>1. SyncPart'
    BY <1>2, SyncEnds DEF Release
  <2>2. RequestPart'
    BY <1>1, <1>2, RequestKept DEF Release, Grows
  <2> QED
    BY <2>1, <2>2
<1>3. CASE ~Release(d)
  <2> DEFINE x == [sync[d] EXCEPT !.phase = "next", !.queue = @ \ {Kind(d)}]
  <2>1. /\ sync' = [sync EXCEPT ![d] = x] /\ request' = request
        /\ sync[d].queue # {Kind(d)}
    BY <1>3 DEF NextKind
  <2>2. /\ x \in Syncs /\ x.tab = sync[d].tab /\ x.phase = "next" /\ x.local = sync[d].local
        /\ x.queue = sync[d].queue \ {Kind(d)} /\ x.got = sync[d].got
    BY <1>1 DEF Syncs, Phases
  <2> HIDE DEF x
  <2>3. sync'[d] = x
    BY <2>1 DEF SyncPart
  <2>4. x.queue # {} /\ x.local \in made'
    BY <1>1, <2>1, <2>2 DEF SyncFine, Grows
  <2>5. Planned(x)
    BY <1>1, <2>2 DEF SyncFine, Planned
  <2>6. \A b \in Backends : x.got[b] \in Snapshots => x.got[b] \in stored'[b]
    BY <1>1, <2>2 DEF SyncFine, Grows
  <2>7. SyncFine(d)'
    BY <2>2, <2>3, <2>4, <2>5, <2>6 DEF SyncFine, Planned
  <2>8. SyncPart'
    BY <1>1, <2>1, <2>2, <2>7, SyncChanges
  <2>9. RequestPart'
    BY <2>1, RequestKept DEF Grows
  <2> QED
    BY <2>8, <2>9
<1> QED
  BY <1>2, <1>3

LEMMA ConfirmedKept ==
  ASSUME ConfirmedPart, UNCHANGED <<store, known>>, Grows,
         dirty' = dirty
  PROVE  ConfirmedPart'
BY DEF ConfirmedPart, Grows, Seed

LEMMA IssueKeeps ==
  ASSUME LocalPart, NEW d \in Devices, NEW s, Issues(d, s)
  PROVE  LocalPart' /\ made \subseteq made'
<1>1. /\ s \in Snapshots /\ s.id = <<d, s.clock[d]>> /\ s.clock[d] = store[d].clock[d] + 1
      /\ made' = made \cup {s} /\ store' = [store EXCEPT ![d] = s]
      /\ \A e \in Devices \ {d} : \E r \in made : s.clock[e] = r.clock[e]
  BY DEF Issues
<1>2. /\ \A e \in Devices : store[e] \in made /\ store[e] \in Snapshots
      /\ made \subseteq Snapshots /\ KnowsItsOwn /\ Named /\ Coherent
  BY DEF LocalPart
<1>3. \A r \in made : r.clock[d] # s.clock[d]
  <2> SUFFICES ASSUME NEW r \in made PROVE r.clock[d] # s.clock[d]
    OBVIOUS
  <2>1. r.clock[d] \in 0..MaxEdits /\ store[d].clock[d] \in 0..MaxEdits
    BY <1>2, ClockValues
  <2>2. r.clock[d] <= store[d].clock[d]
    BY <1>2 DEF KnowsItsOwn
  <2> QED
    BY <1>1, <2>1, <2>2, Numbers
<1>4. \A e \in Devices : store'[e] = IF e = d THEN s ELSE store[e]
  BY <1>1 DEF LocalPart
<1>5. KnowsItsOwn'
  <2> SUFFICES ASSUME NEW e \in Devices, NEW r \in made'
               PROVE  r.clock[e] <= store'[e].clock[e]
    BY DEF KnowsItsOwn
  <2>1. s.clock[e] \in 0..MaxEdits /\ store[e].clock[e] \in 0..MaxEdits
    BY <1>1, <1>2, ClockValues
  <2>2. \A x \in made : x.clock[e] <= store[e].clock[e] /\ x.clock[e] \in 0..MaxEdits
    BY <1>2, ClockValues DEF KnowsItsOwn
  <2>3. CASE e = d /\ r \in made
    BY <1>1, <1>4, <2>1, <2>2, <2>3, Numbers
  <2>4. CASE e = d /\ r = s
    BY <1>4, <2>1, <2>4, Numbers
  <2>5. CASE e # d /\ r \in made
    BY <1>4, <2>2, <2>5
  <2>6. CASE e # d /\ r = s
    <3>1. PICK x \in made : s.clock[e] = x.clock[e]
      BY <1>1, <2>6
    <3> QED
      BY <1>4, <2>2, <2>6, <3>1
  <2> QED
    BY <1>1, <2>3, <2>4, <2>5, <2>6
<1>6. Named'
  <2>1. \A r \in made : r.id # s.id
    <3> SUFFICES ASSUME NEW r \in made, r.id = s.id PROVE FALSE
      OBVIOUS
    <3>1. r.id[1] = d /\ r.id[2] = s.clock[d]
      BY <1>1
    <3>2. r.id[2] = r.clock[r.id[1]]
      BY <1>2 DEF Named
    <3> QED
      BY <1>3, <3>1, <3>2
  <2>2. s.id[2] = s.clock[s.id[1]]
    BY <1>1
  <2> QED
    BY <1>1, <1>2, <2>1, <2>2 DEF Named
<1>7. Coherent'
  BY <1>1, <1>2, <1>3 DEF Coherent, Seeds, Seed
<1>8. store' \in [Devices -> Snapshots] /\ \A e \in Devices : store'[e] \in made'
  BY <1>1, <1>2, <1>4 DEF LocalPart
<1> QED
  BY <1>1, <1>2, <1>5, <1>6, <1>7, <1>8 DEF LocalPart

----------------------------------------------------------------------------
(* The invariant holds                                                     *)

LEMMA InitInv == Init => Inv
<1> SUFFICES ASSUME Init PROVE Inv
  OBVIOUS
<1> USE DEF Init
<1>1. \A d \in Devices : Seed(d) \in Snapshots
  BY Numbers DEF Seed, Snapshots, Edits, Clocks
<1>2. LocalPart
  <2>1. store \in [Devices -> Snapshots] /\ made \subseteq Snapshots
    BY <1>1
  <2>2. /\ \A d \in Devices : store[d] = Seed(d) /\ Seed(d).id = <<d, 0>>
        /\ \A d, e \in Devices : Seed(d).clock[e] = 0
    BY DEF Seed
  <2>3. \A s \in made : \E d \in Devices : s = Seed(d)
    OBVIOUS
  <2>4. KnowsItsOwn
    BY <2>2, <2>3 DEF KnowsItsOwn
  <2>5. \A s \in made : s.id[2] = s.clock[s.id[1]]
    BY <2>2, <2>3
  <2>6. \A s, r \in made : s.id = r.id => s = r
    <3> SUFFICES ASSUME NEW s \in made, NEW r \in made, s.id = r.id PROVE s = r
      OBVIOUS
    <3>1. PICK d \in Devices, e \in Devices : s = Seed(d) /\ r = Seed(e)
      BY <2>3
    <3>2. s.id = <<d, 0>> /\ r.id = <<e, 0>>
      BY <2>2, <3>1
    <3> QED
      BY <3>1, <3>2
  <2>7. Named
    BY <2>5, <2>6 DEF Named
  <2> QED
    BY <2>1, <2>4, <2>7 DEF LocalPart, Coherent, Seeds
<1>3. RemotePart
  BY DEF RemotePart
<1>4. RequestPart
  BY DEF RequestPart
<1>5. SyncPart
  BY DEF SyncPart, SyncFine
<1>6. ConfirmedPart
  BY DEF ConfirmedPart
<1>7. OtherTypes
  BY TabDevice, Numbers, SyncAssumption DEF OtherTypes, Tallies, Edits
<1> QED
  BY <1>2, <1>3, <1>4, <1>5, <1>6, <1>7 DEF Inv

LEMMA UnchangedInv == Inv /\ UNCHANGED vars => Inv'
<1> SUFFICES ASSUME Inv, UNCHANGED vars PROVE Inv'
  OBVIOUS
<1>1. /\ LocalPart /\ RemotePart /\ RequestPart /\ SyncPart /\ ConfirmedPart /\ OtherTypes
      /\ Grows
  BY DEF Inv, Grows, vars, local, remote
<1>2. OtherTypes'
  BY <1>1 DEF vars, local, replicas, remote, rare, OtherTypes
<1>3. /\ UNCHANGED <<store, dirty, made, files, stored, request, sync, known>>
  BY DEF vars, local, replicas, remote
<1> QED
  BY <1>1, <1>2, <1>3, LocalKept, RemoteKept, RequestKept, SyncKept, ConfirmedKept DEF Inv, Grows

LEMMA SaveInv ==
  ASSUME Inv, NEW t \in Tabs, Save(t)
  PROVE  Inv'
<1> DEFINE d == DeviceOf[t]
<1>1. d \in Devices /\ Issues(d, Written(t))
  BY TabDevice, SaveIssues
<1>2. LocalPart' /\ made \subseteq made'
  BY <1>1, IssueKeeps DEF Inv
<1>3. /\ UNCHANGED <<files, stored, sync, request, known, enabled, manifest, extras>>
      /\ failed' = [failed EXCEPT ![d] = {}]
      /\ dirty' = [dirty EXCEPT ![d] = TRUE] /\ timer' = [timer EXCEPT ![t] = TRUE]
      /\ left' = left \ {d}
  BY DEF Save, PropagateDirty, remote
<1>4. RemotePart' /\ RequestPart' /\ SyncPart'
  BY <1>2, <1>3, RemoteKept, RequestKept, SyncKept DEF Inv, Grows
<1>5. ConfirmedPart'
  <2>1. dirty' \in [Devices -> BOOLEAN] /\ dirty'[d] = TRUE
    BY <1>1, <1>3 DEF Inv, ConfirmedPart
  <2>2. \A e \in Devices \ {d} : dirty'[e] = dirty[e] /\ store'[e] = store[e]
    BY <1>1, <1>3 DEF Inv, ConfirmedPart, LocalPart, Issues
  <2> HIDE DEF d
  <2>3. \A e \in Devices :
          dirty'[e] \/ store'[e] = Seed(e) \/ \E b \in Backends : store'[e] \in stored'[b]
    BY <1>1, <1>3, <2>1, <2>2 DEF Inv, ConfirmedPart
  <2> QED
    BY <1>3, <2>1, <2>3 DEF Inv, ConfirmedPart, Seed
<1>6. OtherTypes'
  <2>1. /\ Written(t).edits \in SUBSET Edits /\ view' = [view EXCEPT ![t] = Written(t).edits]
    BY <1>1, SaveIssues DEF Issues, Snapshots
  <2> QED
    BY <1>3, <2>1 DEF Inv, OtherTypes
<1> QED
  BY <1>2, <1>4, <1>5, <1>6 DEF Inv

LEMMA ResolveInv ==
  ASSUME Inv, NEW t \in Tabs, Resolve(t)
  PROVE  Inv'
<1> DEFINE d == DeviceOf[t]
<1>1. PICK s : Decides(t, s)
  BY ResolveDecides
<1>2. d \in Devices /\ Issues(d, s) /\ view' = [view EXCEPT ![t] = s.edits]
  BY <1>1, TabDevice DEF Decides
<1>3. LocalPart' /\ made \subseteq made'
  BY <1>2, IssueKeeps DEF Inv
<1>4. /\ UNCHANGED <<files, stored, sync, known, enabled, manifest, extras, left>>
      /\ failed' = [failed EXCEPT ![d] = {}]
      /\ dirty' = [dirty EXCEPT ![d] = TRUE] /\ timer' = [timer EXCEPT ![t] = TRUE]
      /\ request' = [request EXCEPT ![t] = None]
  BY DEF Resolve, PropagateDirty, remote, rare
<1>5. RemotePart' /\ RequestPart' /\ SyncPart'
  BY <1>3, <1>4, RemoteKept, RequestKept, SyncKept DEF Inv, Grows
<1>6. ConfirmedPart'
  <2>1. dirty' \in [Devices -> BOOLEAN] /\ dirty'[d] = TRUE
    BY <1>2, <1>4 DEF Inv, ConfirmedPart
  <2>2. \A e \in Devices \ {d} : dirty'[e] = dirty[e] /\ store'[e] = store[e]
    BY <1>2, <1>4 DEF Inv, ConfirmedPart, LocalPart, Issues
  <2> HIDE DEF d
  <2>3. \A e \in Devices :
          dirty'[e] \/ store'[e] = Seed(e) \/ \E b \in Backends : store'[e] \in stored'[b]
    BY <1>2, <1>4, <2>1, <2>2 DEF Inv, ConfirmedPart
  <2> QED
    BY <1>4, <2>1, <2>3 DEF Inv, ConfirmedPart, Seed
<1>7. OtherTypes'
  <2>1. s.edits \in SUBSET Edits
    BY <1>2 DEF Issues, Snapshots
  <2> QED
    BY <1>2, <1>4, <2>1 DEF Inv, OtherTypes
<1> QED
  BY <1>3, <1>5, <1>6, <1>7 DEF Inv

\* A synchronization that starts knows what it found in the local store.
LEMMA BeginInv ==
  ASSUME Inv, NEW t \in Tabs, NEW kinds \in SUBSET enabled[DeviceOf[t]], Begin(t, kinds),
         extras' \in Tallies, Cancel(t) \/ timer' = timer
  PROVE  Inv'
<1> DEFINE d == DeviceOf[t]
           x == [tab |-> t, phase |-> "pull", local |-> store[d],
                 queue |-> kinds, got |-> [b \in Backends |-> Unasked], repair |-> {}]
<1>1. /\ d \in Devices /\ sync' = [sync EXCEPT ![d] = x] /\ kinds # {}
      /\ kinds \subseteq Backends
  BY TabDevice DEF Begin, Inv, OtherTypes
<1>2. /\ UNCHANGED <<store, dirty, view, made, request, enabled, known, files, manifest,
                     stored, left>>
      /\ timer' = [timer EXCEPT ![t] = FALSE] \/ timer' = timer
      /\ failed' = [failed EXCEPT ![d] = @ \ kinds]
  BY DEF Begin, Cancel, local, remote
<1>3. Grows /\ LocalPart' /\ RemotePart' /\ RequestPart' /\ ConfirmedPart'
  BY <1>2, LocalKept, RemoteKept, RequestKept, ConfirmedKept DEF Inv, Grows
<1>4. x \in Syncs /\ x.local \in made /\ x.phase = "pull" /\ x.queue = kinds /\ x.tab = t
  BY <1>1 DEF Syncs, Phases, Replies, Inv, LocalPart
<1>5. \A b \in Backends : x.got[b] \notin Snapshots
  BY SyncAssumption
<1>6. SyncPart'
  <2>1. d = DeviceOf[t]
    OBVIOUS
  <2> HIDE DEF x, d
  <2>2. sync'[d] = x
    BY <1>1 DEF Inv, SyncPart
  <2>3. SyncFine(d)'
    BY <1>1, <1>2, <1>4, <1>5, <2>2 DEF SyncFine
  <2> QED
    BY <1>1, <1>3, <1>4, <2>1, <2>3, SyncChanges DEF Inv
<1>7. OtherTypes'
  BY <1>1, <1>2 DEF Inv, OtherTypes
<1> QED
  BY <1>3, <1>6, <1>7 DEF Inv

LEMMA Counts ==
  ASSUME Inv, Fault \/ (\E t \in Tabs : Act(t)) \/ extras' = extras
  PROVE  extras' \in Tallies
<1>1. extras \in Tallies
  BY DEF Inv, OtherTypes
<1>2. CASE Fault
  BY <1>1, <1>2 DEF Fault, Tallies
<1>3. CASE \E t \in Tabs : Act(t)
  BY <1>1, <1>3 DEF Act, Tallies
<1> QED
  BY <1>1, <1>2, <1>3

LEMMA SyncAllInv ==
  ASSUME Inv, NEW t \in Tabs, SyncAll(t)
  PROVE  Inv'
BY BeginInv, Counts DEF SyncAll

LEMMA SyncNowInv ==
  ASSUME Inv, NEW t \in Tabs, SyncNow(t)
  PROVE  Inv'
<1>1. PICK kinds \in SUBSET enabled[DeviceOf[t]] :
        Begin(t, kinds) /\ (Cancel(t) \/ timer' = timer)
  BY DEF SyncNow
<1> QED
  BY <1>1, BeginInv, Counts DEF SyncNow

LEMMA DismissInv ==
  ASSUME Inv, NEW t \in Tabs, Dismiss(t)
  PROVE  Inv'
<1>1. /\ UNCHANGED <<store, dirty, view, made, timer, sync, enabled, known, failed, files,
                     manifest, stored, extras>>
      /\ request' = [request EXCEPT ![t] = None] /\ left' = left \cup {DeviceOf[t]}
  BY DEF Dismiss, local, replicas, remote
<1>2. LocalPart' /\ RemotePart' /\ RequestPart' /\ SyncPart' /\ ConfirmedPart'
  BY <1>1, LocalKept, RemoteKept, RequestKept, SyncKept, ConfirmedKept DEF Inv, Grows
<1>3. OtherTypes'
  BY <1>1, TabDevice DEF Inv, OtherTypes
<1> QED
  BY <1>2, <1>3 DEF Inv

LEMMA ReloadInv ==
  ASSUME Inv, NEW t \in Tabs, Reload(t)
  PROVE  Inv'
<1> DEFINE d == DeviceOf[t]
<1>1. d \in Devices /\ extras' \in Tallies
  BY TabDevice, Counts DEF Reload
<1>2. /\ UNCHANGED <<store, dirty, made, enabled, known, failed, files, manifest, stored>>
      /\ request' = [request EXCEPT ![t] = None] /\ left' = left \ {d}
      /\ view' = [view EXCEPT ![t] = store[d].edits] /\ timer' = [timer EXCEPT ![t] = TRUE]
      /\ sync' = sync \/ sync' = [sync EXCEPT ![d] = NoSync]
  BY DEF Reload, replicas, remote
<1>3. Grows /\ LocalPart' /\ RemotePart' /\ RequestPart' /\ ConfirmedPart'
  BY <1>2, LocalKept, RemoteKept, RequestKept, ConfirmedKept DEF Inv, Grows
<1>4. SyncPart'
  BY <1>1, <1>2, <1>3, SyncKept, SyncEnds DEF Inv
<1>5. OtherTypes'
  <2>1. store[d].edits \in SUBSET Edits
    BY <1>1 DEF Inv, LocalPart, Snapshots
  <2> QED
    BY <1>1, <1>2, <2>1 DEF Inv, OtherTypes
<1> QED
  BY <1>3, <1>4, <1>5 DEF Inv

LEMMA DeleteReplicaInv ==
  ASSUME Inv, NEW d \in Devices, DeleteReplica(d)
  PROVE  Inv'
<1>1. PICK b \in enabled[d] :
        /\ files' = [files EXCEPT ![b] = {}]
        /\ manifest' = [c \in Drives |-> IF c = b THEN None ELSE manifest[c]]
        /\ enabled' = [enabled EXCEPT ![d] = @ \ {b}]
        /\ known' = [known EXCEPT ![d][b] = None]
        /\ failed' = [failed EXCEPT ![d] = @ \ {b}]
        /\ left' = IF Carries(d, b) THEN left \cup {d} ELSE left
        /\ \E t \in Tabs : Act(t)
  BY DEF DeleteReplica
<1>2. /\ UNCHANGED <<store, dirty, view, made, timer, sync, request, stored>>
      /\ b \in Backends /\ extras' \in Tallies
  BY <1>1, Counts DEF DeleteReplica, local, Inv, OtherTypes
<1>3. Grows /\ LocalPart' /\ RequestPart' /\ SyncPart'
  BY <1>2, LocalKept, RequestKept, SyncKept DEF Inv, Grows
<1>4. RemotePart'
  BY <1>1, <1>2 DEF Inv, RemotePart
<1>5. ConfirmedPart'
  <2>1. known' \in [Devices -> [Backends -> Edits \cup {None}]]
    BY <1>1, <1>2 DEF Inv, ConfirmedPart
  <2>2. \A e \in Devices, c \in Backends : known'[e][c] = None \/ known'[e][c] = known[e][c]
    BY <1>1, <1>2 DEF Inv, ConfirmedPart
  <2> QED
    BY <1>2, <2>1, <2>2 DEF Inv, ConfirmedPart, Seed
<1>6. OtherTypes'
  BY <1>1, <1>2 DEF Inv, OtherTypes
<1> QED
  BY <1>3, <1>4, <1>5, <1>6 DEF Inv

LEMMA PullInv ==
  ASSUME Inv, NEW d \in Devices, Pull(d)
  PROVE  Inv'
<1>0. PICK b \in sync[d].queue : \E reply \in {None, Failed} \cup files[b] :
        Answer(d, b, reply) /\ (Fault \/ extras' = extras)
  <2>1. PICK b \in sync[d].queue :
          \/ files[b] = {} /\ Answer(d, b, None) /\ UNCHANGED extras
          \/ Cardinality(files[b]) = 1 /\ Answer(d, b, CHOOSE s \in files[b] : TRUE)
             /\ UNCHANGED extras
          \/ Cardinality(files[b]) > 1 /\ Answer(d, b, Failed) /\ UNCHANGED extras
          \/ Fault /\ Answer(d, b, Failed)
    BY DEF Pull
  <2>2. CASE files[b] # {}
    <3>1. (CHOOSE s \in files[b] : TRUE) \in files[b]
      BY <2>2
    <3> QED
      BY <2>1, <2>2, <3>1
  <2>3. CASE files[b] = {}
    <3>1. Cardinality(files[b]) = 0
      BY <2>3, FS_EmptySet
    <3> QED
      BY <2>1, <3>1
  <2> QED
    BY <2>2, <2>3
<1>1. PICK reply \in {None, Failed} \cup files[b] :
        Answer(d, b, reply) /\ (Fault \/ extras' = extras)
  BY <1>0
<1>2. /\ sync[d] # NoSync /\ sync[d].phase = "pull" /\ extras' \in Tallies
      /\ UNCHANGED <<store, dirty, view, made, timer, request, enabled, known, files,
                     manifest, stored, left>>
  BY <1>1, Counts DEF Pull, Running, local, remote
<1>3. /\ sync[d] \in Syncs /\ b \in Backends /\ DeviceOf[sync[d].tab] = d /\ SyncFine(d)
  BY <1>1, <1>2, SyncTypes DEF Inv, SyncPart
<1>4. reply \in Replies /\ (reply \in Snapshots => reply \in stored[b])
  BY <1>1, <1>3, SyncAssumption DEF Inv, RemotePart, Replies
<1>5. Grows /\ LocalPart' /\ RemotePart' /\ RequestPart' /\ ConfirmedPart'
  BY <1>2, LocalKept, RemoteKept, RequestKept, ConfirmedKept DEF Inv, Grows
<1> DEFINE fix == IF reply \in Snapshots /\ b \in Drives /\ manifest[b] # reply.id
                  THEN sync[d].repair \cup {b} ELSE sync[d].repair
           x == [sync[d] EXCEPT !.got = [sync[d].got EXCEPT ![b] = reply], !.repair = fix]
<1>6. sync' = [sync EXCEPT ![d] = x]
  BY <1>1 DEF Answer
<1>7. fix \subseteq Drives
  BY <1>3 DEF Syncs
<1> HIDE DEF fix
<1>8. /\ x \in Syncs /\ x.tab = sync[d].tab /\ x.phase = "pull" /\ x.local = sync[d].local
      /\ x.queue = sync[d].queue /\ x.got = [sync[d].got EXCEPT ![b] = reply]
  BY <1>2, <1>3, <1>4, <1>7 DEF Syncs
<1> HIDE DEF x
<1>9. sync'[d] = x
  BY <1>6 DEF Inv, SyncPart
<1>10. \A c \in Backends : x.got[c] \in Snapshots => x.got[c] \in stored'[c]
  BY <1>2, <1>3, <1>4, <1>8 DEF SyncFine, Syncs
<1>11. SyncFine(d)'
  BY <1>2, <1>3, <1>8, <1>9, <1>10 DEF SyncFine
<1>12. SyncPart'
  BY <1>3, <1>5, <1>6, <1>8, <1>11, SyncChanges DEF Inv
<1>13. OtherTypes'
  <2>1. failed' = failed \/ failed' = [failed EXCEPT ![d] = @ \cup {b}]
    BY <1>1 DEF Answer
  <2> QED
    BY <1>2, <1>3, <2>1 DEF Inv, OtherTypes
<1> QED
  BY <1>5, <1>12, <1>13 DEF Inv

\* What a plan finds was stored, hence issued.
LEMMA FoundIsMade ==
  ASSUME Inv, NEW d \in Devices, sync[d] # NoSync, NEW r \in Found(sync[d].got)
  PROVE  r \in made /\ r \in Snapshots /\ \E b \in Backends : sync[d].got[b] = r /\ r \in stored[b]
<1>1. PICK b \in Backends : sync[d].got[b] = r /\ r \in Snapshots
  BY DEF Found
<1>2. SyncFine(d)
  BY DEF Inv, SyncPart
<1>3. r \in stored[b]
  BY <1>1, <1>2 DEF SyncFine
<1> QED
  BY <1>1, <1>3 DEF Inv, RemotePart

\* The device moves to a newer copy: it knows all the device's own counter.
Adopts(d, r) ==
  /\ sync[d] # NoSync /\ sync[d].phase = "pull" /\ ~MustReconcile(sync[d].local, sync[d].got)
  /\ r \in Newer(sync[d].local, sync[d].got) /\ store[d].id = sync[d].local.id
  /\ store' = [store EXCEPT ![d] = r]
  /\ sync' = [sync EXCEPT ![d].local = r, ![d].phase = "apply"]
  /\ dirty' = [dirty EXCEPT ![d] = FALSE]

LEMMA AdoptionAdvances ==
  ASSUME Inv, NEW d \in Devices, NEW r, Adopts(d, r)
  PROVE  /\ r \in made /\ r \in Snapshots /\ r \in Found(sync[d].got)
         /\ Leq(store[d].clock, r.clock) /\ store[d].clock # r.clock
<1>1. r \in Found(sync[d].got) /\ Comparison(sync[d].local, r) = "behind"
  BY DEF Adopts, Newer
<1>2. r \in made /\ r \in Snapshots
  BY <1>1, FoundIsMade DEF Adopts
<1>3. sync[d].local \in made /\ sync[d].local \in Snapshots
  BY SyncTypes DEF Adopts, Inv, SyncPart, SyncFine
<1>4. store[d] = sync[d].local
  BY <1>3 DEF Adopts, Inv, LocalPart, Named
<1> QED
  BY <1>1, <1>2, <1>3, <1>4, Compared

LEMMA AdoptionInv ==
  ASSUME Inv, NEW d \in Devices, NEW r, Adopts(d, r), \A b \in sync[d].queue : sync[d].got[b] # Unasked,
         UNCHANGED <<view, made, timer, request, enabled, known, failed, files, manifest,
                     stored, extras, left>>
  PROVE  Inv'
<1>1. /\ r \in made /\ r \in Snapshots /\ r \in Found(sync[d].got)
      /\ Leq(store[d].clock, r.clock)
  BY AdoptionAdvances
<1>2. Grows /\ RemotePart' /\ RequestPart'
  BY RemoteKept, RequestKept DEF Inv, Grows
<1>3. LocalPart'
  <2>1. store' \in [Devices -> Snapshots] /\ \A e \in Devices : store'[e] \in made
    BY <1>1 DEF Adopts, Inv, LocalPart
  <2>2. KnowsItsOwn'
    <3> SUFFICES ASSUME NEW e \in Devices, NEW s \in made PROVE s.clock[e] <= store'[e].clock[e]
      BY DEF KnowsItsOwn
    <3>1. s.clock[e] <= store[e].clock[e]
      BY DEF Inv, LocalPart, KnowsItsOwn
    <3>2. CASE e # d
      BY <3>1, <3>2 DEF Adopts, Inv, LocalPart
    <3>3. CASE e = d
      <4>1. store'[d] = r /\ store[d].clock[d] <= r.clock[d]
        BY <1>1 DEF Leq, Adopts, Inv, LocalPart
      <4>2. /\ s.clock[d] \in 0..MaxEdits /\ r.clock[d] \in 0..MaxEdits
            /\ store[d].clock[d] \in 0..MaxEdits
        BY <1>1, ClockValues DEF Inv, LocalPart
      <4> QED
        BY <3>1, <3>3, <4>1, <4>2, Numbers
    <3> QED
      BY <3>2, <3>3
  <2> QED
    BY <2>1, <2>2 DEF Inv, LocalPart, Named, Coherent, Seeds
<1>4. SyncPart'
  <2> DEFINE x == [sync[d] EXCEPT !.local = r, !.phase = "apply"]
  <2>1. sync' = [sync EXCEPT ![d] = x] /\ sync[d] # NoSync
    BY DEF Adopts
  <2>2. sync[d] \in Syncs /\ DeviceOf[sync[d].tab] = d /\ SyncFine(d)
    BY <2>1, SyncTypes DEF Inv, SyncPart
  <2>3. /\ x \in Syncs /\ x.tab = sync[d].tab /\ x.phase = "apply" /\ x.local = r
        /\ x.queue = sync[d].queue /\ x.got = sync[d].got
    BY <1>1, <2>2 DEF Syncs, Phases
  <2> HIDE DEF x
  <2>4. sync'[d] = x
    BY <2>1 DEF Inv, SyncPart
  <2>5. Planned(x)
    <3>1. \A b \in Backends : x.got[b] \in Snapshots => x.got[b] \in Found(sync[d].got)
      BY <2>3 DEF Found
    <3>2. \A s \in Found(sync[d].got) : s \in Snapshots
      BY DEF Found
    <3>3. \A s \in Found(sync[d].got) : Comparison(r, s) = "same"
      <4> SUFFICES ASSUME NEW s \in Found(sync[d].got) PROVE Comparison(r, s) = "same"
        OBVIOUS
      <4>1. sync[d].local \in Snapshots
        BY <2>1, SyncTypes DEF Inv
      <4> QED
        BY <1>1, <4>1, PlanIsSafe DEF Adopts
    <3> QED
      BY <2>3, <3>1, <3>3 DEF Planned
  <2>6. \A b \in Backends : x.got[b] \in Snapshots => x.got[b] \in stored'[b]
    BY <2>2, <2>1, <2>3 DEF SyncFine
  <2>7. SyncFine(d)'
    BY <1>1, <2>1, <2>2, <2>3, <2>4, <2>5, <2>6 DEF SyncFine, Planned
  <2> QED
    BY <1>2, <2>1, <2>2, <2>3, <2>7, SyncChanges DEF Inv
<1>5. ConfirmedPart'
  <2>1. \E b \in Backends : r \in stored[b]
    BY <1>1, FoundIsMade DEF Adopts
  <2>2. dirty' \in [Devices -> BOOLEAN] /\ store'[d] = r
    BY DEF Adopts, Inv, ConfirmedPart, LocalPart
  <2>3. \A e \in Devices \ {d} : dirty'[e] = dirty[e] /\ store'[e] = store[e]
    BY DEF Adopts, Inv, ConfirmedPart, LocalPart
  <2>4. \A e \in Devices :
          dirty'[e] \/ store'[e] = Seed(e) \/ \E b \in Backends : store'[e] \in stored'[b]
    BY <2>1, <2>2, <2>3 DEF Inv, ConfirmedPart
  <2> QED
    BY <2>2, <2>4 DEF Inv, ConfirmedPart, Seed
<1>6. OtherTypes'
  BY DEF Inv, OtherTypes
<1> QED
  BY <1>2, <1>3, <1>4, <1>5, <1>6 DEF Inv
LEMMA PlanCases ==
  ASSUME NEW d \in Devices, Plan(d)
  PROVE  /\ sync[d] # NoSync /\ sync[d].phase = "pull"
         /\ \A b \in sync[d].queue : sync[d].got[b] # Unasked
         /\ UNCHANGED <<view, made, enabled, known, failed, files, manifest, stored, extras, left>>
         /\ \/ /\ request' = [request EXCEPT ![sync[d].tab] =
                                [local |-> sync[d].local, remotes |-> Found(sync[d].got)]]
               /\ sync' = [sync EXCEPT ![d] = NoSync] /\ UNCHANGED <<store, dirty, timer>>
            \/ /\ ~MustReconcile(sync[d].local, sync[d].got)
               /\ Newer(sync[d].local, sync[d].got) = {}
               /\ Go(d, "next") /\ UNCHANGED <<store, dirty, timer, request>>
            \/ (\E r : Adopts(d, r)) /\ UNCHANGED <<timer, request>>
            \/ /\ timer' = [timer EXCEPT ![sync[d].tab] = TRUE]
               /\ sync' = [sync EXCEPT ![d] = NoSync] /\ UNCHANGED <<store, dirty, request>>
<1> DEFINE l == sync[d].local
           got == sync[d].got
           t == sync[d].tab
<1>1. /\ sync[d] # NoSync /\ sync[d].phase = "pull" /\ \A b \in sync[d].queue : got[b] # Unasked
      /\ UNCHANGED <<enabled, known, failed, files, manifest, stored, extras, left>>
  BY DEF Plan, Running, replicas, remote, rare
<1>2. CASE /\ request' = [request EXCEPT ![t] = [local |-> l, remotes |-> Found(got)]]
           /\ sync' = [sync EXCEPT ![d] = NoSync]
           /\ UNCHANGED <<local, timer>>
  BY <1>1, <1>2 DEF local
<1>3. CASE /\ ~MustReconcile(l, got) /\ Newer(l, got) = {}
           /\ Go(d, "next") /\ UNCHANGED <<local, timer, request>>
  BY <1>1, <1>3 DEF local
<1>4. CASE /\ ~MustReconcile(l, got) /\ store[d].id = l.id
           /\ \E r \in Newer(l, got) :
                /\ store' = [store EXCEPT ![d] = r]
                /\ sync' = [sync EXCEPT ![d].local = r, ![d].phase = "apply"]
           /\ dirty' = [dirty EXCEPT ![d] = FALSE]
           /\ UNCHANGED <<view, made, timer, request>>
  <2>1. PICK r \in Newer(l, got) :
          /\ store' = [store EXCEPT ![d] = r]
          /\ sync' = [sync EXCEPT ![d].local = r, ![d].phase = "apply"]
    BY <1>4
  <2>2. Adopts(d, r)
    BY <1>1, <1>4, <2>1 DEF Adopts
  <2> QED
    BY <1>1, <1>4, <2>2
<1>5. CASE /\ timer' = [timer EXCEPT ![t] = TRUE]
           /\ sync' = [sync EXCEPT ![d] = NoSync]
           /\ UNCHANGED <<local, request>>
  BY <1>1, <1>5 DEF local
<1> QED
  BY <1>2, <1>3, <1>4, <1>5 DEF Plan

LEMMA PlanInv ==
  ASSUME Inv, NEW d \in Devices, Plan(d)
  PROVE  Inv'
<1>1. /\ sync[d] # NoSync /\ sync[d].phase = "pull"
      /\ \A b \in sync[d].queue : sync[d].got[b] # Unasked
      /\ UNCHANGED <<view, made, enabled, known, failed, files, manifest, stored, extras, left>>
  BY PlanCases
<1>2. /\ sync[d] \in Syncs /\ sync[d].tab \in Tabs /\ DeviceOf[sync[d].tab] = d /\ SyncFine(d)
      /\ sync[d].local \in Snapshots /\ sync[d].local \in made
  BY <1>1, SyncTypes DEF Inv, SyncPart, SyncFine
<1>3. Grows /\ RemotePart'
  BY <1>1, RemoteKept DEF Inv, Grows
<1>4. (store' = store /\ dirty' = dirty) => LocalPart' /\ ConfirmedPart'
  BY <1>1, <1>3, LocalKept, ConfirmedKept DEF Inv
<1>5. request' = request => RequestPart'
  BY <1>3, RequestKept DEF Inv, Grows
<1>6. sync' = [sync EXCEPT ![d] = NoSync] => SyncPart'
  BY <1>3, SyncEnds DEF Inv
<1>7. (timer' = timer \/ timer' = [timer EXCEPT ![sync[d].tab] = TRUE]) => OtherTypes'
  BY <1>1, <1>2 DEF Inv, OtherTypes
<1>8. CASE /\ request' = [request EXCEPT ![sync[d].tab] =
                            [local |-> sync[d].local, remotes |-> Found(sync[d].got)]]
           /\ sync' = [sync EXCEPT ![d] = NoSync] /\ UNCHANGED <<store, dirty, timer>>
  <2> DEFINE asked == [local |-> sync[d].local, remotes |-> Found(sync[d].got)]
  <2>1. Found(sync[d].got) \subseteq made /\ Found(sync[d].got) \subseteq Snapshots
    BY <1>1, FoundIsMade
  <2>2. asked \in Requests /\ asked.local \in made /\ asked.remotes \subseteq made
    BY <1>2, <2>1 DEF Requests
  <2> HIDE DEF asked
  <2>3. RequestPart'
    <3>1. request' = [request EXCEPT ![sync[d].tab] = asked]
      BY <1>8 DEF asked
    <3> QED
      BY <1>1, <1>2, <2>2, <3>1 DEF Inv, RequestPart
  <2> QED
    BY <1>3, <1>4, <1>6, <1>7, <1>8, <2>3 DEF Inv
<1>9. CASE /\ ~MustReconcile(sync[d].local, sync[d].got)
           /\ Newer(sync[d].local, sync[d].got) = {}
           /\ Go(d, "next") /\ UNCHANGED <<store, dirty, timer, request>>
  <2> DEFINE x == [sync[d] EXCEPT !.phase = "next"]
  <2>1. /\ x \in Syncs /\ x.tab = sync[d].tab /\ x.phase = "next" /\ x.local = sync[d].local
        /\ x.queue = sync[d].queue /\ x.got = sync[d].got
    BY <1>2 DEF Syncs, Phases
  <2>2. sync' = [sync EXCEPT ![d] = x]
    BY <1>9 DEF Go
  <2> HIDE DEF x
  <2>3. sync'[d] = x
    BY <2>2 DEF Inv, SyncPart
  <2>4. Planned(x)
    <3>1. \A b \in Backends : sync[d].got[b] \in Snapshots => sync[d].got[b] \in Found(sync[d].got)
      BY DEF Found
    <3>2. \A s \in Found(sync[d].got) : Comparison(sync[d].local, s) \in {"same", "ahead"}
      BY <1>2, <1>9, PlanIsSafe
    <3> QED
      BY <1>1, <2>1, <3>1, <3>2 DEF Planned
  <2>5. SyncFine(d)'
    BY <1>1, <1>2, <2>1, <2>3, <2>4 DEF SyncFine, Planned
  <2>6. SyncPart'
    BY <1>2, <1>3, <2>1, <2>2, <2>5, SyncChanges DEF Inv
  <2> QED
    BY <1>3, <1>4, <1>5, <1>7, <1>9, <2>6 DEF Inv
<1>10. CASE (\E r : Adopts(d, r)) /\ UNCHANGED <<timer, request>>
  BY <1>1, <1>10, AdoptionInv
<1>11. CASE /\ timer' = [timer EXCEPT ![sync[d].tab] = TRUE]
            /\ sync' = [sync EXCEPT ![d] = NoSync] /\ UNCHANGED <<store, dirty, request>>
  BY <1>3, <1>4, <1>5, <1>6, <1>7, <1>11 DEF Inv
<1> QED
  BY <1>8, <1>9, <1>10, <1>11, PlanCases

LEMMA ApplyInv ==
  ASSUME Inv, NEW d \in Devices, Apply(d)
  PROVE  Inv'
<1>1. /\ sync[d] # NoSync /\ sync[d].phase = "apply" /\ Go(d, "next")
      /\ view' = [view EXCEPT ![sync[d].tab] = sync[d].local.edits]
      /\ UNCHANGED <<store, dirty, made, timer, request, enabled, known, failed, files,
                     manifest, stored, extras, left>>
  BY DEF Apply, Running, replicas, remote, rare
<1>2. Grows /\ LocalPart' /\ RemotePart' /\ RequestPart' /\ ConfirmedPart'
  BY <1>1, LocalKept, RemoteKept, RequestKept, ConfirmedKept DEF Inv, Grows
<1>3. SyncPart'
  BY <1>1, <1>2, StayKeeps DEF Inv, Phases
<1>4. OtherTypes'
  <2>1. sync[d].local.edits \in SUBSET Edits /\ sync[d].tab \in Tabs
    BY <1>1, SyncTypes DEF Inv, Snapshots
  <2> QED
    BY <1>1, <2>1 DEF Inv, OtherTypes
<1> QED
  BY <1>2, <1>3, <1>4 DEF Inv

\* The replica in its turn already holds what the synchronization would write.
LEMMA UpToDate ==
  ASSUME Inv, NEW d \in Devices, sync[d] # NoSync, sync[d].phase = "next",
         sync[d].got[Kind(d)] # Failed, ~MustPush(d, Kind(d))
  PROVE  Comparison(sync[d].local, sync[d].got[Kind(d)]) = "same"
         /\ sync[d].got[Kind(d)] \in stored[Kind(d)]
<1> DEFINE b == Kind(d)
<1>1. /\ b \in sync[d].queue /\ b \in Backends /\ sync[d].got \in [Backends -> Replies]
      /\ sync[d].local \in Snapshots /\ SyncFine(d)
  BY SyncTypes DEF Inv, SyncPart
<1>2. sync[d].got[b] # Unasked
  BY <1>1 DEF SyncFine, Planned
<1>3. sync[d].got[b] # None
  BY DEF MustPush, Comparison
<1>4. sync[d].got[b] \in Snapshots
  BY <1>1, <1>2, <1>3 DEF Replies
<1>5. Comparison(sync[d].local, sync[d].got[b]) \in {"same", "ahead"} /\ sync[d].got[b] \in stored[b]
  BY <1>1, <1>4 DEF SyncFine, Planned
<1> QED
  BY <1>5 DEF MustPush

\* Equal clocks and contents are one snapshot.
LEMMA SameIsOne ==
  ASSUME LocalPart, NEW s \in made, NEW r \in made, Comparison(s, r) = "same"
  PROVE  s = r
<1>1. s.clock = r.clock /\ s.edits = r.edits
  BY Compared DEF LocalPart
<1>2. CASE s \in Seeds /\ r \in Seeds
  <2>1. PICK d \in Devices, e \in Devices : s = Seed(d) /\ r = Seed(e)
    BY <1>2 DEF Seeds
  <2>2. s.edits = {<<d, 0>>} /\ r.edits = {<<e, 0>>}
    BY <2>1 DEF Seed
  <2>3. <<d, 0>> = <<e, 0>>
    BY <1>1, <2>2
  <2> QED
    BY <2>1, <2>3
<1> QED
  BY <1>1, <1>2 DEF LocalPart, Coherent

LEMMA TurnInv ==
  ASSUME Inv, NEW d \in Devices, Turn(d)
  PROVE  Inv'
<1> DEFINE b == Kind(d)
<1>1. /\ sync[d] # NoSync /\ sync[d].phase = "next"
      /\ UNCHANGED <<store, dirty, view, made, timer, enabled, known, files, manifest, stored,
                     extras, left>>
  BY DEF Turn, Running, local, remote, rare
<1>2. Grows /\ LocalPart' /\ RemotePart' /\ ConfirmedPart'
  BY <1>1, LocalKept, RemoteKept, ConfirmedKept DEF Inv, Grows
<1>3. b \in Backends /\ sync[d].local \in made /\ stored'[b] = stored[b] /\ SyncFine(d)
  BY <1>1, SyncTypes DEF Inv, SyncPart, SyncFine
<1>9. OtherTypes'
  <2>1. failed' = failed \/ failed' = [failed EXCEPT ![d] = @ \cup {b}]
    BY DEF Turn, FailKind
  <2> QED
    BY <1>1, <1>3, <2>1 DEF Inv, OtherTypes
<1>4. \/ NextKind(d)
      \/ sync[d].got[b] # Failed /\ Stay(d, "write")
      \/ sync[d].got[b] # Failed /\ ~MustPush(d, b) /\ Stay(d, "check")
  BY DEF Turn, FailKind
<1>5. CASE NextKind(d)
  BY <1>1, <1>2, <1>5, <1>9, NextKeeps DEF Inv
<1>6. CASE sync[d].got[b] # Failed /\ Stay(d, "write")
  <2>1. SyncPart'
    BY <1>1, <1>2, <1>6, StayKeeps DEF Inv, Phases, Stay
  <2> QED
    BY <1>2, <1>6, <1>9, <2>1, RequestKept DEF Inv, Stay, Grows
<1>7. CASE sync[d].got[b] # Failed /\ ~MustPush(d, b) /\ Stay(d, "check")
  <2>1. Comparison(sync[d].local, sync[d].got[b]) = "same" /\ sync[d].got[b] \in stored[b]
    BY <1>1, <1>7, UpToDate
  <2>2. sync[d].local = sync[d].got[b]
    BY <1>3, <2>1, SameIsOne DEF Inv, RemotePart
  <2>3. SyncPart'
    BY <1>1, <1>2, <1>3, <1>7, <2>1, <2>2, StayKeeps DEF Inv, Phases, Stay
  <2> QED
    BY <1>2, <1>7, <1>9, <2>3, RequestKept DEF Inv, Stay, Grows
<1> QED
  BY <1>4, <1>5, <1>6, <1>7

\* Whatever else goes wrong with a replica, the others go on.
LEMMA FailKeeps ==
  ASSUME Inv, NEW d \in Devices, sync[d] # NoSync, sync[d].phase # "pull", FailKind(d), Grows
  PROVE  SyncPart' /\ RequestPart' /\ failed' \in [Devices -> SUBSET Backends]
<1>1. NextKind(d) /\ failed' = [failed EXCEPT ![d] = @ \cup {Kind(d)}] /\ Kind(d) \in Backends
  BY SyncTypes DEF FailKind, Inv
<1> QED
  BY <1>1, NextKeeps DEF Inv, OtherTypes

LEMMA PushDataInv ==
  ASSUME Inv, NEW d \in Devices, PushData(d)
  PROVE  Inv'
<1> DEFINE b == Kind(d)
<1>1. /\ sync[d] # NoSync /\ sync[d].phase = "write" /\ extras' \in Tallies
      /\ UNCHANGED <<store, dirty, view, made, timer, enabled, known, manifest, left>>
  BY Counts DEF PushData, Running, local
<1>2. /\ b \in Backends /\ sync[d].local \in made /\ sync[d].local \in Snapshots
      /\ sync[d].got \in [Backends -> Replies] /\ SyncFine(d)
  BY <1>1, SyncTypes DEF Inv, SyncPart, SyncFine
<1>3. \/ /\ Accepts(d, b) /\ Stored(d, b)
         /\ Stay(d, IF b \in Drives THEN "manifest" ELSE "check") /\ UNCHANGED failed
      \/ Accepts(d, b) /\ Stored(d, b) /\ FailKind(d)
      \/ FailKind(d) /\ UNCHANGED <<files, stored>>
  BY DEF PushData
<1>4. ASSUME Accepts(d, b), Stored(d, b)
      PROVE  Grows /\ RemotePart' /\ sync[d].local \in stored'[b]
  <2>1. /\ files' = [files EXCEPT ![b] = (@ \ {sync[d].got[b]}) \cup {sync[d].local}]
        /\ stored' = [stored EXCEPT ![b] = @ \cup {sync[d].local}]
    BY <1>4 DEF Stored
  <2>2. /\ files' \in [Backends -> SUBSET Snapshots] /\ stored' \in [Backends -> SUBSET Snapshots]
        /\ files'[b] = (files[b] \ {sync[d].got[b]}) \cup {sync[d].local}
        /\ stored'[b] = stored[b] \cup {sync[d].local}
        /\ \A c \in Backends \ {b} : files'[c] = files[c] /\ stored'[c] = stored[c]
    BY <1>2, <2>1 DEF Inv, RemotePart
  <2>3. \A c \in Backends : files'[c] \subseteq stored'[c] /\ stored'[c] \subseteq made'
    BY <1>1, <1>2, <2>2 DEF Inv, RemotePart
  <2>4. ASSUME b \notin Duplicating PROVE files'[b] = {sync[d].local}
    <3>1. \A s, r \in files[b] : s = r
      BY <1>2, <2>4 DEF Inv, RemotePart
    <3>2. files[b] \ {sync[d].got[b]} = {}
      BY <1>4, <2>4, <3>1 DEF Accepts
    <3> QED
      BY <2>2, <3>2
  <2>5. \A c \in Backends \ Duplicating : \A s, r \in files'[c] : s = r
    BY <2>2, <2>4 DEF Inv, RemotePart
  <2>6. Grows
    BY <1>1, <2>2 DEF Grows
  <2> QED
    BY <2>2, <2>3, <2>5, <2>6 DEF RemotePart
<1>5. UNCHANGED <<files, stored>> => Grows /\ RemotePart'
  BY <1>1, RemoteKept DEF Inv, Grows
<1>6. Grows /\ RemotePart'
  BY <1>3, <1>4, <1>5
<1>7. LocalPart' /\ ConfirmedPart'
  BY <1>1, <1>6, LocalKept, ConfirmedKept DEF Inv
<1>8. SyncPart' /\ RequestPart' /\ failed' \in [Devices -> SUBSET Backends]
  <2>1. CASE FailKind(d)
    BY <1>1, <1>6, <2>1, FailKeeps
  <2>2. CASE /\ Accepts(d, b) /\ Stored(d, b)
             /\ Stay(d, IF b \in Drives THEN "manifest" ELSE "check") /\ UNCHANGED failed
    <3>1. PICK phase \in {"manifest", "check"} : Stay(d, phase)
      BY <2>2
    <3>2. phase \in Phases \ {"pull"} /\ phase # "write" /\ sync[d].local \in stored'[Kind(d)]
      BY <1>4, <2>2 DEF Phases
    <3>3. SyncPart'
      BY <1>1, <1>6, <3>1, <3>2, StayKeeps DEF Inv, Stay
    <3>4. RequestPart'
      BY <1>6, <3>1, RequestKept DEF Inv, Stay, Grows
    <3> QED
      BY <2>2, <3>3, <3>4 DEF Inv, OtherTypes
  <2> QED
    BY <1>3, <2>1, <2>2
<1>9. OtherTypes'
  BY <1>1, <1>8 DEF Inv, OtherTypes
<1> QED
  BY <1>6, <1>7, <1>8, <1>9 DEF Inv

LEMMA PushManifestInv ==
  ASSUME Inv, NEW d \in Devices, PushManifest(d)
  PROVE  Inv'
<1> DEFINE b == Kind(d)
<1>1. /\ sync[d] # NoSync /\ sync[d].phase = "manifest" /\ extras' \in Tallies
      /\ UNCHANGED <<store, dirty, view, made, timer, enabled, known, files, stored, left>>
  BY Counts DEF PushManifest, Running, local
<1>2. Grows /\ LocalPart' /\ RemotePart' /\ ConfirmedPart'
  BY <1>1, LocalKept, RemoteKept, ConfirmedKept DEF Inv, Grows
<1>3. b \in Backends /\ sync[d].local \in stored'[b] /\ sync[d].local \in Snapshots
  BY <1>1, SyncTypes DEF Inv, SyncPart, SyncFine
<1>4. (Stay(d, "check") /\ UNCHANGED failed) \/ FailKind(d)
  BY DEF PushManifest
<1>5. SyncPart' /\ RequestPart' /\ failed' \in [Devices -> SUBSET Backends]
  <2>1. CASE FailKind(d)
    BY <1>1, <1>2, <2>1, FailKeeps
  <2>2. CASE Stay(d, "check") /\ UNCHANGED failed
    <3>1. SyncPart'
      BY <1>1, <1>2, <1>3, <2>2, StayKeeps DEF Inv, Phases, Stay
    <3> QED
      BY <1>2, <2>2, <3>1, RequestKept DEF Inv, OtherTypes, Stay, Grows
  <2> QED
    BY <1>4, <2>1, <2>2
<1>6. OtherTypes'
  <2>1. manifest' = manifest \/ manifest' = [manifest EXCEPT ![b] = sync[d].local.id]
    BY DEF PushManifest
  <2>2. sync[d].local.id \in Edits
    BY <1>3 DEF Snapshots
  <2>3. manifest' \in [Drives -> Edits \cup {None}]
    BY <2>1, <2>2 DEF Inv, OtherTypes
  <2> QED
    BY <1>1, <1>5, <2>3 DEF Inv, OtherTypes
<1> QED
  BY <1>2, <1>5, <1>6 DEF Inv

LEMMA CheckInv ==
  ASSUME Inv, NEW d \in Devices, Check(d)
  PROVE  Inv'
<1> DEFINE b == Kind(d)
<1>1. /\ sync[d] # NoSync /\ sync[d].phase = "check"
      /\ UNCHANGED <<store, dirty, view, made, enabled, failed, files, manifest, stored,
                     extras, left>>
  BY DEF Check, Running, local, remote, rare
<1>2. Grows /\ LocalPart' /\ RemotePart'
  BY <1>1, LocalKept, RemoteKept DEF Inv, Grows
<1>3. /\ b \in Backends /\ sync[d].local \in stored[b] /\ sync[d].local \in Snapshots
      /\ sync[d].tab \in Tabs
  BY <1>1, SyncTypes DEF Inv, SyncPart, SyncFine
<1>4. \/ /\ known' = [known EXCEPT ![d][b] = sync[d].local.id]
         /\ Stay(d, "confirm") /\ UNCHANGED timer
      \/ /\ timer' = [timer EXCEPT ![sync[d].tab] = TRUE]
         /\ Release(d) /\ UNCHANGED known
  BY DEF Check
<1>5. SyncPart' /\ RequestPart'
  <2>1. CASE Stay(d, "confirm")
    <3>1. SyncPart'
      BY <1>1, <1>2, <1>3, <2>1, StayKeeps DEF Inv, Phases, Stay
    <3> QED
      BY <1>2, <2>1, <3>1, RequestKept DEF Inv, Stay, Grows
  <2>2. CASE Release(d)
    BY <1>2, <1>3, <2>2, SyncEnds, RequestKept DEF Inv, Release, Grows
  <2> QED
    BY <1>4, <2>1, <2>2
<1>6. ConfirmedPart'
  <2>1. CASE UNCHANGED known
    BY <1>1, <1>2, <2>1, ConfirmedKept DEF Inv
  <2>2. CASE known' = [known EXCEPT ![d][b] = sync[d].local.id]
    <3>1. sync[d].local.id \in Edits
      BY <1>3 DEF Snapshots
    <3>2. known' \in [Devices -> [Backends -> Edits \cup {None}]]
      BY <1>3, <2>2, <3>1 DEF Inv, ConfirmedPart
    <3>3. \A e \in Devices, c \in Backends :
            known'[e][c] = IF e = d /\ c = b THEN sync[d].local.id ELSE known[e][c]
      BY <1>3, <2>2 DEF Inv, ConfirmedPart
    <3>4. \A e \in Devices, c \in Backends :
            known'[e][c] = None \/ \E s \in stored[c] : s.id = known'[e][c]
      BY <1>3, <3>3 DEF Inv, ConfirmedPart
    <3> QED
      BY <1>1, <3>2, <3>4 DEF Inv, ConfirmedPart, Seed
  <2> QED
    BY <1>4, <2>1, <2>2
<1>7. OtherTypes'
  BY <1>1, <1>3, <1>4 DEF Inv, OtherTypes
<1> QED
  BY <1>2, <1>5, <1>6, <1>7 DEF Inv

LEMMA ConfirmInv ==
  ASSUME Inv, NEW d \in Devices, Confirm(d)
  PROVE  Inv'
<1>1. /\ sync[d] # NoSync /\ sync[d].phase = "confirm" /\ NextKind(d)
      /\ dirty' = [dirty EXCEPT ![d] = @ /\ store[d].id # sync[d].local.id]
      /\ UNCHANGED <<store, view, made, timer, enabled, known, failed, files, manifest, stored,
                     extras, left>>
  BY DEF Confirm, Running, replicas, remote, rare
<1>2. Grows /\ LocalPart' /\ RemotePart'
  BY <1>1, LocalKept, RemoteKept DEF Inv, Grows
<1>3. SyncPart' /\ RequestPart'
  BY <1>1, <1>2, NextKeeps DEF Inv
<1>4. ConfirmedPart'
  <2>1. /\ sync[d].local \in stored[Kind(d)] /\ sync[d].local \in made /\ Kind(d) \in Backends
        /\ store[d] \in made
    BY <1>1, SyncTypes DEF Inv, SyncPart, SyncFine, LocalPart
  <2>2. store[d].id = sync[d].local.id => store[d] \in stored[Kind(d)]
    BY <2>1 DEF Inv, LocalPart, Named
  <2>3. /\ dirty' \in [Devices -> BOOLEAN]
        /\ dirty'[d] = (dirty[d] /\ store[d].id # sync[d].local.id)
        /\ \A e \in Devices \ {d} : dirty'[e] = dirty[e]
    BY <1>1 DEF Inv, ConfirmedPart
  <2>4. \A e \in Devices :
          dirty'[e] \/ store[e] = Seed(e) \/ \E b \in Backends : store[e] \in stored[b]
    BY <2>1, <2>2, <2>3 DEF Inv, ConfirmedPart
  <2> QED
    BY <1>1, <2>3, <2>4 DEF Inv, ConfirmedPart, Seed
<1>5. OtherTypes'
  BY <1>1 DEF Inv, OtherTypes
<1> QED
  BY <1>2, <1>3, <1>4, <1>5 DEF Inv

LEMMA NextInv == Inv /\ [Next]_vars => Inv'
<1> SUFFICES ASSUME Inv, [Next]_vars PROVE Inv'
  OBVIOUS
<1>1. ASSUME NEW t \in Tabs, User(t) \/ SyncAll(t) PROVE Inv'
  BY <1>1, SaveInv, SyncNowInv, ResolveInv, DismissInv, ReloadInv, SyncAllInv DEF User
<1>2. ASSUME NEW d \in Devices, Sync(d) \/ DeleteReplica(d) PROVE Inv'
  BY <1>2, PullInv, PlanInv, ApplyInv, TurnInv, PushDataInv, PushManifestInv, CheckInv,
     ConfirmInv, DeleteReplicaInv DEF Sync
<1> QED
  BY <1>1, <1>2, UnchangedInv DEF Next

THEOREM InvAlways == Spec => []Inv
BY InitInv, NextInv, PTL DEF Spec

\* Stores, replicas, synchronizations and questions keep their shapes.
THEOREM TypeCorrect == Spec => []TypeOK
BY InvAlways, InvTypes, PTL

\* The report on which the user deletes local data is never early.
THEOREM ConfirmedAlways == Spec => []ConfirmedIsStored
<1>1. Inv => ConfirmedIsStored
  <2> SUFFICES ASSUME Inv PROVE ConfirmedIsStored
    OBVIOUS
  <2>1. \A d \in Devices : store[d].id # None
    BY SyncAssumption DEF Inv, LocalPart, Snapshots
  <2>2. ASSUME NEW d \in Devices, NEW b \in Backends, known[d][b] = store[d].id
        PROVE  store[d] \in stored[b]
    <3>1. PICK s \in stored[b] : s.id = store[d].id
      BY <2>1, <2>2 DEF Inv, ConfirmedPart
    <3> QED
      BY <3>1 DEF Inv, RemotePart, LocalPart, Named
  <2> QED
    BY <2>2 DEF Inv, ConfirmedPart, ConfirmedIsStored
<1> QED
  BY <1>1, InvAlways, PTL

----------------------------------------------------------------------------
(* A clock read as the events it counts                                    *)

LEMMA EventParts ==
  ASSUME NEW e \in Replicas!Events
  PROVE  e[1] \in Devices /\ e[2] \in 1..MaxEdits /\ e = <<e[1], e[2]>>
BY DEF Replicas!Events

LEMMA AbstractKnows ==
  ASSUME NEW s
  PROVE  /\ Abstract(s).knows = {e \in Replicas!Events : e[2] <= s.clock[e[1]]}
         /\ Abstract(s).holds = s.edits
BY DEF Abstract, Replicas!Events

LEMMA AbstractTypes ==
  ASSUME NEW s \in Snapshots
  PROVE  Abstract(s) \in Replicas!Snapshots
<1>1. s.edits \subseteq Replicas!Edits
  BY Numbers DEF Snapshots, Edits, Replicas!Edits
<1> QED
  BY <1>1 DEF Abstract, Replicas!Snapshots, Replicas!Events

\* A larger clock knows more,
LEMMA AbstractGrows ==
  ASSUME NEW r \in Snapshots, NEW s \in Snapshots, Leq(r.clock, s.clock)
  PROVE  Abstract(r).knows \subseteq Abstract(s).knows
<1> SUFFICES ASSUME NEW e \in Replicas!Events, e[2] <= r.clock[e[1]]
             PROVE  e[2] <= s.clock[e[1]]
  BY AbstractKnows
<1>1. e[1] \in Devices /\ e[2] \in 1..MaxEdits
  BY EventParts
<1>2. r.clock[e[1]] \in 0..MaxEdits /\ s.clock[e[1]] \in 0..MaxEdits
  BY <1>1, ClockValues
<1>3. r.clock[e[1]] <= s.clock[e[1]]
  BY <1>1 DEF Leq
<1> QED
  BY <1>1, <1>2, <1>3, Numbers

\* and who knows the same has the same clock.
LEMMA AbstractCounts ==
  ASSUME NEW r \in Snapshots, NEW s \in Snapshots, Abstract(r).knows \subseteq Abstract(s).knows
  PROVE  Leq(r.clock, s.clock)
<1> SUFFICES ASSUME NEW d \in Devices PROVE r.clock[d] <= s.clock[d]
  BY DEF Leq
<1>1. r.clock[d] \in 0..MaxEdits /\ s.clock[d] \in 0..MaxEdits
  BY ClockValues
<1>2. CASE r.clock[d] = 0
  BY <1>1, <1>2, Numbers
<1>3. CASE r.clock[d] # 0
  <2> DEFINE e == <<d, r.clock[d]>>
  <2>1. e \in Replicas!Events /\ e[1] = d /\ e[2] = r.clock[d]
    BY <1>1, <1>3, Numbers DEF Replicas!Events
  <2> HIDE DEF e
  <2>2. e \in Abstract(r).knows
    BY <1>1, <2>1, AbstractKnows, Numbers
  <2>3. e \in Abstract(s).knows
    BY <2>2
  <2> QED
    BY <2>1, <2>3, AbstractKnows
<1> QED
  BY <1>2, <1>3

LEMMA AbstractClock ==
  ASSUME NEW r \in Snapshots, NEW s \in Snapshots, Abstract(r).knows = Abstract(s).knows
  PROVE  r.clock = s.clock
<1>1. \A d \in Devices : r.clock[d] <= s.clock[d] /\ s.clock[d] <= r.clock[d]
  BY AbstractCounts DEF Leq
<1>2. \A d \in Devices : r.clock[d] = s.clock[d]
  <2> SUFFICES ASSUME NEW d \in Devices PROVE r.clock[d] = s.clock[d]
    OBVIOUS
  <2>1. r.clock[d] \in 0..MaxEdits /\ s.clock[d] \in 0..MaxEdits
    BY ClockValues
  <2> QED
    BY <1>1, <2>1, Numbers
<1>3. r.clock \in [Devices -> 0..MaxEdits] /\ s.clock \in [Devices -> 0..MaxEdits]
  BY DEF Snapshots, Clocks
<1> QED
  BY <1>2, <1>3

\* What the code compares is what may give way.
LEMMA AheadSupersedes ==
  ASSUME NEW l \in Snapshots, NEW r \in Snapshots,
         Comparison(l, r) = "same" \/ (Leq(r.clock, l.clock) /\ l.clock # r.clock)
  PROVE  Replicas!Supersedes(Abstract(l), Abstract(r))
<1>1. CASE Comparison(l, r) = "same"
  <2>1. l.clock = r.clock /\ l.edits = r.edits
    BY <1>1, Compared
  <2> QED
    BY <2>1 DEF Abstract, Replicas!Supersedes
<1>2. CASE Leq(r.clock, l.clock) /\ l.clock # r.clock
  BY <1>2, AbstractGrows, AbstractClock DEF Replicas!Supersedes
<1> QED
  BY <1>1, <1>2

----------------------------------------------------------------------------
(* Every step is one of AccountReplicas, or none                           *)

LEMMA InitRefines == Init => Replicas!Init
<1> SUFFICES ASSUME Init PROVE Replicas!Init
  OBVIOUS
<1>1. ASSUME NEW d \in Devices PROVE Abstract(Seed(d)) = Replicas!Seed(d)
  <2>1. \A e \in Devices \X (1..MaxEdits) : ~(e[2] <= Seed(d).clock[e[1]])
    BY Numbers DEF Seed
  <2> QED
    BY <2>1 DEF Abstract, Seed, Replicas!Seed
<1>2. [d \in Devices |-> Abstract(store[d])] = [d \in Devices |-> Replicas!Seed(d)]
  BY <1>1 DEF Init
<1>3. {Abstract(s) : s \in made} = {Replicas!Seed(d) : d \in Devices}
  BY <1>1 DEF Init
<1>4. [b \in Backends |-> {Abstract(s) : s \in files[b]}] = [b \in Backends |-> {}]
  BY DEF Init
<1> QED
  BY <1>2, <1>3, <1>4 DEF Replicas!Init

LEMMA StutterRefines ==
  ASSUME UNCHANGED <<store, made, files>>
  PROVE  UNCHANGED Replicas!vars
BY DEF Replicas!vars

\* The event of a snapshot a device issues is new.
LEMMA IssueRefines ==
  ASSUME Inv, NEW d \in Devices, NEW s, Issues(d, s), UNCHANGED files,
         NEW e, e = <<d, s.clock[d]>>
  PROVE  /\ e \in Replicas!Events /\ Replicas!Issue(d, e)
         /\ s \in Snapshots /\ store'[d] = s
         /\ \A x \in Replicas!Events : x[1] = d =>
              (x[2] <= s.clock[d] <=> x[2] <= store[d].clock[d] \/ x = e)
<1>1. /\ s \in Snapshots /\ s.clock[d] = store[d].clock[d] + 1
      /\ made' = made \cup {s} /\ store' = [store EXCEPT ![d] = s]
      /\ store[d] \in made /\ store[d] \in Snapshots
  BY DEF Issues, Inv, LocalPart
<1>2. s.clock[d] \in 0..MaxEdits /\ store[d].clock[d] \in 0..MaxEdits
  BY <1>1, ClockValues
<1>3. e \in Replicas!Events /\ e[1] = d /\ e[2] = s.clock[d]
  BY <1>1, <1>2, Numbers DEF Replicas!Events
<1>4. store'[d] = s /\ \A f \in Devices \ {d} : store'[f] = store[f]
  BY <1>1 DEF Inv, LocalPart
<1>5. e \in Abstract(s).knows
  BY <1>2, <1>3, AbstractKnows, Numbers
<1>6. \A r \in made : e \notin Abstract(r).knows
  <2> SUFFICES ASSUME NEW r \in made, e \in Abstract(r).knows PROVE FALSE
    OBVIOUS
  <2>1. e[2] <= r.clock[d]
    BY <1>3, AbstractKnows
  <2>2. r.clock[d] <= store[d].clock[d] /\ r.clock[d] \in 0..MaxEdits
    BY ClockValues DEF Inv, LocalPart, KnowsItsOwn
  <2> QED
    BY <1>1, <1>2, <1>3, <2>1, <2>2, Numbers
<1>7. Abstract(s) \in Replicas!Snapshots
  BY <1>1, AbstractTypes
<1>8. [f \in Devices |-> Abstract(store'[f])]
        = [[f \in Devices |-> Abstract(store[f])] EXCEPT ![d] = Abstract(s)]
  BY <1>4
<1>9. {Abstract(r) : r \in made'} = {Abstract(r) : r \in made} \cup {Abstract(s)}
  BY <1>1
<1>10. [f \in Devices |-> Abstract(store'[f])][d] = Abstract(s)
  BY <1>4
<1>11. Replicas!Unknown(e)
  BY <1>6 DEF Replicas!Unknown
<1>12. Replicas!Issue(d, e)
  BY <1>3, <1>5, <1>7, <1>8, <1>9, <1>10, <1>11 DEF Replicas!Issue
<1>13. ASSUME NEW x \in Replicas!Events, x[1] = d
       PROVE  x[2] <= s.clock[d] <=> x[2] <= store[d].clock[d] \/ x = e
  <2>1. x[2] \in 1..MaxEdits /\ (x = e <=> x[2] = s.clock[d])
    BY <1>3, <1>13, EventParts
  <2> QED
    BY <1>1, <1>2, <2>1, Numbers
<1> QED
  BY <1>1, <1>3, <1>4, <1>12, <1>13

LEMMA SaveRefines ==
  ASSUME Inv, NEW t \in Tabs, Save(t)
  PROVE  Replicas!Next
<1> DEFINE d == DeviceOf[t]
           s == Written(t)
           e == <<d, s.clock[d]>>
<1>1. /\ d \in Devices /\ Issues(d, s) /\ e \in s.edits
      /\ \A f \in Devices \ {d} : s.clock[f] = store[d].clock[f]
  BY TabDevice, SaveIssues
<1>2. UNCHANGED files
  BY DEF Save, remote
<1>3. e = <<d, s.clock[d]>>
  OBVIOUS
<1> HIDE DEF d, s, e
<1>4. /\ e \in Replicas!Events /\ Replicas!Issue(d, e) /\ store'[d] = s
      /\ \A x \in Replicas!Events : x[1] = d =>
           (x[2] <= s.clock[d] <=> x[2] <= store[d].clock[d] \/ x = e)
  BY <1>1, <1>2, <1>3, IssueRefines
<1>5. \A x \in Replicas!Events :
        x[2] <= s.clock[x[1]] <=> x[2] <= store[d].clock[x[1]] \/ x = e
  <2> SUFFICES ASSUME NEW x \in Replicas!Events
               PROVE  x[2] <= s.clock[x[1]] <=> x[2] <= store[d].clock[x[1]] \/ x = e
    OBVIOUS
  <2>1. CASE x[1] = d
    BY <1>4, <2>1
  <2>2. CASE x[1] # d
    <3>1. x # e
      BY <1>3, <2>2
    <3> QED
      BY <1>1, <2>2, <3>1, EventParts
  <2> QED
    BY <2>1, <2>2
<1>6. Abstract(s).knows = Abstract(store[d]).knows \cup {e}
  BY <1>4, <1>5, AbstractKnows
<1>7. e \in Abstract(s).holds
  BY <1>1, AbstractKnows
<1>8. Replicas!Edit(d)
  BY <1>1, <1>4, <1>6, <1>7 DEF Replicas!Edit
<1> QED
  BY <1>1, <1>8 DEF Replicas!Next

LEMMA ResolveRefines ==
  ASSUME Inv, NEW t \in Tabs, Resolve(t)
  PROVE  Replicas!Next
<1>1. PICK s : Decides(t, s)
  BY ResolveDecides
<1> DEFINE d == DeviceOf[t]
           asked == {request[t].local} \cup request[t].remotes
           e == <<d, s.clock[d]>>
           met == {a \in {Abstract(r) : r \in made} : a.knows \subseteq Abstract(s).knows}
<1>2. /\ d \in Devices /\ Issues(d, s) /\ store[d] \in asked /\ asked \subseteq made
      /\ \E r \in asked : s.edits = r.edits
      /\ \A f \in Devices \ {d} : \E r \in asked : s.clock[f] = r.clock[f]
      /\ \A f \in Devices : \A r \in asked : r.clock[f] <= s.clock[f]
  BY <1>1, TabDevice DEF Decides
<1>3. UNCHANGED files /\ e = <<d, s.clock[d]>>
  BY DEF Resolve, remote
<1> HIDE DEF d, asked, e
<1>4. /\ e \in Replicas!Events /\ Replicas!Issue(d, e) /\ store'[d] = s /\ s \in Snapshots
      /\ \A x \in Replicas!Events : x[1] = d =>
           (x[2] <= s.clock[d] <=> x[2] <= store[d].clock[d] \/ x = e)
  BY <1>2, <1>3, IssueRefines
<1>5. \A r \in asked : Abstract(r) \in met
  <2> SUFFICES ASSUME NEW r \in asked PROVE Abstract(r) \in met
    OBVIOUS
  <2>1. r \in made /\ r \in Snapshots /\ Leq(r.clock, s.clock)
    BY <1>2 DEF Leq, Inv, LocalPart
  <2> QED
    BY <1>4, <2>1, AbstractGrows
<1>6. e \in Abstract(s).knows
  <2>1. s.clock[d] \in 0..MaxEdits /\ e[1] = d /\ e[2] = s.clock[d]
    BY <1>2, <1>3, <1>4, ClockValues
  <2> QED
    BY <1>4, <2>1, AbstractKnows, Numbers
<1>7. ASSUME NEW x \in Abstract(s).knows PROVE x = e \/ \E a \in met : x \in a.knows
  <2>1. x \in Replicas!Events /\ x[2] <= s.clock[x[1]]
    BY <1>7, AbstractKnows
  <2>2. CASE x[1] = d
    <3>1. x[2] <= store[d].clock[d] \/ x = e
      BY <1>4, <2>1, <2>2
    <3>2. x[2] <= store[d].clock[d] => x \in Abstract(store[d]).knows
      BY <2>1, <2>2, AbstractKnows
    <3> QED
      BY <1>2, <1>5, <3>1, <3>2
  <2>3. CASE x[1] # d
    <3>1. PICK r \in asked : s.clock[x[1]] = r.clock[x[1]]
      BY <1>2, <2>1, <2>3, EventParts
    <3>2. x \in Abstract(r).knows
      BY <2>1, <3>1, AbstractKnows
    <3> QED
      BY <1>5, <3>2
  <2> QED
    BY <2>2, <2>3
<1>8. Abstract(s).knows = (UNION {a.knows : a \in met}) \cup {e}
  BY <1>6, <1>7
<1>9. Abstract(s).holds \in {a.holds : a \in met}
  <2>1. PICK r \in asked : s.edits = r.edits
    BY <1>2
  <2>2. Abstract(r) \in met /\ Abstract(r).holds = Abstract(s).holds
    BY <1>5, <2>1, AbstractKnows
  <2> QED
    BY <2>2
<1>10. Abstract(store[d]) \in met
  BY <1>2, <1>5
<1>11. Replicas!Decide(d)
  BY <1>2, <1>4, <1>8, <1>9, <1>10 DEF Replicas!Decide
<1> QED
  BY <1>2, <1>11 DEF Replicas!Next

LEMMA AdoptionRefines ==
  ASSUME Inv, NEW d \in Devices, NEW r, Adopts(d, r), UNCHANGED <<made, files>>
  PROVE  Replicas!Next
<1>1. /\ r \in made /\ r \in Snapshots /\ Leq(store[d].clock, r.clock)
      /\ store[d].clock # r.clock /\ store[d] \in Snapshots
  BY AdoptionAdvances DEF Inv, LocalPart
<1>2. Replicas!Supersedes(Abstract(r), Abstract(store[d]))
  BY <1>1, AheadSupersedes
<1>3. [f \in Devices |-> Abstract(store'[f])]
        = [[f \in Devices |-> Abstract(store[f])] EXCEPT ![d] = Abstract(r)]
  BY DEF Adopts, Inv, LocalPart
<1>4. Replicas!Adopt(d)
  BY <1>1, <1>2, <1>3 DEF Replicas!Adopt
<1> QED
  BY <1>4 DEF Replicas!Next

\* A conditional write replaces what was pulled, and that is superseded.
LEMMA StoreRefines ==
  ASSUME Inv, NEW d \in Devices, sync[d] # NoSync, sync[d].phase = "write",
         NEW b, b = Kind(d), Accepts(d, b), Stored(d, b), UNCHANGED <<store, made>>
  PROVE  Replicas!Next
<1> DEFINE got == sync[d].got[b]
           l == sync[d].local
<1>1. /\ b \in Backends /\ l \in made /\ l \in Snapshots /\ got \in Replies
      /\ sync[d].phase # "pull" => Planned(sync[d])
      /\ files[b] \subseteq Snapshots
  BY SyncTypes DEF Inv, SyncPart, SyncFine, RemotePart
<1>2. files' = [files EXCEPT ![b] = (@ \ {got}) \cup {l}]
  BY DEF Stored
<1>3. got = None => files[b] = {} \/ b \in Duplicating
  BY DEF Accepts
<1>4. got # None => got \in files[b]
  BY DEF Accepts
<1>5. got \in Snapshots => Comparison(l, got) \in {"same", "ahead"}
  BY <1>1 DEF Planned
<1> HIDE DEF got, l
<1> DEFINE old == {Abstract(s) : s \in files[b]}
           new == {Abstract(s) : s \in (files[b] \ {got}) \cup {l}}
           copies == [c \in Backends |-> {Abstract(s) : s \in files[c]}]
<1>6. copies[b] = old /\ copies' = [copies EXCEPT ![b] = new]
  BY <1>1, <1>2 DEF Inv, RemotePart
<1>7. UNCHANGED <<[f \in Devices |-> Abstract(store[f])], {Abstract(s) : s \in made}>>
  OBVIOUS
<1>12. Abstract(l) \in {Abstract(s) : s \in made}
  BY <1>1
<1> HIDE DEF old, new, copies
<1>8. CASE (old = {} \/ b \in Duplicating) /\ new = old \cup {Abstract(l)}
  <2>1. /\ copies[b] = {} \/ b \in Duplicating
        /\ copies' = [copies EXCEPT ![b] = copies[b] \cup {Abstract(l)}]
    BY <1>6, <1>8
  <2>2. Replicas!Store(b)
    BY <1>7, <1>12, <2>1, Zenon DEF Replicas!Store, copies
  <2> QED
    BY <1>1, <2>2 DEF Replicas!Next
<1>9. CASE /\ got \in files[b] /\ new = (old \ {Abstract(got)}) \cup {Abstract(l)}
  <2>1. got \in Snapshots
    BY <1>1, <1>9
  <2>2. Replicas!Supersedes(Abstract(l), Abstract(got))
    BY <1>1, <1>5, <2>1, AheadSupersedes, Compared
  <2>3. copies' = [copies EXCEPT ![b] = (copies[b] \ {Abstract(got)}) \cup {Abstract(l)}]
    BY <1>6, <1>9
  <2>4. Abstract(got) \in copies[b]
    BY <1>6, <1>9 DEF old
  <2>5. Replicas!Store(b)
    BY <1>7, <1>12, <2>2, <2>3, <2>4, Zenon DEF Replicas!Store, copies
  <2> QED
    BY <1>1, <2>5 DEF Replicas!Next
<1>10. CASE got = None
  <2>1. None \notin files[b]
    BY <1>1, SyncAssumption
  <2>2. new = old \cup {Abstract(l)}
    BY <1>10, <2>1 DEF old, new
  <2> QED
    BY <1>3, <1>8, <1>10, <2>2 DEF old
<1>11. CASE got # None
  <2>1. got \in files[b]
    BY <1>4, <1>11
  <2>2. CASE \E y \in files[b] \ {got} : Abstract(y) = Abstract(got)
    <3>1. PICK y \in files[b] \ {got} : Abstract(y) = Abstract(got)
      BY <2>2
    <3>2. b \in Duplicating
      BY <1>1, <2>1, <3>1 DEF Inv, RemotePart
    <3>3. old = {Abstract(s) : s \in files[b] \ {got}}
      BY <3>1 DEF old
    <3>4. new = old \cup {Abstract(l)}
      BY <3>3 DEF new
    <3> QED
      BY <1>8, <3>2, <3>4
  <2>3. CASE ~\E y \in files[b] \ {got} : Abstract(y) = Abstract(got)
    <3>1. {Abstract(s) : s \in files[b] \ {got}} = old \ {Abstract(got)}
      BY <2>3 DEF old
    <3>2. new = (old \ {Abstract(got)}) \cup {Abstract(l)}
      BY <3>1 DEF new
    <3> QED
      BY <1>9, <2>1, <3>2
  <2> QED
    BY <2>2, <2>3
<1> QED
  BY <1>10, <1>11

LEMMA DeleteRefines ==
  ASSUME Inv, NEW d \in Devices, DeleteReplica(d)
  PROVE  Replicas!Next
<1>1. PICK b \in enabled[d] : files' = [files EXCEPT ![b] = {}]
  BY DEF DeleteReplica
<1>2. b \in Backends /\ UNCHANGED <<store, made>>
  BY DEF Inv, OtherTypes, DeleteReplica, local
<1>3. [c \in Backends |-> {Abstract(s) : s \in files'[c]}]
        = [[c \in Backends |-> {Abstract(s) : s \in files[c]}] EXCEPT ![b] = {}]
  <2>1. files' = [c \in Backends |-> IF c = b THEN {} ELSE files[c]]
    BY <1>1, <1>2 DEF Inv, RemotePart
  <2>2. \A c \in Backends : {Abstract(s) : s \in files'[c]}
                             = IF c = b THEN {} ELSE {Abstract(s) : s \in files[c]}
    BY <2>1
  <2> QED
    BY <2>2
<1>4. Replicas!Forget(b)
  BY <1>2, <1>3 DEF Replicas!Forget
<1> QED
  BY <1>2, <1>4 DEF Replicas!Next

LEMMA StepRefines ==
  ASSUME Inv, [Next]_vars
  PROVE  [Replicas!Next]_(Replicas!vars)
<1>1. ASSUME NEW t \in Tabs, User(t) \/ SyncAll(t) PROVE Replicas!Next \/ UNCHANGED Replicas!vars
  <2>1. CASE Save(t)
    BY <2>1, SaveRefines
  <2>2. CASE Resolve(t)
    BY <2>2, ResolveRefines
  <2>3. CASE SyncAll(t) \/ SyncNow(t) \/ Dismiss(t) \/ Reload(t)
    <3>1. UNCHANGED <<store, made, files>>
      BY <2>3 DEF SyncAll, SyncNow, Begin, Dismiss, Reload, local, remote
    <3> QED
      BY <3>1, StutterRefines
  <2> QED
    BY <1>1, <2>1, <2>2, <2>3 DEF User
<1>2. ASSUME NEW d \in Devices, Sync(d) \/ DeleteReplica(d)
      PROVE  Replicas!Next \/ UNCHANGED Replicas!vars
  <2>1. CASE DeleteReplica(d)
    BY <2>1, DeleteRefines
  <2>2. CASE Plan(d)
    <3>1. CASE \E r : Adopts(d, r)
      BY <2>2, <3>1, PlanCases, AdoptionRefines
    <3>2. CASE ~\E r : Adopts(d, r)
      <4>1. UNCHANGED <<store, made, files>>
        BY <2>2, <3>2, PlanCases
      <4> QED
        BY <4>1, StutterRefines
    <3> QED
      BY <3>1, <3>2
  <2>3. CASE PushData(d)
    <3>1. UNCHANGED <<store, made>> /\ sync[d] # NoSync /\ sync[d].phase = "write"
      BY <2>3 DEF PushData, Running, local
    <3>2. (Accepts(d, Kind(d)) /\ Stored(d, Kind(d))) \/ UNCHANGED files
      BY <2>3 DEF PushData
    <3> QED
      BY <3>1, <3>2, StoreRefines, StutterRefines
  <2>4. CASE Pull(d) \/ Apply(d) \/ Turn(d) \/ PushManifest(d) \/ Check(d) \/ Confirm(d)
    <3>1. UNCHANGED <<store, made, files>>
      BY <2>4 DEF Pull, Apply, Turn, PushManifest, Check, Confirm, local, remote
    <3> QED
      BY <3>1, StutterRefines
  <2> QED
    BY <1>2, <2>1, <2>2, <2>3, <2>4 DEF Sync
<1>3. CASE UNCHANGED vars
  <2>1. UNCHANGED <<store, made, files>>
    BY <1>3 DEF vars, local, remote
  <2> QED
    BY <2>1, StutterRefines
<1> QED
  BY <1>1, <1>2, <1>3 DEF Next

\* The synchronization with its locks, clocks, conditional writes and faults
\* does no more to the copies of an account than AccountReplicas allows.
THEOREM Implements == Spec => ImplementsReplicas
BY InitRefines, StepRefines, InvAlways, PTL DEF Spec, ImplementsReplicas, Replicas!Spec
=============================================================================
