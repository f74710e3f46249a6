-------------------------- MODULE AccountReplicas --------------------------
(***************************************************************************)
(* What the replicas of an account promise, with no clocks, no locks and   *)
(* no messages.  A snapshot is what a device issued: the events it knows   *)
(* (every logical edit it descends from) and the edits its content holds.  *)
(* A stored copy gives way only to a snapshot that knows all it knew, or   *)
(* to the user: concurrent snapshots meet in a decision of the user.       *)
(* AccountSync implements it with vector clocks, compare-and-set           *)
(* transactions and conditional writes.                                    *)
(***************************************************************************)
EXTENDS Naturals

CONSTANTS Devices,       \* browsers with a local account store
          Backends,      \* Google Drive, OneDrive, GitHub
          Duplicating,   \* backends that keep two files of one name
          MaxEdits       \* bound on a device's counter

VARIABLES local,         \* the snapshot of each device
          remote,        \* the copies each backend stores
          issued         \* every snapshot a device ever issued

vars == <<local, remote, issued>>

Events == Devices \X (1..MaxEdits)

\* An edit is named by its event; a device's first content is its edit 0.
Edits == Devices \X Nat

Snapshots == [knows : SUBSET Events, holds : SUBSET Edits]

TypeOK == /\ local \in [Devices -> Snapshots]
          /\ remote \in [Backends -> SUBSET Snapshots]
          /\ issued \subseteq Snapshots

Seed(d) == [knows |-> {}, holds |-> {<<d, 0>>}]

\* s says at least what r says: it is r, or it knows r's events and more.
Supersedes(s, r) == s = r \/ (r.knows \subseteq s.knows /\ r.knows # s.knows)

Unknown(e) == \A s \in issued : e \notin s.knows

Init == /\ local = [d \in Devices |-> Seed(d)]
        /\ remote = [b \in Backends |-> {}]
        /\ issued = {Seed(d) : d \in Devices}

\* Device d issues a snapshot, local'[d], for a new event e of its own.
Issue(d, e) == /\ e[1] = d /\ e \in local'[d].knows /\ Unknown(e)
               /\ local' = [local EXCEPT ![d] = local'[d]]
               /\ issued' = issued \cup {local'[d]}
               /\ local'[d] \in Snapshots
               /\ UNCHANGED remote

\* A logical edit: one event more than the device knew.
Edit(d) == \E e \in Events : /\ Issue(d, e)
                             /\ local'[d].knows = local[d].knows \cup {e}
                             /\ e \in local'[d].holds

\* The user settles a divergence: the new snapshot knows what several knew,
\* this device's among them, and has the content of one of them.
Decide(d) == \E e \in Events :
  LET met == {s \in issued : s.knows \subseteq local'[d].knows} IN
  /\ Issue(d, e) /\ local[d] \in met
  /\ local'[d].knows = (UNION {s.knows : s \in met}) \cup {e}
  /\ local'[d].holds \in {s.holds : s \in met}

\* A device moves to a snapshot that supersedes its own.
Adopt(d) ==
  \E s \in issued : /\ Supersedes(s, local[d])
                    /\ local' = [local EXCEPT ![d] = s]
                    /\ UNCHANGED <<remote, issued>>

\* A backend stores a snapshot: the first, one that supersedes the copy it
\* replaces or, where two files may share a name, one more.
Store(b) ==
  \E s \in issued :
    /\ \/ /\ remote[b] = {} \/ b \in Duplicating
          /\ remote' = [remote EXCEPT ![b] = @ \cup {s}]
       \/ \E r \in remote[b] : /\ Supersedes(s, r)
                               /\ remote' = [remote EXCEPT ![b] = (@ \ {r}) \cup {s}]
    /\ UNCHANGED <<local, issued>>

\* The user deletes what a backend stores.
Forget(b) == /\ remote' = [remote EXCEPT ![b] = {}]
             /\ UNCHANGED <<local, issued>>

Next == \/ \E d \in Devices : Edit(d) \/ Decide(d) \/ Adopt(d)
        \/ \E b \in Backends : Store(b) \/ Forget(b)

Spec == Init /\ [][Next]_vars

----------------------------------------------------------------------------
\* Two snapshots that know the same events are one snapshot, unless neither
\* knows any: a device's counter never names two edits, so equal clocks mean
\* equal content (vectorClock.ts compares nothing else).
Coherent == \A s, r \in issued : s.knows = r.knows => s = r \/ s.knows = {}

\* Nothing circulates that no device issued.
Circulates == /\ \A d \in Devices : local[d] \in issued
              /\ \A b \in Backends : remote[b] \subseteq issued

\* A device knows every event of its own that anybody knows: the counter it
\* increments is never behind one of its own that is out there, so no later
\* edit can be taken for an older one (vectorClock.ts nextAccountManifest).
KnowsItsOwn == \A d \in Devices : \A s \in issued :
                 \A e \in s.knows : e[1] = d => e \in local[d].knows

\* A device never forgets: what it knew, its next snapshot knows
\* (accountLocalStore.ts: every write goes through the clock).
KnowledgeGrows == [][\A d \in Devices : local[d].knows \subseteq local'[d].knows]_vars
=============================================================================
