----------------------- MODULE AccountReplicasProofs -----------------------
(***************************************************************************)
(* What the abstract replicas guarantee for any devices, backends and      *)
(* bound.  All of it passes to AccountSync, which implements them.         *)
(*                                                                         *)
(* The inductive invariant is the conjunction of the named parts: types,   *)
(* Circulates (whatever is local or remote was issued) and KnowsItsOwn.    *)
(* Coherent is inductive beside it: a new snapshot has an event no other   *)
(* has, so it shares its clock with none.                                  *)
(***************************************************************************)
EXTENDS AccountReplicas, TLAPS

Inv == TypeOK /\ Circulates /\ KnowsItsOwn

\* The seeds satisfy the invariant: they know nothing.
LEMMA InitInv == Init => Inv
<1> SUFFICES ASSUME Init PROVE Inv
  OBVIOUS
<1> USE DEF Init
<1>1. TypeOK
  <2>1. \A d \in Devices : Seed(d) \in Snapshots
    <3> TAKE d \in Devices
    <3>1. <<d, 0>> \in Edits
      BY DEF Edits
    <3> HIDE DEF Init
    <3> QED
      BY <3>1 DEF Seed, Snapshots
  <2> QED
    BY <2>1 DEF TypeOK
<1>2. Circulates
  BY DEF Circulates
<1>3. KnowsItsOwn
  BY DEF KnowsItsOwn, Seed
<1> QED
  BY <1>1, <1>2, <1>3 DEF Inv

\* Whoever issues a snapshot keeps the types and circulates only what it issued.
LEMMA IssueCirculates ==
  ASSUME Inv, NEW d \in Devices, NEW e \in Events, Issue(d, e)
  PROVE  TypeOK' /\ Circulates' /\ local'[d] \in issued'
<1> USE DEF Issue
<1>1. TypeOK'
  BY DEF Inv, TypeOK
<1>2. local'[d] \in issued'
  OBVIOUS
<1>3. Circulates'
  BY <1>2 DEF Inv, TypeOK, Circulates
<1> QED
  BY <1>1, <1>2, <1>3

\* A snapshot whose events are its device's own new one, and others that issued
\* snapshots know, leaves every device ahead of its own events.
LEMMA IssueKnowsItsOwn ==
  ASSUME Inv, NEW d \in Devices, NEW e \in Events, Issue(d, e),
         local[d].knows \subseteq local'[d].knows,
         \A f \in local'[d].knows : f = e \/ \E s \in issued : f \in s.knows
  PROVE  KnowsItsOwn'
<1> SUFFICES ASSUME NEW c \in Devices, NEW s \in issued', NEW f \in s.knows, f[1] = c
             PROVE  f \in local'[c].knows
  BY DEF KnowsItsOwn
<1>1. local[c].knows \subseteq local'[c].knows
  BY DEF Inv, TypeOK, Issue
<1>2. CASE s \in issued
  BY <1>1, <1>2 DEF Inv, KnowsItsOwn
<1>3. CASE s = local'[d] /\ c = d
  BY <1>3
<1>4. CASE s = local'[d] /\ c # d
  <2>1. f # e
    BY <1>4 DEF Issue
  <2>2. PICK r \in issued : f \in r.knows
    BY <1>4, <2>1
  <2> QED
    BY <1>1, <2>2 DEF Inv, KnowsItsOwn
<1> QED
  BY <1>2, <1>3, <1>4 DEF Issue

\* An edit's snapshot knows what its device knew, and its own event.
LEMMA EditInv == ASSUME Inv, NEW d \in Devices, Edit(d) PROVE Inv' /\ local[d].knows \subseteq local'[d].knows
<1>1. PICK e \in Events : Issue(d, e) /\ local'[d].knows = local[d].knows \cup {e}
  BY DEF Edit
<1>2. local[d] \in issued
  BY DEF Inv, Circulates
<1>3. KnowsItsOwn'
  BY <1>1, <1>2, IssueKnowsItsOwn
<1> QED
  BY <1>1, <1>3, IssueCirculates DEF Inv

\* A decision's snapshot knows what several knew, and its own event.
LEMMA DecideInv == ASSUME Inv, NEW d \in Devices, Decide(d) PROVE Inv' /\ local[d].knows \subseteq local'[d].knows
<1> DEFINE met == {s \in issued : s.knows \subseteq local'[d].knows}
<1> DEFINE known == UNION {s.knows : s \in met}
<1>1. PICK e \in Events : /\ Issue(d, e) /\ local[d] \in met
                          /\ local'[d].knows = known \cup {e}
  BY DEF Decide
<1>2. \A f \in local'[d].knows : f = e \/ \E s \in issued : f \in s.knows
  <2>1. \A f \in known : \E s \in issued : f \in s.knows
    <3> TAKE f \in known
    <3>1. PICK k \in {s.knows : s \in met} : f \in k
      OBVIOUS
    <3> QED
      BY <3>1
  <2> HIDE DEF known
  <2> QED
    BY <1>1, <2>1
<1>3. local[d].knows \subseteq local'[d].knows
  BY <1>1
<1>4. KnowsItsOwn'
  BY <1>1, <1>2, <1>3, IssueKnowsItsOwn
<1> QED
  BY <1>1, <1>3, <1>4, IssueCirculates DEF Inv

\* What is adopted was issued, and knows what the device knew.
LEMMA AdoptInv == ASSUME Inv, NEW d \in Devices, Adopt(d) PROVE Inv' /\ local[d].knows \subseteq local'[d].knows
<1>1. PICK s \in issued : /\ Supersedes(s, local[d])
                          /\ local' = [local EXCEPT ![d] = s]
                          /\ UNCHANGED <<remote, issued>>
  BY DEF Adopt
<1>2. TypeOK'
  BY <1>1 DEF Inv, TypeOK
<1>3. Circulates'
  BY <1>1 DEF Inv, TypeOK, Circulates
<1>4. \A c \in Devices : local[c].knows \subseteq local'[c].knows
  BY <1>1 DEF Inv, TypeOK, Supersedes
<1>5. KnowsItsOwn'
  BY <1>1, <1>4 DEF Inv, KnowsItsOwn
<1> QED
  BY <1>2, <1>3, <1>4, <1>5 DEF Inv

\* A backend stores what was issued.
LEMMA StoreInv == ASSUME Inv, NEW b \in Backends, Store(b) PROVE Inv'
<1>1. PICK s \in issued : \/ remote' = [remote EXCEPT ![b] = @ \cup {s}]
                          \/ \E r \in remote[b] : remote' = [remote EXCEPT ![b] = (@ \ {r}) \cup {s}]
  BY DEF Store
<1>2. UNCHANGED <<local, issued>>
  BY DEF Store
<1>3. remote' \in [Backends -> SUBSET issued]
  BY <1>1 DEF Inv, TypeOK, Circulates
<1> QED
  BY <1>2, <1>3 DEF Inv, TypeOK, Circulates, KnowsItsOwn

\* Forgetting a replica adds nothing to it.
LEMMA ForgetInv == ASSUME Inv, NEW b \in Backends, Forget(b) PROVE Inv'
BY DEF Forget, Inv, TypeOK, Circulates, KnowsItsOwn

\* No step leaves the invariant.
LEMMA NextInv == Inv /\ [Next]_vars => Inv'
<1> SUFFICES ASSUME Inv, [Next]_vars PROVE Inv'
  OBVIOUS
<1>1. CASE Next
  BY <1>1, EditInv, DecideInv, AdoptInv, StoreInv, ForgetInv DEF Next
<1>2. CASE UNCHANGED vars
  BY <1>2 DEF vars, Inv, TypeOK, Circulates, KnowsItsOwn
<1> QED
  BY <1>1, <1>2

\* Every state has its type, holds only what some device issued, and leaves
\* no device behind an edit of its own (vectorClock.ts nextAccountManifest).
THEOREM ReplicasCorrect == Spec => [](TypeOK /\ Circulates /\ KnowsItsOwn)
<1>1. Inv => TypeOK /\ Circulates /\ KnowsItsOwn
  BY DEF Inv
<1> QED
  BY InitInv, NextInv, <1>1, PTL DEF Spec

\* A new snapshot has an event nobody knew: equal clocks stay equal content.
LEMMA NextCoherent == Coherent /\ [Next]_vars => Coherent'
<1> SUFFICES ASSUME Coherent, [Next]_vars PROVE Coherent'
  OBVIOUS
<1>1. ASSUME NEW d \in Devices, NEW e \in Events, Issue(d, e) PROVE Coherent'
  <2>1. \A s \in issued : s.knows # local'[d].knows
    BY <1>1 DEF Issue, Unknown
  <2>2. issued' = issued \cup {local'[d]}
    BY <1>1 DEF Issue
  <2> QED
    BY <2>1, <2>2 DEF Coherent
<1>2. CASE issued' = issued
  BY <1>2 DEF Coherent
<1>3. CASE \E d \in Devices : Edit(d) \/ Decide(d)
  BY <1>1, <1>3 DEF Edit, Decide
<1>4. CASE \E d \in Devices : Adopt(d)
  BY <1>2, <1>4 DEF Adopt
<1>5. CASE \E b \in Backends : Store(b) \/ Forget(b)
  BY <1>2, <1>5 DEF Store, Forget
<1> QED
  BY <1>2, <1>3, <1>4, <1>5 DEF Next, vars

\* Equal clocks are equal content, the first contents apart: comparing clocks,
\* as compareVectorClocks does, compares what the replicas hold.
THEOREM EqualClocksAreEqualContent == Spec => []Coherent
<1>1. Init => Coherent
  BY DEF Init, Coherent, Seed
<1> QED
  BY <1>1, NextCoherent, PTL DEF Spec

\* No device ever forgets an event, whatever it adopts or the user decides.
THEOREM NoDeviceForgets == Spec => KnowledgeGrows
<1>1. Inv /\ [Next]_vars => [\A d \in Devices : local[d].knows \subseteq local'[d].knows]_vars
  <2> SUFFICES ASSUME Inv, Next, NEW c \in Devices
               PROVE  local[c].knows \subseteq local'[c].knows
    OBVIOUS
  <2>1. ASSUME NEW d \in Devices, Edit(d) \/ Decide(d) \/ Adopt(d)
        PROVE  local[c].knows \subseteq local'[c].knows
    <3>1. local[d].knows \subseteq local'[d].knows
      BY <2>1, EditInv, DecideInv, AdoptInv
    <3>2. c # d => local'[c] = local[c]
      BY <2>1 DEF Edit, Decide, Adopt, Issue, Inv, TypeOK
    <3> QED
      BY <3>1, <3>2
  <2>2. ASSUME NEW b \in Backends, Store(b) \/ Forget(b) PROVE local' = local
    BY <2>2 DEF Store, Forget
  <2> QED
    BY <2>1, <2>2 DEF Next
<1> QED
  BY InitInv, NextInv, <1>1, PTL DEF Spec, KnowledgeGrows
=============================================================================
