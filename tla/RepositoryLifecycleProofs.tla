---------------------- MODULE RepositoryLifecycleProofs ----------------------
(***************************************************************************)
(* Whatever tab closes at whatever step, and for any number of tabs, files *)
(* and copies: no work is lost that no bundle holds, a copy called         *)
(* complete is whole, and a rewrite operation is never stored for a copy   *)
(* that is gone.                                                           *)
(*                                                                         *)
(* The inductive invariant Inv says beside the types what the databases    *)
(* promise each other while a removal is pending, what the flow that holds *)
(* the lock may count on at each of its steps, and what an older clone     *)
(* that still runs knows.                                                  *)
(***************************************************************************)
EXTENDS RepositoryLifecycle, TLAPS

\* The copy being removed is still there.
Target == row # None /\ journal # None /\ row.copy = journal.copy

\* The last fence an operation on the copy was given
LastFence == IF row = None THEN mfence ELSE IF Target THEN row.fence - 1 ELSE row.fence

WorkIn(f) == {w \in {f[p] : p \in Paths} : w \in Work}

MarkedFor(m) == m.copy \in replayed \/ \E x \in markers : x.id = m.id /\ x.copy = m.copy

Tables ==
  /\ row \in Rows \cup {None} /\ files \in [Paths -> Contents] /\ mfence \in Nat
  /\ tombstone \in Removals \cup {None} /\ journal \in Journals \cup {None}
  /\ completion \in Completions \cup {None} /\ receipts \subseteq Receipts
  /\ rwTombstone \in Removals \cup {None} /\ markers \subseteq Removals
  /\ rewrites \subseteq Work /\ safe \subseteq Work
  /\ lock \in Actors \cup {None} /\ replayed \subseteq Copies /\ overtaken \in BOOLEAN
  /\ copies \in 0..MaxCopies /\ worked \in 0..MaxWork /\ backups \in 0..MaxReceipts
  /\ trouble \in 0..MaxTrouble

\* The files of a copy: none before there is a copy, work only ahead of time
\* while it is being cloned, whole once it is complete.
FilesPart ==
  /\ row = None => \A p \in Paths : files[p] = None
  /\ Status("cloning") => \A w \in WorkIn(files) : w.early
  /\ Status("complete") => \A p \in Paths : files[p] # None

\* Copies are numbered as they are made, and fenced from their removal on.
CopyPart ==
  /\ row # None => row.copy <= copies
  /\ journal # None => journal.copy <= copies /\ journal.fence \in 1..mfence
  /\ Target => row.fence = journal.fence /\ tombstone # None
  /\ \A r \in rewrites : r.copy <= copies

\* A bundle holds what a removal deletes.
SafePart ==
  /\ \A r \in receipts : r.rewrites \subseteq safe /\ WorkIn(r.files) \subseteq safe
  /\ journal # None => journal.rewrites \subseteq safe
  /\ Target => WorkIn(files) \subseteq safe

\* A copy that is gone left a marker that refuses its late rewrites, until a
\* replay cleared it.
MarkerPart ==
  /\ \A m \in markers : \A r \in rewrites : r.copy # m.copy
  /\ \A c \in 1..copies : \/ row # None /\ row.copy = c
                          \/ c \in replayed \/ \E m \in markers : m.copy = c
  /\ \A r \in Orphans : r.copy \in replayed
  /\ journal # None /\ journal.phase # "prepared" => MarkedFor(journal)
  /\ journal # None /\ completion # None => journal.phase \in {"finalizing", "finalized"}

Replaying == {"replay", "reFinalize", "reUnmark", "reUntomb", "reJournal", "reClean", "unmark",
              "untomb", "forget"}

Removing == Replaying \cup
  {"prepare", "fence", "fenced", "cancel", "delete", "removed", "deleted", "finalize",
   "complete", "completed", "clean", "settle"}

JournalIs(phases) == journal # None /\ journal.phase \in phases

\* What the flow that removes the copy may count on, by its step
Removal(a) ==
  /\ act[a].at \in Removing => lock = a
  /\ act[a].at = "prepare" => journal = None /\ completion = None
  /\ act[a].at \in {"fence", "fenced", "cancel"} => JournalIs({"prepared"}) /\ completion = None
  /\ act[a].at = "fenced" => MarkedFor(journal)
  /\ act[a].at \in {"delete", "removed"} => JournalIs({"rewrites-fenced"}) /\ completion = None
  /\ act[a].at = "deleted" => JournalIs({"primary-deleted"}) /\ completion = None
  /\ act[a].at = "finalize" => JournalIs({"finalizing"})
  /\ act[a].at \in {"complete", "completed"} => JournalIs({"finalizing", "finalized"})
  /\ act[a].at \in Replaying =>
       /\ \E c \in Completions : act[a].seen = {c}
       /\ journal = None \/ JournalIs({"finalizing", "finalized"})

\* A clone that still runs was given its fence in the past; while it is the
\* last one given, what it fetched is there.
Clone(a) ==
  /\ act[a].at \in {"idle", "create"} => act[a].seen = {}
  /\ act[a].at = "download" =>
       /\ act[a].seen \subseteq Paths /\ act[a].id <= LastFence
       /\ Status("cloning") /\ act[a].id = LastFence => \A p \in act[a].seen : files[p] # None

\* An actor is a record; what it saw depends on its step.
Flow(a) ==
  /\ act[a] = [at |-> act[a].at, id |-> act[a].id, copy |-> act[a].copy, seen |-> act[a].seen]
  /\ act[a].at \in Phases /\ act[a].id \in Nat /\ act[a].copy \in 0..copies
  /\ act[a].at = "rewrite" => act[a].copy # 0

FlowPart ==
  /\ act = [a \in Actors |-> act[a]]
  /\ \A a \in Actors : Flow(a) /\ Removal(a) /\ Clone(a)

Inv == Tables /\ FilesPart /\ CopyPart /\ SafePart /\ MarkerPart /\ FlowPart

----------------------------------------------------------------------------
(* What keeps each part of the invariant                                   *)

LEMMA Bounds == MaxCopies \in Nat /\ MaxWork \in Nat /\ MaxReceipts \in Nat /\ MaxTrouble \in Nat
BY LifecycleAssumption

LEMMA InvTypes == Inv => TypeOK
BY DEF Inv, Tables, FlowPart, Flow, TypeOK

LEMMA RowTypes ==
  ASSUME Tables, row # None
  PROVE  row \in Rows /\ row.copy \in Copies /\ row.copy \in Nat \ {0} /\ row.fence \in Nat
         /\ row.status \in Statuses
BY Bounds DEF Tables, Rows, Copies

LEMMA JournalTypes ==
  ASSUME Tables, journal # None
  PROVE  /\ journal \in Journals /\ journal.copy \in Copies /\ journal.copy \in Nat \ {0}
         /\ journal.fence \in Nat /\ [id |-> journal.id, copy |-> journal.copy] \in Removals
         /\ journal.rewrites \subseteq Work
BY Bounds DEF Tables, Journals, Removals, Copies

LEMMA FilesKept ==
  ASSUME FilesPart, UNCHANGED <<row, files>>
  PROVE  FilesPart'
BY DEF FilesPart, Status, HasRow, WorkIn

LEMMA CopyKept ==
  ASSUME CopyPart, UNCHANGED <<row, journal, tombstone, rewrites, copies, mfence>>
  PROVE  CopyPart'
BY DEF CopyPart, Target

LEMMA SafeKept ==
  ASSUME SafePart, UNCHANGED <<row, journal, files, receipts>>, safe \subseteq safe'
  PROVE  SafePart'
BY DEF SafePart, Target, WorkIn

LEMMA MarkerKept ==
  ASSUME MarkerPart, UNCHANGED <<row, journal, markers, rewrites, copies, replayed>>,
         completion' # None => completion # None
  PROVE  MarkerPart'
BY DEF MarkerPart, Orphans, HasRow, MarkedFor

LEMMA LastFenceType ==
  ASSUME Tables, CopyPart
  PROVE  LastFence \in Nat
<1>1. CASE row = None
  BY <1>1 DEF LastFence, Tables
<1>2. CASE row # None /\ ~Target
  BY <1>2, RowTypes DEF LastFence
<1>3. CASE Target
  <2>1. row.fence = journal.fence /\ journal.fence \in 1..mfence /\ mfence \in Nat /\ row # None
    BY <1>3 DEF Target, CopyPart, Tables
  <2>2. LastFence = row.fence - 1
    BY <1>3, <2>1 DEF LastFence
  <2> QED
    BY <2>1, <2>2
<1> QED
  BY <1>1, <1>2, <1>3

\* Fences go up, and files stay while the last one given stands.
ClonesKept ==
  /\ LastFence' \in Nat /\ LastFence <= LastFence'
  /\ LastFence' = LastFence /\ Status("cloning")' =>
       Status("cloning") /\ \A p \in Paths : files[p] # None => files'[p] # None

LEMMA ClonesStay ==
  ASSUME Tables, CopyPart, UNCHANGED <<row, mfence, files>>,
         journal' = journal \/ (journal # None /\ journal' # None /\ journal'.copy = journal.copy)
  PROVE  ClonesKept
<1>1. LastFence' = LastFence
  BY DEF LastFence, Target
<1> QED
  BY <1>1, LastFenceType DEF ClonesKept, Status, HasRow

\* What the holder of the lock counts on changes only by its own steps.
LockKept(a) ==
  \/ lock \in {a, None}
  \/ /\ UNCHANGED <<lock, journal>> /\ completion' \in {completion, None}
     /\ MarkedFor(journal) => MarkedFor(journal)'

LEMMA FlowsKept ==
  ASSUME Tables, CopyPart, FlowPart, NEW a \in Actors, NEW x, act' = [act EXCEPT ![a] = x],
         ClonesKept, LockKept(a), copies' \in {copies, copies + 1},
         (Flow(a) /\ Removal(a) /\ Clone(a))'
  PROVE  FlowPart'
<1>1. act' = [b \in Actors |-> act'[b]] /\ \A b \in Actors \ {a} : act'[b] = act[b]
  <2>1. act = [b \in Actors |-> act[b]]
    BY DEF FlowPart
  <2> QED
    BY <2>1
<1>2. ASSUME NEW b \in Actors, b # a PROVE (Flow(b) /\ Removal(b) /\ Clone(b))'
  <2>1. act'[b] = act[b] /\ Flow(b) /\ Removal(b) /\ Clone(b)
    BY <1>1, <1>2 DEF FlowPart
  <2>2. Flow(b)'
    <3>1. copies \in Nat
      BY Bounds DEF Tables
    <3> QED
      BY <2>1, <3>1 DEF Flow
  <2>3. Removal(b)'
    <3>1. CASE act[b].at \in Removing
      <4>1. lock = b /\ lock \notin {a, None}
        BY <1>2, <2>1, <3>1, LifecycleAssumption DEF Removal
      <4>2. UNCHANGED <<lock, journal>> /\ completion' \in {completion, None}
            /\ (MarkedFor(journal) => MarkedFor(journal)')
        BY <4>1 DEF LockKept
      <4> QED
        BY <2>1, <4>1, <4>2 DEF Removal, JournalIs
    <3>2. CASE act[b].at \notin Removing
      BY <2>1, <3>2 DEF Removal, Removing
    <3> QED
      BY <3>1, <3>2
  <2>4. Clone(b)'
    <3>1. CASE act[b].at = "download"
      <4>1. /\ act[b].seen \subseteq Paths /\ act[b].id \in Nat /\ act[b].id <= LastFence
            /\ Status("cloning") /\ act[b].id = LastFence => \A p \in act[b].seen : files[p] # None
        BY <2>1, <3>1 DEF Clone, Flow
      <4>2. LastFence \in Nat /\ LastFence' \in Nat /\ LastFence <= LastFence'
        BY LastFenceType DEF ClonesKept
      <4>3. act[b].id <= LastFence' /\ (act[b].id = LastFence' => LastFence' = LastFence)
        BY <4>1, <4>2
      <4>4. Status("cloning")' /\ act[b].id = LastFence' => \A p \in act[b].seen : files'[p] # None
        BY <4>1, <4>3 DEF ClonesKept
      <4> QED
        BY <2>1, <3>1, <4>1, <4>3, <4>4 DEF Clone
    <3>2. CASE act[b].at # "download"
      BY <2>1, <3>2 DEF Clone
    <3> QED
      BY <3>1, <3>2
  <2> QED
    BY <2>2, <2>3, <2>4
<1> QED
  BY <1>1, <1>2 DEF FlowPart

LEMMA GotoFlow ==
  ASSUME FlowPart, NEW a \in Actors, NEW at \in Phases, Goto(a, at)
  PROVE  /\ act' = [act EXCEPT ![a] = [act[a] EXCEPT !.at = at]]
         /\ act'[a].at = at /\ act'[a].id = act[a].id /\ act'[a].copy = act[a].copy
         /\ act'[a].seen = act[a].seen
         /\ act'[a] = [at |-> act'[a].at, id |-> act'[a].id, copy |-> act'[a].copy,
                       seen |-> act'[a].seen]
<1>1. act = [b \in Actors |-> act[b]]
  BY DEF FlowPart
<1>2. act[a] = [at |-> act[a].at, id |-> act[a].id, copy |-> act[a].copy, seen |-> act[a].seen]
  BY DEF FlowPart, Flow
<1>3. act' = [act EXCEPT ![a] = [act[a] EXCEPT !.at = at]]
  BY DEF Goto
<1>4. act'[a] = [act[a] EXCEPT !.at = at]
  BY <1>1, <1>3
<1> QED
  BY <1>2, <1>3, <1>4

\* Who is done has no more to count on.
LEMMA QuitFlow ==
  ASSUME Tables, CopyPart, FlowPart, NEW a \in Actors, Quit(a), ClonesKept,
         copies' \in {copies, copies + 1},
         lock = a \/ (/\ UNCHANGED journal /\ completion' \in {completion, None}
                      /\ MarkedFor(journal) => MarkedFor(journal)')
  PROVE  FlowPart' /\ lock' \in Actors \cup {None}
<1>1. act' = [act EXCEPT ![a] = Idle] /\ lock' = IF lock = a THEN None ELSE lock
  BY DEF Quit
<1>2. act'[a] = Idle
  <2>1. act = [b \in Actors |-> act[b]]
    BY DEF FlowPart
  <2> QED
    BY <1>1, <2>1
<1>3. copies' \in Nat
  BY Bounds DEF Tables
<1>4. (Flow(a) /\ Removal(a) /\ Clone(a))'
  BY <1>2, <1>3 DEF Flow, Removal, Clone, Idle, Phases, Removing, Replaying
<1>5. LockKept(a)
  BY <1>1 DEF LockKept
<1> QED
  BY <1>1, <1>4, <1>5, FlowsKept DEF Tables

\* Nothing changes that the invariant speaks of, but what one actor does.
Still ==
  /\ UNCHANGED <<row, files, mfence, tombstone, journal, completion, rewrites, markers, receipts,
                 copies, worked, backups, safe, replayed, overtaken>>
  /\ rwTombstone' \in {rwTombstone, None} /\ (UNCHANGED trouble \/ Trouble)

LEMMA StillParts ==
  ASSUME Inv, Still
  PROVE  /\ lock' \in Actors \cup {None} => Tables'
         /\ FilesPart' /\ CopyPart' /\ SafePart' /\ MarkerPart' /\ ClonesKept
<1>1. trouble' \in 0..MaxTrouble /\ rwTombstone' \in Removals \cup {None}
  BY Bounds DEF Still, Trouble, Inv, Tables
<1>2. lock' \in Actors \cup {None} => Tables'
  BY <1>1 DEF Still, Inv, Tables
<1>3. FilesPart' /\ CopyPart' /\ SafePart' /\ MarkerPart'
  BY FilesKept, CopyKept, SafeKept, MarkerKept DEF Still, Inv
<1>4. ClonesKept
  BY ClonesStay DEF Still, Inv
<1> QED
  BY <1>2, <1>3, <1>4

\* A step that only moves its actor on
LEMMA Calm ==
  ASSUME Inv, NEW a \in Actors, NEW x, act' = [act EXCEPT ![a] = x], Still,
         lock' = lock \/ lock \in {a, None}, lock' \in Actors \cup {None},
         (Flow(a) /\ Removal(a) /\ Clone(a))'
  PROVE  Inv'
<1>1. LockKept(a)
  BY DEF LockKept, MarkedFor, Still
<1>2. FlowPart'
  BY <1>1, StillParts, FlowsKept DEF Inv, Still
<1> QED
  BY <1>2, StillParts DEF Inv

LEMMA CalmQuit ==
  ASSUME Inv, NEW a \in Actors, Quit(a), Still
  PROVE  Inv'
<1>1. FlowPart' /\ lock' \in Actors \cup {None}
  BY StillParts, QuitFlow DEF Inv, MarkedFor, Still
<1> QED
  BY <1>1, StillParts DEF Inv

LEMMA GotoFine ==
  ASSUME Tables, FlowPart, NEW a \in Actors, copies' = copies,
         NEW at \in Phases \ {"idle", "create", "download", "rewrite"}, Goto(a, at)
  PROVE  (Flow(a) /\ Clone(a))' /\ act'[a].at = at /\ act'[a].seen = act[a].seen
<1>1. Flow(a)
  BY DEF FlowPart
<1>2. Flow(a)'
  BY <1>1, GotoFlow DEF Flow
<1>3. Clone(a)'
  BY GotoFlow DEF Clone
<1> QED
  BY <1>2, <1>3, GotoFlow

LEMMA CalmGoto ==
  ASSUME Inv, NEW a \in Actors,
         NEW at \in Phases \ {"idle", "create", "download", "rewrite"}, Goto(a, at),
         Still, UNCHANGED lock, Removal(a)'
  PROVE  Inv'
<1>1. (Flow(a) /\ Clone(a))' /\ act' = [act EXCEPT ![a] = [act[a] EXCEPT !.at = at]]
  BY GotoFine, GotoFlow DEF Inv, Still
<1> QED
  BY <1>1, Calm DEF Inv, Tables

LEMMA StillDatabases ==
  ASSUME UNCHANGED <<primary, secondary, receipts, counters, history>>
  PROVE  Still
BY DEF Still, primary, secondary, counters, history

----------------------------------------------------------------------------
(* The invariant holds                                                     *)

LEMMA InitInv == Init => Inv
<1> SUFFICES ASSUME Init PROVE Inv
  OBVIOUS
<1> USE DEF Init
<1>1. Tables
  <2>1. /\ files \in [Paths -> Contents] /\ mfence \in Nat
        /\ {row, tombstone, journal, completion, rwTombstone, lock} \subseteq {None}
    BY DEF Contents
  <2>2. copies \in 0..MaxCopies /\ worked \in 0..MaxWork /\ backups \in 0..MaxReceipts
        /\ trouble \in 0..MaxTrouble
    BY Bounds
  <2> QED
    BY <2>1, <2>2 DEF Tables
<1>2. FilesPart /\ CopyPart /\ SafePart /\ MarkerPart
  BY DEF FilesPart, CopyPart, SafePart, MarkerPart, Status, HasRow, Target, Orphans
<1>3. FlowPart
  BY DEF FlowPart, Flow, Removal, Clone, Idle, Phases, Removing, Replaying
<1> QED
  BY <1>1, <1>2, <1>3 DEF Inv

LEMMA UnchangedInv == Inv /\ UNCHANGED vars => Inv'
<1> SUFFICES ASSUME Inv, UNCHANGED vars PROVE Inv'
  OBVIOUS
<1>1. UNCHANGED <<row, files, mfence, tombstone, journal, completion, rewrites, rwTombstone,
                  markers, receipts, act, lock, copies, worked, backups, trouble, safe,
                  replayed, overtaken>>
  BY DEF vars, primary, secondary, counters, history
<1>2. Tables' /\ FilesPart' /\ CopyPart' /\ SafePart' /\ MarkerPart'
  BY <1>1, FilesKept, CopyKept, SafeKept, MarkerKept DEF Inv, Tables
<1>3. FlowPart'
  <2>1. LastFence' = LastFence /\ Status("cloning")' = Status("cloning")
    BY <1>1 DEF LastFence, Target, Status, HasRow
  <2> QED
    BY <1>1, <2>1 DEF Inv, FlowPart, Flow, Removal, Clone, MarkedFor, JournalIs
<1> QED
  BY <1>2, <1>3 DEF Inv

LEMMA OpenMissingInv ==
  ASSUME Inv, NEW a \in Actors, OpenMissing(a)
  PROVE  Inv'
<1>1. /\ act[a] = Idle /\ Goto(a, "create") /\ copies' = copies
      /\ UNCHANGED <<primary, secondary, receipts, lock, counters, history>>
  BY DEF OpenMissing, counters
<1>2. /\ act' = [act EXCEPT ![a] = [act[a] EXCEPT !.at = "create"]]
      /\ act'[a].at = "create" /\ act'[a].seen = {} /\ act'[a].id = 0 /\ act'[a].copy = 0
      /\ act'[a] = [at |-> act'[a].at, id |-> act'[a].id, copy |-> act'[a].copy,
                       seen |-> act'[a].seen]
  BY <1>1, GotoFlow DEF Inv, Phases, Idle
<1>3. (Flow(a) /\ Removal(a) /\ Clone(a))'
  BY <1>1, <1>2, Bounds DEF Flow, Removal, Clone, Phases, Removing, Replaying, Inv, Tables
<1> QED
  BY <1>1, <1>2, <1>3, StillDatabases, Calm DEF Inv, Tables

LEMMA OpenIncompleteInv ==
  ASSUME Inv, NEW a \in Actors, OpenIncomplete(a)
  PROVE  Inv'
<1>1. Goto(a, "repair") /\ UNCHANGED <<primary, secondary, receipts, lock, counters, history>>
  BY DEF OpenIncomplete
<1>2. act'[a].at = "repair" /\ "repair" \in Phases \ {"idle", "create", "download", "rewrite"}
  BY <1>1, GotoFlow DEF Inv, Phases
<1>3. Removal(a)'
  BY <1>2 DEF Removal, Removing, Replaying
<1> QED
  BY <1>1, <1>2, <1>3, StillDatabases, CalmGoto

LEMMA BeginInv ==
  ASSUME Inv, NEW a \in Actors, Begin(a)
  PROVE  Inv'
<1>1. PICK kind \in {"edit", "rewrite"} : act' = [act EXCEPT ![a].at = kind, ![a].copy = row.copy]
  BY DEF Begin
<1>2. /\ row # None /\ act[a] = Idle
      /\ UNCHANGED <<primary, secondary, receipts, lock, counters, history>> /\ copies' = copies
  BY DEF Begin, Status, HasRow, counters
<1> DEFINE x == [act[a] EXCEPT !.at = kind, !.copy = row.copy]
<1>3. act' = [act EXCEPT ![a] = x]
  BY <1>1
<1>8. x = [at |-> kind, id |-> 0, copy |-> row.copy, seen |-> {}]
  <2> DEFINE z == [act[a] EXCEPT !.at = kind]
  <2>1. z = [at |-> kind, id |-> 0, copy |-> 0, seen |-> {}]
    BY <1>2 DEF Idle
  <2>2. [z EXCEPT !.copy = row.copy] = [at |-> kind, id |-> 0, copy |-> row.copy, seen |-> {}]
    <3> HIDE DEF z
    <3> QED
      BY <2>1
  <2> QED
    BY <2>2
<1>9. copies \in Nat
  BY Bounds DEF Inv, Tables
<1>4. /\ x = [at |-> kind, id |-> 0, copy |-> row.copy, seen |-> {}]
      /\ row.copy \in Nat \ {0} /\ row.copy <= copies /\ copies \in Nat
  BY <1>2, <1>8, <1>9, RowTypes DEF Inv, CopyPart
<1>5. act'[a] = x
  BY <1>3 DEF Inv, FlowPart
<1> HIDE DEF x
<1>6. row.copy \in 0..copies
  BY <1>4
<1>7. (Flow(a) /\ Removal(a) /\ Clone(a))'
  BY <1>2, <1>4, <1>5, <1>6 DEF Flow, Removal, Clone, Phases, Removing, Replaying
<1> QED
  BY <1>2, <1>3, <1>7, StillDatabases, Calm DEF Inv, Tables

\* Where an attempt begins, the databases are as the step counts on.
LEMMA AttemptInv ==
  ASSUME Inv, NEW a \in Actors, NEW receipt \in Nat, Attempt(a, receipt)
  PROVE  Inv'
<1> DEFINE at == IF completion # None THEN "replay"
                 ELSE IF journal # None THEN PhaseNext(journal.phase) ELSE "prepare"
           seen == IF completion = None THEN {} ELSE {completion}
           x == [act[a] EXCEPT !.id = receipt, !.seen = seen, !.at = at]
<1>1. /\ act[a] = Idle /\ lock = None /\ lock' = a /\ act' = [act EXCEPT ![a] = x]
      /\ UNCHANGED <<primary, secondary, receipts, counters, history>>
  BY DEF Attempt
<1>2. /\ x = [at |-> at, id |-> receipt, copy |-> 0, seen |-> seen] /\ act'[a] = x
  <2> HIDE DEF at, seen
  <2> DEFINE y == [act[a] EXCEPT !.id = receipt]
             z == [y EXCEPT !.seen = seen]
  <2>1. y = [at |-> "idle", id |-> receipt, copy |-> 0, seen |-> {}]
    BY <1>1 DEF Idle
  <2>2. z = [at |-> "idle", id |-> receipt, copy |-> 0, seen |-> seen]
    <3> HIDE DEF y
    <3> QED
      BY <2>1
  <2>3. [z EXCEPT !.at = at] = [at |-> at, id |-> receipt, copy |-> 0, seen |-> seen]
    <3> HIDE DEF z
    <3> QED
      BY <2>2
  <2>4. x = [at |-> at, id |-> receipt, copy |-> 0, seen |-> seen]
    BY <2>3
  <2> QED
    <3> HIDE DEF x
    <3> QED
      BY <1>1, <2>4 DEF Inv, FlowPart
<1>3. UNCHANGED <<journal, completion, replayed, markers, copies>> /\ copies \in Nat
  BY <1>1, Bounds DEF primary, secondary, counters, history, Inv, Tables
<1>4. /\ completion # None => at = "replay" /\ \E c \in Completions : seen = {c}
      /\ completion # None => journal = None \/ JournalIs({"finalizing", "finalized"})
  BY DEF Inv, Tables, MarkerPart, JournalIs
<1>5. completion = None /\ journal = None => at = "prepare"
  OBVIOUS
<1>6. ASSUME completion = None, journal # None
      PROVE  \/ at = "fence" /\ journal.phase = "prepared"
             \/ at = "delete" /\ journal.phase = "rewrites-fenced"
             \/ at = "deleted" /\ journal.phase = "primary-deleted"
             \/ at = "finalize" /\ journal.phase = "finalizing"
             \/ at = "complete" /\ journal.phase = "finalized"
  <2>1. journal.phase \in {"prepared", "rewrites-fenced", "primary-deleted", "finalizing", "finalized"}
    BY <1>6, JournalTypes DEF Inv, Journals
  <2> QED
    BY <1>6, <2>1 DEF PhaseNext
<1> HIDE DEF at, seen, x
<1>7. act'[a].at = at /\ act'[a].seen = seen
  BY <1>2
<1>8. at \in Phases /\ at \notin {"rewrite", "idle", "create", "download"}
  BY <1>4, <1>5, <1>6 DEF Phases
<1>9. Flow(a)' /\ Clone(a)'
  BY <1>2, <1>3, <1>8 DEF Flow, Clone
<1>10. Removal(a)'
  <2>1. CASE completion # None
    BY <1>1, <1>3, <1>4, <1>7, <2>1 DEF Removal, JournalIs, Replaying, Removing
  <2>2. CASE completion = None /\ journal = None
    BY <1>1, <1>3, <1>5, <1>7, <2>2 DEF Removal, JournalIs, Replaying, Removing
  <2>3. CASE completion = None /\ journal # None
    BY <1>1, <1>3, <1>6, <1>7, <2>3 DEF Removal, JournalIs, Replaying, Removing
  <2> QED
    BY <2>1, <2>2, <2>3
<1> QED
  BY <1>1, <1>9, <1>10, StillDatabases, Calm

(* The row of the copy, as the operations on it leave it *)

LEMMA RowEnds ==
  ASSUME NEW r \in Rows, NEW s \in Statuses
  PROVE  /\ [r EXCEPT !.status = s, !.lease = "none"] \in Rows
         /\ [r EXCEPT !.status = s, !.lease = "none"].copy = r.copy
         /\ [r EXCEPT !.status = s, !.lease = "none"].fence = r.fence
         /\ [r EXCEPT !.status = s, !.lease = "none"].status = s
BY DEF Rows

LEMMA RowClaimed ==
  ASSUME NEW r \in Rows
  PROVE  /\ [r EXCEPT !.fence = @ + 1, !.lease = "live"] \in Rows
         /\ [r EXCEPT !.fence = @ + 1, !.lease = "live"].copy = r.copy
         /\ [r EXCEPT !.fence = @ + 1, !.lease = "live"].fence = r.fence + 1
         /\ [r EXCEPT !.fence = @ + 1, !.lease = "live"].status = r.status
<1> DEFINE z == [r EXCEPT !.fence = @ + 1]
<1>1. z \in Rows /\ z.copy = r.copy /\ z.fence = r.fence + 1 /\ z.status = r.status
  BY DEF Rows
<1>2. /\ [z EXCEPT !.lease = "live"] \in Rows
      /\ [z EXCEPT !.lease = "live"].copy = z.copy
      /\ [z EXCEPT !.lease = "live"].fence = z.fence
      /\ [z EXCEPT !.lease = "live"].status = z.status
  <2> HIDE DEF z
  <2> QED
    BY <1>1 DEF Rows, Statuses
<1> QED
  BY <1>1, <1>2

LEMMA RowRepairs ==
  ASSUME NEW r \in Rows
  PROVE  /\ [r EXCEPT !.fence = @ + 1, !.status = "repairing", !.lease = "live"] \in Rows
         /\ [r EXCEPT !.fence = @ + 1, !.status = "repairing", !.lease = "live"].copy = r.copy
         /\ [r EXCEPT !.fence = @ + 1, !.status = "repairing", !.lease = "live"].fence = r.fence + 1
         /\ [r EXCEPT !.fence = @ + 1, !.status = "repairing", !.lease = "live"].status = "repairing"
<1> DEFINE z == [r EXCEPT !.fence = @ + 1]
<1>1. z \in Rows /\ z.copy = r.copy /\ z.fence = r.fence + 1 /\ z.status = r.status
  BY DEF Rows
<1>2. /\ [z EXCEPT !.status = "repairing", !.lease = "live"] \in Rows
      /\ [z EXCEPT !.status = "repairing", !.lease = "live"].copy = z.copy
      /\ [z EXCEPT !.status = "repairing", !.lease = "live"].fence = z.fence
      /\ [z EXCEPT !.status = "repairing", !.lease = "live"].status = "repairing"
  <2> HIDE DEF z
  <2> QED
    BY <1>1 DEF Rows, Statuses
<1> QED
  BY <1>1, <1>2

LEMMA RowFenced ==
  ASSUME NEW r \in Rows
  PROVE  /\ [r EXCEPT !.fence = @ + 1, !.lease = "none"] \in Rows
         /\ [r EXCEPT !.fence = @ + 1, !.lease = "none"].copy = r.copy
         /\ [r EXCEPT !.fence = @ + 1, !.lease = "none"].fence = r.fence + 1
         /\ [r EXCEPT !.fence = @ + 1, !.lease = "none"].status = r.status
<1> DEFINE z == [r EXCEPT !.fence = @ + 1]
<1>1. z \in Rows /\ z.copy = r.copy /\ z.fence = r.fence + 1 /\ z.status = r.status
  BY DEF Rows
<1>2. /\ [z EXCEPT !.lease = "none"] \in Rows
      /\ [z EXCEPT !.lease = "none"].copy = z.copy
      /\ [z EXCEPT !.lease = "none"].fence = z.fence
      /\ [z EXCEPT !.lease = "none"].status = z.status
  <2> HIDE DEF z
  <2> QED
    BY <1>1 DEF Rows, Statuses
<1> QED
  BY <1>1, <1>2

\* The copy is the same, its fence only goes up, and nobody removes it.
LEMMA CopyGoesOn ==
  ASSUME Tables, CopyPart, SafePart, MarkerPart, row # None, row' \in Rows, row'.copy = row.copy,
         \/ ~Fenced /\ row'.fence \in {row.fence, row.fence + 1}
         \/ row'.fence = row.fence /\ UNCHANGED files,
         UNCHANGED <<mfence, tombstone, journal, rewrites, markers, receipts, copies, replayed>>,
         completion' = completion, safe \subseteq safe'
  PROVE  /\ CopyPart' /\ SafePart' /\ MarkerPart' /\ row' # None /\ (~Fenced => ~Target)
         /\ ~Fenced => LastFence = row.fence /\ LastFence' = row'.fence
         /\ LastFence \in Nat /\ LastFence' \in Nat /\ LastFence <= LastFence'
         /\ LastFence' = LastFence => row'.fence = row.fence
<1>1. row' # None /\ row.fence \in Nat /\ row'.fence \in Nat
  BY RowTypes, LifecycleAssumption DEF Rows
<1>2. Target' <=> Target
  BY <1>1 DEF Target
<1>3. ~Fenced => ~Target
  BY DEF Fenced, CopyPart
<1>4. CopyPart'
  BY <1>1, <1>2, <1>3 DEF CopyPart
<1>5. SafePart'
  <2>1. Target' => UNCHANGED files
    BY <1>2, <1>3
  <2> QED
    BY <1>2, <2>1 DEF SafePart, WorkIn
<1>6. MarkerPart'
  BY <1>1 DEF MarkerPart, Orphans, HasRow, MarkedFor
<1>7. ~Fenced => LastFence = row.fence /\ LastFence' = row'.fence
  BY <1>1, <1>2, <1>3 DEF LastFence
<1>8. LastFence = IF Target THEN row.fence - 1 ELSE row.fence
  BY DEF LastFence
<1>9. LastFence' = IF Target THEN row'.fence - 1 ELSE row'.fence
  BY <1>1, <1>2 DEF LastFence
<1>10. LastFence \in Nat /\ LastFence' \in Nat /\ LastFence <= LastFence'
       /\ (LastFence' = LastFence => row'.fence = row.fence)
  <2>1. LastFence \in Nat
    BY LastFenceType
  <2>2. CASE ~Fenced
    BY <1>1, <1>7, <2>2
  <2>3. CASE row'.fence = row.fence
    BY <1>1, <1>8, <1>9, <2>1, <2>3
  <2> QED
    BY <2>2, <2>3
<1> QED
  BY <1>1, <1>3, <1>4, <1>5, <1>6, <1>7, <1>10

\* What a lifecycle operation that owns the row knows
LEMMA Owner ==
  ASSUME Inv, NEW a \in Actors, NEW s, Owns(a, s)
  PROVE  /\ row # None /\ ~Fenced /\ ~Target /\ row.status = s /\ act[a].id = row.fence
         /\ LastFence = row.fence /\ row \in Rows /\ row.fence \in Nat
<1>1. row # None /\ ~Fenced /\ row.status = s /\ act[a].id = row.fence
  BY DEF Owns, Status, HasRow
<1>2. ~Target
  BY <1>1 DEF Fenced, Inv, CopyPart
<1> QED
  BY <1>1, <1>2, RowTypes DEF LastFence, Inv

LEMMA TroubleType ==
  ASSUME Tables, trouble' = trouble \/ Trouble
  PROVE  trouble' \in 0..MaxTrouble
BY Bounds DEF Tables, Trouble

LEMMA CreateInv ==
  ASSUME Inv, NEW a \in Actors, Create(a)
  PROVE  Inv'
<1> USE DEF Inv
<1>1. CASE /\ ~HasRow /\ copies < MaxCopies
           /\ copies' = copies + 1 /\ mfence' = mfence + 1
           /\ row' = [copy |-> copies + 1, fence |-> mfence + 1, status |-> "cloning", lease |-> "live"]
           /\ tombstone' = None /\ completion' = None
           /\ act' = [act EXCEPT ![a].at = "download", ![a].id = mfence + 1]
           /\ overtaken' = (overtaken \/ journal # None)
           /\ UNCHANGED lock
  <2>1. /\ row = None /\ copies \in Nat /\ mfence \in Nat /\ act[a].at = "create"
        /\ UNCHANGED <<files, journal, rewrites, rwTombstone, markers, receipts, worked, backups,
                       trouble, safe, replayed>>
    BY <1>1, Bounds DEF Create, HasRow, secondary, Tables
  <2>2. row' \in Rows /\ row' # None /\ copies' \in 0..MaxCopies
    <3>1. row' \in Rows
      BY <1>1, <2>1, Bounds DEF Rows, Copies, Statuses
    <3> QED
      BY <1>1, <2>1, <3>1, Bounds, LifecycleAssumption
  <2>3. row'.copy = copies + 1 /\ row'.fence = mfence + 1 /\ row'.status = "cloning"
    BY <1>1
  <2>4. Tables'
    BY <1>1, <2>1, <2>2 DEF Tables
  <2>5. ~Target /\ ~Target'
    <3>1. journal # None => journal.copy \in Nat /\ journal.copy <= copies
      BY JournalTypes DEF CopyPart
    <3> QED
      BY <2>1, <2>3, <3>1 DEF Target
  <2>6. FilesPart'
    <3>1. \A p \in Paths : files[p] = None
      BY <2>1 DEF FilesPart
    <3>2. WorkIn(files) = {}
      BY <3>1, LifecycleAssumption DEF WorkIn
    <3> QED
      BY <2>1, <2>2, <2>3, <3>1, <3>2 DEF FilesPart, Status, HasRow, WorkIn
  <2>7. CopyPart'
    <3>1. \A r \in rewrites : r.copy \in Nat /\ r.copy <= copies
      BY Bounds DEF CopyPart, Tables, Work, Copies
    <3>2. journal # None => /\ journal.copy \in Nat /\ journal.copy <= copies
                            /\ journal.fence \in Nat /\ journal.fence \in 1..mfence
      BY JournalTypes DEF CopyPart
    <3>3. \A r \in rewrites : r.copy <= copies + 1
      BY <2>1, <3>1
    <3>4. journal # None => journal.copy <= copies + 1 /\ journal.fence \in 1..(mfence + 1)
      BY <2>1, <3>2
    <3> QED
      BY <1>1, <2>1, <2>3, <2>5, <3>3, <3>4 DEF CopyPart
  <2>8. SafePart'
    BY <2>1, <2>5 DEF SafePart
  <2>9. MarkerPart'
    <3>1. \A c \in 1..copies' : \/ row' # None /\ row'.copy = c
                                \/ c \in replayed' \/ \E m \in markers' : m.copy = c
      BY <1>1, <2>1, <2>2, <2>3 DEF MarkerPart
    <3>2. Orphans' \subseteq Orphans
      BY <2>1 DEF Orphans, HasRow
    <3> QED
      BY <1>1, <2>1, <3>1, <3>2 DEF MarkerPart, MarkedFor
  <2>10. ClonesKept /\ LastFence' = mfence + 1
    BY <2>1, <2>2, <2>3, <2>5 DEF ClonesKept, LastFence
  <2>11. LockKept(a)
    BY <1>1, <2>1 DEF LockKept, MarkedFor
  <2> DEFINE x == [act[a] EXCEPT !.at = "download", !.id = mfence + 1]
  <2>12. act' = [act EXCEPT ![a] = x]
    BY <1>1
  <2>13. x = [at |-> "download", id |-> mfence + 1, copy |-> act[a].copy, seen |-> {}]
    <3> DEFINE z == [act[a] EXCEPT !.at = "download"]
    <3>1. act[a] = [at |-> act[a].at, id |-> act[a].id, copy |-> act[a].copy, seen |-> {}]
      BY <2>1 DEF FlowPart, Flow, Clone
    <3>2. z = [at |-> "download", id |-> act[a].id, copy |-> act[a].copy, seen |-> {}]
      BY <3>1
    <3>3. [z EXCEPT !.id = mfence + 1]
           = [at |-> "download", id |-> mfence + 1, copy |-> act[a].copy, seen |-> {}]
      <4> HIDE DEF z
      <4> QED
        BY <3>2
    <3> QED
      BY <3>3
  <2> HIDE DEF x
  <2>14. act'[a] = x
    BY <2>12 DEF FlowPart
  <2>15. act[a].copy \in 0..(copies + 1)
    BY <2>1 DEF FlowPart, Flow
  <2>16. (Flow(a) /\ Removal(a) /\ Clone(a))'
    <3>1. /\ act'[a].at = "download" /\ act'[a].id = mfence + 1 /\ act'[a].copy = act[a].copy
          /\ act'[a].seen = {} /\ mfence + 1 \in Nat
          /\ act'[a] = [at |-> act'[a].at, id |-> act'[a].id, copy |-> act'[a].copy,
                        seen |-> act'[a].seen]
      BY <2>1, <2>13, <2>14
    <3>2. Flow(a)'
      BY <1>1, <2>15, <3>1 DEF Flow, Phases
    <3>3. Removal(a)'
      BY <3>1 DEF Removal, Removing, Replaying
    <3>4. Clone(a)'
      BY <2>1, <2>10, <3>1 DEF Clone
    <3> QED
      BY <3>2, <3>3, <3>4
  <2>17. FlowPart'
    BY <1>1, <2>10, <2>11, <2>12, <2>16, FlowsKept
  <2> QED
    BY <2>4, <2>6, <2>7, <2>8, <2>9, <2>17
<1>2. CASE Quit(a) /\ UNCHANGED <<row, mfence, tombstone, completion, copies, overtaken>>
  <2>1. Still
    BY <1>2 DEF Create, Still, secondary
  <2> QED
    BY <1>2, <2>1, CalmQuit
<1> QED
  BY <1>1, <1>2 DEF Create

LEMMA DownloadInv ==
  ASSUME Inv, NEW a \in Actors, Download(a)
  PROVE  Inv'
<1> USE DEF Inv
<1>0. /\ act[a].at = "download"
      /\ UNCHANGED <<row, mfence, tombstone, journal, completion, rewrites, rwTombstone, markers,
                     receipts, lock, copies, worked, backups, safe, replayed, overtaken>>
  BY DEF Download, secondary, history
<1>1. PICK p \in Paths :
        \/ /\ p \notin act[a].seen /\ Owns(a, "cloning")
           /\ files' = [files EXCEPT ![p] = Branch]
           /\ act' = [act EXCEPT ![a].seen = @ \cup {p}]
           /\ UNCHANGED trouble
        \/ /\ p \notin act[a].seen
           /\ IF Owns(a, "cloning") THEN Trouble ELSE UNCHANGED trouble
           /\ Goto(a, "release") /\ UNCHANGED files
  BY DEF Download
<1>2. CASE /\ p \notin act[a].seen /\ Owns(a, "cloning")
           /\ files' = [files EXCEPT ![p] = Branch]
           /\ act' = [act EXCEPT ![a].seen = @ \cup {p}]
           /\ UNCHANGED trouble
  <2>1. /\ row # None /\ ~Fenced /\ ~Target /\ row.status = "cloning" /\ act[a].id = row.fence
        /\ LastFence = row.fence /\ row \in Rows /\ row.fence \in Nat
    BY <1>2, Owner
  <2>2. CopyPart' /\ SafePart' /\ MarkerPart' /\ LastFence' = row.fence
    BY <1>0, <2>1, CopyGoesOn
  <2>3. files' \in [Paths -> Contents] /\ files'[p] = Branch
        /\ \A q \in Paths \ {p} : files'[q] = files[q]
    BY <1>2 DEF Tables, Contents
  <2>4. Tables'
    BY <1>0, <1>2, <2>3 DEF Tables
  <2>5. Status("cloning") /\ ~Status("complete") /\ Status("cloning")' /\ ~Status("complete")'
    BY <1>0, <2>1 DEF Status, HasRow
  <2>6. FilesPart'
    <3>1. WorkIn(files') \subseteq WorkIn(files)
      BY <2>3, LifecycleAssumption DEF WorkIn
    <3>2. \A w \in WorkIn(files) : w.early
      BY <2>5 DEF FilesPart
    <3> QED
      BY <1>0, <2>1, <2>5, <3>1, <3>2 DEF FilesPart, WorkIn
  <2>7. \A q \in Paths : files[q] # None => files'[q] # None
    BY <2>3, LifecycleAssumption
  <2>8. ClonesKept
    BY <2>1, <2>2, <2>5, <2>7 DEF ClonesKept
  <2>9. LockKept(a)
    BY <1>0 DEF LockKept, MarkedFor
  <2> DEFINE x == [act[a] EXCEPT !.seen = @ \cup {p}]
  <2>10. act' = [act EXCEPT ![a] = x] /\ act'[a] = x
    BY <1>2 DEF FlowPart
  <2>11. x = [at |-> "download", id |-> act[a].id, copy |-> act[a].copy, seen |-> act[a].seen \cup {p}]
    <3>1. act[a] = [at |-> act[a].at, id |-> act[a].id, copy |-> act[a].copy, seen |-> act[a].seen]
      BY DEF FlowPart, Flow
    <3> QED
      BY <1>0, <3>1
  <2> HIDE DEF x
  <2>12. /\ act[a].seen \subseteq Paths /\ act[a].id \in Nat /\ act[a].copy \in 0..copies
         /\ \A q \in act[a].seen : files[q] # None
    BY <1>0, <2>1, <2>5 DEF FlowPart, Flow, Clone
  <2>13. \A q \in act[a].seen \cup {p} : files'[q] # None
    BY <2>3, <2>7, <2>12, LifecycleAssumption
  <2>14. (Flow(a) /\ Removal(a))'
    BY <1>0, <2>10, <2>11, <2>12 DEF Flow, Removal, Phases, Removing, Replaying
  <2>15. Clone(a)'
    BY <2>1, <2>2, <2>10, <2>11, <2>12, <2>13 DEF Clone
  <2>16. FlowPart'
    BY <1>0, <2>8, <2>9, <2>10, <2>14, <2>15, FlowsKept
  <2> QED
    BY <2>2, <2>4, <2>6, <2>16
<1>3. CASE /\ IF Owns(a, "cloning") THEN Trouble ELSE UNCHANGED trouble
           /\ Goto(a, "release") /\ UNCHANGED files
  <2>1. Still
    BY <1>0, <1>3 DEF Still
  <2>2. "release" \in Phases \ {"idle", "create", "download", "rewrite"}
    BY DEF Phases
  <2>3. Removal(a)'
    BY <1>3, <2>2, GotoFlow DEF Removal, Removing, Replaying
  <2> QED
    BY <1>0, <1>3, <2>1, <2>2, <2>3, CalmGoto
<1> QED
  BY <1>1, <1>2, <1>3

LEMMA CloneCompleteInv ==
  ASSUME Inv, NEW a \in Actors, CloneComplete(a)
  PROVE  Inv'
<1> USE DEF Inv
<1>0. /\ act[a].at = "download" /\ act[a].seen = Paths /\ Quit(a)
      /\ UNCHANGED <<files, mfence, tombstone, journal, completion, rewrites, rwTombstone, markers,
                     receipts, copies, worked, backups, trouble, safe, replayed, overtaken>>
  BY DEF CloneComplete, secondary, counters, history
<1>1. CASE Owns(a, "cloning")
  <2>1. /\ row # None /\ ~Fenced /\ row.status = "cloning" /\ act[a].id = row.fence
        /\ LastFence = row.fence /\ row \in Rows /\ row.fence \in Nat
    BY <1>1, Owner
  <2>2. row' = [row EXCEPT !.status = "complete", !.lease = "none"]
    BY <1>1 DEF CloneComplete
  <2>3. row' \in Rows /\ row'.copy = row.copy /\ row'.fence = row.fence /\ row'.status = "complete"
    <3>1. "complete" \in Statuses
      BY DEF Statuses
    <3> QED
      BY <2>1, <2>2, <3>1, RowEnds, Zenon
  <2>4. CopyPart' /\ SafePart' /\ MarkerPart' /\ row' # None /\ LastFence' = LastFence
    BY <1>0, <2>1, <2>3, CopyGoesOn
  <2>5. \A p \in Paths : files[p] # None
    BY <1>0, <2>1 DEF FlowPart, Clone, Status, HasRow
  <2>6. FilesPart'
    BY <1>0, <2>3, <2>4, <2>5 DEF FilesPart, Status
  <2>7. ClonesKept
    BY <2>1, <2>3, <2>4 DEF ClonesKept, Status
  <2>8. FlowPart' /\ lock' \in Actors \cup {None}
    BY <1>0, <2>7, QuitFlow DEF MarkedFor
  <2>9. Tables'
    BY <1>0, <2>3, <2>8 DEF Tables
  <2> QED
    BY <2>4, <2>6, <2>8, <2>9
<1>2. CASE ~Owns(a, "cloning")
  <2>1. Still
    BY <1>0, <1>2 DEF Still, CloneComplete
  <2> QED
    BY <1>0, <2>1, CalmQuit
<1> QED
  BY <1>1, <1>2

LEMMA ReleaseInv ==
  ASSUME Inv, NEW a \in Actors, Release(a)
  PROVE  Inv'
<1> USE DEF Inv
<1> DEFINE owned == Owns(a, "cloning") \/ Owns(a, "repairing")
<1>0. /\ act[a].at \in {"release", "reclaimed"}
      /\ IF act[a].at = "reclaimed" /\ owned THEN Goto(a, "repair") /\ UNCHANGED lock ELSE Quit(a)
      /\ UNCHANGED <<files, mfence, tombstone, journal, completion, rewrites, rwTombstone, markers,
                     receipts, copies, worked, backups, trouble, safe, replayed, overtaken>>
      /\ row' = IF owned THEN [row EXCEPT !.status = "repair-required", !.lease = "none"] ELSE row
  BY DEF Release, secondary, counters, history
<1>1. CASE owned
  <2>1. /\ row # None /\ ~Fenced /\ LastFence = row.fence /\ row \in Rows /\ row.fence \in Nat
    BY <1>1, Owner
  <2>2. row' = [row EXCEPT !.status = "repair-required", !.lease = "none"]
    BY <1>0, <1>1
  <2>3. /\ row' \in Rows /\ row'.copy = row.copy /\ row'.fence = row.fence
        /\ row'.status = "repair-required"
    <3>1. "repair-required" \in Statuses
      BY DEF Statuses
    <3> QED
      BY <2>1, <2>2, <3>1, RowEnds, Zenon
  <2>4. CopyPart' /\ SafePart' /\ MarkerPart' /\ row' # None /\ LastFence' = LastFence
    BY <1>0, <2>1, <2>3, CopyGoesOn
  <2>6. FilesPart'
    BY <1>0, <2>3, <2>4 DEF FilesPart, Status
  <2>7. ClonesKept
    BY <2>1, <2>3, <2>4 DEF ClonesKept, Status
  <2>8. FlowPart' /\ lock' \in Actors \cup {None}
    <3>1. CASE Quit(a)
      BY <1>0, <2>7, <3>1, QuitFlow DEF MarkedFor
    <3>2. CASE Goto(a, "repair") /\ UNCHANGED lock
      <4>1. "repair" \in Phases \ {"idle", "create", "download", "rewrite"}
        BY DEF Phases
      <4>2. (Flow(a) /\ Clone(a))' /\ act'[a].at = "repair"
            /\ act' = [act EXCEPT ![a] = [act[a] EXCEPT !.at = "repair"]]
        BY <1>0, <3>2, <4>1, GotoFine, GotoFlow
      <4>3. Removal(a)'
        BY <4>2 DEF Removal, Removing, Replaying
      <4>4. LockKept(a)
        BY <1>0, <3>2 DEF LockKept, MarkedFor
      <4>5. FlowPart'
        BY <1>0, <2>7, <4>2, <4>3, <4>4, FlowsKept
      <4> QED
        BY <3>2, <4>5 DEF Tables
    <3> QED
      BY <1>0, <3>1, <3>2
  <2>9. Tables'
    BY <1>0, <2>3, <2>8 DEF Tables
  <2> QED
    BY <2>4, <2>6, <2>8, <2>9
<1>2. CASE ~owned
  <2>1. Still /\ Quit(a)
    BY <1>0, <1>2 DEF Still
  <2> QED
    BY <2>1, CalmQuit
<1> QED
  BY <1>1, <1>2

LEMMA OpenExpiredInv ==
  ASSUME Inv, NEW a \in Actors, OpenExpired(a)
  PROVE  Inv'
<1> USE DEF Inv
<1>0. /\ act[a] = Idle /\ row # None /\ ~Fenced
      /\ row' = [row EXCEPT !.fence = @ + 1, !.lease = "live"]
      /\ act' = [act EXCEPT ![a].at = "reclaimed", ![a].id = row.fence + 1]
      /\ UNCHANGED <<files, mfence, tombstone, journal, completion, rewrites, rwTombstone, markers,
                     receipts, lock, copies, worked, backups, trouble, safe, replayed, overtaken>>
  BY DEF OpenExpired, HasRow, secondary, counters, history
<1>1. row \in Rows /\ row.fence \in Nat
  BY <1>0, RowTypes
<1>2. row' \in Rows /\ row'.copy = row.copy /\ row'.fence = row.fence + 1 /\ row'.status = row.status
  BY <1>0, <1>1, RowClaimed, Zenon
<1>3. /\ CopyPart' /\ SafePart' /\ MarkerPart' /\ row' # None
      /\ LastFence \in Nat /\ LastFence' \in Nat /\ LastFence <= LastFence'
      /\ LastFence' = LastFence => row'.fence = row.fence
  BY <1>0, <1>1, <1>2, CopyGoesOn
<1>4. FilesPart'
  BY <1>0, <1>2, <1>3 DEF FilesPart, Status, HasRow, WorkIn
<1>5. ClonesKept
  <2>1. LastFence' # LastFence
    BY <1>1, <1>2, <1>3
  <2> QED
    BY <1>3, <2>1 DEF ClonesKept
<1>6. LockKept(a)
  BY <1>0 DEF LockKept, MarkedFor
<1> DEFINE x == [act[a] EXCEPT !.at = "reclaimed", !.id = row.fence + 1]
<1>7. x = [at |-> "reclaimed", id |-> row.fence + 1, copy |-> 0, seen |-> {}]
  <2> DEFINE z == [act[a] EXCEPT !.at = "reclaimed"]
  <2>1. z = [at |-> "reclaimed", id |-> 0, copy |-> 0, seen |-> {}]
    BY <1>0 DEF Idle
  <2>2. [z EXCEPT !.id = row.fence + 1]
         = [at |-> "reclaimed", id |-> row.fence + 1, copy |-> 0, seen |-> {}]
    <3> HIDE DEF z
    <3> QED
      BY <2>1
  <2> QED
    BY <2>2
<1>8. act' = [act EXCEPT ![a] = x]
  BY <1>0
<1> HIDE DEF x
<1>9. act'[a] = x
  BY <1>8 DEF FlowPart
<1>10. 0 \in 0..copies'
  BY <1>0, Bounds DEF Tables
<1>11. (Flow(a) /\ Removal(a) /\ Clone(a))'
  <2>1. /\ act'[a].at = "reclaimed" /\ act'[a].id = row.fence + 1 /\ act'[a].copy = 0
        /\ act'[a].seen = {} /\ row.fence + 1 \in Nat
        /\ act'[a] = [at |-> act'[a].at, id |-> act'[a].id, copy |-> act'[a].copy,
                      seen |-> act'[a].seen]
    BY <1>1, <1>7, <1>9
  <2>2. Flow(a)'
    BY <1>10, <2>1 DEF Flow, Phases
  <2>3. Removal(a)' /\ Clone(a)'
    BY <2>1 DEF Removal, Removing, Replaying, Clone
  <2> QED
    BY <2>2, <2>3
<1>12. FlowPart'
  BY <1>0, <1>5, <1>6, <1>8, <1>11, FlowsKept
<1>13. Tables'
  BY <1>0, <1>2 DEF Tables
<1> QED
  BY <1>3, <1>4, <1>12, <1>13

LEMMA RepairInv ==
  ASSUME Inv, NEW a \in Actors, Repair(a)
  PROVE  Inv'
<1> USE DEF Inv
<1> DEFINE looked == {<<p, files[p]>> : p \in Paths}
<1>0. /\ lock = None
      /\ UNCHANGED <<files, mfence, tombstone, journal, completion, rewrites, rwTombstone, markers,
                     receipts, copies, worked, backups, trouble, safe, replayed, overtaken>>
  BY DEF Repair, secondary, counters, history
<1>1. CASE /\ Status("repair-required") /\ ~Fenced
           /\ row' = [row EXCEPT !.fence = @ + 1, !.status = "repairing", !.lease = "live"]
           /\ act' = [act EXCEPT ![a].at = "repairing", ![a].id = row.fence + 1,
                              ![a].seen = looked]
           /\ lock' = a
  <2> HIDE DEF looked
  <2>1. row # None /\ row \in Rows /\ row.fence \in Nat
    BY <1>1, RowTypes DEF Status, HasRow
  <2>2. row' \in Rows /\ row'.copy = row.copy /\ row'.fence = row.fence + 1 /\ row'.status = "repairing"
    BY <1>1, <2>1, RowRepairs, Zenon
  <2>3. /\ CopyPart' /\ SafePart' /\ MarkerPart' /\ row' # None
        /\ LastFence \in Nat /\ LastFence' \in Nat /\ LastFence <= LastFence'
        /\ LastFence' = LastFence => row'.fence = row.fence
    BY <1>0, <1>1, <2>1, <2>2, CopyGoesOn
  <2>4. FilesPart'
    BY <2>2, <2>3 DEF FilesPart, Status
  <2>5. ClonesKept
    BY <2>2, <2>3 DEF ClonesKept, Status
  <2>6. LockKept(a)
    BY <1>0 DEF LockKept
  <2> DEFINE x == [act[a] EXCEPT !.at = "repairing", !.id = row.fence + 1, !.seen = looked]
  <2>7. x = [at |-> "repairing", id |-> row.fence + 1, copy |-> act[a].copy, seen |-> looked]
    <3> DEFINE y == [act[a] EXCEPT !.at = "repairing"]
               z == [y EXCEPT !.id = row.fence + 1]
    <3>1. act[a] = [at |-> act[a].at, id |-> act[a].id, copy |-> act[a].copy, seen |-> act[a].seen]
      BY DEF FlowPart, Flow
    <3>2. y = [at |-> "repairing", id |-> act[a].id, copy |-> act[a].copy, seen |-> act[a].seen]
      BY <3>1
    <3>3. z = [at |-> "repairing", id |-> row.fence + 1, copy |-> act[a].copy, seen |-> act[a].seen]
      <4> HIDE DEF y
      <4> QED
        BY <3>2
    <3>4. [z EXCEPT !.seen = looked]
           = [at |-> "repairing", id |-> row.fence + 1, copy |-> act[a].copy, seen |-> looked]
      <4> HIDE DEF z
      <4> QED
        BY <3>3
    <3> QED
      BY <3>4
  <2>8. act' = [act EXCEPT ![a] = x]
    BY <1>1
  <2> HIDE DEF x
  <2>9. act'[a] = x
    BY <2>8 DEF FlowPart
  <2>10. act[a].copy \in 0..copies
    BY DEF FlowPart, Flow
  <2>11. (Flow(a) /\ Removal(a) /\ Clone(a))'
    BY <1>0, <2>1, <2>7, <2>9, <2>10 DEF Flow, Removal, Clone, Phases, Removing, Replaying
  <2>12. FlowPart'
    BY <1>0, <2>5, <2>6, <2>8, <2>11, FlowsKept
  <2>13. Tables'
    BY <1>0, <1>1, <2>2 DEF Tables
  <2> QED
    BY <2>3, <2>4, <2>12, <2>13
<1>2. CASE Quit(a) /\ UNCHANGED row
  <2>1. Still
    BY <1>0, <1>2 DEF Still
  <2> QED
    BY <1>2, <2>1, CalmQuit
<1> QED
  BY <1>1, <1>2 DEF Repair

LEMMA RepairedInv ==
  ASSUME Inv, NEW a \in Actors, Repaired(a)
  PROVE  Inv'
<1> USE DEF Inv
<1>0. UNCHANGED <<mfence, tombstone, journal, completion, rewrites, rwTombstone, markers,
                  receipts, copies, worked, backups, safe, replayed, overtaken>>
  BY DEF Repaired, secondary, history
<1>1. CASE /\ Owns(a, "repairing")
           /\ files' = [p \in Paths |-> IF files[p] = None THEN Branch ELSE files[p]]
           /\ row' = [row EXCEPT !.status = "complete", !.lease = "none"]
           /\ Quit(a) /\ UNCHANGED trouble
  <2>1. /\ row # None /\ ~Fenced /\ LastFence = row.fence /\ row \in Rows /\ row.fence \in Nat
    BY <1>1, Owner
  <2>2. row' \in Rows /\ row'.copy = row.copy /\ row'.fence = row.fence /\ row'.status = "complete"
    <3>1. "complete" \in Statuses
      BY DEF Statuses
    <3> QED
      BY <1>1, <2>1, <3>1, RowEnds, Zenon
  <2>3. CopyPart' /\ SafePart' /\ MarkerPart' /\ row' # None /\ LastFence' = LastFence
    BY <1>0, <2>1, <2>2, CopyGoesOn
  <2>4. files' \in [Paths -> Contents] /\ \A p \in Paths : files'[p] # None
    BY <1>1, LifecycleAssumption DEF Tables, Contents
  <2>5. FilesPart'
    BY <2>2, <2>3, <2>4 DEF FilesPart, Status
  <2>6. ClonesKept
    BY <2>1, <2>2, <2>3 DEF ClonesKept, Status
  <2>7. FlowPart' /\ lock' \in Actors \cup {None}
    BY <1>0, <1>1, <2>6, QuitFlow DEF MarkedFor
  <2>8. Tables'
    BY <1>0, <1>1, <2>2, <2>4, <2>7 DEF Tables
  <2> QED
    BY <2>3, <2>5, <2>7, <2>8
<1>2. CASE /\ UNCHANGED trouble \/ Trouble
           /\ Goto(a, "release") /\ UNCHANGED <<row, files, lock>>
  <2>1. Still
    BY <1>0, <1>2 DEF Still
  <2>2. "release" \in Phases \ {"idle", "create", "download", "rewrite"}
    BY DEF Phases
  <2>3. Removal(a)'
    BY <1>2, <2>2, GotoFlow DEF Removal, Removing, Replaying
  <2> QED
    BY <1>2, <2>1, <2>2, <2>3, CalmGoto
<1> QED
  BY <1>1, <1>2 DEF Repaired

\* No flow takes a step, and what the flows count on stays.
LEMMA FlowsStay ==
  ASSUME Tables, CopyPart, FlowPart, ClonesKept,
         UNCHANGED <<act, lock, journal, completion, markers, replayed, copies>>
  PROVE  FlowPart'
<1>1. act' = [b \in Actors |-> act'[b]]
  BY DEF FlowPart
<1>2. ASSUME NEW b \in Actors PROVE (Flow(b) /\ Removal(b) /\ Clone(b))'
  <2>1. act'[b] = act[b] /\ Flow(b) /\ Removal(b) /\ Clone(b)
    BY DEF FlowPart
  <2>2. Flow(b)' /\ Removal(b)'
    BY <2>1 DEF Flow, Removal, JournalIs, MarkedFor
  <2>3. Clone(b)'
    <3>1. CASE act[b].at = "download"
      <4>1. /\ act[b].seen \subseteq Paths /\ act[b].id \in Nat /\ act[b].id <= LastFence
            /\ Status("cloning") /\ act[b].id = LastFence => \A p \in act[b].seen : files[p] # None
        BY <2>1, <3>1 DEF Clone, Flow
      <4>2. LastFence \in Nat /\ LastFence' \in Nat /\ LastFence <= LastFence'
        BY LastFenceType DEF ClonesKept
      <4>3. act[b].id <= LastFence' /\ (act[b].id = LastFence' => LastFence' = LastFence)
        BY <4>1, <4>2
      <4>4. Status("cloning")' /\ act[b].id = LastFence' => \A p \in act[b].seen : files'[p] # None
        BY <4>1, <4>3 DEF ClonesKept
      <4> QED
        BY <2>1, <3>1, <4>1, <4>3, <4>4 DEF Clone
    <3>2. CASE act[b].at # "download"
      BY <2>1, <3>2 DEF Clone
    <3> QED
      BY <3>1, <3>2
  <2> QED
    BY <2>2, <2>3
<1> QED
  BY <1>1, <1>2 DEF FlowPart

LEMMA EditInv ==
  ASSUME Inv, NEW a \in Actors, Edit(a)
  PROVE  Inv'
<1> USE DEF Inv
<1>0. /\ Quit(a)
      /\ UNCHANGED <<row, mfence, tombstone, journal, completion, rewrites, rwTombstone, markers,
                     receipts, copies, backups, trouble, replayed, overtaken>>
  BY DEF Edit, secondary
<1>1. ASSUME HasRow, ~Fenced, worked < MaxWork, worked' = worked + 1, NEW p \in Paths,
             files' = [files EXCEPT ![p] =
                  [n |-> worked + 1, copy |-> row.copy, early |-> row.status # "complete"]],
             safe' = safe \cup ({files[p]} \cap Work)
      PROVE  Inv'
  <2> DEFINE w == [n |-> worked + 1, copy |-> row.copy, early |-> row.status # "complete"]
  <2>1. row # None /\ row \in Rows /\ row.fence \in Nat /\ row.copy \in Copies
    BY <1>1, RowTypes DEF HasRow
  <2>2. w \in Work /\ w # None /\ (row.status # "complete" => w.early)
    <3>1. worked + 1 \in 1..MaxWork
      BY <1>1, Bounds DEF Tables
    <3> DEFINE e == row.status # "complete"
    <3>2. e \in BOOLEAN
      OBVIOUS
    <3>3. row.status # "complete" => e
      OBVIOUS
    <3>4. w = [n |-> worked + 1, copy |-> row.copy, early |-> e]
      OBVIOUS
    <3> HIDE DEF w, e
    <3>5. w \in Work /\ w.early = e
      BY <2>1, <3>1, <3>2, <3>4 DEF Work
    <3> QED
      BY <3>3, <3>5, LifecycleAssumption
  <2>3. files' = [files EXCEPT ![p] = w]
    BY <1>1
  <2> HIDE DEF w
  <2>4. /\ files' \in [Paths -> Contents] /\ files'[p] = w
        /\ \A q \in Paths \ {p} : files'[q] = files[q]
    BY <2>2, <2>3 DEF Tables, Contents
  <2>5. CopyPart' /\ SafePart' /\ MarkerPart' /\ LastFence' = LastFence /\ LastFence \in Nat
    BY <1>0, <1>1, <2>1, CopyGoesOn
  <2>6. FilesPart'
    <3>1. row' # None
      BY <1>0, <2>1
    <3>2. Status("cloning")' => \A v \in WorkIn(files') : v.early
      <4> SUFFICES ASSUME Status("cloning")', NEW v \in WorkIn(files') PROVE v.early
        OBVIOUS
      <4>1. Status("cloning") /\ row.status # "complete"
        BY <1>0, <2>1 DEF Status, HasRow
      <4>2. v = w \/ v \in WorkIn(files)
        BY <2>4 DEF WorkIn
      <4> QED
        BY <2>2, <4>1, <4>2 DEF FilesPart
    <3>3. Status("complete")' => \A q \in Paths : files'[q] # None
      BY <1>0, <2>2, <2>4 DEF FilesPart, Status, HasRow
    <3> QED
      BY <3>1, <3>2, <3>3 DEF FilesPart
  <2>7. ClonesKept
    BY <1>0, <2>2, <2>4, <2>5 DEF ClonesKept, Status, HasRow
  <2>8. FlowPart' /\ lock' \in Actors \cup {None}
    BY <1>0, <2>7, QuitFlow DEF MarkedFor
  <2>9. Tables'
    <3>1. worked' \in 0..MaxWork
      BY <1>1, Bounds DEF Tables
    <3>2. safe' \subseteq Work
      BY <1>1 DEF Tables
    <3> QED
      BY <1>0, <2>4, <2>8, <3>1, <3>2 DEF Tables
  <2> QED
    BY <2>5, <2>6, <2>8, <2>9
<1>2. CASE UNCHANGED <<files, worked, safe>>
  <2>1. Still
    BY <1>0, <1>2 DEF Still
  <2> QED
    BY <1>0, <2>1, CalmQuit
<1> QED
  BY <1>1, <1>2 DEF Edit

LEMMA SaveRewriteInv ==
  ASSUME Inv, NEW a \in Actors, SaveRewrite(a)
  PROVE  Inv'
<1> USE DEF Inv
<1>0. /\ act[a].at = "rewrite" /\ Quit(a)
      /\ UNCHANGED <<row, files, mfence, tombstone, journal, completion, rwTombstone, markers,
                     receipts, copies, backups, trouble, safe, replayed, overtaken>>
  BY DEF SaveRewrite, primary, history
<1>1. CASE /\ MaySave(act[a].copy) /\ worked < MaxWork /\ worked' = worked + 1
           /\ rewrites' = rewrites \cup {[n |-> worked + 1, copy |-> act[a].copy, early |-> FALSE]}
  <2> DEFINE w == [n |-> worked + 1, copy |-> act[a].copy, early |-> FALSE]
  <2>1. act[a].copy \in 1..copies /\ copies \in 0..MaxCopies /\ MaxCopies \in Nat
    BY <1>0, Bounds DEF FlowPart, Flow, Tables
  <2>2. w \in Work /\ w.copy = act[a].copy
    <3>1. worked + 1 \in 1..MaxWork
      BY <1>1, Bounds DEF Tables
    <3>2. act[a].copy \in Copies
      BY <2>1 DEF Copies
    <3> QED
      BY <3>1, <3>2 DEF Work
  <2>3. rewrites' = rewrites \cup {w}
    BY <1>1
  <2> HIDE DEF w
  <2>4. Tables'
    <3>1. worked' \in 0..MaxWork
      BY <1>1, Bounds DEF Tables
    <3>2. lock' \in Actors \cup {None}
      BY <1>0 DEF Quit, Tables
    <3> QED
      BY <1>0, <2>2, <2>3, <3>1, <3>2 DEF Tables
  <2>5. FilesPart' /\ SafePart'
    BY <1>0, FilesKept, SafeKept
  <2>6. CopyPart'
    BY <1>0, <2>1, <2>2, <2>3 DEF CopyPart, Target
  <2>7. \A m \in markers : m.copy # w.copy
    BY <1>1, <2>2 DEF MaySave
  <2>8. MarkerPart'
    <3>1. \A r \in Orphans' : r.copy \in replayed'
      <4> SUFFICES ASSUME NEW r \in Orphans' PROVE r.copy \in replayed
        BY <1>0
      <4>1. CASE r \in rewrites
        <5>1. r \in Orphans
          BY <1>0, <4>1 DEF Orphans, HasRow
        <5> QED
          BY <5>1 DEF MarkerPart
      <4>2. CASE r = w
        <5>1. \/ row # None /\ row.copy = w.copy
              \/ w.copy \in replayed \/ \E m \in markers : m.copy = w.copy
          BY <2>1, <2>2 DEF MarkerPart
        <5>2. row # None => row.copy # w.copy
          BY <1>0, <4>2 DEF Orphans, HasRow
        <5> QED
          BY <2>7, <4>2, <5>1, <5>2
      <4> QED
        BY <2>3, <4>1, <4>2 DEF Orphans
    <3>2. \A m \in markers' : \A r \in rewrites' : r.copy # m.copy
      BY <1>0, <2>3, <2>7 DEF MarkerPart
    <3> QED
      BY <1>0, <3>1, <3>2 DEF MarkerPart, MarkedFor
  <2>9. ClonesKept
    BY <1>0, ClonesStay
  <2>10. FlowPart'
    BY <1>0, <2>9, QuitFlow DEF MarkedFor
  <2> QED
    BY <2>4, <2>5, <2>6, <2>8, <2>10
<1>2. CASE UNCHANGED <<rewrites, worked>>
  <2>1. Still
    BY <1>0, <1>2 DEF Still
  <2> QED
    BY <1>0, <2>1, CalmQuit
<1> QED
  BY <1>1, <1>2 DEF SaveRewrite

LEMMA DeleteRewriteInv ==
  ASSUME Inv, NEW a \in Actors, DeleteRewrite(a)
  PROVE  Inv'
<1> USE DEF Inv
<1>1. UNCHANGED <<row, files, mfence, tombstone, journal, completion, rwTombstone, markers,
                  receipts, act, lock, copies, worked, backups, trouble, replayed, overtaken>>
  BY DEF DeleteRewrite, primary, counters
<1>2. PICK r \in rewrites : rewrites' = rewrites \ {r} /\ safe' = safe \cup {r}
  BY DEF DeleteRewrite
<1>3. rewrites' \subseteq rewrites /\ safe \subseteq safe' /\ safe' \subseteq Work
  BY <1>2 DEF Tables
<1>4. Tables'
  BY <1>1, <1>3 DEF Tables
<1>5. FilesPart' /\ SafePart'
  BY <1>1, <1>3, FilesKept, SafeKept
<1>6. CopyPart'
  BY <1>1, <1>3 DEF CopyPart, Target
<1>7. MarkerPart'
  <2>1. Orphans' \subseteq Orphans
    BY <1>1, <1>3 DEF Orphans, HasRow
  <2> QED
    BY <1>1, <1>3, <2>1 DEF MarkerPart, MarkedFor
<1>8. FlowPart'
  BY <1>1, ClonesStay, FlowsStay
<1> QED
  BY <1>4, <1>5, <1>6, <1>7, <1>8

LEMMA BackupInv ==
  ASSUME Inv, NEW a \in Actors, Backup(a)
  PROVE  Inv'
<1> USE DEF Inv
<1> DEFINE r == [id |-> backups + 1, copy |-> row.copy, fence |-> row.fence,
                 status |-> row.status, files |-> files, rewrites |-> rewrites]
<1>1. /\ row # None /\ backups < MaxReceipts /\ backups' = backups + 1
      /\ receipts' = receipts \cup {r}
      /\ safe' = safe \cup rewrites \cup ({files[p] : p \in Paths} \cap Work)
      /\ UNCHANGED <<row, files, mfence, tombstone, journal, completion, rewrites, rwTombstone,
                     markers, act, lock, copies, worked, trouble, replayed, overtaken>>
  BY DEF Backup, HasRow, primary, secondary
<1>2. r \in Receipts /\ r.rewrites = rewrites /\ r.files = files
  <2>1. backups + 1 \in 1..MaxReceipts
    BY <1>1, Bounds DEF Tables
  <2>2. row.copy \in Copies /\ row.fence \in Nat /\ row.status \in Statuses
    BY <1>1, RowTypes
  <2> QED
    BY <2>1, <2>2 DEF Receipts, Tables
<1> HIDE DEF r
<1>3. Tables'
  <2>1. backups' \in 0..MaxReceipts
    BY <1>1, Bounds DEF Tables
  <2>2. safe' \subseteq Work
    BY <1>1 DEF Tables
  <2> QED
    BY <1>1, <1>2, <2>1, <2>2 DEF Tables
<1>4. FilesPart' /\ CopyPart'
  BY <1>1, FilesKept, CopyKept
<1>5. SafePart'
  <2>1. \A x \in receipts' : x.rewrites \subseteq safe' /\ WorkIn(x.files) \subseteq safe'
    BY <1>1, <1>2 DEF SafePart, WorkIn
  <2> QED
    BY <1>1, <2>1 DEF SafePart, Target
<1>6. MarkerPart'
  BY <1>1, MarkerKept
<1>7. FlowPart'
  BY <1>1, ClonesStay, FlowsStay
<1> QED
  BY <1>3, <1>4, <1>5, <1>6, <1>7

LEMMA RemoveInv ==
  ASSUME Inv, NEW a \in Actors, Remove(a) \/ Resume(a)
  PROVE  Inv'
<1>1. \A r \in receipts : r.id \in Nat
  BY Bounds DEF Inv, Tables, Receipts
<1>2. \E n \in Nat : Attempt(a, n)
  BY <1>1 DEF Remove, Resume
<1> QED
  BY <1>2, AttemptInv

(* The steps of a removal *)

LEMMA Holder ==
  ASSUME Inv, NEW a \in Actors, act[a].at \in Removing
  PROVE  lock = a /\ Removal(a)
BY DEF Inv, FlowPart, Removal

\* The holder of the lock takes a step and goes on.
LEMMA HolderGoes ==
  ASSUME Inv, NEW a \in Actors, act[a].at \in Removing, NEW at \in Removing, Goto(a, at),
         ClonesKept, UNCHANGED <<copies, lock>>, Removal(a)'
  PROVE  FlowPart'
<1>1. at \in Phases \ {"idle", "create", "download", "rewrite"}
  BY DEF Removing, Replaying, Phases
<1>2. (Flow(a) /\ Clone(a))' /\ act' = [act EXCEPT ![a] = [act[a] EXCEPT !.at = at]]
  BY <1>1, GotoFine, GotoFlow DEF Inv
<1>3. LockKept(a)
  BY Holder DEF LockKept
<1> QED
  BY <1>2, <1>3, FlowsKept DEF Inv

\* The holder of the lock takes a step and is done.
LEMMA HolderQuits ==
  ASSUME Inv, NEW a \in Actors, act[a].at \in Removing, Quit(a), ClonesKept, UNCHANGED copies
  PROVE  FlowPart' /\ lock' \in Actors \cup {None}
BY Holder, QuitFlow DEF Inv

LEMMA WhereGone ==
  ASSUME Inv, NEW a \in Actors, NEW at \in Phases, Goto(a, at)
  PROVE  act'[a].at = at /\ act'[a].seen = act[a].seen
BY GotoFlow DEF Inv

LEMMA PrepareInv ==
  ASSUME Inv, NEW a \in Actors, Prepare(a)
  PROVE  Inv'
<1> USE DEF Inv
<1>0. /\ act[a].at = "prepare"
      /\ UNCHANGED <<files, completion, rewrites, rwTombstone, markers, receipts, copies, worked,
                     backups, trouble, safe, replayed, overtaken>>
  BY DEF Prepare, secondary, counters, history
<1>1. lock = a /\ journal = None /\ completion = None /\ "prepare" \in Removing
  BY <1>0, Holder DEF Removal, Removing
<1>2. PICK r \in receipts :
       \/ /\ Valid(r)
          /\ row' = [row EXCEPT !.fence = @ + 1, !.lease = "none"]
          /\ mfence' = row.fence + 1
          /\ tombstone' = [id |-> r.id, copy |-> r.copy]
          /\ journal' = [id |-> r.id, copy |-> r.copy, fence |-> row.fence + 1,
                         rewrites |-> r.rewrites, phase |-> "prepared"]
          /\ Goto(a, "fence") /\ UNCHANGED lock
       \/ ~Valid(r) /\ Quit(a) /\ UNCHANGED <<row, mfence, tombstone, journal>>
  BY DEF Prepare
<1>3. CASE /\ Valid(r)
           /\ row' = [row EXCEPT !.fence = @ + 1, !.lease = "none"]
           /\ mfence' = row.fence + 1
           /\ tombstone' = [id |-> r.id, copy |-> r.copy]
           /\ journal' = [id |-> r.id, copy |-> r.copy, fence |-> row.fence + 1,
                         rewrites |-> r.rewrites, phase |-> "prepared"]
           /\ Goto(a, "fence") /\ UNCHANGED lock
  <2>1. /\ row # None /\ row.copy = r.copy /\ files = r.files /\ row \in Rows /\ row.fence \in Nat
        /\ row.copy \in Copies
    BY <1>3, RowTypes DEF Valid, HasRow
  <2>2. /\ row' \in Rows /\ row'.copy = row.copy /\ row'.fence = row.fence + 1
        /\ row'.status = row.status
    BY <1>3, <2>1, RowFenced, Zenon
  <2>3. row' # None
    BY <2>2, LifecycleAssumption
  <2>4. tombstone' \in Removals /\ tombstone' # None
    <3>1. r.id \in 1..MaxReceipts
      BY DEF Tables, Receipts
    <3>2. tombstone' \in Removals
      BY <1>3, <2>1, <3>1 DEF Removals
    <3> QED
      BY <3>2, LifecycleAssumption
  <2>5. /\ journal' \in Journals /\ journal' # None /\ journal'.copy = row.copy
        /\ journal'.fence = row.fence + 1 /\ journal'.rewrites = r.rewrites
        /\ journal'.phase = "prepared"
    <3>1. r.id \in 1..MaxReceipts /\ r.rewrites \in SUBSET Work
      BY DEF Tables, Receipts
    <3>2. journal' \in Journals
      BY <1>3, <2>1, <3>1 DEF Journals
    <3> QED
      BY <1>3, <2>1, <3>2, LifecycleAssumption
  <2>6. Tables'
    BY <1>0, <1>3, <2>1, <2>2, <2>4, <2>5 DEF Tables
  <2>7. FilesPart'
    BY <1>0, <2>1, <2>2, <2>3 DEF FilesPart, Status, HasRow, WorkIn
  <2>8. CopyPart'
    <3>1. row.copy <= copies /\ \A q \in rewrites : q.copy <= copies
      BY <2>1 DEF CopyPart
    <3>2. journal'.fence \in 1..mfence'
      BY <1>3, <2>1, <2>5
    <3> QED
      BY <1>0, <2>2, <2>4, <2>5, <3>1, <3>2 DEF CopyPart, Target
  <2>9. SafePart'
    <3>1. r.rewrites \subseteq safe /\ WorkIn(r.files) \subseteq safe
      BY DEF SafePart
    <3> QED
      BY <1>0, <2>1, <2>5, <3>1 DEF SafePart, WorkIn
  <2>10. MarkerPart'
    <3>1. Orphans' = Orphans
      BY <1>0, <2>1, <2>2, <2>3 DEF Orphans, HasRow
    <3>2. completion' = None
      BY <1>0, <1>1
    <3> QED
      BY <1>0, <2>1, <2>2, <2>3, <2>5, <3>1, <3>2 DEF MarkerPart
  <2>11. ClonesKept
    <3>1. LastFence = row.fence
      BY <1>1, <2>1 DEF LastFence, Target
    <3>2. Target'
      BY <2>2, <2>3, <2>5 DEF Target
    <3>3. LastFence' = row.fence
      BY <2>1, <2>2, <2>3, <3>2 DEF LastFence
    <3> QED
      BY <1>0, <2>1, <2>2, <2>3, <3>1, <3>3 DEF ClonesKept, Status, HasRow
  <2>12. "fence" \in Removing /\ "fence" \in Phases
    BY DEF Removing, Phases
  <2>13. Removal(a)'
    BY <1>0, <1>1, <1>3, <2>5, <2>12, WhereGone DEF Removal, JournalIs, Removing, Replaying
  <2>14. FlowPart'
    BY <1>0, <1>1, <1>3, <2>11, <2>12, <2>13, HolderGoes
  <2> QED
    BY <2>6, <2>7, <2>8, <2>9, <2>10, <2>14
<1>4. CASE Quit(a) /\ UNCHANGED <<row, mfence, tombstone, journal>>
  <2>1. Still
    BY <1>0, <1>4 DEF Still
  <2> QED
    BY <1>4, <2>1, CalmQuit
<1> QED
  BY <1>2, <1>3, <1>4

LEMMA FenceRewritesInv ==
  ASSUME Inv, NEW a \in Actors, FenceRewrites(a)
  PROVE  Inv'
<1> USE DEF Inv
<1>0. /\ act[a].at = "fence"
      /\ UNCHANGED <<row, files, mfence, tombstone, journal, completion, receipts, copies, worked,
                     backups, trouble, safe, replayed, overtaken>>
  BY DEF FenceRewrites, primary, counters, history
<1>1. /\ lock = a /\ journal # None /\ journal.phase = "prepared" /\ completion = None
      /\ {"fence", "fenced", "cancel"} \subseteq Removing \cap Phases
      /\ {"fenced", "cancel"} \subseteq Phases \ {"idle", "create", "download", "rewrite"}
  BY <1>0, Holder DEF Removal, JournalIs, Removing, Phases
<1>2. CASE /\ Marked /\ Goto(a, "fenced") /\ UNCHANGED <<secondary, lock>>
  <2>1. Still
    BY <1>0, <1>2 DEF Still, secondary
  <2>2. MarkedFor(journal)'
    BY <1>0, <1>2 DEF Marked, Mine, MarkedFor, secondary
  <2>3. Removal(a)'
    BY <1>0, <1>1, <1>2, <2>2, WhereGone DEF Removal, JournalIs, Replaying
  <2> QED
    BY <1>1, <1>2, <2>1, <2>3, CalmGoto
<1>3. CASE /\ rwTombstone' = [id |-> journal.id, copy |-> journal.copy]
           /\ markers' = markers \cup {[id |-> journal.id, copy |-> journal.copy]}
           /\ rewrites' = {}
           /\ Goto(a, "fenced") /\ UNCHANGED lock
  <2>1. [id |-> journal.id, copy |-> journal.copy] \in Removals
    BY <1>1, JournalTypes
  <2>2. Tables'
    BY <1>0, <1>3, <2>1 DEF Tables
  <2>3. FilesPart' /\ SafePart'
    BY <1>0, FilesKept, SafeKept
  <2>4. CopyPart'
    BY <1>0, <1>3 DEF CopyPart, Target
  <2>5. MarkedFor(journal)'
    <3> DEFINE m == [id |-> journal.id, copy |-> journal.copy]
    <3>1. m \in markers' /\ m.id = journal.id /\ m.copy = journal.copy
      BY <1>3
    <3> QED
      BY <1>0, <3>1 DEF MarkedFor
  <2>6. MarkerPart'
    <3>1. Orphans' = {}
      BY <1>3 DEF Orphans
    <3> QED
      BY <1>0, <1>1, <1>3, <2>5, <3>1 DEF MarkerPart
  <2>7. ClonesKept
    BY <1>0, ClonesStay
  <2>8. Removal(a)'
    BY <1>0, <1>1, <1>3, <2>5, WhereGone DEF Removal, JournalIs, Replaying
  <2>9. FlowPart'
    BY <1>0, <1>1, <1>3, <2>7, <2>8, HolderGoes
  <2> QED
    BY <2>2, <2>3, <2>4, <2>6, <2>9
<1>4. CASE Goto(a, "cancel") /\ UNCHANGED <<secondary, lock>>
  <2>1. Still
    BY <1>0, <1>4 DEF Still, secondary
  <2>2. Removal(a)'
    BY <1>0, <1>1, <1>4, WhereGone DEF Removal, JournalIs, Replaying
  <2> QED
    BY <1>1, <1>4, <2>1, <2>2, CalmGoto
<1>5. CASE Quit(a) /\ UNCHANGED secondary
  <2>1. Still
    BY <1>0, <1>5 DEF Still, secondary
  <2> QED
    BY <1>5, <2>1, CalmQuit
<1> QED
  BY <1>2, <1>3, <1>4, <1>5 DEF FenceRewrites

LEMMA CancelInv ==
  ASSUME Inv, NEW a \in Actors, Cancel(a)
  PROVE  Inv'
<1> USE DEF Inv
<1>0. /\ act[a].at = "cancel" /\ Quit(a)
      /\ UNCHANGED <<files, mfence, completion, rewrites, rwTombstone, markers, copies, worked,
                     backups, trouble, safe, replayed, overtaken>>
  BY DEF Cancel, secondary, counters, history
<1>1. journal # None /\ completion = None /\ act[a].at \in Removing
  BY <1>0, Holder DEF Removal, JournalIs, Removing
<1>2. CASE IsTarget
  <2>1. /\ row' = [row EXCEPT !.fence = @ - 1] /\ tombstone' = None /\ journal' = None
        /\ receipts' = {r \in receipts : r.id # journal.id}
    BY <1>2 DEF Cancel
  <2>2. row # None /\ Target /\ row \in Rows /\ row.fence = journal.fence /\ row.fence \in 1..mfence
        /\ mfence \in Nat
    BY <1>1, <1>2, RowTypes DEF IsTarget, HasRow, Target, CopyPart, Tables
  <2>3. row.fence - 1 \in Nat
    BY <2>2
  <2>4. /\ row' \in Rows /\ row'.copy = row.copy /\ row'.fence = row.fence - 1
        /\ row'.status = row.status
    BY <2>1, <2>2, <2>3 DEF Rows
  <2>5. row' # None /\ ~Target'
    BY <2>1, <2>4, LifecycleAssumption DEF Target
  <2>6. FilesPart'
    BY <1>0, <2>2, <2>4, <2>5 DEF FilesPart, Status, HasRow, WorkIn
  <2>7. CopyPart' /\ SafePart'
    BY <1>0, <2>1, <2>2, <2>4, <2>5 DEF CopyPart, SafePart
  <2>8. MarkerPart'
    <3>1. Orphans' = Orphans
      BY <1>0, <2>2, <2>4, <2>5 DEF Orphans, HasRow
    <3> QED
      BY <1>0, <2>1, <2>2, <2>4, <2>5, <3>1 DEF MarkerPart
  <2>9. ClonesKept
    <3>1. LastFence = row.fence - 1 /\ LastFence' = row.fence - 1
      BY <2>2, <2>4, <2>5 DEF LastFence
    <3> QED
      BY <1>0, <2>2, <2>3, <2>4, <2>5, <3>1 DEF ClonesKept, Status, HasRow
  <2>10. FlowPart' /\ lock' \in Actors \cup {None}
    BY <1>0, <1>1, <2>9, HolderQuits
  <2>11. Tables'
    BY <1>0, <2>1, <2>4, <2>10 DEF Tables
  <2> QED
    BY <2>6, <2>7, <2>8, <2>10, <2>11
<1>3. CASE ~IsTarget
  <2>1. Still
    BY <1>0, <1>3 DEF Cancel, Still
  <2> QED
    BY <1>0, <2>1, CalmQuit
<1> QED
  BY <1>2, <1>3

\* The journal is put with its next phase.
LEMMA NextPhase ==
  ASSUME Inv, NEW a \in Actors, journal # None, MarkedFor(journal),
         NEW phase \in {"rewrites-fenced", "primary-deleted", "finalizing", "finalized"},
         completion = None \/ phase \in {"finalizing", "finalized"},
         journal' = [journal EXCEPT !.phase = phase],
         UNCHANGED <<row, files, mfence, tombstone, completion, secondary, receipts, lock, counters,
                     history>>
  PROVE  /\ Tables' /\ FilesPart' /\ CopyPart' /\ SafePart' /\ MarkerPart' /\ ClonesKept
         /\ journal' # None /\ journal'.phase = phase
<1> USE DEF Inv
<1>1. UNCHANGED <<row, files, mfence, tombstone, completion, rewrites, rwTombstone, markers, receipts,
                  lock, copies, worked, backups, trouble, safe, replayed, overtaken>>
  BY DEF secondary, counters, history
<1>2. /\ journal' \in Journals /\ journal'.id = journal.id /\ journal'.copy = journal.copy
      /\ journal'.fence = journal.fence /\ journal'.rewrites = journal.rewrites
      /\ journal'.phase = phase
  <2>1. journal \in Journals
    BY JournalTypes
  <2> QED
    BY <2>1 DEF Journals
<1>3. journal' # None
  BY <1>2, LifecycleAssumption
<1>4. Tables'
  BY <1>1, <1>2 DEF Tables
<1>5. FilesPart'
  BY <1>1, FilesKept
<1>6. Target' <=> Target
  BY <1>1, <1>2, <1>3 DEF Target
<1>7. CopyPart' /\ SafePart'
  BY <1>1, <1>2, <1>3, <1>6 DEF CopyPart, SafePart, WorkIn
<1>8. MarkerPart'
  <2>1. MarkedFor(journal)'
    BY <1>1, <1>2 DEF MarkedFor
  <2>2. Orphans' = Orphans
    BY <1>1 DEF Orphans, HasRow
  <2> QED
    BY <1>1, <1>2, <1>3, <2>1, <2>2 DEF MarkerPart
<1>9. ClonesKept
  BY <1>1, <1>2, <1>3, ClonesStay
<1> QED
  BY <1>2, <1>3, <1>4, <1>5, <1>7, <1>8, <1>9

LEMMA AdvanceInv ==
  ASSUME Inv, NEW a \in Actors,
         RewritesFenced(a) \/ PrimaryDeleted(a) \/ Finalizing(a) \/ Finalized(a)
  PROVE  Inv'
<1> USE DEF Inv
<1>0. {"fenced", "removed", "deleted", "completed", "delete", "finalize", "clean"}
        \subseteq Removing \cap Phases
  BY DEF Removing, Phases
<1>1. ASSUME NEW at \in {"fenced", "removed", "deleted", "completed"},
             NEW phase \in {"rewrites-fenced", "primary-deleted", "finalizing", "finalized"},
             NEW next \in {"delete", "deleted", "finalize", "clean"}, Advance(a, at, phase, next),
             MarkedFor(journal), completion = None \/ phase \in {"finalizing", "finalized"},
             next = "delete" => phase = "rewrites-fenced" /\ completion = None,
             next = "deleted" => phase = "primary-deleted" /\ completion = None,
             next = "finalize" => phase = "finalizing"
      PROVE  Inv'
  <2>1. /\ act[a].at = at /\ journal' = [journal EXCEPT !.phase = phase] /\ Goto(a, next)
        /\ UNCHANGED <<row, files, mfence, tombstone, completion, secondary, receipts, lock, counters,
                       history>> /\ UNCHANGED <<completion, copies, lock>>
    BY <1>1 DEF Advance, counters
  <2>2. at \in Removing /\ next \in Removing /\ next \in Phases
    BY <1>0
  <2>3. lock = a /\ Removal(a)
    BY <2>1, <2>2, Holder
  <2>4. journal # None
    BY <2>1, <2>3 DEF Removal, JournalIs
  <2>5. /\ Tables' /\ FilesPart' /\ CopyPart' /\ SafePart' /\ MarkerPart' /\ ClonesKept
        /\ journal' # None /\ journal'.phase = phase
    BY <1>1, <2>1, <2>4, NextPhase
  <2>6. act'[a].at = next
    BY <2>1, <2>2, WhereGone
  <2>7. Removal(a)'
    BY <1>1, <2>1, <2>3, <2>5, <2>6 DEF Removal, JournalIs, Replaying
  <2>8. FlowPart'
    BY <2>1, <2>2, <2>5, <2>7, HolderGoes
  <2> QED
    BY <2>5, <2>8
<1>2. CASE RewritesFenced(a)
  <2>1. act[a].at = "fenced"
    BY <1>2 DEF RewritesFenced, Advance
  <2>2. MarkedFor(journal) /\ completion = None
    BY <1>0, <2>1, Holder DEF Removal
  <2> QED
    BY <1>1, <1>2, <2>2 DEF RewritesFenced
<1>3. CASE PrimaryDeleted(a)
  <2>1. act[a].at = "removed"
    BY <1>3 DEF PrimaryDeleted, Advance
  <2>2. MarkedFor(journal) /\ completion = None
    BY <1>0, <2>1, Holder DEF Removal, JournalIs, MarkerPart
  <2> QED
    BY <1>1, <1>3, <2>2 DEF PrimaryDeleted
<1>4. CASE Finalizing(a)
  <2>1. act[a].at = "deleted"
    BY <1>4 DEF Finalizing, Advance
  <2>2. MarkedFor(journal)
    BY <1>0, <2>1, Holder DEF Removal, JournalIs, MarkerPart
  <2> QED
    BY <1>1, <1>4, <2>2 DEF Finalizing
<1>5. CASE Finalized(a)
  <2>1. act[a].at = "completed"
    BY <1>5 DEF Finalized, Advance
  <2>2. MarkedFor(journal)
    BY <1>0, <2>1, Holder DEF Removal, JournalIs, MarkerPart
  <2> QED
    BY <1>1, <1>5, <2>2 DEF Finalized
<1> QED
  BY <1>2, <1>3, <1>4, <1>5

LEMMA DeletePrimaryInv ==
  ASSUME Inv, NEW a \in Actors, DeletePrimary(a)
  PROVE  Inv'
<1> USE DEF Inv
<1>0. /\ act[a].at = "delete"
      /\ UNCHANGED <<mfence, tombstone, journal, completion, rewrites, rwTombstone, markers, receipts,
                     copies, worked, backups, trouble, safe, replayed, overtaken>>
  BY DEF DeletePrimary, secondary, counters, history
<1>1. /\ lock = a /\ journal # None /\ journal.phase = "rewrites-fenced" /\ completion = None
      /\ {"delete", "removed"} \subseteq Removing \cap Phases
  BY <1>0, Holder DEF Removal, JournalIs, Removing, Phases
<1>2. CASE /\ ~HasRow \/ IsTarget
           /\ row' = None /\ files' = [p \in Paths |-> None]
           /\ Goto(a, "removed") /\ UNCHANGED lock
  <2>1. row = None \/ (Target /\ row.copy = journal.copy /\ row.fence = journal.fence)
    BY <1>1, <1>2 DEF IsTarget, HasRow, Target
  <2>2. MarkedFor(journal)
    BY <1>1 DEF MarkerPart
  <2>3. Tables'
    BY <1>0, <1>2 DEF Tables, Contents
  <2>4. FilesPart' /\ CopyPart' /\ SafePart'
    BY <1>0, <1>2 DEF FilesPart, CopyPart, SafePart, Status, HasRow, Target
  <2>5. MarkerPart'
    <3>1. journal.copy \in replayed \/ \E m \in markers : m.copy = journal.copy
      BY <2>2 DEF MarkedFor
    <3>2. \A c \in 1..copies : c \in replayed \/ \E m \in markers : m.copy = c
      BY <2>1, <3>1 DEF MarkerPart
    <3>3. \A r \in rewrites : r.copy \in replayed
      <4> SUFFICES ASSUME NEW r \in rewrites PROVE r.copy \in replayed
        OBVIOUS
      <4>1. CASE r \in Orphans
        BY <4>1 DEF MarkerPart
      <4>2. CASE row # None /\ row.copy = r.copy
        BY <2>1, <3>1, <4>2 DEF MarkerPart
      <4> QED
        BY <4>1, <4>2 DEF Orphans, HasRow
    <3>4. Orphans' \subseteq rewrites
      BY <1>0 DEF Orphans
    <3> QED
      BY <1>0, <1>1, <1>2, <2>2, <3>2, <3>3, <3>4 DEF MarkerPart, MarkedFor
  <2>6. ClonesKept
    <3>1. LastFence' = mfence /\ mfence \in Nat
      BY <1>0, <1>2 DEF LastFence, Tables
    <3>2. LastFence <= mfence
      <4>1. journal.fence \in 1..mfence
        BY <1>1 DEF CopyPart
      <4>2. CASE row = None
        BY <3>1, <4>2 DEF LastFence
      <4>3. CASE Target /\ row.fence = journal.fence
        <5>1. LastFence = journal.fence - 1
          BY <4>3 DEF LastFence, Target
        <5> QED
          BY <3>1, <4>1, <5>1
      <4> QED
        BY <2>1, <4>2, <4>3
    <3> QED
      BY <1>2, <3>1, <3>2 DEF ClonesKept, Status, HasRow
  <2>7. Removal(a)'
    BY <1>0, <1>1, <1>2, WhereGone DEF Removal, JournalIs, Replaying
  <2>8. FlowPart'
    BY <1>0, <1>1, <1>2, <2>6, <2>7, HolderGoes
  <2> QED
    BY <2>3, <2>4, <2>5, <2>8
<1>3. CASE Quit(a) /\ UNCHANGED <<row, files>>
  <2>1. Still
    BY <1>0, <1>3 DEF Still
  <2> QED
    BY <1>3, <2>1, CalmQuit
<1> QED
  BY <1>2, <1>3 DEF DeletePrimary

LEMMA FinalizeRewritesInv ==
  ASSUME Inv, NEW a \in Actors, FinalizeRewrites(a)
  PROVE  Inv'
<1>1. act[a].at = "finalize" /\ Still
  BY DEF FinalizeRewrites, Still, primary, counters, history
<1>2. CASE Quit(a)
  BY <1>1, <1>2, CalmQuit
<1>3. CASE Goto(a, "complete") /\ UNCHANGED lock
  <2>1. /\ lock = a /\ JournalIs({"finalizing"})
        /\ "complete" \in Phases \ {"idle", "create", "download", "rewrite"}
    BY <1>1, Holder DEF Removal, Removing, Phases
  <2>2. Removal(a)'
    BY <1>1, <1>3, <2>1, WhereGone DEF Removal, JournalIs, Replaying, Still
  <2> QED
    BY <1>1, <1>3, <2>1, <2>2, CalmGoto
<1> QED
  BY <1>2, <1>3 DEF FinalizeRewrites

\* Only the completion is written.
LEMMA CompletionPut ==
  ASSUME Inv, completion' \in Completions \cup {None},
         completion' # None => completion # None \/ JournalIs({"finalizing", "finalized"}),
         UNCHANGED <<row, files, mfence, tombstone, journal, secondary, receipts, counters, history>>
  PROVE  /\ lock' \in Actors \cup {None} => Tables'
         /\ FilesPart' /\ CopyPart' /\ SafePart' /\ MarkerPart' /\ ClonesKept
<1> USE DEF Inv
<1>1. UNCHANGED <<row, files, mfence, tombstone, journal, rewrites, rwTombstone, markers, receipts,
                  copies, worked, backups, trouble, safe, replayed, overtaken>>
  BY DEF secondary, counters, history
<1>2. lock' \in Actors \cup {None} => Tables'
  BY <1>1 DEF Tables
<1>3. FilesPart' /\ CopyPart' /\ SafePart'
  BY <1>1, FilesKept, CopyKept, SafeKept
<1>4. MarkerPart'
  BY <1>1 DEF MarkerPart, Orphans, HasRow, MarkedFor, JournalIs
<1>5. ClonesKept
  BY <1>1, ClonesStay
<1> QED
  BY <1>2, <1>3, <1>4, <1>5

LEMMA CompleteInv ==
  ASSUME Inv, NEW a \in Actors, Complete(a)
  PROVE  Inv'
<1> USE DEF Inv
<1>0. /\ act[a].at = "complete" /\ Goto(a, "completed")
      /\ completion' = [id |-> journal.id, copy |-> journal.copy, rewrites |-> journal.rewrites,
                    evident |-> Marked \/ journal.rewrites = {}, phase |-> "finalizing"]
      /\ UNCHANGED <<row, files, mfence, tombstone, journal, secondary, receipts, counters, history>>
      /\ UNCHANGED <<journal, lock, copies>>
  BY DEF Complete, counters
<1>1. /\ lock = a /\ JournalIs({"finalizing", "finalized"}) /\ journal # None
      /\ {"complete", "completed"} \subseteq Removing \cap Phases
  BY <1>0, Holder DEF Removal, JournalIs, Removing, Phases
<1>2. completion' \in Completions
  <2> DEFINE e == Marked \/ journal.rewrites = {}
  <2>1. e \in BOOLEAN
    OBVIOUS
  <2>2. completion' = [id |-> journal.id, copy |-> journal.copy, rewrites |-> journal.rewrites,
                    evident |-> e, phase |-> "finalizing"]
    BY <1>0
  <2> HIDE DEF e
  <2>3. journal.id \in 1..MaxReceipts /\ journal.copy \in Copies /\ journal.rewrites \in SUBSET Work
    BY <1>1, JournalTypes DEF Journals
  <2> QED
    BY <2>1, <2>2, <2>3 DEF Completions
<1>3. /\ lock' \in Actors \cup {None} => Tables'
      /\ FilesPart' /\ CopyPart' /\ SafePart' /\ MarkerPart' /\ ClonesKept
  BY <1>0, <1>1, <1>2, CompletionPut
<1>4. Removal(a)'
  BY <1>0, <1>1, WhereGone DEF Removal, JournalIs, Replaying
<1>5. FlowPart'
  BY <1>0, <1>1, <1>3, <1>4, HolderGoes
<1> QED
  BY <1>0, <1>1, <1>3, <1>5

LEMMA SettleInv ==
  ASSUME Inv, NEW a \in Actors, Settle(a) \/ Forget(a)
  PROVE  Inv'
<1> USE DEF Inv
<1>0. /\ act[a].at \in Removing /\ Quit(a)
      /\ \/ completion' = None
         \/ completion # None /\ completion' = [completion EXCEPT !.phase = "finalized"]
      /\ UNCHANGED <<row, files, mfence, tombstone, journal, secondary, receipts, counters, history>>
      /\ UNCHANGED copies
  BY DEF Settle, Forget, counters, Removing, Replaying
<1>1. completion' \in Completions \cup {None} /\ (completion' # None => completion # None)
  BY <1>0 DEF Tables, Completions
<1>2. /\ lock' \in Actors \cup {None} => Tables'
      /\ FilesPart' /\ CopyPart' /\ SafePart' /\ MarkerPart' /\ ClonesKept
  BY <1>0, <1>1, CompletionPut
<1>3. FlowPart' /\ lock' \in Actors \cup {None}
  BY <1>0, <1>2, HolderQuits
<1> QED
  BY <1>2, <1>3

LEMMA CleanInv ==
  ASSUME Inv, NEW a \in Actors, Clean(a)
  PROVE  Inv'
<1> USE DEF Inv
<1>0. /\ act[a].at \in {"clean", "reClean"} /\ tombstone' = None /\ journal' = None
      /\ Goto(a, IF act[a].at = "clean" THEN "settle" ELSE "unmark")
      /\ UNCHANGED <<row, files, mfence, completion, rewrites, rwTombstone, markers, receipts, lock,
                     copies, worked, backups, trouble, safe, replayed, overtaken>>
  BY DEF Clean, secondary, counters, history
<1>1. /\ act[a].at \in Removing /\ {"settle", "unmark"} \subseteq Removing \cap Phases
  BY <1>0 DEF Removing, Replaying, Phases
<1>2. lock = a /\ (act[a].at = "reClean" => \E c \in Completions : act[a].seen = {c})
  BY <1>1, Holder DEF Removal, Replaying
<1>3. Tables'
  BY <1>0 DEF Tables
<1>4. FilesPart'
  BY <1>0, FilesKept
<1>5. CopyPart' /\ SafePart' /\ ~Target'
  BY <1>0 DEF CopyPart, SafePart, Target
<1>6. MarkerPart'
  BY <1>0 DEF MarkerPart, Orphans, HasRow
<1>7. ClonesKept
  <2>1. LastFence \in Nat
    BY LastFenceType
  <2>2. CASE Target
    <3>1. row # None /\ row.fence \in Nat /\ LastFence = row.fence - 1
      BY <2>2, RowTypes DEF LastFence, Target
    <3>2. LastFence' = row.fence
      BY <1>0, <1>5, <3>1 DEF LastFence
    <3> QED
      BY <2>1, <3>1, <3>2 DEF ClonesKept
  <2>3. CASE ~Target
    <3>1. LastFence' = LastFence
      BY <1>0, <1>5, <2>3 DEF LastFence
    <3> QED
      BY <1>0, <2>1, <3>1 DEF ClonesKept, Status, HasRow
  <2> QED
    BY <2>2, <2>3
<1>8. PICK next \in {"settle", "unmark"} :
        Goto(a, next) /\ (next = "unmark" => act[a].at = "reClean")
  BY <1>0
<1>9. act'[a].at = next /\ act'[a].seen = act[a].seen
  BY <1>1, <1>8, WhereGone
<1>10. Removal(a)'
  BY <1>0, <1>2, <1>8, <1>9 DEF Removal, JournalIs, Replaying
<1>11. FlowPart'
  BY <1>0, <1>1, <1>7, <1>8, <1>10, HolderGoes
<1> QED
  BY <1>3, <1>4, <1>5, <1>6, <1>11

LEMMA HeldType ==
  ASSUME Inv, NEW a \in Actors, act[a].at \in Replaying
  PROVE  /\ act[a].seen = {Held(a)} /\ Held(a) \in Completions /\ lock = a
         /\ journal = None \/ JournalIs({"finalizing", "finalized"})
<1>1. act[a].at \in Removing
  BY DEF Removing
<1>2. PICK c \in Completions : act[a].seen = {c}
  BY <1>1, Holder DEF Removal
<1>3. Held(a) = c
  BY <1>2 DEF Held
<1> QED
  BY <1>1, <1>2, <1>3, Holder DEF Removal

\* A replay goes from step to step with what it holds.
LEMMA ReplayGoes ==
  ASSUME Inv, NEW a \in Actors, act[a].at \in Replaying, NEW at \in Replaying, Goto(a, at), Still,
         UNCHANGED lock
  PROVE  Inv'
<1>1. at \in Phases \ {"idle", "create", "download", "rewrite"}
  BY DEF Replaying, Phases
<1>2. Removal(a)'
  BY <1>1, HeldType, WhereGone DEF Removal, Replaying, Removing, JournalIs, Still
<1> QED
  BY <1>1, <1>2, CalmGoto

LEMMA ReplayInv ==
  ASSUME Inv, NEW a \in Actors, Replay(a) \/ ReplayFinalize(a) \/ Untomb(a)
  PROVE  Inv'
<1>1. act[a].at \in Replaying /\ Still
  BY DEF Replay, ReplayFinalize, Untomb, Replaying, Still, primary, secondary, counters, history
<1>2. Quit(a) \/ \E at \in Replaying : Goto(a, at) /\ UNCHANGED lock
  <2>1. CASE Replay(a)
    BY <2>1 DEF Replay, Replaying
  <2>2. CASE ReplayFinalize(a) \/ Untomb(a)
    BY <2>2 DEF ReplayFinalize, Untomb, Replaying
  <2> QED
    BY <2>1, <2>2
<1> QED
  BY <1>1, <1>2, CalmQuit, ReplayGoes

LEMMA UnmarkInv ==
  ASSUME Inv, NEW a \in Actors, Unmark(a)
  PROVE  Inv'
<1> USE DEF Inv
<1>0. /\ act[a].at \in {"reUnmark", "unmark"}
      /\ markers' = markers \ {HeldMarker(a)} /\ replayed' = replayed \cup {Held(a).copy}
      /\ Goto(a, IF act[a].at = "unmark" THEN "untomb" ELSE "reUntomb")
      /\ UNCHANGED <<row, files, mfence, tombstone, journal, completion, rewrites, rwTombstone,
                     receipts, lock, copies, worked, backups, trouble, safe, overtaken>>
  BY DEF Unmark, primary, counters
<1>1. act[a].at \in Replaying /\ act[a].at \in Removing
  BY <1>0 DEF Replaying, Removing
<1>2. /\ act[a].seen = {Held(a)} /\ Held(a) \in Completions /\ lock = a
      /\ journal = None \/ JournalIs({"finalizing", "finalized"})
  BY <1>1, HeldType
<1>3. Tables'
  <2>1. replayed' \subseteq Copies
    BY <1>0, <1>2 DEF Tables, Completions
  <2> QED
    BY <1>0, <2>1 DEF Tables
<1>4. FilesPart' /\ CopyPart' /\ SafePart'
  BY <1>0, FilesKept, CopyKept, SafeKept
<1>5. \A x \in markers : x \in markers' \/ x.copy \in replayed'
  <2>1. HeldMarker(a).copy = Held(a).copy
    BY DEF HeldMarker
  <2> QED
    BY <1>0, <2>1
<1>6. MarkerPart'
  <2>1. MarkedFor(journal) => MarkedFor(journal)'
    <3>1. journal' = journal /\ replayed \subseteq replayed'
      BY <1>0
    <3>2. CASE journal.copy \in replayed
      BY <3>1, <3>2 DEF MarkedFor
    <3>3. ASSUME NEW x \in markers, x.id = journal.id, x.copy = journal.copy
          PROVE  MarkedFor(journal)'
      BY <1>5, <3>1, <3>3 DEF MarkedFor
    <3> QED
      BY <3>2, <3>3 DEF MarkedFor
  <2>2. Orphans' = Orphans
    BY <1>0 DEF Orphans, HasRow
  <2>3. \A c \in 1..copies : \/ row # None /\ row.copy = c
                             \/ c \in replayed' \/ \E m \in markers' : m.copy = c
    BY <1>0, <1>5 DEF MarkerPart
  <2>4. \A m \in markers' : \A r \in rewrites' : r.copy # m.copy
    BY <1>0 DEF MarkerPart
  <2>5. journal' # None /\ journal'.phase # "prepared" => MarkedFor(journal)'
    BY <1>0, <2>1 DEF MarkerPart
  <2> QED
    BY <1>0, <2>2, <2>3, <2>4, <2>5 DEF MarkerPart
<1>7. ClonesKept
  BY <1>0, ClonesStay
<1>8. PICK at \in Replaying : Goto(a, at)
  BY <1>0 DEF Replaying
<1>9. at \in Removing /\ at \in Phases /\ act[a].at # "fenced"
      /\ at \notin Removing \ Replaying
  BY <1>0 DEF Replaying, Removing, Phases
<1>10. Removal(a)'
  BY <1>0, <1>2, <1>8, <1>9, WhereGone DEF Removal, Replaying, Removing, JournalIs
<1>11. FlowPart'
  BY <1>0, <1>1, <1>7, <1>8, <1>9, <1>10, HolderGoes
<1> QED
  BY <1>3, <1>4, <1>6, <1>11

LEMMA ReplayFinalizedInv ==
  ASSUME Inv, NEW a \in Actors, ReplayFinalized(a)
  PROVE  Inv'
<1> USE DEF Inv
<1>0. /\ act[a].at = "reJournal" /\ Goto(a, "reClean")
      /\ journal' = IF journal = None THEN None ELSE [journal EXCEPT !.phase = "finalized"]
      /\ UNCHANGED <<row, files, mfence, tombstone, completion, secondary, receipts, lock, counters,
                     history>>
      /\ UNCHANGED <<lock, copies>>
  BY DEF ReplayFinalized, counters
<1>1. act[a].at \in Replaying /\ "reClean" \in Replaying /\ act[a].at \in Removing
      /\ "reClean" \in Removing /\ "reClean" \in Phases
  BY <1>0 DEF Replaying, Removing, Phases
<1>2. /\ act[a].seen = {Held(a)} /\ Held(a) \in Completions /\ lock = a
      /\ journal = None \/ JournalIs({"finalizing", "finalized"})
  BY <1>1, HeldType
<1>3. CASE journal = None
  <2>1. Still
    BY <1>0, <1>3 DEF Still, secondary, counters, history
  <2> QED
    BY <1>0, <1>1, <2>1, ReplayGoes
<1>4. CASE journal # None
  <2>1. MarkedFor(journal)
    BY <1>2, <1>4 DEF MarkerPart, JournalIs
  <2>2. /\ Tables' /\ FilesPart' /\ CopyPart' /\ SafePart' /\ MarkerPart' /\ ClonesKept
        /\ journal' # None /\ journal'.phase = "finalized"
    BY <1>0, <1>4, <2>1, NextPhase
  <2>3. Removal(a)'
    BY <1>0, <1>1, <1>2, <2>2, WhereGone DEF Removal, Replaying, JournalIs
  <2>4. FlowPart'
    BY <1>0, <1>1, <2>2, <2>3, HolderGoes
  <2> QED
    BY <2>2, <2>4
<1> QED
  BY <1>3, <1>4

(* Tabs that close, and leases that expire *)

LEMMA CloseInv ==
  ASSUME Inv, NEW a \in Actors, Close(a)
  PROVE  Inv'
<1>1. Quit(a) /\ Still
  BY DEF Close, Still, primary, secondary, history
<1> QED
  BY <1>1, CalmQuit

LEMMA ExpireInv ==
  ASSUME Inv, Expire
  PROVE  Inv'
<1> USE DEF Inv
<1>0. /\ row # None /\ row' = [row EXCEPT !.lease = "expired"]
      /\ UNCHANGED trouble \/ Trouble
      /\ UNCHANGED <<files, mfence, tombstone, journal, completion, rewrites, rwTombstone, markers,
                     receipts, act, lock, copies, worked, backups, safe, replayed, overtaken>>
  BY DEF Expire, HasRow, secondary, history
<1>1. row \in Rows
  BY <1>0, RowTypes
<1>2. row' \in Rows /\ row'.copy = row.copy /\ row'.fence = row.fence /\ row'.status = row.status
  BY <1>0, <1>1 DEF Rows
<1>3. CopyPart' /\ SafePart' /\ MarkerPart' /\ row' # None
  BY <1>0, <1>1, <1>2, CopyGoesOn
<1>4. FilesPart'
  BY <1>0, <1>2, <1>3 DEF FilesPart, Status, HasRow, WorkIn
<1>5. ClonesKept
  <2>1. LastFence' = LastFence
    BY <1>0, <1>2, <1>3 DEF LastFence, Target
  <2> QED
    BY <1>0, <1>2, <1>3, <2>1, LastFenceType DEF ClonesKept, Status, HasRow
<1>6. FlowPart'
  BY <1>0, <1>5, FlowsStay
<1>7. Tables'
  BY <1>0, <1>2, TroubleType DEF Tables
<1> QED
  BY <1>3, <1>4, <1>6, <1>7

LEMMA NextInv == Inv /\ [Next]_vars => Inv'
<1> SUFFICES ASSUME Inv, [Next]_vars PROVE Inv'
  OBVIOUS
<1>1. CASE UNCHANGED vars
  BY <1>1, UnchangedInv
<1>2. CASE Expire
  BY <1>2, ExpireInv
<1>3. ASSUME NEW a \in Actors,
             \/ Open(a) \/ Begin(a) \/ DeleteRewrite(a) \/ Backup(a)
             \/ Remove(a) \/ Resume(a) \/ Step(a) \/ Close(a)
      PROVE  Inv'
  <2>1. CASE Open(a)
    BY <2>1, OpenMissingInv, OpenExpiredInv, OpenIncompleteInv DEF Open
  <2>2. CASE Begin(a) \/ DeleteRewrite(a) \/ Backup(a)
    BY <2>2, BeginInv, DeleteRewriteInv, BackupInv
  <2>3. CASE Remove(a) \/ Resume(a) \/ Close(a)
    BY <2>3, RemoveInv, CloseInv
  <2>4. CASE Step(a)
    <3>1. CASE Create(a) \/ Download(a) \/ CloneComplete(a) \/ Release(a)
      BY <3>1, CreateInv, DownloadInv, CloneCompleteInv, ReleaseInv
    <3>2. CASE Repair(a) \/ Repaired(a) \/ Edit(a) \/ SaveRewrite(a)
      BY <3>2, RepairInv, RepairedInv, EditInv, SaveRewriteInv
    <3>3. CASE Prepare(a) \/ FenceRewrites(a) \/ Cancel(a) \/ DeletePrimary(a)
      BY <3>3, PrepareInv, FenceRewritesInv, CancelInv, DeletePrimaryInv
    <3>4. CASE RewritesFenced(a) \/ PrimaryDeleted(a) \/ Finalizing(a) \/ Finalized(a)
      BY <3>4, AdvanceInv
    <3>5. CASE FinalizeRewrites(a) \/ Complete(a) \/ Clean(a) \/ Settle(a) \/ Forget(a)
      BY <3>5, FinalizeRewritesInv, CompleteInv, CleanInv, SettleInv
    <3>6. CASE Replay(a) \/ ReplayFinalize(a) \/ Unmark(a) \/ Untomb(a) \/ ReplayFinalized(a)
      BY <3>6, ReplayInv, UnmarkInv, ReplayFinalizedInv
    <3> QED
      BY <2>4, <3>1, <3>2, <3>3, <3>4, <3>5, <3>6 DEF Step
  <2> QED
    BY <1>3, <2>1, <2>2, <2>3, <2>4
<1> QED
  BY <1>1, <1>2, <1>3 DEF Next

----------------------------------------------------------------------------
(* No work is lost                                                         *)

Kept == \A w \in Made : w.early \/ w \in Made' \/ w \in safe'

LEMMA KeptStays ==
  ASSUME UNCHANGED files, rewrites \subseteq rewrites'
  PROVE  Kept
BY DEF Kept, Made

LEMMA OpeningsKeep ==
  ASSUME NEW a \in Actors,
         \/ Open(a) \/ Begin(a) \/ Backup(a) \/ Remove(a) \/ Resume(a) \/ Close(a)
         \/ Create(a) \/ CloneComplete(a) \/ Release(a) \/ Repair(a) \/ SaveRewrite(a)
  PROVE  Kept
<1>1. UNCHANGED files /\ rewrites \subseteq rewrites'
  <2>1. CASE Open(a) \/ Begin(a) \/ Backup(a)
    BY <2>1 DEF Open, OpenMissing, OpenExpired, OpenIncomplete, Begin, Backup, primary, secondary
  <2>2. CASE Remove(a) \/ Resume(a) \/ Close(a)
    <3>1. \A n : Attempt(a, n) => UNCHANGED <<primary, secondary>>
      BY Zenon DEF Attempt
    <3>2. UNCHANGED <<primary, secondary>>
      BY <2>2, <3>1, Zenon DEF Remove, Resume, Close
    <3> QED
      BY <3>2 DEF primary, secondary
  <2>3. CASE Create(a) \/ CloneComplete(a) \/ Release(a)
    BY <2>3 DEF Create, CloneComplete, Release, secondary
  <2>4. CASE Repair(a) \/ SaveRewrite(a)
    BY <2>4 DEF Repair, SaveRewrite, primary, secondary
  <2> QED
    BY <2>1, <2>2, <2>3, <2>4
<1> QED
  BY <1>1, KeptStays

LEMMA RemovalsKeep ==
  ASSUME NEW a \in Actors,
         \/ Prepare(a) \/ Cancel(a) \/ RewritesFenced(a) \/ PrimaryDeleted(a) \/ Finalizing(a)
         \/ Finalized(a) \/ FinalizeRewrites(a) \/ Complete(a) \/ Clean(a) \/ Settle(a)
         \/ Replay(a) \/ ReplayFinalize(a) \/ Unmark(a) \/ Untomb(a) \/ ReplayFinalized(a)
         \/ Forget(a)
  PROVE  Kept
<1>1. UNCHANGED files /\ rewrites \subseteq rewrites'
  <2>1. CASE Prepare(a) \/ Cancel(a)
    BY <2>1 DEF Prepare, Cancel, secondary
  <2>2. CASE RewritesFenced(a) \/ PrimaryDeleted(a) \/ Finalizing(a) \/ Finalized(a)
    BY <2>2 DEF RewritesFenced, PrimaryDeleted, Finalizing, Finalized, Advance, secondary
  <2>3. CASE FinalizeRewrites(a) \/ Complete(a) \/ Clean(a) \/ Settle(a) \/ Forget(a)
    BY <2>3 DEF FinalizeRewrites, Complete, Clean, Settle, Forget, primary, secondary
  <2>4. CASE Replay(a) \/ ReplayFinalize(a) \/ Unmark(a) \/ Untomb(a) \/ ReplayFinalized(a)
    BY <2>4 DEF Replay, ReplayFinalize, Unmark, Untomb, ReplayFinalized, primary, secondary
  <2> QED
    BY <2>1, <2>2, <2>3, <2>4
<1> QED
  BY <1>1, KeptStays

\* What a clone overwrites was put into a copy that was incomplete.
LEMMA DownloadKeeps ==
  ASSUME Inv, NEW a \in Actors, Download(a)
  PROVE  Kept
<1>1. rewrites' = rewrites
  BY DEF Download, secondary
<1>2. CASE UNCHANGED files
  BY <1>1, <1>2, KeptStays
<1>3. ASSUME NEW p \in Paths, Owns(a, "cloning"), files' = [files EXCEPT ![p] = Branch]
      PROVE  Kept
  <2>1. \A w \in WorkIn(files) : w.early
    BY <1>3 DEF Owns, Inv, FilesPart
  <2>2. \A w \in Made : w \in rewrites \/ w.early
    BY <2>1 DEF Made, WorkIn
  <2> QED
    BY <1>1, <2>2 DEF Kept, Made
<1> QED
  BY <1>2, <1>3 DEF Download

LEMMA RepairedKeeps ==
  ASSUME Inv, NEW a \in Actors, Repaired(a)
  PROVE  Kept
<1>1. rewrites' = rewrites
  BY DEF Repaired, secondary
<1>2. CASE UNCHANGED files
  BY <1>1, <1>2, KeptStays
<1>3. CASE files' = [p \in Paths |-> IF files[p] = None THEN Branch ELSE files[p]]
  <2>1. \A p \in Paths : files[p] \in Work => files'[p] = files[p]
    BY <1>3, LifecycleAssumption
  <2> QED
    BY <1>1, <2>1 DEF Kept, Made
<1> QED
  BY <1>2, <1>3 DEF Repaired

LEMMA EditKeeps ==
  ASSUME Inv, NEW a \in Actors, Edit(a)
  PROVE  Kept
<1>1. rewrites' = rewrites
  BY DEF Edit, secondary
<1>2. CASE UNCHANGED files
  BY <1>1, <1>2, KeptStays
<1>3. ASSUME NEW p \in Paths, NEW w, files' = [files EXCEPT ![p] = w],
             safe' = safe \cup ({files[p]} \cap Work)
      PROVE  Kept
  <2>1. \A q \in Paths \ {p} : files'[q] = files[q]
    BY <1>3 DEF Inv, Tables
  <2>2. files[p] \in Work => files[p] \in safe'
    BY <1>3
  <2> QED
    BY <1>1, <2>1, <2>2 DEF Kept, Made
<1> QED
  BY <1>2, <1>3 DEF Edit

LEMMA DeleteRewriteKeeps ==
  ASSUME NEW a \in Actors, DeleteRewrite(a)
  PROVE  Kept
<1>1. files' = files
  BY DEF DeleteRewrite, primary
<1>2. PICK r \in rewrites : rewrites' = rewrites \ {r} /\ safe' = safe \cup {r}
  BY DEF DeleteRewrite
<1> QED
  BY <1>1, <1>2 DEF Kept, Made

\* The fence deletes the records its bundle holds, and no others.
LEMMA FenceRewritesKeeps ==
  ASSUME Inv, NEW a \in Actors, FenceRewrites(a)
  PROVE  Kept
<1>1. files' = files /\ safe' = safe /\ act[a].at = "fence"
  BY DEF FenceRewrites, primary, history
<1>2. CASE UNCHANGED rewrites
  BY <1>1, <1>2, KeptStays
<1>3. CASE rewrites = journal.rewrites
  <2>1. journal # None
    BY <1>1, Holder DEF Removing, Removal, JournalIs
  <2>2. rewrites \subseteq safe
    BY <1>3, <2>1 DEF Inv, SafePart
  <2> QED
    BY <1>1, <2>2 DEF Kept, Made
<1> QED
  BY <1>2, <1>3 DEF FenceRewrites, secondary

\* ... and the copy is deleted as its bundle holds it.
LEMMA DeletePrimaryKeeps ==
  ASSUME Inv, NEW a \in Actors, DeletePrimary(a)
  PROVE  Kept
<1>1. rewrites' = rewrites /\ safe' = safe /\ act[a].at = "delete"
  BY DEF DeletePrimary, secondary, history
<1>2. CASE UNCHANGED files
  BY <1>1, <1>2, KeptStays
<1>3. CASE ~HasRow \/ IsTarget
  <2>1. journal # None
    BY <1>1, Holder DEF Removing, Removal, JournalIs
  <2>2. row = None \/ Target
    BY <1>3, <2>1 DEF IsTarget, HasRow, Target
  <2>3. WorkIn(files) \subseteq safe
    <3>1. CASE row = None
      BY <3>1, LifecycleAssumption DEF Inv, FilesPart, WorkIn
    <3>2. CASE Target
      BY <3>2 DEF Inv, SafePart
    <3> QED
      BY <2>2, <3>1, <3>2
  <2> QED
    BY <1>1, <2>3 DEF Kept, Made, WorkIn
<1> QED
  BY <1>2, <1>3 DEF DeletePrimary

LEMMA NextKeeps ==
  ASSUME Inv, [Next]_vars
  PROVE  Kept
<1>1. CASE UNCHANGED vars
  BY <1>1, KeptStays DEF vars, primary, secondary
<1>2. CASE Expire
  BY <1>2, KeptStays DEF Expire, secondary
<1>3. ASSUME NEW a \in Actors,
             \/ Open(a) \/ Begin(a) \/ DeleteRewrite(a) \/ Backup(a)
             \/ Remove(a) \/ Resume(a) \/ Step(a) \/ Close(a)
      PROVE  Kept
  <2>1. CASE Step(a)
    BY <2>1, OpeningsKeep, RemovalsKeep, DownloadKeeps, RepairedKeeps, EditKeeps,
       FenceRewritesKeeps, DeletePrimaryKeeps DEF Step
  <2> QED
    BY <1>3, <2>1, OpeningsKeep, DeleteRewriteKeeps
<1> QED
  BY <1>1, <1>2, <1>3 DEF Next

----------------------------------------------------------------------------
(* The theorems                                                            *)

\* Every reachable state satisfies the inductive invariant.
THEOREM InvAlways == Spec => []Inv
<1>1. Inv /\ [Next]_vars => Inv'
  BY NextInv
<1> QED
  BY <1>1, InitInv, PTL DEF Spec

\* Rows, journals, completions, receipts and markers are records of their kind,
\* and the counters keep their bounds.
THEOREM TypeCorrect == Spec => []TypeOK
BY InvAlways, InvTypes, PTL

\* A copy that is called complete has every file of the branch
\* (markLocalRepositoryCloneComplete, applyCloneRepairAtomically), though the
\* operation that fetched some of them may have been reclaimed meanwhile.
THEOREM WholeWhenComplete == Spec => []CompleteIsWhole
<1>1. Inv => CompleteIsWhole
  BY DEF Inv, FilesPart, CompleteIsWhole
<1> QED
  BY <1>1, InvAlways, PTL

\* A rewrite operation is never stored for a copy that is gone, unless the
\* removal of that copy was replayed (saveLocalRewriteOperation,
\* fenceAndRemoveLocalRewriteOperationsForMaintenance).
THEOREM RewritesHaveCopies == Spec => []RewritesHaveTheirCopy
<1>1. Inv => RewritesHaveTheirCopy
  BY DEF Inv, MarkerPart, RewritesHaveTheirCopy
<1> QED
  BY <1>1, InvAlways, PTL

\* No step of any tab loses work of the author that no bundle holds
\* (removeRepositoryWithBackupReceipt, and the clone and repair that write files).
THEOREM NoWorkLost == Spec => WorkKept
<1>1. Inv /\ [Next]_vars => [\A w \in Made : w.early \/ w \in Made' \/ w \in safe']_vars
  BY NextKeeps DEF Kept
<1> QED
  BY <1>1, InvAlways, PTL DEF Spec, WorkKept
=============================================================================
