------------------------ MODULE AssistantChatsProofs ------------------------
(***************************************************************************)
(* AssistantChats for every number of chats, edits, retries and failures:  *)
(* the types, that a chat is deleted after a note only when a note of it   *)
(* was appended, that no save brings a deleted chat back, that no save     *)
(* takes a change from a stored chat, that what the panel takes for stored *)
(* is stored, and that a chat of which nothing is under way is.            *)
(***************************************************************************)
EXTENDS AssistantChats, TLAPS, SequenceTheorems

-----------------------------------------------------------------------------
(* What a step does to the queue.  Whether an asker is still interested is *)
(* all that changes of a transaction on its way.                           *)

SameButLive(r, t) ==
  /\ r.kind = t.kind /\ r.chat = t.chat /\ r.by = t.by
  /\ r.session = t.session /\ r.goal = t.goal

QueueKept ==
  /\ queue' \in Seq(Requests) /\ Len(queue') = Len(queue)
  /\ \A i \in 1..Len(queue) : SameButLive(queue'[i], queue[i])

QueueGrown(r) ==
  /\ queue' \in Seq(Requests) /\ Len(queue') = Len(queue) + 1
  /\ \A i \in 1..Len(queue) : SameButLive(queue'[i], queue[i])
  /\ queue'[Len(queue) + 1] = r

QueuePopped ==
  /\ queue' \in Seq(Requests) /\ queue # <<>> /\ Len(queue') = Len(queue) - 1
  /\ \A i \in 1..Len(queue') : SameButLive(queue'[i], queue[i + 1])

\* The transaction that ends is followed by one its callback starts
QueueMoved(r) ==
  /\ queue' \in Seq(Requests) /\ queue # <<>> /\ Len(queue') = Len(queue)
  /\ \A i \in 1..(Len(queue) - 1) : SameButLive(queue'[i], queue[i + 1])
  /\ queue'[Len(queue)] = r

LEMMA CancelledType ==
    ASSUME NEW q \in Seq(Requests)
    PROVE  /\ Cancelled(q) \in Seq(Requests) /\ Len(Cancelled(q)) = Len(q)
           /\ \A i \in 1..Len(q) : SameButLive(Cancelled(q)[i], q[i])
<1> DEFINE e(i) == IF q[i].kind = "load" /\ q[i].by = "panel"
                   THEN [q[i] EXCEPT !.live = FALSE] ELSE q[i]
<1>1. Cancelled(q) = [i \in 1..Len(q) |-> e(i)]
  BY DEF Cancelled
<1>2. \A i \in 1..Len(q) : e(i) \in Requests /\ SameButLive(e(i), q[i])
  <2> TAKE i \in 1..Len(q)
  <2>1. q[i] \in Requests
    OBVIOUS
  <2>2. QED
    BY <2>1 DEF Requests, SameButLive
<1> HIDE DEF e
<1>3. QED
  BY <1>1, <1>2

LEMMA OrphanedType ==
    ASSUME NEW q \in Seq(Requests), NEW all
    PROVE  /\ Orphaned(q, all) \in Seq(Requests) /\ Len(Orphaned(q, all)) = Len(q)
           /\ \A i \in 1..Len(q) : SameButLive(Orphaned(q, all)[i], q[i])
<1> DEFINE e(i) == IF \/ q[i].by = "panel" /\ q[i].kind \in {"load", "delete"}
                      \/ all /\ q[i].kind \in {"autosave", "flush"}
                   THEN [q[i] EXCEPT !.live = FALSE] ELSE q[i]
<1>1. Orphaned(q, all) = [i \in 1..Len(q) |-> e(i)]
  BY DEF Orphaned
<1>2. \A i \in 1..Len(q) : e(i) \in Requests /\ SameButLive(e(i), q[i])
  <2> TAKE i \in 1..Len(q)
  <2>1. q[i] \in Requests
    OBVIOUS
  <2>2. QED
    BY <2>1 DEF Requests, SameButLive
<1> HIDE DEF e
<1>3. QED
  BY <1>1, <1>2

LEMMA UnchangedQueue ==
    ASSUME queue \in Seq(Requests), queue' = queue
    PROVE  QueueKept
BY DEF QueueKept, SameButLive

LEMMA KeptQueue ==
    ASSUME queue \in Seq(Requests), NEW all,
           queue' \in {Cancelled(queue), Orphaned(queue, all)}
    PROVE  QueueKept
BY CancelledType, OrphanedType DEF QueueKept

LEMMA GrownQueue ==
    ASSUME queue \in Seq(Requests), NEW r \in Requests
    PROVE  /\ queue' = Append(queue, r) => QueueGrown(r)
           /\ queue' = Append(Cancelled(queue), r) => QueueGrown(r)
           /\ \A all : queue' = Append(Orphaned(queue, all), r) => QueueGrown(r)
<1>1. ASSUME NEW q \in Seq(Requests), Len(q) = Len(queue), queue' = Append(q, r),
             \A i \in 1..Len(queue) : SameButLive(q[i], queue[i])
      PROVE  QueueGrown(r)
  BY <1>1 DEF QueueGrown
<1>2. QED
  BY <1>1, CancelledType, OrphanedType DEF SameButLive

LEMMA PoppedQueue ==
    ASSUME queue \in Seq(Requests), queue # <<>>,
           queue' \in {Tail(queue), Cancelled(Tail(queue))}
    PROVE  QueuePopped /\ Head(queue) = queue[1] /\ Head(queue) \in Requests
<1>1. /\ Tail(queue) \in Seq(Requests) /\ Len(Tail(queue)) = Len(queue) - 1
      /\ \A i \in 1..Len(Tail(queue)) : Tail(queue)[i] = queue[i + 1]
      /\ Head(queue) = queue[1] /\ Head(queue) \in Requests
  BY HeadTailProperties
<1>2. CASE queue' = Tail(queue)
  BY <1>1, <1>2 DEF QueuePopped, SameButLive
<1>3. CASE queue' = Cancelled(Tail(queue))
  <2>1. /\ queue' \in Seq(Requests) /\ Len(queue') = Len(queue) - 1
        /\ \A i \in 1..Len(queue') : SameButLive(queue'[i], Tail(queue)[i])
    BY <1>1, <1>3, CancelledType
  <2>2. QED
    BY <1>1, <2>1 DEF QueuePopped
<1>4. QED
  BY <1>1, <1>2, <1>3

LEMMA MovedQueue ==
    ASSUME queue \in Seq(Requests), queue # <<>>, NEW r \in Requests,
           queue' = Append(Tail(queue), r)
    PROVE  QueueMoved(r) /\ Head(queue) = queue[1] /\ Head(queue) \in Requests
<1>1. /\ Tail(queue) \in Seq(Requests) /\ Len(Tail(queue)) = Len(queue) - 1
      /\ \A i \in 1..Len(Tail(queue)) : Tail(queue)[i] = queue[i + 1]
      /\ Head(queue) = queue[1] /\ Head(queue) \in Requests
  BY HeadTailProperties
<1>2. QED
  BY <1>1 DEF QueueMoved, SameButLive

-----------------------------------------------------------------------------
(* The types.  A transaction writes the chat it names; a timer runs for the *)
(* chat that is open; of all the steps of a note at most one is on its way, *)
(* and the note that waits for it is there.                                *)

StorePart ==
  /\ store \in [Chats -> Sessions \cup {None}]
  /\ \A c \in Chats : store[c] # None => store[c].chat = c

Writes == {"autosave", "flush", "farewell", "note"}
Proper(r) ==
  /\ r.session # None => r.session.chat = r.chat
  /\ r.kind \in Writes => r.session # None
  /\ r.kind = "flush" <=> r.goal # None
  /\ r.kind = "load" => r.session = None
QueuePart ==
  /\ queue \in Seq(Requests)
  /\ \A i \in 1..Len(queue) : Proper(queue[i])

CurrentPart == current \in Sessions \cup {None}

GoodPanel(p) == p \in Panels /\ (~p.open => p.timer = None)
PanelPart == GoodPanel(panel) /\ panel.timer \in {None, current}

OfNote(r) == r.kind = "note" \/ (r.kind = "delete" /\ r.by = "note")
Waits(note, r) ==
  /\ note # None /\ note.chat = r.chat
  /\ r.kind = "note" => note.phase \in {"pending", "saved"}
  /\ r.kind = "delete" => note.phase = "delete"
WaitsFor(r) == Waits(noting, r)
NotingPart ==
  /\ noting \in Notings \cup {None}
  /\ \A i \in 1..Len(queue) : OfNote(queue[i]) => WaitsFor(queue[i])
  /\ \A i, j \in 1..Len(queue) : OfNote(queue[i]) /\ OfNote(queue[j]) => i = j

CountPart ==
  /\ made \in 0..MaxEdits /\ asks \in 0..MaxAsks /\ failures \in 0..MaxFailures
  /\ seen \subseteq Chats /\ deleted \subseteq Chats
  /\ exposed \subseteq Chats /\ noted \subseteq Chats
DroppedPart == dropped \subseteq 0..MaxEdits

Inv ==
  /\ StorePart /\ QueuePart /\ CurrentPart /\ PanelPart
  /\ NotingPart /\ CountPart /\ DroppedPart

LEMMA InvImplies == Inv => TypeOK
BY DEF Inv, StorePart, QueuePart, CurrentPart, PanelPart, GoodPanel, NotingPart, CountPart,
   DroppedPart, TypeOK

-----------------------------------------------------------------------------
(* The queue and the note that waits                                       *)

LEMMA ProperKept ==
    ASSUME NEW r, NEW t, SameButLive(r, t), Proper(t)
    PROVE  Proper(r)
BY DEF SameButLive, Proper

LEMMA OfNoteKept ==
    ASSUME NEW r, NEW t, SameButLive(r, t)
    PROVE  /\ OfNote(r) <=> OfNote(t)
           /\ WaitsFor(r) <=> WaitsFor(t)
BY DEF SameButLive, OfNote, WaitsFor, Waits

LEMMA QueueParts ==
    ASSUME QueuePart
    PROVE  /\ QueueKept => QueuePart'
           /\ QueuePopped => QueuePart'
           /\ \A r : Proper(r) /\ QueueGrown(r) => QueuePart'
           /\ \A r : Proper(r) /\ QueueMoved(r) => QueuePart'
<1>1. QueueKept => QueuePart'
  BY ProperKept DEF QueuePart, QueueKept
<1>2. QueuePopped => QueuePart'
  BY ProperKept DEF QueuePart, QueuePopped
<1>3. ASSUME NEW r, Proper(r), QueueGrown(r) PROVE QueuePart'
  BY <1>3, ProperKept DEF QueuePart, QueueGrown
<1>4. ASSUME NEW r, Proper(r), QueueMoved(r) PROVE QueuePart'
  BY <1>4, ProperKept DEF QueuePart, QueueMoved
<1>5. QED
  BY <1>1, <1>2, <1>3, <1>4

\* A note that is only given up keeps waiting for what is under way
SameNote ==
  \/ noting' = noting
  \/ noting # None /\ noting' = [noting EXCEPT !.live = FALSE]

LEMMA SameNoteType ==
    ASSUME NotingPart, SameNote
    PROVE  /\ noting' \in Notings \cup {None}
           /\ \A r : WaitsFor(r) => WaitsFor(r)'
BY NoneAssumption DEF NotingPart, SameNote, Notings, WaitsFor, Waits

LEMMA NotingParts ==
    ASSUME NotingPart, SameNote
    PROVE  /\ QueueKept => NotingPart'
           /\ QueuePopped => NotingPart'
           /\ \A r : ~OfNote(r) /\ QueueGrown(r) => NotingPart'
           /\ \A r : ~OfNote(r) /\ QueueMoved(r) => NotingPart'
<1>1. QueueKept => NotingPart'
  BY SameNoteType, OfNoteKept DEF NotingPart, QueueKept
<1>2. QueuePopped => NotingPart'
  <2> SUFFICES ASSUME QueuePopped PROVE NotingPart'
    OBVIOUS
  <2>1. Len(queue) \in Nat /\ \A i \in 1..Len(queue') : i + 1 \in 1..Len(queue)
    BY DEF QueuePopped
  <2>2. \A i \in 1..Len(queue') : OfNote(queue'[i]) =>
           OfNote(queue[i + 1]) /\ WaitsFor(queue'[i])
    BY <2>1, OfNoteKept DEF QueuePopped, NotingPart
  <2>3. \A i, j \in 1..Len(queue') : OfNote(queue'[i]) /\ OfNote(queue'[j]) => i = j
    <3> SUFFICES ASSUME NEW i \in 1..Len(queue'), NEW j \in 1..Len(queue'),
                        OfNote(queue'[i]), OfNote(queue'[j])
                 PROVE  i = j
      OBVIOUS
    <3>1. i + 1 = j + 1
      BY <2>1, <2>2 DEF NotingPart
    <3>2. QED
      BY <3>1
  <2>4. QED
    BY <2>2, <2>3, SameNoteType DEF NotingPart, OfNote
<1>3. ASSUME NEW r, ~OfNote(r), QueueGrown(r) PROVE NotingPart'
  <2>1. \A i \in 1..Len(queue') : OfNote(queue'[i]) =>
           i \in 1..Len(queue) /\ OfNote(queue[i]) /\ WaitsFor(queue'[i])
    BY <1>3, OfNoteKept DEF QueueGrown, NotingPart
  <2>2. QED
    BY <2>1, SameNoteType DEF NotingPart, OfNote
<1>4. ASSUME NEW r, ~OfNote(r), QueueMoved(r) PROVE NotingPart'
  <2>1. /\ Len(queue') = Len(queue)
        /\ \A i \in 1..Len(queue) : OfNote(queue'[i]) =>
             i \in 1..(Len(queue) - 1) /\ i + 1 \in 1..Len(queue) /\ OfNote(queue[i + 1])
             /\ WaitsFor(queue'[i])
    <3>1. Len(queue') = Len(queue) /\ Len(queue) \in Nat
      BY <1>4 DEF QueueMoved
    <3>2. \A i \in 1..Len(queue) : OfNote(queue'[i]) =>
             i \in 1..(Len(queue) - 1) /\ i + 1 \in 1..Len(queue)
      BY <1>4, <3>1 DEF QueueMoved
    <3>3. \A i \in 1..(Len(queue) - 1) : OfNote(queue'[i]) =>
             OfNote(queue[i + 1]) /\ WaitsFor(queue'[i])
      BY <1>4, <3>1, OfNoteKept DEF QueueMoved, NotingPart
    <3>4. QED
      BY <3>1, <3>2, <3>3
  <2>2. \A i, j \in 1..Len(queue') : OfNote(queue'[i]) /\ OfNote(queue'[j]) => i = j
    <3> SUFFICES ASSUME NEW i \in 1..Len(queue'), NEW j \in 1..Len(queue'),
                        OfNote(queue'[i]), OfNote(queue'[j])
                 PROVE  i = j
      OBVIOUS
    <3>1. i + 1 = j + 1
      BY <2>1 DEF NotingPart
    <3>2. QED
      BY <3>1
  <2>3. QED
    BY <2>1, <2>2, SameNoteType DEF NotingPart, OfNote
<1>5. QED
  BY <1>1, <1>2, <1>3, <1>4

NoNoteWaits == \A i \in 1..Len(queue) : ~OfNote(queue[i])

LEMMA NoNote ==
    ASSUME NotingPart, noting = None \/ noting.phase \in {"append", "refresh"}
    PROVE  NoNoteWaits
BY DEF NotingPart, NoNoteWaits, OfNote, WaitsFor, Waits

LEMMA NoteEnds ==
    ASSUME QueuePart, NotingPart, OfNote(queue[1]), QueuePopped
    PROVE  NoNoteWaits'
<1> SUFFICES ASSUME NEW i \in 1..Len(queue'), OfNote(queue'[i]) PROVE FALSE
  BY DEF NoNoteWaits, OfNote
<1>1. i + 1 \in 1..Len(queue) /\ 1 \in 1..Len(queue) /\ i + 1 # 1
  BY DEF QueuePopped, QueuePart
<1>2. OfNote(queue[i + 1])
  BY OfNoteKept DEF QueuePopped
<1>3. QED
  BY <1>1, <1>2 DEF NotingPart

LEMMA NoNoteKept ==
    ASSUME NoNoteWaits, QueueKept
    PROVE  NoNoteWaits'
BY OfNoteKept DEF NoNoteWaits, QueueKept, OfNote

LEMMA NotingFree ==
    ASSUME noting' \in Notings \cup {None}, NoNoteWaits'
    PROVE  NotingPart'
BY DEF NotingPart, NoNoteWaits

LEMMA NotingTaken ==
    ASSUME NoNoteWaits, NEW r, QueueGrown(r), noting' \in Notings, Waits(noting', r)
    PROVE  NotingPart'
<1>1. \A i \in 1..Len(queue') : OfNote(queue'[i]) => i = Len(queue) + 1 /\ queue'[i] = r
  BY OfNoteKept DEF NoNoteWaits, QueueGrown
<1>2. QED
  BY <1>1 DEF NotingPart, OfNote, WaitsFor

-----------------------------------------------------------------------------
(* The chat in memory and the panel                                        *)

LEMMA FreshType == GoodPanel(Fresh) /\ GoodPanel(Closed) /\ Fresh.open /\ ~Closed.open
BY DEF GoodPanel, Fresh, Closed, Nothing, Panels

LEMMA EffectType ==
    ASSUME NEW p, GoodPanel(p), NEW s \in Sessions \cup {None}
    PROVE  /\ GoodPanel(Effect(p, s))
           /\ Effect(p, s).timer \in {None, s}
           /\ Effect(p, s).open = p.open
<1>1. CASE ~p.open
  BY <1>1 DEF Effect, GoodPanel
<1>2. CASE p.open /\ s = None
  BY <1>2 DEF Effect, GoodPanel, Panels
<1>3. CASE p.open /\ s # None
  <2> DEFINE edited == p.attempts[s.chat] # None /\ p.attempts[s.chat].of # s
             q == IF edited
                  THEN [p EXCEPT !.attempts[s.chat] = None, !.retry = FALSE, !.status = None]
                  ELSE p
  <2>1. s \in Sessions /\ s.chat \in Chats
    BY <1>3 DEF Sessions
  <2>2. q \in Panels /\ q.open = p.open
    BY <1>3, <2>1 DEF GoodPanel, Panels
  <2>3. Effect(p, s) = [q EXCEPT !.timer = IF Covered(q, s) THEN None ELSE s]
    BY <1>3 DEF Effect
  <2> HIDE DEF q
  <2>4. QED
    BY <1>3, <2>1, <2>2, <2>3 DEF GoodPanel, Panels
<1>4. QED
  BY <1>1, <1>2, <1>3

\* The same chat with the same note
Like(s, t) ==
  /\ s = None <=> t = None
  /\ s # None => s.chat = t.chat /\ s.edits = t.edits /\ s.note = t.note

LEMMA TouchedType ==
    ASSUME CurrentPart, NEW s \in Sessions \cup {None}
    PROVE  Touched(s) \in Sessions \cup {None} /\ Like(Touched(s), s)
BY NoneAssumption DEF CurrentPart, Touched, SameChat, Like, Sessions

LEMMA KnownType ==
    ASSUME Inv, NEW c
    PROVE  Known(c) \subseteq 0..MaxEdits
<1>1. ASSUME NEW i \in 1..Len(queue), queue[i].kind \in Writes
      PROVE  queue[i].session.edits \subseteq 0..MaxEdits
  <2>1. queue[i] \in Requests /\ queue[i].session # None
    BY <1>1 DEF Inv, QueuePart, Proper
  <2>2. queue[i].session \in Sessions
    BY <2>1 DEF Requests
  <2>3. QED
    BY <2>2 DEF Sessions
<1>2. current # None => current.edits \subseteq 0..MaxEdits
  BY DEF Inv, CurrentPart, Sessions
<1>3. DOMAIN queue = 1..Len(queue)
  BY DEF Inv, QueuePart
<1> DEFINE writing == {i \in DOMAIN queue : queue[i].chat = c /\ queue[i].kind \in Writes}
           saves == {queue[i].session.edits : i \in writing}
<1>4. UNION saves \subseteq 0..MaxEdits
  BY <1>1, <1>3
<1> DEFINE inMemory == IF current # None /\ current.chat = c THEN current.edits ELSE {}
<1>5. Known(c) = (UNION saves) \cup inMemory
  BY DEF Known, Writes
<1>6. inMemory \subseteq 0..MaxEdits
  BY <1>2
<1> HIDE DEF saves, writing, inMemory
<1>7. QED
  BY <1>4, <1>5, <1>6

LEMMA ShowType ==
    ASSUME Inv, NEW p, GoodPanel(p), NEW s \in Sessions \cup {None}, Show(p, s)
    PROVE  CurrentPart' /\ PanelPart' /\ DroppedPart' /\ Like(current', s)
<1>1. current' \in Sessions \cup {None} /\ Like(current', s)
  BY TouchedType DEF Inv, Show
<1>2. CurrentPart' /\ PanelPart'
  BY <1>1, EffectType DEF Show, CurrentPart, PanelPart, GoodPanel
<1>3. DroppedPart'
  BY KnownType DEF Inv, DroppedPart, Show
<1>4. QED
  BY <1>1, <1>2, <1>3

LEMMA ShowOpenType ==
    ASSUME Inv, NEW s \in Sessions \cup {None}, ShowOpen(s)
    PROVE  CurrentPart' /\ PanelPart' /\ DroppedPart' /\ Like(current', s)
BY ShowType, FreshType DEF ShowOpen, Inv, PanelPart

LEMMA GivenUp ==
    ASSUME NEW s, noting' \in {noting, Abandoned(noting), Moved(s)}
    PROVE  SameNote
BY DEF SameNote, Abandoned, Moved

LEMMA EmptyType ==
    ASSUME NEW c \in Chats
    PROVE  Empty(c) \in Sessions /\ Empty(c) # None /\ Empty(c).chat = c /\ Empty(c).note = None
BY NoneAssumption, ChatsAssumption DEF Empty, Sessions

-----------------------------------------------------------------------------
(* Every step keeps the types                                              *)

LEMMA Frame ==
    ASSUME Inv
    PROVE  /\ UNCHANGED store => StorePart'
           /\ UNCHANGED <<current, panel>> => CurrentPart' /\ PanelPart'
           /\ UNCHANGED dropped => DroppedPart'
           /\ UNCHANGED queue /\ SameNote => QueuePart' /\ NotingPart'
           /\ UNCHANGED <<bounds, history>> => CountPart'
<1>1. UNCHANGED queue /\ SameNote => QueuePart' /\ NotingPart'
  BY UnchangedQueue, QueueParts, NotingParts DEF Inv, QueuePart
<1>2. QED
  BY <1>1 DEF Inv, StorePart, CurrentPart, PanelPart, DroppedPart, CountPart, bounds, history

LEMMA AskType ==
    ASSUME Inv, Ask \/ Fail
    PROVE  made' \in 0..MaxEdits /\ asks' \in 0..MaxAsks /\ failures' \in 0..MaxFailures
BY ChatsAssumption DEF Inv, CountPart, Ask, Fail

\* What the queue holds when a step appends one transaction, or ends one
LEMMA Grows ==
    ASSUME Inv, NEW r, Proper(r), ~OfNote(r), QueueGrown(r), SameNote
    PROVE  QueuePart' /\ NotingPart'
BY QueueParts, NotingParts DEF Inv

LEMMA Pops ==
    ASSUME Inv, QueuePopped, SameNote
    PROVE  QueuePart' /\ NotingPart'
BY QueueParts, NotingParts DEF Inv

LEMMA Keeps ==
    ASSUME Inv, QueueKept, SameNote
    PROVE  QueuePart' /\ NotingPart'
BY QueueParts, NotingParts DEF Inv

LEMMA SaveTypes ==
    ASSUME NEW s \in Sessions
    PROVE  /\ s # None /\ s.chat \in Chats
           /\ Autosave(s) \in Requests /\ Proper(Autosave(s)) /\ ~OfNote(Autosave(s))
           /\ Farewell(s) \in Requests /\ Proper(Farewell(s)) /\ ~OfNote(Farewell(s))
           /\ NoteSave(s) \in Requests /\ Proper(NoteSave(s))
<1>1. s # None /\ s.chat \in Chats
  BY NoneAssumption DEF Sessions
<1>2. QED
  BY <1>1, NoneAssumption
     DEF Autosave, Farewell, NoteSave, Request, Requests, Kinds, Askers, Proper, Writes, OfNote

LEMMA FlushType ==
    ASSUME NEW s \in Sessions, NEW goal \in Goals
    PROVE  Flush(s, goal) \in Requests /\ Proper(Flush(s, goal)) /\ ~OfNote(Flush(s, goal))
BY SaveTypes, NoneAssumption
   DEF Flush, Request, Requests, Kinds, Askers, Proper, Writes, OfNote

LEMMA LoadType ==
    ASSUME NEW c \in Chats, NEW by \in Askers
    PROVE  Load(c, by) \in Requests /\ Proper(Load(c, by)) /\ ~OfNote(Load(c, by))
BY DEF Load, Request, Requests, Kinds, Askers, Proper, Writes, OfNote

LEMMA DeleteType ==
    ASSUME NEW c \in Chats, NEW by \in Askers, NEW back \in Sessions \cup {None},
           back # None => back.chat = c
    PROVE  /\ Delete(c, by, back) \in Requests /\ Proper(Delete(c, by, back))
           /\ by # "note" => ~OfNote(Delete(c, by, back))
BY DEF Delete, Request, Requests, Kinds, Askers, Proper, Writes, OfNote

LEMMA HeadType ==
    ASSUME QueuePart, queue # <<>>
    PROVE  /\ Head(queue) = queue[1] /\ 1 \in 1..Len(queue)
           /\ Head(queue) \in Requests /\ Proper(Head(queue))
<1>1. Head(queue) = queue[1] /\ 1 \in 1..Len(queue) /\ Head(queue) \in Requests
  BY HeadTailProperties DEF QueuePart
<1>2. QED
  BY <1>1 DEF QueuePart

LEMMA CurrentType ==
    ASSUME Inv, current # None
    PROVE  current \in Sessions /\ current.chat \in Chats
BY DEF Inv, CurrentPart, Sessions

LEMMA EditStep ==
    ASSUME Inv, Edit
    PROVE  Inv'
<1>1. made' \in 0..MaxEdits
  BY ChatsAssumption DEF Inv, CountPart, Edit
<1>2. [current EXCEPT !.edits = @ \cup {made'}] \in Sessions
  BY <1>1, CurrentType DEF Edit, Sessions
<1>3. CurrentPart' /\ PanelPart' /\ DroppedPart'
  BY <1>2, ShowType DEF Edit, Inv, PanelPart
<1>4. CountPart'
  BY <1>1 DEF Inv, CountPart, Edit, history
<1>5. QED
  BY <1>3, <1>4, Frame, GivenUp DEF Inv, Edit

LEMMA TimerFiresStep ==
    ASSUME Inv, TimerFires
    PROVE  Inv'
<1>1. panel.timer \in Sessions /\ panel.timer.chat \in Chats
  BY CurrentType DEF Inv, PanelPart, TimerFires
<1>2. PanelPart'
  BY <1>1 DEF Inv, PanelPart, GoodPanel, Panels, TimerFires
<1>3. QueuePart' /\ NotingPart'
  <2>1. QueueGrown(Autosave(panel.timer))
    BY <1>1, SaveTypes, GrownQueue DEF TimerFires, Inv, QueuePart
  <2>2. QED
    BY <1>1, <2>1, SaveTypes, Grows, GivenUp DEF TimerFires
<1>4. QED
  BY <1>2, <1>3, Frame DEF Inv, TimerFires, CurrentPart

LEMMA RetryFiresStep ==
    ASSUME Inv, RetryFires
    PROVE  Inv'
<1>1. GoodPanel([panel EXCEPT !.retry = FALSE])
  BY DEF Inv, PanelPart, GoodPanel, Panels
<1>2. PanelPart' /\ CurrentPart'
  BY <1>1, EffectType DEF Inv, PanelPart, CurrentPart, RetryFires
<1>3. QED
  BY <1>2, Frame, GivenUp DEF Inv, RetryFires

LEMMA RetryStoppedStep ==
    ASSUME Inv, RetryStopped
    PROVE  Inv'
<1>1. current \in Sessions /\ current.chat \in Chats
  BY CurrentType DEF RetryStopped
<1>2. GoodPanel([panel EXCEPT !.pending[current.chat] = None, !.attempts[current.chat] = None,
                              !.status = None, !.stopped = @ \ {current}])
  BY <1>1 DEF Inv, PanelPart, GoodPanel, Panels
<1>3. PanelPart' /\ CurrentPart'
  BY <1>2, EffectType DEF Inv, PanelPart, CurrentPart, RetryStopped
<1>4. CountPart'
  BY AskType DEF Inv, CountPart, RetryStopped, history
<1>5. QED
  BY <1>3, <1>4, Frame, GivenUp DEF Inv, RetryStopped

-----------------------------------------------------------------------------
(* The panel and the page                                                  *)

LEMMA LeaveTypes ==
    ASSUME Inv, NEW goal \in Goals, Leave(goal)
    PROVE  /\ CurrentPart' /\ PanelPart' /\ DroppedPart' /\ QueuePart' /\ NotingPart'
<1>1. SameNote
  BY GivenUp DEF Leave
<1>2. goal.chat \in Chats
  BY DEF Goals
<1>3. CASE goal.fresh /\ (current = None \/ panel.saved[current.chat] = current)
  <2>1. QueueKept
    BY <1>3, KeptQueue DEF Leave, Inv, QueuePart
  <2>2. CurrentPart' /\ PanelPart' /\ DroppedPart'
    BY <1>2, <1>3, EmptyType, ShowOpenType DEF Leave
  <2>3. QED
    BY <1>1, <2>1, <2>2, Keeps
<1>4. CASE ~goal.fresh /\ (current = None \/ panel.saved[current.chat] = current)
  <2>1. Load(goal.chat, "panel") \in Requests /\ Proper(Load(goal.chat, "panel"))
        /\ ~OfNote(Load(goal.chat, "panel"))
    BY <1>2, LoadType DEF Askers
  <2>2. QueueGrown(Load(goal.chat, "panel"))
    BY <1>4, <2>1, GrownQueue DEF Leave, Inv, QueuePart
  <2>3. QED
    BY <1>1, <1>4, <2>1, <2>2, Grows, Frame DEF Leave
<1>5. CASE ~(current = None \/ panel.saved[current.chat] = current)
  <2>1. current \in Sessions
    BY <1>5, CurrentType
  <2>2. QueueGrown(Flush(current, goal))
    BY <1>5, <2>1, FlushType, GrownQueue DEF Leave, Inv, QueuePart
  <2>3. QED
    BY <1>1, <1>5, <2>1, <2>2, FlushType, Grows, Frame DEF Leave
<1>6. QED
  BY <1>3, <1>4, <1>5

LEMMA InPanelStep ==
    ASSUME Inv, NEW c \in Chats, NewInPanel(c) \/ OpenInPanel(c)
    PROVE  Inv'
<1>1. [chat |-> c, fresh |-> TRUE] \in Goals /\ [chat |-> c, fresh |-> FALSE] \in Goals
  BY DEF Goals
<1>2. CurrentPart' /\ PanelPart' /\ DroppedPart' /\ QueuePart' /\ NotingPart'
  BY <1>1, LeaveTypes DEF NewInPanel, OpenInPanel
<1>3. CountPart'
  BY AskType DEF Inv, CountPart, NewInPanel, OpenInPanel, history
<1>4. QED
  BY <1>2, <1>3, Frame DEF Inv, NewInPanel, OpenInPanel

LEMMA DeleteInPanelStep ==
    ASSUME Inv, NEW c \in Chats, DeleteInPanel(c)
    PROVE  Inv'
<1>1. /\ Delete(c, "panel", None) \in Requests /\ Proper(Delete(c, "panel", None))
      /\ ~OfNote(Delete(c, "panel", None))
  BY DeleteType DEF Askers
<1>2. QueueGrown(Delete(c, "panel", None))
  BY <1>1, GrownQueue DEF DeleteInPanel, Inv, QueuePart
<1>3. QueuePart' /\ NotingPart'
  BY <1>1, <1>2, Grows, GivenUp DEF DeleteInPanel
<1>4. CountPart'
  BY AskType DEF Inv, CountPart, DeleteInPanel
<1>5. QED
  BY <1>3, <1>4, Frame DEF Inv, DeleteInPanel

LEMMA NewInPageStep ==
    ASSUME Inv, NEW c \in Chats, NewInPage(c)
    PROVE  Inv'
<1>1. CurrentPart' /\ PanelPart' /\ DroppedPart'
  BY EmptyType, ShowOpenType DEF NewInPage
<1>2. CountPart'
  BY AskType DEF Inv, CountPart, NewInPage
<1>3. SameNote
  BY GivenUp DEF NewInPage
<1>4. QED
  BY <1>1, <1>2, <1>3, Frame DEF Inv, NewInPage

LEMMA OpenInPageStep ==
    ASSUME Inv, NEW c \in Chats, OpenInPage(c)
    PROVE  Inv'
<1>1. /\ Load(c, "page") \in Requests /\ Proper(Load(c, "page")) /\ ~OfNote(Load(c, "page"))
  BY LoadType DEF Askers
<1>2. QueueGrown(Load(c, "page"))
  BY <1>1, GrownQueue DEF OpenInPage, Inv, QueuePart
<1>3. QueuePart' /\ NotingPart'
  BY <1>1, <1>2, Grows, GivenUp DEF OpenInPage
<1>4. CountPart'
  BY AskType DEF Inv, CountPart, OpenInPage, history
<1>5. QED
  BY <1>3, <1>4, Frame DEF Inv, OpenInPage

Closes(c) == IF current # None /\ current.chat = c THEN current ELSE None

LEMMA DeleteInPageStep ==
    ASSUME Inv, NEW c \in Chats, DeleteInPage(c)
    PROVE  Inv'
<1>1. Closes(c) \in Sessions \cup {None} /\ (Closes(c) # None => Closes(c).chat = c)
  BY DEF Closes, Inv, CurrentPart
<1>2. /\ Delete(c, "page", Closes(c)) \in Requests /\ Proper(Delete(c, "page", Closes(c)))
      /\ ~OfNote(Delete(c, "page", Closes(c)))
  BY <1>1, DeleteType DEF Askers
<1>3. QueueGrown(Delete(c, "page", Closes(c)))
  BY <1>2, GrownQueue DEF DeleteInPage, Inv, QueuePart, Closes
<1>4. QueuePart' /\ NotingPart'
  BY <1>2, <1>3, Grows, GivenUp DEF DeleteInPage
<1>5. CurrentPart' /\ PanelPart' /\ DroppedPart'
  BY ShowType, Frame DEF DeleteInPage, Inv, PanelPart
<1>6. CountPart'
  BY AskType DEF Inv, CountPart, DeleteInPage, history
<1>7. QED
  BY <1>4, <1>5, <1>6, Frame DEF Inv, DeleteInPage

LEMMA CleanupStep ==
    ASSUME Inv, NEW all \in BOOLEAN, Cleanup(all)
    PROVE  Inv'
<1>1. SameNote
  BY GivenUp DEF Cleanup
<1>2. QueuePart' /\ NotingPart'
  <2>1. CASE current = None
    <3>1. QueueKept
      BY <2>1, KeptQueue DEF Cleanup, Inv, QueuePart
    <3>2. QED
      BY <1>1, <3>1, Keeps
  <2>2. CASE current # None
    <3>1. current \in Sessions
      BY <2>2, CurrentType
    <3>2. QueueGrown(Farewell(current))
      BY <2>2, <3>1, SaveTypes, GrownQueue DEF Cleanup, Inv, QueuePart
    <3>3. QED
      BY <1>1, <3>1, <3>2, SaveTypes, Grows
  <2>3. QED
    BY <2>1, <2>2
<1>3. CurrentPart' /\ PanelPart'
  <2>1. CurrentPart' /\ current' = current
    BY DEF Cleanup, Inv, CurrentPart
  <2>2. CASE all
    BY <2>1, <2>2, FreshType DEF Cleanup, PanelPart, GoodPanel, Closed, Fresh
  <2>3. CASE ~all
    BY <2>1, <2>3, FreshType, EffectType DEF Cleanup, Inv, CurrentPart, PanelPart
  <2>4. QED
    BY <2>1, <2>2, <2>3
<1>4. CountPart'
  BY AskType DEF Inv, CountPart, Cleanup, history
<1>5. QED
  BY <1>2, <1>3, <1>4, Frame DEF Inv, Cleanup

LEMMA OpenPanelStep ==
    ASSUME Inv, OpenPanel
    PROVE  Inv'
<1>1. CurrentPart' /\ PanelPart'
  BY FreshType, EffectType DEF OpenPanel, Inv, CurrentPart, PanelPart
<1>2. CountPart'
  BY AskType DEF Inv, CountPart, OpenPanel, history
<1>3. QED
  BY <1>1, <1>2, Frame, GivenUp DEF Inv, OpenPanel

LEMMA ReloadStep ==
    ASSUME Inv, Reload
    PROVE  Inv'
<1>1. QueuePart' /\ NotingPart'
  BY DEF Reload, QueuePart, NotingPart
<1>2. CurrentPart' /\ PanelPart'
  BY FreshType DEF Reload, CurrentPart, PanelPart, GoodPanel, Closed, Fresh
<1>3. CountPart'
  BY AskType DEF Inv, CountPart, Reload, history
<1>4. QED
  BY <1>1, <1>2, <1>3, Frame DEF Inv, Reload

-----------------------------------------------------------------------------
(* Transactions and notes                                                  *)

LEMMA StoredType ==
    ASSUME Inv, NEW s \in Sessions, Stored(s)
    PROVE  StorePart'
BY DEF Inv, StorePart, Stored, Sessions

\* What the transaction that ends writes
LEMMA HeadWrites ==
    ASSUME Inv, queue # <<>>, Head(queue).kind \in Writes
    PROVE  /\ Head(queue).session \in Sessions
           /\ Head(queue).session.chat = Head(queue).chat /\ Head(queue).chat \in Chats
BY HeadType DEF Inv, Proper, Requests

LEMMA RememberedType ==
    ASSUME NEW s \in Sessions, GoodPanel(panel)
    PROVE  /\ GoodPanel(Remembered(panel, s)) /\ Remembered(panel, s).timer = panel.timer
           /\ GoodPanel(Settled(panel, s)) /\ Settled(panel, s).timer = panel.timer
<1>1. s.chat \in Chats
  BY DEF Sessions
<1> DEFINE p == Remembered(panel, s)
<1>2. p \in Panels /\ p.open = panel.open /\ p.timer = panel.timer
  BY <1>1 DEF GoodPanel, Panels, Remembered
<1> DEFINE q == [p EXCEPT !.pending[s.chat] = IF @ = s THEN None ELSE @,
                          !.attempts[s.chat] = None, !.status = None]
<1>3. Settled(panel, s) = q
  BY DEF Settled
<1> HIDE DEF p
<1>4. q \in Panels /\ q.open = p.open /\ q.timer = p.timer
  BY <1>1, <1>2 DEF Panels
<1> HIDE DEF q
<1>5. QED
  BY <1>2, <1>3, <1>4 DEF GoodPanel, p

LEMMA StoreAutosaveStep ==
    ASSUME Inv, StoreAutosave
    PROVE  Inv'
<1>1. Head(queue).session \in Sessions
  BY HeadWrites DEF StoreAutosave, Ending, Writes
<1>2. StorePart'
  BY <1>1, StoredType DEF StoreAutosave
<1>3. QueuePart' /\ NotingPart'
  BY PoppedQueue, Pops, GivenUp DEF StoreAutosave, Ending, Inv, QueuePart
<1>4. CurrentPart' /\ PanelPart'
  BY <1>1, RememberedType DEF StoreAutosave, Inv, CurrentPart, PanelPart
<1>5. QED
  BY <1>2, <1>3, <1>4, Frame DEF Inv, StoreAutosave

LEMMA FailAutosaveStep ==
    ASSUME Inv, FailAutosave
    PROVE  Inv'
<1> DEFINE r == Head(queue)
           s == r.session
           c == s.chat
           before == IF panel.attempts[c] # None /\ panel.attempts[c].of = s
                     THEN panel.attempts[c].count ELSE 0
<1>1. s \in Sessions /\ c \in Chats
  BY HeadWrites DEF FailAutosave, Ending, Writes
<1>2. before \in Nat
  BY <1>1, ChatsAssumption DEF Inv, PanelPart, GoodPanel, Panels
<1>3. ASSUME NEW permanent \in BOOLEAN,
             panel' = [panel EXCEPT !.status = [chat |-> c, kind |-> "stopped",
                                                retryable |-> ~permanent],
                                    !.stopped = @ \cup {s}]
      PROVE  GoodPanel(panel') /\ panel'.timer = panel.timer
  BY <1>1, <1>3 DEF Inv, PanelPart, GoodPanel, Panels
<1>4. ASSUME RetryHelps(FALSE, before),
             panel' = [panel EXCEPT !.pending[c] = None,
                                    !.attempts[c] = [of |-> s, count |-> before + 1],
                                    !.status = [chat |-> c, kind |-> "retrying",
                                                retryable |-> FALSE],
                                    !.retry = TRUE]
      PROVE  GoodPanel(panel') /\ panel'.timer = panel.timer
  <2>1. before + 1 \in 1..MaxRetries
    BY <1>2, <1>4, ChatsAssumption DEF RetryHelps
  <2>2. [of |-> s, count |-> before + 1] \in [of : Sessions, count : 1..MaxRetries]
    BY <1>1, <2>1
  <2> HIDE DEF before, s, c, r
  <2>3. QED
    BY <1>1, <1>4, <2>2 DEF Inv, PanelPart, GoodPanel, Panels
<1>5. GoodPanel(panel') /\ panel'.timer = panel.timer
  <2>1. PICK permanent \in BOOLEAN :
          panel' =
            IF ~r.live THEN panel
            ELSE IF ~RetryHelps(permanent, before)
            THEN [panel EXCEPT !.status = [chat |-> c, kind |-> "stopped",
                                           retryable |-> ~permanent],
                               !.stopped = @ \cup {s}]
            ELSE IF panel.pending[c] # s THEN panel
            ELSE [panel EXCEPT !.pending[c] = None,
                               !.attempts[c] = [of |-> s, count |-> before + 1],
                               !.status = [chat |-> c, kind |-> "retrying", retryable |-> FALSE],
                               !.retry = TRUE]
    BY DEF FailAutosave
  <2>2. RetryHelps(permanent, before) => RetryHelps(FALSE, before)
    BY DEF RetryHelps
  <2> HIDE DEF before, s, c, r
  <2>3. QED
    BY <1>3, <1>4, <2>1, <2>2 DEF Inv, PanelPart
<1>6. QueuePart' /\ NotingPart'
  BY PoppedQueue, Pops, GivenUp DEF FailAutosave, Ending, Inv, QueuePart
<1>7. CountPart'
  BY AskType DEF Inv, CountPart, FailAutosave, history
<1>8. QED
  BY <1>5, <1>6, <1>7, Frame DEF Inv, FailAutosave, CurrentPart, PanelPart

LEMMA StoreFlushStep ==
    ASSUME Inv, StoreFlush
    PROVE  Inv'
<1> DEFINE r == Head(queue)
           p == IF r.live THEN Remembered(panel, r.session) ELSE panel
<1>1. r.session \in Sessions /\ r \in Requests /\ r.goal \in Goals /\ r.goal.chat \in Chats
  BY HeadWrites, HeadType DEF StoreFlush, Ending, Writes, Inv, Proper, Requests, Goals
<1>2. StorePart'
  BY <1>1, StoredType DEF StoreFlush
<1>3. GoodPanel(p) /\ p.timer = panel.timer
  BY <1>1, RememberedType DEF Inv, PanelPart
<1>4. SameNote
  BY GivenUp DEF StoreFlush
<1>5. CASE r.goal.fresh
  <2>1. QueuePart' /\ NotingPart'
    BY <1>4, <1>5, PoppedQueue, Pops DEF StoreFlush, Ending, Inv, QueuePart
  <2>2. GoodPanel(IF p.open THEN p ELSE Fresh)
    BY <1>3, FreshType
  <2>3. Show(IF p.open THEN p ELSE Fresh, Empty(r.goal.chat))
    BY <1>5 DEF StoreFlush
  <2> HIDE DEF p
  <2>4. CurrentPart' /\ PanelPart' /\ DroppedPart'
    BY <1>1, <2>2, <2>3, EmptyType, ShowType
  <2>5. QED
    BY <1>2, <2>1, <2>4, Frame DEF Inv, StoreFlush
<1>6. CASE ~r.goal.fresh
  <2>1. /\ Load(r.goal.chat, "panel") \in Requests /\ Proper(Load(r.goal.chat, "panel"))
        /\ ~OfNote(Load(r.goal.chat, "panel"))
    BY <1>1, LoadType DEF Askers
  <2>2. QueueMoved(Load(r.goal.chat, "panel"))
    BY <1>6, <2>1, MovedQueue DEF StoreFlush, Ending, Inv, QueuePart
  <2>3. QueuePart' /\ NotingPart'
    BY <1>4, <2>1, <2>2, QueueParts, NotingParts DEF Inv
  <2>4. CurrentPart' /\ PanelPart'
    BY <1>3, <1>6 DEF StoreFlush, Inv, CurrentPart, PanelPart
  <2>5. QED
    BY <1>2, <1>6, <2>3, <2>4, Frame DEF Inv, StoreFlush
<1>7. QED
  BY <1>5, <1>6

LEMMA StoreFarewellStep ==
    ASSUME Inv, StoreFarewell
    PROVE  Inv'
<1>1. StorePart'
  BY HeadWrites, StoredType DEF StoreFarewell, Ending, Writes
<1>2. QueuePart' /\ NotingPart'
  BY PoppedQueue, Pops, GivenUp DEF StoreFarewell, Ending, Inv, QueuePart
<1>3. QED
  BY <1>1, <1>2, Frame DEF Inv, StoreFarewell

LEMMA FailOtherStep ==
    ASSUME Inv, FailOther
    PROVE  Inv'
<1>1. QueuePart' /\ NotingPart'
  BY PoppedQueue, Pops, GivenUp DEF FailOther, Ending, Inv, QueuePart
<1>2. CountPart'
  BY AskType DEF Inv, CountPart, FailOther, history
<1>3. QED
  BY <1>1, <1>2, Frame DEF Inv, FailOther

LEMMA LoadChatStep ==
    ASSUME Inv, LoadChat
    PROVE  Inv'
<1>1. Head(queue).chat \in Chats
  BY HeadType DEF LoadChat, Ending, Inv, Requests
<1>2. store[Head(queue).chat] \in Sessions \cup {None}
  BY <1>1 DEF Inv, StorePart
<1>3. SameNote
  BY GivenUp DEF LoadChat
<1>4. QueuePart' /\ NotingPart'
  BY <1>3, PoppedQueue, Pops DEF LoadChat, Ending, Inv, QueuePart
<1>5. CurrentPart' /\ PanelPart' /\ DroppedPart'
  BY <1>2, ShowOpenType, Frame DEF LoadChat
<1>6. CountPart'
  BY <1>1 DEF Inv, CountPart, LoadChat, bounds
<1>7. QED
  BY <1>4, <1>5, <1>6, Frame DEF Inv, LoadChat

LEMMA DeleteChatStep ==
    ASSUME Inv, DeleteChat
    PROVE  Inv'
<1> DEFINE r == Head(queue)
<1>1. r.chat \in Chats /\ r = queue[1] /\ r.kind = "delete" /\ queue # <<>>
  BY HeadType DEF DeleteChat, Ending, Inv, Requests
<1>2. StorePart'
  BY <1>1 DEF Inv, StorePart, DeleteChat
<1>3. QueuePopped
  BY PoppedQueue DEF DeleteChat, Ending, Inv, QueuePart
<1>4. QueuePart' /\ NotingPart'
  <2>1. CASE SameNote
    BY <2>1, <1>3, Pops
  <2>2. CASE ~SameNote
    <3>1. r.by = "note" /\ noting' = None
      BY <2>2, GivenUp DEF DeleteChat
    <3>2. NotingPart'
      BY <1>1, <1>3, <3>1, NoteEnds, NotingFree DEF OfNote, Inv
    <3>3. QED
      BY <1>3, <3>2, QueueParts DEF Inv
  <2>3. QED
    BY <2>1, <2>2
<1>5. CurrentPart' /\ PanelPart' /\ DroppedPart'
  BY ShowType, Frame DEF DeleteChat, Inv, PanelPart
<1>6. CountPart'
  BY <1>1 DEF Inv, CountPart, DeleteChat, bounds
<1>7. QED
  BY <1>2, <1>4, <1>5, <1>6 DEF Inv

LEMMA FailDeleteInPageStep ==
    ASSUME Inv, FailDeleteInPage
    PROVE  Inv'
<1> DEFINE back == Head(queue).session
<1>1. back \in Sessions \cup {None} /\ (back # None => back.chat \in Chats)
  BY HeadType DEF FailDeleteInPage, Ending, Inv, Requests, Sessions
<1>2. SameNote
  BY GivenUp DEF FailDeleteInPage
<1>3. QueuePart' /\ NotingPart'
  BY <1>2, PoppedQueue, Pops DEF FailDeleteInPage, Ending, Inv, QueuePart
<1>4. CurrentPart' /\ PanelPart' /\ DroppedPart'
  BY <1>1, ShowType, Frame DEF FailDeleteInPage, Inv, PanelPart
<1>5. CountPart'
  BY <1>1, AskType DEF Inv, CountPart, FailDeleteInPage
<1>6. QED
  BY <1>3, <1>4, <1>5, Frame DEF Inv, FailDeleteInPage

\* A step of a note that is on its way is waited for
LEMMA Awaited ==
    ASSUME Inv, queue # <<>>, OfNote(Head(queue))
    PROVE  noting \in Notings /\ WaitsFor(Head(queue)) /\ OfNote(queue[1])
BY HeadType DEF Inv, NotingPart, WaitsFor, Waits

LEMMA SaveAsNoteStep ==
    ASSUME Inv, NEW del \in BOOLEAN, SaveAsNote(del)
    PROVE  Inv'
<1> DEFINE s == [current EXCEPT !.note = [del |-> del, status |-> "pending"]]
           skip == del /\ Appended(del)
<1>1. current \in Sessions /\ current.chat \in Chats
  BY CurrentType DEF SaveAsNote
<1>2. s \in Sessions /\ s.chat = current.chat
  BY <1>1 DEF Sessions, Notes, Statuses
<1>3. noting' \in Notings
  BY <1>1 DEF SaveAsNote, Notings, Phases
<1>4. NoNoteWaits
  BY NoNote DEF SaveAsNote, Inv
<1>5. QueuePart' /\ NotingPart'
  <2>1. CASE skip
    <3>1. QueueKept
      BY <2>1, UnchangedQueue DEF SaveAsNote, Inv, QueuePart
    <3>2. QED
      BY <1>3, <1>4, <3>1, NoNoteKept, NotingFree, QueueParts DEF Inv
  <2>2. CASE ~skip
    <3>1. QueueGrown(NoteSave(s))
      BY <1>2, <2>2, SaveTypes, GrownQueue DEF SaveAsNote, Inv, QueuePart
    <3>2. Waits(noting', NoteSave(s))
      <4>1. noting'.chat = current.chat /\ noting'.phase = "pending"
        BY <2>2 DEF SaveAsNote
      <4>2. QED
        BY <1>2, <1>3, <4>1, NoneAssumption DEF Waits, NoteSave, Request
    <3>3. QED
      BY <1>2, <1>3, <1>4, <3>1, <3>2, SaveTypes, NotingTaken, QueueParts DEF Inv
  <2>3. QED
    BY <2>1, <2>2
<1>6. CountPart'
  BY AskType DEF Inv, CountPart, SaveAsNote, history
<1>7. QED
  BY <1>5, <1>6, Frame DEF Inv, SaveAsNote

LEMMA StoreNoteStep ==
    ASSUME Inv, StoreNote
    PROVE  Inv'
<1>1. Head(queue).session \in Sessions
  BY HeadWrites DEF StoreNote, Ending, Writes
<1>2. StorePart'
  BY <1>1, StoredType DEF StoreNote
<1>3. QueuePopped
  BY PoppedQueue DEF StoreNote, Ending, Inv, QueuePart
<1>4. noting \in Notings /\ OfNote(queue[1])
  BY Awaited DEF StoreNote, Ending, OfNote
<1>5. noting' \in Notings \cup {None}
  BY <1>4 DEF StoreNote, Notings, Phases
<1>6. QueuePart' /\ NotingPart'
  BY <1>3, <1>4, <1>5, NoteEnds, NotingFree, QueueParts DEF Inv
<1>7. CurrentPart' /\ PanelPart' /\ DroppedPart'
  BY <1>1, ShowType, Frame DEF StoreNote, Inv, PanelPart
<1>8. QED
  BY <1>2, <1>6, <1>7, Frame DEF Inv, StoreNote

NoteStatus == IF noting.del THEN "note-saved" ELSE "complete"

LEMMA AppendNoteStep ==
    ASSUME Inv, AppendNote
    PROVE  Inv'
<1> DEFINE s == [current EXCEPT !.note = [del |-> noting.del, status |-> NoteStatus]]
<1>1. noting \in Notings /\ noting.chat \in Chats /\ NoNoteWaits
  BY NoNote DEF AppendNote, Inv, NotingPart, Notings
<1>2. QueuePart' /\ NotingPart'
  <2>1. CASE Owns
    <3>1. current \in Sessions /\ current.chat = noting.chat
      BY <2>1, CurrentType DEF Owns
    <3>2. s \in Sessions /\ s.chat = noting.chat
      BY <1>1, <3>1 DEF Sessions, Notes, Statuses, Notings, NoteStatus
    <3>3. QueueGrown(NoteSave(s))
      BY <2>1, <3>2, SaveTypes, GrownQueue DEF AppendNote, Inv, QueuePart, NoteStatus
    <3>4. noting' \in Notings /\ noting'.chat = noting.chat /\ noting'.phase = "saved"
      BY <1>1, <2>1 DEF AppendNote, Notings, Phases
    <3>5. Waits(noting', NoteSave(s))
      BY <3>2, <3>4, NoneAssumption DEF Waits, NoteSave, Request
    <3>6. QED
      BY <1>1, <3>2, <3>3, <3>4, <3>5, SaveTypes, NotingTaken, QueueParts DEF Inv
  <2>2. CASE ~Owns
    <3>1. QueueKept /\ noting' = None
      BY <2>2, UnchangedQueue DEF AppendNote, Inv, QueuePart
    <3>2. QED
      BY <1>1, <3>1, NoNoteKept, NotingFree, QueueParts DEF Inv
  <2>3. QED
    BY <2>1, <2>2
<1>3. CountPart'
  BY <1>1 DEF Inv, CountPart, AppendNote, bounds
<1>4. QED
  BY <1>2, <1>3, Frame DEF Inv, AppendNote

LEMMA AfterNoteStep ==
    ASSUME Inv, AfterNote
    PROVE  Inv'
<1> DEFINE r == Delete(noting.chat, "note", None)
<1>1. noting \in Notings /\ noting.chat \in Chats /\ NoNoteWaits
  BY NoNote DEF AfterNote, Inv, NotingPart, Notings
<1>2. QueuePart' /\ NotingPart'
  <2>1. CASE Owns /\ noting.del
    <3>1. r \in Requests /\ Proper(r)
      BY <1>1, DeleteType DEF Askers
    <3>2. QueueGrown(r)
      BY <2>1, <3>1, GrownQueue DEF AfterNote, Inv, QueuePart
    <3>3. noting' \in Notings /\ noting'.chat = noting.chat /\ noting'.phase = "delete"
      BY <1>1, <2>1 DEF AfterNote, Notings, Phases
    <3>4. r.kind = "delete" /\ r.chat = noting.chat
      BY DEF Delete, Request
    <3>5. Waits(noting', r)
      BY <3>3, <3>4, NoneAssumption DEF Waits
    <3>6. QED
      BY <1>1, <3>1, <3>2, <3>3, <3>5, NotingTaken, QueueParts DEF Inv
  <2>2. CASE ~(Owns /\ noting.del)
    <3>1. QueueKept /\ noting' = None
      BY <2>2, UnchangedQueue DEF AfterNote, Inv, QueuePart
    <3>2. QED
      BY <1>1, <3>1, NoNoteKept, NotingFree, QueueParts DEF Inv
  <2>3. QED
    BY <2>1, <2>2
<1>3. CountPart'
  BY <1>1 DEF Inv, CountPart, AfterNote, bounds
<1>4. QED
  BY <1>2, <1>3, Frame DEF Inv, AfterNote

LEMMA FailNoteStep ==
    ASSUME Inv, FailNote
    PROVE  Inv'
<1>1. noting \in Notings /\ noting.chat \in Chats
  BY Awaited DEF FailNote, Ending, OfNote, Inv, NotingPart, Notings
<1>2. QueuePart' /\ NotingPart'
  <2>1. CASE noting.phase \in {"append", "refresh"} /\ queue' = queue
    <3>1. QueueKept /\ NoNoteWaits
      BY <2>1, UnchangedQueue, NoNote DEF Inv, QueuePart
    <3>2. QED
      BY <3>1, NoNoteKept, NotingFree, QueueParts DEF FailNote, Inv
  <2>2. CASE queue # <<>> /\ OfNote(Head(queue)) /\ queue' = Tail(queue)
    <3>1. QueuePopped /\ OfNote(queue[1])
      BY <2>2, PoppedQueue, Awaited DEF Inv, QueuePart
    <3>2. QED
      BY <3>1, NoteEnds, NotingFree, QueueParts DEF FailNote, Inv
  <2>3. QED
    BY <2>1, <2>2 DEF FailNote, Ending, OfNote
<1>3. CurrentPart' /\ PanelPart' /\ DroppedPart'
  <2>1. ASSUME current # None, current.note # None
        PROVE  [current EXCEPT !.note.status = "delete-failed"] \in Sessions
    <3>1. current \in Sessions /\ current.note \in Notes
      BY <2>1, CurrentType DEF Sessions
    <3>2. [current.note EXCEPT !.status = "delete-failed"] \in Notes
      BY <3>1 DEF Notes, Statuses
    <3>3. QED
      BY <3>1, <3>2 DEF Sessions
  <2>2. QED
    BY <2>1, ShowType, Frame DEF FailNote, Inv, PanelPart
<1>4. CountPart'
  BY <1>1, AskType DEF Inv, CountPart, FailNote
<1>5. QED
  BY <1>2, <1>3, <1>4, Frame DEF Inv, FailNote

LEMMA NavigateStep ==
    ASSUME Inv, Navigate
    PROVE  Inv'
<1>1. CountPart'
  BY AskType DEF Inv, CountPart, Navigate, history
<1>2. QED
  BY <1>1, Frame, GivenUp DEF Inv, Navigate

LEMMA InitInv == Init => Inv
<1> SUFFICES ASSUME Init PROVE Inv
  OBVIOUS
<1>1. \A c \in Kept : [Empty(c) EXCEPT !.edits = {0}] \in Sessions
                      /\ [Empty(c) EXCEPT !.edits = {0}].chat = c
  BY ChatsAssumption DEF Empty, Sessions
<1>2. StorePart /\ current \in Sessions \cup {None}
  BY <1>1, ChatsAssumption DEF Init, StorePart
<1>3. PanelPart
  BY <1>2, FreshType, EffectType DEF Init, PanelPart
<1>4. QueuePart /\ NotingPart
  <2>1. queue = <<>> /\ noting = None
    BY DEF Init
  <2>2. QED
    BY <2>1 DEF QueuePart, NotingPart
<1>5. CountPart /\ DroppedPart
  <2>1. /\ made = 0 /\ asks = 0 /\ failures = 0 /\ seen = Kept
        /\ deleted = {} /\ exposed = {} /\ noted = {} /\ dropped = {}
    BY DEF Init
  <2>2. QED
    BY <2>1, ChatsAssumption DEF CountPart, DroppedPart
<1>6. QED
  BY <1>2, <1>3, <1>4, <1>5 DEF Inv, CurrentPart

LEMMA NextInv == Inv /\ [Next]_vars => Inv'
<1> SUFFICES ASSUME Inv, [Next]_vars PROVE Inv'
  OBVIOUS
<1>1. CASE Edit \/ TimerFires \/ RetryFires \/ RetryStopped
  BY <1>1, EditStep, TimerFiresStep, RetryFiresStep, RetryStoppedStep
<1>2. CASE \E c \in Chats : \/ NewInPanel(c) \/ OpenInPanel(c) \/ DeleteInPanel(c)
                            \/ NewInPage(c) \/ OpenInPage(c) \/ DeleteInPage(c)
  BY <1>2, InPanelStep, DeleteInPanelStep, NewInPageStep, OpenInPageStep, DeleteInPageStep
<1>3. CASE ClosePanel \/ AccountChanges \/ OpenPanel \/ Reload
  BY <1>3, CleanupStep, OpenPanelStep, ReloadStep DEF ClosePanel, AccountChanges
<1>4. CASE Transaction
  BY <1>4, StoreAutosaveStep, FailAutosaveStep, StoreFlushStep, StoreFarewellStep,
     FailOtherStep, LoadChatStep, DeleteChatStep, FailDeleteInPageStep, StoreNoteStep
     DEF Transaction
<1>5. CASE \E del \in BOOLEAN : SaveAsNote(del)
  BY <1>5, SaveAsNoteStep
<1>6. CASE AppendNote \/ AfterNote \/ FailNote \/ Navigate
  BY <1>6, AppendNoteStep, AfterNoteStep, FailNoteStep, NavigateStep
<1>7. CASE UNCHANGED vars
  BY <1>7, Frame, GivenUp DEF vars, Inv
<1>8. QED
  BY <1>1, <1>2, <1>3, <1>4, <1>5, <1>6, <1>7 DEF Next

LEMMA AlwaysInv == Spec => []Inv
<1>1. Init => Inv
  BY InitInv
<1>2. Inv /\ [Next]_vars => Inv'
  BY NextInv
<1>3. QED
  BY <1>1, <1>2, PTL DEF Spec

\* Every variable keeps its type, for any chats and bounds: what a save, a
\* load or a deletion does when it ends fits what the panel has become by then.
THEOREM TypeCorrect == Spec => []TypeOK
<1>1. Inv => TypeOK
  BY InvImplies
<1>2. QED
  BY <1>1, AlwaysInv, PTL

-----------------------------------------------------------------------------
(* Notes: a chat whose note counts as appended, wherever a copy of it is,  *)
(* is one a note was appended of.                                          *)

Fits(s, all) == s # None /\ s.note # None /\ s.note.status # "pending" => s.chat \in all
FitRequest(r, all) ==
  /\ Fits(r.session, all)
  /\ r.kind = "delete" /\ r.by = "note" => r.chat \in all
FitNoting(note, all) ==
  note # None /\ note.phase \in {"saved", "refresh", "delete"} => note.chat \in all

ArchivedPart ==
  /\ \A c \in Chats : Fits(store[c], noted)
  /\ \A i \in 1..Len(queue) : FitRequest(queue[i], noted)
  /\ Fits(current, noted)
  /\ FitNoting(noting, noted)

LEMMA ArchivedImplies == Inv /\ ArchivedPart => ArchivedBeforeDeleted
BY DEF Inv, QueuePart, ArchivedPart, FitRequest, ArchivedBeforeDeleted

LEMMA FitQueue ==
    ASSUME \A i \in 1..Len(queue) : FitRequest(queue[i], noted), noted \subseteq noted'
    PROVE  /\ QueueKept => \A i \in 1..Len(queue') : FitRequest(queue'[i], noted')
           /\ QueuePopped => \A i \in 1..Len(queue') : FitRequest(queue'[i], noted')
           /\ \A r : FitRequest(r, noted') /\ QueueGrown(r) =>
                \A i \in 1..Len(queue') : FitRequest(queue'[i], noted')
           /\ \A r : FitRequest(r, noted') /\ QueueMoved(r) =>
                \A i \in 1..Len(queue') : FitRequest(queue'[i], noted')
<1>1. ASSUME NEW r, NEW t, SameButLive(r, t), FitRequest(t, noted)
      PROVE  FitRequest(r, noted')
  BY <1>1 DEF SameButLive, FitRequest, Fits
<1>2. QueueKept => \A i \in 1..Len(queue') : FitRequest(queue'[i], noted')
  BY <1>1 DEF QueueKept
<1>3. QueuePopped => \A i \in 1..Len(queue') : FitRequest(queue'[i], noted')
  BY <1>1 DEF QueuePopped
<1>4. ASSUME NEW r, FitRequest(r, noted'), QueueGrown(r), NEW i \in 1..Len(queue')
      PROVE  FitRequest(queue'[i], noted')
  BY <1>1, <1>4 DEF QueueGrown
<1>5. ASSUME NEW r, FitRequest(r, noted'), QueueMoved(r), NEW i \in 1..Len(queue')
      PROVE  FitRequest(queue'[i], noted')
  BY <1>1, <1>5 DEF QueueMoved
<1>6. QED
  BY <1>2, <1>3, <1>4, <1>5

LEMMA FitLike ==
    ASSUME NEW s, NEW t, NEW all, Like(t, s), Fits(s, all)
    PROVE  Fits(t, all)
BY DEF Like, Fits

\* A step that takes up no note, and shows and stores only what is there
LEMMA ArchivedKept ==
    ASSUME Inv, ArchivedPart, UNCHANGED noted, SameNote,
           \A i \in 1..Len(queue') : FitRequest(queue'[i], noted),
           \A c \in Chats : store'[c] = store[c] \/ Fits(store'[c], noted),
           current' = current \/ Fits(current', noted)
    PROVE  ArchivedPart'
<1>1. FitNoting(noting', noted)
  BY DEF ArchivedPart, FitNoting, SameNote, Inv, NotingPart, Notings
<1>2. QED
  BY <1>1 DEF ArchivedPart

-----------------------------------------------------------------------------
(* Deletions: what a chat's deletion finds behind it in the queue          *)

Shows(c) == current # None /\ current.chat = c
Carries(r, c) == r.session # None /\ r.session.chat = c
Deletes(r, c) == r.kind = "delete" /\ r.chat = c
\* A new chat waits for the one before it to be saved
Begins(r, c) == r.goal # None /\ r.goal.fresh /\ r.goal.chat = c

Fine(c) ==
  /\ c \in deleted => c \in seen
  /\ store[c] # None \/ Shows(c) => c \in seen \ deleted
  /\ Shows(c) => \A i \in 1..Len(queue) : ~Deletes(queue[i], c)
  /\ \A i \in 1..Len(queue) :
       /\ Carries(queue[i], c) =>
            c \in seen \ deleted /\ \A j \in 1..Len(queue) : j < i => ~Deletes(queue[j], c)
       /\ Deletes(queue[i], c) => c \in seen
       /\ Begins(queue[i], c) =>
            /\ c \in seen \ deleted /\ store[c] = None /\ ~Shows(c)
            /\ \A j \in 1..Len(queue) :
                 /\ ~Carries(queue[j], c) /\ ~Deletes(queue[j], c)
                 /\ Begins(queue[j], c) => i = j

\* Chats of which nothing was shown after their deletion was asked
DeletedPart == \A c \in Chats \ exposed : Fine(c)

LEMMA DeletedImplies == Inv /\ DeletedPart => DeletedStaysDeleted
BY DEF Inv, CountPart, DeletedPart, Fine, DeletedStaysDeleted

LEMMA SameMeaning ==
    ASSUME NEW r, NEW t, NEW c, SameButLive(r, t)
    PROVE  /\ Carries(r, c) <=> Carries(t, c)
           /\ Deletes(r, c) <=> Deletes(t, c)
           /\ Begins(r, c) <=> Begins(t, c)
BY DEF SameButLive, Carries, Deletes, Begins

\* A step that deletes nothing, and shows the chat only if it was shown
Calm(c) ==
  /\ seen \subseteq seen' /\ deleted' = deleted
  /\ current' # None /\ current'.chat = c => Shows(c)

LEMMA FineKept ==
    ASSUME NEW c, Fine(c), Calm(c), store'[c] # None => store[c] # None, QueueKept
    PROVE  Fine(c)'
<1>1. /\ Len(queue') = Len(queue)
      /\ \A i \in 1..Len(queue) : /\ Carries(queue'[i], c) <=> Carries(queue[i], c)
                                  /\ Deletes(queue'[i], c) <=> Deletes(queue[i], c)
                                  /\ Begins(queue'[i], c) <=> Begins(queue[i], c)
  BY SameMeaning DEF QueueKept
<1>2. QED
  BY <1>1 DEF Fine, Calm, Shows, Carries, Deletes, Begins

LEMMA FineGrown ==
    ASSUME NEW c, Fine(c), Calm(c), queue \in Seq(Requests),
           store'[c] # None => store[c] # None,
           NEW r, QueueGrown(r),
           Carries(r, c) => Shows(c),
           Deletes(r, c) => store[c] # None /\ ~(current' # None /\ current'.chat = c),
           Begins(r, c) => c \notin seen /\ c \in seen'
    PROVE  Fine(c)'
<1> DEFINE n == Len(queue) + 1
<1>1. /\ Len(queue) \in Nat /\ Len(queue') = n /\ queue'[n] = r
      /\ 1..n = 1..Len(queue) \cup {n} /\ \A i \in 1..Len(queue) : i < n
      /\ \A i \in 1..Len(queue) : /\ Carries(queue'[i], c) <=> Carries(queue[i], c)
                                  /\ Deletes(queue'[i], c) <=> Deletes(queue[i], c)
                                  /\ Begins(queue'[i], c) <=> Begins(queue[i], c)
  BY SameMeaning DEF QueueGrown
<1> HIDE DEF n
<1>2. Begins(r, c) => ~Carries(r, c) /\ ~Deletes(r, c)
  BY DEF Fine
<1>3. ASSUME NEW i \in 1..n, Carries(queue'[i], c)
      PROVE  c \in seen' \ deleted' /\ \A j \in 1..n : j < i => ~Deletes(queue'[j], c)
  BY <1>1, <1>3 DEF Fine, Calm
<1>4. ASSUME NEW i \in 1..n, Deletes(queue'[i], c)
      PROVE  c \in seen'
  BY <1>1, <1>4 DEF Fine, Calm
<1>5. ASSUME NEW i \in 1..n, Begins(queue'[i], c)
      PROVE  /\ c \in seen' \ deleted' /\ store'[c] = None
             /\ ~(current' # None /\ current'.chat = c)
             /\ \A j \in 1..n : /\ ~Carries(queue'[j], c) /\ ~Deletes(queue'[j], c)
                                /\ Begins(queue'[j], c) => i = j
  <2>1. CASE i \in 1..Len(queue)
    BY <1>1, <1>5, <2>1 DEF Fine, Calm
  <2>2. CASE i = n
    BY <1>1, <1>2, <1>5, <2>2 DEF Fine, Calm
  <2>3. QED
    BY <1>1, <2>1, <2>2
<1>6. ASSUME current' # None, current'.chat = c
      PROVE  c \in seen' \ deleted' /\ \A i \in 1..n : ~Deletes(queue'[i], c)
  BY <1>1, <1>6 DEF Fine, Calm
<1>7. (c \in deleted' => c \in seen') /\ (store'[c] # None => c \in seen' \ deleted')
  BY DEF Fine, Calm
<1>8. QED
  BY <1>1, <1>3, <1>4, <1>5, <1>6, <1>7 DEF Fine, Shows, Carries, Deletes, Begins

\* The chat may be shown once the transaction at the head has ended
Arrives(c) ==
  /\ c \in seen \ deleted'
  /\ \A i \in 2..Len(queue) : ~Deletes(queue[i], c) /\ ~Begins(queue[i], c)

\* The transaction that ends may have stored the chat it carries, or deleted
\* the one it names
LEMMA FinePopped ==
    ASSUME NEW c, Fine(c), queue \in Seq(Requests), QueuePopped, seen \subseteq seen',
           store'[c] # None => store[c] # None \/ Carries(queue[1], c),
           c \in deleted' => c \in deleted \/ (Deletes(queue[1], c) /\ store'[c] = None),
           current' # None /\ current'.chat = c => Shows(c) \/ Arrives(c)
    PROVE  Fine(c)'
<1>1. Len(queue) \in Nat \ {0} /\ 1 \in 1..Len(queue) /\ Len(queue') = Len(queue) - 1
  BY DEF QueuePopped
<1>2. \A i \in 1..Len(queue') : i + 1 \in 1..Len(queue) /\ i + 1 \in 2..Len(queue) /\ 1 < i + 1
  BY <1>1
<1>3. \A i \in 1..Len(queue') : /\ Carries(queue'[i], c) <=> Carries(queue[i + 1], c)
                                /\ Deletes(queue'[i], c) <=> Deletes(queue[i + 1], c)
                                /\ Begins(queue'[i], c) <=> Begins(queue[i + 1], c)
  BY SameMeaning DEF QueuePopped
<1>4. ASSUME NEW i \in 1..Len(queue'), Carries(queue'[i], c)
      PROVE  c \in seen' \ deleted' /\ \A j \in 1..Len(queue') : j < i => ~Deletes(queue'[j], c)
  <2>1. Carries(queue[i + 1], c)
    BY <1>3, <1>4
  <2>2. c \in seen \ deleted /\ ~Deletes(queue[1], c)
    BY <1>1, <1>2, <2>1 DEF Fine
  <2>3. \A j \in 1..Len(queue') : j < i => ~Deletes(queue[j + 1], c)
    BY <1>2, <2>1 DEF Fine
  <2>4. QED
    BY <1>3, <2>2, <2>3
<1>5. ASSUME NEW i \in 1..Len(queue'), Deletes(queue'[i], c)
      PROVE  c \in seen'
  BY <1>2, <1>3, <1>5 DEF Fine
<1>6. ASSUME NEW i \in 1..Len(queue'), Begins(queue'[i], c)
      PROVE  /\ c \in seen' \ deleted' /\ store'[c] = None
             /\ ~(current' # None /\ current'.chat = c)
             /\ \A j \in 1..Len(queue') : /\ ~Carries(queue'[j], c) /\ ~Deletes(queue'[j], c)
                                          /\ Begins(queue'[j], c) => i = j
  <2>1. Begins(queue[i + 1], c) /\ i + 1 \in 2..Len(queue)
    BY <1>2, <1>3, <1>6
  <2>2. /\ c \in seen \ deleted /\ store[c] = None /\ ~Shows(c)
        /\ ~Carries(queue[1], c) /\ ~Deletes(queue[1], c)
    BY <1>1, <1>2, <2>1 DEF Fine
  <2>3. \A j \in 1..Len(queue') : ~Carries(queue'[j], c) /\ ~Deletes(queue'[j], c)
    BY <1>2, <1>3, <2>1 DEF Fine
  <2>4. \A j \in 1..Len(queue') : Begins(queue'[j], c) => i + 1 = j + 1
    BY <1>2, <1>3, <2>1 DEF Fine
  <2>5. QED
    BY <2>1, <2>2, <2>3, <2>4 DEF Arrives
<1>7. ASSUME current' # None, current'.chat = c
      PROVE  c \in seen' \ deleted' /\ \A i \in 1..Len(queue') : ~Deletes(queue'[i], c)
  <2>1. CASE Shows(c)
    BY <1>1, <1>2, <1>3, <2>1 DEF Fine
  <2>2. CASE Arrives(c)
    BY <1>2, <1>3, <2>2 DEF Arrives
  <2>3. QED
    BY <1>7, <2>1, <2>2
<1>8. (c \in deleted' => c \in seen') /\ (store'[c] # None => c \in seen' \ deleted')
  BY <1>1 DEF Fine
<1>9. QED
  BY <1>4, <1>5, <1>6, <1>7, <1>8 DEF Fine, Shows, Carries, Deletes, Begins

LEMMA FineMoved ==
    ASSUME NEW c, Fine(c), Calm(c), queue \in Seq(Requests),
           NEW r, QueueMoved(r), ~Carries(r, c), ~Deletes(r, c), ~Begins(r, c),
           store'[c] # None => store[c] # None \/ Carries(queue[1], c)
    PROVE  Fine(c)'
<1>1. Len(queue) \in Nat \ {0} /\ 1 \in 1..Len(queue) /\ Len(queue') = Len(queue)
  BY DEF QueueMoved
<1>2. \A i \in 1..Len(queue') :
        \/ i \in 1..(Len(queue) - 1) /\ i + 1 \in 1..Len(queue) /\ 1 < i + 1
        \/ i = Len(queue)
  BY <1>1
<1>3. \A i \in 1..Len(queue') :
        \/ ~Carries(queue'[i], c) /\ ~Deletes(queue'[i], c) /\ ~Begins(queue'[i], c)
        \/ /\ i + 1 \in 1..Len(queue) /\ 1 < i + 1
           /\ Carries(queue'[i], c) <=> Carries(queue[i + 1], c)
           /\ Deletes(queue'[i], c) <=> Deletes(queue[i + 1], c)
           /\ Begins(queue'[i], c) <=> Begins(queue[i + 1], c)
  <2> TAKE i \in 1..Len(queue')
  <2>1. CASE i = Len(queue)
    BY <2>1 DEF QueueMoved
  <2>2. CASE i \in 1..(Len(queue) - 1) /\ i + 1 \in 1..Len(queue) /\ 1 < i + 1
    <3>1. SameButLive(queue'[i], queue[i + 1])
      BY <2>2 DEF QueueMoved
    <3>2. QED
      BY <2>2, <3>1, SameMeaning
  <2>3. QED
    BY <1>2, <2>1, <2>2
<1>4. ASSUME NEW i \in 1..Len(queue'), Carries(queue'[i], c)
      PROVE  c \in seen' \ deleted' /\ \A j \in 1..Len(queue') : j < i => ~Deletes(queue'[j], c)
  <2>1. Carries(queue[i + 1], c) /\ i + 1 \in 1..Len(queue)
    BY <1>3, <1>4
  <2>2. \A j \in 1..Len(queue') : j < i /\ Deletes(queue'[j], c) =>
          j + 1 \in 1..Len(queue) /\ j + 1 < i + 1 /\ Deletes(queue[j + 1], c)
    BY <1>3
  <2>3. QED
    BY <2>1, <2>2 DEF Fine, Calm
<1>5. ASSUME NEW i \in 1..Len(queue'), Deletes(queue'[i], c)
      PROVE  c \in seen'
  BY <1>3, <1>5 DEF Fine, Calm
<1>6. ASSUME NEW i \in 1..Len(queue'), Begins(queue'[i], c)
      PROVE  /\ c \in seen' \ deleted' /\ store'[c] = None
             /\ ~(current' # None /\ current'.chat = c)
             /\ \A j \in 1..Len(queue') : /\ ~Carries(queue'[j], c) /\ ~Deletes(queue'[j], c)
                                          /\ Begins(queue'[j], c) => i = j
  <2>1. Begins(queue[i + 1], c) /\ i + 1 \in 1..Len(queue)
    BY <1>3, <1>6
  <2>2. /\ c \in seen' \ deleted' /\ store'[c] = None
        /\ ~(current' # None /\ current'.chat = c)
    BY <1>1, <2>1 DEF Fine, Calm
  <2>3. \A j \in 1..Len(queue') : ~Carries(queue'[j], c) /\ ~Deletes(queue'[j], c)
    BY <1>3, <2>1 DEF Fine
  <2>4. \A j \in 1..Len(queue') : Begins(queue'[j], c) => i + 1 = j + 1
    BY <1>3, <2>1 DEF Fine
  <2>5. QED
    BY <2>2, <2>3, <2>4
<1>7. ASSUME current' # None, current'.chat = c
      PROVE  c \in seen' \ deleted' /\ \A i \in 1..Len(queue') : ~Deletes(queue'[i], c)
  BY <1>3, <1>7 DEF Fine, Calm
<1>8. (c \in deleted' => c \in seen') /\ (store'[c] # None => c \in seen' \ deleted')
  BY <1>1 DEF Fine, Calm
<1>9. QED
  BY <1>4, <1>5, <1>6, <1>7, <1>8 DEF Fine, Shows, Carries, Deletes, Begins

-----------------------------------------------------------------------------
(* Every step keeps both                                                   *)

HistoryPart == ArchivedPart /\ DeletedPart

\* What a request made by a step means for the two
LEMMA Meanings ==
    ASSUME NEW s, s # None, NEW goal, goal # None, NEW c, NEW by, NEW d, NEW all
    PROVE  /\ Fits(s, all) => /\ FitRequest(Autosave(s), all) /\ FitRequest(Flush(s, goal), all)
                              /\ FitRequest(Farewell(s), all) /\ FitRequest(NoteSave(s), all)
           /\ FitRequest(Load(c, by), all)
           /\ ~Carries(Load(c, by), d) /\ ~Deletes(Load(c, by), d) /\ ~Begins(Load(c, by), d)
           /\ ~Deletes(Autosave(s), d) /\ ~Begins(Autosave(s), d)
           /\ ~Deletes(Farewell(s), d) /\ ~Begins(Farewell(s), d)
           /\ ~Deletes(NoteSave(s), d) /\ ~Begins(NoteSave(s), d)
           /\ ~Deletes(Flush(s, goal), d)
           /\ Begins(Flush(s, goal), d) <=> goal.fresh /\ goal.chat = d
           /\ Carries(Autosave(s), d) <=> s.chat = d
           /\ Carries(Farewell(s), d) <=> s.chat = d
           /\ Carries(NoteSave(s), d) <=> s.chat = d
           /\ Carries(Flush(s, goal), d) <=> s.chat = d
BY DEF Autosave, Flush, Farewell, NoteSave, Load, Request, Fits, FitRequest,
   Carries, Deletes, Begins

LEMMA DeleteMeanings ==
    ASSUME NEW c, NEW by, NEW back, NEW d, NEW all, Fits(back, all), by = "note" => c \in all
    PROVE  /\ FitRequest(Delete(c, by, back), all)
           /\ Deletes(Delete(c, by, back), d) <=> c = d
           /\ ~Begins(Delete(c, by, back), d)
           /\ Carries(Delete(c, by, back), d) <=> back # None /\ back.chat = d
BY DEF Delete, Request, FitRequest, Carries, Deletes, Begins

LEMMA QueueSeq == Inv => queue \in Seq(Requests)
BY DEF Inv, QueuePart

\* What memory, the timer and the store hold fits
LEMMA HeldFits ==
    ASSUME Inv, ArchivedPart
    PROVE  /\ Fits(current, noted) /\ Fits(panel.timer, noted) /\ Fits(Closes(0), noted)
           /\ \A i \in 1..Len(queue) : FitRequest(queue[i], noted)
BY DEF Inv, PanelPart, ArchivedPart, Fits, Closes

LEMMA EmptyFits == ASSUME NEW c, NEW all PROVE Fits(Empty(c), all)
BY DEF Fits, Empty

\* Shown by setCurrentSession is the chat that was asked for
LEMMA Shown ==
    ASSUME Inv, NEW p, GoodPanel(p), NEW s \in Sessions \cup {None}, Show(p, s), NEW c
    PROVE  /\ current' # None /\ current'.chat = c => s # None /\ s.chat = c
           /\ Fits(s, noted) => Fits(current', noted)
BY ShowType, FitLike, NoneAssumption DEF Like

LEMMA ShownOpen ==
    ASSUME Inv, NEW s \in Sessions \cup {None}, ShowOpen(s), NEW c
    PROVE  /\ current' # None /\ current'.chat = c => s # None /\ s.chat = c
           /\ Fits(s, noted) => Fits(current', noted)
BY ShowOpenType, FitLike, NoneAssumption DEF Like

LEMMA EditKeeps ==
    ASSUME Inv, HistoryPart, Edit
    PROVE  HistoryPart'
<1> DEFINE s == [current EXCEPT !.edits = @ \cup {made'}]
<1>1. made' \in 0..MaxEdits
  BY ChatsAssumption DEF Inv, CountPart, Edit
<1>2. s \in Sessions /\ s.chat = current.chat /\ s.note = current.note /\ current # None
  BY <1>1, CurrentType DEF Edit, Sessions
<1>3. Show(panel, s) /\ GoodPanel(panel)
  BY DEF Edit, Inv, PanelPart
<1>4. QueueKept
  BY UnchangedQueue, QueueSeq DEF Edit
<1> HIDE DEF s
<1>5. ArchivedPart'
  <2>1. Fits(s, noted)
    BY <1>2 DEF HistoryPart, ArchivedPart, Fits
  <2>2. Fits(current', noted)
    BY <1>2, <1>3, <2>1, Shown
  <2>3. QED
    BY <1>4, <2>2, ArchivedKept, FitQueue, GivenUp DEF Edit, history, HistoryPart, ArchivedPart
<1>6. DeletedPart'
  <2> SUFFICES ASSUME NEW c \in Chats \ exposed PROVE Fine(c)'
    BY DEF DeletedPart, Edit, history
  <2>1. Calm(c)
    BY <1>2, <1>3, Shown DEF Calm, Shows, Edit, history
  <2>2. QED
    BY <1>4, <2>1, FineKept DEF HistoryPart, DeletedPart, Edit
<1>7. QED
  BY <1>5, <1>6 DEF HistoryPart

\* A step that appends a transaction and closes the open chat, or leaves it
LEMMA GrownKeeps ==
    ASSUME Inv, HistoryPart, SameNote, UNCHANGED <<store, noted, deleted>>,
           seen \subseteq seen', exposed \subseteq exposed', current' \in {current, None},
           NEW r, QueueGrown(r), FitRequest(r, noted),
           \A c \in Chats \ exposed' :
             /\ Carries(r, c) => Shows(c)
             /\ Deletes(r, c) => store[c] # None /\ ~(current' # None /\ current'.chat = c)
             /\ Begins(r, c) => c \notin seen /\ c \in seen'
    PROVE  HistoryPart'
<1>1. ArchivedPart'
  <2>1. \A i \in 1..Len(queue') : FitRequest(queue'[i], noted)
    BY FitQueue DEF HistoryPart, ArchivedPart
  <2>2. current' = current \/ Fits(current', noted)
    BY DEF Fits
  <2>3. QED
    BY <2>1, <2>2, ArchivedKept DEF HistoryPart
<1>2. DeletedPart'
  <2> SUFFICES ASSUME NEW c \in Chats \ exposed' PROVE Fine(c)'
    BY DEF DeletedPart
  <2>1. Calm(c)
    BY DEF Calm, Shows
  <2>2. QED
    BY <2>1, FineGrown, QueueSeq DEF HistoryPart, DeletedPart
<1>3. QED
  BY <1>1, <1>2 DEF HistoryPart

\* A step that leaves the chats alone
LEMMA QuietKeeps ==
    ASSUME Inv, HistoryPart, SameNote, UNCHANGED <<store, current, noted, deleted, seen>>,
           exposed \subseteq exposed', QueueKept \/ QueuePopped
    PROVE  HistoryPart'
<1>1. ArchivedPart'
  BY FitQueue, ArchivedKept DEF HistoryPart, ArchivedPart
<1>2. DeletedPart'
  <2> SUFFICES ASSUME NEW c \in Chats \ exposed' PROVE Fine(c)'
    BY DEF DeletedPart
  <2>1. Calm(c)
    BY DEF Calm, Shows
  <2>2. QED
    BY <2>1, FineKept, FinePopped, QueueSeq DEF HistoryPart, DeletedPart, Shows
<1>3. QED
  BY <1>1, <1>2 DEF HistoryPart

\* A step that shows a chat nobody has seen
LEMMA NewKeeps ==
    ASSUME Inv, HistoryPart, SameNote, UNCHANGED <<store, noted, deleted, exposed>>,
           NEW c \in Chats, Unseen(c), seen' = seen \cup {c}, QueueKept, ShowOpen(Empty(c))
    PROVE  HistoryPart'
<1>1. /\ Fits(current', noted)
      /\ \A d : current' # None /\ current'.chat = d => d = c
  BY EmptyType, EmptyFits, ShownOpen
<1>2. ArchivedPart'
  BY <1>1, FitQueue, ArchivedKept DEF HistoryPart, ArchivedPart
<1>3. ASSUME NEW d \in Chats \ exposed PROVE Fine(d)'
  <2>1. CASE d # c
    <3>1. Calm(d)
      BY <1>1, <2>1 DEF Calm
    <3>2. QED
      BY <3>1, FineKept DEF HistoryPart, DeletedPart
  <2>2. CASE d = c
    <3>1. /\ store[d] = None /\ d \notin deleted
          /\ \A i \in 1..Len(queue) :
               ~Carries(queue[i], d) /\ ~Deletes(queue[i], d) /\ ~Begins(queue[i], d)
      BY <2>2 DEF HistoryPart, DeletedPart, Fine, Unseen
    <3>2. Len(queue') = Len(queue) /\ \A i \in 1..Len(queue) :
               ~Carries(queue'[i], d) /\ ~Deletes(queue'[i], d) /\ ~Begins(queue'[i], d)
      BY <3>1, SameMeaning DEF QueueKept
    <3>3. d \in seen'
      BY <2>2
    <3>4. QED
      BY <3>1, <3>2, <3>3 DEF Fine, Shows, Carries, Deletes, Begins
  <2>3. QED
    BY <2>1, <2>2
<1>4. QED
  BY <1>2, <1>3 DEF HistoryPart, DeletedPart

-----------------------------------------------------------------------------
LEMMA TimerKeeps ==
    ASSUME Inv, HistoryPart, TimerFires
    PROVE  HistoryPart'
<1> DEFINE r == Autosave(panel.timer)
<1>1. panel.timer = current /\ current # None /\ current \in Sessions
  BY CurrentType DEF Inv, PanelPart, TimerFires
<1>2. QueueGrown(r)
  BY <1>1, SaveTypes, GrownQueue, QueueSeq DEF TimerFires
<1>3. /\ FitRequest(r, noted)
      /\ \A c : (Carries(r, c) <=> current.chat = c) /\ ~Deletes(r, c) /\ ~Begins(r, c)
  BY <1>1, Meanings, HeldFits, NoneAssumption DEF HistoryPart
<1> HIDE DEF r
<1>4. QED
  BY <1>1, <1>2, <1>3, GrownKeeps, GivenUp DEF TimerFires, history, Shows

LEMMA RetryKeeps ==
    ASSUME Inv, HistoryPart, RetryFires \/ RetryStopped \/ OpenPanel \/ Navigate
    PROVE  HistoryPart'
BY QuietKeeps, UnchangedQueue, QueueSeq, GivenUp
   DEF RetryFires, RetryStopped, OpenPanel, Navigate, history

LEMMA InPanelKeeps ==
    ASSUME Inv, HistoryPart, NEW c \in Chats, NewInPanel(c) \/ OpenInPanel(c)
    PROVE  HistoryPart'
<1>1. PICK goal \in Goals :
        /\ goal.chat = c /\ Leave(goal) /\ UNCHANGED <<store, deleted, exposed, noted>>
        /\ goal.fresh => Unseen(c) /\ seen' = seen \cup {c}
        /\ ~goal.fresh => seen' = seen
  <2>1. CASE NewInPanel(c)
    <3> DEFINE new == [chat |-> c, fresh |-> TRUE]
    <3>1. new \in Goals /\ new.chat = c /\ new.fresh
      BY DEF Goals
    <3>2. Leave(new)
      BY <2>1 DEF NewInPanel
    <3> HIDE DEF new
    <3>3. QED
      BY <2>1, <3>1, <3>2 DEF NewInPanel
  <2>2. CASE OpenInPanel(c)
    <3> DEFINE old == [chat |-> c, fresh |-> FALSE]
    <3>1. old \in Goals /\ old.chat = c /\ ~old.fresh
      BY DEF Goals
    <3>2. Leave(old)
      BY <2>2 DEF OpenInPanel
    <3> HIDE DEF old
    <3>3. QED
      BY <2>2, <3>1, <3>2 DEF OpenInPanel, history
  <2>3. QED
    BY <2>1, <2>2
<1>2. SameNote
  BY <1>1, GivenUp DEF Leave
<1>3. CASE goal.fresh /\ (current = None \/ panel.saved[current.chat] = current)
  <2>1. QueueKept /\ ShowOpen(Empty(c))
    BY <1>1, <1>3, KeptQueue, QueueSeq DEF Leave
  <2>2. QED
    BY <1>1, <1>2, <1>3, <2>1, NewKeeps
<1>4. CASE ~goal.fresh /\ (current = None \/ panel.saved[current.chat] = current)
  <2> DEFINE r == Load(goal.chat, "panel")
  <2>1. r \in Requests
    BY <1>1, LoadType DEF Askers
  <2>2. QueueGrown(r) /\ UNCHANGED current
    BY <1>1, <1>4, <2>1, GrownQueue, QueueSeq DEF Leave
  <2>3. /\ FitRequest(r, noted)
        /\ \A d : ~Carries(r, d) /\ ~Deletes(r, d) /\ ~Begins(r, d)
    BY DEF Load, Request, FitRequest, Fits, Carries, Deletes, Begins
  <2> HIDE DEF r
  <2>4. QED
    BY <1>1, <1>2, <1>4, <2>2, <2>3, GrownKeeps
<1>5. CASE ~(current = None \/ panel.saved[current.chat] = current)
  <2> DEFINE r == Flush(current, goal)
  <2>1. current # None /\ current \in Sessions
    BY <1>5, CurrentType
  <2>2. QueueGrown(r) /\ UNCHANGED current
    BY <1>1, <1>5, <2>1, FlushType, GrownQueue, QueueSeq DEF Leave
  <2>3. /\ FitRequest(r, noted)
        /\ \A d : /\ Carries(r, d) <=> current.chat = d
                  /\ ~Deletes(r, d)
                  /\ Begins(r, d) <=> goal.fresh /\ goal.chat = d
    BY <1>1, <2>1, HeldFits, NoneAssumption
       DEF HistoryPart, Flush, Request, FitRequest, Carries, Deletes, Begins
  <2> HIDE DEF r
  <2>4. seen \subseteq seen' /\ exposed \subseteq exposed'
    BY <1>1
  <2>5. \A d \in Chats : (Carries(r, d) => Shows(d))
                         /\ (Begins(r, d) => d \notin seen /\ d \in seen')
    BY <1>1, <2>1, <2>3 DEF Shows, Unseen
  <2>6. QED
    BY <1>1, <1>2, <2>2, <2>3, <2>4, <2>5, GrownKeeps
<1>6. QED
  BY <1>3, <1>4, <1>5

LEMMA DeleteInPanelKeeps ==
    ASSUME Inv, HistoryPart, NEW c \in Chats, DeleteInPanel(c)
    PROVE  HistoryPart'
<1> DEFINE r == Delete(c, "panel", None)
<1>1. r \in Requests
  BY DeleteType DEF Askers
<1>2. QueueGrown(r)
  BY <1>1, GrownQueue, QueueSeq DEF DeleteInPanel
<1>3. /\ FitRequest(r, noted)
      /\ \A d : (Deletes(r, d) <=> c = d) /\ ~Carries(r, d) /\ ~Begins(r, d)
  BY DeleteMeanings DEF Fits
<1> HIDE DEF r
<1>4. \A d \in Chats \ exposed' :
        Deletes(r, d) => store[d] # None /\ ~(current # None /\ current.chat = d)
  BY <1>3 DEF DeleteInPanel, Listed
<1>5. exposed \subseteq exposed' /\ UNCHANGED <<store, noted, deleted, seen, current>>
  BY DEF DeleteInPanel
<1>6. SameNote
  BY GivenUp DEF DeleteInPanel
<1>7. QED
  BY <1>2, <1>3, <1>4, <1>5, <1>6, GrownKeeps

LEMMA NewInPageKeeps ==
    ASSUME Inv, HistoryPart, NEW c \in Chats, NewInPage(c)
    PROVE  HistoryPart'
<1>1. SameNote /\ QueueKept
  BY GivenUp, UnchangedQueue, QueueSeq DEF NewInPage
<1>2. QED
  BY <1>1, NewKeeps DEF NewInPage

LEMMA OpenInPageKeeps ==
    ASSUME Inv, HistoryPart, NEW c \in Chats, OpenInPage(c)
    PROVE  HistoryPart'
<1> DEFINE r == Load(c, "page")
<1>1. r \in Requests
  BY LoadType DEF Askers
<1>2. QueueGrown(r)
  BY <1>1, GrownQueue, QueueSeq DEF OpenInPage
<1>3. FitRequest(r, noted) /\ \A d : ~Carries(r, d) /\ ~Deletes(r, d) /\ ~Begins(r, d)
  BY DEF Load, Request, FitRequest, Fits, Carries, Deletes, Begins
<1> HIDE DEF r
<1>4. QED
  BY <1>2, <1>3, GrownKeeps, GivenUp DEF OpenInPage, history

LEMMA DeleteInPageKeeps ==
    ASSUME Inv, HistoryPart, NEW c \in Chats, DeleteInPage(c)
    PROVE  HistoryPart'
<1> DEFINE r == Delete(c, "page", Closes(c))
<1>1. /\ Closes(c) \in Sessions \cup {None} /\ (Closes(c) # None => Closes(c).chat = c)
      /\ Fits(Closes(c), noted)
  BY HeldFits DEF Closes, Inv, CurrentPart, HistoryPart, Fits
<1>2. QueueGrown(r)
  BY <1>1, DeleteType, GrownQueue, QueueSeq DEF DeleteInPage, Askers, Closes
<1>3. /\ FitRequest(r, noted)
      /\ \A d : /\ Deletes(r, d) <=> c = d
                /\ ~Begins(r, d)
                /\ Carries(r, d) <=> Closes(c) # None /\ Closes(c).chat = d
  BY <1>1, DeleteMeanings
<1> HIDE DEF r
<1>4. current' = IF Shows(c) THEN None ELSE current
  <2>1. CASE Shows(c)
    <3>1. current' = Touched(None)
      BY <2>1 DEF DeleteInPage, Show, Shows
    <3>2. QED
      BY <2>1, <3>1 DEF Touched, SameChat
  <2>2. CASE ~Shows(c)
    BY <2>2 DEF DeleteInPage, Shows
  <2>3. QED
    BY <2>1, <2>2
<1>5. \A d \in Chats :
        /\ Carries(r, d) => Shows(d)
        /\ Deletes(r, d) => store[d] # None /\ ~(current' # None /\ current'.chat = d)
  BY <1>3, <1>4 DEF DeleteInPage, Listed, Shows, Closes
<1>6. SameNote
  BY GivenUp DEF DeleteInPage
<1>7. QED
  BY <1>2, <1>3, <1>4, <1>5, <1>6, GrownKeeps DEF DeleteInPage, history

LEMMA CleanupKeeps ==
    ASSUME Inv, HistoryPart, NEW all \in BOOLEAN, Cleanup(all)
    PROVE  HistoryPart'
<1>1. SameNote
  BY GivenUp DEF Cleanup
<1>2. CASE current = None
  <2>1. QueueKept
    BY <1>2, KeptQueue, QueueSeq DEF Cleanup
  <2>2. QED
    BY <1>1, <2>1, QuietKeeps DEF Cleanup, history
<1>3. CASE current # None
  <2> DEFINE r == Farewell(current)
  <2>1. QueueGrown(r)
    BY <1>3, CurrentType, SaveTypes, GrownQueue, QueueSeq DEF Cleanup
  <2>2. /\ FitRequest(r, noted)
        /\ \A c : (Carries(r, c) <=> current.chat = c) /\ ~Deletes(r, c) /\ ~Begins(r, c)
    BY <1>3, HeldFits
       DEF HistoryPart, Farewell, Request, FitRequest, Carries, Deletes, Begins
  <2> HIDE DEF r
  <2>3. QED
    BY <1>1, <1>3, <2>1, <2>2, GrownKeeps DEF Cleanup, history, Shows
<1>4. QED
  BY <1>2, <1>3

LEMMA ReloadKeeps ==
    ASSUME Inv, HistoryPart, Reload
    PROVE  HistoryPart'
<1>1. /\ queue' = <<>> /\ current' = None /\ noting' = None
      /\ UNCHANGED <<store, seen, deleted, exposed, noted>>
  BY DEF Reload, history
<1>2. ArchivedPart'
  BY <1>1 DEF HistoryPart, ArchivedPart, Fits, FitNoting
<1>3. DeletedPart'
  BY <1>1 DEF HistoryPart, DeletedPart, Fine, Shows
<1>4. QED
  BY <1>2, <1>3 DEF HistoryPart

-----------------------------------------------------------------------------
(* ... and those that end a transaction                                    *)

\* The transaction that ends stores what it carries, and nothing is shown
\* that was not
LEMMA StoredKeeps ==
    ASSUME Inv, HistoryPart, queue # <<>>, Head(queue).kind \in Writes,
           Stored(Head(queue).session), QueuePopped, UNCHANGED <<seen, deleted, exposed, noted>>,
           \A c : current' # None /\ current'.chat = c => Shows(c),
           Fits(current', noted), FitNoting(noting', noted)
    PROVE  HistoryPart'
<1> DEFINE s == Head(queue).session
<1>1. /\ s \in Sessions /\ s # None /\ s.chat \in Chats
      /\ Head(queue) = queue[1] /\ 1 \in 1..Len(queue)
  BY HeadWrites, HeadType, NoneAssumption DEF Inv, Sessions
<1>2. \A c \in Chats : store'[c] = store[c] \/ (store'[c] = s /\ s.chat = c)
  BY <1>1 DEF Stored, Inv, StorePart
<1>3. Fits(s, noted)
  BY <1>1 DEF HistoryPart, ArchivedPart, FitRequest
<1>4. ArchivedPart'
  <2>1. \A i \in 1..Len(queue') : FitRequest(queue'[i], noted)
    BY FitQueue DEF HistoryPart, ArchivedPart
  <2>2. QED
    BY <1>2, <1>3, <2>1 DEF HistoryPart, ArchivedPart
<1>5. ASSUME NEW c \in Chats \ exposed PROVE Fine(c)'
  <2>1. store'[c] # None => store[c] # None \/ Carries(queue[1], c)
    BY <1>1, <1>2 DEF Carries
  <2>2. QED
    BY <2>1, FinePopped, QueueSeq DEF HistoryPart, DeletedPart
<1>6. QED
  BY <1>4, <1>5 DEF HistoryPart, DeletedPart

LEMMA StoreSaveKeeps ==
    ASSUME Inv, HistoryPart, StoreAutosave \/ StoreFarewell
    PROVE  HistoryPart'
<1>1. /\ queue # <<>> /\ Head(queue).kind \in Writes /\ Stored(Head(queue).session)
      /\ UNCHANGED <<current, noting, seen, deleted, exposed, noted>>
  BY DEF StoreAutosave, StoreFarewell, Ending, Writes, history
<1>2. QueuePopped
  BY PoppedQueue, QueueSeq DEF StoreAutosave, StoreFarewell, Ending
<1>3. Fits(current', noted) /\ FitNoting(noting', noted)
  BY <1>1 DEF HistoryPart, ArchivedPart
<1>4. QED
  BY <1>1, <1>2, <1>3, StoredKeeps DEF Shows

LEMMA FailKeeps ==
    ASSUME Inv, HistoryPart, FailAutosave \/ FailOther
    PROVE  HistoryPart'
<1>1. QueuePopped
  BY PoppedQueue, QueueSeq DEF FailAutosave, FailOther, Ending
<1>2. QED
  BY <1>1, QuietKeeps, GivenUp DEF FailAutosave, FailOther, history

\* The notes that are given up stay fit
LEMMA FitSameNote ==
    ASSUME Inv, HistoryPart, SameNote
    PROVE  FitNoting(noting', noted)
BY DEF HistoryPart, ArchivedPart, FitNoting, SameNote, Inv, NotingPart, Notings

LEMMA StoreFlushKeeps ==
    ASSUME Inv, HistoryPart, StoreFlush
    PROVE  HistoryPart'
<1> DEFINE r == Head(queue)
           s == r.session
           p == IF r.live THEN Remembered(panel, r.session) ELSE panel
<1>1. /\ s \in Sessions /\ s # None /\ s.chat \in Chats
      /\ r = queue[1] /\ 1 \in 1..Len(queue) /\ queue # <<>>
      /\ r.goal \in Goals /\ r.goal # None /\ r.goal.chat \in Chats
  BY HeadWrites, HeadType, NoneAssumption
     DEF StoreFlush, Ending, Writes, Inv, Proper, Requests, Goals, Sessions
<1>2. /\ \A c \in Chats : store'[c] = store[c] \/ (store'[c] = s /\ s.chat = c)
      /\ UNCHANGED <<seen, deleted, exposed, noted>>
  BY <1>1 DEF StoreFlush, Stored, Inv, StorePart, history
<1>3. Fits(s, noted)
  BY <1>1 DEF HistoryPart, ArchivedPart, FitRequest
<1>4. \A c \in Chats : store'[c] # None => store[c] # None \/ Carries(queue[1], c)
  BY <1>1, <1>2 DEF Carries
<1>5. FitNoting(noting', noted)
  BY FitSameNote, GivenUp DEF StoreFlush
<1>6. CASE ~r.goal.fresh
  <2> DEFINE t == Load(r.goal.chat, "panel")
  <2>1. t \in Requests
    BY <1>1, LoadType DEF Askers
  <2>2. QueueMoved(t) /\ UNCHANGED current
    BY <1>6, <2>1, MovedQueue, QueueSeq DEF StoreFlush, Ending
  <2>3. FitRequest(t, noted) /\ \A d : ~Carries(t, d) /\ ~Deletes(t, d) /\ ~Begins(t, d)
    BY DEF Load, Request, FitRequest, Fits, Carries, Deletes, Begins
  <2> HIDE DEF t
  <2>4. ArchivedPart'
    <3>1. \A i \in 1..Len(queue') : FitRequest(queue'[i], noted)
      BY <1>2, <2>2, <2>3, FitQueue DEF HistoryPart, ArchivedPart
    <3>2. QED
      BY <1>2, <1>3, <1>5, <2>2, <3>1 DEF HistoryPart, ArchivedPart
  <2>5. ASSUME NEW c \in Chats \ exposed PROVE Fine(c)'
    <3>1. Calm(c)
      BY <1>2, <2>2 DEF Calm, Shows
    <3>2. QED
      BY <1>4, <2>2, <2>3, <3>1, FineMoved, QueueSeq DEF HistoryPart, DeletedPart
  <2>6. QED
    BY <1>2, <2>4, <2>5 DEF HistoryPart, DeletedPart
<1>7. CASE r.goal.fresh
  <2> DEFINE g == r.goal.chat
             e == IF p.open THEN p ELSE Fresh
  <2>1. QueuePopped
    BY <1>1, <1>7, PoppedQueue, QueueSeq DEF StoreFlush, Ending
  <2>2. GoodPanel(e)
    BY <1>1, RememberedType, FreshType DEF Inv, PanelPart
  <2>3. Show(e, Empty(g))
    BY <1>7 DEF StoreFlush
  <2> HIDE DEF e
  <2>4. Fits(current', noted) /\ \A c : current' # None /\ current'.chat = c => c = g
    BY <1>1, <2>2, <2>3, EmptyType, EmptyFits, Shown
  <2>5. ArchivedPart'
    <3>1. \A i \in 1..Len(queue') : FitRequest(queue'[i], noted)
      BY <1>2, <2>1, FitQueue DEF HistoryPart, ArchivedPart
    <3>2. QED
      BY <1>2, <1>3, <1>5, <2>4, <3>1 DEF HistoryPart, ArchivedPart
  <2>6. ASSUME NEW c \in Chats \ exposed PROVE Fine(c)'
    <3>1. c = g => Arrives(c)
      <4> SUFFICES ASSUME c = g PROVE Arrives(c)
        OBVIOUS
      <4>1. Begins(queue[1], c)
        BY <1>1, <1>7 DEF Begins
      <4>2. /\ c \in seen \ deleted
            /\ \A i \in 1..Len(queue) : ~Deletes(queue[i], c) /\ (Begins(queue[i], c) => 1 = i)
        BY <1>1, <2>6, <4>1 DEF HistoryPart, DeletedPart, Fine
      <4>3. \A i \in 2..Len(queue) : i \in 1..Len(queue) /\ i # 1
        BY QueueSeq
      <4>4. QED
        BY <1>2, <4>2, <4>3 DEF Arrives
    <3>2. Fine(c) /\ seen \subseteq seen' /\ deleted' = deleted
      BY <1>2, <2>6 DEF HistoryPart, DeletedPart
    <3>3. QED
      BY <1>4, <2>1, <2>4, <2>6, <3>1, <3>2, FinePopped, QueueSeq
  <2>7. QED
    BY <1>2, <2>5, <2>6 DEF HistoryPart, DeletedPart
<1>8. QED
  BY <1>6, <1>7

\* The transaction that ends shows a chat again, unless it is to be deleted
LEMMA ArrivalKeeps ==
    ASSUME Inv, HistoryPart, SameNote, QueuePopped, UNCHANGED <<store, seen, deleted, noted>>,
           NEW c \in Chats, Fits(current', noted),
           \A d : current' # None /\ current'.chat = d => d = c,
           exposed' = IF \E i \in 1..Len(queue') : Deletes(queue'[i], c)
                      THEN exposed \cup {c} ELSE exposed,
           Fine(c) => /\ c \in seen \ deleted
                      /\ \A i \in 1..Len(queue) : ~Begins(queue[i], c)
    PROVE  HistoryPart'
<1>1. ArchivedPart'
  BY FitQueue, FitSameNote DEF HistoryPart, ArchivedPart
<1>2. ASSUME NEW d \in Chats \ exposed' PROVE Fine(d)'
  <2>1. Fine(d)
    BY DEF HistoryPart, DeletedPart
  <2>2. d = c => Arrives(d)
    <3> SUFFICES ASSUME d = c PROVE Arrives(c)
      OBVIOUS
    <3>1. c \in seen \ deleted /\ \A i \in 1..Len(queue) : ~Begins(queue[i], c)
      BY <2>1
    <3>2. \A i \in 1..Len(queue') : ~Deletes(queue'[i], c)
      OBVIOUS
    <3>3. \A i \in 2..Len(queue) : i \in 1..Len(queue) /\ i - 1 \in 1..Len(queue')
                                   /\ SameButLive(queue'[i - 1], queue[i])
      <4> TAKE i \in 2..Len(queue)
      <4>1. i \in 1..Len(queue) /\ i - 1 \in 1..Len(queue') /\ (i - 1) + 1 = i
        BY QueueSeq DEF QueuePopped
      <4>2. QED
        BY <4>1 DEF QueuePopped
    <3>4. QED
      BY <3>1, <3>2, <3>3, SameMeaning DEF Arrives
  <2>3. QED
    BY <2>1, <2>2, FinePopped, QueueSeq
<1>3. QED
  BY <1>1, <1>2 DEF HistoryPart, DeletedPart

LEMMA DoomedMeans ==
    ASSUME NEW q \in Seq(Requests), NEW c
    PROVE  Doomed(c, q) <=> \E i \in 1..Len(q) : Deletes(q[i], c)
BY DEF Doomed, Deletes

LEMMA LoadKeeps ==
    ASSUME Inv, HistoryPart, LoadChat
    PROVE  HistoryPart'
<1> DEFINE r == Head(queue)
           s == store[r.chat]
<1>1. r.chat \in Chats /\ s \in Sessions \cup {None} /\ (s # None => s.chat = r.chat)
  BY HeadType DEF LoadChat, Ending, Inv, Requests, StorePart
<1>2. QueuePopped /\ SameNote /\ queue' \in Seq(Requests)
  BY PoppedQueue, QueueSeq, GivenUp DEF LoadChat, Ending, QueuePopped
<1>3. UNCHANGED <<store, seen, deleted, noted>>
  BY DEF LoadChat
<1>4. CASE r.live /\ s # None
  <2>1. ShowOpen(s)
    BY <1>4 DEF LoadChat
  <2>2. Fits(current', noted) /\ \A d : current' # None /\ current'.chat = d => d = r.chat
    BY <1>1, <2>1, ShownOpen DEF HistoryPart, ArchivedPart
  <2>3. exposed' = IF Doomed(r.chat, queue') THEN exposed \cup {r.chat} ELSE exposed
    BY <1>4 DEF LoadChat
  <2>4. Fine(r.chat) => /\ r.chat \in seen \ deleted
                        /\ \A i \in 1..Len(queue) : ~Begins(queue[i], r.chat)
    BY <1>4 DEF Fine
  <2>5. QED
    BY <1>1, <1>2, <1>3, <2>2, <2>3, <2>4, DoomedMeans, ArrivalKeeps
<1>5. CASE ~(r.live /\ s # None)
  BY <1>2, <1>3, <1>5, QuietKeeps DEF LoadChat
<1>6. QED
  BY <1>4, <1>5

LEMMA FailDeleteInPageKeeps ==
    ASSUME Inv, HistoryPart, FailDeleteInPage
    PROVE  HistoryPart'
<1> DEFINE back == Head(queue).session
<1>1. /\ back \in Sessions \cup {None} /\ (back # None => back.chat \in Chats)
      /\ Head(queue) = queue[1] /\ 1 \in 1..Len(queue)
  BY HeadType DEF FailDeleteInPage, Ending, Inv, Requests, Sessions
<1>2. QueuePopped /\ SameNote /\ queue' \in Seq(Requests)
  BY PoppedQueue, QueueSeq, GivenUp DEF FailDeleteInPage, Ending, QueuePopped
<1>3. UNCHANGED <<store, seen, deleted, noted>>
  BY DEF FailDeleteInPage
<1>4. CASE back # None
  <2>1. Show(panel, back) /\ GoodPanel(panel)
    BY <1>4 DEF FailDeleteInPage, Inv, PanelPart
  <2>2. Fits(back, noted) /\ Carries(queue[1], back.chat)
    BY <1>1, <1>4 DEF HistoryPart, ArchivedPart, FitRequest, Carries
  <2>3. Fits(current', noted) /\ \A d : current' # None /\ current'.chat = d => d = back.chat
    BY <1>1, <2>1, <2>2, Shown
  <2>4. exposed' = IF Doomed(back.chat, queue') THEN exposed \cup {back.chat} ELSE exposed
    BY <1>4 DEF FailDeleteInPage
  <2>5. Fine(back.chat) => /\ back.chat \in seen \ deleted
                           /\ \A i \in 1..Len(queue) : ~Begins(queue[i], back.chat)
    BY <1>1, <2>2 DEF Fine
  <2>6. QED
    BY <1>1, <1>2, <1>3, <1>4, <2>3, <2>4, <2>5, DoomedMeans, ArrivalKeeps
<1>5. CASE back = None
  BY <1>2, <1>3, <1>5, QuietKeeps DEF FailDeleteInPage
<1>6. QED
  BY <1>4, <1>5

LEMMA DeleteKeeps ==
    ASSUME Inv, HistoryPart, DeleteChat
    PROVE  HistoryPart'
<1> DEFINE r == Head(queue)
<1>1. r.chat \in Chats /\ r = queue[1] /\ r.kind = "delete" /\ Deletes(queue[1], r.chat)
  BY HeadType DEF DeleteChat, Ending, Inv, Requests, Deletes
<1>2. QueuePopped
  BY PoppedQueue, QueueSeq DEF DeleteChat, Ending
<1>3. /\ \A c \in Chats : store'[c] = IF c = r.chat THEN None ELSE store[c]
      /\ deleted' = deleted \cup {r.chat} /\ UNCHANGED <<seen, exposed, noted>>
  BY DEF DeleteChat, Inv, StorePart
<1>4. current' \in {None, current}
  <2>1. Show(panel, None) => current' = None
    BY DEF Show, Touched, SameChat
  <2>2. QED
    BY <2>1 DEF DeleteChat
<1>5. ArchivedPart'
  <2>1. SameNote \/ noting' = None
    BY GivenUp DEF DeleteChat
  <2>2. FitNoting(noting', noted)
    BY <2>1, FitSameNote DEF FitNoting
  <2>3. \A i \in 1..Len(queue') : FitRequest(queue'[i], noted)
    BY <1>2, <1>3, FitQueue DEF HistoryPart, ArchivedPart
  <2>4. QED
    BY <1>3, <1>4, <2>2, <2>3 DEF HistoryPart, ArchivedPart, Fits
<1>6. ASSUME NEW c \in Chats \ exposed PROVE Fine(c)'
  BY <1>1, <1>2, <1>3, <1>4, <1>6, FinePopped, QueueSeq DEF HistoryPart, DeletedPart, Shows
<1>7. QED
  BY <1>3, <1>5, <1>6 DEF HistoryPart, DeletedPart

-----------------------------------------------------------------------------
(* ... and those of a note                                                 *)

LEMMA SaveAsNoteKeeps ==
    ASSUME Inv, HistoryPart, NEW del \in BOOLEAN, SaveAsNote(del)
    PROVE  HistoryPart'
<1> DEFINE s == [current EXCEPT !.note = [del |-> del, status |-> "pending"]]
           skip == del /\ Appended(del)
           r == NoteSave(s)
<1>1. current \in Sessions /\ current # None
  BY CurrentType DEF SaveAsNote
<1>2. s \in Sessions /\ s.chat = current.chat /\ s.note.status = "pending"
  BY <1>1 DEF Sessions, Notes, Statuses
<1>3. UNCHANGED <<store, current, seen, deleted, exposed, noted>>
  BY DEF SaveAsNote, history
<1>4. noting' # None /\ noting'.chat = current.chat
      /\ noting'.phase = IF skip THEN "refresh" ELSE "pending"
  <2>1. noting' = [chat |-> current.chat, del |-> del, live |-> TRUE,
                   phase |-> IF skip THEN "refresh" ELSE "pending"]
    BY DEF SaveAsNote
  <2>2. noting' \in Notings
    BY <1>1, <2>1 DEF Notings, Phases, Sessions
  <2>3. QED
    BY <2>1, <2>2, NoneAssumption
<1>5. skip => current.chat \in noted
  <2>1. skip => current.note # None /\ current.note.status # "pending"
    BY DEF Appended, Reusable
  <2>2. QED
    BY <1>1, <2>1 DEF HistoryPart, ArchivedPart, Fits
<1>6. FitNoting(noting', noted)
  BY <1>4, <1>5 DEF FitNoting
<1>7. CASE skip
  <2>1. QueueKept
    BY <1>7, UnchangedQueue, QueueSeq DEF SaveAsNote
  <2>2. ArchivedPart'
    BY <1>3, <1>6, <2>1, FitQueue DEF HistoryPart, ArchivedPart
  <2>3. DeletedPart'
    BY <1>3, <2>1, FineKept DEF HistoryPart, DeletedPart, Calm, Shows
  <2>4. QED
    BY <2>2, <2>3 DEF HistoryPart
<1>8. CASE ~skip
  <2>1. QueueGrown(r)
    BY <1>2, <1>8, SaveTypes, GrownQueue, QueueSeq DEF SaveAsNote
  <2>2. /\ FitRequest(r, noted)
        /\ \A c : (Carries(r, c) => current.chat = c) /\ ~Deletes(r, c) /\ ~Begins(r, c)
    BY <1>2 DEF NoteSave, Request, FitRequest, Fits, Carries, Deletes, Begins
  <2> HIDE DEF r
  <2>3. ArchivedPart'
    BY <1>3, <1>6, <2>1, <2>2, FitQueue DEF HistoryPart, ArchivedPart
  <2>4. ASSUME NEW c \in Chats \ exposed PROVE Fine(c)'
    BY <1>1, <1>3, <2>1, <2>2, <2>4, FineGrown, QueueSeq DEF HistoryPart, DeletedPart, Calm, Shows
  <2>5. QED
    BY <1>3, <2>3, <2>4 DEF HistoryPart, DeletedPart
<1>9. QED
  BY <1>7, <1>8

LEMMA StoreNoteKeeps ==
    ASSUME Inv, HistoryPart, StoreNote
    PROVE  HistoryPart'
<1> DEFINE s == Head(queue).session
<1>1. /\ queue # <<>> /\ Head(queue).kind = "note" /\ Stored(s)
      /\ UNCHANGED <<seen, deleted, exposed, noted>>
  BY DEF StoreNote, Ending, history
<1>2. s \in Sessions /\ s.chat = Head(queue).chat /\ Head(queue) = queue[1]
  BY <1>1, HeadWrites, HeadType DEF Writes, Inv
<1>3. /\ noting \in Notings /\ noting.chat = Head(queue).chat
      /\ noting.phase \in {"pending", "saved"}
  BY <1>1, Awaited DEF OfNote, WaitsFor, Waits
<1>4. QueuePopped
  BY PoppedQueue, QueueSeq DEF StoreNote, Ending
<1>5. Fits(s, noted)
  BY <1>1, <1>2, HeadType DEF HistoryPart, ArchivedPart, FitRequest, Inv
<1>6. CASE Owns
  <2>1. Show(panel, s) /\ GoodPanel(panel) /\ current # None /\ current.chat = s.chat
    BY <1>2, <1>3, <1>6 DEF StoreNote, Owns, Inv, PanelPart
  <2>2. Fits(current', noted) /\ \A c : current' # None /\ current'.chat = c => Shows(c)
    BY <1>2, <1>5, <2>1, Shown DEF Shows
  <2>3. FitNoting(noting', noted)
    <3>1. noting' = [noting EXCEPT !.phase = IF noting.phase = "pending"
                                              THEN "append" ELSE "refresh"]
      BY <1>3, <1>6 DEF StoreNote, Notings
    <3>2. noting.phase = "saved" => noting.chat \in noted
      BY <1>3, NoneAssumption DEF HistoryPart, ArchivedPart, FitNoting
    <3>3. QED
      BY <1>3, <3>1, <3>2 DEF FitNoting, Notings
  <2>4. QED
    BY <1>1, <1>4, <2>2, <2>3, StoredKeeps DEF Writes
<1>7. CASE ~Owns
  <2>1. current' = current /\ noting' = None
    BY <1>7 DEF StoreNote
  <2>2. Fits(current', noted) /\ FitNoting(noting', noted)
    BY <2>1 DEF HistoryPart, ArchivedPart, FitNoting
  <2>3. QED
    BY <1>1, <1>4, <2>1, <2>2, StoredKeeps DEF Writes, Shows
<1>8. QED
  BY <1>6, <1>7

LEMMA AppendNoteKeeps ==
    ASSUME Inv, HistoryPart, AppendNote
    PROVE  HistoryPart'
<1> DEFINE s == [current EXCEPT !.note = [del |-> noting.del, status |-> NoteStatus]]
           r == NoteSave(s)
<1>1. noting \in Notings /\ noting.chat \in Chats
  BY DEF AppendNote, Inv, NotingPart, Notings
<1>2. /\ noted' = noted \cup {noting.chat} /\ noted \subseteq noted'
      /\ UNCHANGED <<store, current, seen, deleted, exposed>>
  BY DEF AppendNote
<1>3. FitNoting(noting', noted')
  <2>1. noting' = None \/ noting' = [noting EXCEPT !.phase = "saved"]
    BY DEF AppendNote
  <2>2. QED
    BY <1>1, <1>2, <2>1 DEF FitNoting, Notings
<1>4. /\ \A c \in Chats : Fits(store'[c], noted')
      /\ Fits(current', noted')
  BY <1>2 DEF HistoryPart, ArchivedPart, Fits
<1>5. CASE Owns
  <2>1. current \in Sessions /\ current # None /\ current.chat = noting.chat
    BY <1>5, CurrentType DEF Owns
  <2>2. s \in Sessions /\ s.chat = noting.chat
    BY <1>1, <2>1 DEF Sessions, Notes, Statuses, Notings, NoteStatus
  <2>3. QueueGrown(r)
    BY <1>5, <2>2, SaveTypes, GrownQueue, QueueSeq DEF AppendNote, NoteStatus
  <2>4. /\ FitRequest(r, noted')
        /\ \A c : (Carries(r, c) => current.chat = c) /\ ~Deletes(r, c) /\ ~Begins(r, c)
    <3> HIDE DEF s
    <3>1. Fits(s, noted') /\ s # None
      BY <1>2, <2>2, NoneAssumption DEF Fits
    <3>2. QED
      BY <2>1, <2>2, <3>1 DEF NoteSave, Request, FitRequest, Carries, Deletes, Begins
  <2> HIDE DEF r
  <2>5. ArchivedPart'
    BY <1>2, <1>3, <1>4, <2>3, <2>4, FitQueue DEF HistoryPart, ArchivedPart
  <2>6. ASSUME NEW c \in Chats \ exposed PROVE Fine(c)'
    BY <1>2, <2>1, <2>3, <2>4, <2>6, FineGrown, QueueSeq DEF HistoryPart, DeletedPart, Calm, Shows
  <2>7. QED
    BY <1>2, <2>5, <2>6 DEF HistoryPart, DeletedPart
<1>6. CASE ~Owns
  <2>1. QueueKept
    BY <1>6, UnchangedQueue, QueueSeq DEF AppendNote
  <2>2. ArchivedPart'
    BY <1>2, <1>3, <1>4, <2>1, FitQueue DEF HistoryPart, ArchivedPart
  <2>3. DeletedPart'
    BY <1>2, <2>1, FineKept DEF HistoryPart, DeletedPart, Calm, Shows
  <2>4. QED
    BY <2>2, <2>3 DEF HistoryPart
<1>7. QED
  BY <1>5, <1>6

LEMMA AfterNoteKeeps ==
    ASSUME Inv, HistoryPart, AfterNote
    PROVE  HistoryPart'
<1> DEFINE r == Delete(noting.chat, "note", None)
<1>1. noting \in Notings /\ noting.chat \in Chats /\ noting.chat \in noted
  BY NoneAssumption
     DEF AfterNote, Inv, NotingPart, Notings, HistoryPart, ArchivedPart, FitNoting
<1>2. UNCHANGED <<store, current, seen, deleted, noted>> /\ exposed \subseteq exposed'
  BY DEF AfterNote
<1>3. FitNoting(noting', noted)
  <2>1. noting' = None \/ noting' = [noting EXCEPT !.phase = "delete"]
    BY DEF AfterNote
  <2>2. QED
    BY <1>1, <2>1 DEF FitNoting, Notings
<1>4. CASE Owns /\ noting.del
  <2>1. QueueGrown(r)
    BY <1>1, <1>4, DeleteType, GrownQueue, QueueSeq DEF AfterNote, Askers
  <2>2. /\ FitRequest(r, noted)
        /\ \A c : (Deletes(r, c) => c = noting.chat) /\ ~Carries(r, c) /\ ~Begins(r, c)
    BY <1>1 DEF Delete, Request, FitRequest, Fits, Carries, Deletes, Begins
  <2> HIDE DEF r
  <2>3. ArchivedPart'
    BY <1>2, <1>3, <2>1, <2>2, FitQueue DEF HistoryPart, ArchivedPart
  <2>4. noting.chat \in exposed'
    BY <1>4 DEF AfterNote
  <2>5. ASSUME NEW c \in Chats \ exposed' PROVE Fine(c)'
    BY <1>2, <2>1, <2>2, <2>4, <2>5, FineGrown, QueueSeq DEF HistoryPart, DeletedPart, Calm, Shows
  <2>6. QED
    BY <2>3, <2>5 DEF HistoryPart, DeletedPart
<1>5. CASE ~(Owns /\ noting.del)
  <2>1. QueueKept
    BY <1>5, UnchangedQueue, QueueSeq DEF AfterNote
  <2>2. ArchivedPart'
    BY <1>2, <1>3, <2>1, FitQueue DEF HistoryPart, ArchivedPart
  <2>3. DeletedPart'
    BY <1>2, <2>1, FineKept DEF HistoryPart, DeletedPart, Calm, Shows
  <2>4. QED
    BY <2>2, <2>3 DEF HistoryPart
<1>6. QED
  BY <1>4, <1>5

LEMMA FailNoteKeeps ==
    ASSUME Inv, HistoryPart, FailNote
    PROVE  HistoryPart'
<1>1. /\ UNCHANGED <<store, seen, deleted, exposed>>
      /\ noting' = None /\ noted \subseteq noted'
  BY DEF FailNote
<1>2. QueueKept \/ QueuePopped
  BY UnchangedQueue, PoppedQueue, QueueSeq DEF FailNote, Ending
<1>3. /\ Fits(current', noted')
      /\ \A c : current' # None /\ current'.chat = c => Shows(c)
  <2> DEFINE s == [current EXCEPT !.note.status = "delete-failed"]
  <2>1. CASE UNCHANGED current
    BY <1>1, <2>1 DEF HistoryPart, ArchivedPart, Fits, Shows
  <2>2. CASE /\ current # None /\ current.note # None /\ current.note.status = "note-saved"
             /\ Show(panel, s)
    <3>1. current \in Sessions /\ current.note \in Notes
      BY <2>2, CurrentType DEF Sessions
    <3>2. [current.note EXCEPT !.status = "delete-failed"] \in Notes
      BY <3>1 DEF Notes, Statuses
    <3>3. s \in Sessions /\ s.chat = current.chat
      BY <3>1, <3>2 DEF Sessions
    <3>4. current.chat \in noted
      BY <2>2 DEF HistoryPart, ArchivedPart, Fits
    <3>5. Fits(s, noted)
      BY <3>3, <3>4 DEF Fits
    <3>6. GoodPanel(panel)
      BY DEF Inv, PanelPart
    <3> HIDE DEF s
    <3>7. /\ Fits(current', noted)
          /\ \A c : current' # None /\ current'.chat = c => s.chat = c
      BY <2>2, <3>3, <3>5, <3>6, Shown
    <3>8. QED
      BY <1>1, <2>2, <3>3, <3>7 DEF Fits, Shows
  <2>3. QED
    BY <2>1, <2>2 DEF FailNote
<1>4. ArchivedPart'
  <2>1. \A i \in 1..Len(queue') : FitRequest(queue'[i], noted')
    BY <1>1, <1>2, FitQueue DEF HistoryPart, ArchivedPart
  <2>2. QED
    BY <1>1, <1>3, <2>1 DEF HistoryPart, ArchivedPart, Fits, FitNoting
<1>5. ASSUME NEW c \in Chats \ exposed PROVE Fine(c)'
  <2>1. Calm(c) /\ Fine(c)
    BY <1>1, <1>3, <1>5 DEF Calm, HistoryPart, DeletedPart
  <2>2. QED
    BY <1>1, <1>2, <2>1, FineKept, FinePopped, QueueSeq DEF Calm
<1>6. QED
  BY <1>1, <1>4, <1>5 DEF HistoryPart, DeletedPart

-----------------------------------------------------------------------------
LEMMA InitHistory == Init => HistoryPart
<1> SUFFICES ASSUME Init PROVE HistoryPart
  OBVIOUS
<1>1. \A c \in Chats :
        store[c] # None => c \in Kept /\ store[c].note = None /\ store[c].chat = c
  <2>1. \A c \in Chats : store[c] = IF c \in Kept THEN [Empty(c) EXCEPT !.edits = {0}] ELSE None
    BY DEF Init
  <2>2. QED
    BY <2>1 DEF Empty
<1>2. current = None \/ \E c \in Chats : current = store[c]
  BY ChatsAssumption DEF Init
<1>3. /\ queue = <<>> /\ noting = None /\ seen = Kept /\ deleted = {}
  BY DEF Init
<1>4. ArchivedPart
  BY <1>1, <1>2, <1>3 DEF ArchivedPart, Fits, FitRequest, FitNoting
<1>5. \A c \in Chats : (store[c] # None \/ Shows(c)) => c \in Kept
  BY <1>1, <1>2 DEF Shows
<1>6. DeletedPart
  <2> SUFFICES ASSUME NEW c \in Chats PROVE Fine(c)
    BY DEF DeletedPart
  <2>1. 1..Len(queue) = {}
    BY <1>3
  <2>2. \A d : d \notin deleted
    BY <1>3
  <2>3. store[c] # None \/ Shows(c) => c \in seen \ deleted
    BY <1>3, <1>5, <2>2
  <2>4. QED
    BY <2>1, <2>2, <2>3, Zenon DEF Fine
<1>7. QED
  BY <1>4, <1>6 DEF HistoryPart

LEMMA NextHistory == Inv /\ HistoryPart /\ [Next]_vars => HistoryPart'
<1> SUFFICES ASSUME Inv, HistoryPart, [Next]_vars PROVE HistoryPart'
  OBVIOUS
<1>1. CASE Edit \/ TimerFires \/ RetryFires \/ RetryStopped
  BY <1>1, EditKeeps, TimerKeeps, RetryKeeps
<1>2. CASE \E c \in Chats : \/ NewInPanel(c) \/ OpenInPanel(c) \/ DeleteInPanel(c)
                            \/ NewInPage(c) \/ OpenInPage(c) \/ DeleteInPage(c)
  BY <1>2, InPanelKeeps, DeleteInPanelKeeps, NewInPageKeeps, OpenInPageKeeps, DeleteInPageKeeps
<1>3. CASE ClosePanel \/ AccountChanges \/ OpenPanel \/ Reload
  BY <1>3, CleanupKeeps, RetryKeeps, ReloadKeeps DEF ClosePanel, AccountChanges
<1>4. CASE Transaction
  BY <1>4, StoreSaveKeeps, FailKeeps, StoreFlushKeeps, LoadKeeps, DeleteKeeps,
     FailDeleteInPageKeeps, StoreNoteKeeps DEF Transaction
<1>5. CASE \E del \in BOOLEAN : SaveAsNote(del)
  BY <1>5, SaveAsNoteKeeps
<1>6. CASE AppendNote \/ AfterNote \/ FailNote \/ Navigate
  BY <1>6, AppendNoteKeeps, AfterNoteKeeps, FailNoteKeeps, RetryKeeps
<1>7. CASE UNCHANGED vars
  <2>1. QueueKept /\ SameNote
    BY <1>7, UnchangedQueue, QueueSeq, GivenUp DEF vars
  <2>2. QED
    BY <1>7, <2>1, QuietKeeps DEF vars, history
<1>8. QED
  BY <1>1, <1>2, <1>3, <1>4, <1>5, <1>6, <1>7 DEF Next

LEMMA AlwaysHistory == Spec => [](Inv /\ HistoryPart)
<1>1. Init => Inv /\ HistoryPart
  BY InitInv, InitHistory
<1>2. Inv /\ HistoryPart /\ [Next]_vars => (Inv /\ HistoryPart)'
  BY NextInv, NextHistory
<1>3. QED
  BY <1>1, <1>2, PTL DEF Spec

\* For any chats and bounds, "save and delete" deletes a chat only when a note
\* of it has been appended, however the note was interrupted, given up, taken
\* up again or loaded back before (saveCurrentChatAsNote, chatNoteSave.ts).
THEOREM ArchivedFirst == Spec => []ArchivedBeforeDeleted
<1>1. Inv /\ HistoryPart => ArchivedBeforeDeleted
  BY ArchivedImplies DEF HistoryPart
<1>2. QED
  BY <1>1, AlwaysHistory, PTL

\* For any chats and bounds, no save, farewell, flush, load or note that was
\* on its way brings a deleted chat back, unless the tab showed the chat after
\* its deletion was asked: the order of IndexedDB and closing the chat first
\* (AssistantChatsPage.tsx) are enough, without the retired queues.
THEOREM DeletedStays == Spec => []DeletedStaysDeleted
<1>1. Inv /\ HistoryPart => DeletedStaysDeleted
  BY DeletedImplies DEF HistoryPart
<1>2. QED
  BY <1>1, AlwaysHistory, PTL

-----------------------------------------------------------------------------
(* The order of a chat's contents.  What a chat holds in the store, in the *)
(* transactions that write it, oldest first, in what a failed deletion     *)
(* puts back, and in memory, only grows in this order, but for changes     *)
(* that left the chat in memory.                                           *)

Within(s, t, d) == s.edits \subseteq t.edits \cup d
Saves(r, c) == r.kind \in Writes /\ Carries(r, c)

\* A transaction that carries the chat holds what comes before it
Follows(c, st, q, d) ==
  \A i \in 1..Len(q) : Carries(q[i], c) =>
    /\ st[c] # None => Within(st[c], q[i].session, d)
    /\ \A j \in 1..Len(q) : j < i /\ Saves(q[j], c) => Within(q[j].session, q[i].session, d)

\* ... and so does the chat in memory
Leads(c, st, q, cur, d) ==
  cur # None /\ cur.chat = c =>
    /\ st[c] # None => Within(st[c], cur, d)
    /\ \A i \in 1..Len(q) : Saves(q[i], c) => Within(q[i].session, cur, d)

OrderPart ==
  \A c \in Chats : Follows(c, store, queue, dropped) /\ Leads(c, store, queue, current, dropped)

\* A request of the open chat, or one that carries none; the new chat it begins
\* has an identity of its own
OfOpen(r) ==
  /\ r.session # None => Shows(r.session.chat) /\ r.session.edits = current.edits
  /\ r.goal # None /\ r.goal.fresh => r.goal.chat \notin seen

WritesHead == queue[1].kind \in Writes /\ Stored(queue[1].session)
Erases == \E c \in deleted' : store' = [store EXCEPT ![c] = None]

\* What a step does to the store and the queue
Moves ==
  \/ store' = store /\ (QueueKept \/ QueuePopped \/ queue' = <<>>)
  \/ store' = store /\ \E r : OfOpen(r) /\ QueueGrown(r)
  \/ WritesHead /\ (QueuePopped \/ \E r : r.session = None /\ r.goal = None /\ QueueMoved(r))
  \/ Erases /\ QueuePopped

\* The chat that setCurrentSession shows holds what was stored of it
Turned(s) ==
  /\ Like(current', s)
  /\ dropped' = dropped \cup (Known(s.chat) \ s.edits)
  /\ QueueKept \/ QueuePopped
  /\ store'[s.chat] # None => Within(store'[s.chat], s, dropped')

\* ... and what it does to the chat in memory
Turns ==
  \/ UNCHANGED <<current, dropped>>
  \/ current' = None /\ UNCHANGED dropped
  \/ \E s \in Sessions : Turned(s)

LEMMA SameSaves ==
    ASSUME NEW r, NEW t, SameButLive(r, t), NEW c
    PROVE  /\ r.session = t.session
           /\ Carries(r, c) <=> Carries(t, c)
           /\ Saves(r, c) <=> Saves(t, c)
BY DEF SameButLive, Carries, Saves

LEMMA WithinChain ==
    ASSUME NEW s, NEW t, NEW u, NEW d
    PROVE  /\ Within(s, t, d) /\ Within(t, u, d) => Within(s, u, d)
           /\ Within(s, s, d)
BY DEF Within

LEMMA KeptOrder ==
    ASSUME NEW c, Follows(c, store, queue, dropped), Leads(c, store, queue, current, dropped),
           QueueKept
    PROVE  Follows(c, store, queue', dropped) /\ Leads(c, store, queue', current, dropped)
<1>1. /\ Len(queue') = Len(queue)
      /\ \A i \in 1..Len(queue) : /\ queue'[i].session = queue[i].session
                                  /\ Carries(queue'[i], c) <=> Carries(queue[i], c)
                                  /\ Saves(queue'[i], c) <=> Saves(queue[i], c)
  BY SameSaves DEF QueueKept
<1>2. QED
  BY <1>1 DEF Follows, Leads

LEMMA PoppedOrder ==
    ASSUME NEW c, Follows(c, store, queue, dropped), Leads(c, store, queue, current, dropped),
           queue \in Seq(Requests), QueuePopped
    PROVE  Follows(c, store, queue', dropped) /\ Leads(c, store, queue', current, dropped)
<1>1. \A i \in 1..Len(queue') : i + 1 \in 1..Len(queue) /\ i \in Nat
  BY DEF QueuePopped
<1>2. \A i \in 1..Len(queue') : /\ queue'[i].session = queue[i + 1].session
                                /\ Carries(queue'[i], c) <=> Carries(queue[i + 1], c)
                                /\ Saves(queue'[i], c) <=> Saves(queue[i + 1], c)
  BY SameSaves DEF QueuePopped
<1>3. ASSUME NEW i \in 1..Len(queue'), Carries(queue'[i], c)
      PROVE  /\ store[c] # None => Within(store[c], queue'[i].session, dropped)
             /\ \A j \in 1..Len(queue') : j < i /\ Saves(queue'[j], c) =>
                  Within(queue'[j].session, queue'[i].session, dropped)
  <2>1. Carries(queue[i + 1], c) /\ i + 1 \in 1..Len(queue)
    BY <1>1, <1>2, <1>3
  <2>2. \A j \in 1..Len(queue') : j < i /\ Saves(queue'[j], c) =>
          j + 1 \in 1..Len(queue) /\ j + 1 < i + 1 /\ Saves(queue[j + 1], c)
    BY <1>1, <1>2
  <2>3. QED
    BY <1>2, <2>1, <2>2 DEF Follows
<1>4. QED
  BY <1>1, <1>2, <1>3 DEF Follows, Leads

\* What the transaction at the head writes, the ones behind it hold
LEMMA WrittenOrder ==
    ASSUME NEW c \in Chats, Follows(c, store, queue, dropped),
           Leads(c, store, queue, current, dropped),
           StorePart, queue \in Seq(Requests), queue # <<>>, WritesHead, queue[1].session # None,
           NEW q, Len(q) \in Nat,
           \A i \in 1..Len(q) :
             \/ q[i].session = None
             \/ i + 1 \in 1..Len(queue) /\ SameButLive(q[i], queue[i + 1])
    PROVE  Follows(c, store', q, dropped) /\ Leads(c, store', q, current, dropped)
<1>1. 1 \in 1..Len(queue)
  OBVIOUS
<1>2. \A i \in 1..Len(q) :
        \/ ~Carries(q[i], c) /\ ~Saves(q[i], c)
        \/ /\ i + 1 \in 1..Len(queue) /\ 1 < i + 1
           /\ q[i].session = queue[i + 1].session
           /\ Carries(q[i], c) <=> Carries(queue[i + 1], c)
           /\ Saves(q[i], c) <=> Saves(queue[i + 1], c)
  <2> TAKE i \in 1..Len(q)
  <2>1. CASE q[i].session = None
    BY <2>1 DEF Carries, Saves
  <2>2. CASE i + 1 \in 1..Len(queue) /\ SameButLive(q[i], queue[i + 1])
    BY <2>2, SameSaves
  <2>3. QED
    BY <2>1, <2>2
<1>3. \/ store'[c] = store[c]
      \/ Saves(queue[1], c) /\ store'[c] = queue[1].session
  <2>1. CASE Carries(queue[1], c)
    BY <2>1 DEF WritesHead, Stored, StorePart, Saves, Carries
  <2>2. CASE ~Carries(queue[1], c)
    BY <2>2 DEF WritesHead, Stored, StorePart, Carries
  <2>3. QED
    BY <2>1, <2>2
<1>4. Follows(c, store', q, dropped)
  <2> SUFFICES ASSUME NEW i \in 1..Len(q), Carries(q[i], c)
               PROVE  /\ store'[c] # None => Within(store'[c], q[i].session, dropped)
                      /\ \A j \in 1..Len(q) : j < i /\ Saves(q[j], c) =>
                           Within(q[j].session, q[i].session, dropped)
    BY DEF Follows
  <2>1. /\ i + 1 \in 1..Len(queue) /\ 1 < i + 1 /\ Carries(queue[i + 1], c)
        /\ q[i].session = queue[i + 1].session
    BY <1>2
  <2>2. store'[c] # None => Within(store'[c], q[i].session, dropped)
    BY <1>1, <1>3, <2>1 DEF Follows
  <2>3. \A j \in 1..Len(q) : j < i /\ Saves(q[j], c) =>
          /\ j + 1 \in 1..Len(queue) /\ j + 1 < i + 1 /\ Saves(queue[j + 1], c)
          /\ q[j].session = queue[j + 1].session
    BY <1>2 DEF Saves
  <2>4. QED
    BY <2>1, <2>2, <2>3 DEF Follows
<1>5. Leads(c, store', q, current, dropped)
  BY <1>1, <1>2, <1>3 DEF Leads, Saves
<1>6. QED
  BY <1>4, <1>5

LEMMA GrownOrder ==
    ASSUME NEW c, Follows(c, store, queue, dropped), Leads(c, store, queue, current, dropped),
           queue \in Seq(Requests), NEW r, OfOpen(r), QueueGrown(r)
    PROVE  Follows(c, store, queue', dropped) /\ Leads(c, store, queue', current, dropped)
<1> DEFINE n == Len(queue) + 1
<1>1. /\ Len(queue) \in Nat /\ Len(queue') = n /\ queue'[n] = r
      /\ 1..n = 1..Len(queue) \cup {n} /\ \A i \in 1..Len(queue) : i < n /\ ~(n < i)
      /\ \A i \in 1..Len(queue) : /\ queue'[i].session = queue[i].session
                                  /\ Carries(queue'[i], c) <=> Carries(queue[i], c)
                                  /\ Saves(queue'[i], c) <=> Saves(queue[i], c)
  <2>1. \A i \in 1..Len(queue) : SameButLive(queue'[i], queue[i])
    BY DEF QueueGrown
  <2>2. /\ Len(queue) \in Nat /\ Len(queue') = n /\ queue'[n] = r
        /\ 1..n = 1..Len(queue) \cup {n} /\ \A i \in 1..Len(queue) : i < n /\ ~(n < i)
    BY DEF QueueGrown
  <2>3. QED
    BY <2>1, <2>2, SameSaves
<1> HIDE DEF n
<1>2. Carries(r, c) => Shows(c) /\ r.session.edits = current.edits
  BY DEF OfOpen, Carries
<1>3. Follows(c, store, queue', dropped)
  <2> SUFFICES ASSUME NEW i \in 1..n, Carries(queue'[i], c)
               PROVE  /\ store[c] # None => Within(store[c], queue'[i].session, dropped)
                      /\ \A j \in 1..n : j < i /\ Saves(queue'[j], c) =>
                           Within(queue'[j].session, queue'[i].session, dropped)
    BY <1>1 DEF Follows
  <2>1. CASE i \in 1..Len(queue)
    <3>1. \A j \in 1..n : j < i => j \in 1..Len(queue)
      BY <1>1, <2>1
    <3>2. QED
      BY <1>1, <2>1, <3>1 DEF Follows
  <2>2. CASE i = n
    <3>1. Shows(c) /\ queue'[n].session.edits = current.edits
      BY <1>1, <1>2, <2>2
    <3>2. \A j \in 1..n : j < n => j \in 1..Len(queue)
      BY <1>1
    <3>3. QED
      BY <1>1, <2>2, <3>1, <3>2 DEF Leads, Shows, Within
  <2>3. QED
    BY <1>1, <2>1, <2>2
<1>4. Leads(c, store, queue', current, dropped)
  <2> SUFFICES ASSUME Shows(c), NEW i \in 1..n, Saves(queue'[i], c)
               PROVE  Within(queue'[i].session, current, dropped)
    BY <1>1 DEF Leads, Shows
  <2>1. CASE i \in 1..Len(queue)
    BY <1>1, <2>1 DEF Leads, Shows
  <2>2. CASE i = n
    BY <1>1, <1>2, <2>2 DEF Saves, Within
  <2>3. QED
    BY <1>1, <2>1, <2>2
<1>5. QED
  BY <1>3, <1>4

LEMMA MovesOrder ==
    ASSUME Inv, Moves, NEW c \in Chats, Follows(c, store, queue, dropped),
           Leads(c, store, queue, current, dropped)
    PROVE  Follows(c, store', queue', dropped) /\ Leads(c, store', queue', current, dropped)
<1>1. queue \in Seq(Requests) /\ StorePart
  BY QueueSeq DEF Inv
<1>2. CASE store' = store /\ (QueueKept \/ QueuePopped)
  BY <1>1, <1>2, KeptOrder, PoppedOrder
<1>3. CASE store' = store /\ queue' = <<>>
  <2>1. 1..Len(queue') = {}
    BY <1>3
  <2>2. QED
    BY <1>3, <2>1 DEF Follows, Leads
<1>4. CASE store' = store /\ \E r : OfOpen(r) /\ QueueGrown(r)
  <2>1. PICK r : OfOpen(r) /\ QueueGrown(r)
    BY <1>4, Zenon
  <2>2. QED
    BY <1>1, <1>4, <2>1, GrownOrder
<1>5. CASE WritesHead /\ (QueuePopped \/ \E r : r.session = None /\ r.goal = None /\ QueueMoved(r))
  <2>1. queue # <<>> /\ 1 \in 1..Len(queue)
    <3>1. queue # <<>>
      BY <1>5, Zenon DEF QueuePopped, QueueMoved
    <3>2. QED
      BY <1>1, <3>1
  <2>2. queue[1].session # None
    BY <1>5, <2>1 DEF WritesHead, Inv, QueuePart, Proper
  <2>3. /\ Len(queue') \in Nat
        /\ \A i \in 1..Len(queue') :
             \/ queue'[i].session = None
             \/ i + 1 \in 1..Len(queue) /\ SameButLive(queue'[i], queue[i + 1])
    <3>1. CASE QueuePopped
      BY <1>1, <3>1 DEF QueuePopped
    <3>2. CASE \E r : r.session = None /\ r.goal = None /\ QueueMoved(r)
      <4>1. PICK r : r.session = None /\ r.goal = None /\ QueueMoved(r)
        BY <3>2, Zenon
      <4>2. QED
        BY <1>1, <4>1 DEF QueueMoved
    <3>3. QED
      BY <1>5, <3>1, <3>2
  <2>4. QED
    BY <1>1, <1>5, <2>1, <2>2, <2>3, WrittenOrder
<1>6. CASE Erases /\ QueuePopped
  <2>1. Follows(c, store, queue', dropped) /\ Leads(c, store, queue', current, dropped)
    BY <1>1, <1>6, PoppedOrder
  <2>2. store'[c] = None \/ store'[c] = store[c]
    BY <1>1, <1>6 DEF Erases, StorePart
  <2>3. QED
    BY <2>1, <2>2 DEF Follows, Leads
<1>7. QED
  BY <1>2, <1>3, <1>4, <1>5, <1>6 DEF Moves

LEMMA KnownSaves ==
    ASSUME Inv, NEW i \in 1..Len(queue), NEW c, Saves(queue[i], c)
    PROVE  queue[i].session.edits \subseteq Known(c)
<1>1. queue[i].chat = c /\ i \in DOMAIN queue
  BY DEF Inv, QueuePart, Proper, Saves, Carries
<1>2. QED
  BY <1>1 DEF Known, Saves, Writes

LEMMA TurnsOrder ==
    ASSUME Inv, Turns, NEW c \in Chats, Follows(c, store', queue', dropped),
           Leads(c, store', queue', current, dropped)
    PROVE  Follows(c, store', queue', dropped') /\ Leads(c, store', queue', current', dropped')
<1>1. CASE UNCHANGED <<current, dropped>>
  BY <1>1
<1>2. CASE current' = None /\ UNCHANGED dropped
  BY <1>2 DEF Leads
<1>3. ASSUME NEW s \in Sessions, Turned(s)
      PROVE  Follows(c, store', queue', dropped') /\ Leads(c, store', queue', current', dropped')
  <2>1. dropped \subseteq dropped'
    BY <1>3 DEF Turned
  <2>2. Follows(c, store', queue', dropped')
    BY <2>1 DEF Follows, Within
  <2>3. Leads(c, store', queue', current', dropped')
    <3> SUFFICES ASSUME current' # None, current'.chat = c
                 PROVE  /\ store'[c] # None => Within(store'[c], current', dropped')
                        /\ \A i \in 1..Len(queue') : Saves(queue'[i], c) =>
                             Within(queue'[i].session, current', dropped')
      BY DEF Leads
    <3>1. s.chat = c /\ current'.edits = s.edits
      BY <1>3, NoneAssumption DEF Turned, Like
    <3>2. ASSUME NEW i \in 1..Len(queue'), Saves(queue'[i], c)
          PROVE  Within(queue'[i].session, current', dropped')
      <4>1. PICK j \in 1..Len(queue) : SameButLive(queue'[i], queue[j])
        BY <1>3, QueueSeq DEF Turned, QueueKept, QueuePopped
      <4>2. queue'[i].session.edits \subseteq Known(c)
        BY <3>2, <4>1, SameSaves, KnownSaves
      <4>3. QED
        BY <1>3, <3>1, <4>2 DEF Turned, Within
    <3>3. QED
      BY <1>3, <3>1, <3>2 DEF Turned, Within
  <2>4. QED
    BY <2>2, <2>3
<1>4. QED
  BY <1>1, <1>2, <1>3 DEF Turns

\* A step of these keeps the order
LEMMA OrderKept ==
    ASSUME Inv, OrderPart, Moves, Turns
    PROVE  OrderPart'
<1> SUFFICES ASSUME NEW c \in Chats
             PROVE  /\ Follows(c, store', queue', dropped')
                    /\ Leads(c, store', queue', current', dropped')
  BY DEF OrderPart, Follows, Leads, Carries, Saves, Within, Writes
<1>1. QED
  BY MovesOrder, TurnsOrder DEF OrderPart

\* A chat that is stored stays stored and loses nothing, or is deleted
LEMMA StoreGrows ==
    ASSUME Inv, OrderPart, Moves, NEW c \in Chats, store[c] # None
    PROVE  \/ store'[c] # None /\ Within(store[c], store'[c], dropped)
           \/ store'[c] = None /\ c \in deleted'
<1>1. CASE store' = store
  BY <1>1, WithinChain
<1>2. CASE Erases
  <2>1. PICK d \in deleted' : store' = [store EXCEPT ![d] = None]
    BY <1>2 DEF Erases
  <2>2. QED
    BY <2>1, WithinChain DEF Inv, StorePart
<1>3. CASE WritesHead /\ (QueuePopped \/ \E r : r.session = None /\ r.goal = None /\ QueueMoved(r))
  <2>1. 1 \in 1..Len(queue)
    <3>1. queue # <<>>
      BY <1>3, Zenon DEF QueuePopped, QueueMoved
    <3>2. QED
      BY <3>1, QueueSeq
  <2>2. queue[1].session # None
    BY <1>3, <2>1 DEF WritesHead, Inv, QueuePart, Proper
  <2>3. CASE queue[1].session.chat = c
    <3>1. store'[c] = queue[1].session
      BY <1>3, <2>3 DEF WritesHead, Stored, Inv, StorePart
    <3>2. Within(store[c], queue[1].session, dropped)
      BY <2>1, <2>2, <2>3 DEF OrderPart, Follows, Carries
    <3>3. QED
      BY <2>2, <3>1, <3>2
  <2>4. CASE queue[1].session.chat # c
    <3>1. store'[c] = store[c]
      BY <1>3, <2>4 DEF WritesHead, Stored, Inv, StorePart
    <3>2. QED
      BY <3>1, WithinChain
  <2>5. QED
    BY <2>3, <2>4
<1>4. QED
  BY <1>1, <1>2, <1>3 DEF Moves

-----------------------------------------------------------------------------
(* A new chat is bare: of one that nobody has shown yet nothing is stored, *)
(* nothing on its way and nothing shown.                                   *)

StartPart ==
  \A c \in exposed : c \in seen /\ \A i \in 1..Len(queue) : ~Begins(queue[i], c)

\* The chats a step exposes are there
Exposes ==
  /\ seen \subseteq seen' /\ deleted \subseteq deleted'
  /\ \A c \in exposed' : \/ c \in exposed \/ store[c] # None \/ Shows(c)
                         \/ \E i \in 1..Len(queue) : Carries(queue[i], c)

LEMMA NewIsBare ==
    ASSUME Inv, DeletedPart, StartPart, NEW c \in Chats,
           c \notin seen \/ \E i \in 1..Len(queue) : Begins(queue[i], c)
    PROVE  store[c] = None /\ ~Shows(c) /\ \A i \in 1..Len(queue) : ~Carries(queue[i], c)
<1>1. c \notin exposed
  BY DEF StartPart
<1>2. QED
  BY <1>1 DEF DeletedPart, Fine

\* What begins a chat after a step began it before, or begins a new one
LEMMA MovesStart ==
    ASSUME Inv, Moves, NEW c, NEW i \in 1..Len(queue'), Begins(queue'[i], c)
    PROVE  c \notin seen \/ \E j \in 1..Len(queue) : Begins(queue[j], c)
<1>1. CASE QueueKept
  BY <1>1, SameMeaning DEF QueueKept
<1>2. CASE QueuePopped
  <2>1. i + 1 \in 1..Len(queue) /\ SameButLive(queue'[i], queue[i + 1])
    BY <1>2, QueueSeq DEF QueuePopped
  <2>2. QED
    BY <2>1, SameMeaning
<1>3. CASE queue' = <<>>
  BY <1>3
<1>4. ASSUME NEW r, OfOpen(r), QueueGrown(r)
      PROVE  c \notin seen \/ \E j \in 1..Len(queue) : Begins(queue[j], c)
  <2>1. CASE i \in 1..Len(queue)
    BY <1>4, <2>1, SameMeaning DEF QueueGrown
  <2>2. CASE i \notin 1..Len(queue)
    <3>1. queue'[i] = r
      BY <1>4, <2>2, QueueSeq DEF QueueGrown
    <3>2. QED
      BY <1>4, <3>1 DEF OfOpen, Begins
  <2>3. QED
    BY <2>1, <2>2
<1>5. ASSUME NEW r, r.goal = None, QueueMoved(r)
      PROVE  c \notin seen \/ \E j \in 1..Len(queue) : Begins(queue[j], c)
  <2>1. CASE i \in 1..(Len(queue) - 1)
    <3>1. i + 1 \in 1..Len(queue) /\ SameButLive(queue'[i], queue[i + 1])
      BY <1>5, <2>1, QueueSeq DEF QueueMoved
    <3>2. QED
      BY <3>1, SameMeaning
  <2>2. CASE i \notin 1..(Len(queue) - 1)
    <3>1. queue'[i] = r
      BY <1>5, <2>2, QueueSeq DEF QueueMoved
    <3>2. QED
      BY <1>5, <3>1 DEF Begins
  <2>3. QED
    BY <2>1, <2>2
<1>6. QED
  BY <1>1, <1>2, <1>3, <1>4, <1>5, Zenon DEF Moves

LEMMA StartKept ==
    ASSUME Inv, Inv', DeletedPart, StartPart, Moves, Exposes
    PROVE  StartPart'
<1> SUFFICES ASSUME NEW c \in exposed'
             PROVE  c \in seen' /\ \A i \in 1..Len(queue') : ~Begins(queue'[i], c)
  BY DEF StartPart, Begins
<1>1. c \in Chats
  BY DEF Inv, CountPart
<1>2. c \in seen /\ \A i \in 1..Len(queue) : ~Begins(queue[i], c)
  <2>1. CASE c \in exposed
    BY <2>1 DEF StartPart
  <2>2. CASE c \notin exposed
    BY <1>1, <2>2 DEF Exposes, DeletedPart, Fine
  <2>3. QED
    BY <2>1, <2>2
<1>3. QED
  BY <1>2, MovesStart DEF Exposes

-----------------------------------------------------------------------------
(* Every step is one of these                                              *)

Orderly == Moves /\ Turns /\ Exposes
Ground == Inv /\ HistoryPart /\ OrderPart /\ StartPart

\* The requests a step makes of the open chat, or of none
LEMMA RequestsOfOpen ==
    ASSUME Inv, current # None, NEW s \in Sessions,
           s.chat = current.chat, s.edits = current.edits
    PROVE  /\ OfOpen(Autosave(s)) /\ OfOpen(Farewell(s)) /\ OfOpen(NoteSave(s))
           /\ \A c, by : OfOpen(Delete(c, by, s))
           /\ \A goal : (goal # None /\ goal.fresh => goal.chat \notin seen) =>
                OfOpen(Flush(s, goal))
BY DEF OfOpen, Autosave, Farewell, NoteSave, Delete, Flush, Request, Shows

LEMMA RequestsOfNone ==
    ASSUME NEW c, NEW by
    PROVE  OfOpen(Load(c, by)) /\ OfOpen(Delete(c, by, None))
BY DEF OfOpen, Load, Delete, Request

\* setCurrentSession
LEMMA ShowTurns ==
    ASSUME Inv, NEW p, GoodPanel(p), NEW s \in Sessions, Show(p, s), QueueKept \/ QueuePopped,
           store'[s.chat] # None => Within(store'[s.chat], s, dropped')
    PROVE  Turns
<1>1. s # None
  BY NoneAssumption
<1>2. Turned(s)
  BY <1>1, ShowType DEF Turned, Show
<1>3. QED
  BY <1>2 DEF Turns

LEMMA ShowNoneTurns ==
    ASSUME Inv, NEW p, GoodPanel(p), Show(p, None)
    PROVE  Turns
BY ShowType DEF Turns, Show, Like

LEMMA PanelGood == Inv => GoodPanel(panel) /\ GoodPanel(IF panel.open THEN panel ELSE Fresh)
BY FreshType DEF Inv, PanelPart

LEMMA EditMoves ==
    ASSUME Ground, Edit
    PROVE  Orderly
<1> DEFINE s == [current EXCEPT !.edits = @ \cup {made'}]
<1>1. made' \in 0..MaxEdits
  BY ChatsAssumption DEF Ground, Inv, CountPart, Edit
<1>2. /\ s \in Sessions /\ s.chat = current.chat /\ current.edits \subseteq s.edits
      /\ current # None /\ current.chat \in Chats
  BY <1>1, CurrentType DEF Edit, Sessions, Ground
<1>3. QueueKept
  BY UnchangedQueue, QueueSeq DEF Edit, Ground
<1>4. Show(panel, s) /\ store' = store /\ dropped \subseteq dropped'
  BY DEF Edit, Show
<1> HIDE DEF s
<1>5. store[s.chat] # None => Within(store[s.chat], s, dropped')
  BY <1>2, <1>4 DEF Ground, OrderPart, Leads, Within
<1>6. Turns
  BY <1>2, <1>3, <1>4, <1>5, ShowTurns, PanelGood DEF Ground
<1>7. QED
  BY <1>3, <1>4, <1>6 DEF Orderly, Moves, Exposes, Edit, history

\* A step that only looks at the panel, or at the note
LEMMA QuietMoves ==
    ASSUME Inv, UNCHANGED <<store, queue, current, dropped, history>>
    PROVE  Orderly
BY UnchangedQueue, QueueSeq DEF Orderly, Moves, Turns, Exposes, history

\* A step that appends a transaction and leaves the chat in memory alone
LEMMA GrownMoves ==
    ASSUME NEW r, OfOpen(r), QueueGrown(r), UNCHANGED <<store, current, dropped>>, Exposes
    PROVE  Orderly
BY DEF Orderly, Moves, Turns

LEMMA TimerMoves ==
    ASSUME Inv, TimerFires
    PROVE  Orderly
<1>1. panel.timer \in Sessions /\ panel.timer = current /\ current # None
  BY CurrentType DEF Inv, PanelPart, TimerFires
<1>2. QueueGrown(Autosave(panel.timer))
  BY <1>1, SaveTypes, GrownQueue, QueueSeq DEF TimerFires
<1>3. QED
  BY <1>1, <1>2, RequestsOfOpen, GrownMoves DEF TimerFires, Exposes, history

LEMMA LeaveMoves ==
    ASSUME Inv, NEW goal \in Goals, Leave(goal), store' = store, Exposes,
           goal.fresh => goal.chat \notin seen /\ store[goal.chat] = None
    PROVE  Orderly
<1>1. goal.chat \in Chats
  BY DEF Goals
<1>2. CASE goal.fresh /\ (current = None \/ panel.saved[current.chat] = current)
  <2>1. QueueKept
    BY <1>2, KeptQueue, QueueSeq DEF Leave
  <2>2. ShowOpen(Empty(goal.chat))
    BY <1>2 DEF Leave
  <2>3. Turns
    BY <1>1, <1>2, <2>1, <2>2, EmptyType, ShowTurns, PanelGood DEF ShowOpen
  <2>4. QED
    BY <2>1, <2>3 DEF Orderly, Moves
<1>3. CASE ~goal.fresh /\ (current = None \/ panel.saved[current.chat] = current)
  <2>1. Load(goal.chat, "panel") \in Requests
    BY <1>1, LoadType DEF Askers
  <2>2. QueueGrown(Load(goal.chat, "panel"))
    BY <1>3, <2>1, GrownQueue, QueueSeq DEF Leave
  <2>3. QED
    BY <1>3, <2>2, RequestsOfNone, GrownMoves DEF Leave
<1>4. CASE ~(current = None \/ panel.saved[current.chat] = current)
  <2>1. current \in Sessions
    BY <1>4, CurrentType
  <2>2. QueueGrown(Flush(current, goal))
    BY <1>4, <2>1, FlushType, GrownQueue, QueueSeq DEF Leave
  <2>3. QED
    BY <1>4, <2>1, <2>2, RequestsOfOpen, GrownMoves DEF Leave
<1>5. QED
  BY <1>2, <1>3, <1>4

LEMMA InPanelMoves ==
    ASSUME Ground, NEW c \in Chats, NewInPanel(c) \/ OpenInPanel(c)
    PROVE  Orderly
<1> DEFINE fresh == [chat |-> c, fresh |-> TRUE]
           listed == [chat |-> c, fresh |-> FALSE]
<1>1. fresh \in Goals /\ listed \in Goals
  BY DEF Goals
<1>2. CASE NewInPanel(c)
  <2>1. c \notin seen /\ store[c] = None
    BY <1>2, NewIsBare DEF NewInPanel, Unseen, Ground, HistoryPart
  <2>2. Leave(fresh) /\ store' = store /\ Exposes
    BY <1>2 DEF NewInPanel, Exposes
  <2>3. QED
    BY <1>1, <2>1, <2>2, LeaveMoves DEF Ground
<1>3. CASE OpenInPanel(c)
  <2>1. Leave(listed) /\ store' = store /\ Exposes
    BY <1>3 DEF OpenInPanel, Exposes, history
  <2>2. QED
    BY <1>1, <2>1, LeaveMoves DEF Ground
<1>4. QED
  BY <1>2, <1>3

LEMMA DeleteInPanelMoves ==
    ASSUME Inv, NEW c \in Chats, DeleteInPanel(c)
    PROVE  Orderly
<1>1. QueueGrown(Delete(c, "panel", None))
  BY DeleteType, GrownQueue, QueueSeq DEF DeleteInPanel, Askers
<1>2. Exposes
  BY DEF DeleteInPanel, Exposes, Shows
<1>3. QED
  BY <1>1, <1>2, RequestsOfNone, GrownMoves DEF DeleteInPanel

LEMMA NewInPageMoves ==
    ASSUME Ground, NEW c \in Chats, NewInPage(c)
    PROVE  Orderly
<1>1. store'[c] = None
  BY NewIsBare DEF NewInPage, Unseen, Ground, HistoryPart
<1>2. QueueKept
  BY UnchangedQueue, QueueSeq DEF NewInPage, Ground
<1>3. Turns
  BY <1>1, <1>2, EmptyType, ShowTurns, PanelGood DEF NewInPage, ShowOpen, Ground
<1>4. QED
  BY <1>2, <1>3 DEF Orderly, Moves, Exposes, NewInPage

LEMMA OpenInPageMoves ==
    ASSUME Inv, NEW c \in Chats, OpenInPage(c)
    PROVE  Orderly
<1>1. QueueGrown(Load(c, "page"))
  BY LoadType, GrownQueue, QueueSeq DEF OpenInPage, Askers
<1>2. QED
  BY <1>1, RequestsOfNone, GrownMoves DEF OpenInPage, Exposes, history

LEMMA DeleteInPageMoves ==
    ASSUME Inv, NEW c \in Chats, DeleteInPage(c)
    PROVE  Orderly
<1>1. Closes(c) \in Sessions \cup {None} /\ (Closes(c) # None => Closes(c).chat = c)
  BY DEF Closes, Inv, CurrentPart
<1>2. QueueGrown(Delete(c, "page", Closes(c)))
  BY <1>1, DeleteType, GrownQueue, QueueSeq DEF DeleteInPage, Closes, Askers
<1>3. OfOpen(Delete(c, "page", Closes(c)))
  BY <1>1, RequestsOfOpen, RequestsOfNone DEF Closes
<1>4. Turns
  BY ShowNoneTurns, PanelGood DEF DeleteInPage, Turns
<1>5. QED
  BY <1>2, <1>3, <1>4 DEF Orderly, Moves, Exposes, DeleteInPage, history

LEMMA CleanupMoves ==
    ASSUME Inv, NEW all \in BOOLEAN, Cleanup(all)
    PROVE  Orderly
<1>1. Turns /\ Exposes /\ store' = store
  BY DEF Cleanup, Turns, Exposes, history
<1>2. CASE current = None
  <2>1. QueueKept
    BY <1>2, KeptQueue, QueueSeq DEF Cleanup
  <2>2. QED
    BY <1>1, <2>1 DEF Orderly, Moves
<1>3. CASE current # None
  <2>1. current \in Sessions
    BY <1>3, CurrentType
  <2>2. QueueGrown(Farewell(current))
    BY <1>3, <2>1, SaveTypes, GrownQueue, QueueSeq DEF Cleanup
  <2>3. QED
    BY <1>1, <1>3, <2>1, <2>2, RequestsOfOpen DEF Orderly, Moves
<1>4. QED
  BY <1>2, <1>3

LEMMA ReloadMoves ==
    ASSUME Reload
    PROVE  Orderly
BY DEF Reload, Orderly, Moves, Turns, Exposes, history

LEMMA HeadEnds ==
    ASSUME Inv, queue # <<>>, queue' \in {Tail(queue), Cancelled(Tail(queue))}
    PROVE  QueuePopped /\ Head(queue) = queue[1] /\ 1 \in 1..Len(queue)
BY PoppedQueue, QueueSeq

LEMMA StoreSaveMoves ==
    ASSUME Inv, StoreAutosave \/ StoreFarewell
    PROVE  Orderly
<1>1. QueuePopped /\ WritesHead
  BY HeadEnds DEF StoreAutosave, StoreFarewell, Ending, WritesHead, Writes
<1>2. Turns /\ Exposes
  BY DEF StoreAutosave, StoreFarewell, Turns, Exposes, history
<1>3. QED
  BY <1>1, <1>2 DEF Orderly, Moves

LEMMA FailMoves ==
    ASSUME Inv, FailAutosave \/ FailOther
    PROVE  Orderly
<1>1. queue # <<>> /\ queue' = Tail(queue) /\ UNCHANGED <<store, current, dropped, history>>
  BY Zenon DEF FailAutosave, FailOther, Ending
<1>2. QueuePopped
  BY <1>1, HeadEnds
<1>3. QED
  BY <1>1, <1>2 DEF Orderly, Moves, Turns, Exposes, history

LEMMA StoreFlushMoves ==
    ASSUME Ground, StoreFlush
    PROVE  Orderly
<1> DEFINE r == Head(queue)
           p == IF r.live THEN Remembered(panel, r.session) ELSE panel
           g == r.goal.chat
<1>1. /\ r.session \in Sessions /\ r \in Requests /\ r.goal \in Goals /\ g \in Chats
      /\ r.kind = "flush" /\ r.goal # None /\ r = queue[1] /\ 1 \in 1..Len(queue)
  BY HeadWrites, HeadType
     DEF StoreFlush, Ending, Writes, Ground, Inv, Proper, Requests, Goals
<1>2. WritesHead /\ Exposes
  BY <1>1 DEF StoreFlush, WritesHead, Writes, Exposes, history
<1>3. CASE r.goal.fresh
  <2>1. QueuePopped
    BY <1>3, HeadEnds DEF StoreFlush, Ending, Ground
  <2>2. store[g] = None /\ r.session.chat # g
    <3>1. Begins(queue[1], g)
      BY <1>1, <1>3 DEF Begins
    <3>2. store[g] = None /\ ~Carries(queue[1], g)
      BY <1>1, <3>1, NewIsBare DEF Ground, HistoryPart
    <3>3. QED
      BY <1>1, <3>2, NoneAssumption DEF Carries
  <2>3. store'[g] = None
    BY <1>1, <2>2 DEF StoreFlush, Stored, Ground, Inv, StorePart
  <2>4. GoodPanel(p)
    BY <1>1, RememberedType DEF Ground, Inv, PanelPart
  <2>5. Show(IF p.open THEN p ELSE Fresh, Empty(g)) /\ GoodPanel(IF p.open THEN p ELSE Fresh)
    BY <1>3, <2>4, FreshType DEF StoreFlush
  <2> HIDE DEF p, r, g
  <2>6. Turns
    BY <1>1, <2>1, <2>3, <2>5, EmptyType, ShowTurns DEF Ground
  <2>7. QED
    BY <1>2, <2>1, <2>6 DEF Orderly, Moves
<1>4. CASE ~r.goal.fresh
  <2>1. /\ Load(g, "panel") \in Requests
        /\ Load(g, "panel").session = None /\ Load(g, "panel").goal = None
    BY <1>1, LoadType DEF Askers, Load, Request
  <2>2. QueueMoved(Load(g, "panel"))
    BY <1>4, <2>1, MovedQueue, QueueSeq DEF StoreFlush, Ending, Ground
  <2>3. Turns
    BY <1>4 DEF StoreFlush, Turns
  <2> HIDE DEF g
  <2>4. QED
    BY <1>2, <2>1, <2>2, <2>3 DEF Orderly, Moves
<1>5. QED
  BY <1>3, <1>4

LEMMA LoadMoves ==
    ASSUME Inv, LoadChat
    PROVE  Orderly
<1> DEFINE r == Head(queue)
           s == store[r.chat]
<1>1. r.chat \in Chats /\ s \in Sessions \cup {None} /\ (s # None => s.chat = r.chat)
  BY HeadType DEF LoadChat, Ending, Inv, Requests, StorePart
<1>2. QueuePopped /\ store' = store
  BY HeadEnds DEF LoadChat, Ending
<1>3. CASE r.live /\ s # None
  <2>1. ShowOpen(s)
    BY <1>3 DEF LoadChat
  <2>2. store'[s.chat] = s
    BY <1>1, <1>2, <1>3
  <2>3. Exposes
    BY <1>1, <1>3 DEF LoadChat, Exposes
  <2> HIDE DEF s
  <2>4. Turns
    BY <1>1, <1>2, <1>3, <2>1, <2>2, ShowTurns, PanelGood, WithinChain DEF ShowOpen
  <2>5. QED
    BY <1>2, <2>3, <2>4 DEF Orderly, Moves
<1>4. CASE ~(r.live /\ s # None)
  BY <1>2, <1>4 DEF LoadChat, Orderly, Moves, Turns, Exposes
<1>5. QED
  BY <1>3, <1>4

LEMMA DeleteMoves ==
    ASSUME Inv, DeleteChat
    PROVE  Orderly
<1>1. QueuePopped
  BY HeadEnds DEF DeleteChat, Ending
<1>2. Erases /\ Exposes
  BY DEF DeleteChat, Erases, Exposes
<1>3. Turns
  BY ShowNoneTurns, PanelGood DEF DeleteChat, Turns
<1>4. QED
  BY <1>1, <1>2, <1>3 DEF Orderly, Moves

LEMMA FailDeleteInPageMoves ==
    ASSUME Ground, FailDeleteInPage
    PROVE  Orderly
<1> DEFINE back == Head(queue).session
<1>1. back \in Sessions \cup {None} /\ (back # None => back.chat \in Chats)
  BY HeadType DEF FailDeleteInPage, Ending, Ground, Inv, Requests, Sessions
<1>2. QueuePopped /\ Head(queue) = queue[1] /\ 1 \in 1..Len(queue) /\ store' = store
  BY HeadEnds DEF FailDeleteInPage, Ending, Ground
<1>3. CASE back # None
  <2>1. Carries(queue[1], back.chat)
    BY <1>2, <1>3 DEF Carries
  <2>2. store[back.chat] # None => Within(store[back.chat], back, dropped)
    BY <1>1, <1>2, <1>3, <2>1 DEF Ground, OrderPart, Follows
  <2>3. Show(panel, back) /\ GoodPanel(panel) /\ dropped \subseteq dropped'
    BY <1>3, PanelGood DEF FailDeleteInPage, Ground, Show
  <2>4. exposed' \in {exposed, exposed \cup {back.chat}} /\ UNCHANGED <<seen, deleted>>
    BY <1>3 DEF FailDeleteInPage
  <2> HIDE DEF back
  <2>5. store'[back.chat] # None => Within(store'[back.chat], back, dropped')
    BY <1>2, <2>2, <2>3 DEF Within
  <2>6. Turns
    BY <1>1, <1>2, <1>3, <2>3, <2>5, ShowTurns DEF Ground
  <2>7. Exposes
    BY <1>2, <2>1, <2>4 DEF Exposes
  <2>8. QED
    BY <1>2, <2>6, <2>7 DEF Orderly, Moves
<1>4. CASE back = None
  BY <1>2, <1>4 DEF FailDeleteInPage, Orderly, Moves, Turns, Exposes
<1>5. QED
  BY <1>3, <1>4

LEMMA SaveAsNoteMoves ==
    ASSUME Inv, NEW del \in BOOLEAN, SaveAsNote(del)
    PROVE  Orderly
<1> DEFINE s == [current EXCEPT !.note = [del |-> del, status |-> "pending"]]
<1>1. current \in Sessions /\ current # None
  BY CurrentType DEF SaveAsNote
<1>2. s \in Sessions /\ s.chat = current.chat /\ s.edits = current.edits
  BY <1>1 DEF Sessions, Notes, Statuses
<1>3. CASE queue' = queue
  BY <1>3, QuietMoves DEF SaveAsNote
<1>4. CASE queue' = Append(queue, NoteSave(s))
  <2>1. QueueGrown(NoteSave(s)) /\ OfOpen(NoteSave(s))
    BY <1>1, <1>2, <1>4, SaveTypes, GrownQueue, QueueSeq, RequestsOfOpen
  <2>2. QED
    BY <2>1, GrownMoves DEF SaveAsNote, Exposes, history
<1>5. QED
  BY <1>3, <1>4 DEF SaveAsNote

LEMMA StoreNoteMoves ==
    ASSUME Inv, StoreNote
    PROVE  Orderly
<1> DEFINE s == Head(queue).session
<1>1. s \in Sessions /\ s.chat \in Chats
  BY HeadWrites DEF StoreNote, Ending, Writes
<1>2. QueuePopped /\ WritesHead /\ Exposes
  BY HeadEnds DEF StoreNote, Ending, WritesHead, Writes, Exposes, history
<1>3. CASE Owns
  <2>1. store'[s.chat] = s
    BY <1>1 DEF StoreNote, Stored, Inv, StorePart
  <2>2. Turns
    BY <1>1, <1>2, <1>3, <2>1, ShowTurns, PanelGood, WithinChain DEF StoreNote
  <2>3. QED
    BY <1>2, <2>2 DEF Orderly, Moves
<1>4. CASE ~Owns
  BY <1>2, <1>4 DEF StoreNote, Orderly, Moves, Turns
<1>5. QED
  BY <1>3, <1>4

LEMMA AppendNoteMoves ==
    ASSUME Inv, AppendNote
    PROVE  Orderly
<1> DEFINE s == [current EXCEPT !.note = [del |-> noting.del, status |-> NoteStatus]]
<1>1. Exposes
  BY DEF AppendNote, Exposes
<1>2. CASE Owns
  <2>1. current \in Sessions /\ current # None /\ noting.del \in BOOLEAN
    BY <1>2, CurrentType DEF Owns, AppendNote, Inv, NotingPart, Notings
  <2>2. s \in Sessions /\ s.chat = current.chat /\ s.edits = current.edits
    BY <2>1 DEF Sessions, Notes, Statuses, NoteStatus
  <2>3. queue' = Append(queue, NoteSave(s))
    BY <1>2 DEF AppendNote, NoteStatus
  <2>4. QueueGrown(NoteSave(s)) /\ OfOpen(NoteSave(s))
    BY <2>1, <2>2, <2>3, SaveTypes, GrownQueue, QueueSeq, RequestsOfOpen
  <2>5. QED
    BY <1>1, <2>4, GrownMoves DEF AppendNote
<1>3. CASE ~Owns
  <2>1. QueueKept
    BY <1>3, UnchangedQueue, QueueSeq DEF AppendNote
  <2>2. QED
    BY <1>1, <2>1 DEF AppendNote, Orderly, Moves, Turns
<1>4. QED
  BY <1>2, <1>3

LEMMA AfterNoteMoves ==
    ASSUME Inv, AfterNote
    PROVE  Orderly
<1>1. Exposes
  BY DEF AfterNote, Exposes, Owns, Shows
<1>2. CASE Owns /\ noting.del
  <2>1. noting.chat \in Chats
    BY DEF AfterNote, Inv, NotingPart, Notings
  <2>2. QueueGrown(Delete(noting.chat, "note", None))
    BY <1>2, <2>1, DeleteType, GrownQueue, QueueSeq DEF AfterNote, Askers
  <2>3. QED
    BY <1>1, <2>2, RequestsOfNone, GrownMoves DEF AfterNote
<1>3. CASE ~(Owns /\ noting.del)
  <2>1. QueueKept
    BY <1>3, UnchangedQueue, QueueSeq DEF AfterNote
  <2>2. QED
    BY <1>1, <2>1 DEF AfterNote, Orderly, Moves, Turns
<1>4. QED
  BY <1>2, <1>3

LEMMA FailNoteMoves ==
    ASSUME Ground, FailNote
    PROVE  Orderly
<1> DEFINE s == [current EXCEPT !.note.status = "delete-failed"]
<1>1. (QueueKept \/ QueuePopped) /\ store' = store /\ Exposes
  BY UnchangedQueue, HeadEnds, QueueSeq DEF FailNote, Ending, Ground, Exposes
<1>2. CASE UNCHANGED <<current, dropped>>
  BY <1>1, <1>2 DEF Orderly, Moves, Turns
<1>3. CASE current # None /\ current.note # None /\ Show(panel, s)
  <2>1. current \in Sessions /\ current.note \in Notes
    BY <1>3, CurrentType DEF Sessions, Ground
  <2>2. [current.note EXCEPT !.status = "delete-failed"] \in Notes
    BY <2>1 DEF Notes, Statuses
  <2>3. /\ s \in Sessions /\ s.chat = current.chat /\ s.edits = current.edits
        /\ current.chat \in Chats
    BY <2>1, <2>2 DEF Sessions
  <2> HIDE DEF s
  <2>4. dropped \subseteq dropped'
    BY <1>3 DEF Show
  <2>5. store'[s.chat] # None => Within(store'[s.chat], s, dropped')
    BY <1>1, <1>3, <2>3, <2>4 DEF Ground, OrderPart, Leads, Within
  <2>6. Turns
    BY <1>1, <1>3, <2>3, <2>5, ShowTurns, PanelGood DEF Ground
  <2>7. QED
    BY <1>1, <2>6 DEF Orderly, Moves
<1>4. QED
  BY <1>2, <1>3 DEF FailNote

LEMMA NextOrderly == Ground /\ [Next]_vars => Orderly
<1> SUFFICES ASSUME Ground, [Next]_vars PROVE Orderly
  OBVIOUS
<1> USE DEF Ground
<1>1. CASE Edit \/ TimerFires \/ RetryFires \/ RetryStopped
  BY <1>1, EditMoves, TimerMoves, QuietMoves DEF RetryFires, RetryStopped
<1>2. CASE \E c \in Chats : \/ NewInPanel(c) \/ OpenInPanel(c) \/ DeleteInPanel(c)
                            \/ NewInPage(c) \/ OpenInPage(c) \/ DeleteInPage(c)
  BY <1>2, InPanelMoves, DeleteInPanelMoves, NewInPageMoves, OpenInPageMoves, DeleteInPageMoves
<1>3. CASE ClosePanel \/ AccountChanges \/ OpenPanel \/ Reload
  BY <1>3, CleanupMoves, QuietMoves, ReloadMoves DEF ClosePanel, AccountChanges, OpenPanel
<1>4. CASE Transaction
  BY <1>4, StoreSaveMoves, FailMoves, StoreFlushMoves, LoadMoves, DeleteMoves,
     FailDeleteInPageMoves, StoreNoteMoves DEF Transaction
<1>5. CASE \E del \in BOOLEAN : SaveAsNote(del)
  BY <1>5, SaveAsNoteMoves
<1>6. CASE AppendNote \/ AfterNote \/ FailNote \/ Navigate
  BY <1>6, AppendNoteMoves, AfterNoteMoves, FailNoteMoves, QuietMoves DEF Navigate
<1>7. CASE UNCHANGED vars
  BY <1>7, QuietMoves DEF vars
<1>8. QED
  BY <1>1, <1>2, <1>3, <1>4, <1>5, <1>6, <1>7 DEF Next

LEMMA InitOrder == Init => OrderPart /\ StartPart
<1> SUFFICES ASSUME Init PROVE OrderPart /\ StartPart
  OBVIOUS
<1>1. 1..Len(queue) = {} /\ exposed = {}
  <2>1. queue = <<>> /\ exposed = {}
    BY Zenon DEF Init
  <2>2. QED
    BY <2>1
<1>2. \A c \in Chats : current # None /\ current.chat = c => current = store[c]
  BY ChatsAssumption DEF Init, Empty
<1>3. QED
  BY <1>1, <1>2, WithinChain DEF OrderPart, StartPart, Follows, Leads

LEMMA NextGround == Ground /\ [Next]_vars => Ground' /\ Orderly
BY NextInv, NextHistory, NextOrderly, OrderKept, StartKept DEF Ground, Orderly, HistoryPart

LEMMA AlwaysGround == Spec => []Ground
<1>1. Init => Ground
  BY InitInv, InitHistory, InitOrder DEF Ground
<1>2. Ground /\ [Next]_vars => Ground'
  BY NextGround
<1>3. QED
  BY <1>1, <1>2, PTL DEF Spec

\* For any chats and bounds, no save takes a change from a stored chat, unless
\* the change had left the chat in memory: whichever saves, farewells, flushes
\* and notes are on their way, and whatever is opened, put back or reloaded
\* between them, they write in the order of the author (sessionAutosave.ts,
\* AssistantPanel.tsx, chatLocal.ts).
THEOREM EditsStay == Spec => StoredEditsStay
<1> DEFINE stay == \A c \in Chats : store[c] # None /\ store'[c] # None =>
                     store[c].edits \subseteq store'[c].edits \cup dropped
<1>1. Ground /\ [Next]_vars => [stay]_vars
  BY NextOrderly, StoreGrows DEF Ground, Orderly, Within
<1>2. QED
  BY <1>1, AlwaysGround, PTL DEF Spec, StoredEditsStay

-----------------------------------------------------------------------------
(* What the panel takes for stored, or for on its way.  A save the panel   *)
(* waits for is on its way and will be heard of, unless its saving stopped *)
(* with a message; and the panel looks after the open chat until it is     *)
(* stored.                                                                 *)

Saving(s, q) == \E i \in 1..Len(q) : q[i].kind = "autosave" /\ q[i].live /\ q[i].session = s

PendingPart ==
  \A c \in Chats : LET s == panel.pending[c] IN
    s # None => s.chat = c /\ (s \in panel.stopped \/ Saving(s, queue))

InStore == store[current.chat] # None /\ Within(current, store[current.chat], dropped)

QuietPart ==
  panel.open /\ current # None /\ current.chat \notin deleted =>
    \/ panel.timer = current \/ panel.retry
    \/ panel.pending[current.chat] = current
    \/ InStore

Mind == BeliefIsTrue /\ PendingPart /\ QuietPart

LEMMA QuietImplies == Ground /\ Mind => QuietMeansSaved
<1> SUFFICES ASSUME Ground, Mind,
                    panel.open, current # None, panel.timer = None, ~panel.retry, ~Stopped,
                    \A i \in DOMAIN queue :
                      queue[i].kind = "autosave" => queue[i].session # current,
                    ~Gone(current.chat)
             PROVE  Saved
  BY DEF QuietMeansSaved
<1>1. current.chat \in Chats /\ DOMAIN queue = 1..Len(queue)
  BY CurrentType, QueueSeq DEF Ground
<1>2. panel.pending[current.chat] # current
  BY <1>1 DEF Mind, PendingPart, Saving, Stopped
<1>3. InStore
  BY <1>2 DEF Mind, QuietPart, Gone
<1>4. Within(store[current.chat], current, dropped)
  BY <1>1, <1>3 DEF InStore, Ground, OrderPart, Leads
<1>5. QED
  BY <1>3, <1>4 DEF Saved, InStore, Within

-----------------------------------------------------------------------------
(* The saves that are heard of                                             *)

SavingKept == \A s : Saving(s, queue) => Saving(s, queue')

LEMMA LiveKept ==
    ASSUME NEW q \in Seq(Requests), NEW i \in 1..Len(q), q[i].kind = "autosave"
    PROVE  Cancelled(q)[i] = q[i] /\ Orphaned(q, FALSE)[i] = q[i]
<1>1. i \in DOMAIN q
  OBVIOUS
<1>2. QED
  BY <1>1 DEF Cancelled, Orphaned

LEMMA SavesKept ==
    ASSUME Inv, NEW r,
           \/ queue' \in {queue, Append(queue, r)}
           \/ queue' \in {Cancelled(queue), Append(Cancelled(queue), r)}
           \/ queue' \in {Orphaned(queue, FALSE), Append(Orphaned(queue, FALSE), r)}
    PROVE  SavingKept
<1>1. ASSUME NEW i \in 1..Len(queue), queue[i].kind = "autosave"
      PROVE  i \in 1..Len(queue') /\ queue'[i] = queue[i]
  <2>1. Cancelled(queue)[i] = queue[i] /\ Orphaned(queue, FALSE)[i] = queue[i]
    BY <1>1, QueueSeq, LiveKept
  <2>2. /\ Cancelled(queue) \in Seq(Requests) /\ Len(Cancelled(queue)) = Len(queue)
        /\ Orphaned(queue, FALSE) \in Seq(Requests) /\ Len(Orphaned(queue, FALSE)) = Len(queue)
    BY QueueSeq, CancelledType, OrphanedType
  <2>3. CASE queue' \in {queue, Cancelled(queue), Orphaned(queue, FALSE)}
    BY <2>1, <2>2, <2>3
  <2>4. CASE queue' = Append(queue, r)
    BY <2>4, QueueSeq
  <2>5. CASE queue' = Append(Cancelled(queue), r)
    BY <2>1, <2>2, <2>5
  <2>6. CASE queue' = Append(Orphaned(queue, FALSE), r)
    <3> DEFINE q == Orphaned(queue, FALSE)
    <3>1. q \in Seq(Requests) /\ i \in 1..Len(q) /\ q[i] = queue[i] /\ queue' = Append(q, r)
      BY <2>1, <2>2, <2>6
    <3> HIDE DEF q
    <3>2. QED
      BY <3>1
  <2>7. QED
    BY <2>3, <2>4, <2>5, <2>6
<1>2. QED
  BY <1>1 DEF SavingKept, Saving

\* The save at the head has ended, or another transaction
LEMMA SavesPopped ==
    ASSUME Inv, queue # <<>>, NEW r, NEW s, Saving(s, queue),
           queue' \in {Tail(queue), Cancelled(Tail(queue)), Append(Tail(queue), r)}
    PROVE  \/ Saving(s, queue')
           \/ Head(queue).kind = "autosave" /\ Head(queue).live /\ Head(queue).session = s
<1> DEFINE t == Tail(queue)
<1>1. /\ t \in Seq(Requests) /\ Len(t) = Len(queue) - 1 /\ Head(queue) = queue[1]
      /\ \A i \in 1..Len(t) : t[i] = queue[i + 1]
  BY QueueSeq, HeadTailProperties
<1>2. queue' \in {t, Cancelled(t), Append(t, r)}
  OBVIOUS
<1> HIDE DEF t
<1>3. Cancelled(t) \in Seq(Requests) /\ Len(Cancelled(t)) = Len(t)
  BY <1>1, CancelledType
<1>4. PICK i \in 1..Len(queue) :
        queue[i].kind = "autosave" /\ queue[i].live /\ queue[i].session = s
  BY DEF Saving
<1>5. CASE i = 1
  BY <1>1, <1>4, <1>5
<1>6. CASE i # 1
  <2>1. i - 1 \in 1..Len(t) /\ t[i - 1] = queue[i]
    BY <1>1, <1>6, QueueSeq
  <2>2. Cancelled(t)[i - 1] = queue[i]
    BY <1>1, <1>4, <2>1, LiveKept
  <2>3. i - 1 \in 1..Len(queue') /\ queue'[i - 1] = queue[i]
    <3>1. CASE queue' \in {t, Cancelled(t)}
      BY <1>3, <2>1, <2>2, <3>1
    <3>2. CASE queue' = Append(t, r)
      BY <1>1, <2>1, <3>2
    <3>3. QED
      BY <1>2, <3>1, <3>2
  <2>4. QED
    BY <1>4, <2>3 DEF Saving
<1>7. QED
  BY <1>5, <1>6

\* Whatever ends that is not a save of the panel
LEMMA SavesStay ==
    ASSUME Inv, queue # <<>>, Head(queue).kind # "autosave", NEW r,
           queue' \in {Tail(queue), Cancelled(Tail(queue)), Append(Tail(queue), r)}
    PROVE  SavingKept
BY SavesPopped DEF SavingKept

-----------------------------------------------------------------------------
(* The panel                                                               *)

LEMMA EffectKeeps ==
    ASSUME NEW p, GoodPanel(p), NEW s \in Sessions \cup {None}
    PROVE  /\ Effect(p, s).saved = p.saved /\ Effect(p, s).pending = p.pending
           /\ Effect(p, s).stopped = p.stopped /\ Effect(p, s).open = p.open
           /\ p.open /\ s # None =>
                s \in {Effect(p, s).timer, p.saved[s.chat], p.pending[s.chat]}
<1>1. CASE ~p.open
  BY <1>1 DEF Effect
<1>2. CASE p.open /\ s = None
  BY <1>2 DEF Effect, GoodPanel, Panels
<1>3. CASE p.open /\ s # None
  <2> DEFINE edited == p.attempts[s.chat] # None /\ p.attempts[s.chat].of # s
             q == IF edited
                  THEN [p EXCEPT !.attempts[s.chat] = None, !.retry = FALSE, !.status = None]
                  ELSE p
  <2>1. s \in Sessions /\ s.chat \in Chats
    BY <1>3 DEF Sessions
  <2>2. /\ q \in Panels /\ q.open = p.open /\ q.saved = p.saved
        /\ q.pending = p.pending /\ q.stopped = p.stopped
    BY <1>3, <2>1 DEF GoodPanel, Panels
  <2>3. Effect(p, s) = [q EXCEPT !.timer = IF Covered(q, s) THEN None ELSE s]
    BY <1>3 DEF Effect
  <2> HIDE DEF q
  <2>4. QED
    BY <1>3, <2>1, <2>2, <2>3 DEF Panels, Covered
<1>4. QED
  BY <1>1, <1>2, <1>3

\* What the panel remembers after a step it remembered before, or it is stored
Remembers(p) == \A c \in Chats : p.saved[c] \in {None, panel.saved[c], store'[c]}

\* It waits for no other save than before
Awaits(p) ==
  /\ \A c \in Chats : p.pending[c] \in {None, panel.pending[c]}
  /\ panel.stopped \subseteq p.stopped \/ \A c \in Chats : p.pending[c] = None

LEMMA BeliefKept ==
    ASSUME Ground, Orderly, BeliefIsTrue, Remembers(panel')
    PROVE  BeliefIsTrue'
<1> SUFFICES ASSUME NEW c \in Chats, panel'.saved[c] # None, c \notin deleted'
             PROVE  /\ store'[c] # None
                    /\ panel'.saved[c].edits \subseteq store'[c].edits \cup dropped'
  BY DEF BeliefIsTrue
<1>1. c \notin deleted /\ dropped \subseteq dropped'
  BY DEF Orderly, Exposes, Turns, Turned
<1>2. CASE panel'.saved[c] = panel.saved[c]
  <2>1. store[c] # None /\ panel.saved[c].edits \subseteq store[c].edits \cup dropped
    BY <1>1, <1>2 DEF BeliefIsTrue
  <2>2. store'[c] # None /\ Within(store[c], store'[c], dropped)
    BY <2>1, StoreGrows DEF Ground, Orderly
  <2>3. QED
    BY <1>1, <1>2, <2>1, <2>2 DEF Within
<1>3. CASE panel'.saved[c] = store'[c]
  BY <1>3
<1>4. QED
  BY <1>2, <1>3 DEF Remembers

LEMMA PendingKept ==
    ASSUME PendingPart, Awaits(panel'), SavingKept
    PROVE  PendingPart'
<1> SUFFICES ASSUME NEW c \in Chats, panel'.pending[c] # None
             PROVE  /\ panel'.pending[c].chat = c
                    /\ panel'.pending[c] \in panel'.stopped \/ Saving(panel'.pending[c], queue')
  BY DEF PendingPart, Saving
<1>1. panel'.pending[c] = panel.pending[c] /\ panel.stopped \subseteq panel'.stopped
  BY DEF Awaits
<1>2. /\ panel.pending[c].chat = c
      /\ panel.pending[c] \in panel.stopped \/ Saving(panel.pending[c], queue)
  BY <1>1 DEF PendingPart
<1>3. QED
  BY <1>1, <1>2 DEF SavingKept

\* The effect has looked at the open chat.
LEMMA QuietLooked ==
    ASSUME Inv', BeliefIsTrue',
           panel'.open /\ current' # None =>
             current' \in {panel'.timer, panel'.saved[current'.chat], panel'.pending[current'.chat]}
    PROVE  QuietPart'
<1> SUFFICES ASSUME panel'.open, current' # None, current'.chat \notin deleted',
                    current' = panel'.saved[current'.chat]
             PROVE  store'[current'.chat] # None
                    /\ current'.edits \subseteq store'[current'.chat].edits \cup dropped'
  BY DEF QuietPart, InStore, Within
<1>1. current'.chat \in Chats
  BY DEF Inv, CurrentPart, Sessions
<1>2. QED
  BY <1>1 DEF BeliefIsTrue

\* The open chat is the same, and is looked after
LEMMA QuietKept ==
    ASSUME Ground, Orderly, QuietPart, UNCHANGED <<current, dropped>>, panel'.open => panel.open,
           current # None =>
             /\ panel.timer = current =>
                  current \in {panel'.timer, panel'.pending[current.chat]}
             /\ panel.retry => panel'.retry
             /\ panel.pending[current.chat] = current =>
                  \/ panel'.pending[current.chat] = current \/ panel'.retry
                  \/ store'[current.chat] = current
    PROVE  QuietPart'
<1> SUFFICES ASSUME panel.open, current # None, current.chat \notin deleted'
             PROVE  \/ panel'.timer = current \/ panel'.retry
                    \/ panel'.pending[current.chat] = current
                    \/ /\ store'[current.chat] # None
                       /\ Within(current, store'[current.chat], dropped)
  BY DEF QuietPart, InStore, Within
<1>1. current.chat \in Chats /\ current.chat \notin deleted
  BY CurrentType DEF Ground, Orderly, Exposes
<1>2. CASE InStore
  <2>1. store'[current.chat] # None /\ Within(store[current.chat], store'[current.chat], dropped)
    BY <1>1, <1>2, StoreGrows DEF InStore, Ground, Orderly
  <2>2. QED
    BY <1>2, <2>1, WithinChain DEF InStore
<1>3. CASE ~InStore
  BY <1>1, <1>3, WithinChain DEF QuietPart
<1>4. QED
  BY <1>2, <1>3

\* A step that leaves the panel and the open chat alone
LEMMA IdleMind ==
    ASSUME Ground, Orderly, Mind, UNCHANGED <<panel, current, dropped>>, SavingKept
    PROVE  Mind'
<1>1. Remembers(panel') /\ Awaits(panel')
  BY DEF Remembers, Awaits
<1>2. QED
  BY <1>1, BeliefKept, PendingKept, QuietKept DEF Mind

\* A step after which the effect looks at the chat that is open
LEMMA LookMind ==
    ASSUME Ground, Orderly, Mind, Inv', NEW p, GoodPanel(p), panel' = Effect(p, current'),
           Remembers(p), Awaits(p), SavingKept
    PROVE  Mind'
<1>1. current' \in Sessions \cup {None}
  BY DEF Inv, CurrentPart
<1>2. /\ panel'.saved = p.saved /\ panel'.pending = p.pending /\ panel'.stopped = p.stopped
      /\ panel'.open = p.open
      /\ p.open /\ current' # None =>
           current' \in {panel'.timer, p.saved[current'.chat], p.pending[current'.chat]}
  BY <1>1, EffectKeeps
<1>3. Remembers(panel') /\ Awaits(panel')
  BY <1>2 DEF Remembers, Awaits
<1>4. QED
  BY <1>2, <1>3, BeliefKept, PendingKept, QuietLooked DEF Mind

LEMMA PanelIsKept == Remembers(panel) /\ Awaits(panel)
BY DEF Remembers, Awaits

LEMMA FreshIsKept ==
    /\ Remembers(Fresh) /\ Awaits(Fresh) /\ Remembers(Closed) /\ Awaits(Closed)
BY DEF Fresh, Closed, Nothing, Remembers, Awaits

-----------------------------------------------------------------------------
(* Every step keeps what the panel has in mind                             *)

LEMMA EditMind ==
    ASSUME Ground, Orderly, Mind, Inv', Edit
    PROVE  Mind'
<1>1. SavingKept
  BY SavesKept DEF Edit, Ground
<1>2. panel' = Effect(panel, current')
  BY DEF Edit, Show
<1>3. QED
  BY <1>1, <1>2, LookMind, PanelGood, PanelIsKept DEF Ground

LEMMA TimerMind ==
    ASSUME Ground, Orderly, Mind, TimerFires
    PROVE  Mind'
<1> DEFINE s == panel.timer
           c == s.chat
<1>1. s \in Sessions /\ s = current /\ c \in Chats /\ s # None
  BY CurrentType DEF Ground, Inv, PanelPart, TimerFires
<1>2. /\ panel' = [panel EXCEPT !.pending[c] = s, !.timer = None]
      /\ queue' = Append(queue, Autosave(s)) /\ UNCHANGED <<current, dropped>>
  BY DEF TimerFires
<1> HIDE DEF s, c
<1>3. /\ panel'.saved = panel.saved /\ panel'.stopped = panel.stopped
      /\ panel'.open = panel.open /\ panel'.retry = panel.retry
      /\ panel'.pending = [panel.pending EXCEPT ![c] = s]
      /\ panel.pending \in [Chats -> Sessions \cup {None}]
  BY <1>2 DEF Ground, Inv, PanelPart, GoodPanel, Panels
<1>4. BeliefIsTrue'
  BY <1>3, BeliefKept DEF Mind, Remembers
<1>5. PendingPart'
  <2> SUFFICES ASSUME NEW d \in Chats, panel'.pending[d] # None
               PROVE  /\ panel'.pending[d].chat = d
                      /\ panel'.pending[d] \in panel'.stopped \/ Saving(panel'.pending[d], queue')
    BY DEF PendingPart
  <2>1. SavingKept
    BY <1>2, SavesKept DEF Ground
  <2>2. CASE d = c
    <3>1. panel'.pending[d] = s
      BY <1>1, <1>3, <2>2
    <3>2. /\ Len(queue) + 1 \in 1..Len(queue') /\ queue'[Len(queue) + 1] = Autosave(s)
      BY <1>2, QueueSeq DEF Ground
    <3>3. Saving(s, queue')
      BY <3>2 DEF Saving, Autosave, Request
    <3>4. QED
      BY <2>2, <3>1, <3>3 DEF c
  <2>3. CASE d # c
    <3>1. panel'.pending[d] = panel.pending[d]
      BY <1>3, <2>3
    <3>2. QED
      BY <1>3, <2>1, <3>1 DEF Mind, PendingPart, SavingKept
  <2>4. QED
    BY <2>2, <2>3
<1>6. QuietPart'
  BY <1>1, <1>2, <1>3, QuietKept DEF Mind, c
<1>7. QED
  BY <1>4, <1>5, <1>6 DEF Mind

LEMMA RetryFiresMind ==
    ASSUME Ground, Orderly, Mind, Inv', RetryFires
    PROVE  Mind'
<1> DEFINE p == [panel EXCEPT !.retry = FALSE]
<1>1. /\ GoodPanel(p) /\ p.saved = panel.saved
      /\ p.pending = panel.pending /\ p.stopped = panel.stopped
  BY DEF Ground, Inv, PanelPart, GoodPanel, Panels
<1>2. panel' = Effect(p, current')
  BY DEF RetryFires
<1> HIDE DEF p
<1>3. Remembers(p) /\ Awaits(p)
  BY <1>1 DEF Remembers, Awaits
<1>4. SavingKept
  BY SavesKept DEF RetryFires, Ground
<1>5. QED
  BY <1>1, <1>2, <1>3, <1>4, LookMind

\* The save that stopped is forgotten with the note that it stopped.
LEMMA RetryStoppedMind ==
    ASSUME Ground, Orderly, Mind, Inv', RetryStopped
    PROVE  Mind'
<1> DEFINE c == current.chat
           p == [panel EXCEPT !.pending[c] = None, !.attempts[c] = None, !.status = None,
                              !.stopped = @ \ {current}]
<1>1. current \in Sessions /\ c \in Chats
  BY CurrentType DEF RetryStopped, Ground
<1>2. /\ GoodPanel(p) /\ p.saved = panel.saved /\ p.stopped = panel.stopped \ {current}
      /\ p.pending = [panel.pending EXCEPT ![c] = None] /\ p.open = panel.open
      /\ panel.pending \in [Chats -> Sessions \cup {None}]
  BY <1>1 DEF Ground, Inv, PanelPart, GoodPanel, Panels
<1>3. panel' = Effect(p, current) /\ current' = current
  BY DEF RetryStopped
<1> HIDE DEF p, c
<1>4. /\ panel'.saved = p.saved /\ panel'.pending = p.pending /\ panel'.stopped = p.stopped
      /\ panel'.open = p.open
      /\ p.open /\ current # None =>
           current \in {panel'.timer, p.saved[current.chat], p.pending[current.chat]}
  BY <1>1, <1>2, <1>3, EffectKeeps
<1>5. BeliefIsTrue'
  BY <1>2, <1>4, BeliefKept DEF Mind, Remembers
<1>6. PendingPart'
  <2> SUFFICES ASSUME NEW d \in Chats, panel'.pending[d] # None
               PROVE  /\ panel'.pending[d].chat = d
                      /\ panel'.pending[d] \in panel'.stopped \/ Saving(panel'.pending[d], queue')
    BY DEF PendingPart
  <2>1. SavingKept
    BY SavesKept DEF RetryStopped, Ground
  <2>2. d # c /\ panel'.pending[d] = panel.pending[d]
    BY <1>1, <1>2, <1>4
  <2>3. panel.pending[d].chat = d
        /\ (panel.pending[d] \in panel.stopped \/ Saving(panel.pending[d], queue))
    BY <2>2 DEF Mind, PendingPart
  <2>4. panel.pending[d] # current
    BY <2>2, <2>3 DEF c
  <2>5. QED
    BY <1>2, <1>4, <2>1, <2>2, <2>3, <2>4 DEF SavingKept
<1>7. QuietPart'
  BY <1>3, <1>4, <1>5, QuietLooked
<1>8. QED
  BY <1>5, <1>6, <1>7 DEF Mind

\* setCurrentSession, and the transactions it does not touch
LEMMA ShowMind ==
    ASSUME Ground, Orderly, Mind, Inv', SavingKept, NEW s,
           \/ Show(panel, s) \/ ShowOpen(s)
           \/ UNCHANGED <<current, panel, dropped>>
    PROVE  Mind'
<1>1. CASE UNCHANGED <<current, panel, dropped>>
  BY <1>1, IdleMind
<1>2. CASE panel' \in {Effect(panel, current'), Effect(Fresh, current')}
  <2>1. CASE panel' = Effect(panel, current')
    BY <2>1, LookMind, PanelGood, PanelIsKept DEF Ground
  <2>2. CASE panel' = Effect(Fresh, current')
    BY <2>2, LookMind, FreshType, FreshIsKept
  <2>3. QED
    BY <1>2, <2>1, <2>2
<1>3. QED
  BY <1>1, <1>2 DEF Show, ShowOpen

LEMMA LeaveMind ==
    ASSUME Ground, Orderly, Mind, Inv', NEW goal, Leave(goal)
    PROVE  Mind'
<1>1. SavingKept
  BY SavesKept DEF Leave, Ground
<1>2. QED
  BY <1>1, ShowMind DEF Leave

LEMMA UserMind ==
    ASSUME Ground, Orderly, Mind, Inv', NEW c \in Chats,
           \/ NewInPanel(c) \/ OpenInPanel(c) \/ DeleteInPanel(c)
           \/ NewInPage(c) \/ OpenInPage(c) \/ DeleteInPage(c)
    PROVE  Mind'
<1>1. CASE NewInPanel(c) \/ OpenInPanel(c)
  BY <1>1, LeaveMind DEF NewInPanel, OpenInPanel
<1>2. CASE DeleteInPanel(c) \/ OpenInPage(c)
  <2>1. SavingKept
    BY <1>2, SavesKept DEF DeleteInPanel, OpenInPage, Ground
  <2>2. QED
    BY <1>2, <2>1, IdleMind DEF DeleteInPanel, OpenInPage
<1>3. CASE NewInPage(c) \/ DeleteInPage(c)
  <2>1. SavingKept
    BY <1>3, SavesKept DEF NewInPage, DeleteInPage, Ground
  <2>2. QED
    BY <1>3, <2>1, ShowMind DEF NewInPage, DeleteInPage
<1>4. QED
  BY <1>1, <1>2, <1>3

\* A panel that is closed, or that remembers nothing, waits for no save.
LEMMA ClosedMind ==
    ASSUME Ground, Orderly, Mind, Inv', panel' = Closed
    PROVE  Mind'
<1>1. ~panel'.open /\ \A c \in Chats : panel'.pending[c] = None
  BY DEF Closed, Fresh, Nothing
<1>2. BeliefIsTrue'
  BY FreshIsKept, BeliefKept DEF Mind
<1>3. QED
  BY <1>1, <1>2 DEF Mind, PendingPart, QuietPart

LEMMA CleanupMind ==
    ASSUME Ground, Orderly, Mind, Inv', NEW all \in BOOLEAN, Cleanup(all)
    PROVE  Mind'
<1>1. CASE all
  BY <1>1, ClosedMind DEF Cleanup
<1>2. CASE all = FALSE
  <2>1. SavingKept
    <3>1. queue' \in {Orphaned(queue, FALSE), Append(Orphaned(queue, FALSE), Farewell(current))}
      BY <1>2 DEF Cleanup
    <3>2. QED
      BY <3>1, SavesKept DEF Ground
  <2>2. panel' = Effect(Fresh, current')
    BY <1>2 DEF Cleanup
  <2>3. QED
    BY <2>1, <2>2, LookMind, FreshType, FreshIsKept
<1>3. QED
  BY <1>1, <1>2

LEMMA OpenPanelMind ==
    ASSUME Ground, Orderly, Mind, Inv', OpenPanel
    PROVE  Mind'
<1>1. SavingKept
  BY SavesKept DEF OpenPanel, Ground
<1>2. panel' = Effect(Fresh, current')
  BY DEF OpenPanel
<1>3. QED
  BY <1>1, <1>2, LookMind, FreshType, FreshIsKept

\* A save the panel waits for is stored, or one it waits for no more.
LEMMA StoreAutosaveMind ==
    ASSUME Ground, Orderly, Mind, StoreAutosave
    PROVE  Mind'
<1> DEFINE r == Head(queue)
           s == r.session
           c == s.chat
<1>1. /\ s \in Sessions /\ c \in Chats /\ s # None /\ queue # <<>> /\ r.kind = "autosave"
      /\ queue' = Tail(queue) /\ UNCHANGED <<current, dropped>>
  BY HeadWrites, NoneAssumption DEF StoreAutosave, Ending, Writes, Ground
<1>2. store'[c] = s
  BY <1>1 DEF StoreAutosave, Stored, Ground, Inv, StorePart
<1>3. panel' = IF r.live THEN Settled(panel, s) ELSE panel
  BY DEF StoreAutosave
<1>4. \A t : Saving(t, queue) => Saving(t, queue') \/ (r.live /\ t = s)
  BY <1>1, SavesPopped DEF Ground
<1>5. GoodPanel(panel)
  BY PanelGood DEF Ground
<1> HIDE DEF r, s, c
<1>6. CASE ~r.live
  <2>1. panel' = panel /\ SavingKept
    BY <1>3, <1>4, <1>6 DEF SavingKept
  <2>2. QED
    BY <1>1, <2>1, IdleMind
<1>7. CASE r.live
  <2> DEFINE p == Remembered(panel, s)
  <2>1. /\ p \in Panels /\ p.saved = [panel.saved EXCEPT ![c] = s]
        /\ p.pending = panel.pending /\ p.stopped = panel.stopped
        /\ p.timer = panel.timer /\ p.retry = panel.retry /\ p.open = panel.open
        /\ panel.saved \in [Chats -> Sessions \cup {None}]
    BY <1>1, <1>5 DEF Remembered, GoodPanel, Panels, c
  <2>2. panel' = [p EXCEPT !.pending[c] = IF @ = s THEN None ELSE @,
                           !.attempts[c] = None, !.status = None]
    BY <1>3, <1>7 DEF Settled, c
  <2> HIDE DEF p
  <2>3. /\ panel'.saved = [panel.saved EXCEPT ![c] = s]
        /\ panel'.pending = [panel.pending EXCEPT ![c] = IF @ = s THEN None ELSE @]
        /\ panel'.stopped = panel.stopped /\ panel'.timer = panel.timer
        /\ panel'.retry = panel.retry /\ panel'.open = panel.open
        /\ panel.pending \in [Chats -> Sessions \cup {None}]
    BY <2>1, <2>2 DEF Panels
  <2>4. BeliefIsTrue'
    <3>1. Remembers(panel')
      BY <1>1, <1>2, <2>1, <2>3 DEF Remembers
    <3>2. QED
      BY <3>1, BeliefKept DEF Mind
  <2>5. PendingPart'
    <3> SUFFICES ASSUME NEW d \in Chats, panel'.pending[d] # None
                 PROVE  /\ panel'.pending[d].chat = d
                        /\ panel'.pending[d] \in panel'.stopped \/ Saving(panel'.pending[d], queue')
      BY DEF PendingPart
    <3>1. panel'.pending[d] = panel.pending[d] /\ (d = c => panel.pending[d] # s)
      BY <2>3
    <3>2. panel.pending[d].chat = d
          /\ (panel.pending[d] \in panel.stopped \/ Saving(panel.pending[d], queue))
      BY <3>1 DEF Mind, PendingPart
    <3>3. panel.pending[d] # s
      BY <3>1, <3>2 DEF c
    <3>4. QED
      BY <1>4, <2>3, <3>1, <3>2, <3>3
  <2>6. QuietPart'
    <3>1. current # None => current.chat \in Chats
      BY CurrentType DEF Ground
    <3>2. current # None /\ panel.pending[current.chat] = current =>
            panel'.pending[current.chat] = current \/ store'[current.chat] = current
      <4>1. CASE current = s
        BY <1>2, <4>1 DEF c
      <4>2. CASE current # s
        BY <2>3, <3>1, <4>2
      <4>3. QED
        BY <4>1, <4>2
    <3>3. QED
      BY <1>1, <2>3, <3>2, QuietKept DEF Mind
  <2>7. QED
    BY <2>4, <2>5, <2>6 DEF Mind
<1>8. QED
  BY <1>6, <1>7

\* A save the panel waits for fails: it stops with a message, or is retried.
LEMMA FailAutosaveMind ==
    ASSUME Ground, Orderly, Mind, FailAutosave
    PROVE  Mind'
<1> DEFINE r == Head(queue)
           s == r.session
           c == s.chat
           before == IF panel.attempts[c] # None /\ panel.attempts[c].of = s
                     THEN panel.attempts[c].count ELSE 0
<1>1. /\ s \in Sessions /\ c \in Chats /\ s # None /\ queue # <<>> /\ r.kind = "autosave"
      /\ queue' = Tail(queue) /\ UNCHANGED <<store, current, dropped>>
  BY HeadWrites, NoneAssumption DEF FailAutosave, Ending, Writes, Ground
<1>2. PICK permanent \in BOOLEAN :
        panel' =
          IF ~r.live THEN panel
          ELSE IF ~RetryHelps(permanent, before)
          THEN [panel EXCEPT !.status = [chat |-> c, kind |-> "stopped",
                                         retryable |-> ~permanent],
                             !.stopped = @ \cup {s}]
          ELSE IF panel.pending[c] # s THEN panel
          ELSE [panel EXCEPT !.pending[c] = None,
                             !.attempts[c] = [of |-> s, count |-> before + 1],
                             !.status = [chat |-> c, kind |-> "retrying", retryable |-> FALSE],
                             !.retry = TRUE]
  BY Zenon DEF FailAutosave
<1>3. \A t : Saving(t, queue) => Saving(t, queue') \/ (r.live /\ t = s)
  BY <1>1, SavesPopped DEF Ground
<1>4. panel \in Panels
  BY DEF Ground, Inv, PanelPart, GoodPanel
<1> HIDE DEF r, s, before
<1>5. /\ panel'.saved = panel.saved /\ panel'.timer = panel.timer /\ panel'.open = panel.open
      /\ panel.stopped \subseteq panel'.stopped /\ (panel.retry => panel'.retry)
      /\ \A d \in Chats : d # c => panel'.pending[d] = panel.pending[d]
      /\ panel.pending[c] # s => panel'.pending[c] = panel.pending[c]
      /\ panel.pending[c] = s =>
           \/ panel'.pending[c] = None /\ panel'.retry
           \/ panel'.pending[c] = s /\ (r.live => s \in panel'.stopped)
  <2>1. CASE ~r.live
    BY <1>2, <2>1
  <2>2. CASE r.live /\ ~RetryHelps(permanent, before)
    BY <1>2, <1>4, <2>2 DEF Panels
  <2>3. CASE r.live /\ RetryHelps(permanent, before) /\ panel.pending[c] # s
    BY <1>2, <2>3
  <2>4. CASE r.live /\ RetryHelps(permanent, before) /\ panel.pending[c] = s
    <3>1. panel' = [panel EXCEPT !.pending[c] = None,
                                 !.attempts[c] = [of |-> s, count |-> before + 1],
                                 !.status = [chat |-> c, kind |-> "retrying", retryable |-> FALSE],
                                 !.retry = TRUE]
      BY <1>2, <2>4
    <3> HIDE DEF c
    <3>2. QED
      BY <1>1, <1>4, <2>4, <3>1 DEF Panels
  <2>5. QED
    BY <2>1, <2>2, <2>3, <2>4
<1>6. BeliefIsTrue'
  BY <1>5, BeliefKept DEF Mind, Remembers
<1>7. PendingPart'
  <2> SUFFICES ASSUME NEW d \in Chats, panel'.pending[d] # None
               PROVE  /\ panel'.pending[d].chat = d
                      /\ panel'.pending[d] \in panel'.stopped \/ Saving(panel'.pending[d], queue')
    BY DEF PendingPart
  <2>1. panel'.pending[d] = panel.pending[d] /\ (d = c /\ panel.pending[d] = s /\ r.live =>
                                                   s \in panel'.stopped)
    BY <1>5
  <2>2. panel.pending[d].chat = d
        /\ (panel.pending[d] \in panel.stopped \/ Saving(panel.pending[d], queue))
    BY <2>1 DEF Mind, PendingPart
  <2>3. panel.pending[d] = s => d = c
    BY <2>2
  <2>4. QED
    BY <1>3, <1>5, <2>1, <2>2, <2>3
<1>8. QuietPart'
  <2>1. current # None => current.chat \in Chats
    BY CurrentType DEF Ground
  <2>2. current # None /\ panel.pending[current.chat] = current =>
          panel'.pending[current.chat] = current \/ panel'.retry
    <3>1. CASE current = s
      BY <1>5, <3>1
    <3>2. CASE current # s
      BY <1>5, <2>1, <3>2
    <3>3. QED
      BY <3>1, <3>2
  <2>3. QED
    BY <1>1, <1>5, <2>2, QuietKept DEF Mind
<1>9. QED
  BY <1>6, <1>7, <1>8 DEF Mind

LEMMA StoreFlushMind ==
    ASSUME Ground, Orderly, Mind, Inv', StoreFlush
    PROVE  Mind'
<1> DEFINE r == Head(queue)
           s == r.session
           p == IF r.live THEN Remembered(panel, s) ELSE panel
<1>1. s \in Sessions /\ s.chat \in Chats /\ queue # <<>> /\ r.kind = "flush"
  BY HeadWrites DEF StoreFlush, Ending, Writes, Ground
<1>2. store'[s.chat] = s
  BY <1>1 DEF StoreFlush, Stored, Ground, Inv, StorePart
<1>3. SavingKept
  <2>1. queue' \in {Tail(queue), Append(Tail(queue), Load(r.goal.chat, "panel"))}
    BY DEF StoreFlush
  <2>2. QED
    BY <1>1, <2>1, SavesStay DEF Ground
<1>4. /\ GoodPanel(p) /\ p.pending = panel.pending /\ p.stopped = panel.stopped
      /\ p.timer = panel.timer /\ p.retry = panel.retry /\ p.open = panel.open
      /\ Remembers(p) /\ Awaits(p)
  <2>1. panel \in Panels /\ GoodPanel(p)
    BY <1>1, RememberedType DEF Ground, Inv, PanelPart, GoodPanel
  <2>2. CASE ~r.live
    BY <2>1, <2>2, PanelIsKept
  <2>3. CASE r.live
    <3>1. p = [panel EXCEPT !.saved[s.chat] = s]
      BY <2>3 DEF Remembered
    <3>2. /\ p.saved = [panel.saved EXCEPT ![s.chat] = s]
          /\ panel.saved \in [Chats -> Sessions \cup {None}]
          /\ p.pending = panel.pending /\ p.stopped = panel.stopped
          /\ p.timer = panel.timer /\ p.retry = panel.retry /\ p.open = panel.open
      BY <2>1, <3>1 DEF Panels
    <3> HIDE DEF p
    <3>3. QED
      BY <1>1, <1>2, <2>1, <3>2 DEF Remembers, Awaits
  <2>4. QED
    BY <2>2, <2>3
<1>5. CASE r.goal.fresh
  <2>1. panel' = Effect(IF p.open THEN p ELSE Fresh, current')
    BY <1>5 DEF StoreFlush, Show
  <2> HIDE DEF p
  <2>2. CASE p.open
    BY <1>3, <1>4, <2>1, <2>2, LookMind
  <2>3. CASE ~p.open
    BY <1>3, <2>1, <2>3, LookMind, FreshType, FreshIsKept
  <2>4. QED
    BY <2>2, <2>3
<1>6. CASE ~r.goal.fresh
  <2>1. panel' = p /\ UNCHANGED <<current, dropped>>
    BY <1>6 DEF StoreFlush
  <2> HIDE DEF p
  <2>2. QuietPart'
    BY <1>4, <2>1, QuietKept DEF Mind
  <2>3. QED
    BY <1>3, <1>4, <2>1, <2>2, BeliefKept, PendingKept DEF Mind
<1>7. QED
  BY <1>5, <1>6

LEMMA OtherEndsMind ==
    ASSUME Ground, Orderly, Mind, Inv',
           StoreFarewell \/ FailOther \/ LoadChat \/ DeleteChat \/ FailDeleteInPage \/ StoreNote
    PROVE  Mind'
<1>1. /\ queue # <<>> /\ Head(queue).kind # "autosave"
      /\ queue' \in {Tail(queue), Cancelled(Tail(queue))}
  BY Zenon DEF StoreFarewell, FailOther, LoadChat, DeleteChat, FailDeleteInPage, StoreNote, Ending
<1>2. SavingKept
  BY <1>1, SavesStay DEF Ground
<1>3. CASE StoreFarewell \/ FailOther
  BY <1>2, <1>3, IdleMind DEF StoreFarewell, FailOther
<1>4. CASE LoadChat
  BY <1>2, <1>4, ShowMind DEF LoadChat
<1>5. CASE DeleteChat
  BY <1>2, <1>5, ShowMind DEF DeleteChat
<1>6. CASE FailDeleteInPage
  BY <1>2, <1>6, ShowMind DEF FailDeleteInPage
<1>7. CASE StoreNote
  BY <1>2, <1>7, ShowMind DEF StoreNote
<1>8. QED
  BY <1>3, <1>4, <1>5, <1>6, <1>7

LEMMA NoteMind ==
    ASSUME Ground, Orderly, Mind, Inv',
           (\E del \in BOOLEAN : SaveAsNote(del)) \/ AppendNote \/ AfterNote \/ FailNote \/ Navigate
    PROVE  Mind'
<1>1. ASSUME NEW del \in BOOLEAN, SaveAsNote(del) PROVE Mind'
  <2>1. SavingKept
    BY <1>1, SavesKept DEF SaveAsNote, Ground
  <2>2. QED
    BY <1>1, <2>1, IdleMind DEF SaveAsNote
<1>2. CASE AppendNote
  <2>1. SavingKept
    BY <1>2, SavesKept DEF AppendNote, Ground
  <2>2. QED
    BY <1>2, <2>1, IdleMind DEF AppendNote
<1>3. CASE AfterNote
  <2>1. SavingKept
    BY <1>3, SavesKept DEF AfterNote, Ground
  <2>2. QED
    BY <1>3, <2>1, IdleMind DEF AfterNote
<1>4. CASE FailNote
  <2>1. CASE queue' = queue
    <3>1. SavingKept
      BY <2>1, SavesKept DEF Ground
    <3>2. QED
      BY <1>4, <3>1, ShowMind DEF FailNote
  <2>2. CASE queue # <<>> /\ Head(queue).kind # "autosave" /\ queue' = Tail(queue)
    <3>1. SavingKept
      BY <2>2, SavesStay DEF Ground
    <3>2. QED
      BY <1>4, <3>1, ShowMind DEF FailNote
  <2>3. QED
    BY <1>4, <2>1, <2>2 DEF FailNote, Ending
<1>5. CASE Navigate
  <2>1. SavingKept
    BY <1>5, SavesKept DEF Navigate, Ground
  <2>2. QED
    BY <1>5, <2>1, IdleMind DEF Navigate
<1>6. QED
  BY <1>1, <1>2, <1>3, <1>4, <1>5

LEMMA NextMind == Ground /\ Mind /\ [Next]_vars => Mind'
<1> SUFFICES ASSUME Ground, Mind, [Next]_vars PROVE Mind'
  OBVIOUS
<1>1. Orderly /\ Inv'
  BY NextOrderly, NextGround DEF Ground
<1>2. CASE Edit \/ TimerFires \/ RetryFires \/ RetryStopped
  BY <1>1, <1>2, EditMind, TimerMind, RetryFiresMind, RetryStoppedMind
<1>3. CASE \E c \in Chats : \/ NewInPanel(c) \/ OpenInPanel(c) \/ DeleteInPanel(c)
                            \/ NewInPage(c) \/ OpenInPage(c) \/ DeleteInPage(c)
  BY <1>1, <1>3, UserMind
<1>4. CASE ClosePanel \/ AccountChanges
  BY <1>1, <1>4, CleanupMind DEF ClosePanel, AccountChanges
<1>5. CASE OpenPanel
  BY <1>1, <1>5, OpenPanelMind
<1>6. CASE Reload
  BY <1>1, <1>6, ClosedMind DEF Reload
<1>7. CASE Transaction
  BY <1>1, <1>7, StoreAutosaveMind, FailAutosaveMind, StoreFlushMind, OtherEndsMind DEF Transaction
<1>8. CASE (\E del \in BOOLEAN : SaveAsNote(del)) \/ AppendNote \/ AfterNote \/ FailNote \/ Navigate
  BY <1>1, <1>8, NoteMind
<1>9. CASE UNCHANGED vars
  <2>1. SavingKept
    BY <1>9, SavesKept DEF vars, Ground
  <2>2. QED
    BY <1>1, <1>9, <2>1, IdleMind DEF vars
<1>10. QED
  BY <1>2, <1>3, <1>4, <1>5, <1>6, <1>7, <1>8, <1>9 DEF Next

LEMMA InitMind == Init => Mind
<1> SUFFICES ASSUME Init PROVE Mind
  OBVIOUS
<1>1. current \in Sessions \cup {None} /\ panel = Effect(Fresh, current)
  BY InitInv, Zenon DEF Init, Inv, CurrentPart
<1>2. /\ \A c \in Chats : panel.saved[c] = None /\ panel.pending[c] = None
      /\ panel.open /\ current # None => current \in {panel.timer, None}
  <2>1. \A c \in Chats : Fresh.saved[c] = None /\ Fresh.pending[c] = None
    BY DEF Fresh, Nothing
  <2>2. current # None => current.chat \in Chats
    BY <1>1 DEF Sessions
  <2>3. QED
    BY <1>1, <2>1, <2>2, EffectKeeps, FreshType
<1>3. QED
  BY <1>2 DEF Mind, BeliefIsTrue, PendingPart, QuietPart

LEMMA AlwaysMind == Spec => [](Ground /\ Mind)
<1>1. Init => Mind
  BY InitMind
<1>2. Ground /\ Mind /\ [Next]_vars => Mind'
  BY NextMind
<1>3. QED
  BY <1>1, <1>2, AlwaysGround, PTL DEF Spec

\* For any chats and bounds, what the panel takes for stored is stored, so that
\* flushCurrentSessionBeforeSwitch leaves no chat unsaved because of it.
THEOREM BeliefAlwaysTrue == Spec => []BeliefIsTrue
<1>1. Mind => BeliefIsTrue
  BY DEF Mind
<1>2. QED
  BY <1>1, AlwaysMind, PTL

\* For any chats, retries and failures, an open chat of which nothing is under
\* way, no timer, no retry, no save, is stored whole, unless the panel told
\* that its saving stopped or its deletion was asked: no order of edits, late
\* and failing saves, switches, deletions and notes leaves a change behind
\* that nothing will save (AssistantPanel.tsx, the autosave effect).
THEOREM QuietAlwaysSaved == Spec => []QuietMeansSaved
<1>1. Ground /\ Mind => QuietMeansSaved
  BY QuietImplies
<1>2. QED
  BY <1>1, AlwaysMind, PTL
=============================================================================
