--------------------------- MODULE AssistantChats ---------------------------
(***************************************************************************)
(* The chats of the assistant in one tab: the chat that is open lives in   *)
(* memory, an effect of the panel saves it to IndexedDB 100 ms after its   *)
(* last change, with retries, and the panel and the Chats page switch,     *)
(* delete and archive chats while such saves are on their way              *)
(* (assistant/sessionAutosave.ts, assistant/chatLocal.ts,                  *)
(* components/assistant/AssistantPanel.tsx, pages/AssistantChatsPage.tsx). *)
(*                                                                         *)
(* IndexedDB runs the overlapping transactions of one tab in the order in  *)
(* which they were made, so what is on its way is a sequence, and what     *)
(* happens when a transaction ends happens in the step that ends it.       *)
(***************************************************************************)
EXTENDS Naturals, Sequences

CONSTANTS
  Chats,        \* the identities of chats
  Kept,         \* those stored in the beginning
  None,
  MaxRetries,   \* MAX_ASSISTANT_AUTOSAVE_RETRIES
  MaxEdits,     \* changes of the author or the assistant
  MaxAsks,      \* what the user asks of the panel and the page
  MaxFailures   \* failed transactions and requests, reloads

ASSUME ChatsAssumption ==
  /\ None \notin Chats /\ Kept \subseteq Chats
  /\ {MaxRetries, MaxEdits, MaxAsks, MaxFailures} \subseteq Nat

Statuses == {"pending", "note-saved", "delete-failed", "complete"}
Notes == [del : BOOLEAN, status : Statuses]

\* A chat: its content as the changes it holds, 0 being what it held in the
\* beginning, how far saving it as a note has come, and its contentRevision.
Sessions == [chat : Chats, edits : SUBSET (0..MaxEdits), note : Notes \cup {None}, rev : Nat]

Empty(c) == [chat |-> c, edits |-> {}, note |-> None, rev |-> 0]

Goals == [chat : Chats, fresh : BOOLEAN]

Kinds == {"autosave", "flush", "farewell", "load", "delete", "note"}
Askers == {"panel", "page", "note"}

\* A transaction on its way.  session: what it writes, or what a failed
\* deletion puts back; live: whoever waits for it is still interested.
Requests == [kind : Kinds, chat : Chats, by : Askers, live : BOOLEAN,
             session : Sessions \cup {None}, goal : Goals \cup {None}]

\* Where saveCurrentChatAsNote waits: for a save, the book or a deletion
Phases == {"pending", "append", "saved", "refresh", "delete"}
Notings == [chat : Chats, del : BOOLEAN, phase : Phases, live : BOOLEAN]

ASSUME NoneAssumption ==
  None \notin Sessions /\ None \notin Goals /\ None \notin Notings

VARIABLES
  store,       \* IndexedDB: the chats
  queue,       \* transactions on their way, oldest first
  current,     \* the chat in memory (useAssistantStore)
  panel,       \* the panel: open or not, its timers and what it remembers
  noting,      \* the chat being saved as a note
  seen,        \* the identities given to chats
  made, asks, failures,
  deleted,     \* history: chats whose deletion was stored,
  exposed,     \* ... that the tab went on showing, or showed again, after
               \* their deletion was asked
  noted,       \* history: chats a note was appended of
  dropped      \* history: changes that left the chat in memory

bounds == <<made, asks, failures>>
history == <<seen, deleted, exposed, noted>>
vars == <<store, queue, current, panel, noting, bounds, history, dropped>>

-----------------------------------------------------------------------------
(* The panel *)

Nothing == [c \in Chats |-> None]

\* saved and pending: the fingerprints of what was stored last and of what is
\* being stored; attempts: how often a save of the same content failed; timer:
\* the content whose 100 ms are running; stopped, a history: the contents
\* whose saving stopped.
Fresh == [open |-> TRUE, saved |-> Nothing, pending |-> Nothing, attempts |-> Nothing,
          timer |-> None, retry |-> FALSE, status |-> None, stopped |-> {}]
Closed == [Fresh EXCEPT !.open = FALSE]

\* Mutant: whatever is being saved of a chat counts as its content.
CoveredByAnySave(p, s) == s = p.saved[s.chat] \/ p.pending[s.chat] # None

\* The content is stored, or a save of it is on its way.
Covered(p, s) == s \in {p.saved[s.chat], p.pending[s.chat]}

\* The autosave effect: it runs when the open chat changes or a retry is due,
\* after its cleanup has stopped the timer of the content before.
Effect(p, s) ==
  IF ~p.open THEN p ELSE IF s = None THEN [p EXCEPT !.timer = None] ELSE
  LET edited == p.attempts[s.chat] # None /\ p.attempts[s.chat].of # s
      q == IF edited THEN [p EXCEPT !.attempts[s.chat] = None, !.retry = FALSE, !.status = None]
           ELSE p
  IN [q EXCEPT !.timer = IF Covered(q, s) THEN None ELSE s]

SameChat(s) == current # None /\ s # None /\ s.chat = current.chat

\* touchAssistantSession: a change of the open chat counts its revision on.
Touched(s) ==
  IF SameChat(s) /\ <<s.edits, s.note>> # <<current.edits, current.note>>
  THEN [s EXCEPT !.rev = 1 + IF s.rev > current.rev THEN s.rev ELSE current.rev] ELSE s

\* The changes of a chat in memory and in the saves of it under way
Known(c) ==
  (UNION {queue[i].session.edits : i \in {j \in DOMAIN queue :
            queue[j].chat = c /\ queue[j].kind \in {"autosave", "flush", "farewell", "note"}}})
  \cup IF current # None /\ current.chat = c THEN current.edits ELSE {}

\* setCurrentSession
Show(p, s) ==
  /\ current' = Touched(s)
  /\ panel' = Effect(p, current')
  /\ dropped' = IF s # None THEN dropped \cup (Known(s.chat) \ s.edits) ELSE dropped

\* setOpen(true) beside it: a panel that was closed remembers nothing.
ShowOpen(s) == Show(IF panel.open THEN panel ELSE Fresh, s)

Abandoned(n) == IF n = None THEN None ELSE [n EXCEPT !.live = FALSE]

\* The effect on the identity of the open chat aborts a note of another one.
Moved(s) == IF SameChat(s) THEN noting ELSE Abandoned(noting)

\* cancelSessionOperations
Cancelled(q) ==
  [i \in DOMAIN q |-> IF q[i].kind = "load" /\ q[i].by = "panel" THEN [q[i] EXCEPT !.live = FALSE]
                      ELSE q[i]]

Request(kind, chat, by, session, goal) ==
  [kind |-> kind, chat |-> chat, by |-> by, live |-> TRUE, session |-> session, goal |-> goal]

Autosave(s) == Request("autosave", s.chat, "panel", s, None)
Flush(s, goal) == Request("flush", s.chat, "panel", s, goal)
Farewell(s) == Request("farewell", s.chat, "panel", s, None)
Load(c, by) == Request("load", c, by, None, None)
Delete(c, by, back) == Request("delete", c, by, back, None)
NoteSave(s) == Request("note", s.chat, "note", s, None)

Ask == asks < MaxAsks /\ asks' = asks + 1 /\ UNCHANGED <<made, failures>>
Fail == failures < MaxFailures /\ failures' = failures + 1 /\ UNCHANGED <<made, asks>>

-----------------------------------------------------------------------------
\* The panel is open, with no chat or one that was just loaded.
Init ==
  /\ store = [c \in Chats |-> IF c \in Kept THEN [Empty(c) EXCEPT !.edits = {0}] ELSE None]
  /\ seen = Kept
  /\ current \in {None} \cup {store[c] : c \in Kept}
  /\ panel = Effect(Fresh, current)
  /\ queue = <<>> /\ noting = None
  /\ made = 0 /\ asks = 0 /\ failures = 0
  /\ deleted = {} /\ exposed = {} /\ noted = {} /\ dropped = {}

\* updateSession, updateMessage: the author, or an answer that streams in,
\* changes the open chat.
Edit ==
  /\ panel.open /\ current # None /\ made < MaxEdits
  /\ made' = made + 1
  /\ Show(panel, [current EXCEPT !.edits = @ \cup {made'}])
  /\ UNCHANGED <<store, queue, noting, asks, failures, history>>

\* The 100 ms are over.
TimerFires ==
  /\ panel.timer # None
  /\ LET s == panel.timer IN
     /\ queue' = Append(queue, Autosave(s))
     /\ panel' = [panel EXCEPT !.pending[s.chat] = s, !.timer = None]
  /\ UNCHANGED <<store, current, noting, bounds, history, dropped>>

\* Mutant: the time is over and nothing looks at the chat again.
RetryForgotten ==
  /\ panel.retry
  /\ panel' = [panel EXCEPT !.retry = FALSE]
  /\ UNCHANGED <<store, queue, current, noting, bounds, history, dropped>>

\* Mutant: the retry saves the content that failed.
RetryOfOldContent ==
  /\ panel.retry
  /\ LET old == IF current = None THEN None ELSE panel.attempts[current.chat] IN
     queue' = IF old = None THEN queue ELSE Append(queue, Autosave(old.of))
  /\ panel' = [panel EXCEPT !.retry = FALSE]
  /\ UNCHANGED <<store, current, noting, bounds, history, dropped>>

\* The time to the next attempt is over.
RetryFires ==
  /\ panel.retry
  /\ panel' = Effect([panel EXCEPT !.retry = FALSE], current)
  /\ UNCHANGED <<store, queue, current, noting, bounds, history, dropped>>

\* retryStoppedAutosave, the button of a save that stopped
RetryStopped ==
  /\ current # None /\ panel.status # None
  /\ panel.status.chat = current.chat /\ panel.status.retryable
  /\ Ask
  /\ LET c == current.chat IN
     panel' = Effect([panel EXCEPT !.pending[c] = None, !.attempts[c] = None, !.status = None,
                             !.stopped = @ \ {current}], current)
  /\ UNCHANGED <<store, queue, current, noting, history, dropped>>

-----------------------------------------------------------------------------
(* The panel and the page *)

Unseen(c) == c \notin seen
Listed(c) == store[c] # None

\* flushCurrentSessionBeforeSwitch: what is known to be stored is not stored
\* again.
Leave(goal) ==
  IF current = None \/ panel.saved[current.chat] = current
  THEN IF goal.fresh
       THEN /\ queue' = Cancelled(queue)
            /\ ShowOpen(Empty(goal.chat)) /\ noting' = Abandoned(noting)
       ELSE /\ queue' = Append(Cancelled(queue), Load(goal.chat, "panel"))
            /\ noting' = Abandoned(noting)
            /\ UNCHANGED <<current, panel, dropped>>
  ELSE /\ queue' = Append(Cancelled(queue), Flush(current, goal))
       /\ noting' = Abandoned(noting)
       /\ UNCHANGED <<current, panel, dropped>>

NewInPanel(c) ==
  /\ panel.open /\ Unseen(c) /\ Ask
  /\ Leave([chat |-> c, fresh |-> TRUE])
  /\ seen' = seen \cup {c}
  /\ UNCHANGED <<store, deleted, exposed, noted>>

OpenInPanel(c) ==
  /\ panel.open /\ Listed(c) /\ Ask
  /\ Leave([chat |-> c, fresh |-> FALSE])
  /\ UNCHANGED <<store, history>>

\* deleteSavedSession.  retire waits for nothing and holds nothing back: no
\* save of the panel goes through the queue it retires.
DeleteInPanel(c) ==
  /\ panel.open /\ Listed(c) /\ Ask
  /\ queue' = Append(queue, Delete(c, "panel", None))
  /\ exposed' = IF current # None /\ current.chat = c THEN exposed \cup {c} ELSE exposed
  /\ UNCHANGED <<store, current, panel, noting, seen, deleted, noted, dropped>>

\* The Chats page changes the chat in memory without storing it first.
NewInPage(c) ==
  /\ Unseen(c) /\ Ask
  /\ ShowOpen(Empty(c)) /\ noting' = Moved(Empty(c))
  /\ seen' = seen \cup {c}
  /\ UNCHANGED <<store, queue, deleted, exposed, noted>>

OpenInPage(c) ==
  /\ Listed(c) /\ Ask
  /\ queue' = Append(queue, Load(c, "page"))
  /\ UNCHANGED <<store, current, panel, noting, history, dropped>>

\* Mutant: an open chat is deleted without being closed.
DeleteOpenInPage(c) ==
  /\ Listed(c) /\ Ask
  /\ queue' = Append(queue, Delete(c, "page", None))
  /\ UNCHANGED <<store, current, panel, noting, history, dropped>>

\* ... and closes a chat before it deletes it.
DeleteInPage(c) ==
  /\ Listed(c) /\ Ask
  /\ IF current # None /\ current.chat = c
     THEN Show(panel, None) /\ noting' = Abandoned(noting)
     ELSE UNCHANGED <<current, panel, noting, dropped>>
  /\ queue' = Append(queue, Delete(c, "page",
                 IF current # None /\ current.chat = c THEN current ELSE None))
  /\ UNCHANGED <<store, history>>

\* The panel is closed, or its account or token changes: the cleanup stores
\* the open chat, forgets the rest and aborts what runs.  The callbacks of
\* saves on their way reach a closed panel no more.
Orphaned(q, all) ==
  [i \in DOMAIN q |-> IF \/ q[i].by = "panel" /\ q[i].kind \in {"load", "delete"}
                         \/ all /\ q[i].kind \in {"autosave", "flush"}
                      THEN [q[i] EXCEPT !.live = FALSE] ELSE q[i]]

Cleanup(all) ==
  /\ panel.open /\ Ask
  /\ queue' = IF current = None THEN Orphaned(queue, all)
              ELSE Append(Orphaned(queue, all), Farewell(current))
  /\ noting' = Abandoned(noting)
  /\ panel' = IF all THEN Closed ELSE Effect(Fresh, current)
  /\ UNCHANGED <<store, current, history, dropped>>

ClosePanel == Cleanup(TRUE)
AccountChanges == Cleanup(FALSE)

OpenPanel ==
  /\ ~panel.open /\ Ask
  /\ panel' = Effect(Fresh, current)
  /\ UNCHANGED <<store, queue, current, noting, history, dropped>>

\* The tab is reloaded: what no transaction has stored is gone.
Reload ==
  /\ Fail
  /\ queue' = <<>> /\ current' = None /\ noting' = None
  /\ panel' = Closed
  /\ UNCHANGED <<store, history, dropped>>

-----------------------------------------------------------------------------
(* Transactions *)

Stored(s) == store' = [store EXCEPT ![s.chat] = s]

\* A deletion of c is on its way.
Doomed(c, q) == \E i \in DOMAIN q : q[i].kind = "delete" /\ q[i].chat = c

\* Mutant: what is open by now counts as what was saved.
RememberedAsOpen(p, s) ==
  [p EXCEPT !.saved[s.chat] = IF SameChat(s) THEN current ELSE s]

\* What the callbacks of a stored autosave or flush remember
Remembered(p, s) == [p EXCEPT !.saved[s.chat] = s]

Settled(p, s) ==
  [Remembered(p, s) EXCEPT !.pending[s.chat] = IF @ = s THEN None ELSE @,
                           !.attempts[s.chat] = None, !.status = None]

Ending(kind) == queue # <<>> /\ Head(queue).kind = kind

StoreAutosave ==
  /\ Ending("autosave")
  /\ LET r == Head(queue) IN
     /\ Stored(r.session)
     /\ panel' = IF r.live THEN Settled(panel, r.session) ELSE panel
  /\ queue' = Tail(queue)
  /\ UNCHANGED <<current, noting, bounds, history, dropped>>

\* Mutant: one retry too many.
RetryHelpsOnceMore(permanent, attempts) == ~permanent /\ attempts <= MaxRetries

\* assistantSessionSaveRetryPlan: a save is tried again while that may help,
RetryHelps(permanent, attempts) == ~permanent /\ attempts < MaxRetries

\* ... and one whose content has been replaced is not.
FailAutosave ==
  /\ Ending("autosave") /\ Fail
  /\ queue' = Tail(queue)
  /\ LET r == Head(queue)
         s == r.session
         c == s.chat
         before == IF panel.attempts[c] # None /\ panel.attempts[c].of = s
                   THEN panel.attempts[c].count ELSE 0
     IN \E permanent \in BOOLEAN :
          panel' =
            IF ~r.live THEN panel
            ELSE IF ~RetryHelps(permanent, before)
            THEN [panel EXCEPT !.status = [chat |-> c, kind |-> "stopped",
                                           retryable |-> ~permanent],
                               !.stopped = @ \cup {s}]
            ELSE IF panel.pending[c] # s THEN panel
            ELSE [panel EXCEPT !.pending[c] = None,
                               !.attempts[c] = [of |-> s, count |-> before + 1],
                               !.status = [chat |-> c, kind |-> "retrying", retryable |-> FALSE],
                               !.retry = TRUE]
  /\ UNCHANGED <<store, current, noting, history, dropped>>

StoreFlush ==
  /\ Ending("flush")
  /\ LET r == Head(queue)
         p == IF r.live THEN Remembered(panel, r.session) ELSE panel
     IN
     /\ Stored(r.session)
     /\ IF r.goal.fresh
        THEN LET s == Empty(r.goal.chat) IN
             /\ queue' = Tail(queue)
             /\ Show(IF p.open THEN p ELSE Fresh, s) /\ noting' = Moved(s)
        ELSE /\ queue' = Append(Tail(queue), Load(r.goal.chat, "panel"))
             /\ panel' = p
             /\ UNCHANGED <<current, noting, dropped>>
  /\ UNCHANGED <<bounds, history>>

StoreFarewell ==
  /\ Ending("farewell")
  /\ Stored(Head(queue).session)
  /\ queue' = Tail(queue)
  /\ UNCHANGED <<current, panel, noting, bounds, history, dropped>>

\* A flush that fails stays where it is; a farewell is not missed by anybody.
FailOther ==
  /\ \/ Ending("flush") \/ Ending("farewell") \/ Ending("load")
     \/ (Ending("delete") /\ Head(queue).by = "panel")
  /\ Fail
  /\ queue' = Tail(queue)
  /\ UNCHANGED <<store, current, panel, noting, history, dropped>>

\* The open chat is what was stored, unless the user has gone elsewhere.
LoadChat ==
  /\ Ending("load")
  /\ queue' = Tail(queue)
  /\ LET r == Head(queue)
         s == store[r.chat]
     IN IF r.live /\ s # None
        THEN /\ ShowOpen(s) /\ noting' = Moved(s)
             /\ exposed' = IF Doomed(r.chat, queue') THEN exposed \cup {r.chat} ELSE exposed
        ELSE UNCHANGED <<current, panel, noting, exposed, dropped>>
  /\ UNCHANGED <<store, bounds, seen, deleted, noted>>

\* What a deletion of the panel closes is the deleted chat; what one after a
\* note closes is the chat that is open.
DeleteChat ==
  /\ Ending("delete")
  /\ LET r == Head(queue) IN
     /\ store' = [store EXCEPT ![r.chat] = None]
     /\ deleted' = deleted \cup {r.chat}
     /\ CASE r.by = "panel" /\ r.live /\ current # None /\ current.chat = r.chat ->
               /\ queue' = Cancelled(Tail(queue))
               /\ Show(panel, None) /\ noting' = Abandoned(noting)
          [] r.by = "note" ->
               queue' = Tail(queue) /\ Show(panel, None) /\ noting' = None
          [] OTHER ->
               queue' = Tail(queue) /\ UNCHANGED <<current, panel, noting, dropped>>
  /\ UNCHANGED <<bounds, seen, exposed, noted>>

\* The page opens the chat again that it closed, whichever is open by then.
FailDeleteInPage ==
  /\ Ending("delete") /\ Head(queue).by = "page" /\ Fail
  /\ queue' = Tail(queue)
  /\ LET back == Head(queue).session IN
     IF back = None THEN UNCHANGED <<current, panel, noting, dropped, exposed>>
     ELSE /\ Show(panel, back) /\ noting' = Moved(back)
          /\ exposed' = IF Doomed(back.chat, queue') THEN exposed \cup {back.chat} ELSE exposed
  /\ UNCHANGED <<store, seen, deleted, noted>>

-----------------------------------------------------------------------------
(* saveCurrentChatAsNote, its note saved whole *)

\* ownsConfirmedMutation
Owns == noting.live /\ current # None /\ current.chat = noting.chat

\* reusableChatNoteOperation: a note that was not finished is taken up again.
Reusable(del) ==
  current.note # None /\ current.note.del = del /\ current.note.status # "complete"

\* Mutant: a note that was only begun counts as appended.
AnyAttempt(del) == Reusable(del)

Appended(del) == Reusable(del) /\ current.note.status \in {"note-saved", "delete-failed"}

\* A chat whose note was appended before only has to be deleted.
SaveAsNote(del) ==
  /\ panel.open /\ current # None /\ current.edits # {} /\ noting = None /\ Ask
  /\ LET skip == del /\ Appended(del) IN
     /\ noting' = [chat |-> current.chat, del |-> del, live |-> TRUE,
                   phase |-> IF skip THEN "refresh" ELSE "pending"]
     /\ queue' = IF skip THEN queue
                 ELSE Append(queue, NoteSave([current EXCEPT !.note = [del |-> del, status |-> "pending"]]))
  /\ UNCHANGED <<store, current, panel, history, dropped>>

\* The two saves of the chat with the state of its note
StoreNote ==
  /\ Ending("note")
  /\ Stored(Head(queue).session)
  /\ queue' = Tail(queue)
  /\ IF Owns
     THEN /\ Show(panel, Head(queue).session)
          /\ noting' = [noting EXCEPT !.phase = IF @ = "pending" THEN "append" ELSE "refresh"]
     ELSE noting' = None /\ UNCHANGED <<current, panel, dropped>>
  /\ UNCHANGED <<bounds, history>>

\* appendAssistantNote
AppendNote ==
  /\ noting # None /\ noting.phase = "append"
  /\ noted' = noted \cup {noting.chat}
  /\ IF Owns
     THEN /\ queue' = Append(queue, NoteSave([current EXCEPT !.note =
                       [del |-> noting.del, status |-> IF noting.del THEN "note-saved" ELSE "complete"]]))
          /\ noting' = [noting EXCEPT !.phase = "saved"]
     ELSE noting' = None /\ UNCHANGED queue
  /\ UNCHANGED <<store, current, panel, bounds, seen, deleted, exposed, dropped>>

\* refreshBookAfterMutation, and the deletion the user asked with the note
AfterNote ==
  /\ noting # None /\ noting.phase = "refresh"
  /\ IF Owns /\ noting.del
     THEN /\ queue' = Append(queue, Delete(noting.chat, "note", None))
          /\ noting' = [noting EXCEPT !.phase = "delete"]
          /\ exposed' = exposed \cup {noting.chat}
     ELSE noting' = None /\ UNCHANGED <<queue, exposed>>
  /\ UNCHANGED <<store, current, panel, bounds, seen, deleted, noted, dropped>>

\* A step of it fails.  The book may have taken the note even so.
FailNote ==
  /\ Fail
  /\ \/ /\ noting # None /\ noting.phase \in {"append", "refresh"}
        /\ UNCHANGED queue
     \/ /\ Ending("note") \/ (Ending("delete") /\ Head(queue).by = "note")
        /\ queue' = Tail(queue)
  /\ noting' = None
  /\ IF /\ noting.del /\ current # None /\ current.chat = noting.chat
        /\ current.note # None /\ current.note.status = "note-saved"
     THEN Show(panel, [current EXCEPT !.note.status = "delete-failed"])
     ELSE UNCHANGED <<current, panel, dropped>>
  /\ noted' \in {noted} \cup IF noting.phase = "append" THEN {noted \cup {noting.chat}} ELSE {}
  /\ UNCHANGED <<store, seen, deleted, exposed>>

\* The author goes to another page, which a note does not outlive.
Navigate ==
  /\ noting # None /\ noting.live /\ Ask
  /\ noting' = Abandoned(noting)
  /\ UNCHANGED <<store, queue, current, panel, history, dropped>>

-----------------------------------------------------------------------------
Transaction ==
  \/ StoreAutosave \/ FailAutosave \/ StoreFlush \/ StoreFarewell \/ FailOther
  \/ LoadChat \/ DeleteChat \/ FailDeleteInPage \/ StoreNote

Next ==
  \/ Edit \/ TimerFires \/ RetryFires \/ RetryStopped
  \/ \E c \in Chats : \/ NewInPanel(c) \/ OpenInPanel(c) \/ DeleteInPanel(c)
                      \/ NewInPage(c) \/ OpenInPage(c) \/ DeleteInPage(c)
  \/ ClosePanel \/ AccountChanges \/ OpenPanel \/ Reload
  \/ Transaction
  \/ \E del \in BOOLEAN : SaveAsNote(del)
  \/ AppendNote \/ AfterNote \/ FailNote \/ Navigate

\* Timers fire and transactions end; nothing makes the author or the book act.
Fairness == WF_vars(TimerFires) /\ WF_vars(RetryFires) /\ WF_vars(Transaction)

Spec == Init /\ [][Next]_vars /\ Fairness

-----------------------------------------------------------------------------
(* Properties *)

Panels == [open : BOOLEAN, saved : [Chats -> Sessions \cup {None}],
           pending : [Chats -> Sessions \cup {None}],
           attempts : [Chats -> [of : Sessions, count : 1..MaxRetries] \cup {None}],
           timer : Sessions \cup {None}, retry : BOOLEAN,
           status : [chat : Chats, kind : {"retrying", "stopped"}, retryable : BOOLEAN] \cup {None},
           stopped : SUBSET Sessions]

\* Every variable keeps its type.
TypeOK ==
  /\ store \in [Chats -> Sessions \cup {None}]
  /\ \A c \in Chats : store[c] # None => store[c].chat = c
  /\ \A i \in DOMAIN queue : queue[i] \in Requests
  /\ current \in Sessions \cup {None}
  /\ panel \in Panels
  /\ noting \in Notings \cup {None}
  /\ made \in 0..MaxEdits /\ asks \in 0..MaxAsks /\ failures \in 0..MaxFailures
  /\ UNION {seen, deleted, exposed, noted} \subseteq Chats
  /\ dropped \subseteq 0..MaxEdits

\* The panel told that saving the open chat stopped.
Stopped == current \in panel.stopped

\* Changes that left the chat in memory apart
Saved ==
  /\ store[current.chat] # None
  /\ store[current.chat].edits \ dropped = current.edits \ dropped

Gone(c) == c \in deleted \/ Doomed(c, queue)

\* A chat that is open and of which nothing is under way, no timer, no retry,
\* no save, and whose saving did not stop with a message, is stored whole
\* (AssistantPanel.tsx, the autosave effect).
QuietMeansSaved ==
  (/\ panel.open /\ current # None
   /\ panel.timer = None /\ ~panel.retry /\ ~Stopped
   /\ \A i \in DOMAIN queue : queue[i].kind = "autosave" => queue[i].session # current
   /\ ~Gone(current.chat))
  => Saved

\* What the panel takes for stored is: flushCurrentSessionBeforeSwitch leaves
\* a chat without a save because of it.
BeliefIsTrue ==
  \A c \in Chats : panel.saved[c] # None /\ c \notin deleted =>
    store[c] # None /\ panel.saved[c].edits \subseteq store[c].edits \cup dropped

\* A save never takes a change from a stored chat, unless the change had left
\* the chat in memory: late saves, retries and farewells write in the order of
\* the author (sessionAutosave.ts, AssistantPanel.tsx).
StoredEditsStay ==
  [][\A c \in Chats : store[c] # None /\ store'[c] # None =>
       store[c].edits \subseteq store'[c].edits \cup dropped]_vars

\* A chat stays deleted, whatever saves of it were under way, unless the tab
\* showed it after its deletion was asked (AssistantChatsPage.tsx closes a chat
\* first).
DeletedStaysDeleted ==
  \A c \in deleted \ exposed : store[c] = None

\* A chat is deleted after a note only when a note of it was appended, in this
\* attempt or in one before (chatNoteSave.ts, saveCurrentChatAsNote).
ArchivedBeforeDeleted ==
  \A i \in DOMAIN queue :
    queue[i].kind = "delete" /\ queue[i].by = "note" => queue[i].chat \in noted

\* Every chat left open is stored in the end, or the panel says that it is not.
EditsSettle ==
  []<>(\/ current = None \/ ~panel.open \/ Gone(current.chat) \/ Stopped
       \/ Saved)
=============================================================================
