----------------------------- MODULE PhoneChat -----------------------------
(***************************************************************************)
(* The chat of the phone (BuyerViewModel.kt with ChatTimeline of the       *)
(* shared core) over the paged history of the host (buyer_routes.py): the  *)
(* latest page, earlier pages and the live turn arrive in any order, while *)
(* the user changes the conversation, stops, signs out and comes back, and *)
(* other devices go on writing.  A cancelled request may end late; it      *)
(* delivers nothing, but its catch and finally clauses run.  Messages are  *)
(* their ids, which the host counts in each conversation; texts and cards  *)
(* are left out.                                                           *)
(***************************************************************************)
EXTENDS Integers, SequencesExt

CONSTANTS
  Conversations,  \* conversations of the buyer
  None,           \* no conversation
  Slots,          \* bound: coroutines of the chat that have not ended
  PageSize,       \* messages on a page (30 in the code)
  MaxMessages     \* bound: messages of a conversation

ASSUME PhoneAssumption == PageSize \in Nat \ {0} /\ None \notin Conversations

VARIABLES
  history,    \* host: the number of messages of a conversation
  exists,     \* host: the conversations created
  signedIn, stored,                                \* BuyerStorage
  key, historyLoaded, loadingHistory, loadingEarlier, streaming,  \* ChatState
  session, messages, nextBefore, assistantId,      \* ChatTimeline
  jobs,       \* the coroutines
  known       \* history: messages the host had when it read the latest page

hostVars == <<history, exists>>
storeVars == <<signedIn, stored>>
chatVars == <<key, historyLoaded, loadingHistory, loadingEarlier, streaming>>
timelineVars == <<session, messages, nextBefore, assistantId, known>>
vars == <<hostVars, storeVars, chatVars, timelineVars, jobs>>

\* "owns": the generations a coroutine started with are still current.
NoJob == [kind |-> "none", conversation |-> None, before |-> 0, phase |-> "none",
          owns |-> FALSE, cancelled |-> FALSE, page |-> <<>>, known |-> 0]

Init ==
  /\ history = [c \in Conversations |-> 0] /\ exists = {}
  /\ signedIn = FALSE /\ stored = None
  /\ key = None /\ historyLoaded = TRUE
  /\ loadingHistory = FALSE /\ loadingEarlier = FALSE /\ streaming = FALSE
  /\ session = None /\ messages = <<>> /\ nextBefore = 0 /\ assistantId = 0
  /\ known = 0
  /\ jobs = [j \in Slots |-> NoJob]

-----------------------------------------------------------------------------
(* The host. *)

\* conversation_messages: the last messages, or the last before a cursor; the
\* host counts the messages of a conversation from 1.
Page(c, before) ==
  LET last == IF before = 0 \/ before > history[c] THEN history[c] ELSE before - 1
      count == IF last > PageSize THEN PageSize ELSE last
  IN [i \in 1 .. count |-> last - count + i]

\* next_before: the first message of a page that is not the oldest.
Cursor(page) == IF page # <<>> /\ page[1] > 1 THEN page[1] ELSE 0

ReadPage(j) ==
  /\ jobs[j].kind \in {"restore", "earlier"} /\ jobs[j].phase = "asked"
  /\ jobs' = [jobs EXCEPT ![j].phase = "answered",
                          ![j].page = Page(jobs[j].conversation, jobs[j].before),
                          ![j].known = history[jobs[j].conversation]]
  /\ UNCHANGED <<hostVars, storeVars, chatVars, timelineVars>>

Turn(c) ==
  /\ history[c] + 2 <= MaxMessages
  /\ history' = [history EXCEPT ![c] = @ + 2]
  /\ UNCHANGED exists

\* begin_turn; turn_started is on its way with the ids of the two messages.
TurnBegins(j) ==
  /\ jobs[j].kind = "chat" /\ jobs[j].phase = "sent"
  /\ Turn(jobs[j].conversation)
  /\ jobs' = [jobs EXCEPT ![j].phase = "begun",
                          ![j].before = history[jobs[j].conversation] + 1]
  /\ UNCHANGED <<storeVars, chatVars, timelineVars>>

\* A turn of another device, or of a request nobody waits for any more.
OtherTurn(c) ==
  /\ Turn(c) /\ c \in exists
  /\ UNCHANGED <<storeVars, chatVars, timelineVars, jobs>>

OtherConversation(c) ==
  /\ exists' = exists \cup {c}
  /\ UNCHANGED <<history, storeVars, chatVars, timelineVars, jobs>>

-----------------------------------------------------------------------------
(* Coroutines. *)

\* Fault: an answer is taken if its conversation is on the screen.
OwnsByConversation(j) == signedIn /\ stored = jobs[j].conversation

\* ownsRequest and ownsTurn.
Owns(j) ==
  /\ signedIn /\ jobs[j].owns
  /\ stored = jobs[j].conversation \/ jobs[j].phase = "creating"

\* The coroutines of these kinds are cancelled, those the new generations
\* concern no longer own anything, and a new one takes a free slot.
Launched(j, cancelled, disowned, job) ==
  jobs' = [i \in Slots |->
             IF i = j THEN job
             ELSE [jobs[i] EXCEPT !.cancelled = @ \/ jobs[i].kind \in cancelled,
                                  !.owns = @ /\ jobs[i].kind \notin disowned]]

Kinds == {"restore", "earlier", "chat"}

ClearTimeline ==
  /\ session' = None /\ messages' = <<>> /\ nextBefore' = 0 /\ assistantId' = 0
  /\ known' = 0

\* ChatTimeline.interrupt
Interrupt == assistantId' = 0 /\ UNCHANGED <<session, messages, nextBefore, known>>

\* clearChatRequests and a fresh ChatState.
ClearChat ==
  /\ jobs' = [i \in Slots |-> [jobs[i] EXCEPT !.cancelled = TRUE, !.owns = FALSE]]
  /\ ClearTimeline
  /\ key' = None /\ historyLoaded' = TRUE
  /\ loadingHistory' = FALSE /\ loadingEarlier' = FALSE /\ streaming' = FALSE

SignOut == ClearChat /\ signedIn' = FALSE /\ UNCHANGED <<hostVars, stored>>

\* The finally clauses: the flag of the coroutine is reset if it owns it.
Finally(j) ==
  LET ends(kind) == Owns(j) /\ jobs[j].kind = kind
  IN /\ loadingHistory' = (loadingHistory /\ ~ends("restore"))
     /\ loadingEarlier' = (loadingEarlier /\ ~ends("earlier"))
     /\ streaming' = (streaming /\ ~ends("chat"))
     /\ jobs' = [jobs EXCEPT ![j] = NoJob]
     /\ UNCHANGED key

\* An exception, a cancellation, or an answer that is not owned any more.
JobFails(j) ==
  /\ jobs[j].kind # "none"
  /\ Finally(j)
  /\ IF Owns(j) /\ jobs[j].kind = "chat" THEN Interrupt ELSE UNCHANGED timelineVars
  /\ UNCHANGED <<hostVars, storeVars, historyLoaded>>

\* 401 to a request that is owned signs the user out.
Unauthorized(j) ==
  /\ jobs[j].kind # "none" /\ ~jobs[j].cancelled /\ Owns(j)
  /\ SignOut

-----------------------------------------------------------------------------
(* History. *)

\* restoreChat: readable history of the same conversation stays.
Restore(j, c) ==
  LET keeps == key = c /\ historyLoaded
  IN /\ jobs[j] = NoJob
     /\ Launched(j, {"restore", "earlier"}, Kinds,
          [NoJob EXCEPT !.kind = "restore", !.conversation = c, !.phase = "asked",
                        !.owns = TRUE])
     /\ IF keeps THEN UNCHANGED timelineVars ELSE ClearTimeline
     /\ key' = c /\ historyLoaded' = keeps
     /\ loadingHistory' = TRUE /\ loadingEarlier' = FALSE
     /\ UNCHANGED <<hostVars, streaming>>

restoreChat(j) ==
  /\ signedIn /\ ~streaming /\ stored # None
  /\ Restore(j, stored)
  /\ UNCHANGED storeVars

selectChat(j, c) ==
  /\ signedIn /\ ~streaming /\ c \in exists
  /\ stored' = c
  /\ Restore(j, c)
  /\ UNCHANGED signedIn

Restored(j) ==
  /\ jobs[j].kind = "restore" /\ jobs[j].phase = "answered"
  /\ ~jobs[j].cancelled /\ Owns(j)
  /\ session' = jobs[j].conversation
  /\ messages' = jobs[j].page
  /\ nextBefore' = Cursor(jobs[j].page)
  /\ assistantId' = 0
  /\ known' = jobs[j].known
  /\ historyLoaded' = TRUE
  /\ Finally(j)
  /\ UNCHANGED <<hostVars, storeVars>>

loadEarlierMessages(j) ==
  /\ signedIn /\ stored # None
  /\ nextBefore # 0 /\ historyLoaded /\ ~loadingHistory /\ ~loadingEarlier
  /\ jobs[j] = NoJob
  /\ Launched(j, {}, {},
       [NoJob EXCEPT !.kind = "earlier", !.conversation = stored, !.phase = "asked",
                     !.before = nextBefore, !.owns = TRUE])
  /\ loadingEarlier' = TRUE
  /\ UNCHANGED <<hostVars, storeVars, key, historyLoaded, loadingHistory, streaming,
                 timelineVars>>

\* prependPage: the page ends before its cursor and is prepended at most once.
Prepended(j) ==
  /\ jobs[j].kind = "earlier" /\ jobs[j].phase = "answered"
  /\ ~jobs[j].cancelled /\ Owns(j)
  /\ nextBefore = jobs[j].before /\ session = jobs[j].conversation
  /\ messages' = jobs[j].page \o messages
  /\ nextBefore' = Cursor(jobs[j].page)
  /\ Finally(j)
  /\ UNCHANGED <<hostVars, storeVars, historyLoaded, session, assistantId, known>>

-----------------------------------------------------------------------------
(* Turns. *)

\* Fault: the first page is not waited for.
sendAtOnce(j) ==
  /\ signedIn /\ ~streaming /\ jobs[j] = NoJob
  /\ Launched(j, {}, {"restore", "chat"},
       [NoJob EXCEPT !.kind = "chat", !.conversation = stored, !.owns = TRUE,
                     !.phase = IF stored = None THEN "creating" ELSE "sent"])
  /\ streaming' = TRUE
  /\ key' = IF stored = None THEN key ELSE stored
  /\ UNCHANGED <<hostVars, storeVars, historyLoaded, loadingHistory, loadingEarlier,
                 timelineVars>>

\* Without a stored conversation one is created first.
send(j) ==
  /\ signedIn /\ ~streaming /\ historyLoaded /\ ~loadingHistory /\ jobs[j] = NoJob
  /\ Launched(j, {}, {"restore", "chat"},
       [NoJob EXCEPT !.kind = "chat", !.conversation = stored, !.owns = TRUE,
                     !.phase = IF stored = None THEN "creating" ELSE "sent"])
  /\ streaming' = TRUE
  /\ key' = IF stored = None THEN key ELSE stored
  /\ UNCHANGED <<hostVars, storeVars, historyLoaded, loadingHistory, loadingEarlier,
                 timelineVars>>

Created(j, c) ==
  /\ jobs[j].phase = "creating" /\ ~jobs[j].cancelled /\ Owns(j)
  /\ c \notin exists /\ exists' = exists \cup {c}
  /\ stored' = c /\ key' = c
  /\ jobs' = [jobs EXCEPT ![j].conversation = c, ![j].phase = "sent"]
  /\ UNCHANGED <<history, signedIn, historyLoaded, loadingHistory, loadingEarlier,
                 streaming, timelineVars>>

\* ChatTimeline.begin on turn_started.
Started(j) ==
  LET user == jobs[j].before IN
    /\ jobs[j].phase = "begun" /\ ~jobs[j].cancelled /\ Owns(j)
    /\ session \in {None, jobs[j].conversation}
    /\ \A m \in Range(messages) : m < user
    /\ messages' = messages \o <<user, user + 1>>
    /\ session' = jobs[j].conversation
    /\ assistantId' = user + 1
    /\ jobs' = [jobs EXCEPT ![j].phase = "started"]
    /\ UNCHANGED <<hostVars, storeVars, chatVars, nextBefore, known>>

\* turn_complete: the reply is closed; cart and orders are read once more.
Completed(j) ==
  /\ jobs[j].phase = "started" /\ ~jobs[j].cancelled /\ Owns(j)
  /\ assistantId # 0 /\ assistantId = Last(messages)
  /\ Interrupt
  /\ jobs' = [jobs EXCEPT ![j].phase = "reading"]
  /\ UNCHANGED <<hostVars, storeVars, chatVars>>

stopChat ==
  /\ \E j \in Slots :
       /\ jobs[j].kind = "chat" /\ ~jobs[j].cancelled
       /\ jobs' = [jobs EXCEPT ![j].cancelled = TRUE]
  /\ UNCHANGED <<hostVars, storeVars, chatVars, timelineVars>>

newChat ==
  /\ signedIn /\ ~streaming
  /\ ClearChat
  /\ stored' = None
  /\ UNCHANGED <<hostVars, signedIn>>

-----------------------------------------------------------------------------
(* Sessions of the user and of the process. *)

logout == signedIn /\ SignOut

\* The conversation is stored for the account and restored with it.
Return(j) ==
  IF stored = None
  THEN UNCHANGED <<hostVars, chatVars, timelineVars, jobs>>
  ELSE Restore(j, stored)

login(j) ==
  /\ ~signedIn
  /\ signedIn' = TRUE
  /\ Return(j)
  /\ UNCHANGED stored

\* The process dies; the next one starts signed in, or signed out.
Restart ==
  /\ jobs' = [j \in Slots |-> NoJob]
  /\ ClearTimeline
  /\ key' = None /\ historyLoaded' = TRUE
  /\ loadingHistory' = FALSE /\ loadingEarlier' = FALSE /\ streaming' = FALSE
  /\ signedIn' = FALSE
  /\ UNCHANGED <<hostVars, stored>>

Next ==
  \/ \E j \in Slots :
       \/ ReadPage(j) \/ TurnBegins(j) \/ JobFails(j) \/ Unauthorized(j)
       \/ restoreChat(j) \/ Restored(j) \/ loadEarlierMessages(j) \/ Prepended(j)
       \/ send(j) \/ Started(j) \/ Completed(j) \/ login(j)
       \/ \E c \in Conversations : selectChat(j, c) \/ Created(j, c)
  \/ stopChat \/ newChat \/ logout \/ Restart
  \/ \E c \in Conversations : OtherTurn(c) \/ OtherConversation(c)

Spec == Init /\ [][Next]_vars

-----------------------------------------------------------------------------
Shown == Range(messages)

\* What is shown belongs to the conversation on the screen, in its order and each
\* message once; from the cursor on nothing is missing of what the host had when
\* it read the latest page, however pages, turns, stops and changes of the
\* conversation interleave; and a running turn keeps its reply as the last message
\* (BuyerViewModel.kt:557-683, ChatReducer.kt:43-116, buyer_routes.py:335-354).
ShownIsHistory ==
  /\ \A i \in 1 .. Len(messages) - 1 : messages[i] < messages[i + 1]
  /\ messages # <<>> =>
       /\ session = key /\ key = stored
       /\ Shown \subseteq 1 .. history[key]
       /\ (IF nextBefore = 0 THEN 1 ELSE nextBefore) .. known \subseteq Shown
  /\ \A j \in Slots :
       jobs[j].phase = "started" /\ Owns(j) =>
         messages # <<>> /\ Last(messages) = jobs[j].before + 1 /\ assistantId = jobs[j].before + 1

\* The screen waits only for a request that will end the wait: every busy flag,
\* which blocks sending, paging or changing the conversation, has a coroutine under
\* way that owns it (BuyerViewModel.kt:557-683).
BusyHasOwner ==
  LET owned(kind) == \E j \in Slots : jobs[j].kind = kind /\ Owns(j)
  IN /\ loadingHistory => owned("restore")
     /\ loadingEarlier => owned("earlier")
     /\ streaming => owned("chat")
=============================================================================
