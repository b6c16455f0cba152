-------------------------- MODULE PhoneChatProofs --------------------------
(***************************************************************************)
(* Theorems about PhoneChat for any conversations, coroutines, page size   *)
(* and number of messages.                                                 *)
(***************************************************************************)
EXTENDS PhoneChat, SequenceTheorems, TLAPS

ChatPhases == {"creating", "sent", "begun", "started", "reading"}

Jobs ==
  [kind : Kinds \cup {"none"}, conversation : Conversations \cup {None}, before : Nat,
   phase : ChatPhases \cup {"none", "asked", "answered"}, owns : BOOLEAN,
   cancelled : BOOLEAN, page : Seq(Nat), known : Nat]

HostOK == history \in [Conversations -> Nat] /\ exists \subseteq Conversations

ScreenOK ==
  /\ stored \in Conversations \cup {None} /\ key \in Conversations \cup {None}
  /\ session \in Conversations \cup {None}
  /\ nextBefore \in Nat /\ assistantId \in Nat /\ known \in Nat

FlagsOK ==
  /\ signedIn \in BOOLEAN /\ historyLoaded \in BOOLEAN
  /\ loadingHistory \in BOOLEAN /\ loadingEarlier \in BOOLEAN /\ streaming \in BOOLEAN

TypeOK ==
  HostOK /\ ScreenOK /\ FlagsOK /\ messages \in Seq(Nat) /\ jobs \in [Slots -> Jobs]

\* The messages of a page follow each other up to the last one, which is there
\* if there are any.
EndsAt(page, last) ==
  /\ Len(page) <= last /\ (last > 0 => Len(page) > 0)
  /\ \A i \in 1 .. Len(page) : page[i] = last - Len(page) + i

\* What a coroutine asked for, and what it was answered by a host that has h.
RestoreSound(h, b) ==
  /\ b.phase \in {"asked", "answered"} /\ b.conversation \in Conversations /\ b.before = 0
  /\ b.phase = "answered" => EndsAt(b.page, b.known) /\ b.known <= h[b.conversation]

EarlierSound(h, b) ==
  /\ b.phase \in {"asked", "answered"} /\ b.conversation \in Conversations
  /\ 1 < b.before /\ b.before <= h[b.conversation]
  /\ b.phase = "answered" => EndsAt(b.page, b.before - 1)

ChatSound(h, b) ==
  /\ b.phase \in ChatPhases
  /\ IF b.phase = "creating" THEN b.conversation = None ELSE b.conversation \in Conversations
  /\ b.phase \in {"begun", "started", "reading"} =>
       b.before > 0 /\ b.before + 1 <= h[b.conversation]

JobSound(h, b) ==
  /\ b.kind = "none" => b.phase = "none" /\ ~b.owns
  /\ b.kind = "restore" => RestoreSound(h, b)
  /\ b.kind = "earlier" => EarlierSound(h, b)
  /\ b.kind = "chat" => ChatSound(h, b)

JobsSound == \A j \in Slots : JobSound(history, jobs[j])

\* The generations stand for what the screen shows: a coroutine that is current
\* works for the conversation on the screen.
OwnersCurrent ==
  \A j \in Slots : jobs[j].owns =>
    /\ signedIn
    /\ IF jobs[j].phase = "creating" THEN stored = None
       ELSE jobs[j].conversation = stored /\ stored = key

\* A turn owns the screen alone: no other turn does, and no latest page.
OwnTurnAlone ==
  \A i, j \in Slots :
    /\ jobs[i].owns /\ jobs[j].owns
    /\ jobs[i].kind = "chat" /\ jobs[j].kind \in {"chat", "restore"}
    => i = j

\* The messages on the screen, and the cursor before them.
TimelineSound ==
  /\ \A i \in 1 .. Len(messages) - 1 : messages[i] < messages[i + 1]
  /\ messages = <<>> => nextBefore = 0 /\ known = 0
  /\ messages # <<>> => key \in Conversations /\ session = key /\ key = stored
  /\ nextBefore # 0 => messages # <<>> /\ messages[1] = nextBefore /\ nextBefore > 1

MessagesHeld ==
  messages # <<>> =>
    \A i \in 1 .. Len(messages) : 0 < messages[i] /\ messages[i] <= history[key]

NothingMissing ==
  messages # <<>> =>
    \A m \in (IF nextBefore = 0 THEN 1 ELSE nextBefore) .. known :
      \E i \in 1 .. Len(messages) : messages[i] = m

ReplyLast ==
  \A j \in Slots : jobs[j].owns /\ jobs[j].phase = "started" =>
    /\ messages # <<>> /\ messages[Len(messages)] = jobs[j].before + 1
    /\ assistantId = jobs[j].before + 1

FlagsOwned ==
  /\ loadingHistory => \E j \in Slots : jobs[j].owns /\ jobs[j].kind = "restore"
  /\ loadingEarlier => \E j \in Slots : jobs[j].owns /\ jobs[j].kind = "earlier"
  /\ streaming => \E j \in Slots : jobs[j].owns /\ jobs[j].kind = "chat"

IInv ==
  /\ TypeOK /\ JobsSound /\ OwnersCurrent /\ OwnTurnAlone
  /\ TimelineSound /\ MessagesHeld /\ NothingMissing /\ ReplyLast /\ FlagsOwned

-----------------------------------------------------------------------------
(* The operators. *)

\* A page of the host is a run of messages up to the newest, or up to the cursor.
LEMMA PageEnds ==
  ASSUME NEW c \in Conversations, history \in [Conversations -> Nat], NEW before \in Nat,
         before # 0 => 1 < before /\ before <= history[c]
  PROVE  /\ Page(c, before) \in Seq(Nat)
         /\ EndsAt(Page(c, before), IF before = 0 THEN history[c] ELSE before - 1)
<1> DEFINE last == IF before = 0 THEN history[c] ELSE before - 1
           count == IF last > PageSize THEN PageSize ELSE last
           page == [i \in 1 .. count |-> last - count + i]
<1>1. last \in Nat /\ count \in Nat /\ count <= last /\ (last > 0 => count > 0)
  BY PhoneAssumption
<1>2. Page(c, before) = page
  BY DEF Page
<1> HIDE DEF last, count
<1>3. page \in [1 .. count -> Nat]
  BY <1>1
<1>4. page \in Seq(Nat)
  BY <1>1, <1>3, SeqDef
<1>5. Len(page) = count
  BY <1>1, <1>3, <1>4, LenProperties
<1>6. EndsAt(page, last)
  BY <1>1, <1>5 DEF EndsAt
<1> QED BY <1>2, <1>4, <1>6 DEF last

\* A coroutine that is current owns what it asked for.
LEMMA OwnsIs ==
  ASSUME IInv, NEW j \in Slots
  PROVE  Owns(j) <=> jobs[j].owns
BY DEF IInv, TypeOK, OwnersCurrent, Owns, FlagsOK, Jobs

-----------------------------------------------------------------------------
(* What remains to be shown of a step of one coroutine. *)

\* The coroutine b is a, possibly cancelled or no longer current.
Weaker(a, b) ==
  /\ b.kind = a.kind /\ b.conversation = a.conversation /\ b.before = a.before
  /\ b.phase = a.phase /\ b.page = a.page /\ b.known = a.known
  /\ b.owns => a.owns

\* What was sound stays sound while messages are added to the host.
LEMMA WeakerSound ==
  ASSUME NEW h \in [Conversations -> Nat], NEW g \in [Conversations -> Nat],
         \A c \in Conversations : h[c] <= g[c],
         NEW a \in Jobs, NEW b \in Jobs, Weaker(a, b), JobSound(h, a)
  PROVE  JobSound(g, b)
<1>1. b.kind = "none" => b.phase = "none" /\ ~b.owns
  BY DEF Weaker, JobSound
<1>2. ASSUME b.kind = "restore" PROVE RestoreSound(g, b)
  <2>1. RestoreSound(h, a)
    BY <1>2 DEF JobSound, Weaker
  <2>2. a.known \in Nat /\ h[a.conversation] \in Nat /\ g[a.conversation] \in Nat
    BY <2>1 DEF Jobs, RestoreSound
  <2>3. h[a.conversation] <= g[a.conversation]
    BY <2>1 DEF RestoreSound
  <2> QED BY <2>1, <2>2, <2>3 DEF RestoreSound, Weaker
<1>3. ASSUME b.kind = "earlier" PROVE EarlierSound(g, b)
  <2>1. EarlierSound(h, a)
    BY <1>3 DEF JobSound, Weaker
  <2>2. a.before \in Nat /\ h[a.conversation] \in Nat /\ g[a.conversation] \in Nat
    BY <2>1 DEF Jobs, EarlierSound
  <2>3. h[a.conversation] <= g[a.conversation]
    BY <2>1 DEF EarlierSound
  <2> QED BY <2>1, <2>2, <2>3 DEF EarlierSound, Weaker
<1>4. ASSUME b.kind = "chat" PROVE ChatSound(g, b)
  <2>1. ChatSound(h, a)
    BY <1>4 DEF JobSound, Weaker
  <2>2. CASE a.phase \in {"begun", "started", "reading"}
    <3>1. a.before \in Nat /\ h[a.conversation] \in Nat /\ g[a.conversation] \in Nat
      BY <2>1, <2>2 DEF Jobs, ChatSound
    <3>2. h[a.conversation] <= g[a.conversation]
      BY <2>1, <2>2 DEF ChatSound
    <3> QED BY <2>1, <2>2, <3>1, <3>2 DEF ChatSound, Weaker
  <2>3. CASE a.phase \notin {"begun", "started", "reading"}
    BY <2>1, <2>3 DEF ChatSound, Weaker
  <2> QED BY <2>2, <2>3
<1> QED BY <1>1, <1>2, <1>3, <1>4 DEF JobSound

HostGrows == HostOK' /\ \A c \in Conversations : history[c] <= history'[c]

OthersKept(j) == jobs' \in [Slots -> Jobs] /\ \A i \in Slots \ {j} : Weaker(jobs[i], jobs'[i])

LEMMA SoundAfter ==
  ASSUME IInv, NEW j \in Slots, HostGrows, OthersKept(j), JobSound(history', jobs'[j])
  PROVE  JobsSound'
<1> SUFFICES ASSUME NEW i \in Slots PROVE JobSound(history', jobs'[i])
  BY DEF JobsSound
<1>1. CASE i = j
  BY <1>1
<1>2. CASE i # j
  <2>1. jobs[i] \in Jobs /\ jobs'[i] \in Jobs /\ Weaker(jobs[i], jobs'[i])
    BY <1>2 DEF IInv, TypeOK, OthersKept
  <2>2. history \in [Conversations -> Nat] /\ history' \in [Conversations -> Nat]
    BY DEF IInv, TypeOK, HostOK, HostGrows
  <2>3. JobSound(history, jobs[i])
    BY DEF IInv, JobsSound
  <2> QED BY <2>1, <2>2, <2>3, WeakerSound DEF HostGrows
<1> QED BY <1>1, <1>2

\* A step that makes no coroutine current, while the screen shows the same.
LEMMA OwnersAfter ==
  ASSUME IInv, NEW j \in Slots, OthersKept(j), UNCHANGED <<signedIn, stored, key>>,
         jobs'[j].owns =>
           /\ jobs[j].owns /\ jobs'[j].kind = jobs[j].kind
           /\ jobs'[j].conversation = jobs[j].conversation
           /\ jobs'[j].phase = "creating" <=> jobs[j].phase = "creating"
  PROVE  OwnersCurrent' /\ OwnTurnAlone'
<1>1. \A i \in Slots : jobs'[i].owns =>
        /\ jobs[i].owns /\ jobs'[i].kind = jobs[i].kind
        /\ jobs'[i].conversation = jobs[i].conversation
        /\ jobs'[i].phase = "creating" <=> jobs[i].phase = "creating"
  BY DEF OthersKept, Weaker
<1>2. OwnersCurrent'
  BY <1>1 DEF IInv, OwnersCurrent
<1>3. OwnTurnAlone'
  BY <1>1 DEF IInv, OwnTurnAlone
<1> QED BY <1>2, <1>3

LEMMA ReplyAfter ==
  ASSUME IInv, NEW j \in Slots, OthersKept(j), UNCHANGED <<messages, assistantId>>,
         jobs'[j].owns /\ jobs'[j].phase = "started" =>
           jobs[j].owns /\ jobs[j].phase = "started" /\ jobs'[j].before = jobs[j].before
  PROVE  ReplyLast'
<1>1. \A i \in Slots : jobs'[i].owns /\ jobs'[i].phase = "started" =>
        jobs[i].owns /\ jobs[i].phase = "started" /\ jobs'[i].before = jobs[i].before
  BY DEF OthersKept, Weaker
<1> QED BY <1>1 DEF IInv, ReplyLast

\* What the screen shows stays right while messages are added to the host only.
LEMMA TimelineKept ==
  ASSUME IInv, UNCHANGED <<session, messages, nextBefore, known>>, HostGrows,
         messages # <<>> => key' = key /\ stored' = stored
  PROVE  TimelineSound' /\ MessagesHeld' /\ NothingMissing'
<1>1. TimelineSound'
  BY DEF IInv, TimelineSound
<1>2. MessagesHeld'
  <2> SUFFICES ASSUME messages # <<>>, NEW i \in 1 .. Len(messages)
               PROVE  0 < messages[i] /\ messages[i] <= history'[key]
    BY DEF MessagesHeld
  <2>1. key \in Conversations /\ messages[i] \in Nat /\ history[key] \in Nat
    BY DEF IInv, TimelineSound, TypeOK, HostOK
  <2>2. history'[key] \in Nat /\ history[key] <= history'[key]
    BY <2>1 DEF HostGrows, HostOK
  <2> QED BY <2>1, <2>2 DEF IInv, MessagesHeld
<1>3. NothingMissing'
  BY DEF IInv, NothingMissing
<1> QED BY <1>1, <1>2, <1>3

\* The steps of the host and of cancellation leave the screen alone.
LEMMA ScreenKept ==
  ASSUME IInv, NEW j \in Slots, HostGrows, OthersKept(j), JobSound(history', jobs'[j]),
         UNCHANGED <<storeVars, chatVars, timelineVars>>,
         \A i \in Slots : jobs'[i].owns <=> jobs[i].owns,
         jobs'[j].kind = jobs[j].kind, jobs'[j].conversation = jobs[j].conversation,
         jobs'[j].phase = "creating" <=> jobs[j].phase = "creating",
         jobs'[j].phase = "started" =>
           jobs[j].phase = "started" /\ jobs'[j].before = jobs[j].before
  PROVE  IInv'
<1>1. TypeOK'
  BY DEF IInv, TypeOK, HostGrows, OthersKept, ScreenOK, FlagsOK, storeVars, chatVars, timelineVars
<1>2. JobsSound'
  BY SoundAfter
<1>3. OwnersCurrent' /\ OwnTurnAlone'
  BY OwnersAfter DEF storeVars, chatVars
<1>4. TimelineSound' /\ MessagesHeld' /\ NothingMissing'
  BY TimelineKept DEF timelineVars, storeVars, chatVars
<1>5. ReplyLast'
  BY ReplyAfter DEF timelineVars
<1>6. \A i \in Slots : jobs'[i].kind = jobs[i].kind
  BY DEF OthersKept, Weaker
<1>7. FlagsOwned'
  BY <1>6 DEF IInv, FlagsOwned, chatVars
<1> QED BY <1>1, <1>2, <1>3, <1>4, <1>5, <1>7 DEF IInv

-----------------------------------------------------------------------------
(* The host. *)

LEMMA ReadPageKeeps ==
  ASSUME IInv, NEW j \in Slots, ReadPage(j)
  PROVE  IInv'
<1> DEFINE b == jobs[j]
           c == b.conversation
           page == Page(c, b.before)
<1>1. b \in Jobs /\ JobSound(history, b) /\ history \in [Conversations -> Nat]
  BY DEF IInv, TypeOK, HostOK, JobsSound
<1>2. c \in Conversations /\ b.before \in Nat
      /\ (b.before # 0 => 1 < b.before /\ b.before <= history[c])
  BY <1>1 DEF ReadPage, JobSound, RestoreSound, EarlierSound, Jobs
<1>3. page \in Seq(Nat) /\ EndsAt(page, IF b.before = 0 THEN history[c] ELSE b.before - 1)
  BY <1>1, <1>2, PageEnds
<1>4. HostGrows
  BY DEF ReadPage, HostGrows, hostVars, IInv, TypeOK, HostOK
<1> HIDE DEF page
<1> DEFINE a == [b EXCEPT !.phase = "answered", !.page = page, !.known = history[c]]
<1>5. jobs' = [jobs EXCEPT ![j] = a]
  BY DEF ReadPage, page, IInv, TypeOK
<1>6. a \in Jobs /\ history[c] \in Nat
  BY <1>1, <1>2, <1>3 DEF Jobs, ChatPhases
<1>7. /\ a.kind = b.kind /\ a.conversation = c /\ a.before = b.before /\ a.owns = b.owns
      /\ a.phase = "answered" /\ a.page = page /\ a.known = history[c]
  BY <1>1 DEF Jobs
<1> HIDE DEF a, b
<1>8. JobSound(history, a)
  BY <1>1, <1>2, <1>3, <1>6, <1>7 DEF JobSound, RestoreSound, EarlierSound, ReadPage, b
<1>9. jobs'[j] = a /\ \A i \in Slots \ {j} : jobs'[i] = jobs[i]
  BY <1>5 DEF IInv, TypeOK
<1>10. OthersKept(j)
  BY <1>5, <1>6, <1>9 DEF OthersKept, Weaker, IInv, TypeOK
<1>11. b.phase = "asked"
  BY DEF b, ReadPage
<1>12. history' = history
  BY DEF ReadPage, hostVars
<1>13. UNCHANGED <<storeVars, chatVars, timelineVars>>
  BY DEF ReadPage
<1>14. \A i \in Slots : jobs'[i].owns <=> jobs[i].owns
  BY <1>7, <1>9 DEF b
<1> QED BY <1>4, <1>7, <1>8, <1>9, <1>10, <1>11, <1>12, <1>13, <1>14, ScreenKept DEF b

LEMMA TurnGrows ==
  ASSUME IInv, NEW c \in Conversations, Turn(c)
  PROVE  HostGrows /\ history'[c] = history[c] + 2 /\ history[c] \in Nat
BY DEF IInv, TypeOK, HostOK, Turn, HostGrows

LEMMA TurnBeginsKeeps ==
  ASSUME IInv, NEW j \in Slots, TurnBegins(j)
  PROVE  IInv'
<1> DEFINE b == jobs[j]
           c == b.conversation
           a == [b EXCEPT !.phase = "begun", !.before = history[c] + 1]
<1>1. b \in Jobs /\ JobSound(history, b)
  BY DEF IInv, TypeOK, JobsSound
<1>2. c \in Conversations /\ b.phase = "sent" /\ b.kind = "chat"
  BY <1>1 DEF TurnBegins, JobSound, ChatSound
<1>3. HostGrows /\ history'[c] = history[c] + 2 /\ history[c] \in Nat
  BY <1>2, TurnGrows DEF TurnBegins
<1>4. jobs' = [jobs EXCEPT ![j] = a]
  BY DEF TurnBegins, IInv, TypeOK
<1>5. a \in Jobs
  <2>1. history[c] + 1 \in Nat
    BY <1>3
  <2> QED BY <1>1, <2>1, Zenon DEF Jobs, ChatPhases
<1>6. /\ a.kind = b.kind /\ a.conversation = c /\ a.before = history[c] + 1
      /\ a.owns = b.owns /\ a.phase = "begun"
  BY <1>1 DEF Jobs
<1> HIDE DEF a, b
<1>7. JobSound(history', a)
  BY <1>2, <1>3, <1>6 DEF JobSound, ChatSound, ChatPhases
<1>8. jobs'[j] = a /\ \A i \in Slots \ {j} : jobs'[i] = jobs[i]
  BY <1>4 DEF IInv, TypeOK
<1>9. OthersKept(j)
  BY <1>4, <1>5, <1>8 DEF OthersKept, Weaker, IInv, TypeOK
<1>10. UNCHANGED <<storeVars, chatVars, timelineVars>>
  BY DEF TurnBegins
<1>11. \A i \in Slots : jobs'[i].owns <=> jobs[i].owns
  BY <1>6, <1>8 DEF b
<1> QED BY <1>2, <1>3, <1>6, <1>7, <1>8, <1>9, <1>10, <1>11, ScreenKept DEF b

\* The host alone: no coroutine changes.
LEMMA HostKeeps ==
  ASSUME IInv, HostGrows, UNCHANGED <<storeVars, chatVars, timelineVars, jobs>>
  PROVE  IInv'
<1>1. TypeOK'
  BY DEF IInv, TypeOK, HostGrows, ScreenOK, FlagsOK, storeVars, chatVars, timelineVars
<1>2. JobsSound'
  <2> SUFFICES ASSUME NEW j \in Slots PROVE JobSound(history', jobs[j])
    BY DEF JobsSound
  <2>1. jobs[j] \in Jobs /\ JobSound(history, jobs[j]) /\ Weaker(jobs[j], jobs[j])
    BY DEF IInv, TypeOK, JobsSound, Weaker
  <2> QED BY <2>1, WeakerSound DEF HostGrows, IInv, TypeOK, HostOK
<1>3. TimelineSound' /\ MessagesHeld' /\ NothingMissing'
  BY TimelineKept DEF timelineVars, storeVars, chatVars
<1>4. OwnersCurrent' /\ OwnTurnAlone' /\ ReplyLast' /\ FlagsOwned'
  BY DEF IInv, OwnersCurrent, OwnTurnAlone, ReplyLast, FlagsOwned, storeVars, chatVars,
         timelineVars
<1> QED BY <1>1, <1>2, <1>3, <1>4 DEF IInv

LEMMA OtherTurnKeeps ==
  ASSUME IInv, NEW c \in Conversations, OtherTurn(c)
  PROVE  IInv'
BY TurnGrows, HostKeeps DEF OtherTurn

LEMMA OtherConversationKeeps ==
  ASSUME IInv, NEW c \in Conversations, OtherConversation(c)
  PROVE  IInv'
<1>1. HostGrows
  BY DEF OtherConversation, HostGrows, IInv, TypeOK, HostOK
<1> QED BY <1>1, HostKeeps DEF OtherConversation

-----------------------------------------------------------------------------
(* The end of a coroutine. *)

LEMMA NoJobIs ==
  /\ NoJob \in Jobs /\ NoJob.kind = "none" /\ NoJob.phase = "none" /\ ~NoJob.owns
  /\ NoJob.conversation = None
BY EmptySeq DEF NoJob, Jobs

LEMMA SameHost ==
  ASSUME IInv, UNCHANGED history, exists' \subseteq Conversations
  PROVE  HostGrows
BY DEF IInv, TypeOK, HostOK, HostGrows

\* The flag of a coroutine that ends is reset if it is its own.
LEMMA FinallyKeeps ==
  ASSUME IInv, NEW j \in Slots, Finally(j), UNCHANGED <<hostVars, storeVars>>,
         historyLoaded' \in BOOLEAN
  PROVE  /\ HostGrows /\ OthersKept(j) /\ jobs'[j] = NoJob
         /\ HostOK' /\ FlagsOK' /\ JobsSound' /\ OwnersCurrent' /\ OwnTurnAlone' /\ FlagsOwned'
<1>1. HostGrows
  BY SameHost DEF hostVars, IInv, TypeOK, HostOK
<1>2. jobs' = [jobs EXCEPT ![j] = NoJob]
  BY DEF Finally
<1>3. jobs'[j] = NoJob /\ \A i \in Slots \ {j} : jobs'[i] = jobs[i]
  BY <1>2 DEF IInv, TypeOK
<1>4. OthersKept(j)
  BY <1>2, <1>3, NoJobIs DEF OthersKept, Weaker, IInv, TypeOK
<1>5. JobsSound'
  <2>1. JobSound(history', NoJob)
    BY NoJobIs DEF JobSound
  <2> QED BY <1>1, <1>3, <1>4, <2>1, SoundAfter
<1>6. OwnersCurrent' /\ OwnTurnAlone'
  BY <1>3, <1>4, NoJobIs, OwnersAfter DEF Finally, storeVars
<1>7. FlagsOwned'
  <2>1. loadingHistory' => loadingHistory /\ ~(jobs[j].owns /\ jobs[j].kind = "restore")
    BY OwnsIs DEF Finally
  <2>2. loadingEarlier' => loadingEarlier /\ ~(jobs[j].owns /\ jobs[j].kind = "earlier")
    BY OwnsIs DEF Finally
  <2>3. streaming' => streaming /\ ~(jobs[j].owns /\ jobs[j].kind = "chat")
    BY OwnsIs DEF Finally
  <2>4. loadingHistory' => \E i \in Slots : jobs'[i].owns /\ jobs'[i].kind = "restore"
    BY <1>3, <2>1 DEF IInv, FlagsOwned
  <2>5. loadingEarlier' => \E i \in Slots : jobs'[i].owns /\ jobs'[i].kind = "earlier"
    BY <1>3, <2>2 DEF IInv, FlagsOwned
  <2>6. streaming' => \E i \in Slots : jobs'[i].owns /\ jobs'[i].kind = "chat"
    BY <1>3, <2>3 DEF IInv, FlagsOwned
  <2> QED BY <2>4, <2>5, <2>6 DEF FlagsOwned
<1>8. HostOK' /\ FlagsOK'
  BY <1>1 DEF HostGrows, FlagsOK, Finally, storeVars, IInv, TypeOK
<1> QED BY <1>1, <1>3, <1>4, <1>5, <1>6, <1>7, <1>8

LEMMA JobFailsKeeps ==
  ASSUME IInv, NEW j \in Slots, JobFails(j)
  PROVE  IInv'
<1>1. Finally(j) /\ UNCHANGED <<hostVars, storeVars, historyLoaded>> /\ key' = key
      /\ UNCHANGED <<session, messages, nextBefore, known>>
      /\ ((Owns(j) /\ jobs[j].kind = "chat") \/ assistantId' = assistantId)
      /\ (assistantId' = assistantId \/ assistantId' = 0)
  BY DEF JobFails, Finally, Interrupt, timelineVars
<1>2. historyLoaded' \in BOOLEAN
  BY <1>1 DEF IInv, TypeOK, FlagsOK
<1>3. /\ HostGrows /\ OthersKept(j) /\ jobs'[j] = NoJob
      /\ HostOK' /\ FlagsOK' /\ JobsSound' /\ OwnersCurrent' /\ OwnTurnAlone' /\ FlagsOwned'
  BY <1>1, <1>2, FinallyKeeps
<1>4. TypeOK'
  BY <1>1, <1>3 DEF IInv, TypeOK, ScreenOK, storeVars, OthersKept
<1>5. TimelineSound' /\ MessagesHeld' /\ NothingMissing'
  BY <1>1, <1>3, TimelineKept DEF storeVars
<1>6. ReplyLast'
  <2>1. CASE assistantId' = assistantId
    BY <1>1, <1>3, <2>1, NoJobIs, ReplyAfter
  <2>2. CASE jobs[j].owns /\ jobs[j].kind = "chat"
    <3> SUFFICES ASSUME NEW i \in Slots, jobs'[i].owns, jobs'[i].phase = "started" PROVE FALSE
      BY DEF ReplyLast
    <3>1. i # j
      BY <1>3, NoJobIs
    <3>2. jobs[i].owns /\ jobs[i].phase = "started" /\ JobSound(history, jobs[i])
      BY <1>3, <3>1 DEF OthersKept, Weaker, IInv, JobsSound
    <3>3. jobs[i].kind = "chat"
      BY <3>2 DEF JobSound, RestoreSound, EarlierSound, IInv, TypeOK, Jobs, Kinds
    <3> QED BY <2>2, <3>1, <3>2, <3>3 DEF IInv, OwnTurnAlone
  <2> QED BY <1>1, <2>1, <2>2, OwnsIs
<1> QED BY <1>3, <1>4, <1>5, <1>6 DEF IInv

\* The latest page takes the place of what is shown: no turn owns the screen.
LEMMA RestoredKeeps ==
  ASSUME IInv, NEW j \in Slots, Restored(j)
  PROVE  IInv'
<1> DEFINE b == jobs[j]
           c == b.conversation
           page == b.page
<1>1. /\ Finally(j) /\ UNCHANGED <<hostVars, storeVars, key>> /\ historyLoaded'
      /\ session' = c /\ messages' = page /\ nextBefore' = Cursor(page) /\ assistantId' = 0
      /\ known' = b.known /\ b.kind = "restore" /\ b.phase = "answered"
  BY DEF Restored, Finally
<1>2. b.owns /\ b \in Jobs /\ JobSound(history, b) /\ history \in [Conversations -> Nat]
  BY OwnsIs DEF Restored, IInv, TypeOK, JobsSound, HostOK
<1>3. c \in Conversations /\ EndsAt(page, b.known) /\ b.known <= history[c]
      /\ history[c] \in Nat /\ b.known \in Nat /\ page \in Seq(Nat) /\ Len(page) \in Nat
  BY <1>1, <1>2, LenProperties DEF JobSound, RestoreSound, Jobs
<1>4. c = stored /\ stored = key
  BY <1>1, <1>2 DEF IInv, OwnersCurrent
<1>5. historyLoaded' \in BOOLEAN
  BY <1>1 DEF Restored
<1>6. /\ HostGrows /\ OthersKept(j) /\ jobs'[j] = NoJob
      /\ HostOK' /\ FlagsOK' /\ JobsSound' /\ OwnersCurrent' /\ OwnTurnAlone' /\ FlagsOwned'
  BY <1>1, <1>5, FinallyKeeps
<1>7. \A i \in 1 .. Len(page) : page[i] \in Nat /\ page[i] = b.known - Len(page) + i
  BY <1>3, ElementOfSeq DEF EndsAt
<1>8. /\ Len(page) <= b.known /\ (b.known > 0 => Len(page) > 0)
      /\ (page = <<>> <=> Len(page) = 0)
  BY <1>3, EmptySeq DEF EndsAt
<1>9. Cursor(page) \in Nat
  BY <1>3, <1>7, <1>8 DEF Cursor
<1>10. TypeOK'
  BY <1>1, <1>3, <1>4, <1>6, <1>9 DEF IInv, TypeOK, ScreenOK, storeVars, OthersKept
<1> HIDE DEF b
<1>11. TimelineSound'
  <2>1. \A i \in 1 .. Len(page) - 1 : page[i] < page[i + 1]
    <3> SUFFICES ASSUME NEW i \in 1 .. Len(page) - 1 PROVE page[i] < page[i + 1]
      OBVIOUS
    <3>1. i \in 1 .. Len(page) /\ i + 1 \in 1 .. Len(page) /\ i \in Int
      BY <1>3
    <3>2. page[i] = b.known - Len(page) + i /\ page[i + 1] = b.known - Len(page) + (i + 1)
      BY <1>7, <3>1
    <3> QED BY <1>3, <3>1, <3>2
  <2>2. page = <<>> => Cursor(page) = 0 /\ b.known = 0
    BY <1>3, <1>8 DEF Cursor
  <2>3. Cursor(page) # 0 => page # <<>> /\ page[1] = Cursor(page) /\ Cursor(page) > 1
    BY DEF Cursor
  <2> QED BY <1>1, <1>3, <1>4, <2>1, <2>2, <2>3 DEF TimelineSound, storeVars
<1>12. MessagesHeld'
  BY <1>1, <1>3, <1>4, <1>7, <1>8 DEF MessagesHeld, hostVars
<1>13. NothingMissing'
  <2> SUFFICES ASSUME page # <<>>,
                      NEW m \in (IF Cursor(page) = 0 THEN 1 ELSE Cursor(page)) .. b.known
               PROVE  \E i \in 1 .. Len(page) : page[i] = m
    BY <1>1 DEF NothingMissing
  <2>1. Len(page) > 0 /\ page[1] = b.known - Len(page) + 1
    BY <1>3, <1>7, <1>8
  <2>2. m >= page[1] /\ m <= b.known /\ m \in Int
    BY <1>3, <1>8, <1>9, <2>1 DEF Cursor
  <2> DEFINE k == m - (b.known - Len(page))
  <2>3. k \in 1 .. Len(page)
    BY <1>3, <2>1, <2>2
  <2>4. b.known - Len(page) + k = m
    BY <1>3, <2>2
  <2> HIDE DEF k
  <2> QED BY <1>7, <2>3, <2>4
<1>14. ReplyLast'
  <2> SUFFICES ASSUME NEW i \in Slots, jobs'[i].owns, jobs'[i].phase = "started" PROVE FALSE
    BY DEF ReplyLast
  <2>1. i # j
    BY <1>6, NoJobIs
  <2>2. jobs[i].owns /\ jobs[i].phase = "started" /\ JobSound(history, jobs[i])
    BY <1>6, <2>1 DEF OthersKept, Weaker, IInv, JobsSound
  <2>3. jobs[i].kind = "chat"
    BY <2>2 DEF JobSound, RestoreSound, EarlierSound, IInv, TypeOK, Jobs, Kinds
  <2> QED BY <1>1, <1>2, <2>1, <2>2, <2>3 DEF IInv, OwnTurnAlone, b
<1> QED BY <1>6, <1>10, <1>11, <1>12, <1>13, <1>14 DEF IInv

\* An earlier page is put before the messages it leads up to.
LEMMA PrependedKeeps ==
  ASSUME IInv, NEW j \in Slots, Prepended(j)
  PROVE  IInv'
<1> DEFINE b == jobs[j]
           c == b.conversation
           page == b.page
           all == page \o messages
           p == Len(page)
           n == Len(messages)
<1>1. /\ Finally(j) /\ UNCHANGED <<hostVars, storeVars, key, historyLoaded>>
      /\ session' = session /\ assistantId' = assistantId /\ known' = known
      /\ messages' = all /\ nextBefore' = Cursor(page)
      /\ b.kind = "earlier" /\ b.phase = "answered" /\ b.before = nextBefore
  BY DEF Prepended, Finally
<1>2. b.owns /\ b \in Jobs /\ JobSound(history, b) /\ history \in [Conversations -> Nat]
      /\ messages \in Seq(Nat) /\ nextBefore \in Nat /\ known \in Nat
  BY OwnsIs DEF Prepended, IInv, TypeOK, JobsSound, HostOK, ScreenOK
<1>3. /\ c \in Conversations /\ EndsAt(page, nextBefore - 1) /\ nextBefore <= history[c]
      /\ 1 < nextBefore /\ history[c] \in Nat /\ page \in Seq(Nat) /\ p \in Nat /\ n \in Nat
  BY <1>1, <1>2, LenProperties DEF JobSound, EarlierSound, Jobs
<1>4. c = stored /\ stored = key
  BY <1>1, <1>2 DEF IInv, OwnersCurrent
<1>5. messages # <<>> /\ messages[1] = nextBefore /\ session = key /\ n > 0
  BY <1>2, <1>3, EmptySeq DEF IInv, TimelineSound
<1>6. /\ HostGrows /\ OthersKept(j) /\ jobs'[j] = NoJob
      /\ HostOK' /\ FlagsOK' /\ JobsSound' /\ OwnersCurrent' /\ OwnTurnAlone' /\ FlagsOwned'
  <2>1. historyLoaded' \in BOOLEAN
    BY <1>1 DEF IInv, TypeOK, FlagsOK
  <2> QED BY <1>1, <2>1, FinallyKeeps
<1>7. /\ p > 0 /\ p <= nextBefore - 1 /\ page # <<>> /\ page[1] = nextBefore - p
      /\ \A i \in 1 .. p : page[i] = nextBefore - 1 - p + i
  <2>1. p > 0 /\ p <= nextBefore - 1 /\ \A i \in 1 .. p : page[i] = nextBefore - 1 - p + i
    <3>1. /\ p <= nextBefore - 1 /\ (nextBefore - 1 > 0 => p > 0)
          /\ \A i \in 1 .. p : page[i] = nextBefore - 1 - p + i
      BY <1>3 DEF EndsAt
    <3>2. nextBefore - 1 > 0
      BY <1>2, <1>3
    <3> QED BY <3>1, <3>2
  <2>2. page # <<>>
    BY <2>1, EmptySeq
  <2>3. 1 \in 1 .. p
    BY <1>3, <2>1
  <2> HIDE DEF p
  <2>4. page[1] = nextBefore - p
    BY <1>2, <1>3, <2>1, <2>3
  <2> QED BY <2>1, <2>2, <2>4
<1>8. /\ all \in Seq(Nat) /\ Len(all) = p + n
      /\ \A i \in 1 .. p + n : all[i] = IF i <= p THEN page[i] ELSE messages[i - p]
  BY <1>2, <1>3, ConcatProperties
<1> HIDE DEF b, all, p, n
<1>9. Cursor(page) = (IF nextBefore - p > 1 THEN nextBefore - p ELSE 0)
  BY <1>7 DEF Cursor
<1>10. \A i \in 1 .. n : messages[i] \in Nat /\ 0 < messages[i] /\ messages[i] <= history[c]
  BY <1>2, <1>4, <1>5, ElementOfSeq DEF IInv, MessagesHeld, n
<1>11. TypeOK'
  BY <1>1, <1>3, <1>6, <1>7, <1>8, <1>9 DEF IInv, TypeOK, ScreenOK, storeVars, OthersKept
<1>12. all # <<>> /\ all[1] = nextBefore - p /\ all[Len(all)] = messages[n]
  <2>1. Len(all) > 0 /\ 1 \in 1 .. p + n /\ 1 <= p
    BY <1>3, <1>5, <1>7, <1>8
  <2>2. all # <<>> /\ all[1] = page[1]
    BY <1>8, <2>1, EmptySeq
  <2>3. p + n \in 1 .. p + n /\ ~(p + n <= p) /\ (p + n) - p = n
    BY <1>3, <1>5, <1>7
  <2>4. all[p + n] = messages[n]
    BY <1>8, <2>3
  <2> QED BY <1>7, <1>8, <2>2, <2>4
<1>13. TimelineSound'
  <2>1. ASSUME NEW i \in 1 .. Len(all) - 1 PROVE all[i] < all[i + 1]
    <3>1. i \in Int /\ i \in 1 .. p + n /\ i + 1 \in 1 .. p + n
      BY <1>3, <1>8
    <3>2. CASE i < p
      <4>1. i \in 1 .. p /\ i + 1 \in 1 .. p
        BY <1>3, <3>1, <3>2
      <4>2. i <= p /\ i + 1 <= p
        BY <1>3, <3>1, <3>2
      <4>3. all[i] = page[i] /\ all[i + 1] = page[i + 1]
        BY <1>8, <3>1, <4>2
      <4>4. page[i] = nextBefore - 1 - p + i /\ page[i + 1] = nextBefore - 1 - p + (i + 1)
        BY <1>7, <4>1
      <4> QED BY <1>2, <1>3, <3>1, <4>3, <4>4
    <3>3. CASE i = p
      <4>1. p \in 1 .. p /\ p <= p /\ ~(p + 1 <= p) /\ (p + 1) - p = 1
        BY <1>3, <1>7
      <4>2. all[p] = page[p] /\ all[p + 1] = messages[1]
        BY <1>8, <3>1, <3>3, <4>1
      <4>3. page[p] = nextBefore - 1 - p + p
        BY <1>7, <4>1
      <4> QED BY <1>2, <1>3, <1>5, <3>3, <4>2, <4>3
    <3>4. CASE i > p
      <4>1. i - p \in 1 .. n - 1 /\ i + 1 > p /\ i + 1 - p = (i - p) + 1
        BY <1>3, <3>1, <3>4, <1>8
      <4>2. all[i] = messages[i - p] /\ all[i + 1] = messages[(i - p) + 1]
        BY <1>3, <1>8, <3>1, <3>4, <4>1
      <4> QED BY <4>1, <4>2 DEF IInv, TimelineSound, n
    <3> QED BY <1>3, <3>1, <3>2, <3>3, <3>4
  <2>2. Cursor(page) # 0 => all[1] = Cursor(page) /\ Cursor(page) > 1
    BY <1>2, <1>3, <1>9, <1>12
  <2> QED BY <1>1, <1>3, <1>4, <1>5, <1>12, <2>1, <2>2 DEF TimelineSound, storeVars
<1>14. MessagesHeld'
  <2> SUFFICES ASSUME NEW i \in 1 .. p + n PROVE 0 < all[i] /\ all[i] <= history[c]
    BY <1>1, <1>4, <1>8 DEF MessagesHeld, hostVars
  <2>1. CASE i <= p
    <3>0. i \in 1 .. p
      BY <1>3, <2>1
    <3>1. i \in 1 .. p /\ all[i] = nextBefore - 1 - p + i
      BY <1>7, <1>8, <2>1, <3>0
    <3> QED BY <1>2, <1>3, <1>7, <3>1
  <2>2. CASE ~(i <= p)
    <3>1. i - p \in 1 .. n /\ all[i] = messages[i - p]
      BY <1>3, <1>8, <2>2
    <3> QED BY <1>10, <3>1
  <2> QED BY <2>1, <2>2
<1>15. NothingMissing'
  <2> SUFFICES ASSUME NEW m \in (IF Cursor(page) = 0 THEN 1 ELSE Cursor(page)) .. known
               PROVE  \E i \in 1 .. Len(all) : all[i] = m
    BY <1>1 DEF NothingMissing
  <2>1. m \in Int /\ nextBefore - p <= m /\ m <= known
    BY <1>2, <1>3, <1>7, <1>9
  <2>2. CASE m < nextBefore
    <3> DEFINE k == m - (nextBefore - 1 - p)
    <3>1. k \in 1 .. p /\ k \in 1 .. p + n
      BY <1>2, <1>3, <2>1, <2>2
    <3>2. nextBefore - 1 - p + k = m
      BY <1>2, <1>3, <2>1
    <3> HIDE DEF k
    <3>3. k <= p
      BY <1>3, <3>1
    <3>4. all[k] = nextBefore - 1 - p + k
      BY <1>7, <1>8, <3>1, <3>3
    <3> QED BY <1>8, <3>1, <3>2, <3>4
  <2>3. CASE m >= nextBefore
    <3>1. PICK i \in 1 .. n : messages[i] = m
      BY <1>2, <1>3, <1>5, <2>1, <2>3 DEF IInv, NothingMissing, n
    <3>2. i + p \in 1 .. p + n /\ ~(i + p <= p) /\ (i + p) - p = i
      BY <1>3
    <3>3. all[i + p] = m
      BY <1>8, <3>1, <3>2
    <3> QED BY <1>8, <3>2, <3>3
  <2> QED BY <1>2, <2>1, <2>2, <2>3
<1>16. ReplyLast'
  <2> SUFFICES ASSUME NEW i \in Slots, jobs'[i].owns, jobs'[i].phase = "started"
               PROVE  /\ all[Len(all)] = jobs'[i].before + 1
                      /\ assistantId = jobs'[i].before + 1
    BY <1>1, <1>12 DEF ReplyLast
  <2>1. i # j
    BY <1>6, NoJobIs
  <2>2. jobs[i].owns /\ jobs[i].phase = "started" /\ jobs'[i].before = jobs[i].before
    BY <1>6, <2>1 DEF OthersKept, Weaker
  <2> QED BY <1>12, <2>2 DEF IInv, ReplyLast, n
<1> QED BY <1>6, <1>11, <1>13, <1>14, <1>15, <1>16 DEF IInv

-----------------------------------------------------------------------------
(* Turns. *)

\* A coroutine before a turn is over is one of a turn.
LEMMA TurnPhases ==
  ASSUME IInv, NEW j \in Slots, jobs[j].phase \in ChatPhases
  PROVE  jobs[j].kind = "chat" /\ ChatSound(history, jobs[j])
<1>1. jobs[j] \in Jobs /\ JobSound(history, jobs[j])
  BY DEF IInv, TypeOK, JobsSound
<1>2. jobs[j].kind \in {"none", "restore", "earlier", "chat"}
  BY <1>1 DEF Jobs, Kinds
<1>3. jobs[j].kind = "chat"
  BY <1>1, <1>2 DEF JobSound, RestoreSound, EarlierSound, ChatPhases
<1> QED BY <1>1, <1>3 DEF JobSound

\* A conversation is created for a screen that shows nothing, and nobody else
\* owns anything then.
LEMMA CreatedKeeps ==
  ASSUME IInv, NEW j \in Slots, NEW c \in Conversations, Created(j, c)
  PROVE  IInv'
<1> DEFINE b == jobs[j]
           a == [b EXCEPT !.conversation = c, !.phase = "sent"]
<1>1. /\ b.phase = "creating" /\ stored' = c /\ key' = c /\ exists' = exists \cup {c}
      /\ UNCHANGED <<history, signedIn, historyLoaded, loadingHistory, loadingEarlier,
                     streaming, session, messages, nextBefore, assistantId, known>>
  BY DEF Created, timelineVars
<1>2. jobs' = [jobs EXCEPT ![j] = a]
  BY DEF Created, IInv, TypeOK
<1>3. b \in Jobs /\ b.owns /\ b.kind = "chat"
  BY <1>1, TurnPhases, OwnsIs DEF Created, IInv, TypeOK, ChatPhases
<1>4. a \in Jobs
  BY <1>3, Zenon DEF Jobs, ChatPhases
<1>5. /\ a.kind = "chat" /\ a.conversation = c /\ a.before = b.before
      /\ a.owns /\ a.phase = "sent"
  BY <1>3 DEF Jobs
<1> HIDE DEF a, b
<1>6. jobs'[j] = a /\ \A i \in Slots \ {j} : jobs'[i] = jobs[i]
  BY <1>2 DEF IInv, TypeOK
<1>7. OthersKept(j)
  BY <1>2, <1>4, <1>6 DEF OthersKept, Weaker, IInv, TypeOK
<1>8. HostGrows
  BY <1>1, SameHost DEF IInv, TypeOK, HostOK
<1>9. JobSound(history', a)
  BY <1>5 DEF JobSound, ChatSound, ChatPhases
<1>10. JobsSound'
  BY <1>6, <1>7, <1>8, <1>9, SoundAfter
<1>11. stored = None /\ messages = <<>>
  BY <1>1, <1>3, PhoneAssumption DEF IInv, OwnersCurrent, TimelineSound, b
<1>12. ASSUME NEW i \in Slots, jobs[i].owns PROVE i = j
  <2>1. jobs[i] \in Jobs /\ JobSound(history, jobs[i]) /\ jobs[i].kind # "none"
    BY <1>12 DEF IInv, TypeOK, JobsSound, JobSound
  <2>2. jobs[i].kind \in Kinds
    BY <2>1 DEF Jobs
  <2>3. CASE jobs[i].phase = "creating"
    <3>1. jobs[i].kind = "chat"
      BY <2>3, TurnPhases DEF ChatPhases
    <3> QED BY <1>3, <1>12, <3>1 DEF IInv, OwnTurnAlone, b
  <2>4. CASE jobs[i].phase # "creating"
    <3>1. jobs[i].conversation \in Conversations
      BY <2>1, <2>2, <2>4 DEF JobSound, RestoreSound, EarlierSound, ChatSound, Kinds
    <3>2. jobs[i].conversation = stored
      BY <1>12, <2>4 DEF IInv, OwnersCurrent
    <3> QED BY <1>11, <3>1, <3>2, PhoneAssumption
  <2> QED BY <2>3, <2>4
<1>13. \A i \in Slots : jobs'[i].owns => i = j
  BY <1>6, <1>12
<1>14. signedIn
  BY <1>3 DEF IInv, OwnersCurrent, b
<1>15. OwnersCurrent' /\ OwnTurnAlone' /\ ReplyLast'
  BY <1>1, <1>5, <1>6, <1>13, <1>14 DEF OwnersCurrent, OwnTurnAlone, ReplyLast
<1>16. FlagsOwned'
  <2>1. \A i \in Slots : jobs'[i].kind = jobs[i].kind /\ (jobs[i].owns => jobs'[i].owns)
    BY <1>3, <1>5, <1>6 DEF b
  <2> QED BY <1>1, <2>1 DEF IInv, FlagsOwned
<1>17. TimelineSound' /\ MessagesHeld' /\ NothingMissing'
  BY <1>1, <1>8, <1>11, TimelineKept
<1>18. TypeOK'
  BY <1>1, <1>7, <1>8 DEF IInv, TypeOK, ScreenOK, FlagsOK, OthersKept, HostGrows
<1> QED BY <1>10, <1>15, <1>16, <1>17, <1>18 DEF IInv

\* The two messages of a turn come after all that is shown.
LEMMA StartedKeeps ==
  ASSUME IInv, NEW j \in Slots, Started(j)
  PROVE  IInv'
<1> DEFINE b == jobs[j]
           c == b.conversation
           user == b.before
           a == [b EXCEPT !.phase = "started"]
           all == messages \o <<user, user + 1>>
           n == Len(messages)
<1>1. /\ b.phase = "begun" /\ messages' = all /\ session' = c /\ assistantId' = user + 1
      /\ session \in {None, c} /\ \A m \in Range(messages) : m < user
      /\ UNCHANGED <<hostVars, storeVars, chatVars, nextBefore, known>>
  BY DEF Started
<1>2. jobs' = [jobs EXCEPT ![j] = a]
  BY DEF Started, IInv, TypeOK
<1>3. b \in Jobs /\ b.owns /\ b.kind = "chat" /\ ChatSound(history, b)
  BY <1>1, TurnPhases, OwnsIs DEF Started, IInv, TypeOK, ChatPhases
<1>4. /\ c \in Conversations /\ user \in Nat /\ user > 0 /\ user + 1 <= history[c]
      /\ history[c] \in Nat
  BY <1>1, <1>3 DEF ChatSound, Jobs, IInv, TypeOK, HostOK
<1>5. a \in Jobs
  BY <1>3, Zenon DEF Jobs, ChatPhases
<1>6. /\ a.kind = "chat" /\ a.conversation = c /\ a.before = user
      /\ a.owns /\ a.phase = "started"
  BY <1>3 DEF Jobs
<1>7. c = stored /\ stored = key
  BY <1>1, <1>3 DEF IInv, OwnersCurrent
<1>8. messages \in Seq(Nat) /\ n \in Nat /\ \A i \in 1 .. n : messages[i] \in Nat /\ messages[i] < user
  <2>1. messages \in Seq(Nat)
    BY DEF IInv, TypeOK
  <2>2. n \in Nat /\ \A i \in 1 .. n : messages[i] \in Nat /\ messages[i] \in Range(messages)
    BY <2>1, LenProperties, ElementOfSeq DEF Range
  <2> QED BY <1>1, <2>1, <2>2
<1>9. /\ all \in Seq(Nat) /\ Len(all) = n + 2
      /\ \A i \in 1 .. n : all[i] = messages[i]
      /\ all[n + 1] = user /\ all[n + 2] = user + 1
  <2>1. <<user, user + 1>> \in Seq(Nat) /\ Len(<<user, user + 1>>) = 2
    BY <1>4
  <2>2. /\ all \in Seq(Nat) /\ Len(all) = n + 2
        /\ \A i \in 1 .. n + 2 : all[i] = IF i <= n THEN messages[i] ELSE <<user, user + 1>>[i - n]
    BY <1>8, <2>1, ConcatProperties
  <2>3. \A i \in 1 .. n : i \in 1 .. n + 2 /\ i <= n
    BY <1>8
  <2>4. /\ n + 1 \in 1 .. n + 2 /\ ~(n + 1 <= n) /\ (n + 1) - n = 1
        /\ n + 2 \in 1 .. n + 2 /\ ~(n + 2 <= n) /\ (n + 2) - n = 2
    BY <1>8
  <2> HIDE DEF all, n, user
  <2>5. all[n + 1] = <<user, user + 1>>[1] /\ all[n + 2] = <<user, user + 1>>[2]
    BY <2>2, <2>4
  <2> QED BY <2>2, <2>3, <2>5
<1> HIDE DEF a, b, all, n
<1>10. jobs'[j] = a /\ \A i \in Slots \ {j} : jobs'[i] = jobs[i]
  BY <1>2 DEF IInv, TypeOK
<1>11. OthersKept(j)
  BY <1>2, <1>5, <1>10 DEF OthersKept, Weaker, IInv, TypeOK
<1>12. HostGrows /\ history' = history
  BY <1>1, SameHost DEF hostVars, IInv, TypeOK, HostOK
<1>13. JobsSound'
  <2>1. JobSound(history', a)
    BY <1>4, <1>6, <1>12 DEF JobSound, ChatSound, ChatPhases
  <2> QED BY <1>10, <1>11, <1>12, <2>1, SoundAfter
<1>14. OwnersCurrent' /\ OwnTurnAlone'
  BY <1>1, <1>3, <1>6, <1>10, <1>11, OwnersAfter DEF storeVars, chatVars, b
<1>15. TypeOK'
  BY <1>1, <1>4, <1>9, <1>11, <1>12 DEF IInv, TypeOK, ScreenOK, FlagsOK, storeVars, chatVars,
     OthersKept, HostGrows
<1>16. all # <<>>
  BY <1>8, <1>9, EmptySeq
<1>17. TimelineSound'
  <2>1. ASSUME NEW i \in 1 .. Len(all) - 1 PROVE all[i] < all[i + 1]
    <3>1. CASE i = n + 1
      <4>1. i + 1 = n + 2
        BY <1>8, <3>1
      <4> QED BY <1>4, <1>9, <3>1, <4>1
    <3>2. CASE i = n
      <4>1. i \in 1 .. n
        BY <1>8, <3>2
      <4> QED BY <1>8, <1>9, <3>2, <4>1
    <3>3. CASE i < n
      <4>1. i \in 1 .. n /\ i + 1 \in 1 .. n /\ i \in 1 .. n - 1
        BY <1>8, <3>3
      <4> QED BY <1>9, <4>1 DEF IInv, TimelineSound, n
    <3> QED BY <1>8, <1>9, <3>1, <3>2, <3>3
  <2>2. nextBefore # 0 => all[1] = nextBefore /\ nextBefore > 1
    <3> SUFFICES ASSUME nextBefore # 0 PROVE all[1] = nextBefore /\ nextBefore > 1
      OBVIOUS
    <3>1. messages # <<>> /\ messages[1] = nextBefore /\ nextBefore > 1
      BY DEF IInv, TimelineSound
    <3>2. 1 \in 1 .. n
      BY <1>8, <3>1, EmptySeq DEF n
    <3> QED BY <1>9, <3>1, <3>2
  <2> QED BY <1>1, <1>4, <1>7, <1>16, <2>1, <2>2 DEF TimelineSound, storeVars, chatVars
<1>18. MessagesHeld'
  <2> SUFFICES ASSUME NEW i \in 1 .. n + 2 PROVE 0 < all[i] /\ all[i] <= history[c]
    BY <1>1, <1>7, <1>9, <1>12 DEF MessagesHeld, chatVars
  <2>1. CASE i \in 1 .. n
    <3>1. messages # <<>>
      BY <1>8, <2>1, EmptySeq DEF n
    <3> QED BY <1>7, <1>9, <2>1, <3>1 DEF IInv, MessagesHeld, n
  <2>2. CASE i \in {n + 1, n + 2}
    BY <1>4, <1>9, <2>2
  <2> QED BY <1>8, <2>1, <2>2
<1>19. NothingMissing'
  <2> SUFFICES ASSUME NEW m \in (IF nextBefore = 0 THEN 1 ELSE nextBefore) .. known
               PROVE  \E i \in 1 .. Len(all) : all[i] = m
    BY <1>1 DEF NothingMissing
  <2>1. messages # <<>>
    BY DEF IInv, TimelineSound
  <2>2. PICK i \in 1 .. n : messages[i] = m
    BY <2>1 DEF IInv, NothingMissing, n
  <2>3. i \in 1 .. Len(all)
    BY <1>8, <1>9
  <2> QED BY <1>9, <2>2, <2>3
<1>20. ReplyLast'
  <2> SUFFICES ASSUME NEW i \in Slots, jobs'[i].owns, jobs'[i].phase = "started"
               PROVE  i = j
    BY <1>1, <1>6, <1>9, <1>10, <1>16 DEF ReplyLast
  <2>1. CASE i # j
    <3>1. jobs[i].owns /\ jobs[i].phase = "started"
      BY <1>10, <2>1
    <3>2. jobs[i].kind = "chat"
      BY <3>1, TurnPhases DEF ChatPhases
    <3> QED BY <1>3, <3>1, <3>2 DEF IInv, OwnTurnAlone, b
  <2> QED BY <2>1
<1>21. FlagsOwned'
  <2>1. \A i \in Slots : jobs'[i].kind = jobs[i].kind /\ (jobs[i].owns => jobs'[i].owns)
    BY <1>3, <1>6, <1>10 DEF b
  <2> QED BY <1>1, <2>1 DEF IInv, FlagsOwned, chatVars
<1> QED BY <1>13, <1>14, <1>15, <1>17, <1>18, <1>19, <1>20, <1>21 DEF IInv

LEMMA CompletedKeeps ==
  ASSUME IInv, NEW j \in Slots, Completed(j)
  PROVE  IInv'
<1> DEFINE b == jobs[j]
           a == [b EXCEPT !.phase = "reading"]
<1>1. /\ b.phase = "started" /\ assistantId' = 0
      /\ UNCHANGED <<hostVars, storeVars, chatVars, session, messages, nextBefore, known>>
  BY DEF Completed, Interrupt
<1>2. jobs' = [jobs EXCEPT ![j] = a]
  BY DEF Completed, IInv, TypeOK
<1>3. b \in Jobs /\ b.owns /\ b.kind = "chat" /\ ChatSound(history, b)
  BY <1>1, TurnPhases, OwnsIs DEF Completed, IInv, TypeOK, ChatPhases
<1>4. a \in Jobs
  BY <1>3, Zenon DEF Jobs, ChatPhases
<1>5. /\ a.kind = "chat" /\ a.conversation = b.conversation /\ a.before = b.before
      /\ a.owns /\ a.phase = "reading"
  BY <1>3 DEF Jobs
<1> HIDE DEF a, b
<1>6. jobs'[j] = a /\ \A i \in Slots \ {j} : jobs'[i] = jobs[i]
  BY <1>2 DEF IInv, TypeOK
<1>7. OthersKept(j)
  BY <1>2, <1>4, <1>6 DEF OthersKept, Weaker, IInv, TypeOK
<1>8. HostGrows /\ history' = history
  BY <1>1, SameHost DEF hostVars, IInv, TypeOK, HostOK
<1>9. JobsSound'
  <2>1. JobSound(history', a)
    BY <1>1, <1>3, <1>5, <1>8 DEF JobSound, ChatSound, ChatPhases
  <2> QED BY <1>6, <1>7, <1>8, <2>1, SoundAfter
<1>10. OwnersCurrent' /\ OwnTurnAlone'
  BY <1>1, <1>3, <1>5, <1>6, <1>7, OwnersAfter DEF storeVars, chatVars, b
<1>11. TypeOK'
  BY <1>1, <1>7, <1>8 DEF IInv, TypeOK, ScreenOK, FlagsOK, storeVars, chatVars, OthersKept,
     HostGrows
<1>12. TimelineSound' /\ MessagesHeld' /\ NothingMissing'
  BY <1>1, <1>8, TimelineKept DEF storeVars, chatVars
<1>13. ReplyLast'
  <2> SUFFICES ASSUME NEW i \in Slots, jobs'[i].owns, jobs'[i].phase = "started" PROVE FALSE
    BY DEF ReplyLast
  <2>1. i # j /\ jobs[i].owns /\ jobs[i].phase = "started"
    BY <1>5, <1>6
  <2>2. jobs[i].kind = "chat"
    BY <2>1, TurnPhases DEF ChatPhases
  <2> QED BY <1>3, <2>1, <2>2 DEF IInv, OwnTurnAlone, b
<1>14. FlagsOwned'
  <2>1. \A i \in Slots : jobs'[i].kind = jobs[i].kind /\ (jobs[i].owns => jobs'[i].owns)
    BY <1>3, <1>5, <1>6 DEF b
  <2> QED BY <1>1, <2>1 DEF IInv, FlagsOwned, chatVars
<1> QED BY <1>9, <1>10, <1>11, <1>12, <1>13, <1>14 DEF IInv

LEMMA StopKeeps ==
  ASSUME IInv, stopChat
  PROVE  IInv'
<1>1. PICK j \in Slots : jobs' = [jobs EXCEPT ![j].cancelled = TRUE]
  BY DEF stopChat
<1> DEFINE b == jobs[j]
           a == [b EXCEPT !.cancelled = TRUE]
<1>2. b \in Jobs /\ JobSound(history, b)
  BY DEF IInv, TypeOK, JobsSound
<1>3. jobs' = [jobs EXCEPT ![j] = a]
  BY <1>1 DEF IInv, TypeOK
<1>4. a \in Jobs
  BY <1>2 DEF Jobs
<1>5. /\ a.kind = b.kind /\ a.conversation = b.conversation /\ a.before = b.before
      /\ a.owns = b.owns /\ a.phase = b.phase /\ a.page = b.page /\ a.known = b.known
  BY <1>2 DEF Jobs
<1> HIDE DEF a, b
<1>6. jobs'[j] = a /\ \A i \in Slots \ {j} : jobs'[i] = jobs[i]
  BY <1>3 DEF IInv, TypeOK
<1>7. OthersKept(j) /\ Weaker(b, a)
  BY <1>3, <1>4, <1>5, <1>6 DEF OthersKept, Weaker, IInv, TypeOK
<1>8. UNCHANGED <<hostVars, storeVars, chatVars, timelineVars>>
  BY DEF stopChat
<1>9. HostGrows /\ history' = history
  BY <1>8, SameHost DEF hostVars, IInv, TypeOK, HostOK
<1>10. JobSound(history', a)
  BY <1>2, <1>4, <1>7, <1>9, WeakerSound DEF HostGrows, IInv, TypeOK, HostOK
<1>11. \A i \in Slots : jobs'[i].owns <=> jobs[i].owns
  BY <1>5, <1>6 DEF b
<1> QED BY <1>5, <1>6, <1>7, <1>8, <1>9, <1>10, <1>11, ScreenKept DEF b

-----------------------------------------------------------------------------
(* The start of a coroutine. *)

LEMMA LaunchedIs ==
  ASSUME IInv, NEW j \in Slots, NEW job \in Jobs, NEW cancelled, NEW disowned,
         Launched(j, cancelled, disowned, job)
  PROVE  /\ OthersKept(j) /\ jobs'[j] = job
         /\ \A i \in Slots \ {j} :
              jobs'[i].owns <=> jobs[i].owns /\ jobs[i].kind \notin disowned
<1>1. jobs'[j] = job
  BY DEF Launched
<1>2. ASSUME NEW i \in Slots \ {j}
      PROVE  /\ jobs'[i] \in Jobs /\ Weaker(jobs[i], jobs'[i])
             /\ jobs'[i].owns <=> jobs[i].owns /\ jobs[i].kind \notin disowned
  <2> DEFINE b == jobs[i]
             o == b.owns /\ b.kind \notin disowned
             k == b.cancelled \/ b.kind \in cancelled
             a == [b EXCEPT !.cancelled = k, !.owns = o]
  <2>1. b \in Jobs /\ o \in BOOLEAN /\ k \in BOOLEAN
    BY DEF IInv, TypeOK
  <2>2. jobs'[i] = a
    BY DEF Launched
  <2>3. o => b.owns
    OBVIOUS
  <2> HIDE DEF o, k, b
  <2>4. a \in Jobs
    BY <2>1 DEF Jobs
  <2>5. a.owns = o
    BY <2>1 DEF Jobs
  <2>6. a.kind = b.kind /\ a.conversation = b.conversation /\ a.before = b.before
        /\ a.phase = b.phase /\ a.page = b.page /\ a.known = b.known
    BY <2>1 DEF Jobs
  <2> HIDE DEF a
  <2> QED BY <2>2, <2>3, <2>4, <2>5, <2>6 DEF Weaker, b, o
<1>3. jobs' = [i \in Slots |-> jobs'[i]]
  BY DEF Launched
<1> QED BY <1>1, <1>2, <1>3 DEF OthersKept

\* The new turn takes the place of a turn and a page that are current.
LEMMA SendKeeps ==
  ASSUME IInv, NEW j \in Slots, send(j)
  PROVE  IInv'
<1> DEFINE phase == IF stored = None THEN "creating" ELSE "sent"
           job == [NoJob EXCEPT !.kind = "chat", !.conversation = stored, !.owns = TRUE,
                                !.phase = phase]
<1>1. /\ signedIn /\ ~loadingHistory /\ jobs[j] = NoJob /\ streaming'
      /\ Launched(j, {}, {"restore", "chat"}, job)
      /\ key' = (IF stored = None THEN key ELSE stored)
      /\ UNCHANGED <<hostVars, storeVars, historyLoaded, loadingHistory, loadingEarlier,
                     timelineVars>>
      /\ streaming' \in BOOLEAN
  BY DEF send
<1>2. stored \in Conversations \cup {None} /\ phase \in ChatPhases
  BY DEF IInv, TypeOK, ScreenOK, ChatPhases
<1>3. job \in Jobs /\ job.kind = "chat" /\ job.conversation = stored /\ job.owns
      /\ job.phase = phase
  <2> HIDE DEF phase
  <2> QED BY <1>2, NoJobIs DEF Jobs, Kinds
<1> HIDE DEF job
<1>4. /\ OthersKept(j) /\ jobs'[j] = job
      /\ \A i \in Slots \ {j} :
           jobs'[i].owns <=> jobs[i].owns /\ jobs[i].kind \notin {"restore", "chat"}
  BY <1>1, <1>3, LaunchedIs
<1>5. HostGrows /\ history' = history
  BY <1>1, SameHost DEF hostVars, IInv, TypeOK, HostOK
<1>6. JobsSound'
  <2>1. JobSound(history', job)
    BY <1>2, <1>3, PhoneAssumption DEF JobSound, ChatSound, ChatPhases
  <2> QED BY <1>4, <1>5, <2>1, SoundAfter
<1>7. \A i \in Slots \ {j} : jobs'[i].owns =>
        /\ jobs[i].owns /\ jobs'[i].kind = jobs[i].kind /\ jobs[i].kind \notin {"restore", "chat"}
        /\ jobs'[i].conversation = jobs[i].conversation /\ jobs'[i].phase = jobs[i].phase
        /\ jobs[i].phase \notin {"creating", "started"}
  <2> SUFFICES ASSUME NEW i \in Slots \ {j}, jobs'[i].owns
               PROVE  /\ jobs[i].owns /\ jobs'[i].kind = jobs[i].kind
                      /\ jobs[i].kind \notin {"restore", "chat"}
                      /\ jobs'[i].conversation = jobs[i].conversation
                      /\ jobs'[i].phase = jobs[i].phase
                      /\ jobs[i].phase \notin {"creating", "started"}
    OBVIOUS
  <2>1. jobs[i].owns /\ jobs[i].kind \notin {"restore", "chat"}
    BY <1>4
  <2>2. jobs[i].phase \notin ChatPhases
    BY <2>1, TurnPhases
  <2> QED BY <1>4, <2>1, <2>2 DEF OthersKept, Weaker, ChatPhases
<1>8. OwnersCurrent'
  <2> SUFFICES ASSUME NEW i \in Slots, jobs'[i].owns
               PROVE  /\ signedIn
                      /\ IF jobs'[i].phase = "creating" THEN stored = None
                         ELSE jobs'[i].conversation = stored /\ stored = key'
    BY <1>1 DEF OwnersCurrent, storeVars
  <2>1. CASE i = j
    BY <1>1, <1>3, <1>4, <2>1
  <2>2. CASE i # j
    BY <1>1, <1>7, <2>2 DEF IInv, OwnersCurrent
  <2> QED BY <2>1, <2>2
<1>9. OwnTurnAlone' /\ ReplyLast'
  BY <1>3, <1>4, <1>7 DEF OwnTurnAlone, ReplyLast
<1>10. FlagsOwned'
  <2>1. loadingEarlier' => \E i \in Slots : jobs'[i].owns /\ jobs'[i].kind = "earlier"
    <3> SUFFICES ASSUME loadingEarlier
                 PROVE  \E i \in Slots : jobs'[i].owns /\ jobs'[i].kind = "earlier"
      BY <1>1
    <3>1. PICK i \in Slots : jobs[i].owns /\ jobs[i].kind = "earlier"
      BY DEF IInv, FlagsOwned
    <3>2. i # j
      BY <1>1, <3>1, NoJobIs
    <3> QED BY <1>4, <3>1, <3>2 DEF OthersKept, Weaker
  <2> QED BY <1>1, <1>3, <1>4, <2>1 DEF FlagsOwned
<1>11. TypeOK'
  BY <1>1, <1>2, <1>4, <1>5 DEF IInv, TypeOK, ScreenOK, FlagsOK, storeVars, timelineVars,
     OthersKept, HostGrows
<1>12. TimelineSound' /\ MessagesHeld' /\ NothingMissing'
  <2>1. messages # <<>> => key' = key /\ stored' = stored
    BY <1>1 DEF IInv, TimelineSound, storeVars
  <2> QED BY <1>1, <1>5, <2>1, TimelineKept DEF timelineVars
<1> QED BY <1>6, <1>8, <1>9, <1>10, <1>11, <1>12 DEF IInv

LEMMA LoadEarlierKeeps ==
  ASSUME IInv, NEW j \in Slots, loadEarlierMessages(j)
  PROVE  IInv'
<1> DEFINE job == [NoJob EXCEPT !.kind = "earlier", !.conversation = stored,
                                !.phase = "asked", !.before = nextBefore, !.owns = TRUE]
<1>1. /\ signedIn /\ stored # None /\ nextBefore # 0 /\ jobs[j] = NoJob
      /\ Launched(j, {}, {}, job) /\ loadingEarlier'
      /\ UNCHANGED <<hostVars, storeVars, key, historyLoaded, loadingHistory, streaming,
                     timelineVars>>
      /\ loadingEarlier' \in BOOLEAN
  BY DEF loadEarlierMessages
<1>2. stored \in Conversations /\ nextBefore \in Nat /\ history \in [Conversations -> Nat]
  BY <1>1 DEF IInv, TypeOK, ScreenOK, HostOK
<1>3. /\ job \in Jobs /\ job.kind = "earlier" /\ job.conversation = stored /\ job.owns
      /\ job.phase = "asked" /\ job.before = nextBefore
  BY <1>2, NoJobIs DEF Jobs, Kinds
<1> HIDE DEF job
<1>4. /\ OthersKept(j) /\ jobs'[j] = job
      /\ \A i \in Slots \ {j} : jobs'[i].owns <=> jobs[i].owns
  BY <1>1, <1>3, LaunchedIs
<1>5. HostGrows /\ history' = history
  BY <1>1, SameHost DEF hostVars, IInv, TypeOK, HostOK
<1>6. /\ 1 < nextBefore /\ nextBefore <= history[stored] /\ stored = key
      /\ messages # <<>> /\ messages[1] = nextBefore
  <2>1. /\ messages # <<>> /\ messages[1] = nextBefore /\ nextBefore > 1 /\ stored = key
    BY <1>1 DEF IInv, TimelineSound
  <2>2. 1 \in 1 .. Len(messages)
    BY <2>1, EmptySeq, LenProperties DEF IInv, TypeOK
  <2> QED BY <1>2, <2>1, <2>2 DEF IInv, MessagesHeld
<1>7. JobsSound'
  <2>1. JobSound(history', job)
    BY <1>2, <1>3, <1>5, <1>6 DEF JobSound, EarlierSound
  <2> QED BY <1>4, <1>5, <2>1, SoundAfter
<1>8. \A i \in Slots \ {j} :
        /\ jobs'[i].owns <=> jobs[i].owns
        /\ jobs'[i].kind = jobs[i].kind /\ jobs'[i].conversation = jobs[i].conversation
        /\ jobs'[i].phase = jobs[i].phase /\ jobs'[i].before = jobs[i].before
  BY <1>4 DEF OthersKept, Weaker
<1>9. OwnersCurrent'
  BY <1>1, <1>3, <1>4, <1>6, <1>8 DEF IInv, OwnersCurrent, storeVars
<1>10. OwnTurnAlone'
  BY <1>3, <1>4, <1>8 DEF IInv, OwnTurnAlone
<1>11. ReplyLast'
  BY <1>1, <1>3, <1>4, <1>8 DEF IInv, ReplyLast, timelineVars
<1>12. FlagsOwned'
  <2>1. \A i \in Slots : jobs[i].owns => i # j
    BY <1>1, NoJobIs
  <2>2. \A i \in Slots : jobs[i].owns => jobs'[i].owns /\ jobs'[i].kind = jobs[i].kind
    BY <1>8, <2>1
  <2> QED BY <1>1, <1>3, <1>4, <2>2 DEF IInv, FlagsOwned
<1>13. TypeOK'
  BY <1>1, <1>4, <1>5 DEF IInv, TypeOK, ScreenOK, FlagsOK, storeVars, timelineVars,
     OthersKept, HostGrows
<1>14. TimelineSound' /\ MessagesHeld' /\ NothingMissing'
  BY <1>1, <1>5, TimelineKept DEF timelineVars, storeVars
<1> QED BY <1>7, <1>9, <1>10, <1>11, <1>12, <1>13, <1>14 DEF IInv

\* The latest page is asked for: nothing else is current any more.
LEMMA RestoreKeeps ==
  ASSUME IInv, NEW j \in Slots, NEW c \in Conversations, Restore(j, c), ~streaming,
         signedIn' = TRUE, stored' = c
  PROVE  IInv'
<1> DEFINE job == [NoJob EXCEPT !.kind = "restore", !.conversation = c, !.phase = "asked",
                                !.owns = TRUE]
           keeps == key = c /\ historyLoaded
<1>1. /\ Launched(j, {"restore", "earlier"}, Kinds, job)
      /\ key' = c /\ historyLoaded' = keeps /\ loadingHistory' = TRUE
      /\ loadingEarlier' = FALSE /\ UNCHANGED <<hostVars, streaming>>
      /\ IF keeps THEN UNCHANGED timelineVars ELSE ClearTimeline
  BY DEF Restore
<1>2. /\ job \in Jobs /\ job.kind = "restore" /\ job.conversation = c /\ job.owns
      /\ job.phase = "asked" /\ job.before = 0
  BY NoJobIs DEF Jobs, Kinds, NoJob
<1> HIDE DEF job
<1>3. /\ OthersKept(j) /\ jobs'[j] = job
      /\ \A i \in Slots \ {j} : jobs'[i].owns <=> jobs[i].owns /\ jobs[i].kind \notin Kinds
  BY <1>1, <1>2, LaunchedIs
<1>4. HostGrows /\ history' = history
  BY <1>1, SameHost DEF hostVars, IInv, TypeOK, HostOK
<1>5. \A i \in Slots : jobs'[i].owns => i = j
  <2> SUFFICES ASSUME NEW i \in Slots \ {j}, jobs'[i].owns PROVE FALSE
    OBVIOUS
  <2>1. jobs[i].owns /\ jobs[i].kind \notin Kinds
    BY <1>3
  <2>2. jobs[i] \in Jobs /\ JobSound(history, jobs[i])
    BY DEF IInv, TypeOK, JobsSound
  <2> QED BY <2>1, <2>2 DEF Jobs, JobSound
<1>6. JobsSound'
  <2>1. JobSound(history', job)
    BY <1>2 DEF JobSound, RestoreSound
  <2> QED BY <1>3, <1>4, <2>1, SoundAfter
<1>7. OwnersCurrent' /\ OwnTurnAlone' /\ ReplyLast'
  BY <1>1, <1>2, <1>3, <1>5 DEF OwnersCurrent, OwnTurnAlone, ReplyLast
<1>8. FlagsOwned'
  BY <1>1, <1>2, <1>3 DEF FlagsOwned
<1>9. CASE keeps
  <2>1. UNCHANGED timelineVars
    BY <1>1, <1>9
  <2>2. TimelineSound' /\ MessagesHeld' /\ NothingMissing'
    <3>1. messages # <<>> => key' = key /\ stored' = stored
      BY <1>1, <1>9 DEF IInv, TimelineSound
    <3> QED BY <1>4, <2>1, <3>1, TimelineKept DEF timelineVars
  <2>3. TypeOK'
    BY <1>1, <1>3, <1>4, <2>1 DEF IInv, TypeOK, ScreenOK, FlagsOK, timelineVars, OthersKept,
       HostGrows
  <2> QED BY <1>6, <1>7, <1>8, <2>2, <2>3 DEF IInv
<1>10. CASE ~keeps
  <2>1. ClearTimeline
    BY <1>1, <1>10
  <2>2. TimelineSound' /\ MessagesHeld' /\ NothingMissing'
    BY <2>1 DEF ClearTimeline, TimelineSound, MessagesHeld, NothingMissing
  <2>3. TypeOK'
    BY <1>1, <1>3, <1>4, <2>1, EmptySeq DEF IInv, TypeOK, ScreenOK, FlagsOK, ClearTimeline,
       OthersKept, HostGrows
  <2> QED BY <1>6, <1>7, <1>8, <2>2, <2>3 DEF IInv
<1> QED BY <1>9, <1>10

LEMMA RestoreChatKeeps ==
  ASSUME IInv, NEW j \in Slots, restoreChat(j)
  PROVE  IInv'
BY RestoreKeeps DEF restoreChat, storeVars, IInv, TypeOK, ScreenOK, FlagsOK

LEMMA SelectChatKeeps ==
  ASSUME IInv, NEW j \in Slots, NEW c \in Conversations, selectChat(j, c)
  PROVE  IInv'
BY RestoreKeeps DEF selectChat, IInv, TypeOK, FlagsOK

-----------------------------------------------------------------------------
(* Sessions of the user and of the process. *)

\* A screen that shows nothing and waits for nothing.
LEMMA ClearedKeeps ==
  ASSUME IInv, UNCHANGED hostVars, ClearTimeline, jobs' \in [Slots -> Jobs],
         \A i \in Slots : ~jobs'[i].owns /\ JobSound(history, jobs'[i]),
         key' = None, historyLoaded' = TRUE, loadingHistory' = FALSE,
         loadingEarlier' = FALSE, streaming' = FALSE,
         signedIn' \in BOOLEAN, stored' \in Conversations \cup {None}
  PROVE  IInv'
<1>1. TypeOK'
  BY EmptySeq DEF IInv, TypeOK, HostOK, ScreenOK, FlagsOK, ClearTimeline, hostVars
<1>2. JobsSound' /\ OwnersCurrent' /\ OwnTurnAlone' /\ ReplyLast' /\ FlagsOwned'
  BY DEF JobsSound, OwnersCurrent, OwnTurnAlone, ReplyLast, FlagsOwned, hostVars
<1>3. TimelineSound' /\ MessagesHeld' /\ NothingMissing'
  BY DEF ClearTimeline, TimelineSound, MessagesHeld, NothingMissing
<1> QED BY <1>1, <1>2, <1>3 DEF IInv

LEMMA ClearChatKeeps ==
  ASSUME IInv, ClearChat, UNCHANGED hostVars, signedIn' \in BOOLEAN,
         stored' \in Conversations \cup {None}
  PROVE  IInv'
<1>1. ASSUME NEW i \in Slots
      PROVE  jobs'[i] \in Jobs /\ ~jobs'[i].owns /\ JobSound(history, jobs'[i])
  <2> DEFINE b == jobs[i]
             a == [b EXCEPT !.cancelled = TRUE, !.owns = FALSE]
  <2>1. b \in Jobs /\ JobSound(history, b) /\ history \in [Conversations -> Nat]
    BY DEF IInv, TypeOK, HostOK, JobsSound
  <2>2. jobs'[i] = a
    BY DEF ClearChat
  <2>3. a \in Jobs
    BY <2>1 DEF Jobs
  <2>4. Weaker(b, a) /\ ~a.owns
    BY <2>1 DEF Weaker, Jobs
  <2> HIDE DEF a, b
  <2>5. \A c \in Conversations : history[c] <= history[c]
    BY <2>1
  <2>6. JobSound(history, a)
    BY <2>1, <2>3, <2>4, <2>5, WeakerSound
  <2> QED BY <2>2, <2>3, <2>4, <2>6
<1>2. jobs' = [i \in Slots |-> jobs'[i]]
  BY DEF ClearChat
<1>3. jobs' \in [Slots -> Jobs]
  BY <1>1, <1>2
<1> QED BY <1>1, <1>3, ClearedKeeps DEF ClearChat

LEMMA SignOutKeeps ==
  ASSUME IInv, SignOut
  PROVE  IInv'
BY ClearChatKeeps DEF SignOut, IInv, TypeOK, ScreenOK

LEMMA NewChatKeeps ==
  ASSUME IInv, newChat
  PROVE  IInv'
BY ClearChatKeeps DEF newChat, IInv, TypeOK, FlagsOK

LEMMA LoginKeeps ==
  ASSUME IInv, NEW j \in Slots, login(j)
  PROVE  IInv'
<1>1. ~signedIn /\ signedIn' = TRUE /\ stored' = stored
  BY DEF login
<1>2. \A i \in Slots : ~jobs[i].owns
  BY <1>1 DEF IInv, OwnersCurrent
<1>3. ~streaming
  BY <1>2 DEF IInv, FlagsOwned
<1>4. CASE stored # None
  BY <1>1, <1>3, <1>4, RestoreKeeps DEF login, Return, IInv, TypeOK, ScreenOK
<1>5. CASE stored = None
  <2>1. UNCHANGED <<hostVars, chatVars, timelineVars, jobs>>
    BY <1>5 DEF login, Return
  <2>2. HostGrows
    BY <2>1, SameHost DEF hostVars, IInv, TypeOK, HostOK
  <2>3. TypeOK' /\ JobsSound'
    BY <1>1, <2>1 DEF IInv, TypeOK, HostOK, ScreenOK, FlagsOK, JobsSound, hostVars, chatVars,
       timelineVars
  <2>4. OwnersCurrent' /\ OwnTurnAlone' /\ ReplyLast' /\ FlagsOwned'
    BY <1>2, <2>1 DEF IInv, OwnersCurrent, OwnTurnAlone, ReplyLast, FlagsOwned, chatVars
  <2>5. TimelineSound' /\ MessagesHeld' /\ NothingMissing'
    BY <1>1, <2>1, <2>2, TimelineKept DEF chatVars, timelineVars
  <2> QED BY <2>3, <2>4, <2>5 DEF IInv
<1> QED BY <1>4, <1>5

LEMMA RestartKeeps ==
  ASSUME IInv, Restart
  PROVE  IInv'
<1>1. jobs' \in [Slots -> Jobs]
      /\ \A i \in Slots : ~jobs'[i].owns /\ JobSound(history, jobs'[i])
  BY NoJobIs DEF Restart, JobSound
<1> QED BY <1>1, ClearedKeeps DEF Restart, IInv, TypeOK, ScreenOK

-----------------------------------------------------------------------------
(* The theorems. *)

LEMMA InitSound == Init => IInv
<1> SUFFICES ASSUME Init PROVE IInv
  OBVIOUS
<1>1. TypeOK
  BY NoJobIs, EmptySeq DEF Init, TypeOK, HostOK, ScreenOK, FlagsOK
<1>2. JobsSound /\ OwnersCurrent /\ OwnTurnAlone /\ ReplyLast /\ FlagsOwned
  BY NoJobIs DEF Init, JobsSound, JobSound, OwnersCurrent, OwnTurnAlone, ReplyLast, FlagsOwned
<1>3. TimelineSound /\ MessagesHeld /\ NothingMissing
  BY DEF Init, TimelineSound, MessagesHeld, NothingMissing
<1> QED BY <1>1, <1>2, <1>3 DEF IInv

LEMMA StepSound == IInv /\ [Next]_vars => IInv'
<1> SUFFICES ASSUME IInv, [Next]_vars PROVE IInv'
  OBVIOUS
<1>1. ASSUME NEW j \in Slots, ReadPage(j) \/ TurnBegins(j) \/ JobFails(j) \/ Unauthorized(j)
      PROVE  IInv'
  BY <1>1, ReadPageKeeps, TurnBeginsKeeps, JobFailsKeeps, SignOutKeeps DEF Unauthorized
<1>2. ASSUME NEW j \in Slots,
             restoreChat(j) \/ Restored(j) \/ loadEarlierMessages(j) \/ Prepended(j)
      PROVE  IInv'
  BY <1>2, RestoreChatKeeps, RestoredKeeps, LoadEarlierKeeps, PrependedKeeps
<1>3. ASSUME NEW j \in Slots, send(j) \/ Started(j) \/ Completed(j) \/ login(j)
      PROVE  IInv'
  BY <1>3, SendKeeps, StartedKeeps, CompletedKeeps, LoginKeeps
<1>4. ASSUME NEW j \in Slots, NEW c \in Conversations, selectChat(j, c) \/ Created(j, c)
      PROVE  IInv'
  BY <1>4, SelectChatKeeps, CreatedKeeps
<1>5. ASSUME stopChat \/ newChat \/ logout \/ Restart
      PROVE  IInv'
  BY <1>5, StopKeeps, NewChatKeeps, SignOutKeeps, RestartKeeps DEF logout
<1>6. ASSUME NEW c \in Conversations, OtherTurn(c) \/ OtherConversation(c)
      PROVE  IInv'
  BY <1>6, OtherTurnKeeps, OtherConversationKeeps
<1>7. CASE UNCHANGED vars
  BY <1>7, HostKeeps, SameHost
     DEF vars, hostVars, IInv, TypeOK, HostOK
<1> QED BY <1>1, <1>2, <1>3, <1>4, <1>5, <1>6, <1>7 DEF Next

LEMMA Invariant == Spec => []IInv
BY InitSound, StepSound, PTL DEF Spec

\* The host, the stored conversation, the screen and the coroutines keep the types
\* of the code (BuyerViewModel.kt, ChatReducer.kt, DeviceStore.kt).
THEOREM TypeCorrect == Spec => []TypeOK
BY Invariant, PTL DEF IInv

\* What is shown is the history of the conversation on the screen, in order and
\* without a gap from the cursor on, and a running turn keeps its reply as the last
\* message (BuyerViewModel.kt:557-683, ChatReducer.kt:43-116, buyer_routes.py:335-354).
THEOREM ScreenIsHistory == Spec => []ShownIsHistory
<1>1. IInv => ShownIsHistory
  <2> SUFFICES ASSUME IInv PROVE ShownIsHistory
    OBVIOUS
  <2>1. messages \in Seq(Nat) /\ DOMAIN messages = 1 .. Len(messages) /\ history \in [Conversations -> Nat]
        /\ nextBefore \in Nat /\ known \in Nat
    BY LenProperties DEF IInv, TypeOK, ScreenOK, HostOK
  <2>2. \A i \in 1 .. Len(messages) - 1 : messages[i] < messages[i + 1]
    BY DEF IInv, TimelineSound
  <2>3. ASSUME messages # <<>>
        PROVE  /\ session = key /\ key = stored
               /\ Shown \subseteq 1 .. history[key]
               /\ (IF nextBefore = 0 THEN 1 ELSE nextBefore) .. known \subseteq Shown
    <3>1. session = key /\ key = stored /\ key \in Conversations
      BY <2>3 DEF IInv, TimelineSound
    <3>2. history[key] \in Nat
      BY <2>1, <3>1
    <3>3. ASSUME NEW m \in Shown PROVE m \in 1 .. history[key]
      <4>1. PICK i \in 1 .. Len(messages) : m = messages[i]
        BY <2>1, <3>3 DEF Shown, Range
      <4>2. messages[i] \in Nat
        BY <2>1, ElementOfSeq
      <4> QED BY <2>3, <3>2, <4>1, <4>2 DEF IInv, MessagesHeld
    <3>4. ASSUME NEW m \in (IF nextBefore = 0 THEN 1 ELSE nextBefore) .. known
          PROVE  m \in Shown
      <4>1. PICK i \in 1 .. Len(messages) : messages[i] = m
        BY <2>3, <3>4 DEF IInv, NothingMissing
      <4> QED BY <2>1, <4>1 DEF Shown, Range
    <3> QED BY <3>1, <3>3, <3>4
  <2>4. ASSUME NEW j \in Slots, jobs[j].phase = "started", Owns(j)
        PROVE  /\ messages # <<>> /\ Last(messages) = jobs[j].before + 1
               /\ assistantId = jobs[j].before + 1
    BY <2>4, OwnsIs DEF IInv, ReplyLast, Last
  <2> QED BY <2>2, <2>3, <2>4 DEF ShownIsHistory
<1> QED BY <1>1, Invariant, PTL

\* Every busy flag has a coroutine under way that owns it and will reset it
\* (BuyerViewModel.kt:557-683).
THEOREM WaitsAreOwned == Spec => []BusyHasOwner
<1>1. IInv => BusyHasOwner
  <2> SUFFICES ASSUME IInv PROVE BusyHasOwner
    OBVIOUS
  <2>1. \A j \in Slots : jobs[j].owns => Owns(j)
    BY OwnsIs
  <2> QED BY <2>1 DEF IInv, FlagsOwned, BusyHasOwner
<1> QED BY <1>1, Invariant, PTL
=============================================================================
