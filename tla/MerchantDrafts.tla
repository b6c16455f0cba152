--------------------------- MODULE MerchantDrafts ---------------------------
(***************************************************************************)
(* Drafts of merchant changes (backend.py, sessions.py).  The model only   *)
(* prepares a draft: the intent is a row of SQLite before Java is asked,   *)
(* and every page that lists drafts first repeats the requests of intents  *)
(* without an outcome.  The operator approves or discards.  Tool calls and *)
(* pages are handlers that interleave at every await; a request whose      *)
(* caller stopped waiting may still be carried out later.  One operator.   *)
(***************************************************************************)
EXTENDS Integers

CONSTANTS
  Intents,    \* a change wanted in one turn: the unique columns of the table
  LastBinding,  \* the operator's authorization bindings are 1 to this, sorted
  BindingOf,  \* the binding an intent was recorded under
  Decisions,  \* the decisions in use: "apply", "cancel"
  Handlers,   \* concurrent requests and tool calls of the host
  Operator,   \* the one that serves the operator's overview, among others
  NoRequest,  \* of a handler that asks Java for nothing
  MaxKeys     \* bound: request keys drawn for one intent (one is enough)

ASSUME DraftsAssumption ==
  /\ LastBinding \in Nat \ {0}
  /\ BindingOf \in [Intents -> 1 .. LastBinding]
  /\ Decisions \subseteq {"apply", "cancel"}
  /\ MaxKeys \in Nat \ {0}
  /\ Operator \in Handlers

Keys == 1 .. MaxKeys

\* Java has at most one change for a request key, so the pair names it.
Drafts == Intents \X Keys

Request == [verb : {"prepare", "apply", "cancel"}, draft : Drafts]

ASSUME NoRequestAssumption == NoRequest \notin Request

VARIABLES
  key,        \* column request_key of prepare_intents, 0 without a row
  draft_id,   \* column draft_id: the key of the attached change, 0 if none
  rejection,  \* intents with a rejection
  refs,       \* table draft_refs (receipts are stored and never read back)
  pc,         \* where a handler is suspended
  page,       \* handlers that list drafts
  at,         \* the request a handler has sent
  answer,     \* what Java answered
  missing,    \* intents of a binding still to be repeated, read before
  binding,    \* the binding that a page is at
  late,       \* requests Java may still carry out for nobody
  changes,    \* Java: the state of every change
  refused,    \* history: intents Java has refused
  told        \* history: decisions reported to the operator as carried out

rowVars == <<key, draft_id, rejection, refs>>
walkVars == <<page, missing, binding>>
callVars == <<pc, at, answer>>
javaVars == <<late, changes, refused>>
vars == <<rowVars, walkVars, callVars, javaVars, told>>

States == {"PREPARED", "APPLIED", "CANCELLED", "REJECTED"}

\* "recovering", "listing": between two awaits of a page that lists drafts.
Places == {"idle", "sent", "answered", "recovering", "listing"}

existing(b) == {d \in Drafts : changes[d] # "none" /\ BindingOf[d[1]] = b}

Ask(h, verb, d) ==
  /\ pc' = [pc EXCEPT ![h] = "sent"]
  /\ at' = [at EXCEPT ![h] = [verb |-> verb, draft |-> d]]
  /\ UNCHANGED answer

\* The handler returns or raises.
End(h) ==
  /\ pc' = [pc EXCEPT ![h] = "idle"]
  /\ page' = page \ {h}
  /\ at' = [at EXCEPT ![h] = NoRequest]
  /\ answer' = [answer EXCEPT ![h] = "none"]
  /\ missing' = [missing EXCEPT ![h] = {}]
  /\ binding' = [binding EXCEPT ![h] = 0]

\* An intent is settled: a tool call returns, a recovery goes on.
Proceed(h) ==
  IF h \in page
    THEN /\ pc' = [pc EXCEPT ![h] = "recovering"]
         /\ at' = [at EXCEPT ![h] = NoRequest]
         /\ answer' = [answer EXCEPT ![h] = "none"]
         /\ UNCHANGED walkVars
    ELSE End(h)

Init ==
  /\ key = [i \in Intents |-> 0]
  /\ draft_id = [i \in Intents |-> 0]
  /\ rejection = {}
  /\ refs = {}
  /\ pc = [h \in Handlers |-> "idle"]
  /\ page = {}
  /\ at = [h \in Handlers |-> NoRequest]
  /\ answer = [h \in Handlers |-> "none"]
  /\ missing = [h \in Handlers |-> {}]
  /\ binding = [h \in Handlers |-> 0]
  /\ late = {}
  /\ changes = [d \in Drafts |-> "none"]
  /\ refused = {}
  /\ told = {}

-----------------------------------------------------------------------------
(* The rows. *)

\* Fault: a repeated intent without an outcome gets a new request key.
prepare_intentAnew(i) ==
  key' = IF key[i] < MaxKeys THEN [key EXCEPT ![i] = @ + 1] ELSE key

\* INSERT OR IGNORE: the first request key of an intent is its only one.
prepare_intent(i) == key' = IF key[i] = 0 THEN [key EXCEPT ![i] = 1] ELSE key

\* Fault: a late refusal is stored over the attached draft.
reject_intentAnyway(i) ==
  /\ rejection' = rejection \cup {i}
  /\ draft_id' = [draft_id EXCEPT ![i] = 0]

\* Only while the row has no draft.
reject_intent(i) ==
  /\ rejection' = IF draft_id[i] = 0 THEN rejection \cup {i} ELSE rejection
  /\ UNCHANGED draft_id

\* A row that names another draft makes it raise, and nothing is written.
attach_draft(d) ==
  IF draft_id[d[1]] \in {0, d[2]}
    THEN /\ draft_id' = [draft_id EXCEPT ![d[1]] = d[2]]
         /\ rejection' = rejection \ {d[1]}
         /\ refs' = refs \cup {d}
    ELSE UNCHANGED <<draft_id, rejection, refs>>

-----------------------------------------------------------------------------
(* Preparing and recovering. *)

\* _stage up to the request.  A rejected intent is refused at once, and one
\* with a draft is answered by reading it (OpenDraft).
Stage(h, i) ==
  /\ pc[h] = "idle"
  /\ i \notin rejection
  /\ draft_id[i] = 0
  /\ prepare_intent(i)
  /\ Ask(h, "prepare", <<i, key'[i]>>)
  /\ UNCHANGED <<draft_id, rejection, refs, walkVars, javaVars, told>>

\* _drafts: overview, changes_page, pending changes, the business snapshot.
OpenPage(h) ==
  /\ pc[h] = "idle"
  /\ pc' = [pc EXCEPT ![h] = "recovering"]
  /\ page' = page \cup {h}
  /\ UNCHANGED <<rowVars, at, answer, missing, binding, javaVars, told>>

\* Fault: only the conversations of today's storefront are recovered.
missingOfStorefront(b) ==
  {<<i, key[i]>> : i \in {j \in Intents : /\ BindingOf[j] = b /\ b = 1 /\ key[j] # 0
                                          /\ draft_id[j] = 0 /\ j \notin rejection}}

\* Rows without a draft and without a rejection.
missingRows(b) ==
  {<<i, key[i]>> : i \in {j \in Intents : /\ BindingOf[j] = b /\ key[j] # 0
                                          /\ draft_id[j] = 0 /\ j \notin rejection}}

RecoverBinding(h) ==
  /\ pc[h] = "recovering"
  /\ missing[h] = {} /\ binding[h] < LastBinding
  /\ binding' = [binding EXCEPT ![h] = @ + 1]
  /\ missing' = [missing EXCEPT ![h] = missingRows(binding'[h])]
  /\ UNCHANGED <<rowVars, page, callVars, javaVars, told>>

\* Repeats one of them, whatever has become of its row meanwhile.
RecoverNext(h, d) ==
  /\ pc[h] = "recovering"
  /\ d \in missing[h]
  /\ missing' = [missing EXCEPT ![h] = @ \ {d}]
  /\ Ask(h, "prepare", d)
  /\ UNCHANGED <<rowVars, page, binding, javaVars, told>>

Recovered(h) ==
  /\ pc[h] = "recovering"
  /\ missing[h] = {} /\ binding[h] = LastBinding
  /\ pc' = [pc EXCEPT ![h] = "listing"]
  /\ binding' = [binding EXCEPT ![h] = 1]
  /\ UNCHANGED <<rowVars, page, at, answer, missing, javaVars, told>>

Attach(h) ==
  /\ pc[h] = "answered"
  /\ at[h].verb = "prepare" /\ answer[h] # "REFUSED"
  /\ attach_draft(at[h].draft)
  /\ IF draft_id[at[h].draft[1]] \in {0, at[h].draft[2]} THEN Proceed(h) ELSE End(h)
  /\ UNCHANGED <<key, javaVars, told>>

\* A category of PREPARE_REJECTIONS.
Refuse(h) ==
  /\ pc[h] = "answered"
  /\ at[h].verb = "prepare" /\ answer[h] = "REFUSED"
  /\ reject_intent(at[h].draft[1])
  /\ Proceed(h)
  /\ UNCHANGED <<key, refs, javaVars, told>>

\* Fault: changes are listed and not remembered.
ListOnly(h, rows) ==
  /\ pc[h] = "listing"
  /\ IF binding[h] = LastBinding
       THEN End(h)
       ELSE binding' = [binding EXCEPT ![h] = @ + 1] /\ UNCHANGED <<callVars, page, missing>>
  /\ UNCHANGED <<rowVars, javaVars, told>>

\* The changes of one binding, all of them or those of a state or a page.
List(h, rows) ==
  /\ pc[h] = "listing"
  /\ refs' = refs \cup rows
  /\ IF binding[h] = LastBinding
       THEN End(h)
       ELSE binding' = [binding EXCEPT ![h] = @ + 1] /\ UNCHANGED <<callVars, page, missing>>
  /\ UNCHANGED <<key, draft_id, rejection, javaVars, told>>

-----------------------------------------------------------------------------
(* Deciding. *)

\* _owned_draft, which every read and decision begins with.
OpenDraft(d) ==
  /\ changes[d] # "none"
  /\ refs' = refs \cup {d}
  /\ UNCHANGED <<key, draft_id, rejection, walkVars, callVars, javaVars, told>>

\* apply_by_operator with the operator's own token; discard_by_operator and
\* the discard_change tool.  What _owned_draft read is not looked at.
Decide(h, verb, d) ==
  /\ pc[h] = "idle"
  /\ changes[d] # "none"
  /\ refs' = refs \cup {d}
  /\ Ask(h, verb, d)
  /\ UNCHANGED <<key, draft_id, rejection, walkVars, javaVars, told>>

wanted == [apply |-> "APPLIED", cancel |-> "CANCELLED"]

\* Fault: an answer with status 200 counts as done.
AnsweredOk(h) ==
  /\ pc[h] = "answered"
  /\ at[h].verb # "prepare"
  /\ told' = told \cup {<<at[h].draft, wanted[at[h].verb]>>}
  /\ End(h)
  /\ UNCHANGED <<rowVars, javaVars>>

\* The receipt is shown; ok says whether its state is the one wanted.
Answered(h) ==
  /\ pc[h] = "answered"
  /\ at[h].verb # "prepare"
  /\ told' = IF answer[h] = wanted[at[h].verb]
               THEN told \cup {<<at[h].draft, answer[h]>>} ELSE told
  /\ End(h)
  /\ UNCHANGED <<rowVars, javaVars>>

-----------------------------------------------------------------------------
(* Java, failures and restarts. *)

\* What a change may be after Java carried a request out: a repeated request
\* finds the outcome of the first, only PREPARED can be decided.
Outcomes(r) ==
  LET state == changes[r.draft] IN
    IF state \in States \ {"PREPARED"} THEN {state}
    ELSE CASE r.verb = "prepare" -> {"PREPARED"}
           [] r.verb = "apply" -> {"APPLIED", "REJECTED"}
           [] r.verb = "cancel" -> {"CANCELLED"}

JavaAnswers(h) ==
  /\ pc[h] = "sent"
  /\ \E state \in Outcomes(at[h]) :
       /\ changes' = [changes EXCEPT ![at[h].draft] = state]
       /\ answer' = [answer EXCEPT ![h] = state]
  /\ pc' = [pc EXCEPT ![h] = "answered"]
  /\ UNCHANGED <<rowVars, walkVars, at, late, refused, told>>

\* The products do not allow the change now.
JavaRefuses(h) ==
  /\ pc[h] = "sent"
  /\ at[h].verb = "prepare"
  /\ changes[at[h].draft] = "none"
  /\ refused' = refused \cup {at[h].draft[1]}
  /\ answer' = [answer EXCEPT ![h] = "REFUSED"]
  /\ pc' = [pc EXCEPT ![h] = "answered"]
  /\ UNCHANGED <<rowVars, walkVars, at, late, changes, told>>

LateCarriedOut(r) ==
  /\ r \in late
  /\ \E state \in Outcomes(r) : changes' = [changes EXCEPT ![r.draft] = state]
  /\ late' = late \ {r}
  /\ UNCHANGED <<rowVars, walkVars, callVars, refused, told>>

LateDropped(r) ==
  /\ r \in late
  /\ late' = late \ {r}
  /\ UNCHANGED <<rowVars, walkVars, callVars, changes, refused, told>>

\* Fault: any error of a prepare is stored as its refusal.
GiveUpRejecting(h) ==
  /\ pc[h] # "idle"
  /\ late' = IF pc[h] = "sent" THEN late \cup {at[h]} ELSE late
  /\ IF pc[h] = "sent" /\ at[h].verb = "prepare"
       THEN reject_intent(at[h].draft[1]) ELSE UNCHANGED <<draft_id, rejection>>
  /\ End(h)
  /\ UNCHANGED <<key, refs, changes, refused, told>>

\* Every other error, and cancellation, when a turn is stopped: the page or
\* the tool call fails, the row stays as it is.
GiveUp(h) ==
  /\ pc[h] # "idle"
  /\ late' = IF pc[h] = "sent" THEN late \cup {at[h]} ELSE late
  /\ End(h)
  /\ UNCHANGED <<rowVars, changes, refused, told>>

Restart ==
  /\ late' = late \cup {at[h] : h \in {g \in Handlers : pc[g] = "sent"}}
  /\ pc' = [h \in Handlers |-> "idle"]
  /\ page' = {}
  /\ at' = [h \in Handlers |-> NoRequest]
  /\ answer' = [h \in Handlers |-> "none"]
  /\ missing' = [h \in Handlers |-> {}]
  /\ binding' = [h \in Handlers |-> 0]
  /\ UNCHANGED <<rowVars, changes, refused, told>>

-----------------------------------------------------------------------------
Handle(h) ==
  \/ \E i \in Intents : Stage(h, i)
  \/ OpenPage(h) \/ RecoverBinding(h) \/ Recovered(h)
  \/ Attach(h) \/ Refuse(h) \/ Answered(h)
  \/ \E d \in Drafts : RecoverNext(h, d)
  \/ \E rows \in SUBSET existing(binding[h]) : List(h, rows)
  \/ \E d \in Drafts, verb \in Decisions : Decide(h, verb, d)
  \/ JavaAnswers(h) \/ JavaRefuses(h) \/ GiveUp(h)

Next ==
  \/ \E h \in Handlers : Handle(h)
  \/ \E d \in Drafts : OpenDraft(d)
  \/ \E r \in late : LateCarriedOut(r) \/ LateDropped(r)
  \/ Restart

Spec == Init /\ [][Next]_vars

\* The operator's page fails, is refused or dies between its requests.
Interrupted ==
  Operator \in page /\ pc[Operator] # "listing" /\ Operator \notin page'

\* What goes on by itself: Java answers, and a tool call may end without it.
Goes(h) ==
  \/ RecoverBinding(h) \/ Recovered(h) \/ \E d \in Drafts : RecoverNext(h, d)
  \/ JavaAnswers(h) \/ JavaRefuses(h) \/ Attach(h) \/ Refuse(h)
  \/ List(h, existing(binding[h]))
  \/ h \notin page /\ GiveUp(h)

\* The operator opens the overview again and again, lists every binding in full
\* again and again, and from some time on is not interrupted before the list.
\* Nothing is assumed of the other handlers.
Fairness ==
  /\ SF_vars(OpenPage(Operator))
  /\ WF_vars(Goes(Operator))
  /\ \A b \in 1 .. LastBinding :
       SF_vars(binding[Operator] = b /\ List(Operator, existing(b)))
  /\ <>[][~Interrupted]_vars

FairSpec == Spec /\ Fairness

-----------------------------------------------------------------------------
(* Properties. *)

TypeOK ==
  /\ key \in [Intents -> 0 .. MaxKeys]
  /\ draft_id \in [Intents -> 0 .. MaxKeys]
  /\ rejection \subseteq Intents
  /\ refs \subseteq Drafts
  /\ pc \in [Handlers -> Places]
  /\ page \subseteq Handlers
  /\ at \in [Handlers -> Request \cup {NoRequest}]
  /\ answer \in [Handlers -> States \cup {"REFUSED", "none"}]
  /\ missing \in [Handlers -> SUBSET Drafts]
  /\ binding \in [Handlers -> 0 .. LastBinding]
  /\ late \subseteq Request
  /\ changes \in [Drafts -> States \cup {"none"}]
  /\ refused \subseteq Intents
  /\ told \subseteq Drafts \X States

\* However often an intent is repeated, by the model, by pages or after a
\* restart, Java holds at most one change for it, the one its row names.
OneDraft ==
  \A d \in Drafts : changes[d] # "none" =>
    /\ \A e \in Drafts : (e[1] = d[1] /\ changes[e] # "none") => e = d
    /\ draft_id[d[1]] \in {0, d[2]}

\* Once a row names its draft no later answer, refusal or failure takes it
\* away or puts a rejection beside it, and the operator can find the draft.
DraftKept ==
  [][\A i \in Intents : draft_id[i] # 0 =>
       draft_id'[i] = draft_id[i] /\ i \notin rejection' /\ <<i, draft_id[i]>> \in refs']_vars

\* Only what Java refused is stored as rejected: an uncertain request is not.
RefusalsConfirmed == rejection \subseteq refused

\* The operator is told that a change is applied or discarded only if it is,
\* for good, however approvals, the discards of the model, and their repeats
\* overtake each other.
ToldTruth == \A t \in told : changes[t[1]] = t[2]

\* What the comment in reject_intent says: a draft that Java committed takes
\* precedence over a refusal of the same intent that another request got.
CommitWins ==
  \A d \in Drafts : (changes[d] # "none" /\ d[1] \in rejection) =>
    \E h \in Handlers :
      /\ at[h] = [verb |-> "prepare", draft |-> d]
      /\ pc[h] \in {"sent", "answered"}

\* Every change in Java is sooner or later among those the operator can open,
\* also if its reply was lost, it was carried out late or its row is rejected.
DraftsFound ==
  \A i \in Intents :
    (\E k \in Keys : changes[<<i, k>>] # "none") ~>
      (\A k \in Keys : changes[<<i, k>>] # "none" => <<i, k>> \in refs)

\* Every recorded intent gets an outcome, by the repeats of later pages, if from some
\* time on none of them fails: a prepare that always fails with an error that is no
\* rejection holds back every intent behind it, as the page raises (backend.py:223).
IntentsSettle ==
  \A i \in Intents : (key[i] # 0) ~> (draft_id[i] # 0 \/ i \in rejection)

-----------------------------------------------------------------------------
recordOf ==
  [i \in Intents |-> CASE key[i] = 0 -> "none"
                      [] key[i] # 0 /\ draft_id[i] # 0 -> "drafted"
                      [] key[i] # 0 /\ draft_id[i] = 0 ->
                           IF i \in rejection THEN "rejected" ELSE "recorded"]

changeOf ==
  [i \in Intents |->
     {<<k, changes[<<i, k>>]>> : k \in {n \in Keys : changes[<<i, n>>] # "none"}}]

Register == INSTANCE ChangeRegister WITH
  record <- recordOf, change <- changeOf, reported <- told

\* Whatever repeats, overtakes or is lost, the operator sees a register in which an
\* intent is recorded before it is asked for, becomes one change, which is decided
\* once, and is drafted for good (sessions.py:319-362, backend.py:201-296, 610-634).
KeepsRegister == Register!Spec
=============================================================================
