------------------------ MODULE MerchantDraftsProofs ------------------------
(***************************************************************************)
(* Theorems about MerchantDrafts for every number of intents, bindings and *)
(* handlers, and however many request keys could be drawn.                 *)
(***************************************************************************)
EXTENDS MerchantDrafts, TLAPS

\* The draft is named by the request key of its row.
Drawn(d) == d[2] = key[d[1]]

\* An intent has one request key, and whatever a handler, a late request, Java
\* or the row itself names is the draft of that key.
OneKey ==
  /\ \A i \in Intents : key[i] \in {0, 1} /\ draft_id[i] \in {0, key[i]}
  /\ \A h \in Handlers : at[h] # NoRequest => Drawn(at[h].draft)
  /\ \A h \in Handlers : \A d \in missing[h] : Drawn(d)
  /\ \A r \in late : Drawn(r.draft)
  /\ \A d \in Drafts : changes[d] # "none" => Drawn(d)

Asking == \A h \in Handlers : pc[h] \in {"sent", "answered"} => at[h] # NoRequest

\* What Java said of a refusal or a decision is still true when it is read.
AnswersHold ==
  \A h \in Handlers : pc[h] = "answered" =>
    /\ answer[h] = "REFUSED" => at[h].draft[1] \in refused
    /\ answer[h] \in {"APPLIED", "CANCELLED"} => changes[at[h].draft] = answer[h]

Attached ==
  \A i \in Intents : draft_id[i] # 0 => i \notin rejection /\ <<i, draft_id[i]>> \in refs

ToldDecisions == told \subseteq Drafts \X {"APPLIED", "CANCELLED"}

IInv ==
  /\ TypeOK
  /\ OneKey
  /\ Asking
  /\ AnswersHold
  /\ Attached
  /\ RefusalsConfirmed
  /\ ToldDecisions
  /\ ToldTruth
-----------------------------------------------------------------------------
(* Facts about the operators of the model. *)

\* A request is carried out to a state, and a decision is never undone.
LEMMA OutcomesAreFinal ==
  ASSUME TypeOK, NEW r \in Request, NEW state \in Outcomes(r)
  PROVE  /\ state \in States
         /\ changes[r.draft] \in {"APPLIED", "CANCELLED"} => state = changes[r.draft]
<1>1. r.draft \in Drafts /\ r.verb \in {"prepare", "apply", "cancel"}
  BY DEF Request
<1>2. CASE changes[r.draft] \in States \ {"PREPARED"}
  BY <1>2 DEF Outcomes, States
<1>3. CASE changes[r.draft] \notin States \ {"PREPARED"}
  BY <1>1, <1>3 DEF Outcomes, States
<1> QED BY <1>2, <1>3

\* Carrying out a request that names the draft of its row keeps everything
\* that is said about the changes.
LEMMA ChangesKept ==
  ASSUME IInv, NEW r \in Request, Drawn(r.draft), NEW state \in Outcomes(r),
         changes' = [changes EXCEPT ![r.draft] = state], UNCHANGED <<key, told>>
  PROVE  /\ changes' \in [Drafts -> States \cup {"none"}]
         /\ changes'[r.draft] = state /\ state \in States
         /\ \A d \in Drafts : changes'[d] # "none" => Drawn(d)
         /\ \A d \in Drafts : changes[d] \in {"APPLIED", "CANCELLED"} => changes'[d] = changes[d]
         /\ ToldTruth'
<1>1. /\ state \in States
      /\ changes[r.draft] \in {"APPLIED", "CANCELLED"} => state = changes[r.draft]
  BY OutcomesAreFinal DEF IInv
<1>2. r.draft \in Drafts
  BY DEF Request
<1>3. changes \in [Drafts -> States \cup {"none"}]
  BY DEF IInv, TypeOK
<1>4. \A d \in Drafts : changes'[d] # "none" => Drawn(d)
  BY <1>1, <1>2, <1>3 DEF IInv, OneKey
<1>5. \A d \in Drafts : changes[d] \in {"APPLIED", "CANCELLED"} => changes'[d] = changes[d]
  BY <1>1, <1>2, <1>3
<1>6. ToldTruth'
  BY <1>5 DEF IInv, ToldTruth, ToldDecisions
<1> QED BY <1>1, <1>2, <1>3, <1>4, <1>5, <1>6

\* What a handler leaves when it returns, goes on, or asks.
LEMMA EndTyped ==
  ASSUME TypeOK, NEW h \in Handlers, End(h)
  PROVE  /\ pc' \in [Handlers -> Places] /\ page' \subseteq Handlers
         /\ at' \in [Handlers -> Request \cup {NoRequest}]
         /\ answer' \in [Handlers -> States \cup {"REFUSED", "none"}]
         /\ missing' \in [Handlers -> SUBSET Drafts]
         /\ binding' \in [Handlers -> 0 .. LastBinding]
<1>1. 0 \in 0 .. LastBinding
  BY DraftsAssumption
<1> QED BY <1>1 DEF End, TypeOK, Places

LEMMA ProceedTyped ==
  ASSUME TypeOK, NEW h \in Handlers, Proceed(h)
  PROVE  /\ pc' \in [Handlers -> Places] /\ page' \subseteq Handlers
         /\ at' \in [Handlers -> Request \cup {NoRequest}]
         /\ answer' \in [Handlers -> States \cup {"REFUSED", "none"}]
         /\ missing' \in [Handlers -> SUBSET Drafts]
         /\ binding' \in [Handlers -> 0 .. LastBinding]
<1>1. CASE h \in page
  BY <1>1 DEF Proceed, TypeOK, Places, walkVars
<1>2. CASE h \notin page
  BY <1>2, EndTyped DEF Proceed
<1> QED BY <1>1, <1>2

LEMMA InitInv == Init => IInv
BY DraftsAssumption, NoRequestAssumption
   DEF Init, IInv, TypeOK, OneKey, Asking, AnswersHold, Attached, RefusalsConfirmed,
       ToldDecisions, ToldTruth, Places, Drawn

-----------------------------------------------------------------------------
(* Every action preserves the inductive invariant. *)

LEMMA StageInv ==
  ASSUME IInv, NEW h \in Handlers, NEW i \in Intents, Stage(h, i)
  PROVE  IInv'
<1> USE DraftsAssumption, NoRequestAssumption
       DEF IInv, Stage, prepare_intent, Ask, rowVars, walkVars, callVars, javaVars
<1>k. key'[i] = 1 /\ key' \in [Intents -> 0 .. MaxKeys] /\ <<i, 1>> \in Drafts
  BY DEF TypeOK, OneKey, Drafts, Keys
<1>o. \A j \in Intents : key'[j] \in {0, 1} /\ (key[j] # 0 => key'[j] = key[j])
  BY <1>k DEF TypeOK, OneKey
<1>d. \A d \in Drafts : Drawn(d) => Drawn(d)'
  BY <1>o DEF Drawn, Drafts, Keys
<1>q. at' = [at EXCEPT ![h] = [verb |-> "prepare", draft |-> <<i, 1>>]]
  BY <1>k
<1>p. [verb |-> "prepare", draft |-> <<i, 1>>] \in Request
  BY <1>k DEF Request
<1>r. at'[h] \in Request /\ at'[h] # NoRequest /\ at'[h].draft = <<i, 1>>
  BY <1>p, <1>q DEF TypeOK
<1>1. TypeOK'
  BY <1>k, <1>r DEF TypeOK, Places
<1>2. OneKey'
  BY <1>k, <1>o, <1>d, <1>r DEF TypeOK, OneKey, Drawn, Request
<1>3. Asking'
  BY <1>r DEF TypeOK, Asking
<1>4. AnswersHold'
  BY DEF TypeOK, AnswersHold, Asking
<1>5. Attached'
  BY DEF TypeOK, Attached, OneKey
<1>6. RefusalsConfirmed'
  BY DEF TypeOK, RefusalsConfirmed
<1>7. ToldDecisions'
  BY DEF TypeOK, ToldDecisions
<1>8. ToldTruth'
  BY DEF TypeOK, ToldTruth, ToldDecisions
<1> QED BY <1>1, <1>2, <1>3, <1>4, <1>5, <1>6, <1>7, <1>8 DEF IInv

LEMMA OpenPageInv ==
  ASSUME IInv, NEW h \in Handlers, OpenPage(h)
  PROVE  IInv'
<1> USE DraftsAssumption, NoRequestAssumption
       DEF IInv, OpenPage, rowVars, walkVars, callVars, javaVars
<1>1. TypeOK'
  BY DEF TypeOK, Places, Request, Drafts, Keys, States
<1>2. OneKey'
  BY DEF TypeOK, OneKey, Asking, Drawn, Request, Drafts
<1>3. Asking'
  BY DEF TypeOK, Asking
<1>4. AnswersHold'
  BY DEF TypeOK, AnswersHold, Asking
<1>5. Attached'
  BY DEF TypeOK, Attached, OneKey
<1>6. RefusalsConfirmed'
  BY DEF TypeOK, RefusalsConfirmed
<1>7. ToldDecisions'
  BY DEF TypeOK, ToldDecisions
<1>8. ToldTruth'
  BY DEF TypeOK, ToldTruth, ToldDecisions
<1> QED BY <1>1, <1>2, <1>3, <1>4, <1>5, <1>6, <1>7, <1>8 DEF IInv

LEMMA RecoverBindingInv ==
  ASSUME IInv, NEW h \in Handlers, RecoverBinding(h)
  PROVE  IInv'
<1> USE DraftsAssumption, NoRequestAssumption
       DEF IInv, RecoverBinding, missingRows, rowVars, walkVars, callVars, javaVars
<1>1. TypeOK'
  BY DEF TypeOK, Places, Request, Drafts, Keys, States
<1>2. OneKey'
  BY DEF TypeOK, OneKey, Asking, Drawn, Request, Drafts
<1>3. Asking'
  BY DEF TypeOK, Asking
<1>4. AnswersHold'
  BY DEF TypeOK, AnswersHold, Asking
<1>5. Attached'
  BY DEF TypeOK, Attached, OneKey
<1>6. RefusalsConfirmed'
  BY DEF TypeOK, RefusalsConfirmed
<1>7. ToldDecisions'
  BY DEF TypeOK, ToldDecisions
<1>8. ToldTruth'
  BY DEF TypeOK, ToldTruth, ToldDecisions
<1> QED BY <1>1, <1>2, <1>3, <1>4, <1>5, <1>6, <1>7, <1>8 DEF IInv

LEMMA RecoverNextInv ==
  ASSUME IInv, NEW h \in Handlers, NEW d \in Drafts, RecoverNext(h, d)
  PROVE  IInv'
<1> USE DraftsAssumption, NoRequestAssumption
       DEF IInv, RecoverNext, Ask, rowVars, walkVars, callVars, javaVars
<1>r. [verb |-> "prepare", draft |-> d] \in Request /\ [verb |-> "prepare", draft |-> d] # NoRequest
  BY DEF Request, TypeOK, Drafts, Keys, OneKey
<1>1. TypeOK'
  BY DEF TypeOK, Places, Request, Drafts, Keys, States
<1>2. OneKey'
  BY DEF TypeOK, OneKey, Asking, Drawn, Request, Drafts
<1>3. Asking'
  BY <1>r DEF TypeOK, Asking
<1>4. AnswersHold'
  BY DEF TypeOK, AnswersHold, Asking
<1>5. Attached'
  BY DEF TypeOK, Attached, OneKey
<1>6. RefusalsConfirmed'
  BY DEF TypeOK, RefusalsConfirmed
<1>7. ToldDecisions'
  BY DEF TypeOK, ToldDecisions
<1>8. ToldTruth'
  BY DEF TypeOK, ToldTruth, ToldDecisions
<1> QED BY <1>1, <1>2, <1>3, <1>4, <1>5, <1>6, <1>7, <1>8 DEF IInv

LEMMA RecoveredInv ==
  ASSUME IInv, NEW h \in Handlers, Recovered(h)
  PROVE  IInv'
<1> USE DraftsAssumption, NoRequestAssumption
       DEF IInv, Recovered, rowVars, walkVars, callVars, javaVars
<1>1. TypeOK'
  BY DEF TypeOK, Places, Request, Drafts, Keys, States
<1>2. OneKey'
  BY DEF TypeOK, OneKey, Asking, Drawn, Request, Drafts
<1>3. Asking'
  BY DEF TypeOK, Asking
<1>4. AnswersHold'
  BY DEF TypeOK, AnswersHold, Asking
<1>5. Attached'
  BY DEF TypeOK, Attached, OneKey
<1>6. RefusalsConfirmed'
  BY DEF TypeOK, RefusalsConfirmed
<1>7. ToldDecisions'
  BY DEF TypeOK, ToldDecisions
<1>8. ToldTruth'
  BY DEF TypeOK, ToldTruth, ToldDecisions
<1> QED BY <1>1, <1>2, <1>3, <1>4, <1>5, <1>6, <1>7, <1>8 DEF IInv

LEMMA AttachInv ==
  ASSUME IInv, NEW h \in Handlers, Attach(h)
  PROVE  IInv'
<1> USE DraftsAssumption, NoRequestAssumption
       DEF IInv, Attach, attach_draft, Proceed, End, rowVars, walkVars, callVars, javaVars
<1>a. at[h] \in Request /\ at[h].draft \in Drafts /\ Drawn(at[h].draft)
  BY DEF Asking, OneKey, TypeOK, Request
<1>d. /\ at[h].draft[1] \in Intents
      /\ at[h].draft[2] \in Keys
      /\ at[h].draft = <<at[h].draft[1], at[h].draft[2]>>
  BY <1>a DEF Drafts
<1>u. /\ draft_id' = [draft_id EXCEPT ![at[h].draft[1]] = at[h].draft[2]]
      /\ rejection' = rejection \ {at[h].draft[1]}
      /\ refs' = refs \cup {at[h].draft}
      /\ Proceed(h)
  BY <1>a, <1>d DEF TypeOK, OneKey, Drawn, Keys
<1>1. TypeOK'
  BY <1>a, <1>d, <1>u, ProceedTyped DEF TypeOK, Keys
<1>2. OneKey'
  BY <1>a, <1>d, <1>u DEF TypeOK, OneKey, Drawn
<1>3. Asking'
  BY DEF TypeOK, Asking
<1>4. AnswersHold'
  BY DEF TypeOK, AnswersHold, Asking
<1>5. Attached'
  BY <1>a, <1>d, <1>u DEF TypeOK, Attached, OneKey, Drawn, Keys
<1>6. RefusalsConfirmed'
  BY DEF TypeOK, RefusalsConfirmed
<1>7. ToldDecisions'
  BY DEF TypeOK, ToldDecisions
<1>8. ToldTruth'
  BY DEF TypeOK, ToldTruth, ToldDecisions
<1> QED BY <1>1, <1>2, <1>3, <1>4, <1>5, <1>6, <1>7, <1>8 DEF IInv

LEMMA RefuseInv ==
  ASSUME IInv, NEW h \in Handlers, Refuse(h)
  PROVE  IInv'
<1> USE DraftsAssumption, NoRequestAssumption
       DEF IInv, Refuse, reject_intent, Proceed, End, rowVars, walkVars, callVars, javaVars
<1>a. at[h] \in Request /\ at[h].draft[1] \in Intents
  BY DEF Asking, TypeOK, Request, Drafts
<1>1. TypeOK'
  BY <1>a, ProceedTyped DEF TypeOK
<1>2. OneKey'
  BY <1>a DEF TypeOK, OneKey, Drawn
<1>3. Asking'
  BY DEF TypeOK, Asking
<1>4. AnswersHold'
  BY DEF TypeOK, AnswersHold, Asking
<1>5. Attached'
  BY DEF TypeOK, Attached, OneKey
<1>6. RefusalsConfirmed'
  BY <1>a DEF TypeOK, RefusalsConfirmed, AnswersHold
<1>7. ToldDecisions'
  BY DEF TypeOK, ToldDecisions
<1>8. ToldTruth'
  BY DEF TypeOK, ToldTruth, ToldDecisions
<1> QED BY <1>1, <1>2, <1>3, <1>4, <1>5, <1>6, <1>7, <1>8 DEF IInv

LEMMA ListInv ==
  ASSUME IInv, NEW h \in Handlers, NEW rows \in SUBSET existing(binding[h]), List(h, rows)
  PROVE  IInv'
<1> USE DraftsAssumption, NoRequestAssumption
       DEF IInv, List, existing, End, rowVars, walkVars, callVars, javaVars
<1>1. TypeOK'
  BY EndTyped DEF TypeOK
<1>2. OneKey'
  BY DEF TypeOK, OneKey, Asking, Drawn, Request, Drafts
<1>3. Asking'
  BY DEF TypeOK, Asking
<1>4. AnswersHold'
  BY DEF TypeOK, AnswersHold, Asking
<1>5. Attached'
  BY DEF TypeOK, Attached, OneKey
<1>6. RefusalsConfirmed'
  BY DEF TypeOK, RefusalsConfirmed
<1>7. ToldDecisions'
  BY DEF TypeOK, ToldDecisions
<1>8. ToldTruth'
  BY DEF TypeOK, ToldTruth, ToldDecisions
<1> QED BY <1>1, <1>2, <1>3, <1>4, <1>5, <1>6, <1>7, <1>8 DEF IInv

LEMMA OpenDraftInv ==
  ASSUME IInv, NEW d \in Drafts, OpenDraft(d)
  PROVE  IInv'
<1> USE DraftsAssumption, NoRequestAssumption
       DEF IInv, OpenDraft, rowVars, walkVars, callVars, javaVars
<1>1. TypeOK'
  BY DEF TypeOK, Places, Request, Drafts, Keys, States
<1>2. OneKey'
  BY DEF TypeOK, OneKey, Asking, Drawn, Request, Drafts
<1>3. Asking'
  BY DEF TypeOK, Asking
<1>4. AnswersHold'
  BY DEF TypeOK, AnswersHold, Asking
<1>5. Attached'
  BY DEF TypeOK, Attached, OneKey
<1>6. RefusalsConfirmed'
  BY DEF TypeOK, RefusalsConfirmed
<1>7. ToldDecisions'
  BY DEF TypeOK, ToldDecisions
<1>8. ToldTruth'
  BY DEF TypeOK, ToldTruth, ToldDecisions
<1> QED BY <1>1, <1>2, <1>3, <1>4, <1>5, <1>6, <1>7, <1>8 DEF IInv

LEMMA DecideInv ==
  ASSUME IInv, NEW h \in Handlers, NEW verb \in Decisions, NEW d \in Drafts, Decide(h, verb, d)
  PROVE  IInv'
<1> USE DraftsAssumption, NoRequestAssumption
       DEF IInv, Decide, Ask, rowVars, walkVars, callVars, javaVars
<1>r. [verb |-> verb, draft |-> d] \in Request /\ [verb |-> verb, draft |-> d] # NoRequest
  BY DEF Request, TypeOK, Drafts, Keys, OneKey
<1>1. TypeOK'
  BY DEF TypeOK, Places, Request, Drafts, Keys, States
<1>2. OneKey'
  BY DEF TypeOK, OneKey, Asking, Drawn, Request, Drafts
<1>3. Asking'
  BY <1>r DEF TypeOK, Asking
<1>4. AnswersHold'
  BY DEF TypeOK, AnswersHold, Asking
<1>5. Attached'
  BY DEF TypeOK, Attached, OneKey
<1>6. RefusalsConfirmed'
  BY DEF TypeOK, RefusalsConfirmed
<1>7. ToldDecisions'
  BY DEF TypeOK, ToldDecisions
<1>8. ToldTruth'
  BY DEF TypeOK, ToldTruth, ToldDecisions
<1> QED BY <1>1, <1>2, <1>3, <1>4, <1>5, <1>6, <1>7, <1>8 DEF IInv

LEMMA AnsweredInv ==
  ASSUME IInv, NEW h \in Handlers, Answered(h)
  PROVE  IInv'
<1> USE DraftsAssumption, NoRequestAssumption
       DEF IInv, Answered, wanted, End, rowVars, walkVars, callVars, javaVars
<1>a. at[h] \in Request /\ at[h].draft \in Drafts
  BY DEF Asking, TypeOK, Request
<1>w. at[h].verb \in {"apply", "cancel"} /\ wanted[at[h].verb] \in {"APPLIED", "CANCELLED"}
  BY <1>a DEF Request
<1>t. \/ told' = told
      \/ /\ told' = told \cup {<<at[h].draft, answer[h]>>}
         /\ answer[h] \in {"APPLIED", "CANCELLED"} /\ changes[at[h].draft] = answer[h]
  BY <1>w DEF AnswersHold
<1>s. told' \subseteq Drafts \X States
  BY <1>a, <1>t DEF TypeOK, States
<1>1. TypeOK'
  BY <1>s, EndTyped DEF TypeOK
<1>2. OneKey'
  BY DEF TypeOK, OneKey, Asking, Drawn, Request, Drafts
<1>3. Asking'
  BY DEF TypeOK, Asking
<1>4. AnswersHold'
  BY DEF TypeOK, AnswersHold, Asking
<1>5. Attached'
  BY DEF TypeOK, Attached, OneKey
<1>6. RefusalsConfirmed'
  BY DEF TypeOK, RefusalsConfirmed
<1>7. ToldDecisions'
  BY <1>a, <1>t DEF ToldDecisions
<1>8. ToldTruth'
  BY <1>a, <1>t DEF ToldTruth, ToldDecisions
<1> QED BY <1>1, <1>2, <1>3, <1>4, <1>5, <1>6, <1>7, <1>8 DEF IInv

LEMMA JavaAnswersInv ==
  ASSUME IInv, NEW h \in Handlers, JavaAnswers(h)
  PROVE  IInv'
<1> USE DraftsAssumption, NoRequestAssumption
       DEF IInv, JavaAnswers, rowVars, walkVars, callVars, javaVars
<1>r. at[h] \in Request /\ Drawn(at[h].draft) /\ at[h].draft \in Drafts
  BY DEF TypeOK, OneKey, Asking, Request
<1>s. PICK state \in Outcomes(at[h]) :
        /\ changes' = [changes EXCEPT ![at[h].draft] = state]
        /\ answer' = [answer EXCEPT ![h] = state]
  OBVIOUS
<1>c. /\ changes' \in [Drafts -> States \cup {"none"}]
      /\ changes'[at[h].draft] = state /\ state \in States
      /\ \A d \in Drafts : changes'[d] # "none" => Drawn(d)
      /\ \A d \in Drafts : changes[d] \in {"APPLIED", "CANCELLED"} => changes'[d] = changes[d]
      /\ ToldTruth'
  BY <1>r, <1>s, ChangesKept
<1>1. TypeOK'
  BY <1>r, <1>s, <1>c DEF TypeOK, Places, Request, Drafts, Keys, States
<1>2. OneKey'
  BY <1>r, <1>s, <1>c DEF TypeOK, OneKey, Asking, Drawn, Request, Drafts
<1>3. Asking'
  BY DEF TypeOK, Asking
<1>4. AnswersHold'
  BY <1>r, <1>s, <1>c DEF TypeOK, AnswersHold, Asking, Request, States
<1>5. Attached'
  BY DEF TypeOK, Attached, OneKey
<1>6. RefusalsConfirmed'
  BY DEF TypeOK, RefusalsConfirmed
<1>7. ToldDecisions'
  BY DEF TypeOK, ToldDecisions
<1>8. ToldTruth'
  BY <1>r, <1>s, <1>c DEF TypeOK, ToldTruth, ToldDecisions
<1> QED BY <1>1, <1>2, <1>3, <1>4, <1>5, <1>6, <1>7, <1>8 DEF IInv

LEMMA JavaRefusesInv ==
  ASSUME IInv, NEW h \in Handlers, JavaRefuses(h)
  PROVE  IInv'
<1> USE DraftsAssumption, NoRequestAssumption
       DEF IInv, JavaRefuses, rowVars, walkVars, callVars, javaVars
<1>a. at[h] \in Request /\ at[h].draft[1] \in Intents
  BY DEF Asking, TypeOK, Request, Drafts
<1>1. TypeOK'
  BY <1>a DEF TypeOK, Places
<1>2. OneKey'
  BY DEF TypeOK, OneKey, Asking, Drawn, Request, Drafts
<1>3. Asking'
  BY DEF TypeOK, Asking
<1>4. AnswersHold'
  BY DEF TypeOK, AnswersHold, Asking
<1>5. Attached'
  BY DEF TypeOK, Attached, OneKey
<1>6. RefusalsConfirmed'
  BY DEF TypeOK, RefusalsConfirmed
<1>7. ToldDecisions'
  BY DEF TypeOK, ToldDecisions
<1>8. ToldTruth'
  BY DEF TypeOK, ToldTruth, ToldDecisions
<1> QED BY <1>1, <1>2, <1>3, <1>4, <1>5, <1>6, <1>7, <1>8 DEF IInv

LEMMA LateCarriedOutInv ==
  ASSUME IInv, NEW r \in late, LateCarriedOut(r)
  PROVE  IInv'
<1> USE DraftsAssumption, NoRequestAssumption
       DEF IInv, LateCarriedOut, rowVars, walkVars, callVars, javaVars
<1>r. r \in Request /\ Drawn(r.draft) /\ r.draft \in Drafts
  BY DEF TypeOK, OneKey, Asking, Request
<1>s. PICK state \in Outcomes(r) :
        /\ changes' = [changes EXCEPT ![r.draft] = state]
  OBVIOUS
<1>c. /\ changes' \in [Drafts -> States \cup {"none"}]
      /\ changes'[r.draft] = state /\ state \in States
      /\ \A d \in Drafts : changes'[d] # "none" => Drawn(d)
      /\ \A d \in Drafts : changes[d] \in {"APPLIED", "CANCELLED"} => changes'[d] = changes[d]
      /\ ToldTruth'
  BY <1>r, <1>s, ChangesKept
<1>1. TypeOK'
  BY <1>r, <1>s, <1>c DEF TypeOK, Places, Request, Drafts, Keys, States
<1>2. OneKey'
  BY <1>r, <1>s, <1>c DEF TypeOK, OneKey, Asking, Drawn, Request, Drafts
<1>3. Asking'
  BY DEF TypeOK, Asking
<1>4. AnswersHold'
  BY <1>r, <1>s, <1>c DEF TypeOK, AnswersHold, Asking, Request, States
<1>5. Attached'
  BY DEF TypeOK, Attached, OneKey
<1>6. RefusalsConfirmed'
  BY DEF TypeOK, RefusalsConfirmed
<1>7. ToldDecisions'
  BY DEF TypeOK, ToldDecisions
<1>8. ToldTruth'
  BY <1>r, <1>s, <1>c DEF TypeOK, ToldTruth, ToldDecisions
<1> QED BY <1>1, <1>2, <1>3, <1>4, <1>5, <1>6, <1>7, <1>8 DEF IInv

LEMMA LateDroppedInv ==
  ASSUME IInv, NEW r \in late, LateDropped(r)
  PROVE  IInv'
<1> USE DraftsAssumption, NoRequestAssumption
       DEF IInv, LateDropped, rowVars, walkVars, callVars, javaVars
<1>1. TypeOK'
  BY DEF TypeOK, Places, Request, Drafts, Keys, States
<1>2. OneKey'
  BY DEF TypeOK, OneKey, Asking, Drawn, Request, Drafts
<1>3. Asking'
  BY DEF TypeOK, Asking
<1>4. AnswersHold'
  BY DEF TypeOK, AnswersHold, Asking
<1>5. Attached'
  BY DEF TypeOK, Attached, OneKey
<1>6. RefusalsConfirmed'
  BY DEF TypeOK, RefusalsConfirmed
<1>7. ToldDecisions'
  BY DEF TypeOK, ToldDecisions
<1>8. ToldTruth'
  BY DEF TypeOK, ToldTruth, ToldDecisions
<1> QED BY <1>1, <1>2, <1>3, <1>4, <1>5, <1>6, <1>7, <1>8 DEF IInv

LEMMA GiveUpInv ==
  ASSUME IInv, NEW h \in Handlers, GiveUp(h)
  PROVE  IInv'
<1> USE DraftsAssumption, NoRequestAssumption
       DEF IInv, GiveUp, End, rowVars, walkVars, callVars, javaVars
<1>a. late' \subseteq Request
  BY DEF TypeOK, Asking
<1>1. TypeOK'
  BY <1>a, EndTyped DEF TypeOK
<1>2. OneKey'
  BY DEF TypeOK, OneKey, Asking, Drawn, Request, Drafts
<1>3. Asking'
  BY DEF TypeOK, Asking
<1>4. AnswersHold'
  BY DEF TypeOK, AnswersHold, Asking
<1>5. Attached'
  BY DEF TypeOK, Attached, OneKey
<1>6. RefusalsConfirmed'
  BY DEF TypeOK, RefusalsConfirmed
<1>7. ToldDecisions'
  BY DEF TypeOK, ToldDecisions
<1>8. ToldTruth'
  BY DEF TypeOK, ToldTruth, ToldDecisions
<1> QED BY <1>1, <1>2, <1>3, <1>4, <1>5, <1>6, <1>7, <1>8 DEF IInv

LEMMA RestartInv ==
  ASSUME IInv, Restart
  PROVE  IInv'
<1> USE DraftsAssumption, NoRequestAssumption
       DEF IInv, Restart, rowVars, walkVars, callVars, javaVars
<1>a. late' \subseteq Request /\ 0 \in 0 .. LastBinding
  BY DEF TypeOK, Asking
<1>1. TypeOK'
  BY <1>a DEF TypeOK, Places
<1>2. OneKey'
  BY DEF TypeOK, OneKey, Asking, Drawn, Request, Drafts
<1>3. Asking'
  BY DEF TypeOK, Asking
<1>4. AnswersHold'
  BY DEF TypeOK, AnswersHold, Asking
<1>5. Attached'
  BY DEF TypeOK, Attached, OneKey
<1>6. RefusalsConfirmed'
  BY DEF TypeOK, RefusalsConfirmed
<1>7. ToldDecisions'
  BY DEF TypeOK, ToldDecisions
<1>8. ToldTruth'
  BY DEF TypeOK, ToldTruth, ToldDecisions
<1> QED BY <1>1, <1>2, <1>3, <1>4, <1>5, <1>6, <1>7, <1>8 DEF IInv

-----------------------------------------------------------------------------
(* The theorems. *)

LEMMA NextInv == IInv /\ [Next]_vars => IInv'
<1> SUFFICES ASSUME IInv, [Next]_vars PROVE IInv'
  OBVIOUS
<1>1. ASSUME NEW h \in Handlers, Handle(h) PROVE IInv'
  BY <1>1, StageInv, OpenPageInv, RecoverBindingInv, RecoverNextInv, RecoveredInv, AttachInv,
     RefuseInv, ListInv, DecideInv, AnsweredInv, JavaAnswersInv, JavaRefusesInv, GiveUpInv
     DEF Handle
<1>2. ASSUME UNCHANGED vars PROVE IInv'
  BY <1>2 DEF vars, rowVars, walkVars, callVars, javaVars, IInv, TypeOK, OneKey, Drawn, Asking,
              AnswersHold, Attached, RefusalsConfirmed, ToldDecisions, ToldTruth
<1> QED
  BY <1>1, <1>2, OpenDraftInv, LateCarriedOutInv, LateDroppedInv, RestartInv DEF Next

LEMMA Invariance == Spec => []IInv
BY InitInv, NextInv, PTL DEF Spec

\* Rows, calls and the state of Java are always well formed.
THEOREM TypeCorrect == Spec => []TypeOK
BY Invariance, PTL DEF IInv

\* Java never holds two changes for one intent of the operator, and the row
\* names no other, because prepare_intent keeps the first request key.
THEOREM OneDraftPerIntent == Spec => []OneDraft
<1>1. IInv => OneDraft
  <2> SUFFICES ASSUME IInv, NEW d \in Drafts, changes[d] # "none"
               PROVE  /\ \A e \in Drafts : (e[1] = d[1] /\ changes[e] # "none") => e = d
                      /\ draft_id[d[1]] \in {0, d[2]}
    BY DEF OneDraft
  <2>1. Drawn(d) /\ d[1] \in Intents
    BY DEF IInv, OneKey, Drafts
  <2>2. ASSUME NEW e \in Drafts, e[1] = d[1], changes[e] # "none" PROVE e = d
    BY <2>1, <2>2 DEF IInv, OneKey, Drawn, Drafts
  <2> QED BY <2>1, <2>2 DEF IInv, OneKey, Drawn
<1> QED BY <1>1, Invariance, PTL

\* A stored rejection is an answer of Java: errors and lost replies never
\* become one.
THEOREM RefusalsAreConfirmed == Spec => []RefusalsConfirmed
BY Invariance, PTL DEF IInv

\* A decision reported as carried out stands, whatever requests follow.
THEOREM ToldIsTrue == Spec => []ToldTruth
BY Invariance, PTL DEF IInv

\* A row that names its draft keeps it, unrejected and known to the operator.
THEOREM DraftsAreKept == Spec => DraftKept
<1> DEFINE Kept ==
      \A i \in Intents : draft_id[i] # 0 =>
        draft_id'[i] = draft_id[i] /\ i \notin rejection' /\ <<i, draft_id[i]>> \in refs'
<1>1. ASSUME IInv, IInv', [Next]_vars PROVE [Kept]_vars
  <2>1. \A i \in Intents : draft_id[i] # 0 => draft_id'[i] = draft_id[i]
    <3>1. ASSUME NEW h \in Handlers, Attach(h)
          PROVE  \A i \in Intents : draft_id[i] # 0 => draft_id'[i] = draft_id[i]
      BY <1>1, <3>1 DEF Attach, attach_draft, IInv, TypeOK, OneKey
    <3>2. ASSUME NEW h \in Handlers, Handle(h), ~Attach(h) PROVE UNCHANGED draft_id
      BY <3>2 DEF Handle, Stage, OpenPage, RecoverBinding, RecoverNext, Recovered, Refuse, List,
                  Decide, Answered, JavaAnswers, JavaRefuses, GiveUp, reject_intent, rowVars
    <3>3. ASSUME ~(\E h \in Handlers : Handle(h)) PROVE UNCHANGED draft_id
      BY <1>1, <3>3 DEF Next, OpenDraft, LateCarriedOut, LateDropped, Restart, rowVars, vars
    <3> QED BY <3>1, <3>2, <3>3
  <2> QED BY <1>1, <2>1 DEF IInv, Attached, TypeOK
<1> QED BY <1>1, Invariance, PTL DEF Spec, DraftKept

-----------------------------------------------------------------------------
(* MerchantDrafts implements ChangeRegister. *)

\* A decision is asked for a change that exists, an answer that is no refusal comes
\* from one, and so does the draft of a row; only a recorded intent is rejected.
Existing ==
  /\ \A h \in Handlers : at[h] # NoRequest /\ at[h].verb # "prepare" =>
       changes[at[h].draft] # "none"
  /\ \A r \in late : r.verb # "prepare" => changes[r.draft] # "none"
  /\ \A h \in Handlers : pc[h] = "answered" /\ answer[h] # "REFUSED" =>
       changes[at[h].draft] # "none"
  /\ \A i \in Intents : draft_id[i] # 0 => changes[<<i, draft_id[i]>>] # "none"
  /\ \A i \in rejection : key[i] # 0

\* A request is carried out to a state that its change may take.
LEMMA OutcomesAllowed ==
  ASSUME TypeOK, NEW r \in Request, NEW state \in Outcomes(r),
         r.verb # "prepare" => changes[r.draft] # "none"
  PROVE  \/ state = changes[r.draft]
         \/ changes[r.draft] = "none" /\ state = "PREPARED"
         \/ changes[r.draft] = "PREPARED" /\ state \in Register!Decided
<1>1. r.draft \in Drafts /\ r.verb \in {"prepare", "apply", "cancel"}
  BY DEF Request
<1>2. changes[r.draft] \in States \cup {"none"}
  BY <1>1 DEF TypeOK
<1>3. CASE changes[r.draft] \in States \ {"PREPARED"}
  BY <1>3 DEF Outcomes
<1>4. CASE changes[r.draft] \in {"PREPARED", "none"} /\ r.verb = "prepare"
  BY <1>4 DEF Outcomes, States
<1>5. CASE changes[r.draft] \in {"PREPARED", "none"} /\ r.verb = "apply"
  BY <1>5 DEF Outcomes, States, Register!Decided
<1>6. CASE changes[r.draft] \in {"PREPARED", "none"} /\ r.verb = "cancel"
  BY <1>6 DEF Outcomes, States, Register!Decided
<1> QED BY <1>1, <1>2, <1>3, <1>4, <1>5, <1>6 DEF States

\* A change that exists goes on existing.
LEMMA ChangesStay ==
  ASSUME IInv, [Next]_vars
  PROVE  \A d \in Drafts : changes[d] # "none" => changes'[d] # "none"
<1>1. ASSUME NEW r \in Request, NEW state \in Outcomes(r),
             changes' = [changes EXCEPT ![r.draft] = state]
      PROVE  \A d \in Drafts : changes[d] # "none" => changes'[d] # "none"
  <2>1. state # "none"
    BY OutcomesAreFinal DEF IInv, States
  <2> QED BY <1>1, <2>1 DEF IInv, TypeOK
<1>2. ASSUME NEW h \in Handlers, JavaAnswers(h)
      PROVE  \A d \in Drafts : changes[d] # "none" => changes'[d] # "none"
  <2>1. at[h] \in Request
    BY <1>2 DEF JavaAnswers, IInv, TypeOK, Asking
  <2> QED BY <1>1, <1>2, <2>1 DEF JavaAnswers
<1>3. ASSUME NEW r \in late, LateCarriedOut(r)
      PROVE  \A d \in Drafts : changes[d] # "none" => changes'[d] # "none"
  BY <1>1, <1>3 DEF LateCarriedOut, IInv, TypeOK
<1>4. ASSUME NEW h \in Handlers, Handle(h), ~JavaAnswers(h)
      PROVE  UNCHANGED changes
  BY <1>4 DEF Handle, Stage, OpenPage, RecoverBinding, RecoverNext, Recovered, Attach, Refuse,
              List, Decide, Answered, JavaRefuses, GiveUp, javaVars
<1>5. ASSUME NEW d \in Drafts, OpenDraft(d)
      PROVE  UNCHANGED changes
  BY <1>5 DEF OpenDraft, javaVars
<1>6. ASSUME NEW r \in late, LateDropped(r)
      PROVE  UNCHANGED changes
  BY <1>6 DEF LateDropped
<1>7. Restart \/ UNCHANGED vars => UNCHANGED changes
  BY DEF Restart, vars, javaVars
<1> QED BY <1>2, <1>3, <1>4, <1>5, <1>6, <1>7 DEF Next

LEMMA ExistingInit == Init => Existing
BY NoRequestAssumption DEF Init, Existing

LEMMA ExistingStep ==
  ASSUME IInv, Existing, [Next]_vars
  PROVE  Existing'
<1>1. /\ \A d \in Drafts : changes[d] # "none" => changes'[d] # "none"
      /\ \A r \in Request : r.draft \in Drafts
      /\ \A i \in Intents : draft_id[i] # 0 => <<i, draft_id[i]>> \in Drafts
  BY ChangesStay DEF IInv, TypeOK, Request, Drafts, Keys
<1>2. /\ \A h \in Handlers : at[h] # NoRequest =>
           /\ at[h] \in Request /\ Drawn(at[h].draft) /\ key[at[h].draft[1]] # 0
      /\ late \subseteq Request
  BY DEF IInv, TypeOK, OneKey, Drawn, Request, Drafts, Keys
<1> DEFINE
      Calls == \A h \in Handlers :
        /\ at[h] # NoRequest /\ at[h].verb # "prepare" => changes[at[h].draft] # "none"
        /\ pc[h] = "answered" /\ answer[h] # "REFUSED" => changes[at[h].draft] # "none"
      Lates == \A r \in late : r.verb # "prepare" => changes[r.draft] # "none"
      Rows ==
        /\ \A i \in Intents : draft_id[i] # 0 => changes[<<i, draft_id[i]>>] # "none"
        /\ \A i \in rejection : key[i] # 0
<1>3. (Existing <=> Calls /\ Lates /\ Rows) /\ (Existing' <=> Calls' /\ Lates' /\ Rows')
  BY DEF Existing
<1>4. ASSUME UNCHANGED late PROVE Lates'
  BY <1>1, <1>2, <1>3, <1>4
<1>5. ASSUME UNCHANGED rowVars PROVE Rows'
  BY <1>1, <1>3, <1>5 DEF rowVars
<1>6. ASSUME UNCHANGED callVars PROVE Calls'
  BY <1>1, <1>2, <1>3, <1>6 DEF callVars, IInv, Asking
<1>7. ASSUME NEW h \in Handlers, End(h) PROVE Calls'
  BY <1>1, <1>2, <1>3, <1>7 DEF End, IInv, TypeOK, Asking
<1>8. ASSUME NEW h \in Handlers, NEW verb, NEW d \in Drafts, Ask(h, verb, d),
             verb # "prepare" => changes[d] # "none"
      PROVE  Calls'
  BY <1>1, <1>2, <1>3, <1>8 DEF Ask, IInv, TypeOK, Asking
<1>9. ASSUME NEW h \in Handlers, Proceed(h) PROVE Calls'
  BY <1>1, <1>2, <1>3, <1>7, <1>9 DEF Proceed, IInv, TypeOK, Asking
<1>10. ASSUME NEW h \in Handlers, Handle(h) PROVE Calls' /\ Lates' /\ Rows'
  <2> USE <1>10
  <2>1. ASSUME NEW i \in Intents, Stage(h, i) PROVE Calls' /\ Lates' /\ Rows'
    <3>1. <<i, key'[i]>> \in Drafts /\ \A j \in Intents : key[j] # 0 => key'[j] # 0
      BY <2>1, DraftsAssumption DEF Stage, prepare_intent, IInv, TypeOK, OneKey, Drafts, Keys
    <3>2. Calls'
      BY <1>8, <2>1, <3>1 DEF Stage
    <3>3. Lates' /\ Rows'
      BY <1>1, <1>3, <1>4, <2>1, <3>1 DEF Stage, javaVars, IInv, TypeOK
    <3> QED BY <3>2, <3>3
  <2>2. CASE OpenPage(h) \/ RecoverBinding(h) \/ Recovered(h)
    <3>1. UNCHANGED <<rowVars, late, at, answer>>
      BY <2>2 DEF OpenPage, RecoverBinding, Recovered, javaVars, callVars
    <3>2. Calls'
      BY <1>1, <1>2, <1>3, <2>2, <3>1
      DEF OpenPage, RecoverBinding, Recovered, callVars, IInv, TypeOK, Asking
    <3> QED BY <1>4, <1>5, <3>1, <3>2
  <2>3. CASE Attach(h)
    <3>1. Calls' /\ Lates'
      BY <1>4, <1>7, <1>9, <2>3 DEF Attach, javaVars
    <3>2. changes[at[h].draft] # "none" /\ at[h].draft \in Drafts /\ UNCHANGED <<key, changes>>
      BY <1>1, <1>2, <1>3, <2>3 DEF Attach, javaVars, IInv, Asking
    <3>3. /\ rejection' \subseteq rejection
          /\ \A i \in Intents : \/ draft_id'[i] = draft_id[i]
                              \/ <<i, draft_id'[i]>> = at[h].draft
      BY <2>3, <3>2 DEF Attach, attach_draft, IInv, TypeOK, Drafts
    <3>4. Rows'
      BY <1>3, <3>2, <3>3
    <3> QED BY <3>1, <3>4
  <2>4. CASE Refuse(h)
    <3>1. Calls' /\ Lates'
      BY <1>4, <1>9, <2>4 DEF Refuse, javaVars
    <3>2. /\ UNCHANGED <<key, changes, draft_id>>
          /\ rejection' \subseteq rejection \cup {at[h].draft[1]}
          /\ key[at[h].draft[1]] # 0
      BY <1>2, <2>4 DEF Refuse, reject_intent, javaVars, IInv, Asking
    <3> QED BY <1>3, <3>1, <3>2
  <2>5. CASE Answered(h) \/ GiveUp(h)
    <3>1. Calls' /\ Rows'
      BY <1>5, <1>7, <2>5 DEF Answered, GiveUp
    <3>2. \A r \in late' : r \in late \/ (r = at[h] /\ at[h] # NoRequest)
      BY <2>5 DEF Answered, GiveUp, javaVars, IInv, Asking
    <3>3. Lates'
      BY <1>1, <1>2, <1>3, <3>2
    <3> QED BY <3>1, <3>3
  <2>6. ASSUME NEW d \in Drafts, RecoverNext(h, d) PROVE Calls' /\ Lates' /\ Rows'
    BY <1>4, <1>5, <1>8, <2>6 DEF RecoverNext, javaVars
  <2>7. ASSUME NEW rows \in SUBSET existing(binding[h]), List(h, rows)
        PROVE  Calls' /\ Lates' /\ Rows'
    <3>1. Calls' /\ Lates'
      BY <1>4, <1>6, <1>7, <2>7 DEF List, javaVars
    <3> QED BY <1>3, <2>7, <3>1 DEF List, javaVars
  <2>8. ASSUME NEW d \in Drafts, NEW verb \in Decisions, Decide(h, verb, d)
        PROVE  Calls' /\ Lates' /\ Rows'
    BY <1>3, <1>4, <1>8, <2>8 DEF Decide, javaVars
  <2>9. CASE JavaAnswers(h)
    <3>1. at[h] \in Request
      BY <1>2, <2>9 DEF JavaAnswers, IInv, Asking
    <3>2. PICK state \in Outcomes(at[h]) :
            /\ changes' = [changes EXCEPT ![at[h].draft] = state]
            /\ answer' = [answer EXCEPT ![h] = state]
      BY <2>9 DEF JavaAnswers
    <3>3. changes'[at[h].draft] # "none"
      BY <1>1, <3>1, <3>2, OutcomesAreFinal DEF IInv, TypeOK, States
    <3>4. Calls'
      BY <1>1, <1>2, <1>3, <2>9, <3>3 DEF JavaAnswers, IInv, TypeOK, Asking
    <3> QED BY <1>4, <1>5, <2>9, <3>4 DEF JavaAnswers
  <2>10. CASE JavaRefuses(h)
    <3>1. Calls'
      BY <1>1, <1>2, <1>3, <2>10 DEF JavaRefuses, IInv, TypeOK, Asking
    <3> QED BY <1>4, <1>5, <2>10, <3>1 DEF JavaRefuses
  <2> QED BY <2>1, <2>2, <2>3, <2>4, <2>5, <2>6, <2>7, <2>8, <2>9, <2>10 DEF Handle
<1>11. ASSUME NEW d \in Drafts, OpenDraft(d) PROVE Calls' /\ Lates' /\ Rows'
  BY <1>1, <1>3, <1>4, <1>6, <1>11 DEF OpenDraft, javaVars
<1>12. ASSUME NEW r \in late, LateCarriedOut(r) \/ LateDropped(r)
       PROVE  Calls' /\ Lates' /\ Rows'
  <2>1. late' \subseteq late /\ UNCHANGED <<rowVars, callVars>>
    BY <1>12 DEF LateCarriedOut, LateDropped
  <2>2. Lates'
    BY <1>1, <1>2, <1>3, <2>1
  <2> QED BY <1>5, <1>6, <2>1, <2>2
<1>13. CASE Restart
  <2>1. \A r \in late' : r \in late \/ \E h \in Handlers : r = at[h] /\ at[h] # NoRequest
    BY <1>13 DEF Restart, IInv, Asking
  <2>2. Lates'
    BY <1>1, <1>2, <1>3, <2>1
  <2>3. Calls' /\ Rows'
    BY <1>5, <1>13 DEF Restart
  <2> QED BY <1>3, <2>2, <2>3
<1>14. CASE UNCHANGED vars
  BY <1>3, <1>4, <1>5, <1>6, <1>14 DEF vars, javaVars
<1> QED BY <1>3, <1>10, <1>11, <1>12, <1>13, <1>14 DEF Next

LEMMA ExistingInvariant == Spec => []Existing
BY ExistingInit, ExistingStep, Invariance, PTL DEF Spec

\* The changes of an intent under all keys, of which there is one at most.
Under(C, i) == {<<n, C[<<i, n>>]>> : n \in {m \in Keys : C[<<i, m>>] # "none"}}

LEMMA OneOfIntent ==
  ASSUME NEW C, NEW i, NEW k \in Keys, \A n \in Keys : C[<<i, n>>] # "none" => n = k
  PROVE  Under(C, i) = IF C[<<i, k>>] = "none" THEN {} ELSE {<<k, C[<<i, k>>]>>}
<1>1. {m \in Keys : C[<<i, m>>] # "none"} = IF C[<<i, k>>] = "none" THEN {} ELSE {k}
  OBVIOUS
<1>2. CASE C[<<i, k>>] = "none"
  BY <1>1, <1>2 DEF Under
<1>3. CASE C[<<i, k>>] # "none"
  <2>1. {<<n, C[<<i, n>>]>> : n \in {k}} = {<<k, C[<<i, k>>]>>}
    OBVIOUS
  <2> QED BY <1>1, <1>3, <2>1 DEF Under
<1> QED BY <1>2, <1>3

LEMMA InitRegister == Init => Register!Init
<1> SUFFICES ASSUME Init PROVE Register!Init
  OBVIOUS
<1>1. \A i \in Intents : \A n \in Keys : changes[<<i, n>>] = "none"
  BY DEF Init, Drafts
<1>2. \A i \in Intents : {n \in Keys : changes[<<i, n>>] # "none"} = {}
  BY <1>1
<1>3. changeOf = [i \in Intents |-> {}]
  BY <1>2 DEF changeOf
<1>4. recordOf = [i \in Intents |-> "none"] /\ told = {}
  BY DEF Init, recordOf
<1> QED BY <1>3, <1>4 DEF Register!Init

\* A step that writes no row and no change, and reports nothing.
LEMMA NoRegister ==
  ASSUME UNCHANGED <<key, draft_id, rejection, changes, told>>
  PROVE  UNCHANGED Register!vars
BY DEF Register!vars, recordOf, changeOf

\* A change is what its intent became, under the key of the row.
LEMMA ChangeOfIntent ==
  ASSUME IInv, NEW i \in Intents, NEW k \in Keys, k = key[i]
  PROVE  changeOf[i] = IF changes[<<i, k>>] = "none" THEN {} ELSE {<<k, changes[<<i, k>>]>>}
<1>1. \A n \in Keys : <<i, n>> \in Drafts /\ (Drawn(<<i, n>>) <=> n = key[i])
  BY DEF Drafts, Drawn
<1>2. \A n \in Keys : changes[<<i, n>>] # "none" => n = k
  BY <1>1 DEF IInv, OneKey
<1>3. changeOf[i] = Under(changes, i)
  BY DEF changeOf, Under
<1> QED BY <1>2, <1>3, OneOfIntent

\* A request that Java carries out makes its intent one change, or decides it, or
\* finds what was done before.
LEMMA CarriedOutRegister ==
  ASSUME IInv, IInv', Existing, NEW r \in Request, Drawn(r.draft),
         NEW state \in Outcomes(r), changes' = [changes EXCEPT ![r.draft] = state],
         r.verb # "prepare" => changes[r.draft] # "none",
         UNCHANGED <<key, draft_id, rejection, told>>
  PROVE  [Register!Next]_(Register!vars)
<1> DEFINE d == r.draft
           i == d[1]
           k == d[2]
<1>1. /\ d \in Drafts /\ d = <<i, k>> /\ i \in Intents /\ k \in Keys
      /\ key[i] = k /\ k # 0 /\ recordOf' = recordOf
  BY DEF Request, Drafts, Keys, Drawn, recordOf
<1>2. \/ state = changes[d]
      \/ changes[d] = "none" /\ state = "PREPARED"
      \/ changes[d] = "PREPARED" /\ state \in Register!Decided
  BY OutcomesAllowed DEF IInv
<1>3. changes'[d] = state /\ \A e \in Drafts : e # d => changes'[e] = changes[e]
  BY <1>1 DEF IInv, TypeOK
<1> HIDE DEF d, i, k
<1>4. CASE state = changes[d]
  <2>1. changes' = changes
    BY <1>4 DEF IInv, TypeOK, d
  <2> QED BY <2>1, NoRegister
<1>5. ASSUME state # changes[d]
      PROVE  /\ changeOf' = [changeOf EXCEPT ![i] = {<<k, state>>}]
             /\ changes[d] = "none" => changeOf[i] = {} /\ recordOf[i] \in {"recorded", "rejected"}
             /\ changes[d] = "PREPARED" => changeOf[i] = {<<k, "PREPARED">>}
  <2>1. state # "none"
    BY OutcomesAreFinal DEF IInv, States
  <2>2. changeOf'[i] = {<<k, state>>}
    <3>1. \A n \in Keys : <<i, n>> \in Drafts /\ (Drawn(<<i, n>>)' <=> n = key'[i])
      BY <1>1 DEF Drafts, Drawn
    <3>2. \A n \in Keys : changes'[<<i, n>>] # "none" => n = k
      BY <1>1, <3>1 DEF IInv, OneKey
    <3>3. changes'[<<i, k>>] = state
      BY <1>1, <1>3
    <3>4. PICK after : after = changes'
      OBVIOUS
    <3>5. \A n \in Keys : after[<<i, n>>] # "none" => n = k
      BY <3>2, <3>4
    <3>6. Under(after, i) = IF after[<<i, k>>] = "none" THEN {} ELSE {<<k, after[<<i, k>>]>>}
      BY <1>1, <3>5, OneOfIntent
    <3>7. changeOf'[i] = Under(after, i)
      BY <1>1, <3>4 DEF changeOf, Under
    <3> QED BY <2>1, <3>3, <3>4, <3>6, <3>7
  <2>3. ASSUME NEW j \in Intents, j # i
        PROVE  changeOf'[j] = changeOf[j]
    <3>1. \A n \in Keys : <<j, n>> \in Drafts /\ <<j, n>> # d
      BY <1>1, <2>3 DEF Drafts
    <3>2. \A n \in Keys : changes'[<<j, n>>] = changes[<<j, n>>]
      BY <1>3, <3>1
    <3> QED BY <3>2 DEF changeOf
  <2>4. changeOf' = [changeOf EXCEPT ![i] = {<<k, state>>}]
    BY <1>1, <2>2, <2>3 DEF changeOf
  <2>5. CASE changes[d] = "none"
    <3>1. changeOf[i] = {}
      BY <1>1, <2>5, ChangeOfIntent
    <3>2. draft_id[i] = 0
      BY <1>1, <2>5 DEF IInv, OneKey, Existing
    <3> QED BY <1>1, <2>4, <2>5, <3>1, <3>2 DEF recordOf
  <2>6. CASE changes[d] = "PREPARED"
    BY <1>1, <2>4, <2>6, ChangeOfIntent
  <2> QED BY <2>4, <2>5, <2>6
<1>6. CASE changes[d] = "none" /\ state = "PREPARED"
  BY <1>1, <1>5, <1>6 DEF Register!Next, Register!Commit
<1>7. CASE changes[d] = "PREPARED" /\ state \in Register!Decided
  BY <1>1, <1>5, <1>7 DEF Register!Next, Register!Decide, Register!Decided
<1> QED BY <1>2, <1>4, <1>6, <1>7

\* Steps that touch a row, or report a decision.
LEMMA HandleRegister ==
  ASSUME IInv, IInv', Existing, NEW h \in Handlers, Handle(h)
  PROVE  [Register!Next]_(Register!vars)
<1>1. ASSUME NEW i \in Intents, Stage(h, i)
      PROVE  [Register!Next]_(Register!vars)
  <2>1. /\ UNCHANGED <<draft_id, rejection, changes, told>>
        /\ key' = IF key[i] = 0 THEN [key EXCEPT ![i] = 1] ELSE key
        /\ draft_id[i] = 0 /\ i \notin rejection
    BY <1>1 DEF Stage, prepare_intent, javaVars
  <2>2. CASE key[i] # 0
    BY <2>1, <2>2, NoRegister
  <2>3. CASE key[i] = 0
    <3>1. recordOf[i] = "none"
      BY <2>3 DEF recordOf
    <3>2. \A j \in Intents : recordOf'[j] = IF j = i THEN "recorded" ELSE recordOf[j]
      BY <2>1, <2>3 DEF recordOf, IInv, TypeOK
    <3>3. recordOf' = [recordOf EXCEPT ![i] = "recorded"]
      BY <3>2 DEF recordOf
    <3>4. UNCHANGED <<changeOf, told>>
      BY <2>1 DEF changeOf
    <3> QED BY <3>1, <3>3, <3>4 DEF Register!Next, Register!Register, Register!Moves
  <2> QED BY <2>2, <2>3
<1>2. CASE Attach(h)
  <2> DEFINE d == at[h].draft
             i == d[1]
  <2>1. /\ UNCHANGED <<key, changes, told>> /\ changes[d] # "none" /\ d \in Drafts
        /\ attach_draft(d) /\ Drawn(d)
    BY <1>2 DEF Attach, javaVars, IInv, TypeOK, Asking, OneKey, Existing, Request
  <2>2. /\ i \in Intents /\ d[2] \in Keys /\ d = <<i, d[2]>> /\ key[i] = d[2] /\ d[2] # 0
    BY <2>1 DEF Drafts, Keys, Drawn
  <2> HIDE DEF d, i
  <2>3. CASE draft_id[i] # 0
    <3>1. draft_id[i] = d[2] /\ i \notin rejection
      BY <2>2, <2>3 DEF IInv, OneKey, Attached
    <3>2. draft_id' = [draft_id EXCEPT ![i] = draft_id[i]] /\ rejection' = rejection \ {i}
      BY <2>1, <3>1 DEF attach_draft, i
    <3>3. draft_id' = draft_id /\ rejection' = rejection
      BY <3>1, <3>2 DEF IInv, TypeOK
    <3> QED BY <2>1, <3>3, NoRegister
  <2>4. CASE draft_id[i] = 0
    <3>1. draft_id' = [draft_id EXCEPT ![i] = d[2]] /\ rejection' = rejection \ {i}
      BY <2>1, <2>4 DEF attach_draft, i
    <3>2. recordOf[i] \in {"recorded", "rejected"}
      BY <2>2, <2>4 DEF recordOf
    <3>3. \A j \in Intents : recordOf'[j] = IF j = i THEN "drafted" ELSE recordOf[j]
      BY <2>1, <2>2, <3>1 DEF recordOf, IInv, TypeOK
    <3>4. recordOf' = [recordOf EXCEPT ![i] = "drafted"]
      BY <3>3 DEF recordOf
    <3>5. UNCHANGED <<changeOf, told>>
      BY <2>1 DEF changeOf
    <3>6. changeOf[i] # {}
      BY <2>1, <2>2, ChangeOfIntent
    <3> QED BY <2>2, <3>2, <3>4, <3>5, <3>6
        DEF Register!Next, Register!Draft, Register!Moves
  <2> QED BY <2>3, <2>4
<1>3. CASE Refuse(h)
  <2> DEFINE i == at[h].draft[1]
  <2>1. /\ UNCHANGED <<key, changes, draft_id, told>> /\ i \in Intents /\ key[i] # 0
        /\ rejection' = IF draft_id[i] = 0 THEN rejection \cup {i} ELSE rejection
    BY <1>3
    DEF Refuse, reject_intent, javaVars, IInv, TypeOK, Asking, OneKey, Drawn, Request, Drafts,
        Keys
  <2> HIDE DEF i
  <2>2. CASE rejection' = rejection
    BY <2>1, <2>2, NoRegister
  <2>3. CASE draft_id[i] = 0 /\ i \notin rejection
    <3>1. recordOf[i] = "recorded"
      BY <2>1, <2>3 DEF recordOf
    <3>2. \A j \in Intents : recordOf'[j] = IF j = i THEN "rejected" ELSE recordOf[j]
      BY <2>1, <2>3 DEF recordOf
    <3>3. recordOf' = [recordOf EXCEPT ![i] = "rejected"]
      BY <3>2 DEF recordOf
    <3>4. UNCHANGED <<changeOf, told>>
      BY <2>1 DEF changeOf
    <3> QED BY <2>1, <3>1, <3>3, <3>4 DEF Register!Next, Register!Reject, Register!Moves
  <2> QED BY <2>1, <2>2, <2>3
<1>4. CASE Answered(h)
  <2> DEFINE d == at[h].draft
             state == answer[h]
  <2>1. /\ UNCHANGED <<rowVars, changes>> /\ d \in Drafts /\ Drawn(d)
        /\ told' = IF state = wanted[at[h].verb] THEN told \cup {<<d, state>>} ELSE told
        /\ at[h].verb \in {"apply", "cancel"} /\ pc[h] = "answered"
    BY <1>4 DEF Answered, javaVars, IInv, TypeOK, Asking, OneKey, Request
  <2>2. CASE told' = told
    BY <2>1, <2>2, NoRegister DEF rowVars
  <2>3. CASE state = wanted[at[h].verb]
    <3>1. state \in {"APPLIED", "CANCELLED"}
      BY <2>1, <2>3 DEF wanted
    <3>2. changes[d] = state
      BY <2>1, <3>1 DEF IInv, AnswersHold
    <3> HIDE DEF d, state
    <3>3. PICK i \in Intents, k \in Keys : d = <<i, k>> /\ key[i] = k
      BY <2>1 DEF Drafts, Drawn
    <3>4. changeOf[i] = {<<k, state>>}
      BY <3>1, <3>2, <3>3, ChangeOfIntent
    <3>5. UNCHANGED <<recordOf, changeOf>>
      BY <2>1 DEF recordOf, changeOf, rowVars
    <3>6. told' = told \cup {<<<<i, k>>, state>>}
      BY <2>1, <2>3, <3>3
    <3> QED BY <3>1, <3>4, <3>5, <3>6 DEF Register!Next, Register!Report, Register!Decided
  <2> QED BY <2>1, <2>2, <2>3
<1>5. CASE JavaAnswers(h)
  <2>1. at[h] \in Request /\ Drawn(at[h].draft)
        /\ (at[h].verb # "prepare" => changes[at[h].draft] # "none")
    BY <1>5 DEF JavaAnswers, IInv, TypeOK, Asking, OneKey, Existing
  <2>2. PICK state \in Outcomes(at[h]) : changes' = [changes EXCEPT ![at[h].draft] = state]
    BY <1>5 DEF JavaAnswers
  <2> QED BY <1>5, <2>1, <2>2, CarriedOutRegister DEF JavaAnswers, rowVars
<1>6. CASE \/ OpenPage(h) \/ RecoverBinding(h) \/ Recovered(h) \/ JavaRefuses(h) \/ GiveUp(h)
           \/ \E d \in Drafts : RecoverNext(h, d)
           \/ \E rows \in SUBSET existing(binding[h]) : List(h, rows)
           \/ \E d \in Drafts, verb \in Decisions : Decide(h, verb, d)
  <2>1. UNCHANGED <<key, draft_id, rejection, changes, told>>
    BY <1>6 DEF OpenPage, RecoverBinding, Recovered, JavaRefuses, GiveUp, RecoverNext, List,
                Decide, rowVars, javaVars
  <2> QED BY <2>1, NoRegister
<1> QED BY <1>1, <1>2, <1>3, <1>4, <1>5, <1>6 DEF Handle

\* However calls repeat, overtake each other or are lost, the intents of the operator
\* are kept as ChangeRegister promises.
THEOREM ImplementsRegister == Spec => KeepsRegister
<1>1. ASSUME IInv, IInv', Existing, [Next]_vars
      PROVE  [Register!Next]_(Register!vars)
  <2>1. ASSUME NEW r \in late, LateCarriedOut(r)
        PROVE  [Register!Next]_(Register!vars)
    <3>1. r \in Request /\ Drawn(r.draft) /\ (r.verb # "prepare" => changes[r.draft] # "none")
      BY <1>1 DEF IInv, TypeOK, OneKey, Existing
    <3>2. PICK state \in Outcomes(r) : changes' = [changes EXCEPT ![r.draft] = state]
      BY <2>1 DEF LateCarriedOut
    <3> QED BY <1>1, <2>1, <3>1, <3>2, CarriedOutRegister DEF LateCarriedOut, rowVars
  <2>2. CASE \/ \E d \in Drafts : OpenDraft(d)
             \/ \E r \in late : LateDropped(r)
             \/ Restart \/ UNCHANGED vars
    <3>1. UNCHANGED <<key, draft_id, rejection, changes, told>>
      BY <2>2 DEF OpenDraft, LateDropped, Restart, vars, rowVars, javaVars
    <3> QED BY <3>1, NoRegister
  <2> QED BY <1>1, <2>1, <2>2, HandleRegister DEF Next
<1> QED BY <1>1, InitRegister, Invariance, ExistingInvariant, PTL
    DEF Spec, KeepsRegister, Register!Spec
=============================================================================
