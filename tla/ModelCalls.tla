----------------------------- MODULE ModelCalls -----------------------------
(***************************************************************************)
(* The model calls of one user turn: the budget they share (provider.py),  *)
(* the adapter that turns a Chat Completions stream into Messages events   *)
(* (providers/chat_to_messages.py), and the calls beside the main stream:  *)
(* extraction and delegated analysis (whole answers) and web search        *)
(* (web_search.py).  The agent runtime starts a tool as soon as its block  *)
(* is closed, so nothing may be closed before everything is known to be    *)
(* whole.  Text, names and arguments are reduced to what the checks tell   *)
(* apart; a call is abandoned when its turn is cancelled.  The names of    *)
(* the specification have a prefix, because its theorems stand beside      *)
(* those of MemoryRevisions.                                               *)
(***************************************************************************)
EXTENDS Integers, SequencesExt

CONSTANTS
  Others,       \* calls that may run beside the main stream
  ToolKeys,     \* positions of tool calls in the stream
  Ids, Names,   \* identities and names of tool calls
  None,         \* an absent id, name, argument piece, finish reason or usage
  MaxCalls,     \* settings.max_model_calls
  MaxSearches,  \* web searches per turn
  Bodies        \* messages of a request: their role and kinds of blocks

ASSUME BudgetAssumption == MaxCalls \in Nat /\ MaxSearches \in Nat

\* The kinds of blocks that occur, "image" for those no request may have.
Kinds == {"text", "tool_result", "tool_use", "thinking", "image"}

ASSUME BodiesAssumption == Bodies \subseteq [role : {"user", "assistant"}, kinds : Seq(Kinds)]

VARIABLES
  calls, known, searches, expired, stop_reason,  \* TaskBudget
  main, body, request,                             \* the main call
  blocks, tools, finish, usage, closed,          \* _MessagesStream._events
  other,                                         \* state of the other calls
  sent, reported       \* history: requests sent, answers that carried usage

budgetVars == <<calls, known, searches, expired, stop_reason>>
callVars == <<main, body, request>>
streamVars == <<blocks, tools, finish, usage, closed>>
modelVars == <<budgetVars, callVars, streamVars, other, sent, reported>>

\* Pieces of tool arguments: "{" and "}", a whole list, and one that continues
\* no JSON text.
Pieces == {"open", "close", "list", "bad"}

\* Values of upstream usage: counts, or counts that cannot be.
Usages == {"counts", "invalid"}

Reasons == {"tool_calls", "stop", "length", "content_filter"}

NoStream ==
  /\ blocks' = <<>>
  /\ tools' = <<>>
  /\ finish' = None
  /\ usage' = None
  /\ closed' = 0

CallsInit ==
  /\ calls = 0 /\ known = 0 /\ searches = 0
  /\ expired = FALSE
  /\ stop_reason = "none"
  /\ main = "idle"
  /\ body = None /\ request = None
  /\ blocks = <<>> /\ tools = <<>> /\ finish = None /\ usage = None
  /\ closed = 0
  /\ other = [c \in Others |-> "idle"]
  /\ sent = 0 /\ reported = 0

-----------------------------------------------------------------------------
(* Translation of a message.  A block is its kind and its place in content. *)

Content(b) == [i \in DOMAIN b.kinds |-> [kind |-> b.kinds[i], place |-> i]]

Supported(b) ==
  Range(b.kinds) \subseteq
    IF b.role = "user" THEN {"text", "tool_result"}
    ELSE {"text", "tool_use", "thinking"}

\* The texts of a user message collected so far become a message of their own.
Flushed(acc) ==
  IF acc.pending = <<>> THEN acc.out
  ELSE Append(acc.out, [role |-> "user", blocks |-> acc.pending])

\* Fault: texts wait until all tool results are written.
UserBlockLate(acc, block) ==
  IF block.kind = "text" THEN [acc EXCEPT !.pending = Append(@, block)]
  ELSE [acc EXCEPT !.out = Append(@, [role |-> "tool", blocks |-> <<block>>])]

UserBlock(acc, block) ==
  IF block.kind = "text" THEN [acc EXCEPT !.pending = Append(@, block)]
  ELSE [out |-> Append(Flushed(acc), [role |-> "tool", blocks |-> <<block>>]),
        pending |-> <<>>]

AssistantBlock(acc, block) ==
  [texts |-> IF block.kind = "text" THEN Append(acc.texts, block) ELSE acc.texts,
   calls |-> IF block.kind = "tool_use" THEN Append(acc.calls, block) ELSE acc.calls]

\* Thinking is dropped; the calls of an assistant follow its joined text.
translate_request(b) ==
  IF b.role = "user"
  THEN Flushed(FoldLeft(UserBlock, [out |-> <<>>, pending |-> <<>>], Content(b)))
  ELSE LET acc == FoldLeft(AssistantBlock, [texts |-> <<>>, calls |-> <<>>], Content(b))
       IN << [role |-> "assistant", blocks |-> acc.texts \o acc.calls] >>

-----------------------------------------------------------------------------
(* The budget.  Checks and counts are one operation of the event loop.      *)

consume ==
  /\ ~expired /\ calls < MaxCalls
  /\ calls' = calls + 1
  /\ UNCHANGED stop_reason

Refused ==
  /\ expired \/ calls >= MaxCalls
  /\ stop_reason' = IF expired THEN "task_deadline" ELSE "model_call_limit"
  /\ UNCHANGED calls

\* The deadline of the turn passes.
Deadline ==
  /\ ~expired
  /\ expired' = TRUE
  /\ stop_reason' = "task_deadline"
  /\ UNCHANGED <<calls, known, searches, callVars, streamVars, other, sent, reported>>

-----------------------------------------------------------------------------
(* The main call. *)

Translate ==
  /\ main = "idle"
  /\ body' \in Bodies
  /\ Supported(body')
  /\ request' = translate_request(body')
  /\ main' = "translated"
  /\ UNCHANGED <<budgetVars, streamVars, other, sent, reported>>

Leave(place) ==
  /\ main' = place
  /\ body' = None /\ request' = None

SendMain ==
  /\ main = "translated"
  /\ consume
  /\ Leave("sent")
  /\ sent' = sent + 1
  /\ UNCHANGED <<known, searches, expired, streamVars, other, reported>>

RefuseMain ==
  /\ main = "translated"
  /\ Refused
  /\ Leave("idle")
  /\ UNCHANGED <<known, searches, expired, streamVars, other, sent, reported>>

Headers ==
  /\ main = "sent"
  /\ main' = "streaming"
  /\ UNCHANGED <<budgetVars, body, request, streamVars, other, sent, reported>>

\* Another status, a transport or protocol error, or the caller is cancelled.
Fail ==
  /\ main \in {"sent", "streaming", "closing"}
  /\ main' = "idle"
  /\ NoStream
  /\ UNCHANGED <<budgetVars, body, request, other, sent, reported>>

\* A delta of text; the first opens the block.
TextDelta ==
  /\ main = "streaming"
  /\ blocks' = IF "text" \in Range(blocks) THEN blocks ELSE Append(blocks, "text")
  /\ UNCHANGED <<budgetVars, callVars, tools, finish, usage, closed, other, sent, reported>>

\* from_json in partial mode: what can still become JSON text.
Parses(buffer) ==
  buffer \in {<<>>, <<"open">>, <<"open", "close">>, <<"list">>}

\* An empty buffer stands for the empty object.
IsObject(buffer) == buffer \in {<<>>, <<"open", "close">>}

Tool(key) ==
  IF key \in DOMAIN tools THEN tools[key]
  ELSE [id |-> None, name |-> None, pieces |-> <<>>, buffer |-> <<>>,
        delivered |-> <<>>, index |-> 0]

Agrees(old, new) == None \in {old, new} \/ old = new

Latest(old, new) == IF new = None THEN old ELSE new

\* The block opens once id and name are known.
Opened(tool) ==
  IF tool.index = 0 /\ None \notin {tool.id, tool.name}
  THEN [tool EXCEPT !.index = Len(blocks) + 1]
  ELSE tool

\* Fault: delivered pieces are not cleared.
DeliveredAgain(tool) ==
  IF tool.index = 0 THEN tool ELSE [tool EXCEPT !.delivered = @ \o tool.pieces]

\* The pieces collected so far are yielded, once the block is open.
Delivered(tool) ==
  IF tool.index = 0 THEN tool
  ELSE [tool EXCEPT !.delivered = @ \o tool.pieces, !.pieces = <<>>]

Received(tool, id, name, piece) ==
  LET arrived == IF piece = None THEN <<>> ELSE <<piece>>
  IN Delivered(Opened([tool EXCEPT !.id = Latest(@, id), !.name = Latest(@, name),
                                   !.pieces = @ \o arrived, !.buffer = @ \o arrived]))

\* A fragment of a tool call that contradicts nothing received before; any
\* other fragment is a failure (Fail).
Fragment ==
  /\ main = "streaming"
  /\ \E key \in ToolKeys, id \in Ids \cup {None}, name \in Names \cup {None},
        piece \in Pieces \cup {None} :
       LET old == Tool(key)
           new == Received(old, id, name, piece)
       IN /\ Agrees(old.id, id) /\ Agrees(old.name, name)
          /\ Parses(new.buffer)
          /\ tools' = [k \in DOMAIN tools \cup {key} |->
                         IF k = key THEN new ELSE tools[k]]
          /\ blocks' = IF new.index > Len(blocks) THEN Append(blocks, key) ELSE blocks
  /\ UNCHANGED <<budgetVars, callVars, finish, usage, closed, other, sent, reported>>

FinishReason ==
  /\ main = "streaming"
  /\ \E reason \in Reasons : Agrees(finish, reason) /\ finish' = reason
  /\ UNCHANGED <<budgetVars, callVars, blocks, tools, usage, closed, other, sent, reported>>

UsageChunk ==
  /\ main = "streaming"
  /\ usage' \in Usages
  /\ UNCHANGED <<budgetVars, callVars, blocks, tools, finish, closed, other, sent, reported>>

\* _stop: the finish reason fits what was received.
Stop(reason, hasTools) ==
  \/ reason = "tool_calls" /\ hasTools
  \/ reason \in {"stop", "length"} /\ ~hasTools

\* Fault: only the open blocks are looked at.
WholeIfOpen ==
  /\ \A k \in DOMAIN tools : tools[k].index # 0 => IsObject(tools[k].buffer)
  /\ \A j, k \in DOMAIN tools : j # k => tools[j].id # tools[k].id

\* All tool calls of the answer are complete and distinct.
Whole ==
  /\ \A k \in DOMAIN tools : tools[k].index # 0 /\ IsObject(tools[k].buffer)
  /\ \A j, k \in DOMAIN tools : j # k => tools[j].id # tools[k].id

\* Fault: the zeros put in place of absent usage are taken for counts.
MeasuredAlways(value) == 1

\* The answer has usage counts to add.
Measured(value) == IF value = None THEN 0 ELSE 1

\* The upstream stream ends, by [DONE] or not.  All checks come before the
\* first block is closed.
EndOfStream ==
  /\ main = "streaming"
  /\ Stop(finish, tools # <<>>) /\ Whole /\ usage # "invalid"
  /\ main' = "closing"
  /\ known' = known + Measured(usage)
  /\ reported' = IF usage = None THEN reported ELSE reported + 1
  /\ UNCHANGED <<calls, searches, expired, stop_reason, body, request, streamVars,
                 other, sent>>

\* content_block_stop: the runtime starts the tool of the block.
CloseBlock ==
  /\ main = "closing"
  /\ closed < Len(blocks)
  /\ closed' = closed + 1
  /\ UNCHANGED <<budgetVars, callVars, blocks, tools, finish, usage, other, sent, reported>>

MessageStop ==
  /\ main = "closing"
  /\ closed = Len(blocks)
  /\ main' = "idle"
  /\ NoStream
  /\ UNCHANGED <<budgetVars, body, request, other, sent, reported>>

-----------------------------------------------------------------------------
(* The other calls: "waiting" for a whole answer, "searching" the web.      *)

SendOther(c) ==
  /\ other[c] = "idle"
  /\ \/ /\ consume
        /\ other' = [other EXCEPT ![c] = "waiting"]
        /\ sent' = sent + 1
     \/ Refused /\ UNCHANGED <<other, sent>>
  /\ UNCHANGED <<known, searches, expired, callVars, streamVars, reported>>

\* consume_tool, then consume: a refused search has used up an attempt.
SendSearch(c) ==
  /\ other[c] = "idle"
  /\ ~expired /\ searches < MaxSearches
  /\ searches' = searches + 1
  /\ \/ /\ consume
        /\ other' = [other EXCEPT ![c] = "searching"]
        /\ sent' = sent + 1
     \/ Refused /\ UNCHANGED <<other, sent>>
  /\ UNCHANGED <<known, expired, callVars, streamVars, reported>>

RefuseSearch(c) ==
  /\ other[c] = "idle"
  /\ expired \/ searches = MaxSearches
  /\ stop_reason' = IF expired THEN "task_deadline" ELSE "web_search_call_limit"
  /\ UNCHANGED <<calls, known, searches, expired, callVars, streamVars, other, sent,
                 reported>>

\* translate_response: the checks of a stream on a whole answer; one that does
\* not pass is a failure.
Answered(c) ==
  /\ other[c] = "waiting"
  /\ other' = [other EXCEPT ![c] = "idle"]
  /\ \E reason \in Reasons, hasTools \in BOOLEAN, value \in {None} \cup Usages :
       /\ Stop(reason, hasTools) /\ value # "invalid"
       /\ known' = known + Measured(value)
       /\ reported' = IF value = None THEN reported ELSE reported + 1
  /\ UNCHANGED <<calls, searches, expired, stop_reason, callVars, streamVars, sent>>

\* Usage of a search is kept whether or not its text is usable evidence, and
\* counts that cannot be are as good as none.
Searched(c) ==
  /\ other[c] = "searching"
  /\ other' = [other EXCEPT ![c] = "idle"]
  /\ \E value \in {None} \cup Usages :
       LET counted == value = "counts"
       IN /\ known' = IF counted THEN known + 1 ELSE known
          /\ reported' = IF counted THEN reported + 1 ELSE reported
  /\ UNCHANGED <<calls, searches, expired, stop_reason, callVars, streamVars, sent>>

OtherFails(c) ==
  /\ other[c] # "idle"
  /\ other' = [other EXCEPT ![c] = "idle"]
  /\ UNCHANGED <<budgetVars, callVars, streamVars, sent, reported>>

Streaming == TextDelta \/ Fragment \/ FinishReason \/ UsageChunk \/ EndOfStream

CallsNext ==
  \/ Deadline
  \/ Translate \/ SendMain \/ RefuseMain \/ Headers \/ Fail
  \/ Streaming \/ CloseBlock \/ MessageStop
  \/ \E c \in Others :
       \/ SendOther(c) \/ SendSearch(c) \/ RefuseSearch(c)
       \/ Answered(c) \/ Searched(c) \/ OtherFails(c)

CallsSpec == CallsInit /\ [][CallsNext]_modelVars

-----------------------------------------------------------------------------
\* Once a block is closed, and its tool may run, the whole answer is known to be
\* sound: it ended for its tool calls, each call is open, has complete arguments
\* and an id of its own (chat_to_messages.py:418-436).
ToolsWhole ==
  closed > 0 /\ tools # <<>> =>
    /\ finish = "tool_calls"
    /\ usage # "invalid"
    /\ \A k \in DOMAIN tools :
         /\ tools[k].index \in 1..Len(blocks) /\ blocks[tools[k].index] = k
         /\ {tools[k].id, tools[k].name} \subseteq Ids \cup Names
         /\ tools[k].buffer \in {<<>>, <<"open", "close">>}
    /\ \A j, k \in DOMAIN tools : tools[j].id = tools[k].id => j = k

\* The pieces of arguments the client received, then those that wait for the
\* block to open, are what the checks read, in order and each once; none is sent
\* before its block is open (chat_to_messages.py:382-415).
DeltasWhole ==
  \A k \in DOMAIN tools :
    /\ tools[k].delivered \o tools[k].pieces = tools[k].buffer
    /\ tools[k].index = 0 => tools[k].delivered = <<>>
    /\ tools[k].index # 0 => tools[k].pieces = <<>>

\* A translated message loses no text, result or call and keeps the order the
\* provider sees: of all blocks in a message of the user, of texts and of calls in
\* one of the assistant (chat_to_messages.py:66-114).
RequestKeepsBlocks ==
  main = "translated" =>
    LET written == FlattenSeq([i \in DOMAIN request |-> request[i].blocks])
    IN IF body.role = "user" THEN written = Content(body)
       ELSE /\ Len(request) = 1
            /\ Range(written) =
                 {block \in Range(Content(body)) : block.kind \in {"text", "tool_use"}}
            /\ \A i, j \in DOMAIN written :
                 i < j /\ written[i].kind = written[j].kind =>
                   written[i].place < written[j].place

\* Every request of the turn, streamed, whole or search, is within the shared
\* limit, and a summary that calls its usage complete leaves no request out
\* (provider.py:31-38, 54-83).
UsageHonest ==
  /\ sent <= calls /\ calls <= MaxCalls
  /\ known = calls => reported = sent
=============================================================================
