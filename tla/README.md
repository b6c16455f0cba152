# ShopMate: a TLA+ model of the host

ShopMate (`src/`) puts two language-model agents, a buyer's and an operator's, in
front of the Java commerce service CityBuddy. The Python host is one process with one
event loop and one SQLite file; the phone applications and the web workspace are its
clients. This project models the host's own promises: what is stored before and after
a write to Java, who may change what while requests interleave at every `await`, and
what survives a lost reply, a vanished client or a restart.

Paths below are relative to `src/src/shopmate/` unless they start with another
directory of `src/`.

## Inventory

| Component | State it keeps | Operations | Hard behaviour | What makes it correct |
|---|---|---|---|---|
| Cart commands (`buyer_commands.py`, `buyer_backend.py`, `buyer_executor.py`) | table `buyer_commands`: frozen body, result, rejection | register, recover from the receipt, retry, write, settle | screens and tool calls interleave; lost and late replies; restart | recorded before the effect; one open command per buyer; one outcome; confirmed only when Java has it |
| Checkout, payment, refunds (`buyer_transactions.py`) | the same table, `buyer_confirmations` | create, retry, pay the orders, pay a seckill order, prepare and confirm a refund | a loop of remote writes with a progress record read once; a payment that records nothing; an action that expires | one attempt and one callback per order; the orders one after the other; one action and one refund; never lost |
| Conversations (`app.py`, `sessions.py`) | table `sessions` with a version; the sets `busy` and `active_users` | read, acquire, begin, stream, finish, release, start-up repair | stale copies, disconnects at any await, generators that outlive their response | one turn at a time; running exactly while somebody writes it; history kept; limits |
| Merchant drafts (`backend.py`, `sessions.py`) | `prepare_intents`, `draft_refs` | prepare, recover missing drafts, approve, cancel, read | the recovery of one request repeats the prepare of another | one draft per intent; no late refusal removes it; what the operator is told stands |
| Memory (`memory.py`, `memory_routes.py`) | facts and a generation per user | save, extract, edit, delete, clear | a tool or an extraction ends after the user edited | nothing of an older generation is stored; turns do not revoke each other |
| Analysis sandbox (`analysis_sandbox.py`) | slots, runs, containers, closed flag | run, cancel, clean up, close | creation commits after cancellation | no container left over, at most two at once |
| Task budget, agents (`provider.py`, `analysis_runner.py`) | counts, deadline | consume a call, a tool | main and delegated agent at once | limits hold over both |
| Model stream adapter (`providers/chat_to_messages.py`) | fragments of tool calls | feed, finish | truncated and interleaved fragments | no tool starts before the response is valid |
| Phone core (`shared/`, `android/`, `ios/`) | saved pending write, timeline pages, generations | write, recover, page, stream | process death, answers in the wrong order | a write is dropped only when it is settled; the chat shows the history, late answers are ignored |
| Operations and evaluations (`scripts/local_runtime.py`, `reset_fixture.py`, `run_tasks.py`) | business data of the fixture, session database, marker file, the API process | start up, reset, run tasks, look at what is left | driver, API or all processes die between two steps; other clients of the same API | the fixture is reset only when nothing is in doubt; a task works on a whole fixture |
| Identity, Java clients, presentation, web | none that outlives a call, or only view state | mapping and formatting | | left out |

Components call each other directly: routes call the transaction and backend objects,
these call the Java clients, and all of them use the one `SessionStore`. Nothing is
sent between Python tasks but what SQLite and the few in-memory sets hold, so every
action of the models is the code between two awaits.

Java, the ASGI server and the clients are external. They appear as actions that choose
among the outcomes the host must cope with: a request is carried out or refused, its
answer arrives or is lost, it is carried out later for nobody, an order closes, a cart
moves, a client reads on or is gone.

## Modules

| Module | Models | Used with |
|---|---|---|
| `CartIntents` | the abstract promise of a durable command | refined by `CartCommands` |
| `CartCommands` | `buyer_commands.py` and the cart half of `buyer_backend.py` | `MCCartCommands` |
| `CartCommandsProofs` | the proofs about `CartCommands` | |
| `Checkouts` | `_submit_checkout` and `pay` of `buyer_transactions.py` | `MCCheckouts` |
| `Orders` | `pay_order` and the refund commands of `buyer_transactions.py` | `MCOrders` |
| `ConversationTurns` | `acquire`, `release`, `run_chat` of `app.py`; `save`, `begin_turn`, `finish_turn` and start-up of `sessions.py` | `MCConversationTurns` |
| `MerchantDrafts` | `_stage`, `_recover_prepares`, `_drafts`, approval and discard of `backend.py`; `prepare_intents` and `draft_refs` of `sessions.py` | `MCMerchantDrafts` |
| `ChangeRegister` | the abstract promise of a merchant's changes | refined by `MerchantDrafts` |
| `MerchantDraftsProofs` | the proofs about `MerchantDrafts` | |
| `MemoryRevisions` | `memory.py` and the changes of `memory_routes.py` | `MCMemoryRevisions` |
| `MemoryRevisionsProofs` | the proofs about `MemoryRevisions`, and about `ModelCalls` | |
| `OrderPayments` | the abstract promise of paying orders | refined by `Checkouts` and `Orders` |
| `CheckoutsProofs` | the proofs about `Checkouts` | |
| `OrdersProofs` | the proofs about `Orders` | |
| `TurnHistory` | the abstract promise of a chat's turns | refined by `ConversationTurns` |
| `ConversationTurnsProofs` | the proofs about `ConversationTurns` | |
| `AnalysisSandboxProofs` | the proofs about `AnalysisSandbox`, and about `Evaluations` | |
| `PhoneChatProofs` | the proofs about `PhoneChat` | |
| `ModelCalls` | `provider.py`, `providers/chat_to_messages.py`, the calls of `web_search.py` | `MCModelCalls` |
| `AnalysisSandbox` | `analysis_sandbox.py` | `MCAnalysisSandbox` |
| `Evaluations` | `scripts/local_runtime.py`, `reset_fixture.py`, `run_tasks.py` | `MCEvaluations` |
| `PhoneChat` | the chat of `BuyerViewModel.kt` and `ChatTimeline` (`ChatReducer.kt`) | `MCPhoneChat` |

Operators preceded by a comment that begins with *Fault:* are plausible bugs of the
operation that follows them. Nothing uses them; substituted for the operation, each
breaks the property it was written against, which shows that the property can fail.

### CartCommands

`command`, `result` and `rejection` are the columns of `buyer_commands`; `pc`, `at` and
`again` are the local state of a request or tool call suspended at an await; `ledger`
and `version` are what Java keeps; `late` holds requests whose caller stopped waiting.
`Register` is `register` with the first await after it (`cart_mutation`, `_tool_write`),
`Check` is every way to ask for a receipt (`command_envelope`,
`recover_cart_commands`, a replayed key or tool call), `RecoverFound` and
`RecoverMissing` are the two branches of `_recover` and its caller, `WriteAccepted` and
`WriteRefused` those of `_write`. `GiveUp` is every exception that leaves the row as
it is. The contents of a cart are abstracted to its version, an error category to
whether it is a stale version. Java deduplicates by key and refuses a stale version;
any other refusal is a free choice, because identity is checked before the key.

The property that carries the design is `KeepsIntents`, the refinement of `CartIntents`:
an intent is recorded before it can take effect, a buyer has one open intent, an
effect happens once and as recorded, and it is confirmed only afterwards, for good.
`ConflictIsFinal` is what justifies settling a command on the refusal of one attempt
while another is still in flight: the stored body is frozen, versions only grow, so no
attempt with that body can succeed any more. The same is *not* true of other
refusals; a buyer can be refused for his identity while an earlier attempt is late.

### Checkouts

One checkout command; commands of different keys share nothing. `Submit`,
`SubmitAccepted` and `SubmitRefused` are `_submit_checkout`; `Pay`, `Begin`,
`AttemptStarted` and `CallbackAnswered` are `pay` between its awaits, with the order
snapshot (`seen`) and the progress (`progress`) that it reads once and keeps. `identity`
is the `uuid5` from which the idempotency keys and the event id are made. Two payments
overwrite each other's progress record: the record may lose an attempt, and what keeps
an order from being paid twice is only that the identity is a function of the order
(`OnePayment`).

An answer to a callback need not say that the order was paid: `PaymentCallbackResult.state`
admits `PENDING` and `FAILED` (`buyer_client.py:164-169`), and `pay` stores the answer and goes
on to the next order without looking at it (`buyer_transactions.py:161-169`). Java may
therefore decline a callback (`JavaDeclines`, recorded in `declined`), and what holds of the
orders before one that is tried is that they were *answered*, not that they were paid
(`AnsweredInOrder`). Unless a declined order closes, the next payment sends its
callback again under the same identity. A late callback that is declined
changes nothing and is left out.

`PaysAsPromised` says the same as one refinement, of `OrderPayments`: seen from Java, the
payments of a checkout are one that tries an order only while it is unpaid and every earlier
order has been answered, carries each out once under the key it was tried with, and
never touches an order that has closed. `Orders` implements the same module for a single
order (`PaysOnce`), although `pay_order` stores nothing. The mapping shows the keys of all
attempts and callbacks of an order, so that a second key shows.

The run `checkout_rejected` shows a disagreement of the code with README.md:42, quoted
in `PROJECT.json`: `definitive_refusal` takes 401 and 403 for the end of the
command. If Java had created the checkout and only the reply was lost, a retry with
an expired identity turns the row into *rejected*, and neither a retry nor a payment
reaches the checkout afterwards. `PaidIsConfirmed` holds nevertheless: once the
host knows the result, a late refusal cannot take it away.

### Orders

What a buyer does with one order of a seckill: pay it, and ask for its refund. `PayOrder`,
`BeginOrder`, `OrderStarted` and `OrderCalled` are `pay_order` between its awaits. It records
nothing at all, so that a repetition after a crash starts from the order again;
`identity` is the `uuid5` that makes the repetition harmless. `Prepare`, `Prepared` and
`PrepareRefused` are a preparation and its retry, which share one row and its stored trace
and turn; `Confirm` and `Confirmed` are `confirm_refund`, which asks Java each time and
stores the receipt each time, whether Java requested the refund just now or replays what it
did before. Java is reduced to what the host relies on: attempts, events and actions are
replayed by key, a first one needs an unpaid or a paid order, and the first confirmation
needs an action that has not expired. Payment and refund are in one module because both
depend on the state of the order, which closes at any time.

`RefundRecorded` is why the host must not remember the outcome of a confirmation itself: the
answer of the one that requested the refund may be lost, and only a repetition, possibly
after the action has expired, brings the receipt.

### ConversationTurns

`stored` is the row of a conversation, `record` the copy a request works on, `busy` and
`active` the dictionaries of `create_app`. An item is reduced to whether it is pending,
answered or ended by an error text. A buyer suspends between reading the record and
`acquire`, an operator between `acquire` and `begin_turn`; the model allows both gaps
for everybody. The phases of a stream distinguish a generator that awaits
something (a cancellation reaches it) from one suspended at a `yield` while the response
is sending (it does not). In the second case the background task finishes the turn
first. A generator suspended outside its context managers, at `turn_started` or at the
error event, is finalized later and runs its `finally` clause again; inside them it
cannot be finalized at all, since its context variables belong to another context.

A client may vanish while a chunk is on its way to it. The second `finally` of a generator
that lingers then may release the slot of a *newer* turn: `release` goes by the
conversation, and only the background task asks `finished`. Everything about the stored record
survives, since the version in `save` refuses whatever the lingering generator writes; the
limits do not. `docs/RUNTIME.md:59` says: "Defaults allow at most 8 active chat tasks and 2
per user". The history variable `deprived` names the requests at work whose slot another one gave
back; with them the tasks at work exceed either limit. `WithinLimits` says what holds
instead: the two dictionaries agree; the tasks at work that are not deprived are within
the limits of the host and of every user; and the first to be deprived is deprived by a
generator that lingered and is finalized, by nothing else. (Later ones may also lose theirs to
a deprived request that ends: it gives the conversation back under whoever entered it.)

`KeepsTurns`, the refinement of `TurnHistory`, says what a reader of the chat may rely on: a
turn begins only when the conversation has none, is served by one request, and is settled by
that request or by the next start, which settles all of them at once; what is settled stays.
There is one exception, which the abstract module names: `Amend`. A turn that fails while its
client vanishes is recorded as interrupted by the background task, and when its generator is
finalized, it writes *failed* over that; if the conversation has moved on, `save` refuses it.

### MerchantDrafts

One operator with several authorization bindings (today's storefront and conversations
of older versions). `key`, `draft_id` and `rejection` are the columns of
`prepare_intents`, `refs` is `draft_refs`; the receipts stored there are never read back
and are left out. `Stage` is `_stage` up to its first await; `OpenPage`,
`RecoverBinding`, `RecoverNext`, `Recovered` and `List` are a page that lists drafts: for
one binding after the other it reads the rows without an outcome, repeats their requests
and goes on after a draft or a refusal, while any other error ends the page; then it
lists the changes of every binding. A tool call and such a page often repeat the same
request. `Operator` is the handler whose pages the liveness properties speak of; the others
are tool calls and pages that nothing obliges to go on. `Decide` is an approval or a discard after `_owned_draft`; the operator
approves, the operator and the model discard. Java is assumed to keep one change per
request key, to decide it once, and to refuse a key without using it up, which
`tests/test_sessions.py:105-115` takes for granted too.

The run `draft_refusals` shows a disagreement with the comment in `reject_intent`
(`sessions.py:342`): a committed draft takes precedence over a refusal only if the reply
that names the draft arrives. If it is lost, the refusal stays and nothing repeats
the request. `DraftsFound` bounds the damage: the operator still finds that draft in
the list, but the conversation was told that there is none.

`KeepsRegister`, the refinement of `ChangeRegister`, is the promise to the operator in one piece:
an intent is recorded before Java is asked for it, becomes one change, which is decided once, is
drafted for good, and a decision is reported only while it stands. The abstract module lets a
rejected intent be committed and drafted afterwards, because the code does (`CommitWins`).

### MemoryRevisions

The rows of one user: `facts` and the `generation` that every edit, deletion and clearing
advances. A turn holds the generation of its start (`started`); its tool (`SaveTool`) and
its extraction (`StartExtraction`, `Extracted`) compare before they write, the extraction
also with the generation it read before the model was asked (`seen`). The check and the
write are one step of the event loop. `changes`, `touched`, `since` and `begun` are history:
they say in terms of changes of the user what the code decides in terms of generations, so
that a generation advanced too rarely (`NothingOutlivesAChange`) or too often
(`RevokedOnlyByUser`) shows.

### ModelCalls

The calls one user turn makes to the model provider, with the budget all of them share. The
main call is the path from `translate_request` over `consume` to the translated stream:
`TextDelta`, `Fragment`, `FinishReason` and `UsageChunk` arrive in any order, `EndOfStream` is
the block of checks after the loop, `CloseBlock` and `MessageStop` are the events that let
the runtime start tools. Arguments are reduced to a few pieces of JSON text; what matters of
them is whether the text received so far can still become JSON, is a whole object, and is
delivered to the client in order and once although it may arrive before the block can be
opened. A message is reduced to its role and the kinds of its blocks, each with its place.
`other` holds the calls beside the stream: whole answers (extraction, delegated analysis)
and web searches, which consume a tool call and a model call.

`ToolsWhole` is the property of the adapter: once a block is closed nothing can fail that
would have kept its tool from running. `UsageHonest` ties every request sent to the budget
and says that a summary which calls usage complete has left no request out.

Not modelled: a usage value that is no object counts as measured zeros; the numbering of
citations; and that the refusal of the budget reaches a caller of the SDK wrapped as a
connection error.

### AnalysisSandbox

`pc` is where a run is suspended, `create` the task of its `docker create`, `container` what
the daemon has, `slots`, `names` and `_closed` the fields of the object. A command that ends
by itself has been decided by the daemon; one that the host kills may still be carried
out, which is why cleanup waits for the creation (`AwaitCreate`) and why only a creation that was
killed by the time limit of the cleanup can leave something behind (`ContainersOwned`).
`Close`, `Sweep`, `SweepNext` and `Closed` are `close`, which cancels the runs, waits for
them and removes the names that are left.

`docs/RUNTIME.md:97` says: "If Docker is unreachable and cleanup cannot be verified, the host
reports an error and rejects further sandbox work." The code does this for every failure it
turns into a `SandboxCleanupError`. If the docker command cannot be spawned at all, the
`OSError` is none: the slot is released, `_closed` stays as it is, and the container is left
until the shutdown (`Unspawned`). `FailureStopsWork` is stated for the former failures only, and
`TwoAtOnce` leaves both kinds of containers aside.

### Evaluations

`driver` is where `run_tasks.py` is, `marker` its file, `host` the API with its owner,
`session`, `running` and `unresolved` what the session database says of the identities of a
task, `maintenance` the step of `local_runtime.py up` or of the reset, which are the same
steps from `Drained` on. The driver records a write (`BeginWrite`), then sends it (`SendWrite`), may be interrupted
between the two, and
removes the marker only on an answer that settles it (`Answered`, `Rejected`); it resets only after
`RecoverBuyer` and the merchant's overview have looked at every session, the API it owns
has stopped, and `local_reset_preflight` finds nothing running or in doubt. Meanwhile
other clients start sessions and turns (`NewSession`, `TurnStarts`), and the driver alone
(`Kill`), the API (`ApiDies`) or every process (`Crash`) goes down. A turn that is cut off may stay
stored as running until the next start of the API, which is what the preflight looks for. `Crash`
keeps the marker, as a shutdown in good order does: `begin_write` does not synchronize the file or its
directory (`run_tasks.py:287-296`), so after a loss of power `UnresolvedMarked` is not claimed.

A person starts the API or the services only while no driver runs. Abstracted: which
identities take part in a task is any nonempty set; three failures of the provider in a
row end the evaluation like its last entry (`LastTask`). Not modelled: a kill of the driver
alone during the subprocess that resets; contents of the fixture, checks of a task
and evidence files.

The model contains a disagreement that no property is stated about. The comment at
`scripts/local_runtime.py:476` says of a reset that fails between business data and sessions:
"SQL and SQLite do not share a transaction; a failure keeps this host unready." The next `up`
finds `initialized`, skips the reset and reports ready with the old sessions. Evaluations
are not affected: their own reset is repeated for every task (`WholeFixture`).

### PhoneChat

One account on one phone. `history` and `exists` are the host's, `signedIn` and `stored` the
device's storage, the others the fields of `ChatState` and `ChatTimeline`. `jobs` are the
coroutines: one that reads the latest page (`Restore` to `Restored`), one that reads an earlier
page (`loadEarlierMessages`, `Prepended`), one that sends (`send`, `Created`, `Started`,
`Completed`). Each keeps whether the generations it started with are current (`owns`); a
cancelled one may end late, delivers nothing, and runs its `catch` and `finally`
(`JobFails`, `Finally`). A message is its id, which the host counts within a conversation, and
`known` is history: how many messages there were when the latest page was read.

`ShownIsHistory` says that the screen never shows another conversation's messages, a message
twice or out of order, and misses nothing between the cursor and the latest page.
It does not say that the oldest message shown follows the cursor without gaps to the *live* turn:
`docs/BUYER.md:48` says that "Sending into an existing conversation waits for its initial history page",
which `send` does by `historyLoaded`; but that flag starts as true, so that a conversation
just created whose first turn was lost is sent into without a page, and the lost turn
appears when the conversation is restored.

Left out: texts, cards, duplicate pages (`appliedBefore`), saved writes, seckill tickets and the
catalogue. The iOS application follows the same rules over the same core.

## Runs

| Run | Instance | Shows |
|---|---|---|
| `cart_commands` | 1 buyer, 2 keys, 2 handlers, additions and versioned changes, 1 foreign cart change | `AtMostOneUnknown`, `OneOutcome`, `ConflictIsFinal`, refinement of `CartIntents`; `AppliedIsDiscovered` under fairness |
| `checkout_payments` | 2 orders, 2 handlers, 1 late request, 1 declined payment | `ProgressIsTrue`, `AnsweredInOrder`, `PaidIsConfirmed`, refinement of `OrderPayments`; `PaidInFull` under fairness |
| `orders` | 2 handlers, 2 late requests | `OneRefund`, refinement of `OrderPayments`; `RefundRecorded` under fairness |
| `checkout_rejected` | 1 order, 1 handler | `CreatedNotRejected` is violated |
| `turns` | 3 users, one of them with 2 conversations, 3 requests, 2 slots and 1 for a user, 2 turns | `WithinLimits`, `OneTurn`, `RunningHasWriter`, `PendingWhileRunning`, refinement of `TurnHistory`; `TurnsEnd` under fairness |
| `drafts` | 1 intent under the second of 2 bindings, 2 handlers, approval and discard, 2 request keys to draw | `OneDraft`, `RefusalsConfirmed`, `DraftKept`, refinement of `ChangeRegister`; `DraftsFound` and `IntentsSettle` under fairness |
| `draft_refusals` | the same without decisions | `CommitWins` is violated |
| `memory` | 2 turns, 2 facts, 3 changes | `NothingOutlivesAChange`, `RevokedOnlyByUser` |
| `model_calls` | 2 tool positions, 1 call beside the stream, 2 calls, 1 search, messages of at most 3 blocks | `ToolsWhole`, `DeltasWhole`, `RequestKeepsBlocks`, `UsageHonest` |
| `analysis` | 3 runs, 2 slots | `ContainersOwned`, `TwoAtOnce`, `FailureStopsWork`; `RunsEnd` under fairness |
| `evaluations` | 1 merchant, 2 buyers, any number of tasks | `UnresolvedMarked`, `WholeFixture`, `ResetQuietly` |
| `phone_chat` | 2 conversations, 3 coroutines, pages of 2, 6 messages | `ShownIsHistory`, `BusyHasOwner` |

Bounds. Two handlers are enough for every race between two attempts at one command,
and two keys for a race between two commands of a buyer; buyers share nothing but Java
(the proofs are for any number of them). `MaxMoves` (one foreign change) makes a version
stale before, between and after the attempts. `MaxDeclined` (one payment) puts an answer that
does not pay at the first or at the last order. `MaxLate` bounds the requests that outlive
their caller at a time, not in all: each can be carried out before and after the next attempt.
Two orders give a first, a last and an order in between a paid and an unpaid one. In `turns`
two slots for three requests make the limit of the host bite although no user is at his, and two
conversations of one user the limit of the user although a slot is free; without either
guard of `acquire` the run finds `WithinLimits` violated. Three requests are a lingering generator, the turn that follows it and a
third that enters on the slot freed too early. `Asks` says which conversations each may be
for; `MaxTurns` bounds the turns of all conversations together, two let an old one meet a new
one. One intent is enough for
drafts as far as the properties go: intents share nothing but the order in which a page
repeats them, and nothing is claimed of that order (see *Fairness*); its
binding is the second, so that a page can end before it reaches it; two handlers
are a tool call and a page, or a page and a decision; the second request key is there for
a host that would draw one (`MaxKeys`). Three changes (`MaxChanges`) put a change before, during
and after a turn. Three analyses are two at work and one that waits. In `phone_chat` the
`Slots` are an earlier page, a restored page and a cancelled turn that has not ended;
six messages are three pages of two, the live turn among them.

Symmetry is used in `memory`, `model_calls` and `phone_chat`, which check no liveness.

Fairness. A handler whose request gets no answer gives up (every HTTP client has a
timeout of 15 seconds), a suspended task is resumed, and the deadline of the task
budget ends every stream: weak fairness of those steps, strong fairness of the end of
a stream that keeps being interrupted by chunks. `AppliedIsDiscovered`, `PaidInFull`
and `RefundRecorded` also need the buyer: he opens the application or the chat
again, pays or confirms again, and is not interrupted at the same point for ever
(strong fairness of the steps of a recovery, payment or confirmation, by whichever handler). For
`PaidInFull` that is: every request of a handler ends; while nobody pays, somebody begins to;
if checkouts are read, or attempts started, again and again, then again and again one of
them is answered and the payment goes on; and callbacks sent again and again are carried out
in the end, if none of them is declined and no order closes.
`DraftsFound` and `IntentsSettle` need the operator: he keeps opening the overview
(`OpenPage`), Java's answers reach him, and from some time on his page is not interrupted before it has
listed. The last is a real assumption: a repeated prepare that fails with an error that is no
rejection ends the page (`backend.py:223`), so an intent that always fails so holds back the
intents behind it and every list of drafts, which `IntentsSettle` does not exclude. Nothing is assumed of other handlers, Java's late requests, retries that write, or
restarts. `RunsEnd` needs the event loop, which enforces the time limits of a run and of
its cleanup, and a shutdown that goes on once begun; nothing obliges Docker to answer.
`Evaluations`, `MemoryRevisions`, `ModelCalls` and `PhoneChat` are about safety only.

## Proofs

`CartCommandsProofs` proves, for any sets of buyers, keys and handlers and any bound
of foreign changes, the type invariant (`TypeCorrect`), `AtMostOneUnknown`
(`OneUnknownCommand`), `OneOutcome` (`ReceiptOrRejection`), `ConflictIsFinal`
(`ConflictsAreFinal`) and the refinement (`ImplementsIntents`). The assumptions are the
two of `CartCommands`: operations are the known ones, and the markers for "no row" and
"no key" are not rows or keys.

None of these is inductive by itself. The invariant `IInv` adds: a handler or a late
request concerns a registered row (`RowsFirst`); Java's ledger holds the recorded body
(`LedgerMatchesRows`); no body carries a version that the cart has not reached (`NotAhead`,
the reason why a conflict is final); an answer in flight is still true when it
arrives (`AnswersStayTrue`: a receipt once found stays, a conflict stays a conflict); and
a stored conflict is overtaken (`ConflictsOvertaken`). The refinement follows step by step:
`Register` records an intent, `Apply` lets it take effect, `complete` confirms, `reject`
refuses, and every other step stutters.

`MerchantDraftsProofs` proves, for any number of intents, bindings, handlers and request
keys, the type invariant, `OneDraft` (`OneDraftPerIntent`), `RefusalsConfirmed`
(`RefusalsAreConfirmed`), `ToldTruth` (`ToldIsTrue`) and `DraftKept` (`DraftsAreKept`), from
the two assumptions of the module: every intent has a binding, and the marker for "no
request" is no request. The invariant adds that one key is ever drawn for an intent and that
every request, late request, change and row names the draft of that key (`OneKey`);
that a handler waiting for an answer has asked (`Asking`); that a refusal or decision on
its way to a handler still holds when it arrives (`AnswersHold`); and that a row with a
draft has no rejection and the operator can open the draft (`Attached`).

`ImplementsRegister` proves the refinement of `ChangeRegister`. It needs one thing more than the
invariant (`Existing`): a decision is asked for a change that exists, and so is the change of
every draft and of every answer that is no refusal. Without it a decision that is carried out
late could decide a change that is not there, which `Decide` forbids. A request that Java
carries out then commits, decides or stutters (`OutcomesAllowed`), and the mapping, a set of all
changes of an intent, has one element at most (`OneOfIntent`).

`MemoryRevisionsProofs` proves, for any turns, facts and number of changes, the type invariant,
`NothingOutlivesAChange` (`DeletedStaysDeleted`) and `RevokedOnlyByUser`
(`RevocationHasCause`), from the assumption that the bound of changes is a number. The
invariant adds `Counted`: the stored generation is the number of changes the user made, a turn
holds what that number was when it began, and no change that concerned a key is newer
than the last. Hence a turn whose generation is current saw every change.

The same module proves the invariants of `ModelCalls`, for any tool positions, calls beside the
stream, limits and messages: `ToolsWhole` (`ToolsRunWhole`), `DeltasWhole`
(`DeltasArriveWhole`), `UsageHonest` (`CallsWithinBudget`) and `RequestKeepsBlocks`
(`RequestsKeepBlocks`), from the assumptions that the limits are numbers and that a body has a role
and a sequence of known kinds. `CallSound` adds to the second
that an open call has its block, its id and its name; `CallsCounted` says that a request is
counted in the step that sends it, and usage in the step that reports it; `ClosingChecked` says
that from the checks at the end of the stream on nothing they looked at changes.

`RequestsKeepBlocks` is about a computation, not a protocol: what `translate_request` makes of a
message of any length keeps every block it may keep, in its order, each once. The message is
translated by a fold over its blocks, and the induction theorems of the library cannot be
used, since they take an operator. The module therefore proves induction over numbers for
*sets* (`NumbersInduct`, `UpToInduct`), from the well-foundedness of `<`. With it, a
fold is shown to be the last state of a loop (`FoldExists`, `UserLoop`, `AssistantLoop`), and
what has been written, joined with the texts still waiting to be written, to be the kept
blocks of the part of the message read so far (`KeptGrows`, `TakesAll`, `PickedStep`).

`CheckoutsProofs` proves, for any number of orders, handlers and late requests,
`OnePayment` (`OnePaymentPerOrder`), `ProgressIsTrue` (`ProgressNeverLies`), `AnsweredInOrder`
(`AnsweredPrefix`) and `PaidIsConfirmed` (`PaymentsAreConfirmed`), from the assumption that the
number of orders and the bounds are natural numbers. Since progress is read once and written whole, what a handler has read is older
than what it writes over. The invariant therefore says of each copy what the stored one
must satisfy: what a handler has seen or recorded is true, and if it pays an order all
earlier ones have been answered, by paying or declining (`HandlersSound`); so are the requests whose caller has stopped
(`LateHarmless`); the identity of an attempt is its order (`JavaSound`). None of these can
become false again, which is why no handler needs to know of the other. The refinement of
`OrderPayments` (`ImplementsPayments`) follows step by step from the same invariant: an attempt or
a callback that Java carries out, also late, is the next one allowed or repeats a key it has.

`OrdersProofs` proves, for any number of handlers and late requests, `OrderPaidOnce`
(`OnePaymentOfAnOrder`), `OneRefund` (`RefundedOnce`) and the refinement of `OrderPayments`
(`ImplementsPayment`): every request carries the key of the order (`Harmless`), only a confirmed
command has a confirmation under way, and a receipt is one that Java gave.

`ConversationTurnsProofs` proves, for any conversations, users, requests, limits and restarts,
`OneTurn` (`OneTurnAtOnce`), `RunningHasWriter` (`RunningIsWritten`), `PendingWhileRunning`
(`PendingIsRunning`), `WithinLimits` (`LimitsHold`) and the action property `HistoryKept`
(`EarlierTurnsKept`), from the assumption that there are finitely many conversations, each
with an owner, and that the limits are numbers, that of a user at most that of the host, as `settings.py` requires.
`RequestsSound` adds what a copy of the record says of the stored one: its version is not newer, and if it is the same the copy is the record; the copy of a
request whose turn is not finished always is. That a
lingering generator may release the slot of another turn does not enter: this part of the
argument rests on versions, never on slots. `LimitsHold` adds the slots (`SlotsHeld`): the tasks
that nobody deprived are each alone among them in their conversation, which is in `busy`, so
they are no more than the slots counted (`CountedFit`); and a task that gives its own slot back
takes it from nobody (`HeldAfterRelease`).

`ImplementsHistory` proves the refinement of `TurnHistory`. Beyond the invariant it needs what a
request knows of the end of its turn (`OutcomesFit`): an answer is whole only if the turn did not
fail, and a generator that lingers with the current copy finds its turn recorded as
interrupted and cut. That is why its late write is an `Amend` or nothing.

`AnalysisSandboxProofs` proves, for any number of runs and slots, `ContainersOwned`
(`NoContainerForgotten`), `TwoAtOnce` (`AsManyAsSlots`) and the action property
`FailureStopsWork` (`NothingAfterFailure`), from the assumption that the number of slots is a natural number; the runs
need not be finitely many. `RunsSound` says in which places a run may have a
creation under way, a container or a name; `ClosingSound` what the shutdown has left to
remove; `FailureSeen` that a failed cleanup has closed the sandbox; `SlotsSound` that the free slots
and the runs that hold one make up all. The bound on containers follows from the
last: every container whose cleanup has not failed belongs to a run that holds a slot.

`AnalysisSandboxProofs` also proves, for any identities, tasks and kills of processes, `UnresolvedMarked`
(`WritesAreMarked`), `WholeFixture` (`TasksRunOnNew`) and the action property `ResetQuietly`
(`ResetsAreQuiet`). The invariant adds that a driver which goes on knows the answer to all it has
written (`WritesKnown`), that maintenance runs while no API serves (`ServicesAlone`), that from
the preflight on nothing is running or in doubt (`ResetQuiet`), and how far a reset has come at each
step (`ResetProgress`). No assumption is needed.

`PhoneChatProofs` proves, for any conversations, coroutines and page size, `ShownIsHistory`
(`ScreenIsHistory`) and `BusyHasOwner` (`WaitsAreOwned`), from the assumption that a page holds
at least one message. A coroutine is sound (`JobSound`) if its page is a run of messages that
ends where it was asked to, and if its turn has its two messages in the history. The
invariant relates the coroutines to the screen: one that is current works for the stored
conversation, which is the one on the screen (`OwnersCurrent`); a turn that is current excludes every
other turn and every latest page (`OwnTurnAlone`), so that nothing replaces the messages a reply is appended to; the
cursor is the first message shown (`TimelineSound`), which is why a page before it
leaves no gap. The proof is by what remains to be shown of a step: every action changes one
coroutine and at most cancels or disowns the others (`Weaker`, `OthersKept`).

The type invariant of each model is a theorem `TypeCorrect`, except for `Orders`, `ModelCalls` and
`Evaluations`, where what is needed of it is part of the invariant. No type invariant is listed in a
run. The inductive invariants were model-checked on the instances of the runs before they were
proved.

Only model-checked: the liveness properties `AppliedIsDiscovered`, `PaidInFull`,
`RefundRecorded`, `TurnsEnd`, `DraftsFound`, `IntentsSettle` and `RunsEnd`, because fairness and
ENABLED are beyond the prover. Every other property of the passing runs is the statement of a
theorem. `OnePayment`, `OrderPaidOnce`, `HistoryKept` and `ToldTruth` are theorems that no run
checks: the refinements of `OrderPayments`, `TurnHistory` and `ChangeRegister`, which the runs check, say
more. The two disagreements of the runs `checkout_rejected` and `draft_refusals` are
counterexamples and have no proof.

## Plan

What is left, in this order:

1. The phone's saved writes over `CartCommands`: the retention rule of `WriteRecovery.kt` and the
   retry after process death; the tickets of a seckill.
2. Storage errors of SQLite in `ConversationTurns`.
3. A refinement of `PhoneChat` by the history it shows.

## Not modelled

Presentation, report periods, SQL validation and search parsing are pure functions of
their input and have no protocol. The vendored agent framework, Java, Docker and the
model provider are used through their interfaces only. The web workspace and the iOS
screens repeat rules of the shared core. The phone's saved writes, its seckill tickets and
its catalogue screens come later (see the plan). Login and token checks have no state besides a
key cache. Storage errors of SQLite (a full disk, a locked file) are left out so far: if
`finish_turn` itself failed, the slot would be released and the conversation would stay
running until the next start. More than a hundred pending drafts, where a draft may slide from
one page of Java's list to another while it is read, depend on an order that is outside the
repository.
