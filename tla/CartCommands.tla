---------------------------- MODULE CartCommands ----------------------------
(***************************************************************************)
(* Durable cart commands of the buyer host (buyer_commands.py and the cart *)
(* half of buyer_backend.py).  A command is a row of SQLite registered     *)
(* before the first request to the Java commerce service; requests of the  *)
(* phone and tool calls of the agent run as handlers that interleave at    *)
(* every await.  Java deduplicates by key and keeps the receipts; a        *)
(* request whose caller stopped waiting may still be carried out later.    *)
(***************************************************************************)
EXTENDS Integers

CONSTANTS
  Keys,        \* request keys
  Owners,      \* buyer subjects
  Operations,  \* the cart operations in use
  Handlers,    \* concurrent HTTP requests and tool calls of the host
  NoCommand,   \* no row, no receipt
  NoKey,       \* the key of an idle handler
  MaxMoves     \* bound: how often something else changes a cart

Versioned == {"SET", "REMOVE"}

ASSUME CartAssumption ==
  /\ Operations \subseteq {"ADD"} \cup Versioned
  /\ MaxMoves \in Nat
  /\ NoKey \notin Keys

\* The frozen arguments of a command: SET and REMOVE carry the cart version
\* the intent was formed from, ADD carries none (0).
Body == [owner : Owners, operation : Operations, expected : Nat]

ASSUME NoCommandAssumption == NoCommand \notin Body

VARIABLES
  command,    \* table buyer_commands: the immutable part of the rows
  result,     \* keys whose row has a result
  rejection,  \* column rejection of the rows
  pc,         \* where a handler is suspended
  at,         \* the key a handler works on
  again,      \* the handler may send the write again
  late,       \* requests Java may still carry out for nobody
  ledger,     \* Java: the receipt of every key
  version,    \* Java: cart version of every owner
  moves       \* changes of carts made elsewhere so far

rowVars == <<command, result, rejection>>
handlerVars == <<pc, at, again>>
javaVars == <<ledger, version>>
vars == <<rowVars, handlerVars, late, javaVars, moves>>

Categories == {"none", "VERSION_CONFLICT", "OTHER"}

\* "receipt": GET of the receipt under way; "found", "missing": its answer is
\* back; "token": the write token is being exchanged; "sent": the write is with
\* Java; "accepted", "conflict", "refused": its answer is back.
Places == {"idle", "receipt", "found", "missing", "token", "sent",
           "accepted", "conflict", "refused"}

\* BuyerCommand.public()["state"] = "unknown"
Unknown(k) == command[k] # NoCommand /\ k \notin result /\ rejection[k] = "none"

unknown_cart(o) == {k \in Keys : Unknown(k) /\ command[k].owner = o}

Suspend(h, place) == pc' = [pc EXCEPT ![h] = place]

Finish(h) ==
  /\ pc' = [pc EXCEPT ![h] = "idle"]
  /\ at' = [at EXCEPT ![h] = NoKey]
  /\ again' = [again EXCEPT ![h] = FALSE]

Init ==
  /\ command = [k \in Keys |-> NoCommand]
  /\ result = {}
  /\ rejection = [k \in Keys |-> "none"]
  /\ pc = [h \in Handlers |-> "idle"]
  /\ at = [h \in Handlers |-> NoKey]
  /\ again = [h \in Handlers |-> FALSE]
  /\ late = {}
  /\ ledger = [k \in Keys |-> NoCommand]
  /\ version = [o \in Owners |-> 0]
  /\ moves = 0

-----------------------------------------------------------------------------
(* The two statements that settle a row. *)

complete(k) ==
  /\ result' = result \cup {k}
  /\ rejection' = [rejection EXCEPT ![k] = "none"]

\* Fault: a late refusal is stored without asking for a result.
rejectAnyRow(k, category) ==
  /\ rejection' = [rejection EXCEPT ![k] = category]
  /\ UNCHANGED result

reject(k, category) ==
  /\ rejection' = IF k \in result THEN rejection
                  ELSE [rejection EXCEPT ![k] = category]
  /\ UNCHANGED result

(* The handlers. *)

\* Fault: register does not ask for commands of unknown outcome.
RegisterOverUnknown(h, k, b) ==
  /\ pc[h] = "idle"
  /\ command[k] = NoCommand
  /\ command' = [command EXCEPT ![k] = b]
  /\ Suspend(h, "token")
  /\ at' = [at EXCEPT ![h] = k]
  /\ UNCHANGED <<result, rejection, again, late, javaVars, moves>>

\* cart_mutation and _tool_write up to the first await after the insertion.
\* The version in the body was read earlier, by the phone or by the handler.
Register(h, k, b) ==
  /\ pc[h] = "idle"
  /\ command[k] = NoCommand
  /\ unknown_cart(b.owner) = {}
  /\ command' = [command EXCEPT ![k] = b]
  /\ Suspend(h, "token")
  /\ at' = [at EXCEPT ![h] = k]
  /\ UNCHANGED <<result, rejection, again, late, javaVars, moves>>

\* Fault: a retry refreshes the cart version of the stored body.
CheckRefreshing(h, k, retry) ==
  /\ pc[h] = "idle"
  /\ Unknown(k)
  /\ command' = IF retry THEN [command EXCEPT ![k].expected = version[command[k].owner]]
                ELSE command
  /\ Suspend(h, "receipt")
  /\ at' = [at EXCEPT ![h] = k]
  /\ again' = [again EXCEPT ![h] = retry]
  /\ UNCHANGED <<result, rejection, late, javaVars, moves>>

\* command_envelope, recover_cart_commands, a replayed UI key or tool call:
\* the row is unknown now, and its receipt is asked for.
Check(h, k, retry) ==
  /\ pc[h] = "idle"
  /\ Unknown(k)
  /\ Suspend(h, "receipt")
  /\ at' = [at EXCEPT ![h] = k]
  /\ again' = [again EXCEPT ![h] = retry]
  /\ UNCHANGED <<rowVars, late, javaVars, moves>>

\* Java answers the GET; the answer travels while others move on.
ReadReceipt(h) ==
  /\ pc[h] = "receipt"
  /\ Suspend(h, IF ledger[at[h]] = NoCommand THEN "missing" ELSE "found")
  /\ UNCHANGED <<rowVars, at, again, late, javaVars, moves>>

\* Fault: the receipt is shown but not stored.
RecoverFoundUnsaved(h) ==
  /\ pc[h] = "found"
  /\ Finish(h)
  /\ UNCHANGED <<rowVars, late, javaVars, moves>>

RecoverFound(h) ==
  /\ pc[h] = "found"
  /\ complete(at[h])
  /\ Finish(h)
  /\ UNCHANGED <<command, late, javaVars, moves>>

\* Fault: a missing receipt is taken for an old one and settles the row.
RecoverMissingSettles(h) ==
  /\ pc[h] = "missing"
  /\ complete(at[h])
  /\ Finish(h)
  /\ UNCHANGED <<command, late, javaVars, moves>>

\* The row is read again: only a retry of a row that is still unknown writes.
RecoverMissing(h) ==
  /\ pc[h] = "missing"
  /\ IF again[h] /\ Unknown(at[h])
       THEN Suspend(h, "token") /\ UNCHANGED <<at, again>>
       ELSE Finish(h)
  /\ UNCHANGED <<rowVars, late, javaVars, moves>>

SendWrite(h) ==
  /\ pc[h] = "token"
  /\ Suspend(h, "sent")
  /\ UNCHANGED <<rowVars, at, again, late, javaVars, moves>>

WriteAccepted(h) ==
  /\ pc[h] = "accepted"
  /\ complete(at[h])
  /\ Finish(h)
  /\ UNCHANGED <<command, late, javaVars, moves>>

\* _write: a refusal with a category of CART_REJECTIONS settles the row.
WriteRefused(h) ==
  /\ pc[h] \in {"conflict", "refused"}
  /\ reject(at[h], IF pc[h] = "conflict" THEN "VERSION_CONFLICT" ELSE "OTHER")
  /\ Finish(h)
  /\ UNCHANGED <<command, late, javaVars, moves>>

\* A failed token exchange, a timeout, an answer that settles nothing or does
\* not fit the command, a cancelled tool call: the exception leaves the row as
\* it is, and Java may still hold the write.
GiveUp(h) ==
  /\ pc[h] # "idle"
  /\ late' = IF pc[h] = "sent" THEN late \cup {at[h]} ELSE late
  /\ Finish(h)
  /\ UNCHANGED <<rowVars, javaVars, moves>>

\* The process dies and comes back: rows survive, handlers do not.
Restart ==
  /\ late' = late \cup {at[h] : h \in {g \in Handlers : pc[g] = "sent"}}
  /\ pc' = [h \in Handlers |-> "idle"]
  /\ at' = [h \in Handlers |-> NoKey]
  /\ again' = [h \in Handlers |-> FALSE]
  /\ UNCHANGED <<rowVars, javaVars, moves>>

-----------------------------------------------------------------------------
(* Java, as the host uses it. *)

Current(k) ==
  command[k].operation \in Versioned =>
    command[k].expected = version[command[k].owner]

Apply(k) ==
  /\ ledger[k] = NoCommand
  /\ Current(k)
  /\ ledger' = [ledger EXCEPT ![k] = command[k]]
  /\ version' = [version EXCEPT ![command[k].owner] = @ + 1]

Replay(k) == ledger[k] # NoCommand /\ UNCHANGED javaVars

JavaAccepts(h) ==
  /\ pc[h] = "sent"
  /\ Apply(at[h]) \/ Replay(at[h])
  /\ Suspend(h, "accepted")
  /\ UNCHANGED <<rowVars, at, again, late, moves>>

\* A stale version is refused as such.  Any other refusal is a choice: identity
\* is checked before the ledger is looked at, business rules change with time.
JavaRefuses(h) ==
  /\ pc[h] = "sent"
  /\ \/ /\ ledger[at[h]] = NoCommand
        /\ ~Current(at[h])
        /\ Suspend(h, "conflict")
     \/ Suspend(h, "refused")
  /\ UNCHANGED <<rowVars, at, again, late, javaVars, moves>>

LateAccepts(k) ==
  /\ k \in late
  /\ Apply(k)
  /\ late' = late \ {k}
  /\ UNCHANGED <<rowVars, handlerVars, moves>>

LateDropped(k) ==
  /\ k \in late
  /\ late' = late \ {k}
  /\ UNCHANGED <<rowVars, handlerVars, javaVars, moves>>

\* A checkout or another channel changes the cart.
CartMoves(o) ==
  /\ moves < MaxMoves
  /\ moves' = moves + 1
  /\ version' = [version EXCEPT ![o] = @ + 1]
  /\ UNCHANGED <<rowVars, handlerVars, late, ledger>>

-----------------------------------------------------------------------------
\* The bodies an owner can form now: any version seen so far may be stale.
Formed(o) ==
  [owner : {o}, operation : Operations \cap Versioned, expected : 0 .. version[o]]
    \cup [owner : {o}, operation : Operations \cap {"ADD"}, expected : {0}]

Handle(h) ==
  \/ \E k \in Keys, o \in Owners : \E b \in Formed(o) : Register(h, k, b)
  \/ \E k \in Keys, retry \in BOOLEAN : Check(h, k, retry)
  \/ ReadReceipt(h)
  \/ RecoverFound(h)
  \/ RecoverMissing(h)
  \/ SendWrite(h)
  \/ WriteAccepted(h)
  \/ WriteRefused(h)
  \/ GiveUp(h)

Java ==
  \/ \E h \in Handlers : JavaAccepts(h) \/ JavaRefuses(h)
  \/ \E k \in Keys : LateAccepts(k) \/ LateDropped(k)
  \/ \E o \in Owners : CartMoves(o)

Next == (\E h \in Handlers : Handle(h)) \/ Java \/ Restart

\* Every await ends (15 s timeouts); a buyer whose command is unknown opens
\* the app or the chat again and again, which runs recover_cart_commands, and
\* the receipt is not kept from him for ever.
Fairness ==
  /\ \A h \in Handlers : WF_vars(GiveUp(h))
  /\ \A o \in Owners :
       /\ SF_vars(\E h \in Handlers : \E k \in unknown_cart(o) : Check(h, k, FALSE))
       /\ SF_vars(\E h \in Handlers : at[h] \in unknown_cart(o) /\ ReadReceipt(h))
       /\ SF_vars(\E h \in Handlers : at[h] \in unknown_cart(o) /\ RecoverFound(h))

Spec == Init /\ [][Next]_vars

FairSpec == Spec /\ Fairness

-----------------------------------------------------------------------------
(* Properties. *)

TypeOK ==
  /\ command \in [Keys -> Body \cup {NoCommand}]
  /\ result \subseteq Keys
  /\ rejection \in [Keys -> Categories]
  /\ pc \in [Handlers -> Places]
  /\ at \in [Handlers -> Keys \cup {NoKey}]
  /\ again \in [Handlers -> BOOLEAN]
  /\ late \subseteq Keys
  /\ ledger \in [Keys -> Body \cup {NoCommand}]
  /\ version \in [Owners -> Nat]
  /\ moves \in Nat

\* An owner has at most one cart command whose outcome is unknown, over all
\* conversations, tool calls and screens, so a second cart change can never be
\* made on top of one that may or may not have happened (register).
AtMostOneUnknown ==
  \A k, l \in Keys :
    (Unknown(k) /\ Unknown(l) /\ command[k].owner = command[l].owner) => k = l

\* A row never carries both a receipt and a rejection, although a refusal of
\* one attempt and the success of another arrive in either order (complete
\* clears the rejection, reject spares a row with a result).
OneOutcome == \A k \in result : rejection[k] = "none"

\* A command reported as rejected for a stale cart version has not been and
\* can no longer be carried out by Java: the attempt still in flight carries
\* the same frozen version (the retry sends the stored body).
ConflictIsFinal ==
  \A k \in Keys : rejection[k] = "VERSION_CONFLICT" =>
    /\ ledger[k] = NoCommand
    /\ ~Current(k)

\* A cart change that Java carried out although its reply was lost does not
\* stay unknown: the read-only recovery finds it.
AppliedIsDiscovered ==
  \A k \in Keys : (ledger[k] # NoCommand /\ Unknown(k)) ~> ~Unknown(k)

Outcome(k) ==
  IF k \in result THEN "confirmed"
  ELSE IF rejection[k] = "none" THEN "open" ELSE "refused"

Intents == INSTANCE CartIntents WITH
  intent <- command, effect <- ledger, outcome <- [k \in Keys |-> Outcome(k)]

\* The commands keep the promise of CartIntents: recorded before the effect,
\* one open intent per owner, one effect per key and as recorded, confirmed
\* only after the effect and for good.
KeepsIntents == Intents!Spec
=============================================================================
