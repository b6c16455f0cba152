---------------------------- MODULE TurnHistory ----------------------------
(***************************************************************************)
(* What the turns of a chat promise its reader, whatever the order in      *)
(* which requests are admitted, stream, vanish and save: the turns of a    *)
(* conversation run one after the other, each served by one request, and   *)
(* each is settled once, by its request or by the start of a new process,  *)
(* which settles all of them.  Earlier turns stay as they are.  A turn     *)
(* that failed shows no whole answer; one recorded as interrupted may turn *)
(* out to have failed, and no other verdict changes.  ConversationTurns    *)
(* implements this module.                                                 *)
(***************************************************************************)
EXTENDS Sequences

CONSTANTS
  Conversations,
  Requests

VARIABLES
  turns,    \* the answers of every conversation, the last one "pending" while it runs
  verdict,  \* how its last turn ended
  serving   \* the request that serves its turn, as a set

vars == <<turns, verdict, serving>>

Answers == {"answered", "cut"}

Verdicts == {"completed", "interrupted", "failed"}

Init ==
  /\ turns = [c \in Conversations |-> <<>>]
  /\ verdict = [c \in Conversations |-> "idle"]
  /\ serving = [c \in Conversations |-> {}]

Begin(c, r) ==
  /\ serving[c] = {}
  /\ \A d \in Conversations : r \notin serving[d]
  /\ turns' = [turns EXCEPT ![c] = Append(@, "pending")]
  /\ verdict' = [verdict EXCEPT ![c] = "running"]
  /\ serving' = [serving EXCEPT ![c] = {r}]

Ended(c, answer) == [turns[c] EXCEPT ![Len(turns[c])] = answer]

Settle(c, answer, reason) ==
  /\ serving[c] # {}
  /\ reason = "failed" => answer = "cut"
  /\ turns' = [turns EXCEPT ![c] = Ended(c, answer)]
  /\ verdict' = [verdict EXCEPT ![c] = reason]
  /\ serving' = [serving EXCEPT ![c] = {}]

Amend(c) ==
  /\ verdict[c] = "interrupted"
  /\ turns[c][Len(turns[c])] = "cut"
  /\ verdict' = [verdict EXCEPT ![c] = "failed"]
  /\ UNCHANGED <<turns, serving>>

Stop ==
  /\ turns' = [c \in Conversations |->
                 IF serving[c] = {} THEN turns[c] ELSE Ended(c, "cut")]
  /\ verdict' = [c \in Conversations |->
                   IF serving[c] = {} THEN verdict[c] ELSE "interrupted"]
  /\ serving' = [c \in Conversations |-> {}]

Next ==
  \/ \E c \in Conversations, r \in Requests : Begin(c, r)
  \/ \E c \in Conversations, answer \in Answers, reason \in Verdicts :
       Settle(c, answer, reason)
  \/ \E c \in Conversations : Amend(c)
  \/ Stop

Spec == Init /\ [][Next]_vars
=============================================================================
