------------------------- MODULE MCConversationTurns -------------------------
(***************************************************************************)
(* Three requests, two turns and four conversations of three buyers, each  *)
(* of whom may have one task, and two at a time in all.  Two requests meet *)
(* at one conversation, two at the limit of a buyer and three at the limit *)
(* of the host, and clients vanish while they are sent to.                 *)
(***************************************************************************)
EXTENDS ConversationTurns, TLC

MCOwner == ("a1" :> "a") @@ ("a2" :> "a") @@ ("b1" :> "b") @@ ("c1" :> "c")

MCAsks == ("r1" :> {"a1"}) @@ ("r2" :> {"a1", "a2", "b1"}) @@ ("r3" :> {"a2", "c1"})
=============================================================================
