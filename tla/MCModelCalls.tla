---------------------------- MODULE MCModelCalls ----------------------------
(***************************************************************************)
(* One main stream with two tool calls and an other call beside it, two    *)
(* calls and one search in the budget; every message of up to three blocks *)
(* of its role.  Positions and identities of tool calls are interchangeable.*)
(***************************************************************************)
EXTENDS ModelCalls, TLC

Symmetry == Permutations(ToolKeys) \cup Permutations(Ids)

MCBodies ==
  UNION { UNION { [role : {"user"}, kinds : [1..n -> {"text", "tool_result", "image"}]],
                  [role : {"assistant"}, kinds : [1..n -> {"text", "tool_use", "thinking"}]] }
          : n \in 0..3 }
=============================================================================
