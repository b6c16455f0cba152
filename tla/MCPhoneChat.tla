---------------------------- MODULE MCPhoneChat ----------------------------
(***************************************************************************)
(* Two conversations, pages of two messages, and room for the coroutine at *)
(* work, one that is cancelled, and a page beside them.                    *)
(***************************************************************************)
EXTENDS PhoneChat, TLC

Symmetry == Permutations(Conversations) \cup Permutations(Slots)
=============================================================================
