------------------------- MODULE MCMemoryRevisions -------------------------
(***************************************************************************)
(* Two turns of one user, the number the host admits by default, two facts *)
(* and three changes of the user.  Turns and facts are interchangeable.    *)
(***************************************************************************)
EXTENDS MemoryRevisions, TLC

Symmetry == Permutations(Turns) \cup Permutations(FactKeys)
=============================================================================
