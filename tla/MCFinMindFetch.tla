--------------------------- MODULE MCFinMindFetch ---------------------------
(***************************************************************************)
(* FinMindFetch with symmetric callers.                                    *)
(***************************************************************************)
EXTENDS FinMindFetch, TLC

Symmetry == Permutations(Callers)
=============================================================================
