--------------------------- MODULE MCTokenBucket ---------------------------
(***************************************************************************)
(* TLC instances of TokenBucket.                                           *)
(***************************************************************************)
EXTENDS TokenBucket, TLC

Symmetry == Permutations(Callers)
=============================================================================
