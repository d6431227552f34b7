------------------------------ MODULE Counting ------------------------------
(***************************************************************************)
(* Comparing the size of a set with a number, stated so that sets grow and *)
(* shrink in proofs without their cardinalities.                           *)
(***************************************************************************)
EXTENDS Naturals

\* S has at least k members: k of them can be named without naming one twice.
AtLeast(S, k) == \E f \in [1..k -> S] : \A i, j \in 1..k : f[i] = f[j] => i = j
=============================================================================
