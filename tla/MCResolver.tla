----------------------------- MODULE MCResolver -----------------------------
(* A small instance of Resolver. *)
EXTENDS Resolver, TLC

Good   == [routable |-> TRUE,  mapped |-> FALSE]
Mapped == [routable |-> TRUE,  mapped |-> TRUE]
Inward == [routable |-> FALSE, mapped |-> FALSE]

\* One that is fine, one that points inward in part, one that does so wholly.
SomeAnswers == {{Good}, {Mapped, Inward}, {Inward}, {}}

Symmetry == Permutations(Callers) \cup Permutations(Hosts)
=============================================================================
