---------------------------- MODULE SessionSlots ----------------------------
(***************************************************************************)
(* What the session leases of a pace key promise: at most MaxLimit         *)
(* sessions at once, over all nodes.  No leases, no clock.                 *)
(***************************************************************************)
EXTENDS Integers, FiniteSets

CONSTANTS Calls, MaxLimit

VARIABLE inside   \* the calls whose session is live

Init == inside = {}

\* There is room, counted over every node, and the call takes it.
Enter(c) ==
  /\ c \notin inside
  /\ Cardinality(inside) < MaxLimit
  /\ inside' = inside \cup {c}

Exit(c) ==
  /\ c \in inside
  /\ inside' = inside \ {c}

Next == \E c \in Calls : Enter(c) \/ Exit(c)

Spec == Init /\ [][Next]_inside
=============================================================================
