------------------------------- MODULE MCPacer -------------------------------
EXTENDS Pacer, TLC

CONSTANTS n1, n2, w1, w2, w3

\* Two workers share a node; the third is on another.
Placed == [w \in Workers |-> IF w = w3 THEN n2 ELSE n1]

Env(workers, faults, evictions, restarts, standdowns, operator) ==
  [workers |-> workers, faults |-> faults, evictions |-> evictions,
   restarts |-> restarts, standdowns |-> standdowns, operator |-> operator]

\* Two workers of a node while Redis fails and the node restarts; two nodes and
\* an operator who promotes; one worker with everything, and with everything but
\* failures and resumes.
Several == {Env({w1, w2}, TRUE, FALSE, TRUE, FALSE, {}),
            Env({w1, w3}, FALSE, FALSE, FALSE, FALSE, {"promote"}),
            Env({w1}, TRUE, TRUE, TRUE, TRUE, {"resume", "promote"}),
            Env({w1}, FALSE, TRUE, TRUE, TRUE, {"promote"})}

=============================================================================
