---------------------------- MODULE MCSuppress ----------------------------
EXTENDS Suppress, TLC

CONSTANTS a1, a2, i1, i2

Env(importers, modes, faults, most) ==
  [importers |-> importers, modes |-> modes, faults |-> faults, exports |-> most]

\* Two imports that add, one that adds or replaces, and one of these that fails.
Several == {Env({i1, i2}, {"add"}, TRUE, 2),
            Env({i1}, {"add", "replace"}, FALSE, 3),
            Env({i1}, {"add", "replace"}, TRUE, 2)}

Interchangeable == Permutations(Addresses)
=============================================================================
