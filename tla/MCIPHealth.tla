---------------------------- MODULE MCIPHealth ----------------------------
EXTENDS IPHealth, TLC

CONSTANTS z1, z2

AllKinds == {"list", "junk", "stub", "wildcard"}

Env(lapses, restarts, most) ==
  [lapses |-> lapses, restarts |-> restarts, complaints |-> most]

\* Failing lookups and restarts; restarts alone; complaints alone.
Several == {Env(TRUE, TRUE, 0), Env(FALSE, TRUE, 0), Env(FALSE, FALSE, 3)}
=============================================================================
