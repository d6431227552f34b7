---------------------------- MODULE MCStandDown ----------------------------
EXTENDS StandDown, TLC

\* Sessions and hosts are interchangeable.
Symmetry == Permutations(Sessions) \cup Permutations(Hosts)
=============================================================================
