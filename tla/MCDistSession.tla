---------------------------- MODULE MCDistSession ----------------------------
\* Two sessions with one peer, accepted or set up, one after the other or at
\* once, and two accept loops, the second started when the first has died.
EXTENDS DistSession, TLC

Symmetry == Permutations(Sessions) \cup Permutations(Loops)
==============================================================================
