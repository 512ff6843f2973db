---------------------------- MODULE MCIdentityFile ----------------------------
\* Three calls from two nodes, in one pid namespace or two.
EXTENDS IdentityFile, TLC

Symmetry == Permutations(Calls) \cup Permutations(Nodes) \cup Permutations(Pids)
==============================================================================
