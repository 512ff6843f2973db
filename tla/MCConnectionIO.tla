---------------------------- MODULE MCConnectionIO ----------------------------
\* Two calls of any kinds overlap on one connection.
EXTENDS ConnectionIO, TLC

Symmetry == Permutations(Ops)
==============================================================================
