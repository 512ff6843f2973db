--------------------------- MODULE MCConnectionPool ---------------------------
\* Two operations of any kind compete for the permits and the slots.
EXTENDS ConnectionPool, TLC

Symmetry == Permutations(Ops)
==============================================================================
