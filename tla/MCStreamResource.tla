--------------------------- MODULE MCStreamResource ---------------------------
\* Two operations compete for a half, or work on one half each, while two
\* control calls of any kind run against them.
EXTENDS StreamResource, TLC

Symmetry == Permutations(Ops) \cup Permutations(Controls)
==============================================================================
