----------------------------- MODULE MCDistStart -----------------------------
\* Three processes, so that two stops can meet a start and one may die.
EXTENDS DistStart
==============================================================================
