------------------------- MODULE MCEndpointLifecycle -------------------------
\* Two starts of an endpoint, with one identity or two, and another process
\* that runs operations on them.
EXTENDS EndpointLifecycle, TLC

Symmetry == Permutations(Endpoints) \cup Permutations(Ids)
==============================================================================
