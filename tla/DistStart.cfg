SPECIFICATION StartSpec
CONSTANTS
  Procs = {p1, p2, p3}
  Early = Early
  None = None
INVARIANTS
  StartInv
  NothingLeftBehind
  RunningIsStoppable
PROPERTY
  ConfigurationImmutable
\* Every process may have died.
CHECK_DEADLOCK FALSE
