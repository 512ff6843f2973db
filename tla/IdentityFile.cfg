SPECIFICATION Spec
CONSTANTS
  Calls = {c1, c2, c3}
  Nodes = {n1, n2}
  Pids = {p1, p2}
  MaxRestarts = 1
  Prior = Prior
  NoFile = NoFile
SYMMETRY Symmetry
INVARIANTS
  FileInv
  NoKeyLeftBehind
  LeftoverRefusesOnce
PROPERTY
  ImplementsPromise
\* Every call of the bounded set runs once.
CHECK_DEADLOCK FALSE
