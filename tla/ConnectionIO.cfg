SPECIFICATION Spec
CONSTANTS
  Ops = {o1, o2}
  Sizes = {1, 2}
  MaxDatagram = 1
SYMMETRY Symmetry
INVARIANTS
  CountsInv
  PeakExact
  ReturnedOwnsNothing
  NothingOutlivesItsOwner
  ForgottenIsReleased
\* Every call of the bounded set runs once.
CHECK_DEADLOCK FALSE
