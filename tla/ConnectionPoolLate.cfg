SPECIFICATION Spec
CONSTANTS
  Ops = {o1}
  MaxAccepts = 1
  MaxConnections = 1
INVARIANT
  TimedOutHoldsNoSlot
\* Every operation of the bounded set runs once.
CHECK_DEADLOCK FALSE
