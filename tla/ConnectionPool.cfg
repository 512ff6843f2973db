SPECIFICATION Spec
CONSTANTS
  Ops = {o1, o2}
  MaxAccepts = 1
  MaxConnections = 1
SYMMETRY Symmetry
INVARIANTS
  PoolInv
  ServerDeathCloses
  LostConnectionFreesSlot
  AbandonedAcceptFreesPermit
\* Every operation of the bounded set runs once.
CHECK_DEADLOCK FALSE
