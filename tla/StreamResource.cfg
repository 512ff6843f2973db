SPECIFICATION Spec
CONSTANTS
  Ops = {o1, o2}
  Controls = {k1, k2}
  Codes = {zero, seven}
  Zero = zero
  NoCode = NoCode
SYMMETRY Symmetry
INVARIANTS
  BusyHasOneOwner
  HandleIsLinear
  ReleasedOnce
  NoLostWakeup
PROPERTY
  EndIsFinal
\* Every operation and control call of the bounded sets runs once.
CHECK_DEADLOCK FALSE
