SPECIFICATION Spec
CONSTANTS
  Ops = {o1, o2}
  Controls = {k1}
  Codes = {zero, seven}
  Zero = zero
  NoCode = NoCode
INVARIANT
  ResetReachesPeer
CHECK_DEADLOCK FALSE
