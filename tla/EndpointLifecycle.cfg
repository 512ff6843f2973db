SPECIFICATION Spec
CONSTANTS
  Endpoints = {e1, e2}
  Users = {u1}
  Ids = {i1, i2}
  NoEndpoint = NoEndpoint
SYMMETRY Symmetry
INVARIANTS
  EndpointInv
  CloseFreesIdentity
  ExitFreesIdentity
  CloseEndsHolding
\* Every start of the bounded set may have been used.
CHECK_DEADLOCK FALSE
