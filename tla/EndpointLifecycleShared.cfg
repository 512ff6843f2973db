SPECIFICATION Spec
CONSTANTS
  Endpoints = {e1, e2}
  Users = {u1}
  Ids = {i1}
  NoEndpoint = NoEndpoint
INVARIANT
  IdentityHasOneLiveEndpoint
\* Every start of the bounded set may have been used.
CHECK_DEADLOCK FALSE
