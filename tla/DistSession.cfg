SPECIFICATION Spec
CONSTANTS
  Sessions = {s1, s2}
  Loops = {l1, l2}
  MaxFrames = 1
  NoSession = NoSession
  NoLoop = NoLoop
SYMMETRY Symmetry
INVARIANTS
  LinkInv
  NoOrphanSession
  InputEndEndsLink
  StaleLinkOnlyAfterCut
\* Every session of the bounded set is used once.
CHECK_DEADLOCK FALSE
