SPECIFICATION FairSpec
CONSTANTS
  Callers = {c1}
  Ops = {o1, o2}
  Outcomes = {"ok", "panic"}
  NoCaller = NoCaller
  NoOp = NoOp
  NoResult = NoResult
INVARIANTS
  CancelExcludesReply
  ReplyIsTheFuturesOutcome
  ActiveOperationsExact
PROPERTIES
  ImplementsContract
  AbandonedRetires
  AwaitReturns
\* Every operation of the bounded set may have been used and retired.
CHECK_DEADLOCK FALSE
