------------------------ MODULE NativeOperationProofs ------------------------
(***************************************************************************)
(* Proofs, for any sets of callers, operations and outcomes, that the      *)
(* operation protocol is type correct, keeps its inductive invariant,      *)
(* loses no wake-up, and implements OperationContract.                     *)
(***************************************************************************)
EXTENDS NativeOperation, FiniteSetTheorems, TLAPS

\* The next-state relation, one disjunct per action.
LEMMA NextCases ==
  ASSUME [Next]_vars
  PROVE  \/ \E c \in Callers, o \in Ops : StartOperation(c, o)
         \/ \E o \in Ops, r \in Outcomes : FutureEnds(o, r)
         \/ \E o \in Ops :
              \/ SelectResult(o) \/ SelectCancelled(o) \/ AwaitAborted(o)
              \/ CompleteCas(o) \/ SendResult(o) \/ Demonitor(o) \/ Retire(o)
              \/ AbortTakesEffect(o) \/ DownCancel(o) \/ DownNotify(o)
         \/ \E c \in Callers :
              \/ Receive(c) \/ TimeoutFires(c) \/ TimeoutCancel(c)
              \/ TimeoutNotify(c) \/ CallerDies(c)
         \/ UNCHANGED vars
BY DEF Next, Watcher, Down, Await

\* Every step keeps the types of everything but the counter.
LEMMA NextShape == ShapeOK /\ IndInv /\ [Next]_vars => ShapeOK'
<1> SUFFICES ASSUME ShapeOK, IndInv, [Next]_vars PROVE ShapeOK'
  OBVIOUS
<1> USE DEF ShapeOK, callerVars, opVars, nativeVars, messageVars
<1>1. ASSUME NEW c \in Callers, NEW o \in Ops, StartOperation(c, o)
      PROVE  ShapeOK'
  BY <1>1 DEF StartOperation, WatcherStates
<1>2. ASSUME NEW o \in Ops, NEW r \in Outcomes, FutureEnds(o, r)
      PROVE  ShapeOK'
  BY <1>2 DEF FutureEnds
<1>3. ASSUME NEW o \in Ops, SelectResult(o) PROVE ShapeOK'
  BY <1>3 DEF SelectResult, WatcherStates
<1>4. ASSUME NEW o \in Ops, SelectCancelled(o) PROVE ShapeOK'
  BY <1>4 DEF SelectCancelled, WatcherStates
<1>5. ASSUME NEW o \in Ops, AwaitAborted(o) PROVE ShapeOK'
  BY <1>5 DEF AwaitAborted, WatcherStates
<1>6. ASSUME NEW o \in Ops, CompleteCas(o) PROVE ShapeOK'
  BY <1>6 DEF CompleteCas, WatcherStates
<1>7. ASSUME NEW o \in Ops, SendResult(o) PROVE ShapeOK'
  <2>1. picked[o] \in Outcomes
    BY <1>7 DEF SendResult, IndInv, OperationInv
  <2>2. Encoded(picked[o]) \in {"ok", "error", "internal"}
    BY <2>1, ConstantsAssumption DEF Encoded
  <2>3. CASE alive[caller[o]]
    <3>1. reply' = [reply EXCEPT ![o] = Encoded(picked[o])]
          /\ inbox' = [inbox EXCEPT ![o] = TRUE]
      BY <1>7, <2>3 DEF SendResult
    <3>2. reply' \in [Ops -> {"ok", "error", "internal", "cancelled", NoResult}]
      BY <2>2, <3>1
    <3> QED BY <1>7, <3>1, <3>2 DEF SendResult, WatcherStates
  <2>4. CASE ~alive[caller[o]]
    BY <1>7, <2>4 DEF SendResult, WatcherStates
  <2> QED BY <2>3, <2>4
<1>8. ASSUME NEW o \in Ops, Demonitor(o) PROVE ShapeOK'
  BY <1>8 DEF Demonitor, WatcherStates
<1>9. ASSUME NEW o \in Ops, Retire(o) PROVE ShapeOK'
  BY <1>9 DEF Retire, WatcherStates
<1>10. ASSUME NEW o \in Ops, AbortTakesEffect(o) PROVE ShapeOK'
  BY <1>10 DEF AbortTakesEffect
<1>11. ASSUME NEW o \in Ops, DownCancel(o) PROVE ShapeOK'
  BY <1>11 DEF DownCancel, CancelCas
<1>12. ASSUME NEW o \in Ops, DownNotify(o) PROVE ShapeOK'
  BY <1>12 DEF DownNotify, NotifyOne
<1>13. ASSUME NEW c \in Callers, Receive(c) PROVE ShapeOK'
  BY <1>13 DEF Receive, IndInv, CallerInv
<1>14. ASSUME NEW c \in Callers, TimeoutFires(c) PROVE ShapeOK'
  BY <1>14 DEF TimeoutFires
<1>15. ASSUME NEW c \in Callers, TimeoutCancel(c) PROVE ShapeOK'
  BY <1>15 DEF TimeoutCancel, CancelCas, IndInv, CallerInv
<1>16. ASSUME NEW c \in Callers, TimeoutNotify(c) PROVE ShapeOK'
  BY <1>16 DEF TimeoutNotify, NotifyOne, IndInv, CallerInv
<1>17. ASSUME NEW c \in Callers, CallerDies(c) PROVE ShapeOK'
  BY <1>17 DEF CallerDies
<1>18. CASE UNCHANGED vars
  BY <1>18 DEF vars
<1> QED
  BY NextCases, <1>1, <1>2, <1>3, <1>4, <1>5, <1>6, <1>7, <1>8, <1>9, <1>10,
     <1>11, <1>12, <1>13, <1>14, <1>15, <1>16, <1>17, <1>18

LEMMA InitInd == Init => ShapeOK /\ IndInv
<1> SUFFICES ASSUME Init PROVE ShapeOK /\ IndInv
  OBVIOUS
<1>1. ShapeOK
  BY DEF Init, ShapeOK, WatcherStates
<1>2. OperationInv
  BY ConstantsAssumption DEF Init, OperationInv
<1>3. CallerInv
  BY DEF Init, CallerInv
<1> QED BY <1>1, <1>2, <1>3 DEF IndInv

\* Every step keeps the part of the invariant about operations.
LEMMA NextOperation == ShapeOK /\ IndInv /\ [Next]_vars => OperationInv'
<1> SUFFICES ASSUME ShapeOK, IndInv, [Next]_vars PROVE OperationInv'
  OBVIOUS
<1> USE DEF callerVars, opVars, nativeVars, messageVars
<1>0. OperationInv /\ CallerInv
  BY DEF IndInv
<1>1. ASSUME NEW c \in Callers, NEW o \in Ops, StartOperation(c, o)
      PROVE  OperationInv'
  BY <1>0, <1>1 DEF StartOperation, OperationInv, ShapeOK, WatcherStates
<1>2. ASSUME NEW o \in Ops, NEW r \in Outcomes, FutureEnds(o, r)
      PROVE  OperationInv'
  <2>1. task[o] \notin Outcomes
    BY <1>2, ConstantsAssumption DEF FutureEnds
  <2> QED BY <1>0, <1>2, <2>1 DEF FutureEnds, OperationInv, ShapeOK
<1>3. ASSUME NEW o \in Ops, SelectResult(o) PROVE OperationInv'
  BY <1>0, <1>3 DEF SelectResult, OperationInv, ShapeOK, WatcherStates
<1>4. ASSUME NEW o \in Ops, SelectCancelled(o) PROVE OperationInv'
  BY <1>0, <1>4 DEF SelectCancelled, OperationInv, ShapeOK, WatcherStates
<1>5. ASSUME NEW o \in Ops, AwaitAborted(o) PROVE OperationInv'
  BY <1>0, <1>5 DEF AwaitAborted, OperationInv, ShapeOK, WatcherStates
<1>6. ASSUME NEW o \in Ops, CompleteCas(o) PROVE OperationInv'
  BY <1>0, <1>6 DEF CompleteCas, OperationInv, ShapeOK, WatcherStates
<1>7. ASSUME NEW o \in Ops, SendResult(o) PROVE OperationInv'
  <2>1. /\ picked[o] = task[o] /\ picked[o] \in Outcomes
        /\ state[o] = "COMPLETED"
    BY <1>0, <1>7 DEF SendResult, OperationInv
  <2>2. Encoded(picked[o]) # NoResult
    BY <2>1, ConstantsAssumption DEF Encoded
  <2>3. CASE alive[caller[o]]
    BY <1>0, <1>7, <2>1, <2>2, <2>3
       DEF SendResult, OperationInv, ShapeOK, WatcherStates
  <2>4. CASE ~alive[caller[o]]
    BY <1>0, <1>7, <2>1, <2>4
       DEF SendResult, OperationInv, ShapeOK, WatcherStates
  <2> QED BY <2>3, <2>4
<1>8. ASSUME NEW o \in Ops, Demonitor(o) PROVE OperationInv'
  BY <1>0, <1>8 DEF Demonitor, OperationInv, ShapeOK, WatcherStates
<1>9. ASSUME NEW o \in Ops, Retire(o) PROVE OperationInv'
  BY <1>0, <1>9 DEF Retire, OperationInv, ShapeOK, WatcherStates
<1>10. ASSUME NEW o \in Ops, AbortTakesEffect(o) PROVE OperationInv'
  <2>1. task[o] \notin Outcomes
    BY <1>10, ConstantsAssumption DEF AbortTakesEffect
  <2> QED BY <1>0, <1>10, <2>1 DEF AbortTakesEffect, OperationInv, ShapeOK
<1>11. ASSUME NEW o \in Ops, DownCancel(o) PROVE OperationInv'
  BY <1>0, <1>11
     DEF DownCancel, CancelCas, CancelWins, OperationInv, ShapeOK
<1>12. ASSUME NEW o \in Ops, DownNotify(o) PROVE OperationInv'
  BY <1>0, <1>12 DEF DownNotify, NotifyOne, OperationInv, ShapeOK
<1>13. ASSUME NEW c \in Callers, Receive(c) PROVE OperationInv'
  BY <1>0, <1>13 DEF Receive, OperationInv, CallerInv, ShapeOK
<1>14. ASSUME NEW c \in Callers, TimeoutFires(c) PROVE OperationInv'
  BY <1>0, <1>14 DEF TimeoutFires, OperationInv
<1>15. ASSUME NEW c \in Callers, TimeoutCancel(c) PROVE OperationInv'
  BY <1>0, <1>15
     DEF TimeoutCancel, CancelCas, CancelWins, OperationInv, CallerInv, ShapeOK
<1>16. ASSUME NEW c \in Callers, TimeoutNotify(c) PROVE OperationInv'
  BY <1>0, <1>16
     DEF TimeoutNotify, NotifyOne, OperationInv, CallerInv, ShapeOK
<1>17. ASSUME NEW c \in Callers, CallerDies(c) PROVE OperationInv'
  BY <1>0, <1>17 DEF CallerDies, OperationInv, ShapeOK
<1>18. CASE UNCHANGED vars
  BY <1>0, <1>18 DEF vars, OperationInv
<1> QED
  BY NextCases, <1>1, <1>2, <1>3, <1>4, <1>5, <1>6, <1>7, <1>8, <1>9, <1>10,
     <1>11, <1>12, <1>13, <1>14, <1>15, <1>16, <1>17, <1>18

\* Every step keeps the part of the invariant about callers.
LEMMA NextCaller == ShapeOK /\ IndInv /\ [Next]_vars => CallerInv'
<1> SUFFICES ASSUME ShapeOK, IndInv, [Next]_vars PROVE CallerInv'
  OBVIOUS
<1> USE DEF callerVars, opVars, nativeVars, messageVars
<1>0. OperationInv /\ CallerInv
  BY DEF IndInv
<1>1. ASSUME NEW c \in Callers, NEW o \in Ops, StartOperation(c, o)
      PROVE  CallerInv'
  BY <1>0, <1>1 DEF StartOperation, OperationInv, CallerInv, ShapeOK
<1>2. ASSUME NEW o \in Ops, CompleteCas(o) PROVE CallerInv'
  BY <1>0, <1>2 DEF CompleteCas, OperationInv, CallerInv, ShapeOK
<1>3. ASSUME NEW o \in Ops, DownCancel(o) PROVE CallerInv'
  BY <1>0, <1>3 DEF DownCancel, CancelCas, CancelWins, CallerInv, ShapeOK
<1>4. ASSUME NEW o \in Ops,
             \/ \E r \in Outcomes : FutureEnds(o, r)
             \/ SelectResult(o) \/ SelectCancelled(o)
             \/ AwaitAborted(o) \/ SendResult(o) \/ Demonitor(o) \/ Retire(o)
             \/ AbortTakesEffect(o) \/ DownNotify(o)
      PROVE  CallerInv'
  <2>1. UNCHANGED <<cpc, awaiting, state, caller, returned>>
    BY <1>4 DEF FutureEnds, SelectResult, SelectCancelled, AwaitAborted,
                SendResult, Demonitor, Retire, AbortTakesEffect, DownNotify
  <2> QED BY <1>0, <2>1 DEF CallerInv
<1>5. ASSUME NEW c \in Callers, Receive(c) PROVE CallerInv'
  BY <1>0, <1>5 DEF Receive, CallerInv, ShapeOK
<1>6. ASSUME NEW c \in Callers, TimeoutFires(c) PROVE CallerInv'
  BY <1>0, <1>6 DEF TimeoutFires, CallerInv, ShapeOK
<1>7. ASSUME NEW c \in Callers, TimeoutCancel(c) PROVE CallerInv'
  BY <1>0, <1>7 DEF TimeoutCancel, CancelCas, CancelWins, CallerInv, ShapeOK
<1>8. ASSUME NEW c \in Callers, TimeoutNotify(c) PROVE CallerInv'
  BY <1>0, <1>8 DEF TimeoutNotify, CallerInv, ShapeOK
<1>9. ASSUME NEW c \in Callers, CallerDies(c) PROVE CallerInv'
  BY <1>0, <1>9 DEF CallerDies, CallerInv
<1>10. CASE UNCHANGED vars
  BY <1>0, <1>10 DEF vars, CallerInv
<1> QED
  BY NextCases, <1>1, <1>2, <1>3, <1>4, <1>5, <1>6, <1>7, <1>8, <1>9, <1>10

LiveOps == {o \in Ops : Live(o)}

\* The count follows the set of live operations: it is unchanged when no
\* watcher starts or retires, and moves by one when exactly one does.
LEMMA CountSteps ==
  ASSUME NEW S \in SUBSET Ops, NEW T \in SUBSET Ops, NEW o \in Ops
  PROVE  /\ Cardinality(S) \in Nat
         /\ o \notin S /\ T = S \cup {o} => Cardinality(T) = Cardinality(S) + 1
         /\ o \in S /\ T = S \ {o} => Cardinality(T) = Cardinality(S) - 1
<1>1. IsFiniteSet(S) /\ IsFiniteSet(T)
  BY FS_Subset, ConstantsAssumption
<1>2. Cardinality(S) \in Nat
  BY <1>1, FS_CardinalityType
<1>3. o \notin S /\ T = S \cup {o} => Cardinality(T) = Cardinality(S) + 1
  BY <1>1, FS_AddElement
<1>4. o \in S /\ T = S \ {o} => Cardinality(T) = Cardinality(S) - 1
  BY <1>1, FS_RemoveElement
<1> QED BY <1>2, <1>3, <1>4

LEMMA InitCount == Init => ActiveOperationsExact
<1> SUFFICES ASSUME Init PROVE ActiveOperationsExact
  OBVIOUS
<1>1. {o \in Ops : Live(o)} = {}
  BY DEF Init, Live
<1> QED BY <1>1, FS_EmptySet DEF Init, ActiveOperationsExact

\* Every step keeps ACTIVE_OPERATIONS equal to the number of live operations.
LEMMA NextCount ==
  ShapeOK /\ IndInv /\ ActiveOperationsExact /\ [Next]_vars
    => ActiveOperationsExact'
<1> SUFFICES ASSUME ShapeOK, IndInv, ActiveOperationsExact, [Next]_vars
             PROVE  ActiveOperationsExact'
  OBVIOUS
<1> USE DEF callerVars, opVars, nativeVars, messageVars
<1>0. active = Cardinality(LiveOps)
  BY DEF ActiveOperationsExact, LiveOps
<1>a. active' = Cardinality(LiveOps') => ActiveOperationsExact'
  BY DEF ActiveOperationsExact, LiveOps
<1>1. ASSUME NEW c \in Callers, NEW o \in Ops, StartOperation(c, o)
      PROVE  ActiveOperationsExact'
  <2>1. watcher[o] = "none"
    BY <1>1 DEF StartOperation, IndInv, OperationInv
  <2>2. LiveOps' = LiveOps \cup {o} /\ o \notin LiveOps
    BY <1>1, <2>1 DEF StartOperation, LiveOps, Live, ShapeOK, WatcherStates
  <2>3. Cardinality(LiveOps') = Cardinality(LiveOps) + 1
    BY <2>2, CountSteps DEF LiveOps
  <2> QED BY <2>3, <1>0, <1>a, <1>1 DEF StartOperation
<1>2. ASSUME NEW o \in Ops, Retire(o) PROVE ActiveOperationsExact'
  <2>1. LiveOps' = LiveOps \ {o} /\ o \in LiveOps
    BY <1>2 DEF Retire, LiveOps, Live, ShapeOK, WatcherStates
  <2>2. Cardinality(LiveOps') = Cardinality(LiveOps) - 1
    BY <2>1, CountSteps DEF LiveOps
  <2> QED BY <2>2, <1>0, <1>a, <1>2 DEF Retire
<1>3. ASSUME NEW o \in Ops,
             \/ SelectResult(o) \/ SelectCancelled(o) \/ AwaitAborted(o)
             \/ CompleteCas(o) \/ SendResult(o) \/ Demonitor(o)
      PROVE  ActiveOperationsExact'
  <2>1. /\ active' = active
        /\ watcher[o] \notin {"none", "done"}
        /\ \E w \in WatcherStates \ {"none", "done"} :
             watcher' = [watcher EXCEPT ![o] = w]
    BY <1>3 DEF SelectResult, SelectCancelled, AwaitAborted, CompleteCas,
                SendResult, Demonitor, WatcherStates
  <2>2. LiveOps' = LiveOps
    BY <2>1 DEF LiveOps, Live, ShapeOK
  <2> QED BY <2>1, <2>2, <1>0, <1>a
<1>4. ASSUME UNCHANGED <<active, watcher>> PROVE ActiveOperationsExact'
  BY <1>4, <1>0, <1>a DEF LiveOps, Live
<1>5. ASSUME NEW o \in Ops,
             \/ \E r \in Outcomes : FutureEnds(o, r)
             \/ AbortTakesEffect(o) \/ DownCancel(o) \/ DownNotify(o)
      PROVE  UNCHANGED <<active, watcher>>
  BY <1>5 DEF FutureEnds, AbortTakesEffect, DownCancel, DownNotify
<1>6. ASSUME NEW c \in Callers,
             \/ Receive(c) \/ TimeoutFires(c) \/ TimeoutCancel(c)
             \/ TimeoutNotify(c) \/ CallerDies(c)
      PROVE  UNCHANGED <<active, watcher>>
  BY <1>6 DEF Receive, TimeoutFires, TimeoutCancel, TimeoutNotify, CallerDies
<1>7. CASE UNCHANGED vars
  BY <1>7, <1>4 DEF vars
<1> QED
  BY NextCases, <1>1, <1>2, <1>3, <1>4, <1>5, <1>6, <1>7

\* The inductive invariant holds in every behaviour: a wake-up exists only
\* after cancel() has decided the operation, a message only after the
\* watcher's compare-and-exchange has.
THEOREM InductiveInvariant == Spec => []IndInv
<1>1. ShapeOK /\ IndInv /\ [Next]_vars => (ShapeOK /\ IndInv)'
  BY NextShape, NextOperation, NextCaller DEF IndInv
<1>2. Spec => [](ShapeOK /\ IndInv)
  BY InitInd, <1>1, PTL DEF Spec
<1> QED BY <1>2, PTL

\* Every variable has its type in every behaviour; in particular
\* ACTIVE_OPERATIONS never wraps below zero.
THEOREM TypeCorrect == Spec => []TypeOK
<1>1. ShapeOK /\ IndInv /\ ActiveOperationsExact /\ [Next]_vars
        => (ShapeOK /\ IndInv /\ ActiveOperationsExact)'
  BY NextShape, NextOperation, NextCaller, NextCount DEF IndInv
<1>2. Init => ShapeOK /\ IndInv /\ ActiveOperationsExact
  BY InitInd, InitCount
<1>3. ShapeOK /\ ActiveOperationsExact => TypeOK
  <2>1. IsFiniteSet({o \in Ops : Live(o)})
    BY ConstantsAssumption, FS_Subset
  <2> QED BY <2>1, FS_CardinalityType DEF TypeOK, ActiveOperationsExact
<1> QED BY <1>1, <1>2, <1>3, PTL DEF Spec

\* ACTIVE_OPERATIONS counts exactly the operations that have not retired, for
\* any number of callers and operations.
THEOREM ActiveOperationsCounted == Spec => []ActiveOperationsExact
<1>1. ShapeOK /\ IndInv /\ ActiveOperationsExact /\ [Next]_vars
        => (ShapeOK /\ IndInv /\ ActiveOperationsExact)'
  BY NextShape, NextOperation, NextCaller, NextCount DEF IndInv
<1>2. Init => ShapeOK /\ IndInv /\ ActiveOperationsExact
  BY InitInd, InitCount
<1> QED BY <1>1, <1>2, PTL DEF Spec

\* Once cancel() has won, no result of the operation is ever sent.
THEOREM CancellationIsFinal == Spec => []CancelExcludesReply
<1>1. IndInv => CancelExcludesReply
  BY DEF IndInv, OperationInv, CancelExcludesReply
<1> QED BY <1>1, InductiveInvariant, PTL

\* A caller only ever receives what its own future produced; the watcher's
\* `cancelled` arm is dead code.
THEOREM RepliesAreOutcomes == Spec => []ReplyIsTheFuturesOutcome
<1>1. IndInv => ReplyIsTheFuturesOutcome
  BY DEF IndInv, OperationInv, ReplyIsTheFuturesOutcome
<1> QED BY <1>1, InductiveInvariant, PTL

\* Every step of the protocol is a step of the contract or leaves it unchanged.
LEMMA NextContract ==
  ShapeOK /\ IndInv /\ [Next]_vars => [Contract!Next]_(Contract!vars)
<1> SUFFICES ASSUME ShapeOK, IndInv, [Next]_vars,
                    ~(UNCHANGED <<state, reply, returned>>)
             PROVE  Contract!Next
  BY DEF Contract!vars
<1> USE DEF callerVars, opVars, nativeVars, messageVars
<1>0. OperationInv /\ CallerInv
  BY DEF IndInv
<1>1. ASSUME NEW c \in Callers, NEW o \in Ops, StartOperation(c, o)
      PROVE  Contract!Next
  BY <1>1 DEF StartOperation, Contract!Next, Contract!Start
<1>2. ASSUME NEW o \in Ops, CompleteCas(o) PROVE Contract!Next
  BY <1>2 DEF CompleteCas, Contract!Next, Contract!Decide
<1>3. ASSUME NEW o \in Ops, SendResult(o) PROVE Contract!Next
  <2>1. /\ picked[o] \in Outcomes
        /\ state[o] = "COMPLETED" /\ reply[o] = NoResult
    BY <1>0, <1>3 DEF SendResult, OperationInv
  <2>2. Encoded(picked[o]) \in Contract!Replies
    BY <2>1, ConstantsAssumption DEF Encoded, Contract!Replies
  <2>3. CASE alive[caller[o]]
    <3>1. Contract!Reply(o, Encoded(picked[o]))
      BY <1>3, <2>1, <2>3 DEF SendResult, Contract!Reply
    <3> QED BY <2>2, <3>1 DEF Contract!Next
  <2>4. CASE ~alive[caller[o]]
    BY <1>3, <2>4 DEF SendResult
  <2> QED BY <2>3, <2>4
<1>4. ASSUME NEW o \in Ops, DownCancel(o) PROVE Contract!Next
  BY <1>4 DEF DownCancel, CancelCas, CancelWins, Contract!Next, Contract!Decide
<1>5. ASSUME NEW c \in Callers, Receive(c) PROVE Contract!Next
  <2>1. /\ awaiting[c] \in Ops /\ returned[awaiting[c]] = NoResult
        /\ reply[awaiting[c]] # NoResult
    BY <1>0, <1>5 DEF Receive, CallerInv, OperationInv
  <2>2. reply[awaiting[c]] \in Contract!Replies
    BY <2>1, <1>0, ConstantsAssumption
       DEF OperationInv, Encoded, Contract!Replies
  <2>3. Contract!Return(awaiting[c], reply[awaiting[c]])
    BY <1>5, <2>1 DEF Receive, Contract!Return
  <2> QED BY <2>1, <2>2, <2>3 DEF Contract!Next
<1>6. ASSUME NEW c \in Callers, TimeoutCancel(c) PROVE Contract!Next
  <2>1. /\ awaiting[c] \in Ops /\ returned[awaiting[c]] = NoResult
        /\ state[awaiting[c]] # "NONE"
    BY <1>0, <1>6 DEF TimeoutCancel, CallerInv
  <2>2. CASE CancelWins(awaiting[c])
    <3>1. Contract!Decide(awaiting[c], "CANCELLED")
      BY <1>6, <2>1, <2>2
         DEF TimeoutCancel, CancelCas, CancelWins, Contract!Decide
    <3> QED BY <2>1, <3>1 DEF Contract!Next
  <2>3. CASE ~CancelWins(awaiting[c])
    <3>1. Contract!Return(awaiting[c], "timeout")
      BY <1>6, <2>1, <2>3
         DEF TimeoutCancel, CancelCas, CancelWins, Contract!Return, ShapeOK
    <3> QED BY <2>1, <3>1 DEF Contract!Next
  <2> QED BY <2>2, <2>3
<1>7. ASSUME NEW c \in Callers, TimeoutNotify(c) PROVE Contract!Next
  <2>1. /\ awaiting[c] \in Ops /\ returned[awaiting[c]] = NoResult
        /\ state[awaiting[c]] = "CANCELLED"
    BY <1>0, <1>7 DEF TimeoutNotify, CallerInv
  <2>2. Contract!Return(awaiting[c], "timeout")
    BY <1>7, <2>1 DEF TimeoutNotify, Contract!Return
  <2> QED BY <2>1, <2>2 DEF Contract!Next
<1>8. ASSUME NEW o \in Ops,
             \/ \E r \in Outcomes : FutureEnds(o, r)
             \/ SelectResult(o) \/ SelectCancelled(o) \/ AwaitAborted(o)
             \/ Demonitor(o) \/ Retire(o) \/ AbortTakesEffect(o)
             \/ DownNotify(o)
      PROVE  UNCHANGED <<state, reply, returned>>
  BY <1>8 DEF FutureEnds, SelectResult, SelectCancelled, AwaitAborted,
              Demonitor, Retire, AbortTakesEffect, DownNotify
<1>9. ASSUME NEW c \in Callers, TimeoutFires(c) \/ CallerDies(c)
      PROVE  UNCHANGED <<state, reply, returned>>
  BY <1>9 DEF TimeoutFires, CallerDies
<1>10. CASE UNCHANGED vars
  BY <1>10 DEF vars
<1> QED
  BY NextCases, <1>1, <1>2, <1>3, <1>4, <1>5, <1>6, <1>7, <1>8, <1>9, <1>10

\* The protocol of start_endpoint_operation, cancel and await_operation
\* implements the contract its callers rely on, for any callers and operations.
THEOREM ContractImplemented == Spec => ImplementsContract
<1>1. Init => Contract!Init
  BY DEF Init, Contract!Init
<1>2. ShapeOK /\ IndInv /\ [Next]_vars => (ShapeOK /\ IndInv)'
  BY NextShape, NextOperation, NextCaller DEF IndInv
<1> QED
  BY InitInd, <1>1, <1>2, NextContract, PTL
     DEF Spec, ImplementsContract, Contract!Spec

\* Every step keeps the wake-up of a cancelled operation due until its watcher takes
\* it, and the monitor of a running one in place.
LEMMA NextWakeup == ShapeOK /\ IndInv /\ WakeupInv /\ [Next]_vars => WakeupInv'
<1> SUFFICES ASSUME ShapeOK, IndInv, WakeupInv, [Next]_vars PROVE WakeupInv'
  OBVIOUS
<1> USE DEF callerVars, opVars, nativeVars, messageVars
<1>0. OperationInv /\ CallerInv
  BY DEF IndInv
<1>1. ASSUME NEW c \in Callers, NEW o \in Ops, StartOperation(c, o)
      PROVE  WakeupInv'
  <2>1. /\ alive[c] /\ cpc[c] = "idle" /\ state'[o] = "RUNNING" /\ down'[o] = "set"
        /\ caller'[o] = c /\ UNCHANGED <<alive, permit>>
        /\ \A p \in Ops \ {o} : /\ state'[p] = state[p] /\ down'[p] = down[p]
                                /\ watcher'[p] = watcher[p] /\ caller'[p] = caller[p]
        /\ \A d \in Callers \ {c} : cpc'[d] = cpc[d] /\ awaiting'[d] = awaiting[d]
    BY <1>1 DEF StartOperation, ShapeOK
  <2>2. \A p \in Ops \ {o} : WakeupDue(p) => WakeupDue(p)'
    BY <2>1 DEF WakeupDue
  <2> QED BY <2>1, <2>2 DEF WakeupInv
<1>2. ASSUME NEW o \in Ops,
             \/ \E r \in Outcomes : FutureEnds(o, r)
             \/ SelectResult(o) \/ SelectCancelled(o) \/ AwaitAborted(o)
             \/ CompleteCas(o) \/ SendResult(o) \/ Retire(o) \/ AbortTakesEffect(o)
      PROVE  WakeupInv'
  <2>1. /\ UNCHANGED <<alive, cpc, awaiting, caller, down>>
        /\ \A p \in Ops \ {o} : /\ state'[p] = state[p] /\ watcher'[p] = watcher[p]
                                /\ permit'[p] = permit[p]
        /\ state'[o] = state[o] \/ state'[o] = "COMPLETED"
        /\ watcher'[o] # "select" \/ (watcher'[o] = watcher[o] /\ permit'[o] = permit[o])
    <3>1. CASE \E r \in Outcomes : FutureEnds(o, r)
      BY <3>1 DEF FutureEnds
    <3>2. CASE SelectResult(o) \/ AwaitAborted(o) \/ SendResult(o) \/ Retire(o)
      BY <3>2 DEF SelectResult, AwaitAborted, SendResult, Retire, ShapeOK
    <3>3. CASE SelectCancelled(o)
      BY <3>3 DEF SelectCancelled, ShapeOK
    <3>4. CASE CompleteCas(o)
      BY <3>4 DEF CompleteCas, ShapeOK
    <3>5. CASE AbortTakesEffect(o)
      BY <3>5 DEF AbortTakesEffect
    <3> QED BY <1>2, <3>1, <3>2, <3>3, <3>4, <3>5
  <2>2. \A p \in Ops : permit'[p] = permit[p] => (WakeupDue(p)' <=> WakeupDue(p))
    BY <2>1 DEF WakeupDue
  <2> QED BY <2>1, <2>2 DEF WakeupInv
<1>3. ASSUME NEW o \in Ops, Demonitor(o) PROVE WakeupInv'
  <2>1. /\ UNCHANGED <<alive, cpc, awaiting, caller, state, permit>>
        /\ watcher[o] = "demonitor" /\ watcher'[o] = "retire"
        /\ \A p \in Ops \ {o} : watcher'[p] = watcher[p] /\ down'[p] = down[p]
    BY <1>3 DEF Demonitor, ShapeOK
  <2>2. state[o] # "RUNNING"
    BY <1>0, <2>1 DEF OperationInv
  <2>3. \A p \in Ops \ {o} : WakeupDue(p)' <=> WakeupDue(p)
    BY <2>1 DEF WakeupDue
  <2> QED BY <2>1, <2>2, <2>3 DEF WakeupInv
<1>4. ASSUME NEW o \in Ops, DownCancel(o) PROVE WakeupInv'
  <2>1. /\ UNCHANGED <<alive, cpc, awaiting, caller, permit, watcher>>
        /\ down[o] = "fired"
        /\ \A p \in Ops \ {o} : state'[p] = state[p] /\ down'[p] = down[p]
        /\ \/ state[o] = "RUNNING" /\ state'[o] = "CANCELLED" /\ down'[o] = "notifying"
           \/ state[o] # "RUNNING" /\ state'[o] = state[o]
    BY <1>4 DEF DownCancel, CancelCas, CancelWins, ShapeOK
  <2>2. \A p \in Ops : WakeupDue(p) => WakeupDue(p)'
    BY <2>1 DEF WakeupDue
  <2>3. down'[o] = "notifying" => WakeupDue(o)'
    BY DEF WakeupDue
  <2> QED BY <2>1, <2>2, <2>3 DEF WakeupInv
<1>5. ASSUME NEW o \in Ops, DownNotify(o) PROVE WakeupInv'
  <2>1. /\ UNCHANGED <<alive, cpc, awaiting, caller, state, watcher>>
        /\ permit'[o] /\ down[o] = "notifying"
        /\ \A p \in Ops \ {o} : permit'[p] = permit[p] /\ down'[p] = down[p]
    BY <1>5 DEF DownNotify, NotifyOne, ShapeOK
  <2>2. \A p \in Ops : WakeupDue(p) => WakeupDue(p)'
    BY <2>1 DEF WakeupDue
  <2>3. state[o] = "CANCELLED"
    BY <1>0, <2>1 DEF OperationInv
  <2> QED BY <2>1, <2>2, <2>3 DEF WakeupInv
<1>6. ASSUME NEW c \in Callers, Receive(c) \/ TimeoutFires(c) PROVE WakeupInv'
  <2>1. /\ UNCHANGED <<alive, awaiting, caller, state, permit, down, watcher>>
        /\ cpc[c] = "awaiting"
        /\ \A d \in Callers \ {c} : cpc'[d] = cpc[d]
    BY <1>6 DEF Receive, TimeoutFires, ShapeOK
  <2>2. \A p \in Ops : WakeupDue(p) => WakeupDue(p)'
    BY <2>1 DEF WakeupDue
  <2> QED BY <2>1, <2>2 DEF WakeupInv
<1>7. ASSUME NEW c \in Callers, TimeoutCancel(c) PROVE WakeupInv'
  <2>1. PICK o \in Ops : o = awaiting[c]
    BY <1>0, <1>7 DEF TimeoutCancel, CallerInv
  <2>2. /\ UNCHANGED <<alive, awaiting, caller, permit, down, watcher>>
        /\ alive[c] /\ cpc[c] = "cancelling"
        /\ \A d \in Callers \ {c} : cpc'[d] = cpc[d]
        /\ \A p \in Ops \ {o} : state'[p] = state[p]
        /\ \/ state[o] = "RUNNING" /\ state'[o] = "CANCELLED" /\ cpc'[c] = "notifying"
           \/ state[o] # "RUNNING" /\ state'[o] = state[o]
    BY <1>7, <2>1 DEF TimeoutCancel, CancelCas, CancelWins, ShapeOK
  <2>3. \A p \in Ops : WakeupDue(p) => WakeupDue(p)'
    BY <2>2 DEF WakeupDue
  <2>4. cpc'[c] = "notifying" => WakeupDue(o)'
    BY <2>1, <2>2 DEF WakeupDue
  <2> QED BY <2>2, <2>3, <2>4 DEF WakeupInv
<1>8. ASSUME NEW c \in Callers, TimeoutNotify(c) PROVE WakeupInv'
  <2>1. PICK o \in Ops : o = awaiting[c]
    BY <1>0, <1>8 DEF TimeoutNotify, CallerInv
  <2>2. /\ UNCHANGED <<alive, awaiting, caller, state, down, watcher>>
        /\ permit'[o] /\ \A p \in Ops \ {o} : permit'[p] = permit[p]
        /\ \A d \in Callers \ {c} : cpc'[d] = cpc[d]
    BY <1>8, <2>1 DEF TimeoutNotify, NotifyOne, ShapeOK
  <2>3. \A p \in Ops : WakeupDue(p) => WakeupDue(p)'
    BY <2>1, <2>2 DEF WakeupDue
  <2> QED BY <2>2, <2>3 DEF WakeupInv
<1>9. ASSUME NEW c \in Callers, CallerDies(c) PROVE WakeupInv'
  <2>1. /\ UNCHANGED <<cpc, awaiting, caller, state, permit, watcher>>
        /\ cpc[c] # "notifying" /\ ~alive'[c]
        /\ \A d \in Callers \ {c} : alive'[d] = alive[d]
        /\ \A p \in Ops :
             down'[p] = IF caller[p] = c /\ down[p] = "set" THEN "fired" ELSE down[p]
    BY <1>9 DEF CallerDies, ShapeOK
  <2>2. \A p \in Ops : WakeupDue(p) => WakeupDue(p)'
    BY <2>1 DEF WakeupDue
  <2>3. \A p \in Ops : state[p] = "RUNNING" => caller[p] \in Callers
    BY <1>0 DEF OperationInv
  <2> QED BY <2>1, <2>2, <2>3 DEF WakeupInv
<1>10. CASE UNCHANGED vars
  BY <1>10 DEF vars, WakeupInv, WakeupDue
<1> QED
  BY NextCases, <1>1, <1>2, <1>3, <1>4, <1>5, <1>6, <1>7, <1>8, <1>9, <1>10

\* The safety half of the retirement of abandoned operations: a cancelled operation
\* whose watcher still waits has its wake-up stored or about to be, and a running
\* one whose caller is dead has a fired monitor that will cancel it.
THEOREM NoWakeupIsLost == Spec => []WakeupInv
<1>1. Init => WakeupInv
  BY DEF Init, WakeupInv
<1>2. ShapeOK /\ IndInv /\ WakeupInv /\ [Next]_vars => (ShapeOK /\ IndInv /\ WakeupInv)'
  BY NextShape, NextOperation, NextCaller, NextWakeup DEF IndInv
<1> QED BY InitInd, <1>1, <1>2, PTL DEF Spec
==============================================================================
