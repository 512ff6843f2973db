------------------------- MODULE StreamResourceProofs -------------------------
(***************************************************************************)
(* Proofs, for any operations, control calls and codes, of the safety      *)
(* properties of a stream's slots, leases and release.                     *)
(***************************************************************************)
EXTENDS StreamResource, TLAPS

\* The next-state relation, one disjunct per action.
LEMMA NextCases ==
  ASSUME [Next]_vars
  PROVE  \/ \E o \in Ops :
              \/ TakeCheck(o) \/ TakeBusy(o) \/ TakeSlot(o)
              \/ TakeUnavailable(o) \/ IoEnds(o) \/ Notified(o)
              \/ ApplyAbort(o) \/ DropBusy(o) \/ DropCheck(o) \/ DropRestore(o)
         \/ \E c \in Controls :
              \/ Call(c) \/ FinishBusy(c) \/ FinishClose(c) \/ Finish(c)
              \/ RequestStore(c) \/ RequestClose(c) \/ RequestNotify(c)
              \/ RequestTake(c) \/ CloseSwap(c) \/ CloseUncount(c)
         \/ UNCHANGED vars
BY DEF Next, OpStep, ControlStep

LEMMA NextType == TypeOK /\ StreamInv /\ [Next]_vars => TypeOK'
<1> SUFFICES ASSUME TypeOK, StreamInv, [Next]_vars PROVE TypeOK'
  OBVIOUS
<1> USE DEF TypeOK, OpAt, OpGoes, OpEnds, ControlAt, ControlGoes,
            halfVars, opVars, controlVars, Halves, OpPcs, ControlPcs, Results
<1>1. ASSUME NEW o \in Ops, TakeCheck(o) PROVE TypeOK'
  BY <1>1 DEF TakeCheck
<1>2. ASSUME NEW o \in Ops, TakeBusy(o) PROVE TypeOK'
  <2>1. CASE busy[half[o]]
    BY <1>2, <2>1 DEF TakeBusy
  <2>2. CASE ~busy[half[o]]
    <3>1. /\ busy' = [busy EXCEPT ![half[o]] = TRUE]
          /\ opc' = [opc EXCEPT ![o] = "slot"]
          /\ UNCHANGED <<slot, closed, code, permit, wire, released, active,
                         half, lease, result, controlVars>>
      BY <1>2, <2>2 DEF TakeBusy
    <3> QED BY <3>1
  <2> QED BY <2>1, <2>2
<1>3. ASSUME NEW o \in Ops, TakeSlot(o) PROVE TypeOK'
  BY <1>3 DEF TakeSlot
<1>4. ASSUME NEW o \in Ops, TakeUnavailable(o) PROVE TypeOK'
  BY <1>4 DEF TakeUnavailable
<1>5. ASSUME NEW o \in Ops, IoEnds(o) PROVE TypeOK'
  BY <1>5 DEF IoEnds
<1>6. ASSUME NEW o \in Ops, Notified(o) PROVE TypeOK'
  BY <1>6 DEF Notified
<1>7. ASSUME NEW o \in Ops, ApplyAbort(o) PROVE TypeOK'
  BY <1>7 DEF ApplyAbort
<1>8. ASSUME NEW o \in Ops, DropBusy(o) PROVE TypeOK'
  BY <1>8 DEF DropBusy
<1>9. ASSUME NEW o \in Ops, DropCheck(o) PROVE TypeOK'
  <2>1. CASE closed[half[o]]
    <3>1. /\ lease' = [lease EXCEPT ![o] = FALSE]
          /\ wire' = [wire EXCEPT ![half[o]] = Dropped(wire[half[o]])]
          /\ opc' = [opc EXCEPT ![o] = "done"]
          /\ UNCHANGED <<slot, busy, closed, code, permit, released, active,
                         half, result, controlVars>>
      BY <1>9, <2>1 DEF DropCheck
    <3>2. Dropped(wire[half[o]]) \in Fates \cup Codes
      BY DEF Dropped, Fates
    <3> QED BY <3>1, <3>2
  <2>2. CASE ~closed[half[o]]
    BY <1>9, <2>2 DEF DropCheck
  <2> QED BY <2>1, <2>2
<1>10. ASSUME NEW o \in Ops, DropRestore(o) PROVE TypeOK'
  BY <1>10 DEF DropRestore
<1>11. ASSUME NEW c \in Controls, Call(c) PROVE TypeOK'
  BY <1>11 DEF Call, FirstStep, Calls
<1>12. ASSUME NEW c \in Controls, FinishBusy(c) PROVE TypeOK'
  BY <1>12 DEF FinishBusy
<1>13. ASSUME NEW c \in Controls, FinishClose(c) PROVE TypeOK'
  BY <1>13 DEF FinishClose
<1>14. ASSUME NEW c \in Controls, Finish(c) PROVE TypeOK'
  BY <1>14 DEF Finish, Fates
<1>15. ASSUME NEW c \in Controls, RequestStore(c) PROVE TypeOK'
  BY <1>15 DEF RequestStore
<1>16. ASSUME NEW c \in Controls, RequestClose(c) PROVE TypeOK'
  BY <1>16 DEF RequestClose
<1>17. ASSUME NEW c \in Controls, RequestNotify(c) PROVE TypeOK'
  BY <1>17 DEF RequestNotify
<1>18. ASSUME NEW c \in Controls, RequestTake(c) PROVE TypeOK'
  BY <1>18 DEF RequestTake, AfterRequest
<1>19. ASSUME NEW c \in Controls, CloseSwap(c) PROVE TypeOK'
  <2>1. CASE released
    BY <1>19, <2>1 DEF CloseSwap
  <2>2. CASE ~released
    <3>1. /\ released' = TRUE
          /\ closing' = [closing EXCEPT ![c] = TRUE]
          /\ chalf' = [chalf EXCEPT ![c] = "send"]
          /\ ccode' = [ccode EXCEPT ![c] = Zero]
          /\ cpc' = [cpc EXCEPT ![c] = "store"]
          /\ UNCHANGED <<halfVars, active, opVars, call, answer>>
      BY <1>19, <2>2 DEF CloseSwap
    <3> QED BY <3>1, CodesAssumption
  <2> QED BY <2>1, <2>2
<1>20. ASSUME NEW c \in Controls, CloseUncount(c) PROVE TypeOK'
  <2>1. active = 1
    BY <1>20 DEF CloseUncount, StreamInv, ReleasedOnce, ClosingInv
  <2> QED BY <1>20, <2>1 DEF CloseUncount
<1>21. CASE UNCHANGED vars
  BY <1>21 DEF vars
<1> QED
  BY NextCases, <1>1, <1>2, <1>3, <1>4, <1>5, <1>6, <1>7, <1>8, <1>9, <1>10,
     <1>11, <1>12, <1>13, <1>14, <1>15, <1>16, <1>17, <1>18, <1>19, <1>20, <1>21

\* The part of the invariant about slots, leases and requests.
HandleInv == LeaseInv /\ RequestInv /\ BusyHasOneOwner /\ HandleIsLinear

\* busy keeps its owner when neither the flag nor the set of holders changes.
LEMMA BusyKept ==
  ASSUME BusyHasOneOwner, UNCHANGED busy,
         \A h \in Halves : Holders(h)' = Holders(h)
  PROVE  BusyHasOneOwner'
BY DEF BusyHasOneOwner

LEMMA NextHandleOp ==
  ASSUME TypeOK, HandleInv, NEW o \in Ops,
         \/ TakeCheck(o) \/ TakeBusy(o) \/ TakeSlot(o)
         \/ TakeUnavailable(o) \/ IoEnds(o) \/ Notified(o)
         \/ ApplyAbort(o) \/ DropBusy(o) \/ DropCheck(o) \/ DropRestore(o)
  PROVE  HandleInv'
<1> USE DEF HandleInv, LeaseInv, RequestInv, BusyHasOneOwner, HandleIsLinear,
            Holders, Holds, Leases, Ended, TypeOK, OpAt, OpGoes, OpEnds,
            halfVars, controlVars
<1>1. CASE TakeCheck(o)
  BY <1>1 DEF TakeCheck
<1>2. CASE TakeBusy(o)
  <2>1. CASE busy[half[o]]
    BY <1>2, <2>1 DEF TakeBusy
  <2>2. CASE ~busy[half[o]]
    <3>1. /\ busy' = [busy EXCEPT ![half[o]] = TRUE]
          /\ opc' = [opc EXCEPT ![o] = "slot"]
          /\ opc[o] = "cas"
          /\ UNCHANGED <<slot, closed, code, permit, wire, half, lease,
                         controlVars>>
      BY <1>2, <2>2 DEF TakeBusy
    <3>2. Holders(half[o]) = {}
      BY <2>2
    <3>3. LeaseInv' /\ RequestInv' /\ HandleIsLinear'
      BY <3>1
    <3>4. BusyHasOneOwner'
      BY <3>1, <3>2
    <3> QED BY <3>3, <3>4
  <2> QED BY <2>1, <2>2
<1>3. CASE TakeSlot(o)
  BY <1>3 DEF TakeSlot
<1>4. CASE TakeUnavailable(o)
  BY <1>4 DEF TakeUnavailable
<1>5. CASE IoEnds(o)
  BY <1>5 DEF IoEnds
<1>6. CASE Notified(o)
  BY <1>6 DEF Notified
<1>7. CASE ApplyAbort(o)
  BY <1>7 DEF ApplyAbort
<1>8. CASE DropBusy(o)
  BY <1>8 DEF DropBusy
<1>9. CASE DropCheck(o)
  <2>1. CASE closed[half[o]]
    <3>1. /\ lease' = [lease EXCEPT ![o] = FALSE]
          /\ wire' = [wire EXCEPT ![half[o]] = Dropped(wire[half[o]])]
          /\ opc' = [opc EXCEPT ![o] = "done"]
          /\ opc[o] = "dropping"
          /\ UNCHANGED <<slot, busy, closed, code, permit, half, controlVars>>
      BY <1>9, <2>1 DEF DropCheck
    <3>2. lease[o] /\ ~slot[half[o]] /\ Leases(half[o]) = {o}
      BY <3>1
    <3>3. Dropped(wire[half[o]]) # "open"
      BY DEF Dropped
    <3>4. LeaseInv'
      BY <3>1, <3>2
    <3>5. RequestInv'
      BY <3>1, <3>2
    <3>6. \A h \in Halves : Holders(h)' = Holders(h)
      BY <3>1
    <3>8. BusyHasOneOwner'
      BY <3>1, <3>6, BusyKept
    <3>9. \A h \in Halves : wire'[h] = "discarded" => closed'[h]
      BY <2>1, <3>1
    <3>7. HandleIsLinear'
      BY <3>1, <3>2, <3>3, <3>9
    <3> QED BY <3>4, <3>5, <3>7, <3>8
  <2>2. CASE ~closed[half[o]]
    <3>1. /\ opc' = [opc EXCEPT ![o] = "restore"]
          /\ opc[o] = "dropping"
          /\ UNCHANGED <<slot, busy, closed, code, permit, wire, half, lease,
                         controlVars>>
      BY <1>9, <2>2 DEF DropCheck
    <3>2. lease[o] /\ wire[half[o]] = "open"
      BY <2>2, <3>1
    <3>3. LeaseInv'
      BY <3>1, <3>2
    <3>4. RequestInv' /\ HandleIsLinear'
      BY <3>1
    <3>5. \A h \in Halves : Holders(h)' = Holders(h)
      BY <3>1
    <3>6. BusyHasOneOwner'
      BY <3>1, <3>5, BusyKept
    <3> QED BY <3>3, <3>4, <3>6
  <2> QED BY <2>1, <2>2
<1>10. CASE DropRestore(o)
  BY <1>10 DEF DropRestore
<1> QED BY <1>1, <1>2, <1>3, <1>4, <1>5, <1>6, <1>7, <1>8, <1>9, <1>10

LEMMA NextHandleControl ==
  ASSUME TypeOK, HandleInv, NEW c \in Controls,
         \/ Call(c) \/ FinishBusy(c) \/ FinishClose(c) \/ Finish(c)
         \/ RequestStore(c) \/ RequestClose(c) \/ RequestNotify(c)
         \/ RequestTake(c) \/ CloseSwap(c) \/ CloseUncount(c)
  PROVE  HandleInv'
<1> USE DEF HandleInv, LeaseInv, RequestInv, BusyHasOneOwner, HandleIsLinear,
            Holders, Holds, Leases, Ended, TypeOK, ControlAt, ControlGoes,
            halfVars, opVars
<1>1. CASE Call(c)
  BY <1>1 DEF Call, FirstStep, Calls
<1>2. CASE FinishBusy(c)
  BY <1>2 DEF FinishBusy
<1>3. CASE FinishClose(c)
  BY <1>3 DEF FinishClose
<1>4. CASE Finish(c)
  BY <1>4 DEF Finish
<1>5. CASE RequestStore(c)
  <2>1. ccode[c] # NoCode
    BY CodesAssumption
  <2> QED BY <1>5, <2>1 DEF RequestStore
<1>6. CASE RequestClose(c)
  BY <1>6 DEF RequestClose
<1>7. CASE RequestNotify(c)
  BY <1>7 DEF RequestNotify
<1>8. CASE RequestTake(c)
  <2> DEFINE h == chalf[c]
  <2>1. /\ slot' = [slot EXCEPT ![h] = FALSE]
        /\ wire' = IF slot[h] THEN [wire EXCEPT ![h] = ccode[c]] ELSE wire
        /\ cpc[c] = "take" /\ h \in Halves
        /\ cpc' = [cpc EXCEPT ![c] = AfterRequest(c)]
        /\ chalf' = [chalf EXCEPT ![c] = "recv"]
        /\ UNCHANGED <<busy, closed, code, permit, opVars>>
    BY <1>8 DEF RequestTake
  <2>2. AfterRequest(c) \notin {"close", "notify", "take"}
    BY DEF AfterRequest
  <2>3. \A d \in Controls : cpc'[d] \in {"close", "notify", "take"}
                             => cpc'[d] = cpc[d] /\ chalf'[d] = chalf[d]
    BY <2>1, <2>2
  <2>4. \A g \in Halves : slot'[g] => slot[g] /\ wire'[g] = wire[g]
    BY <2>1
  <2>5. RequestInv'
    BY <2>1, <2>3, <2>4
  <2>6. \A g \in Halves : Holders(g)' = Holders(g)
    BY <2>1
  <2>7. BusyHasOneOwner'
    BY <2>1, <2>6, BusyKept
  <2>8. \A o \in Ops : lease[o] => wire'[half[o]] = wire[half[o]]
    BY <2>1
  <2>9. LeaseInv'
    BY <2>1, <2>8
  <2>10. ccode[c] # "open"
    BY CodesAssumption DEF Fates
  <2>11. HandleIsLinear'
    BY <2>1, <2>10
  <2> QED BY <2>5, <2>7, <2>9, <2>11
<1>9. CASE CloseSwap(c)
  BY <1>9 DEF CloseSwap
<1>10. CASE CloseUncount(c)
  BY <1>10 DEF CloseUncount
<1> QED BY <1>1, <1>2, <1>3, <1>4, <1>5, <1>6, <1>7, <1>8, <1>9, <1>10

\* Every step keeps the part of the invariant about close() and the count.
LEMMA NextRelease == TypeOK /\ StreamInv /\ [Next]_vars => (ClosingInv /\ ReleasedOnce)'
<1> SUFFICES ASSUME TypeOK, ClosingInv, ReleasedOnce, [Next]_vars
             PROVE  (ClosingInv /\ ReleasedOnce)'
  BY DEF StreamInv
<1> USE DEF ControlAt, ControlGoes, controlVars, TypeOK, ClosingInv, ReleasedOnce
<1>1. ASSUME NEW o \in Ops,
             \/ TakeCheck(o) \/ TakeBusy(o) \/ TakeSlot(o)
             \/ TakeUnavailable(o) \/ IoEnds(o) \/ Notified(o)
             \/ ApplyAbort(o) \/ DropBusy(o) \/ DropCheck(o) \/ DropRestore(o)
      PROVE  (ClosingInv /\ ReleasedOnce)'
  <2>1. UNCHANGED <<released, active, controlVars>>
    BY <1>1 DEF TakeCheck, TakeBusy, TakeSlot, TakeUnavailable, IoEnds,
                Notified, ApplyAbort, DropBusy, DropCheck, DropRestore
  <2> QED BY <2>1
<1>2. ASSUME NEW c \in Controls, NEW pc \in ControlPcs,
             cpc' = [cpc EXCEPT ![c] = pc],
             UNCHANGED <<released, active, call, closing>>,
             closing[c] => /\ cpc[c] # "done"
                           /\ pc \in {"store", "close", "notify", "take",
                                     "uncount"},
             pc = "swap" => call[c] \in {"abort", "close"},
             pc = "uncount" => closing[c]
      PROVE  (ClosingInv /\ ReleasedOnce)'
  <2>1. ClosingInv'
    BY <1>2
  <2>2. \A d \in Controls : closing[d] => (cpc'[d] # "done" <=> cpc[d] # "done")
    BY <1>2
  <2>3. ReleasedOnce'
    BY <1>2, <2>2
  <2> QED BY <2>1, <2>3
<1>3. ASSUME NEW c \in Controls, Call(c) PROVE (ClosingInv /\ ReleasedOnce)'
  <2>1. FirstStep[call[c]] \in ControlPcs /\ FirstStep[call[c]] # "uncount"
        /\ (FirstStep[call[c]] = "swap" => call[c] = "close")
    BY DEF FirstStep, Calls, ControlPcs
  <2>2. cpc[c] = "idle" /\ ~closing[c]
    BY <1>3 DEF Call
  <2> QED BY <1>3, <2>1, <2>2, <1>2 DEF Call
<1>4. ASSUME NEW c \in Controls,
             \/ FinishBusy(c) \/ FinishClose(c) \/ Finish(c)
      PROVE (ClosingInv /\ ReleasedOnce)'
  <2>1. /\ ~closing[c]
        /\ \E pc \in ControlPcs \ {"swap", "uncount"} :
             cpc' = [cpc EXCEPT ![c] = pc]
        /\ UNCHANGED <<released, active, call, closing>>
    BY <1>4 DEF FinishBusy, FinishClose, Finish, ControlPcs
  <2> QED BY <2>1, <1>2
<1>5. ASSUME NEW c \in Controls,
             \/ RequestStore(c) \/ RequestClose(c) \/ RequestNotify(c)
      PROVE (ClosingInv /\ ReleasedOnce)'
  <2>1. /\ cpc[c] # "done"
        /\ \E pc \in {"close", "notify", "take"} :
             cpc' = [cpc EXCEPT ![c] = pc]
        /\ UNCHANGED <<released, active, call, closing>>
    BY <1>5 DEF RequestStore, RequestClose, RequestNotify
  <2>2. {"close", "notify", "take"} \subseteq ControlPcs
    BY DEF ControlPcs
  <2> QED BY <2>1, <2>2, <1>2
<1>6. ASSUME NEW c \in Controls, RequestTake(c)
      PROVE (ClosingInv /\ ReleasedOnce)'
  <2>1. /\ AfterRequest(c) \in ControlPcs
        /\ closing[c] => AfterRequest(c) \in {"store", "uncount"}
        /\ AfterRequest(c) = "swap" => call[c] \in {"abort", "close"}
        /\ AfterRequest(c) = "uncount" => closing[c]
    BY DEF AfterRequest, ControlPcs, Halves
  <2> QED BY <1>6, <2>1, <1>2 DEF RequestTake
<1>7. ASSUME NEW c \in Controls, CloseSwap(c)
      PROVE (ClosingInv /\ ReleasedOnce)'
  <2>1. cpc[c] = "swap" /\ ~closing[c] /\ call[c] \in {"abort", "close"}
    BY <1>7 DEF CloseSwap
  <2>2. CASE released
    <3>1. /\ cpc' = [cpc EXCEPT ![c] = "done"]
          /\ UNCHANGED <<released, active, call, closing>>
      BY <1>7, <2>2 DEF CloseSwap
    <3>2. "done" \in ControlPcs
      BY DEF ControlPcs
    <3> QED BY <2>1, <3>1, <3>2, <1>2
  <2>3. CASE ~released
    <3>1. /\ cpc' = [cpc EXCEPT ![c] = "store"]
          /\ closing' = [closing EXCEPT ![c] = TRUE]
          /\ released' = TRUE
          /\ UNCHANGED <<active, call>>
      BY <1>7, <2>3 DEF CloseSwap
    <3>2. active = 1 /\ \A d \in Controls : ~closing[d]
      BY <2>3
    <3>3. ClosingInv'
      BY <2>1, <3>1, <3>2
    <3>4. closing'[c] /\ cpc'[c] # "done"
      BY <3>1
    <3>5. \A d \in Controls : closing'[d] => d = c
      BY <3>1, <3>2
    <3> QED BY <3>1, <3>2, <3>3, <3>4, <3>5
  <2> QED BY <2>2, <2>3
<1>8. ASSUME NEW c \in Controls, CloseUncount(c)
      PROVE (ClosingInv /\ ReleasedOnce)'
  <2>1. closing[c] /\ cpc[c] = "uncount" /\ released /\ active = 1
    BY <1>8 DEF CloseUncount
  <2>2. /\ cpc' = [cpc EXCEPT ![c] = "done"]
        /\ active' = active - 1
        /\ UNCHANGED <<released, call, closing>>
    BY <1>8 DEF CloseUncount
  <2>3. \A d \in Controls : closing'[d] => d = c /\ cpc'[d] = "done"
    BY <2>1, <2>2
  <2>4. ClosingInv'
    BY <2>1, <2>2
  <2>5. active' = 0 /\ released'
    BY <2>1, <2>2
  <2>6. ReleasedOnce'
    BY <2>2, <2>3, <2>5, <2>1
  <2> QED BY <2>4, <2>6
<1>9. CASE UNCHANGED vars
  BY <1>9 DEF vars
<1> QED
  BY NextCases, <1>1, <1>3, <1>4, <1>5, <1>6, <1>7, <1>8, <1>9

LEMMA InitStream == Init => TypeOK /\ StreamInv
<1> SUFFICES ASSUME Init PROVE TypeOK /\ StreamInv
  OBVIOUS
<1>1. TypeOK
  BY CodesAssumption
     DEF Init, TypeOK, Fates, Calls, OpPcs, ControlPcs, Results, Halves
<1>2. LeaseInv
  BY DEF Init, LeaseInv
<1>3. RequestInv
  BY DEF Init, RequestInv
<1>4. BusyHasOneOwner
  BY DEF Init, BusyHasOneOwner, Holders, Holds
<1>5. HandleIsLinear
  BY DEF Init, HandleIsLinear, Leases
<1>6. ClosingInv /\ ReleasedOnce
  BY DEF Init, ClosingInv, ReleasedOnce
<1> QED BY <1>1, <1>2, <1>3, <1>4, <1>5, <1>6 DEF StreamInv

LEMMA NextStream == TypeOK /\ StreamInv /\ [Next]_vars => (TypeOK /\ StreamInv)'
<1> SUFFICES ASSUME TypeOK, StreamInv, [Next]_vars
             PROVE  TypeOK' /\ StreamInv'
  OBVIOUS
<1>1. HandleInv
  BY DEF StreamInv, HandleInv
<1>2. ASSUME UNCHANGED vars PROVE HandleInv'
  BY <1>1, <1>2
     DEF vars, halfVars, opVars, controlVars, HandleInv, LeaseInv, RequestInv,
         BusyHasOneOwner, HandleIsLinear, Holders, Holds, Leases, Ended
<1>3. HandleInv'
  BY <1>1, <1>2, NextCases, NextHandleOp, NextHandleControl
<1> QED BY <1>3, NextType, NextRelease DEF StreamInv, HandleInv

\* The inductive invariant of a stream holds in every behaviour.
THEOREM StreamInvariant == Spec => [](TypeOK /\ StreamInv)
BY InitStream, NextStream, PTL DEF Spec

\* Every variable has its type; ACTIVE_STREAMS loses at most one for a stream.
THEOREM TypeCorrect == Spec => []TypeOK
BY StreamInvariant, PTL

\* The busy flag of a half always has exactly one owner, for any number of
\* competing operations and control calls.
THEOREM BusyOwned == Spec => []BusyHasOneOwner
<1>1. StreamInv => BusyHasOneOwner
  BY DEF StreamInv
<1> QED BY <1>1, StreamInvariant, PTL

\* The handle of an open half is never lost or duplicated.
THEOREM HandleNeverLost == Spec => []HandleIsLinear
<1>1. StreamInv => HandleIsLinear
  BY DEF StreamInv
<1> QED BY <1>1, StreamInvariant, PTL

\* A stream leaves ACTIVE_STREAMS once.
THEOREM StreamReleasedOnce == Spec => []ReleasedOnce
<1>1. StreamInv => ReleasedOnce
  BY DEF StreamInv
<1> QED BY <1>1, StreamInvariant, PTL

\* A finished, reset or stopped half is never leased or offered again.
THEOREM EndedHalvesNotReused == Spec => []EndedHalfNotReused
<1>1. TypeOK /\ StreamInv => EndedHalfNotReused
  <2> SUFFICES ASSUME TypeOK, LeaseInv, RequestInv, NEW h \in Halves, Ended(h)
               PROVE  /\ ~slot[h]
                      /\ \A o \in Leases(h) :
                           opc[o] \in {"drop", "dropping"} /\ closed[h]
    BY DEF StreamInv, EndedHalfNotReused
  <2>1. wire[h] # "open"
    BY CodesAssumption DEF Ended, Fates
  <2> QED BY <2>1 DEF LeaseInv, RequestInv, Leases
<1> QED BY <1>1, StreamInvariant, PTL

\* The first end announced for a half is the only one.
THEOREM EndsAreFinal == Spec => EndIsFinal
<1>1. TypeOK /\ StreamInv /\ [Next]_vars
        => [\A h \in Halves : Ended(h) => wire'[h] = wire[h]]_vars
  <2> SUFFICES ASSUME TypeOK, LeaseInv, RequestInv, [Next]_vars,
                      NEW h \in Halves, Ended(h)
               PROVE  wire'[h] = wire[h]
    BY DEF StreamInv
  <2>0. wire[h] # "open"
    BY CodesAssumption DEF Ended, Fates
  <2>a. ~slot[h]
    BY <2>0 DEF RequestInv
  <2>1. ASSUME NEW o \in Ops, ApplyAbort(o) PROVE wire'[h] = wire[h]
    <3>1. half[o] # h
      BY <2>0, <2>1 DEF ApplyAbort, OpAt, LeaseInv
    <3> QED BY <2>1, <3>1 DEF ApplyAbort, TypeOK
  <2>2. ASSUME NEW o \in Ops, DropCheck(o) PROVE wire'[h] = wire[h]
    <3>1. Dropped(wire[h]) = wire[h]
      BY <2>0 DEF Dropped
    <3>2. \/ wire' = wire
          \/ wire' = [wire EXCEPT ![half[o]] = Dropped(wire[half[o]])]
      BY <2>2 DEF DropCheck
    <3> QED BY <3>1, <3>2 DEF TypeOK
  <2>3. ASSUME NEW c \in Controls, Finish(c) PROVE wire'[h] = wire[h]
    BY <2>3, <2>a DEF Finish, TypeOK, Halves
  <2>4. ASSUME NEW c \in Controls, RequestTake(c) PROVE wire'[h] = wire[h]
    BY <2>4, <2>a DEF RequestTake, TypeOK
  <2>5. ASSUME NEW o \in Ops,
               \/ TakeCheck(o) \/ TakeBusy(o) \/ TakeSlot(o)
               \/ TakeUnavailable(o) \/ IoEnds(o) \/ Notified(o)
               \/ DropBusy(o) \/ DropRestore(o)
        PROVE  wire' = wire
    BY <2>5 DEF TakeCheck, TakeBusy, TakeSlot, TakeUnavailable, IoEnds,
                Notified, DropBusy, DropRestore, halfVars
  <2>6. ASSUME NEW c \in Controls,
               \/ Call(c) \/ FinishBusy(c) \/ FinishClose(c)
               \/ RequestStore(c) \/ RequestClose(c) \/ RequestNotify(c)
               \/ CloseSwap(c) \/ CloseUncount(c)
        PROVE  wire' = wire
    BY <2>6 DEF Call, FinishBusy, FinishClose, RequestStore, RequestClose,
                RequestNotify, CloseSwap, CloseUncount, halfVars
  <2>7. CASE UNCHANGED vars
    BY <2>7 DEF vars, halfVars
  <2> QED
    BY NextCases, <2>1, <2>2, <2>3, <2>4, <2>5, <2>6, <2>7
<1> QED BY <1>1, StreamInvariant, PTL DEF Spec, EndIsFinal

------------------------------------------------------------------------------
(* Wake-ups *)

\* Somebody will wake the operation of half h, or has woken it, or the half has
\* ended: the permit is stored, a request is about to store it, or an operation
\* has consumed it and is about to abort the half.
WakeupDue(h) ==
  \/ permit[h]
  \/ \E c \in Controls : chalf[c] = h /\ cpc[c] \in {"close", "notify"}
  \/ \E o \in Ops : half[o] = h /\ opc[o] = "abort"
  \/ wire[h] # "open"

WakeInv == \A h \in Halves : code[h] # NoCode => WakeupDue(h)

\* A step of an operation keeps wake-ups due: only Notified consumes a permit,
\* and it goes on to abort the half.
LEMMA NextWakeOp ==
  ASSUME TypeOK, StreamInv, WakeInv, NEW o \in Ops,
         \/ TakeCheck(o) \/ TakeBusy(o) \/ TakeSlot(o)
         \/ TakeUnavailable(o) \/ IoEnds(o) \/ Notified(o)
         \/ ApplyAbort(o) \/ DropBusy(o) \/ DropCheck(o) \/ DropRestore(o)
  PROVE  WakeInv'
<1> USE DEF WakeInv, WakeupDue, TypeOK, OpAt, OpGoes, OpEnds, halfVars,
            controlVars
<1>1. CASE ApplyAbort(o)
  <2>1. half[o] \in Halves /\ code[half[o]] \in Codes
    BY <1>1 DEF ApplyAbort, StreamInv, LeaseInv
  <2>2. wire' = [wire EXCEPT ![half[o]] = code[half[o]]]
    BY <1>1, <2>1, CodesAssumption DEF ApplyAbort
  <2>3. wire'[half[o]] # "open"
    BY <2>1, <2>2, CodesAssumption DEF Fates
  <2> QED BY <1>1, <2>1, <2>2, <2>3 DEF ApplyAbort
<1>2. CASE Notified(o)
  BY <1>2 DEF Notified
<1>3. CASE DropCheck(o)
  <2>1. \A h \in Halves : wire[h] # "open" => wire'[h] # "open"
    BY <1>3 DEF DropCheck, Dropped
  <2> QED BY <1>3, <2>1 DEF DropCheck
<1>4. CASE \/ TakeCheck(o) \/ TakeBusy(o) \/ TakeSlot(o) \/ TakeUnavailable(o)
           \/ IoEnds(o) \/ DropBusy(o) \/ DropRestore(o)
  <2>1. UNCHANGED <<code, permit, wire, half, controlVars>>
    BY <1>4 DEF TakeCheck, TakeBusy, TakeSlot, TakeUnavailable, IoEnds,
                DropBusy, DropRestore
  <2>2. opc[o] # "abort" /\ \A p \in Ops \ {o} : opc'[p] = opc[p]
    BY <1>4 DEF TakeCheck, TakeBusy, TakeSlot, TakeUnavailable, IoEnds,
                DropBusy, DropRestore
  <2> QED BY <2>1, <2>2
<1> QED BY <1>1, <1>2, <1>3, <1>4

\* A step of a control call keeps wake-ups due: a request stores its code before,
\* and its permit after, it marks the half closed.
LEMMA NextWakeControl ==
  ASSUME TypeOK, StreamInv, WakeInv, NEW c \in Controls,
         \/ Call(c) \/ FinishBusy(c) \/ FinishClose(c) \/ Finish(c)
         \/ RequestStore(c) \/ RequestClose(c) \/ RequestNotify(c)
         \/ RequestTake(c) \/ CloseSwap(c) \/ CloseUncount(c)
  PROVE  WakeInv'
<1> USE DEF WakeInv, WakeupDue, TypeOK, ControlAt, ControlGoes, halfVars, opVars
<1>1. CASE RequestStore(c)
  BY <1>1 DEF RequestStore
<1>2. CASE RequestClose(c)
  BY <1>2 DEF RequestClose
<1>3. CASE RequestNotify(c)
  BY <1>3 DEF RequestNotify
<1>4. CASE \/ Call(c) \/ FinishBusy(c) \/ FinishClose(c) \/ Finish(c)
           \/ RequestTake(c) \/ CloseSwap(c) \/ CloseUncount(c)
  <2>1. UNCHANGED <<code, permit, opVars>>
    BY <1>4 DEF Call, FinishBusy, FinishClose, Finish, RequestTake, CloseSwap,
                CloseUncount
  <2>2. /\ cpc[c] \notin {"close", "notify"}
        /\ \A d \in Controls \ {c} : cpc'[d] = cpc[d] /\ chalf'[d] = chalf[d]
    BY <1>4 DEF Call, FinishBusy, FinishClose, Finish, RequestTake, CloseSwap,
                CloseUncount, controlVars
  <2>3. \A h \in Halves : wire[h] # "open" => wire'[h] # "open"
    <3>1. ccode[c] # "open"
      BY CodesAssumption DEF Fates
    <3> QED BY <1>4, <3>1 DEF Call, FinishBusy, FinishClose, Finish, RequestTake,
                              CloseSwap, CloseUncount
  <2> QED BY <2>1, <2>2, <2>3
<1> QED BY <1>1, <1>2, <1>3, <1>4

\* reset, stop, abort and close never lose the wake-up of an operation that is
\* blocked in its I/O, for any number of operations and control calls.
THEOREM WakeupNeverLost == Spec => []NoLostWakeup
<1>1. Init => WakeInv
  BY DEF Init, WakeInv
<1>2. TypeOK /\ StreamInv /\ WakeInv /\ [Next]_vars => WakeInv'
  <2>1. ASSUME WakeInv, UNCHANGED vars PROVE WakeInv'
    BY <2>1 DEF vars, halfVars, opVars, controlVars, WakeInv, WakeupDue
  <2> QED BY <2>1, NextCases, NextWakeOp, NextWakeControl
<1>3. TypeOK /\ StreamInv /\ WakeInv => NoLostWakeup
  <2> SUFFICES ASSUME TypeOK, StreamInv, WakeInv, NEW o \in Ops,
                      opc[o] = "select", code[half[o]] # NoCode
               PROVE  \/ permit[half[o]]
                      \/ \E c \in Controls : /\ chalf[c] = half[o]
                                             /\ cpc[c] \in {"close", "notify"}
    BY DEF NoLostWakeup
  <2>1. half[o] \in Halves /\ wire[half[o]] = "open" /\ lease[o]
    BY DEF TypeOK, StreamInv, LeaseInv
  <2>2. \A p \in Ops : half[p] = half[o] => opc[p] # "abort"
    <3> SUFFICES ASSUME NEW p \in Ops, half[p] = half[o], opc[p] = "abort"
                 PROVE  FALSE
      OBVIOUS
    <3>1. lease[p]
      BY DEF StreamInv, LeaseInv
    <3>2. p = o
      BY <2>1, <3>1 DEF StreamInv, HandleIsLinear, Leases
    <3> QED BY <3>2
  <2> QED BY <2>1, <2>2 DEF WakeInv, WakeupDue
<1> QED
  BY <1>1, <1>2, <1>3, StreamInvariant, InitStream, NextStream, PTL DEF Spec
==============================================================================
