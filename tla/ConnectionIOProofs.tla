------------------------- MODULE ConnectionIOProofs -------------------------
(***************************************************************************)
(* Proofs, for any finite set of calls of any sizes, that the statics and  *)
(* flags that the calls on a connection share are exact, that a caller     *)
(* that has its answer owns nothing any more, that a forgotten connection  *)
(* is not closed under a stream in use, and that no permit, byte or stream *)
(* outlives its owner.                                                     *)
(***************************************************************************)
EXTENDS ConnectionIO, FiniteSetTheorems, TLAPS

\* The next-state relation, one disjunct per action.
LEMMA NextCases ==
  ASSUME [Next]_vars
  PROVE  \/ \E o \in Ops :
              \/ Begin(o) \/ BeginDatagram(o) \/ AddBytes(o) \/ LoadPeak(o)
              \/ RaisePeak(o) \/ StartOperation(o) \/ StreamArrives(o)
              \/ FutureEnds(o) \/ CountStream(o) \/ MonitorOwner(o)
              \/ WrapFails(o) \/ DropPermit(o) \/ DropGuard(o) \/ Unwound(o)
              \/ Result(o) \/ Returns(o) \/ Abandons(o) \/ DropStream(o)
              \/ AbortStream(o) \/ OwnerDown(o) \/ FreeStream(o)
              \/ UncountStream(o)
         \/ DropConnection \/ CloseConnection \/ FreeConnection \/ ServerDies
         \/ UNCHANGED vars
BY DEF Next, Progress

\* The other calls, their callers and their streams are left alone.
Elsewhere(o) ==
  \A p \in Ops \ {o} :
    /\ pc'[p] = pc[p] /\ caller'[p] = caller[p]
    /\ stream'[p] = stream[p] /\ ref'[p] = ref[p]

\* Where a call is, what it owns, and who has its stream agree after every step.
LEMMA NextCalls == CountsInv /\ [Next]_vars => OwnershipInv' /\ StreamInv'
<1> SUFFICES ASSUME TypeOK, OwnershipInv, StreamInv, [Next]_vars
             PROVE  OwnershipInv' /\ StreamInv'
  BY DEF CountsInv
<1>1. ASSUME NEW o \in Ops, Begin(o) PROVE OwnershipInv' /\ StreamInv'
  <2>1. /\ Elsewhere(o)
        /\ pc[o] = "idle" /\ held
        /\ pc'[o] \in {"guard", "start", "permit", "unwind"} /\ caller'[o] = "awaiting"
        /\ pc'[o] = "guard" => kind[o] = "send"
        /\ pc'[o] = "permit" => kind[o] \in {"dsend", "drecv"}
        /\ UNCHANGED <<kind, permits, guards, stream, ref, held, released>>
    BY <1>1 DEF Begin, At, Goes, Refuses, Elsewhere, TypeOK, opVars, callVars,
       permitVars, byteVars, streamVars, connVars
  <2> QED BY <2>1 DEF OwnershipInv, StreamInv, Elsewhere, TypeOK
<1>2. ASSUME NEW o \in Ops, BeginDatagram(o) PROVE OwnershipInv' /\ StreamInv'
  <2>1. /\ Elsewhere(o)
        /\ pc[o] = "permit" /\ pc'[o] \in {"guard", "start", "unwind"}
        /\ pc'[o] = "guard" => kind[o] = "dsend"
        /\ permits' = permits \/ (permits' = permits \cup {o} /\ pc'[o] # "unwind")
        /\ UNCHANGED <<kind, caller, guards, stream, ref, held, released>>
    BY <1>2 DEF BeginDatagram, At, Goes, Refuses, Elsewhere, TypeOK, opVars,
       callVars, permitVars, byteVars, streamVars, connVars
  <2> QED BY <2>1 DEF OwnershipInv, StreamInv, Elsewhere, TypeOK
<1>3. ASSUME NEW o \in Ops, AddBytes(o) PROVE OwnershipInv' /\ StreamInv'
  <2>1. /\ Elsewhere(o)
        /\ pc[o] = "guard" /\ pc'[o] = "load" /\ guards' = guards \cup {o}
        /\ UNCHANGED <<kind, caller, permits, stream, ref, held, released>>
    BY <1>3 DEF AddBytes, At, Goes, Elsewhere, TypeOK, opVars, callVars,
       permitVars, byteVars, streamVars, connVars
  <2> QED BY <2>1 DEF OwnershipInv, StreamInv, Elsewhere, TypeOK
<1>4. ASSUME NEW o \in Ops, LoadPeak(o) PROVE OwnershipInv' /\ StreamInv'
  <2>1. /\ Elsewhere(o)
        /\ pc[o] = "load" /\ pc'[o] = "cas"
        /\ UNCHANGED <<kind, caller, permits, guards, stream, ref, held, released>>
    BY <1>4 DEF LoadPeak, At, Goes, Elsewhere, TypeOK, opVars, callVars,
       permitVars, byteVars, streamVars, connVars
  <2> QED BY <2>1 DEF OwnershipInv, StreamInv, Elsewhere, TypeOK
<1>5. ASSUME NEW o \in Ops, RaisePeak(o) PROVE OwnershipInv' /\ StreamInv'
  <2>1. /\ Elsewhere(o)
        /\ pc[o] = "cas" /\ pc'[o] \in {"cas", "start"}
        /\ UNCHANGED <<kind, caller, permits, guards, stream, ref, held, released>>
    BY <1>5 DEF RaisePeak, At, Goes, Elsewhere, TypeOK, opVars, callVars,
       permitVars, byteVars, streamVars, connVars
  <2> QED BY <2>1 DEF OwnershipInv, StreamInv, Elsewhere, TypeOK
<1>6. ASSUME NEW o \in Ops, StartOperation(o) PROVE OwnershipInv' /\ StreamInv'
  <2>1. /\ Elsewhere(o)
        /\ pc[o] = "start" /\ pc'[o] \in {"running", "unwind"}
        /\ UNCHANGED <<kind, caller, permits, guards, stream, ref, held, released>>
    BY <1>6 DEF StartOperation, At, Goes, Refuses, Elsewhere, TypeOK, opVars,
       callVars, permitVars, byteVars, streamVars, connVars
  <2> QED BY <2>1 DEF OwnershipInv, StreamInv, Elsewhere, TypeOK
<1>7. ASSUME NEW o \in Ops, StreamArrives(o) PROVE OwnershipInv' /\ StreamInv'
  <2>1. /\ Elsewhere(o)
        /\ pc[o] = "running" /\ pc'[o] = "count" /\ kind[o] = "open"
        /\ UNCHANGED <<kind, caller, permits, guards, stream, ref, held, released>>
    BY <1>7 DEF StreamArrives, At, Goes, Elsewhere, TypeOK, opVars, callVars,
       permitVars, byteVars, streamVars, connVars
  <2> QED BY <2>1 DEF OwnershipInv, StreamInv, Elsewhere, TypeOK
<1>8. ASSUME NEW o \in Ops, FutureEnds(o) PROVE OwnershipInv' /\ StreamInv'
  <2>1. /\ Elsewhere(o)
        /\ pc[o] = "running" /\ pc'[o] = "unwind"
        /\ UNCHANGED <<kind, caller, permits, guards, stream, ref, held, released>>
    BY <1>8 DEF FutureEnds, At, Goes, Elsewhere, TypeOK, opVars, callVars,
       permitVars, byteVars, streamVars, connVars
  <2> QED BY <2>1 DEF OwnershipInv, StreamInv, Elsewhere, TypeOK
<1>9. ASSUME NEW o \in Ops, CountStream(o) PROVE OwnershipInv' /\ StreamInv'
  <2>1. /\ Elsewhere(o)
        /\ pc[o] = "count" /\ pc'[o] = "monitor"
        /\ stream'[o] = "new" /\ ref'[o] = "future"
        /\ UNCHANGED <<kind, caller, permits, guards, held, released>>
    BY <1>9 DEF CountStream, At, Goes, Elsewhere, TypeOK, opVars, callVars,
       permitVars, byteVars, streamVars, connVars
  <2> QED BY <2>1 DEF OwnershipInv, StreamInv, Elsewhere, TypeOK
<1>10. ASSUME NEW o \in Ops, MonitorOwner(o) PROVE OwnershipInv' /\ StreamInv'
  <2>1. /\ Elsewhere(o)
        /\ pc[o] = "monitor" /\ pc'[o] \in {"result", "closing"}
        /\ stream'[o] \in {"open", "ending"}
        /\ UNCHANGED <<kind, caller, permits, guards, ref, held, released>>
    BY <1>10 DEF MonitorOwner, At, Goes, Elsewhere, TypeOK, opVars, callVars,
       permitVars, byteVars, streamVars, connVars
  <2> QED BY <2>1 DEF OwnershipInv, StreamInv, Elsewhere, TypeOK
<1>11. ASSUME NEW o \in Ops, WrapFails(o) PROVE OwnershipInv' /\ StreamInv'
  <2>1. /\ Elsewhere(o)
        /\ pc[o] = "closing" /\ pc'[o] = "unwind"
        /\ stream[o] = "ended" /\ ref'[o] = "lost"
        /\ UNCHANGED <<kind, caller, permits, guards, stream, held, released>>
    BY <1>11 DEF WrapFails, At, Goes, Elsewhere, TypeOK, opVars, callVars,
       permitVars, byteVars, streamVars, connVars
  <2> QED BY <2>1 DEF OwnershipInv, StreamInv, Elsewhere, TypeOK
<1>12. ASSUME NEW o \in Ops, DropPermit(o) PROVE OwnershipInv' /\ StreamInv'
  <2>1. /\ Elsewhere(o)
        /\ pc[o] = "unwind" /\ permits' = permits \ {o}
        /\ UNCHANGED <<kind, pc, caller, guards, stream, ref, held, released>>
    BY <1>12 DEF DropPermit, At, Elsewhere, TypeOK, opVars, callVars,
       permitVars, byteVars, streamVars, connVars
  <2> QED BY <2>1 DEF OwnershipInv, StreamInv, Elsewhere, TypeOK
<1>13. ASSUME NEW o \in Ops, DropGuard(o) PROVE OwnershipInv' /\ StreamInv'
  <2>1. /\ Elsewhere(o)
        /\ pc[o] = "unwind" /\ guards' = guards \ {o}
        /\ UNCHANGED <<kind, pc, caller, permits, stream, ref, held, released>>
    BY <1>13 DEF DropGuard, At, Elsewhere, TypeOK, opVars, callVars, permitVars,
       byteVars, streamVars, connVars
  <2> QED BY <2>1 DEF OwnershipInv, StreamInv, Elsewhere, TypeOK
<1>14. ASSUME NEW o \in Ops, Unwound(o) PROVE OwnershipInv' /\ StreamInv'
  <2>1. /\ Elsewhere(o)
        /\ pc[o] = "unwind" /\ pc'[o] \in {"done", "result"}
        /\ o \notin permits \cup guards
        /\ caller'[o] = caller[o] \/ (caller'[o] = "returned" /\ pc'[o] = "done")
        /\ UNCHANGED <<kind, permits, guards, stream, ref, held, released>>
    BY <1>14 DEF Unwound, At, Goes, Elsewhere, TypeOK, opVars, callVars,
       permitVars, byteVars, streamVars, connVars
  <2> QED BY <2>1 DEF OwnershipInv, StreamInv, Elsewhere, TypeOK
<1>15. ASSUME NEW o \in Ops, Result(o) PROVE OwnershipInv' /\ StreamInv'
  <2>1. /\ Elsewhere(o)
        /\ pc[o] = "result" /\ pc'[o] = "done"
        /\ ref'[o] = ref[o] \/ ref[o] \notin {"none", "lost"}
        /\ UNCHANGED <<kind, caller, permits, guards, stream, held, released>>
    BY <1>15 DEF Result, At, Goes, Passes, Elsewhere, TypeOK, opVars, callVars,
       permitVars, byteVars, streamVars, connVars
  <2> QED BY <2>1 DEF OwnershipInv, StreamInv, Elsewhere, TypeOK
<1>16. ASSUME NEW o \in Ops, Returns(o) PROVE OwnershipInv' /\ StreamInv'
  <2>1. /\ Elsewhere(o)
        /\ pc[o] = "done"
        /\ ref'[o] = ref[o] \/ ref[o] \notin {"none", "lost"}
        /\ UNCHANGED <<kind, pc, permits, guards, stream, held, released>>
    BY <1>16 DEF Returns, At, Passes, Elsewhere, TypeOK, opVars, callVars,
       permitVars, byteVars, streamVars, connVars
  <2> QED BY <2>1 DEF OwnershipInv, StreamInv, Elsewhere, TypeOK
<1>17. ASSUME NEW o \in Ops, Abandons(o) PROVE OwnershipInv' /\ StreamInv'
  <2>1. /\ Elsewhere(o)
        /\ caller'[o] \in {"timeout", "dead"}
        /\ ref'[o] = ref[o] \/ (ref[o] = "inbox" /\ ref'[o] = "lost")
        /\ UNCHANGED <<kind, pc, permits, guards, stream, held, released>>
    BY <1>17 DEF Abandons, At, Passes, Elsewhere, TypeOK, opVars, callVars,
       permitVars, byteVars, streamVars, connVars
  <2> QED BY <2>1 DEF OwnershipInv, StreamInv, Elsewhere, TypeOK
<1>18. ASSUME NEW o \in Ops, DropStream(o) PROVE OwnershipInv' /\ StreamInv'
  <2>1. /\ Elsewhere(o)
        /\ ref[o] \in {"caller", "inbox"} /\ ref'[o] = "lost"
        /\ caller'[o] \in {caller[o], "dead"}
        /\ UNCHANGED <<kind, pc, permits, guards, stream, held, released>>
    BY <1>18 DEF DropStream, At, Elsewhere, TypeOK, opVars, callVars,
       permitVars, byteVars, streamVars, connVars
  <2> QED BY <2>1 DEF OwnershipInv, StreamInv, Elsewhere, TypeOK
<1>19. ASSUME NEW o \in Ops, AbortStream(o) PROVE OwnershipInv' /\ StreamInv'
  <2>1. /\ Elsewhere(o)
        /\ ref[o] = "caller" /\ stream[o] = "open" /\ stream'[o] = "ending"
        /\ UNCHANGED <<kind, pc, caller, permits, guards, ref, held, released>>
    BY <1>19 DEF AbortStream, At, Ends, Elsewhere, TypeOK, opVars, callVars,
       permitVars, byteVars, streamVars, connVars
  <2> QED BY <2>1 DEF OwnershipInv, StreamInv, Elsewhere, TypeOK
<1>20. ASSUME NEW o \in Ops, OwnerDown(o) PROVE OwnershipInv' /\ StreamInv'
  <2>1. /\ Elsewhere(o)
        /\ stream[o] = "open" /\ stream'[o] = "ending"
        /\ UNCHANGED <<kind, pc, caller, permits, guards, ref, held, released>>
    BY <1>20 DEF OwnerDown, At, Ends, Elsewhere, TypeOK, opVars, callVars,
       permitVars, byteVars, streamVars, connVars
  <2> QED BY <2>1 DEF OwnershipInv, StreamInv, Elsewhere, TypeOK
<1>21. ASSUME NEW o \in Ops, FreeStream(o) PROVE OwnershipInv' /\ StreamInv'
  <2>1. /\ Elsewhere(o)
        /\ ref[o] = "lost" /\ stream[o] \in {"new", "open"} /\ stream'[o] = "ending"
        /\ UNCHANGED <<kind, pc, caller, permits, guards, ref, held, released>>
    BY <1>21 DEF FreeStream, At, Ends, Elsewhere, TypeOK, opVars, callVars,
       permitVars, byteVars, streamVars, connVars
  <2> QED BY <2>1 DEF OwnershipInv, StreamInv, Elsewhere, TypeOK
<1>22. ASSUME NEW o \in Ops, UncountStream(o) PROVE OwnershipInv' /\ StreamInv'
  <2>1. /\ Elsewhere(o)
        /\ stream[o] = "ending" /\ stream'[o] = "ended"
        /\ UNCHANGED <<kind, pc, caller, permits, guards, ref, held, released>>
    BY <1>22 DEF UncountStream, At, Elsewhere, TypeOK, opVars, callVars,
       permitVars, byteVars, streamVars, connVars
  <2> QED BY <2>1 DEF OwnershipInv, StreamInv, Elsewhere, TypeOK
<1>23. ASSUME DropConnection \/ CloseConnection \/ ServerDies \/ UNCHANGED vars
       PROVE  OwnershipInv' /\ StreamInv'
  <2>1. /\ UNCHANGED <<kind, pc, caller, permits, guards, stream, ref>>
        /\ held' = held \/ held' = FALSE
        /\ released' = "drop" => released = "drop"
    BY <1>23 DEF DropConnection, CloseConnection, ServerDies, vars, opVars,
       callVars, permitVars, byteVars, streamVars, connVars
  <2> QED BY <2>1 DEF OwnershipInv, StreamInv
<1>24. ASSUME FreeConnection PROVE OwnershipInv' /\ StreamInv'
  <2>1. /\ UNCHANGED <<kind, pc, caller, permits, guards, stream, ref, held>>
        /\ ~ConnectionKept
    BY <1>24 DEF FreeConnection, opVars, callVars, permitVars, byteVars,
       streamVars
  <2> QED BY <2>1 DEF OwnershipInv, StreamInv, ConnectionKept
<1> QED
  BY NextCases, <1>1, <1>2, <1>3, <1>4, <1>5, <1>6, <1>7, <1>8, <1>9, <1>10,
     <1>11, <1>12, <1>13, <1>14, <1>15, <1>16, <1>17, <1>18, <1>19, <1>20,
     <1>21, <1>22, <1>23, <1>24
------------------------------------------------------------------------------
(* The queued bytes and their peak *)

ByteAction(o) == AddBytes(o) \/ LoadPeak(o) \/ RaisePeak(o) \/ DropGuard(o)

\* Every other action leaves the bytes alone, and nobody enters or leaves
\* QueueGuard::new.
LEMMA BytesElsewhere ==
  ASSUME TypeOK, [Next]_vars
  PROVE  /\ UNCHANGED opVars
         /\ \/ \E o \in Ops : ByteAction(o)
            \/ /\ UNCHANGED byteVars
               /\ \A p \in Ops : \/ pc'[p] = pc[p]
                                 \/ /\ pc[p] \notin {"load", "cas"}
                                    /\ pc'[p] \notin {"load", "cas"}
<1> DEFINE Quiet == \A p \in Ops : \/ pc'[p] = pc[p]
                                   \/ /\ pc[p] \notin {"load", "cas"}
                                      /\ pc'[p] \notin {"load", "cas"}
<1>1. ASSUME NEW o \in Ops, ByteAction(o) PROVE UNCHANGED opVars
  BY <1>1 DEF ByteAction, AddBytes, LoadPeak, RaisePeak, DropGuard
<1>2. ASSUME NEW o \in Ops,
             \/ Begin(o) \/ BeginDatagram(o) \/ StartOperation(o)
             \/ StreamArrives(o) \/ FutureEnds(o)
      PROVE  UNCHANGED <<opVars, byteVars>> /\ Quiet
  BY <1>2 DEF Begin, BeginDatagram, StartOperation, StreamArrives, FutureEnds,
     At, Goes, Refuses, TypeOK
<1>3. ASSUME NEW o \in Ops,
             \/ CountStream(o) \/ MonitorOwner(o) \/ WrapFails(o)
             \/ DropPermit(o) \/ Unwound(o) \/ Result(o)
      PROVE  UNCHANGED <<opVars, byteVars>> /\ Quiet
  BY <1>3 DEF CountStream, MonitorOwner, WrapFails, DropPermit, Unwound, Result,
     At, Goes, TypeOK
<1>4. ASSUME NEW o \in Ops,
             \/ Returns(o) \/ Abandons(o) \/ DropStream(o) \/ AbortStream(o)
             \/ OwnerDown(o) \/ FreeStream(o) \/ UncountStream(o)
      PROVE  UNCHANGED <<opVars, byteVars>> /\ Quiet
  BY <1>4 DEF Returns, Abandons, DropStream, AbortStream, OwnerDown, FreeStream,
     UncountStream
<1>5. ASSUME \/ DropConnection \/ CloseConnection \/ FreeConnection \/ ServerDies
             \/ UNCHANGED vars
      PROVE  UNCHANGED <<opVars, byteVars>> /\ Quiet
  BY <1>5 DEF DropConnection, CloseConnection, FreeConnection, ServerDies, vars
<1> QED BY NextCases, <1>1, <1>2, <1>3, <1>4, <1>5 DEF ByteAction

\* The bytes of a set of guards are finitely many; a guard adds exactly its own.
LEMMA GuardBytes ==
  ASSUME TypeOK, NEW G \in SUBSET Ops
  PROVE  /\ IsFiniteSet(UNION {BytesOf(p) : p \in G})
         /\ Cardinality(UNION {BytesOf(p) : p \in G}) \in Nat
         /\ \A o \in Ops \ G :
              Cardinality(UNION {BytesOf(p) : p \in G \cup {o}})
                = Cardinality(UNION {BytesOf(p) : p \in G}) + size[o]
<1> DEFINE B == UNION {BytesOf(p) : p \in G}
<1>1. ASSUME NEW o \in Ops
      PROVE  IsFiniteSet(BytesOf(o)) /\ Cardinality(BytesOf(o)) = size[o]
  <2>1. size[o] \in Nat \ {0}
    BY SizesAssumption DEF TypeOK
  <2>2. IsFiniteSet(1..size[o]) /\ Cardinality(1..size[o]) = size[o]
    BY <2>1, FS_Interval
  <2>3. IsFiniteSet({o}) /\ Cardinality({o}) = 1
    BY FS_Singleton
  <2>4. /\ IsFiniteSet({o} \X (1..size[o]))
        /\ Cardinality({o} \X (1..size[o])) = Cardinality({o}) * Cardinality(1..size[o])
    BY <2>2, <2>3, FS_Product
  <2>5. 1 * size[o] = size[o]
    BY <2>1
  <2> QED BY <2>2, <2>3, <2>4, <2>5 DEF BytesOf
<1>2. IsFiniteSet(B)
  <2>1. IsFiniteSet(G)
    BY SizesAssumption, FS_Subset
  <2>2. IsFiniteSet({BytesOf(p) : p \in G})
    <3> DEFINE f == [p \in G |-> BytesOf(p)]
               T == {BytesOf(p) : p \in G}
    <3>1. f \in Surjection(G, T)
      BY DEF Surjection
    <3> HIDE DEF f, T
    <3>2. IsFiniteSet(T)
      BY <2>1, <3>1, FS_Surjection
    <3> QED BY <3>2 DEF T
  <2>3. \A T \in {BytesOf(p) : p \in G} : IsFiniteSet(T)
    BY <1>1
  <2> QED BY <2>2, <2>3, FS_UNION
<1>3. Cardinality(B) \in Nat
  BY <1>2, FS_CardinalityType
<1>4. ASSUME NEW o \in Ops \ G
      PROVE  Cardinality(UNION {BytesOf(p) : p \in G \cup {o}})
               = Cardinality(B) + size[o]
  <2>1. UNION {BytesOf(p) : p \in G \cup {o}} = B \cup BytesOf(o)
    OBVIOUS
  <2>2. B \cap BytesOf(o) = {}
    BY DEF BytesOf
  <2>3. Cardinality({}) = 0
    BY FS_EmptySet
  <2>4. size[o] \in Nat
    BY SizesAssumption DEF TypeOK
  <2>5. Cardinality(B \cup BytesOf(o))
          = Cardinality(B) + Cardinality(BytesOf(o)) - Cardinality(B \cap BytesOf(o))
    BY <1>1, <1>2, FS_Union
  <2>6. Cardinality(B \cup BytesOf(o)) = Cardinality(B) + size[o] - 0
    BY <1>1, <2>2, <2>3, <2>5
  <2> HIDE DEF B
  <2>7. Cardinality(B \cup BytesOf(o)) = Cardinality(B) + size[o]
    BY <1>3, <2>4, <2>6
  <2> QED BY <2>1, <2>7
<1> QED BY <1>2, <1>3, <1>4

\* QUEUED_BYTES stays the sum of the live guards and never wraps.
LEMMA NextQueued ==
  CountsInv /\ [Next]_vars => QueuedExact' /\ queued' \in Nat
<1> SUFFICES ASSUME TypeOK, OwnershipInv, QueuedExact, [Next]_vars
             PROVE  QueuedExact' /\ queued' \in Nat
  BY DEF CountsInv
<1>0. UNCHANGED size /\ (\A G : UNION {BytesOf(p)' : p \in G} = UNION {BytesOf(p) : p \in G})
  BY BytesElsewhere DEF opVars, BytesOf
<1>1. ASSUME NEW o \in Ops, AddBytes(o) PROVE QueuedExact' /\ queued' \in Nat
  <2>1. o \notin guards /\ guards \subseteq Ops
    BY <1>1 DEF AddBytes, At, OwnershipInv, TypeOK
  <2>2. guards' = guards \cup {o} /\ queued' = queued + size[o]
    BY <1>1 DEF AddBytes
  <2>3. size[o] \in Nat /\ queued \in Nat
    BY SizesAssumption DEF TypeOK
  <2>4. Cardinality(UNION {BytesOf(p) : p \in guards \cup {o}})
          = Cardinality(UNION {BytesOf(p) : p \in guards}) + size[o]
    BY <2>1, GuardBytes
  <2>5. queued' = Cardinality(UNION {BytesOf(p) : p \in guards'})
    BY <2>2, <2>4 DEF QueuedExact
  <2>6. queued' \in Nat
    BY <2>2, <2>3
  <2> QED BY <1>0, <2>5, <2>6 DEF QueuedExact
<1>2. ASSUME NEW o \in Ops, DropGuard(o) PROVE QueuedExact' /\ queued' \in Nat
  <2> DEFINE G == guards \ {o}
  <2>1. o \in guards /\ G \in SUBSET Ops /\ o \in Ops \ G /\ guards = G \cup {o}
    BY <1>2 DEF DropGuard, TypeOK
  <2>2. guards' = G /\ queued' = queued - size[o]
    BY <1>2 DEF DropGuard
  <2>3. size[o] \in Nat
    BY SizesAssumption DEF TypeOK
  <2>4. /\ Cardinality(UNION {BytesOf(p) : p \in G}) \in Nat
        /\ Cardinality(UNION {BytesOf(p) : p \in G \cup {o}})
             = Cardinality(UNION {BytesOf(p) : p \in G}) + size[o]
    BY <2>1, GuardBytes
  <2>5. queued = Cardinality(UNION {BytesOf(p) : p \in G}) + size[o]
    BY <2>1, <2>4 DEF QueuedExact
  <2>6. queued' = Cardinality(UNION {BytesOf(p) : p \in G}) /\ queued' \in Nat
    BY <2>2, <2>3, <2>4, <2>5
  <2> QED BY <1>0, <2>2, <2>6 DEF QueuedExact
<1>3. ASSUME UNCHANGED <<queued, guards>> PROVE QueuedExact' /\ queued' \in Nat
  BY <1>0, <1>3 DEF QueuedExact, TypeOK
<1>4. ASSUME NEW o \in Ops, LoadPeak(o) \/ RaisePeak(o)
      PROVE  UNCHANGED <<queued, guards>>
  BY <1>4 DEF LoadPeak, RaisePeak
<1> QED BY BytesElsewhere, <1>1, <1>2, <1>3, <1>4 DEF ByteAction, byteVars

\* The larger of two numbers.
LEMMA MaxOfTwo ==
  ASSUME NEW a \in Nat, NEW b \in Nat
  PROVE  /\ Max({a, b}) \in {a, b}
         /\ Max({a, b}) >= a /\ Max({a, b}) >= b
<1>1. \E x \in {a, b} : \A y \in {a, b} : x >= y
  <2>1. CASE a >= b
    BY <2>1
  <2>2. CASE ~(a >= b)
    BY <2>2
  <2> QED BY <2>1, <2>2
<1>2. Max({a, b}) \in {a, b} /\ \A y \in {a, b} : Max({a, b}) >= y
  BY <1>1 DEF Max
<1> QED BY <1>2

\* The compare-and-exchange loop never loses the largest value: until the peak
\* has it, the sender that reached it is still in its loop.
LEMMA NextPeak == CountsInv /\ [Next]_vars => PeakInv'
<1> SUFFICES ASSUME TypeOK, QueuedExact, OwnershipInv, PeakInv, [Next]_vars,
                    queued' \in Nat
             PROVE  PeakInv'
  BY NextQueued DEF CountsInv
<1>0. /\ queued \in Nat /\ peak \in Nat /\ high \in Nat
      /\ \A o \in Ops : size[o] \in Nat /\ current[o] \in Nat /\ seen[o] \in Nat
  BY SizesAssumption DEF TypeOK
<1>1. ASSUME NEW o \in Ops, AddBytes(o) PROVE PeakInv'
  <2>1. /\ pc[o] = "guard" /\ pc'[o] = "load"
        /\ queued' = queued + size[o] /\ current'[o] = queued'
        /\ high' = Max({high, queued'})
        /\ UNCHANGED <<seen, peak>>
        /\ \A p \in Ops \ {o} : pc'[p] = pc[p] /\ current'[p] = current[p]
    BY <1>1 DEF AddBytes, At, Goes, TypeOK
  <2>2. high' \in {high, queued'} /\ high' >= high /\ high' >= queued'
    BY <1>0, <2>1, MaxOfTwo
  <2>3. high' \in Nat
    BY <1>0, <2>2
  <2>4. queued' <= high' /\ peak' <= high'
    BY <1>0, <2>1, <2>2, <2>3 DEF PeakInv
  <2>5. ASSUME NEW p \in Ops
        PROVE  /\ pc'[p] \in {"load", "cas"} => current'[p] <= high'
               /\ pc'[p] = "cas" => seen'[p] <= peak'
    <3>1. CASE p = o
      BY <2>1, <2>4, <3>1
    <3>2. CASE p # o
      BY <1>0, <2>1, <2>2, <2>3, <3>2 DEF PeakInv
    <3> QED BY <3>1, <3>2
  <2>6. peak' = high' \/ \E p \in Ops : pc'[p] \in {"load", "cas"} /\ current'[p] = high'
    <3>1. CASE high' = queued'
      BY <2>1, <3>1
    <3>2. CASE high' = high
      <4>1. CASE peak = high
        BY <2>1, <3>2, <4>1
      <4>2. CASE \E p \in Ops : pc[p] \in {"load", "cas"} /\ current[p] = high
        BY <2>1, <3>2, <4>2
      <4> QED BY <4>1, <4>2 DEF PeakInv
    <3> QED BY <2>2, <3>1, <3>2
  <2> QED BY <2>4, <2>5, <2>6 DEF PeakInv
<1>2. ASSUME NEW o \in Ops, LoadPeak(o) PROVE PeakInv'
  <2>1. /\ pc[o] = "load" /\ pc'[o] = "cas" /\ seen'[o] = peak
        /\ UNCHANGED <<queued, current, peak, high>>
        /\ \A p \in Ops \ {o} : pc'[p] = pc[p] /\ seen'[p] = seen[p]
    BY <1>2 DEF LoadPeak, At, Goes, TypeOK
  <2> QED BY <1>0, <2>1 DEF PeakInv
<1>3. ASSUME NEW o \in Ops, RaisePeak(o) PROVE PeakInv'
  <2>1. /\ pc[o] = "cas"
        /\ UNCHANGED <<queued, current, high>>
        /\ \A p \in Ops \ {o} : pc'[p] = pc[p] /\ seen'[p] = seen[p]
    BY <1>3 DEF RaisePeak, At, Goes, TypeOK
  <2>2. CASE current[o] <= seen[o] /\ pc'[o] = "start" /\ UNCHANGED <<peak, seen>>
    <3>1. current[o] <= peak
      BY <1>0, <2>1, <2>2 DEF PeakInv
    <3>2. current[o] = high => peak = high
      BY <1>0, <3>1 DEF PeakInv
    <3> QED BY <2>1, <2>2, <3>2 DEF PeakInv
  <2>3. CASE /\ current[o] > seen[o] /\ peak = seen[o]
             /\ peak' = current[o] /\ pc'[o] = "start" /\ UNCHANGED seen
    <3>1. peak' <= high /\ peak <= peak' /\ peak # high
      BY <1>0, <2>1, <2>3 DEF PeakInv
    <3>2. \A p \in Ops : pc'[p] = "cas" => seen'[p] <= peak'
      BY <1>0, <2>1, <2>3, <3>1 DEF PeakInv
    <3>3. peak' = high \/ \E p \in Ops : pc'[p] \in {"load", "cas"} /\ current[p] = high
      BY <2>1, <2>3, <3>1 DEF PeakInv
    <3> QED BY <2>1, <2>3, <3>1, <3>2, <3>3 DEF PeakInv
  <2>4. CASE seen'[o] = peak /\ UNCHANGED <<pc, peak>>
    BY <1>0, <2>1, <2>4 DEF PeakInv
  <2> QED BY <1>3, <2>2, <2>3, <2>4 DEF RaisePeak, Goes, TypeOK
<1>4. ASSUME NEW o \in Ops, DropGuard(o) PROVE PeakInv'
  <2>1. queued' <= queued
    BY <1>0, <1>4 DEF DropGuard
  <2>2. UNCHANGED <<pc, current, seen, peak, high>>
    BY <1>4 DEF DropGuard
  <2>3. queued' <= high
    BY <1>0, <2>1 DEF PeakInv
  <2> QED BY <2>2, <2>3 DEF PeakInv
<1>5. ASSUME UNCHANGED byteVars,
             \A p \in Ops : \/ pc'[p] = pc[p]
                            \/ /\ pc[p] \notin {"load", "cas"}
                               /\ pc'[p] \notin {"load", "cas"}
      PROVE  PeakInv'
  BY <1>5 DEF PeakInv, byteVars
<1> QED BY BytesElsewhere, <1>1, <1>2, <1>3, <1>4, <1>5 DEF ByteAction
------------------------------------------------------------------------------
(* The datagram permits *)

PermitAction(o) == BeginDatagram(o) \/ DropPermit(o)

\* Only taking and dropping a permit touches the permits and the busy flags.
LEMMA PermitsElsewhere ==
  ASSUME [Next]_vars
  PROVE  (\E o \in Ops : PermitAction(o)) \/ UNCHANGED permitVars
<1>1. ASSUME NEW o \in Ops,
             \/ Begin(o) \/ AddBytes(o) \/ LoadPeak(o) \/ RaisePeak(o)
             \/ StartOperation(o) \/ StreamArrives(o) \/ FutureEnds(o)
             \/ CountStream(o) \/ MonitorOwner(o) \/ WrapFails(o)
      PROVE  UNCHANGED permitVars
  BY <1>1 DEF Begin, AddBytes, LoadPeak, RaisePeak, StartOperation,
     StreamArrives, FutureEnds, CountStream, MonitorOwner, WrapFails
<1>2. ASSUME NEW o \in Ops,
             \/ DropGuard(o) \/ Unwound(o) \/ Result(o) \/ Returns(o)
             \/ Abandons(o) \/ DropStream(o) \/ AbortStream(o) \/ OwnerDown(o)
             \/ FreeStream(o) \/ UncountStream(o)
      PROVE  UNCHANGED permitVars
  BY <1>2 DEF DropGuard, Unwound, Result, Returns, Abandons, DropStream,
     AbortStream, OwnerDown, FreeStream, UncountStream
<1>3. ASSUME \/ DropConnection \/ CloseConnection \/ FreeConnection \/ ServerDies
             \/ UNCHANGED vars
      PROVE  UNCHANGED permitVars
  BY <1>3 DEF DropConnection, CloseConnection, FreeConnection, ServerDies, vars
<1> QED BY NextCases, <1>1, <1>2, <1>3 DEF PermitAction

\* A direction is busy exactly while one call holds its permit.
LEMMA NextDatagram ==
  CountsInv /\ [Next]_vars => DatagramExclusive'
<1> SUFFICES ASSUME TypeOK, OwnershipInv, DatagramExclusive, [Next]_vars
             PROVE  DatagramExclusive'
  BY DEF CountsInv
<1> DEFINE Directions == {"dsend", "drecv"}
           Of(d) == {p \in permits : kind[p] = d}
           OfNext(d) == {p \in permits' : kind[p] = d}
<1>0. /\ UNCHANGED kind
      /\ \A d \in Directions : IsFiniteSet(Of(d)) /\ Cardinality(Of(d)) \in Nat
  <2>1. UNCHANGED kind
    BY BytesElsewhere DEF opVars
  <2>2. ASSUME NEW d \in Directions PROVE IsFiniteSet(Of(d))
    <3>1. Of(d) \in SUBSET Ops
      BY DEF TypeOK
    <3> QED BY <3>1, SizesAssumption, FS_Subset
  <2>3. ASSUME NEW d \in Directions PROVE Cardinality(Of(d)) \in Nat
    BY <2>2, FS_CardinalityType
  <2> QED BY <2>1, <2>2, <2>3
<1>1. SUFFICES ASSUME NEW d \in Directions
               PROVE  Cardinality(OfNext(d)) = IF busy'[d] THEN 1 ELSE 0
  BY <1>0 DEF DatagramExclusive
<1>2. Cardinality(Of(d)) = IF busy[d] THEN 1 ELSE 0
  BY DEF DatagramExclusive
<1>3. ASSUME UNCHANGED permitVars
      PROVE  Cardinality(OfNext(d)) = IF busy'[d] THEN 1 ELSE 0
  BY <1>2, <1>3 DEF permitVars
<1>4. ASSUME NEW o \in Ops, BeginDatagram(o)
      PROVE  Cardinality(OfNext(d)) = IF busy'[d] THEN 1 ELSE 0
  <2>1. kind[o] \in Directions
    BY <1>4 DEF BeginDatagram, At, OwnershipInv
  <2>2. CASE UNCHANGED permitVars
    BY <1>3, <2>2
  <2>3. CASE /\ ~busy[kind[o]]
             /\ busy' = [busy EXCEPT ![kind[o]] = TRUE]
             /\ permits' = permits \cup {o}
    <3>1. CASE kind[o] = d
      <4>1. ~busy[d] /\ busy'[d]
        BY <2>1, <2>3, <3>1 DEF TypeOK
      <4>2. Of(d) = {}
        BY <1>0, <1>2, <4>1, FS_EmptySet
      <4>3. OfNext(d) = {o}
        BY <2>3, <3>1, <4>2
      <4> QED BY <4>1, <4>3, FS_Singleton
    <3>2. CASE kind[o] # d
      <4>1. busy'[d] = busy[d] /\ OfNext(d) = Of(d)
        BY <2>1, <2>3, <3>2 DEF TypeOK
      <4> QED BY <1>2, <4>1
    <3> QED BY <3>1, <3>2
  <2> QED BY <1>4, <2>2, <2>3 DEF BeginDatagram
<1>5. ASSUME NEW o \in Ops, DropPermit(o)
      PROVE  Cardinality(OfNext(d)) = IF busy'[d] THEN 1 ELSE 0
  <2>1. /\ o \in permits /\ kind[o] \in Directions
        /\ permits' = permits \ {o}
        /\ busy' = [busy EXCEPT ![kind[o]] = FALSE]
    BY <1>5 DEF DropPermit, OwnershipInv
  <2>2. CASE kind[o] = d
    <3>1. ~busy'[d]
      BY <2>1, <2>2 DEF TypeOK
    <3>2. o \in Of(d) /\ OfNext(d) = Of(d) \ {o}
      BY <2>1, <2>2
    <3>3. Cardinality(OfNext(d)) = Cardinality(Of(d)) - 1
      BY <1>0, <3>2, FS_RemoveElement
    <3>4. Of(d) # {}
      BY <3>2
    <3>5. Cardinality(Of(d)) = 1
      BY <1>0, <1>2, <3>4, FS_EmptySet
    <3> QED BY <3>1, <3>3, <3>5
  <2>3. CASE kind[o] # d
    <3>1. busy'[d] = busy[d]
      BY <2>1, <2>3 DEF TypeOK
    <3>2. OfNext(d) = Of(d)
      BY <2>1, <2>3
    <3> QED BY <1>2, <3>1, <3>2
  <2> QED BY <2>2, <2>3
<1> QED BY PermitsElsewhere, <1>3, <1>4, <1>5 DEF PermitAction
------------------------------------------------------------------------------
(* The streams *)

Counted == {p \in Ops : stream[p] \in {"new", "open", "ending"}}

\* What a step does to the set of counted streams.
LEMMA CountedEffect ==
  ASSUME CountsInv, [Next]_vars
  PROVE  \/ UNCHANGED active /\ Counted' = Counted
         \/ \E o \in Ops : /\ active' = active + 1
                           /\ o \notin Counted /\ Counted' = Counted \cup {o}
         \/ \E o \in Ops : /\ active' = active - 1
                           /\ o \in Counted /\ Counted' = Counted \ {o}
<1> USE DEF CountsInv
<1>1. ASSUME NEW o \in Ops, CountStream(o)
      PROVE  active' = active + 1 /\ o \notin Counted /\ Counted' = Counted \cup {o}
  BY <1>1 DEF CountStream, At, Goes, StreamInv, Counted, TypeOK
<1>2. ASSUME NEW o \in Ops, UncountStream(o)
      PROVE  active' = active - 1 /\ o \in Counted /\ Counted' = Counted \ {o}
  BY <1>2 DEF UncountStream, Counted, TypeOK
<1>3. ASSUME NEW o \in Ops, MonitorOwner(o)
      PROVE  UNCHANGED active /\ Counted' = Counted
  BY <1>3 DEF MonitorOwner, At, StreamInv, Counted, TypeOK
<1>4. ASSUME NEW o \in Ops, AbortStream(o) \/ OwnerDown(o) \/ FreeStream(o)
      PROVE  UNCHANGED active /\ Counted' = Counted
  BY <1>4 DEF AbortStream, OwnerDown, FreeStream, Ends, Counted, TypeOK
<1>5. ASSUME NEW o \in Ops,
             \/ Begin(o) \/ BeginDatagram(o) \/ AddBytes(o) \/ LoadPeak(o)
             \/ RaisePeak(o) \/ StartOperation(o) \/ StreamArrives(o)
             \/ FutureEnds(o)
      PROVE  UNCHANGED <<active, stream>>
  BY <1>5 DEF Begin, BeginDatagram, AddBytes, LoadPeak, RaisePeak,
     StartOperation, StreamArrives, FutureEnds, streamVars
<1>6. ASSUME NEW o \in Ops,
             \/ WrapFails(o) \/ DropPermit(o) \/ DropGuard(o) \/ Unwound(o)
             \/ Result(o) \/ Returns(o) \/ Abandons(o) \/ DropStream(o)
      PROVE  UNCHANGED <<active, stream>>
  BY <1>6 DEF WrapFails, DropPermit, DropGuard, Unwound, Result, Returns,
     Abandons, DropStream, streamVars
<1>7. ASSUME \/ DropConnection \/ CloseConnection \/ FreeConnection \/ ServerDies
             \/ UNCHANGED vars
      PROVE  UNCHANGED <<active, stream>>
  BY <1>7 DEF DropConnection, CloseConnection, FreeConnection, ServerDies, vars,
     streamVars
<1>8. ASSUME UNCHANGED stream PROVE Counted' = Counted
  BY <1>8 DEF Counted
<1> QED
  BY NextCases, <1>1, <1>2, <1>3, <1>4, <1>5, <1>6, <1>7, <1>8

\* ACTIVE_STREAMS stays the number of counted streams and never wraps.
LEMMA NextActive ==
  CountsInv /\ [Next]_vars => ActiveStreamsExact' /\ active' \in Nat
<1> SUFFICES ASSUME CountsInv, [Next]_vars
             PROVE  ActiveStreamsExact' /\ active' \in Nat
  OBVIOUS
<1>1. active = Cardinality(Counted) /\ active \in Nat
  BY DEF CountsInv, ActiveStreamsExact, Counted, TypeOK
<1>2. IsFiniteSet(Counted)
  <2>1. Counted \in SUBSET Ops
    BY DEF Counted
  <2> QED BY <2>1, SizesAssumption, FS_Subset
<1>3. SUFFICES active' = Cardinality(Counted') /\ active' \in Nat
  BY DEF ActiveStreamsExact, Counted
<1>4. CASE UNCHANGED active /\ Counted' = Counted
  BY <1>1, <1>4
<1>5. ASSUME NEW o \in Ops, active' = active + 1,
             o \notin Counted, Counted' = Counted \cup {o}
      PROVE  active' = Cardinality(Counted') /\ active' \in Nat
  <2>1. Cardinality(Counted \cup {o}) = Cardinality(Counted) + 1
    BY <1>2, <1>5, FS_AddElement
  <2> QED BY <1>1, <1>5, <2>1
<1>6. ASSUME NEW o \in Ops, active' = active - 1,
             o \in Counted, Counted' = Counted \ {o}
      PROVE  active' = Cardinality(Counted') /\ active' \in Nat
  <2>1. Cardinality(Counted \ {o}) = Cardinality(Counted) - 1
    BY <1>2, <1>6, FS_RemoveElement
  <2>2. IsFiniteSet(Counted \ {o}) /\ Cardinality(Counted \ {o}) \in Nat
    BY <1>2, FS_RemoveElement, FS_CardinalityType
  <2>3. active' = Cardinality(Counted \ {o})
    BY <1>1, <1>6, <2>1
  <2> QED BY <1>6, <2>2, <2>3
<1> QED BY CountedEffect, <1>4, <1>5, <1>6
------------------------------------------------------------------------------
(* The invariant *)

Callers == {"ready", "awaiting", "returned", "timeout", "dead"}
Refs == {"none", "future", "inbox", "caller", "lost"}
Streams == {"none", "new", "open", "ending", "ended"}

\* The variables that only this lemma is about keep their types.
LEMMA NextType == CountsInv /\ [Next]_vars => TypeOK'
<1> SUFFICES ASSUME CountsInv, [Next]_vars PROVE TypeOK'
  OBVIOUS
<1> DEFINE CallTypes == /\ pc' \in [Ops -> Pcs]
                        /\ refused' \in [Ops -> BOOLEAN]
                        /\ cancelled' \in [Ops -> BOOLEAN]
                        /\ caller' \in [Ops -> Callers]
           ByteTypes == /\ current' \in [Ops -> Nat] /\ seen' \in [Ops -> Nat]
                        /\ guards' \subseteq Ops /\ peak' \in Nat /\ high' \in Nat
           PermitTypes == /\ permits' \subseteq Ops
                          /\ busy' \in [{"dsend", "drecv"} -> BOOLEAN]
           StreamTypes == stream' \in [Ops -> Streams] /\ ref' \in [Ops -> Refs]
           ConnTypes == /\ held' \in BOOLEAN /\ server' \in BOOLEAN
                        /\ released' \in {"no", "closed", "drop"}
           Others == CallTypes /\ ByteTypes /\ PermitTypes /\ StreamTypes /\ ConnTypes
<1>0. TypeOK /\ OwnershipInv /\ queued' \in Nat /\ active' \in Nat /\ UNCHANGED opVars
  BY NextQueued, NextActive, BytesElsewhere DEF CountsInv
<1>a. ASSUME UNCHANGED byteVars PROVE ByteTypes
  BY <1>0, <1>a DEF TypeOK, byteVars
<1>b. ASSUME UNCHANGED permitVars PROVE PermitTypes
  BY <1>0, <1>b DEF TypeOK, permitVars
<1>c. ASSUME UNCHANGED <<stream, ref>> PROVE StreamTypes
  BY <1>0, <1>c DEF TypeOK, Streams, Refs
<1>d. ASSUME UNCHANGED connVars PROVE ConnTypes
  BY <1>0, <1>d DEF TypeOK, connVars
<1>e. ASSUME UNCHANGED <<pc, callVars>> PROVE CallTypes
  BY <1>0, <1>e DEF TypeOK, callVars, Callers
<1>1. ASSUME NEW o \in Ops, Begin(o) PROVE Others
  <2>1. CallTypes
    BY <1>0, <1>1 DEF Begin, Goes, Refuses, TypeOK, Pcs, Callers, callVars
  <2> QED BY <1>1, <1>a, <1>b, <1>c, <1>d, <2>1 DEF Begin, streamVars
<1>2. ASSUME NEW o \in Ops, BeginDatagram(o) PROVE Others
  <2>1. CallTypes
    BY <1>0, <1>2 DEF BeginDatagram, Goes, Refuses, TypeOK, Pcs, Callers
  <2>2. PermitTypes
    BY <1>0, <1>2 DEF BeginDatagram, permitVars, TypeOK
  <2> QED BY <1>2, <1>a, <1>c, <1>d, <2>1, <2>2 DEF BeginDatagram, streamVars
<1>3. ASSUME NEW o \in Ops, AddBytes(o) PROVE Others
  <2>1. CallTypes
    BY <1>0, <1>3 DEF AddBytes, Goes, TypeOK, Pcs, Callers, callVars
  <2>2. size[o] \in Nat /\ queued \in Nat /\ high \in Nat
    BY <1>0, SizesAssumption DEF TypeOK
  <2>3. queued + size[o] \in Nat /\ high' \in {high, queued + size[o]}
    BY <1>3, <2>2, MaxOfTwo DEF AddBytes
  <2>4. ByteTypes
    BY <1>0, <1>3, <2>2, <2>3 DEF AddBytes, TypeOK
  <2> QED BY <1>3, <1>b, <1>c, <1>d, <2>1, <2>4 DEF AddBytes, streamVars
<1>4. ASSUME NEW o \in Ops, LoadPeak(o) \/ RaisePeak(o) PROVE Others
  <2>1. CallTypes
    BY <1>0, <1>4 DEF LoadPeak, RaisePeak, Goes, TypeOK, Pcs, Callers, callVars
  <2>2. ByteTypes
    BY <1>0, <1>4 DEF LoadPeak, RaisePeak, TypeOK
  <2> QED
    BY <1>4, <1>b, <1>c, <1>d, <2>1, <2>2 DEF LoadPeak, RaisePeak, streamVars
<1>5. ASSUME NEW o \in Ops, StartOperation(o) \/ StreamArrives(o) \/ FutureEnds(o)
      PROVE  Others
  <2>1. CallTypes
    BY <1>0, <1>5 DEF StartOperation, StreamArrives, FutureEnds, Goes, Refuses,
       TypeOK, Pcs, Callers, callVars
  <2> QED BY <1>5, <1>a, <1>b, <1>c, <1>d, <2>1 DEF StartOperation,
          StreamArrives, FutureEnds, streamVars
<1>6. ASSUME NEW o \in Ops, CountStream(o) \/ MonitorOwner(o) \/ WrapFails(o)
      PROVE  Others
  <2>1. CallTypes
    BY <1>0, <1>6 DEF CountStream, MonitorOwner, WrapFails, Goes, TypeOK, Pcs,
       Callers, callVars
  <2>2. StreamTypes
    BY <1>0, <1>6 DEF CountStream, MonitorOwner, WrapFails, TypeOK, Streams, Refs
  <2> QED BY <1>6, <1>a, <1>b, <1>d, <2>1, <2>2 DEF CountStream, MonitorOwner,
          WrapFails
<1>7. ASSUME NEW o \in Ops, DropPermit(o) PROVE Others
  <2>1. PermitTypes
    BY <1>0, <1>7 DEF DropPermit, OwnershipInv, TypeOK
  <2> QED BY <1>7, <1>a, <1>c, <1>d, <1>e, <2>1 DEF DropPermit, streamVars
<1>8. ASSUME NEW o \in Ops, DropGuard(o) PROVE Others
  <2>1. ByteTypes
    BY <1>0, <1>8 DEF DropGuard, TypeOK
  <2> QED BY <1>8, <1>b, <1>c, <1>d, <1>e, <2>1 DEF DropGuard, streamVars
<1>9. ASSUME NEW o \in Ops, Unwound(o) PROVE Others
  <2>1. CallTypes
    BY <1>0, <1>9 DEF Unwound, Goes, TypeOK, Pcs, Callers
  <2> QED BY <1>9, <1>a, <1>b, <1>c, <1>d, <2>1 DEF Unwound, streamVars
<1>10. ASSUME NEW o \in Ops, Result(o) \/ Returns(o) PROVE Others
  <2>1. CallTypes
    BY <1>0, <1>10 DEF Result, Returns, Goes, TypeOK, Pcs, Callers, callVars
  <2>2. StreamTypes
    BY <1>0, <1>10 DEF Result, Returns, Passes, TypeOK, Streams, Refs
  <2> QED BY <1>10, <1>a, <1>b, <1>d, <2>1, <2>2 DEF Result, Returns
<1>11. ASSUME NEW o \in Ops, Abandons(o) \/ DropStream(o) PROVE Others
  <2>1. CallTypes
    <3>1. InFuture(o) \in BOOLEAN
      BY DEF InFuture
    <3>2. cancelled' \in [Ops -> BOOLEAN]
      BY <1>0, <1>11, <3>1 DEF Abandons, DropStream, TypeOK
    <3> QED BY <1>0, <1>11, <3>2 DEF Abandons, DropStream, TypeOK, Callers
  <2>2. StreamTypes
    BY <1>0, <1>11 DEF Abandons, DropStream, Passes, TypeOK, Streams, Refs
  <2> QED BY <1>11, <1>a, <1>b, <1>d, <2>1, <2>2 DEF Abandons, DropStream
<1>12. ASSUME NEW o \in Ops,
              AbortStream(o) \/ OwnerDown(o) \/ FreeStream(o) \/ UncountStream(o)
       PROVE  Others
  <2>1. StreamTypes
    BY <1>0, <1>12 DEF AbortStream, OwnerDown, FreeStream, UncountStream, Ends,
       TypeOK, Streams, Refs
  <2> QED BY <1>12, <1>a, <1>b, <1>d, <1>e, <2>1 DEF AbortStream, OwnerDown,
          FreeStream, UncountStream
<1>13. ASSUME DropConnection \/ CloseConnection \/ FreeConnection \/ ServerDies
       PROVE  Others
  <2>1. ConnTypes
    BY <1>0, <1>13 DEF DropConnection, CloseConnection, FreeConnection,
       ServerDies, TypeOK
  <2> QED BY <1>13, <1>a, <1>b, <1>c, <1>e, <2>1 DEF DropConnection,
          CloseConnection, FreeConnection, ServerDies, streamVars
<1>14. ASSUME UNCHANGED vars PROVE Others
  BY <1>14, <1>a, <1>b, <1>c, <1>d, <1>e DEF vars, streamVars
<1>15. Others
  <2> HIDE DEF Others
  <2> QED
    BY NextCases, <1>1, <1>2, <1>3, <1>4, <1>5, <1>6, <1>7, <1>8, <1>9, <1>10,
       <1>11, <1>12, <1>13, <1>14
<1> QED BY <1>0, <1>15 DEF TypeOK, opVars, Callers, Streams, Refs

\* Every step leaves each stream with somebody who will end it.
LEMMA NextEnding == CountsInv /\ [Next]_vars => EndingInv'
<1> SUFFICES ASSUME TypeOK, OwnershipInv, StreamInv, EndingInv, [Next]_vars
             PROVE  EndingInv'
  BY DEF CountsInv
<1> DEFINE After == {"running", "count", "monitor", "closing", "unwind", "result", "done"}
<1>0. \A o \in Ops : cancelled[o] => pc[o] \in After
  BY DEF EndingInv, InFuture
<1> SUFFICES \A o \in Ops : /\ cancelled'[o] => pc'[o] \in After
                            /\ pc'[o] = "closing" => stream'[o] \in {"ending", "ended"}
                            /\ stream'[o] = "new" => pc'[o] = "monitor"
  BY DEF EndingInv, InFuture
<1>1. ASSUME NEW o \in Ops,
             \/ Begin(o) \/ BeginDatagram(o) \/ AddBytes(o) \/ LoadPeak(o)
             \/ RaisePeak(o) \/ StartOperation(o) \/ StreamArrives(o)
             \/ FutureEnds(o) \/ DropPermit(o) \/ DropGuard(o) \/ Unwound(o)
      PROVE  /\ UNCHANGED <<cancelled, stream>>
             /\ \A p \in Ops \ {o} : pc'[p] = pc[p]
             /\ \/ pc'[o] = pc[o]
                \/ /\ pc[o] \notin {"monitor", "closing", "done"} /\ pc'[o] # "closing"
                   /\ pc[o] \in After => pc'[o] \in After
  <2>1. CASE Begin(o) \/ BeginDatagram(o) \/ StartOperation(o)
    BY <2>1 DEF Begin, BeginDatagram, StartOperation, Refuses, At, Goes, TypeOK,
       streamVars
  <2>2. CASE AddBytes(o) \/ LoadPeak(o)
    BY <2>2 DEF AddBytes, LoadPeak, At, Goes, TypeOK, callVars, streamVars
  <2>3. CASE RaisePeak(o)
    BY <2>3 DEF RaisePeak, At, Goes, TypeOK, callVars, streamVars
  <2>4. CASE StreamArrives(o) \/ FutureEnds(o)
    BY <2>4 DEF StreamArrives, FutureEnds, At, Goes, TypeOK, callVars, streamVars
  <2>5. CASE DropPermit(o) \/ DropGuard(o)
    BY <2>5 DEF DropPermit, DropGuard, callVars, streamVars
  <2>6. CASE Unwound(o)
    BY <2>6 DEF Unwound, At, Goes, TypeOK, streamVars
  <2> QED BY <1>1, <2>1, <2>2, <2>3, <2>4, <2>5, <2>6
<1>2. ASSUME NEW o \in Ops,
             \/ Begin(o) \/ BeginDatagram(o) \/ AddBytes(o) \/ LoadPeak(o)
             \/ RaisePeak(o) \/ StartOperation(o) \/ StreamArrives(o)
             \/ FutureEnds(o) \/ DropPermit(o) \/ DropGuard(o) \/ Unwound(o)
      PROVE  \A p \in Ops : /\ cancelled'[p] => pc'[p] \in After
                            /\ pc'[p] = "closing" => stream'[p] \in {"ending", "ended"}
                            /\ stream'[p] = "new" => pc'[p] = "monitor"
  <2> HIDE DEF After
  <2> QED BY <1>0, <1>1, <1>2 DEF EndingInv
<1>3. ASSUME NEW o \in Ops, CountStream(o) \/ MonitorOwner(o) \/ WrapFails(o) \/ Result(o)
      PROVE  \A p \in Ops : /\ cancelled'[p] => pc'[p] \in After
                            /\ pc'[p] = "closing" => stream'[p] \in {"ending", "ended"}
                            /\ stream'[p] = "new" => pc'[p] = "monitor"
  <2>1. /\ UNCHANGED cancelled /\ pc'[o] \in After
        /\ \A p \in Ops \ {o} : pc'[p] = pc[p] /\ stream'[p] = stream[p]
        /\ pc'[o] = "closing" => stream'[o] = "ending"
        /\ \/ stream'[o] # "new"
           \/ pc'[o] = "monitor"
           \/ stream'[o] = stream[o] /\ pc[o] # "monitor"
    <3>1. CASE CountStream(o)
      BY <3>1 DEF CountStream, At, Goes, TypeOK, callVars
    <3>2. CASE MonitorOwner(o)
      BY <3>2 DEF MonitorOwner, At, Goes, TypeOK, callVars
    <3>3. CASE WrapFails(o) \/ Result(o)
      BY <3>3 DEF WrapFails, Result, At, Goes, TypeOK, callVars
    <3> QED BY <1>3, <3>1, <3>2, <3>3
  <2> QED BY <1>0, <2>1 DEF EndingInv
<1>4. ASSUME NEW o \in Ops,
             \/ Returns(o) \/ Abandons(o) \/ DropStream(o) \/ AbortStream(o)
             \/ OwnerDown(o) \/ FreeStream(o) \/ UncountStream(o)
      PROVE  \A p \in Ops : /\ cancelled'[p] => pc'[p] \in After
                            /\ pc'[p] = "closing" => stream'[p] \in {"ending", "ended"}
                            /\ stream'[p] = "new" => pc'[p] = "monitor"
  <2>1. /\ UNCHANGED pc
        /\ \A p \in Ops : cancelled'[p] => cancelled[p] \/ pc[p] \in After
        /\ \A p \in Ops : stream'[p] \in {stream[p], "ending", "ended"}
    <3>1. CASE Abandons(o)
      BY <3>1 DEF Abandons, InFuture, TypeOK
    <3>2. CASE Returns(o) \/ DropStream(o)
      BY <3>2 DEF Returns, DropStream
    <3>3. CASE AbortStream(o) \/ OwnerDown(o) \/ FreeStream(o) \/ UncountStream(o)
      BY <3>3 DEF AbortStream, OwnerDown, FreeStream, UncountStream, Ends,
         TypeOK,
         callVars
    <3> QED BY <1>4, <3>1, <3>2, <3>3
  <2> QED BY <1>0, <2>1 DEF EndingInv
<1>5. ASSUME \/ DropConnection \/ CloseConnection \/ FreeConnection \/ ServerDies
             \/ UNCHANGED vars
      PROVE  UNCHANGED <<pc, cancelled, stream>>
  BY <1>5 DEF DropConnection, CloseConnection, FreeConnection, ServerDies, vars,
     callVars, streamVars
<1>6. CASE UNCHANGED <<pc, cancelled, stream>>
  BY <1>0, <1>6 DEF EndingInv
<1> QED BY NextCases, <1>2, <1>3, <1>4, <1>5, <1>6

\* Every step leaves a connection that nobody holds with a call that somebody waits
\* for, or with a stream that somebody has.
LEMMA NextKeeper == CountsInv /\ [Next]_vars => KeeperInv'
<1> SUFFICES ASSUME TypeOK, StreamInv, KeeperInv, [Next]_vars
             PROVE  KeeperInv'
  BY DEF CountsInv
<1> DEFINE Kept(p) ==
      /\ stream'[p] # "none" => ref'[p] # "none"
      /\ ref'[p] = "future" => pc'[p] \in {"monitor", "closing", "result"}
      /\ pc'[p] \notin {"idle", "done"} /\ ~cancelled'[p] => caller'[p] = "awaiting"
<1> SUFFICES \A p \in Ops : Kept(p)
  BY DEF KeeperInv
<1> DEFINE Same(p) == /\ pc'[p] = pc[p] /\ caller'[p] = caller[p] /\ ref'[p] = ref[p]
                      /\ cancelled'[p] = cancelled[p] /\ stream'[p] = stream[p]
<1>0. ASSUME NEW p \in Ops, Same(p) PROVE Kept(p)
  BY <1>0 DEF KeeperInv
<1>1. ASSUME NEW o \in Ops,
             \/ Begin(o) \/ BeginDatagram(o) \/ AddBytes(o) \/ LoadPeak(o)
             \/ RaisePeak(o) \/ StartOperation(o) \/ StreamArrives(o)
             \/ FutureEnds(o) \/ DropPermit(o) \/ DropGuard(o) \/ Unwound(o)
      PROVE  \A p \in Ops : Kept(p)
  <2>1. /\ UNCHANGED <<cancelled, stream, ref>>
        /\ \A p \in Ops \ {o} : pc'[p] = pc[p] /\ caller'[p] = caller[p]
        /\ \/ pc'[o] = pc[o]
           \/ pc[o] \notin {"monitor", "closing", "result"}
        /\ \/ caller'[o] = "awaiting"
           \/ pc'[o] = "done"
           \/ caller'[o] = caller[o] /\ pc[o] \notin {"idle", "done"}
    <3>1. CASE Begin(o) \/ BeginDatagram(o) \/ StartOperation(o)
      BY <3>1 DEF Begin, BeginDatagram, StartOperation, Refuses, At, Goes, TypeOK,
         streamVars
    <3>2. CASE AddBytes(o) \/ LoadPeak(o)
      BY <3>2 DEF AddBytes, LoadPeak, At, Goes, TypeOK, callVars, streamVars
    <3>3. CASE RaisePeak(o)
      BY <3>3 DEF RaisePeak, At, Goes, TypeOK, callVars, streamVars
    <3>4. CASE StreamArrives(o) \/ FutureEnds(o)
      BY <3>4 DEF StreamArrives, FutureEnds, At, Goes, TypeOK, callVars, streamVars
    <3>5. CASE DropPermit(o) \/ DropGuard(o)
      BY <3>5 DEF DropPermit, DropGuard, At, callVars, streamVars
    <3>6. CASE Unwound(o)
      BY <3>6 DEF Unwound, At, Goes, TypeOK, streamVars
    <3> QED BY <1>1, <3>1, <3>2, <3>3, <3>4, <3>5, <3>6
  <2>2. \A p \in Ops \ {o} : Same(p)
    BY <2>1
  <2>3. Kept(o)
    BY <2>1 DEF KeeperInv
  <2> QED BY <1>0, <2>2, <2>3
<1>2. ASSUME NEW o \in Ops, CountStream(o) \/ MonitorOwner(o) \/ WrapFails(o) \/ Result(o)
      PROVE  \A p \in Ops : Kept(p)
  <2>1. \A p \in Ops \ {o} : Same(p)
    BY <1>2 DEF CountStream, MonitorOwner, WrapFails, Result, Passes, Goes, TypeOK,
       callVars
  <2>2. CASE CountStream(o)
    BY <2>2 DEF CountStream, At, Goes, TypeOK, callVars, KeeperInv
  <2>3. CASE MonitorOwner(o)
    BY <2>3 DEF MonitorOwner, At, Goes, TypeOK, callVars, KeeperInv, StreamInv
  <2>4. CASE WrapFails(o)
    BY <2>4 DEF WrapFails, At, Goes, TypeOK, callVars, KeeperInv
  <2>5. CASE Result(o)
    BY <2>5 DEF Result, Passes, At, Goes, TypeOK, callVars, KeeperInv
  <2>6. Kept(o)
    BY <1>2, <2>2, <2>3, <2>4, <2>5
  <2> QED BY <1>0, <2>1, <2>6
<1>3. ASSUME NEW o \in Ops, Returns(o) \/ Abandons(o) \/ DropStream(o)
      PROVE  \A p \in Ops : Kept(p)
  <2>1. \A p \in Ops \ {o} : Same(p)
    BY <1>3 DEF Returns, Abandons, DropStream, Passes, TypeOK
  <2>2. CASE Returns(o)
    BY <2>2 DEF Returns, Passes, At, TypeOK, KeeperInv
  <2>3. CASE Abandons(o)
    <3>1. /\ UNCHANGED <<pc, stream>>
          /\ ref'[o] \in {ref[o], "lost"}
      BY <2>3 DEF Abandons, Passes, TypeOK
    <3>2. cancelled'[o] \/ pc[o] = "done"
      <4>1. CASE InFuture(o)
        BY <2>3, <4>1 DEF Abandons, TypeOK
      <4>2. CASE ~InFuture(o)
        BY <2>3, <4>2 DEF Abandons, At
      <4> QED BY <4>1, <4>2
    <3>3. /\ stream'[o] # "none" => ref'[o] # "none"
          /\ ref'[o] = "future" => pc'[o] \in {"monitor", "closing", "result"}
      BY <3>1 DEF KeeperInv
    <3>4. pc'[o] \in {"idle", "done"} \/ cancelled'[o]
      BY <3>1, <3>2
    <3> QED BY <1>0, <2>1, <3>3, <3>4
  <2>4. CASE DropStream(o)
    BY <2>4 DEF DropStream, TypeOK, KeeperInv
  <2>5. Kept(o)
    BY <1>3, <2>2, <2>3, <2>4
  <2> QED BY <1>0, <2>1, <2>5
<1>4. ASSUME NEW o \in Ops,
             AbortStream(o) \/ OwnerDown(o) \/ FreeStream(o) \/ UncountStream(o)
      PROVE  \A p \in Ops : Kept(p)
  <2>1. /\ UNCHANGED <<pc, cancelled, caller, ref>>
        /\ \A p \in Ops : stream[p] = "none" => stream'[p] = "none"
    BY <1>4 DEF AbortStream, OwnerDown, FreeStream, UncountStream, Ends, TypeOK,
       callVars
  <2> QED BY <2>1 DEF KeeperInv
<1>5. CASE \/ DropConnection \/ CloseConnection \/ FreeConnection \/ ServerDies
           \/ UNCHANGED vars
  BY <1>5 DEF DropConnection, CloseConnection, FreeConnection, ServerDies, vars,
     callVars, streamVars, KeeperInv
<1> QED BY NextCases, <1>1, <1>2, <1>3, <1>4, <1>5

\* Nothing is queued, held or counted before the first call.
LEMMA InitCounts == Init => CountsInv
<1> SUFFICES ASSUME Init PROVE CountsInv
  OBVIOUS
<1>1. TypeOK
  BY SizesAssumption DEF Init, TypeOK, Pcs
<1>2. QueuedExact
  <2>1. UNION {BytesOf(o) : o \in guards} = {} /\ queued = 0
    BY DEF Init
  <2> QED BY <2>1, FS_EmptySet DEF QueuedExact
<1>3. DatagramExclusive
  <2>1. \A d \in {"dsend", "drecv"} : {o \in permits : kind[o] = d} = {} /\ ~busy[d]
    BY DEF Init
  <2> QED BY <2>1, FS_EmptySet DEF DatagramExclusive
<1>4. ActiveStreamsExact
  <2>1. {o \in Ops : stream[o] \in {"new", "open", "ending"}} = {} /\ active = 0
    BY DEF Init
  <2> QED BY <2>1, FS_EmptySet DEF ActiveStreamsExact
<1>5. OwnershipInv /\ StreamInv /\ PeakInv /\ EndingInv /\ KeeperInv
  BY DEF Init, OwnershipInv, StreamInv, PeakInv, EndingInv, KeeperInv
<1> QED BY <1>1, <1>2, <1>3, <1>4, <1>5 DEF CountsInv

\* Whatever calls run, end, fail or are abandoned on a connection, in any order:
\* QUEUED_BYTES is the sum of the live QueueGuards, the busy flags are the live
\* permits and ACTIVE_STREAMS the streams not yet released, and none of the
\* unsigned counters wraps.
THEOREM CountersExact == Spec => []CountsInv
<1>1. CountsInv /\ [Next]_vars => CountsInv'
  BY NextType, NextQueued, NextDatagram, NextActive, NextCalls, NextPeak,
     NextEnding, NextKeeper DEF CountsInv
<1> QED BY InitCounts, <1>1, PTL DEF Spec

\* PEAK_QUEUED_BYTES is never above the largest value that QUEUED_BYTES had, and
\* equals it whenever no sender is inside QueueGuard::new's loop.
THEOREM PeakReachesHighest == Spec => []PeakExact
<1>1. CountsInv => PeakExact
  BY DEF CountsInv, PeakInv, PeakExact
<1> QED BY CountersExact, <1>1, PTL

\* A caller that has its result, or its NIF's error, owns no permit and no bytes.
THEOREM AnswerFreesAll == Spec => []ReturnedOwnsNothing
<1>1. CountsInv => ReturnedOwnsNothing
  BY DEF CountsInv, OwnershipInv, ReturnedOwnsNothing
<1> QED BY CountersExact, <1>1, PTL

\* Once the runtime has nothing left to do for a call, nothing of it survives its
\* owner: an abandoned call has given back its permit and its bytes, and a stream
\* whose owner died or whose last reference is gone has been ended and uncounted.
THEOREM OwnersTakeAllAlong == Spec => []NothingOutlivesItsOwner
<1>1. ASSUME CountsInv, NEW o \in Ops, Settled(o), cancelled[o]
      PROVE  At(o, "done") /\ o \notin permits \cup guards
  <2>1. pc[o] = "done"
    BY <1>1 DEF CountsInv, EndingInv, InFuture, Settled
  <2> QED BY <2>1, <1>1 DEF CountsInv, OwnershipInv, At
<1>2. ASSUME CountsInv, NEW o \in Ops, Settled(o), stream[o] # "none",
             ~server \/ ref[o] = "lost"
      PROVE  stream[o] = "ended"
  BY <1>2 DEF CountsInv, TypeOK, EndingInv, Settled
<1>3. CountsInv => NothingOutlivesItsOwner
  BY <1>1, <1>2 DEF NothingOutlivesItsOwner
<1> QED BY CountersExact, <1>3, PTL

\* A connection that is open although no process holds it has a user: when the
\* runtime and the destructor have nothing left to do, a caller waits for an
\* operation on it, or a process has one of its streams.
THEOREM UnusedConnectionEnds == Spec => []ForgottenIsReleased
<1>1. ASSUME CountsInv, NEW o \in Ops, Settled(o), pc[o] \notin {"idle", "done"}
      PROVE  At(o, "running") /\ caller[o] = "awaiting"
  <2>1. pc[o] # "closing"
    BY <1>1 DEF CountsInv, EndingInv, Settled
  <2>2. ~cancelled[o]
    BY <1>1, <2>1 DEF Settled
  <2>3. caller[o] = "awaiting"
    BY <1>1, <2>2 DEF CountsInv, KeeperInv
  <2> QED BY <1>1, <2>1, <2>3 DEF Settled, At
<1>2. ASSUME CountsInv, NEW o \in Ops, Settled(o), stream[o] # "none",
             ~(ref[o] = "lost" /\ stream[o] = "ended")
      PROVE  ref[o] \in {"inbox", "caller"}
  <2>1. ref[o] \in {"future", "inbox", "caller", "lost"}
    BY <1>2 DEF CountsInv, TypeOK, KeeperInv
  <2>2. ref[o] # "lost"
    BY <1>2 DEF CountsInv, TypeOK, Settled
  <2>3. ref[o] # "future"
    BY <1>1, <1>2 DEF CountsInv, KeeperInv, At
  <2> QED BY <2>1, <2>2, <2>3
<1>3. CountsInv => ForgottenIsReleased
  BY <1>1, <1>2 DEF ForgottenIsReleased, ConnectionKept
<1> QED BY CountersExact, <1>3, PTL
==============================================================================
