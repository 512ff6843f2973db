------------------------ MODULE ConnectionPoolProofs ------------------------
(***************************************************************************)
(* Proofs, for any finite set of operations and any limits, that pending   *)
(* accepts and connections stay within their limits, that every permit and *)
(* slot is given back exactly once, that an open QUIC connection never     *)
(* lacks a slot, and that connections whose server died or that nobody     *)
(* refers to, and abandoned operations, keep nothing.                      *)
(***************************************************************************)
EXTENDS ConnectionPool, FiniteSetTheorems, TLAPS

\* The steps of an operation and of its caller that touch neither the resource
\* nor the counters of connections.
QuietStep(o) ==
  \/ BeginAccept(o) \/ BeginConnect(o) \/ CloneEndpoint(o)
  \/ HandshakeFails(o) \/ FutureDropped(o) \/ WrapFailed(o)
  \/ FutureEnds(o) \/ Decide(o) \/ Send(o)
  \/ Receive(o) \/ TimesOut(o) \/ CallerDies(o) \/ Forget(o)

\* The next-state relation, one disjunct per action.
LEMMA NextCases ==
  ASSUME [Next]_vars
  PROVE  \/ \E o \in Ops :
              \/ QuietStep(o)
              \/ HandshakeDone(o) \/ Claim(o) \/ Wrap(o) \/ MonitorServer(o)
              \/ UserCloses(o) \/ ClosedWaitEnds(o) \/ Down(o) \/ Free(o)
              \/ PeerCloses(o)
         \/ \E o \in Ops, r \in Closers :
              \/ CloseSwap(o, r) \/ CloseNative(o, r)
              \/ CloseSlot(o, r) \/ CloseCount(o, r)
         \/ EndpointCloses \/ ServerExits
         \/ UNCHANGED vars
BY DEF Next, OpStep, AwaitStep, ConnStep, CloseStep, QuietStep

\* One closer of one connection moves, the others stay where they are.
LEMMA OneCloserMoves ==
  ASSUME rel \in [Ops -> [Closers -> ClosePcs]],
         NEW o \in Ops, NEW r \in Closers, NEW v \in ClosePcs,
         rel' = [rel EXCEPT ![o][r] = v]
  PROVE  /\ rel' \in [Ops -> [Closers -> ClosePcs]]
         /\ rel'[o][r] = v
         /\ \A s \in Closers \ {r} : rel'[o][s] = rel[o][s]
         /\ \A p \in Ops \ {o} : rel'[p] = rel[p]
OBVIOUS

\* The sets that the counters count are finite, and one element more or less
\* changes their cardinality by one.
LEMMA Counting ==
  ASSUME NEW S \in SUBSET Ops
  PROVE  /\ IsFiniteSet(S) /\ Cardinality(S) \in Nat
         /\ \A o \in Ops \ S : Cardinality(S \cup {o}) = Cardinality(S) + 1
         /\ \A o \in S : Cardinality(S \ {o}) = Cardinality(S) - 1
<1>1. IsFiniteSet(S)
  BY FS_Subset, LimitsAssumption
<1>2. Cardinality(S) \in Nat
  BY <1>1, FS_CardinalityType
<1>3. \A o \in Ops \ S : Cardinality(S \cup {o}) = Cardinality(S) + 1
  BY <1>1, FS_AddElement
<1>4. \A o \in S : Cardinality(S \ {o}) = Cardinality(S) - 1
  BY <1>1, FS_RemoveElement
<1> QED BY <1>1, <1>2, <1>3, <1>4

\* What a quiet step may do to the operation and to its reference.
LEMMA QuietEffect ==
  ASSUME TypeOK, NEW o \in Ops, QuietStep(o)
  PROVE  /\ UNCHANGED <<kind, conn, native, released, rel, monitor, claimed,
                        active, slot, server>>
         /\ pc' \in [Ops -> OpPcs] /\ \A p \in Ops \ {o} : pc'[p] = pc[p]
         /\ ref' \in [Ops -> {"none", "future", "inbox", "caller", "lost"}]
         /\ \A p \in Ops \ {o} : ref'[p] = ref[p]
         /\ \/ pc'[o] = pc[o]
            \/ pc[o] \in {"idle", "clone"} /\ pc'[o] \in {"clone", "running", "done"}
            \/ /\ pc[o] \in {"running", "closing", "permit", "result", "send"}
               /\ pc'[o] \in {"permit", "result", "send", "done"}
         /\ ref'[o] = ref[o] \/ ref[o] # "none" \/ pc[o] = "closing"
         /\ state' \in [Ops -> {"none", "RUNNING", "COMPLETED", "CANCELLED"}]
         /\ caller' \in [Ops -> {"ready", "awaiting", "returned", "timeout", "dead"}]
<1> USE DEF TypeOK, OpPcs, connVars, countVars, opVars, Goes, At
<1>1. CASE BeginAccept(o)
  BY <1>1 DEF BeginAccept, Refused
<1>2. CASE BeginConnect(o)
  BY <1>2 DEF BeginConnect
<1>3. CASE CloneEndpoint(o)
  <2>1. UNCHANGED <<kind, conn, ref, native, released, rel, monitor, claimed,
                    active, slot, server>>
    BY <1>3 DEF CloneEndpoint
  <2>2. CASE /\ pc[o] = "clone" /\ pc' = [pc EXCEPT ![o] = "running"]
             /\ state' = [state EXCEPT ![o] = "RUNNING"]
             /\ caller' = [caller EXCEPT ![o] = "awaiting"]
    <3>1. /\ pc' \in [Ops -> OpPcs] /\ pc'[o] = "running"
          /\ \A p \in Ops \ {o} : pc'[p] = pc[p]
      BY <2>2
    <3>2. /\ state' \in [Ops -> {"none", "RUNNING", "COMPLETED", "CANCELLED"}]
          /\ caller' \in [Ops -> {"ready", "awaiting", "returned", "timeout", "dead"}]
      BY <2>2
    <3> QED BY <2>1, <2>2, <3>1, <3>2
  <2>3. CASE /\ pc[o] = "clone" /\ pc' = [pc EXCEPT ![o] = "done"]
             /\ caller' = [caller EXCEPT ![o] = "returned"]
             /\ UNCHANGED state
    <3>1. /\ pc' \in [Ops -> OpPcs] /\ pc'[o] = "done"
          /\ \A p \in Ops \ {o} : pc'[p] = pc[p]
      BY <2>3
    <3>2. caller' \in [Ops -> {"ready", "awaiting", "returned", "timeout", "dead"}]
      BY <2>3
    <3> QED BY <2>1, <2>3, <3>1, <3>2
  <2> QED BY <1>3, <2>2, <2>3 DEF CloneEndpoint, Refused
<1>4. CASE HandshakeFails(o)
  BY <1>4 DEF HandshakeFails
<1>5. CASE FutureDropped(o)
  BY <1>5 DEF FutureDropped
<1>6. CASE WrapFailed(o)
  BY <1>6 DEF WrapFailed
<1>7. CASE FutureEnds(o)
  BY <1>7 DEF FutureEnds
<1>8. CASE Decide(o)
  <2>1. CASE state[o] = "RUNNING"
    BY <1>8, <2>1 DEF Decide
  <2>2. CASE state[o] # "RUNNING"
    <3>1. pc[o] = "result" /\ pc' = [pc EXCEPT ![o] = "done"] /\ state' = state
          /\ Moves(o, "lost")
      BY <1>8, <2>2 DEF Decide
    <3>2. /\ ref' \in [Ops -> {"none", "future", "inbox", "caller", "lost"}]
          /\ \A p \in Ops \ {o} : ref'[p] = ref[p]
          /\ ref'[o] = ref[o] \/ ref[o] # "none"
      BY <3>1 DEF Moves
    <3>3. UNCHANGED <<kind, conn, native, released, rel, monitor, claimed,
                      active, slot, server, caller>>
      BY <1>8 DEF Decide
    <3> QED BY <3>1, <3>2, <3>3
  <2> QED BY <2>1, <2>2
<1>9. CASE Send(o)
  BY <1>9 DEF Send, Moves
<1>10. CASE Receive(o)
  BY <1>10 DEF Receive
<1>11. CASE TimesOut(o)
  BY <1>11 DEF TimesOut
<1>12. CASE CallerDies(o)
  BY <1>12 DEF CallerDies
<1>13. CASE Forget(o)
  BY <1>13 DEF Forget
<1> QED
  BY <1>1, <1>2, <1>3, <1>4, <1>5, <1>6, <1>7, <1>8, <1>9, <1>10, <1>11, <1>12,
     <1>13 DEF QuietStep

\* The permits: begin_accept adds one below the limit, and the destructor takes
\* one away, once.
LEMMA NextPermits ==
  PoolInv /\ [Next]_vars =>
    PermitsExact' /\ permit' \in [Ops -> BOOLEAN] /\ pending' \in Nat
<1> SUFFICES ASSUME TypeOK, PermitsExact, LifeInv, [Next]_vars
             PROVE  PermitsExact' /\ permit' \in [Ops -> BOOLEAN] /\ pending' \in Nat
  BY DEF PoolInv
<1> DEFINE P == {o \in Ops : permit[o]}
<1>0. MaxAccepts \in Nat /\ pending = Cardinality(P) /\ pending <= MaxAccepts
  BY LimitsAssumption DEF PermitsExact
<1>1. CASE UNCHANGED <<permit, pending>>
  BY <1>1 DEF PermitsExact, TypeOK
<1>2. ASSUME NEW o \in Ops, BeginAccept(o), ~UNCHANGED <<permit, pending>>
      PROVE  PermitsExact' /\ permit' \in [Ops -> BOOLEAN] /\ pending' \in Nat
  <2>1. /\ pending < MaxAccepts /\ pending' = pending + 1 /\ ~permit[o]
        /\ permit' = [permit EXCEPT ![o] = TRUE]
    BY <1>2 DEF BeginAccept, At, LifeInv
  <2>2. P' = P \cup {o} /\ o \notin P
    BY <2>1 DEF TypeOK
  <2>3. Cardinality(P') = Cardinality(P) + 1
    BY <2>2, Counting
  <2> QED BY <1>0, <2>1, <2>3 DEF TypeOK, PermitsExact
<1>3. ASSUME NEW o \in Ops, DropPermit(o)
      PROVE  PermitsExact' /\ permit' \in [Ops -> BOOLEAN] /\ pending' \in Nat
  <2>1. permit' = [permit EXCEPT ![o] = FALSE]
    BY <1>3 DEF DropPermit
  <2>2. CASE permit[o]
    <3>1. P' = P \ {o} /\ o \in P
      BY <2>1, <2>2 DEF TypeOK
    <3>2. Cardinality(P') = Cardinality(P) - 1 /\ Cardinality(P') \in Nat
      BY <3>1, Counting
    <3>3. pending' = pending - 1
      BY <1>3, <2>2 DEF DropPermit
    <3> QED BY <1>0, <2>1, <3>2, <3>3 DEF TypeOK, PermitsExact
  <2>3. CASE ~permit[o]
    <3>1. permit' = permit /\ pending' = pending
      BY <1>3, <2>1, <2>3 DEF DropPermit, TypeOK
    <3> QED BY <1>1, <3>1
  <2> QED BY <2>2, <2>3
<1>4. ASSUME NEW o \in Ops, CloneEndpoint(o) \/ FutureEnds(o)
      PROVE  DropPermit(o) \/ UNCHANGED <<permit, pending>>
  BY <1>4 DEF CloneEndpoint, FutureEnds
<1>5. ASSUME NEW o \in Ops, QuietStep(o)
      PROVE  BeginAccept(o) \/ DropPermit(o) \/ UNCHANGED <<permit, pending>>
  BY <1>4, <1>5 DEF QuietStep, BeginConnect, HandshakeFails, FutureDropped,
     WrapFailed, Decide, Send, Receive, TimesOut, CallerDies, Forget, opVars,
     countVars
<1>6. ASSUME NEW o \in Ops, \/ HandshakeDone(o) \/ Claim(o) \/ Wrap(o)
                            \/ MonitorServer(o) \/ UserCloses(o)
                            \/ ClosedWaitEnds(o) \/ Down(o) \/ Free(o)
                            \/ PeerCloses(o)
      PROVE  UNCHANGED <<permit, pending>>
  BY <1>6 DEF HandshakeDone, Claim, Wrap, MonitorServer, UserCloses,
     ClosedWaitEnds, Down, Free, PeerCloses, opVars, countVars
<1>7. ASSUME NEW o \in Ops, NEW r \in Closers,
             \/ CloseSwap(o, r) \/ CloseNative(o, r)
             \/ CloseSlot(o, r) \/ CloseCount(o, r)
      PROVE  UNCHANGED <<permit, pending>>
  BY <1>7 DEF CloseSwap, CloseNative, CloseSlot, CloseCount, opVars, countVars
<1>8. ASSUME EndpointCloses \/ ServerExits \/ UNCHANGED vars
      PROVE  UNCHANGED <<permit, pending>>
  BY <1>8 DEF EndpointCloses, ServerExits, vars, opVars, countVars
<1> QED BY NextCases, <1>1, <1>2, <1>3, <1>5, <1>6, <1>7, <1>8

\* Every step keeps the types of the variables that are not counters.
LEMMA NextType ==
  PoolInv /\ [Next]_vars =>
    /\ kind' \in [Ops -> {"connect", "accept"}]
    /\ pc' \in [Ops -> OpPcs]
    /\ state' \in [Ops -> {"none", "RUNNING", "COMPLETED", "CANCELLED"}]
    /\ caller' \in [Ops -> {"ready", "awaiting", "returned", "timeout", "dead"}]
    /\ conn' \in [Ops -> {"none", "live", "freed"}]
    /\ ref' \in [Ops -> {"none", "future", "inbox", "caller", "lost"}]
    /\ native' \in [Ops -> {"none", "open", "closed"}]
    /\ released' \in [Ops -> BOOLEAN]
    /\ rel' \in [Ops -> [Closers -> ClosePcs]]
    /\ monitor' \in [Ops -> {"none", "set", "fired"}]
    /\ slot' \in BOOLEAN /\ server' \in BOOLEAN
<1> DEFINE Typed ==
      /\ kind \in [Ops -> {"connect", "accept"}]
      /\ pc \in [Ops -> OpPcs]
      /\ state \in [Ops -> {"none", "RUNNING", "COMPLETED", "CANCELLED"}]
      /\ caller \in [Ops -> {"ready", "awaiting", "returned", "timeout", "dead"}]
      /\ conn \in [Ops -> {"none", "live", "freed"}]
      /\ ref \in [Ops -> {"none", "future", "inbox", "caller", "lost"}]
      /\ native \in [Ops -> {"none", "open", "closed"}]
      /\ released \in [Ops -> BOOLEAN]
      /\ rel \in [Ops -> [Closers -> ClosePcs]]
      /\ monitor \in [Ops -> {"none", "set", "fired"}]
      /\ slot \in BOOLEAN /\ server \in BOOLEAN
<1> SUFFICES ASSUME TypeOK, [Next]_vars PROVE Typed'
  BY DEF PoolInv
<1>0. Typed
  BY DEF TypeOK
<1> USE <1>0 DEF opVars, connVars, countVars, Goes, At
<1>1. ASSUME NEW o \in Ops, QuietStep(o) PROVE Typed'
  BY <1>1, QuietEffect
<1>2. ASSUME NEW o \in Ops, HandshakeDone(o) PROVE Typed'
  BY <1>2 DEF HandshakeDone, OpPcs
<1>3. ASSUME NEW o \in Ops, Claim(o) PROVE Typed'
  BY <1>3 DEF Claim, OpPcs
<1>4. ASSUME NEW o \in Ops, Wrap(o) PROVE Typed'
  BY <1>4 DEF Wrap, OpPcs
<1>5. ASSUME NEW o \in Ops, MonitorServer(o) PROVE Typed'
  <2>1. CASE server
    BY <1>5, <2>1 DEF MonitorServer, OpPcs
  <2>2. CASE ~server
    <3>1. rel' = [rel EXCEPT ![o]["wrap"] = "swap"]
      BY <1>5, <2>2 DEF MonitorServer
    <3>2. rel' \in [Ops -> [Closers -> ClosePcs]]
      BY <3>1, OneCloserMoves DEF Closers, ClosePcs
    <3> QED BY <1>5, <2>2, <3>2 DEF MonitorServer, OpPcs
  <2> QED BY <2>1, <2>2
<1>6. ASSUME NEW o \in Ops, UserCloses(o) \/ ClosedWaitEnds(o) PROVE Typed'
  <2>1. /\ \E r \in Closers : rel' = [rel EXCEPT ![o][r] = "swap"]
        /\ UNCHANGED <<opVars, conn, ref, native, released, monitor, slot, server>>
    BY <1>6 DEF UserCloses, ClosedWaitEnds, Closers
  <2>2. rel' \in [Ops -> [Closers -> ClosePcs]]
    BY <2>1, OneCloserMoves DEF ClosePcs
  <2> QED BY <2>1, <2>2
<1>7. ASSUME NEW o \in Ops, Down(o) PROVE Typed'
  BY <1>7 DEF Down, Closers, ClosePcs
<1>8. ASSUME NEW o \in Ops, Free(o) PROVE Typed'
  BY <1>8 DEF Free, Closers, ClosePcs
<1>9. ASSUME NEW o \in Ops, PeerCloses(o) PROVE Typed'
  BY <1>9 DEF PeerCloses
<1>10. ASSUME NEW o \in Ops, NEW r \in Closers,
              \/ CloseSwap(o, r) \/ CloseNative(o, r)
              \/ CloseSlot(o, r) \/ CloseCount(o, r)
       PROVE  Typed'
  <2>1. \E v \in ClosePcs : rel' = [rel EXCEPT ![o][r] = v]
    BY <1>10 DEF CloseSwap, CloseNative, CloseSlot, CloseCount, CloseGoes,
       ClosePcs
  <2>2. rel' \in [Ops -> [Closers -> ClosePcs]]
    BY <2>1, OneCloserMoves
  <2>3. /\ UNCHANGED <<opVars, conn, ref, monitor, slot, server>>
        /\ native' = native \/ native' = [native EXCEPT ![o] = "closed"]
        /\ released' = released \/ released' = [released EXCEPT ![o] = TRUE]
    BY <1>10 DEF CloseSwap, CloseNative, CloseSlot, CloseCount
  <2> QED BY <2>2, <2>3
<1>11. ASSUME EndpointCloses \/ UNCHANGED vars PROVE Typed'
  BY <1>11 DEF EndpointCloses, vars
<1>12. ASSUME ServerExits PROVE Typed'
  BY <1>12 DEF ServerExits
<1> QED
  BY NextCases, <1>1, <1>2, <1>3, <1>4, <1>5, <1>6, <1>7, <1>8, <1>9, <1>10,
     <1>11, <1>12

\* How a closer begins: on a connection that exists, and never in the place of
\* one that is past its swap.
LEMMA CloserBegins ==
  ASSUME PoolInv, NEW o \in Ops,
         \/ UserCloses(o) \/ ClosedWaitEnds(o) \/ Down(o) \/ Free(o)
         \/ MonitorServer(o) /\ ~server
  PROVE  /\ conn[o] # "none" /\ conn'[o] # "none"
         /\ \A p \in Ops \ {o} : conn'[p] = conn[p] /\ pc'[p] = pc[p]
         /\ \A p \in Ops \ {o} : monitor'[p] = monitor[p]
         /\ monitor'[o] # "none" => monitor[o] # "none"
         /\ UNCHANGED <<permit, native, released, ref, claimed, active>>
         /\ pc'[o] = pc[o] \/ (pc[o] = "monitor" /\ pc'[o] = "closing")
         /\ \E r \in Closers :
              /\ rel[o][r] \in {"none", "done"}
              /\ rel' = [rel EXCEPT ![o][r] = "swap"]
              /\ r = "wrap" => pc[o] = "monitor" /\ pc'[o] = "closing"
              /\ r = "down" => monitor'[o] = "none" /\ pc[o] # "monitor"
              /\ monitor'[o] = monitor[o] \/ r = "down"
              /\ conn'[o] = conn[o] \/ r = "drop"
              /\ pc'[o] = pc[o] \/ r = "wrap"
         /\ UNCHANGED <<state, caller, server>>
<1> USE DEF opVars, countVars, Closers
<1>0. TypeOK /\ LifeInv
  BY DEF PoolInv
<1>1. CASE UserCloses(o)
  BY <1>0, <1>1 DEF UserCloses, LifeInv
<1>2. CASE ClosedWaitEnds(o)
  BY <1>0, <1>2 DEF ClosedWaitEnds, LifeInv
<1>3. CASE Down(o)
  BY <1>0, <1>3 DEF Down, LifeInv, TypeOK
<1>4. CASE Free(o)
  BY <1>0, <1>4 DEF Free, LifeInv, TypeOK
<1>5. CASE MonitorServer(o) /\ ~server
  BY <1>0, <1>5 DEF MonitorServer, LifeInv, TypeOK, At, Goes
<1> QED BY <1>1, <1>2, <1>3, <1>4, <1>5

\* The swap of `released` lets one closer through.
LEMMA NextOneCloser == PoolInv /\ [Next]_vars => OneCloser'
<1> SUFFICES ASSUME PoolInv, [Next]_vars PROVE OneCloser'
  OBVIOUS
<1>0. TypeOK /\ OneCloser /\ LifeInv /\ rel \in [Ops -> [Closers -> ClosePcs]]
  BY DEF PoolInv, TypeOK
<1>1. CASE UNCHANGED <<rel, released, native>>
  BY <1>0, <1>1 DEF OneCloser
<1>2. ASSUME NEW o \in Ops,
             \/ UserCloses(o) \/ ClosedWaitEnds(o) \/ Down(o) \/ Free(o)
             \/ MonitorServer(o) /\ ~server
      PROVE  OneCloser'
  <2>1. PICK r \in Closers : rel' = [rel EXCEPT ![o][r] = "swap"]
    BY <1>2, CloserBegins
  <2>2. /\ rel'[o][r] = "swap"
        /\ \A s \in Closers \ {r} : rel'[o][s] = rel[o][s]
        /\ \A p \in Ops \ {o} : rel'[p] = rel[p]
    BY <1>0, <2>1, OneCloserMoves DEF ClosePcs
  <2>3. UNCHANGED <<released, native>>
    BY <1>2, CloserBegins
  <2> QED BY <1>0, <2>2, <2>3 DEF OneCloser
<1>3. ASSUME NEW o \in Ops, HandshakeDone(o) \/ Claim(o) \/ PeerCloses(o)
      PROVE  OneCloser'
  <2>1. /\ UNCHANGED <<rel, released>> /\ \A p \in Ops \ {o} : native'[p] = native[p]
        /\ native'[o] \in {native[o], "closed"} \/ pc[o] = "running"
    BY <1>0, <1>3 DEF HandshakeDone, Claim, PeerCloses, TypeOK, At
  <2>2. pc[o] = "running" => \A r \in Closers : rel[o][r] = "none"
    BY <1>0 DEF LifeInv
  <2> QED BY <1>0, <2>1, <2>2 DEF OneCloser
<1>4. ASSUME NEW o \in Ops, NEW r \in Closers, CloseSwap(o, r) PROVE OneCloser'
  <2>1. /\ rel' = [rel EXCEPT ![o][r] = IF released[o] THEN "done" ELSE "native"]
        /\ released' = [released EXCEPT ![o] = TRUE] /\ native' = native
    BY <1>4 DEF CloseSwap, CloseGoes
  <2>2. /\ rel'[o][r] = IF released[o] THEN "done" ELSE "native"
        /\ \A s \in Closers \ {r} : rel'[o][s] = rel[o][s]
        /\ \A p \in Ops \ {o} : rel'[p] = rel[p]
    BY <1>0, <2>1, OneCloserMoves DEF ClosePcs
  <2>3. released'[o] /\ \A p \in Ops \ {o} : released'[p] = released[p]
    BY <1>0, <2>1 DEF TypeOK
  <2> QED BY <1>0, <2>1, <2>2, <2>3 DEF OneCloser
<1>5. ASSUME NEW o \in Ops, NEW r \in Closers,
             CloseNative(o, r) \/ CloseSlot(o, r) \/ CloseCount(o, r)
      PROVE  OneCloser'
  <2>1. /\ rel[o][r] \in {"native", "slot", "count"} /\ released' = released
        /\ \E v \in {"slot", "count", "done"} : rel' = [rel EXCEPT ![o][r] = v]
    BY <1>5 DEF CloseNative, CloseSlot, CloseCount, CloseGoes, CloseAt
  <2>2. /\ rel'[o][r] \in {"slot", "count", "done"}
        /\ \A s \in Closers \ {r} : rel'[o][s] = rel[o][s]
        /\ \A p \in Ops \ {o} : rel'[p] = rel[p]
    BY <1>0, <2>1, OneCloserMoves DEF ClosePcs
  <2>3. native'[o] = "closed" /\ \A p \in Ops \ {o} : native'[p] = native[p]
    BY <1>0, <1>5 DEF CloseNative, CloseSlot, CloseCount, CloseAt, TypeOK,
       OneCloser
  <2> QED BY <1>0, <2>1, <2>2, <2>3 DEF OneCloser
<1>6. ASSUME NEW o \in Ops,
             QuietStep(o) \/ Wrap(o) \/ (MonitorServer(o) /\ server)
      PROVE  UNCHANGED <<rel, released, native>>
  BY <1>0, <1>6, QuietEffect DEF Wrap, MonitorServer
<1>7. ASSUME EndpointCloses \/ ServerExits \/ UNCHANGED vars
      PROVE  UNCHANGED <<rel, released, native>>
  BY <1>7 DEF EndpointCloses, ServerExits, vars, connVars
<1> QED BY NextCases, <1>1, <1>2, <1>3, <1>4, <1>5, <1>6, <1>7

LEMMA NextLife == PoolInv /\ [Next]_vars => LifeInv'
<1> SUFFICES ASSUME PoolInv, [Next]_vars PROVE LifeInv'
  OBVIOUS
<1>0. TypeOK /\ LifeInv /\ rel \in [Ops -> [Closers -> ClosePcs]]
  BY DEF PoolInv, TypeOK
<1>1. ASSUME NEW o \in Ops, QuietStep(o) PROVE LifeInv'
  <2>1. pc'[o] = "idle" => pc[o] = "idle" /\ permit'[o] = permit[o]
    BY <1>0, <1>1 DEF QuietStep, BeginAccept, BeginConnect, CloneEndpoint,
       Refused,
       HandshakeFails, FutureDropped, WrapFailed, FutureEnds, Decide, Send,
       Receive, TimesOut, CallerDies, Forget, opVars, Goes, At, TypeOK
  <2>2. \A p \in Ops \ {o} : permit'[p] = permit[p]
    BY <1>0, <1>1 DEF QuietStep, BeginAccept, BeginConnect, CloneEndpoint,
       HandshakeFails, FutureDropped, WrapFailed, FutureEnds, Decide, Send,
       Receive, TimesOut, CallerDies, Forget, opVars, DropPermit, TypeOK
  <2>3. /\ UNCHANGED <<conn, released, rel, monitor>>
        /\ \A p \in Ops \ {o} : pc'[p] = pc[p] /\ ref'[p] = ref[p]
        /\ \/ pc'[o] = pc[o]
           \/ pc[o] \in {"idle", "clone"} /\ pc'[o] \in {"clone", "running", "done"}
           \/ /\ pc[o] \in {"running", "closing", "permit", "result", "send"}
              /\ pc'[o] \in {"permit", "result", "send", "done"}
        /\ ref'[o] = ref[o] \/ ref[o] # "none" \/ pc[o] = "closing"
    BY <1>0, <1>1, QuietEffect
  <2> QED BY <1>0, <2>1, <2>2, <2>3 DEF LifeInv
<1>2. ASSUME NEW o \in Ops,
             \/ UserCloses(o) \/ ClosedWaitEnds(o) \/ Down(o) \/ Free(o)
             \/ MonitorServer(o) /\ ~server
      PROVE  LifeInv'
  <2>1. PICK r \in Closers : /\ rel' = [rel EXCEPT ![o][r] = "swap"]
                             /\ r = "wrap" => pc[o] = "monitor" /\ pc'[o] = "closing"
                             /\ r = "down" => monitor'[o] = "none" /\ pc[o] # "monitor"
    BY <1>2, CloserBegins
  <2>2. /\ rel'[o][r] = "swap"
        /\ \A s \in Closers \ {r} : rel'[o][s] = rel[o][s]
        /\ \A p \in Ops \ {o} : rel'[p] = rel[p]
    BY <1>0, <2>1, OneCloserMoves DEF ClosePcs
  <2>3. /\ conn[o] # "none" /\ conn'[o] # "none"
        /\ \A p \in Ops \ {o} : conn'[p] = conn[p] /\ pc'[p] = pc[p]
        /\ \A p \in Ops \ {o} : monitor'[p] = monitor[p]
        /\ monitor'[o] # "none" => monitor[o] # "none"
        /\ UNCHANGED <<permit, released, ref>>
        /\ pc'[o] = pc[o] \/ (pc[o] = "monitor" /\ pc'[o] = "closing")
    BY <1>2, CloserBegins
  <2> QED BY <1>0, <2>1, <2>2, <2>3 DEF LifeInv, Closers
<1>3. ASSUME NEW o \in Ops, HandshakeDone(o) \/ Claim(o) \/ PeerCloses(o)
      PROVE  LifeInv'
  <2>1. /\ UNCHANGED <<permit, conn, ref, released, rel, monitor>>
        /\ \A p \in Ops \ {o} : pc'[p] = pc[p]
        /\ \/ pc'[o] = pc[o]
           \/ pc[o] \in {"running", "claim"} /\ pc'[o] \in {"claim", "count", "permit"}
    BY <1>0, <1>3 DEF HandshakeDone, Claim, PeerCloses, opVars, At, Goes, TypeOK
  <2> QED BY <1>0, <2>1 DEF LifeInv
<1>4. ASSUME NEW o \in Ops, Wrap(o) PROVE LifeInv'
  <2>1. /\ pc[o] = "count" /\ pc'[o] = "monitor" /\ conn'[o] = "live"
        /\ \A p \in Ops \ {o} : pc'[p] = pc[p] /\ conn'[p] = conn[p] /\ ref'[p] = ref[p]
        /\ UNCHANGED <<permit, released, rel, monitor>>
    BY <1>0, <1>4 DEF Wrap, At, Goes, TypeOK
  <2>2. conn[o] = "none" /\ monitor[o] = "none" /\ \A r \in Closers : rel[o][r] = "none"
    BY <1>0, <2>1 DEF LifeInv
  <2> QED BY <1>0, <2>1, <2>2 DEF LifeInv, Closers
<1>5. ASSUME NEW o \in Ops, MonitorServer(o), server PROVE LifeInv'
  <2>1. /\ pc[o] = "monitor" /\ pc'[o] = "permit" /\ monitor'[o] = "set"
        /\ \A p \in Ops \ {o} : pc'[p] = pc[p] /\ monitor'[p] = monitor[p]
        /\ UNCHANGED <<permit, conn, ref, released, rel>>
    BY <1>0, <1>5 DEF MonitorServer, At, Goes, TypeOK
  <2> QED BY <1>0, <2>1 DEF LifeInv
<1>6. ASSUME NEW o \in Ops, NEW r \in Closers,
             \/ CloseSwap(o, r) \/ CloseNative(o, r)
             \/ CloseSlot(o, r) \/ CloseCount(o, r)
      PROVE  LifeInv'
  <2>1. /\ rel[o][r] \in {"swap", "native", "slot", "count"}
        /\ \E v \in ClosePcs : rel' = [rel EXCEPT ![o][r] = v]
    BY <1>6 DEF CloseSwap, CloseNative, CloseSlot, CloseCount, CloseAt,
       CloseGoes,
       ClosePcs
  <2>2. /\ \A s \in Closers \ {r} : rel'[o][s] = rel[o][s]
        /\ \A p \in Ops \ {o} : rel'[p] = rel[p]
    BY <1>0, <2>1, OneCloserMoves
  <2>3. /\ UNCHANGED <<pc, permit, conn, ref, monitor>>
        /\ \A p \in Ops \ {o} : released'[p] = released[p]
    BY <1>0, <1>6 DEF CloseSwap, CloseNative, CloseSlot, CloseCount, opVars,
       TypeOK
  <2>4. conn[o] # "none" /\ (r = "down" => monitor[o] = "none")
        /\ (r \in {"wrap", "down"} => pc[o] # "monitor")
    BY <1>0, <2>1 DEF LifeInv
  <2> QED BY <1>0, <2>2, <2>3, <2>4 DEF LifeInv, Closers
<1>7. ASSUME ServerExits PROVE LifeInv'
  <2>1. /\ \A p \in Ops : monitor'[p] # "none" <=> monitor[p] # "none"
        /\ UNCHANGED <<opVars, conn, ref, native, released, rel>>
    BY <1>0, <1>7 DEF ServerExits, TypeOK
  <2> QED BY <1>0, <2>1 DEF LifeInv, opVars
<1>8. ASSUME EndpointCloses \/ UNCHANGED vars PROVE LifeInv'
  BY <1>0, <1>8 DEF EndpointCloses, vars, opVars, connVars, LifeInv
<1> QED BY NextCases, <1>1, <1>2, <1>3, <1>4, <1>5, <1>6, <1>7, <1>8

\* The connections that hold a slot, and those that are counted.
Holders == {o \in Ops : HoldsSlot(o)}
Counts(o) ==
  /\ conn[o] # "none"
  /\ released[o] => \E r \in Closers : rel[o][r] \in {"native", "slot", "count"}
Counted == {o \in Ops : Counts(o)}

\* What each step does to the slots and to the count: Claim takes a slot, Wrap
\* counts, the one closer past the swap gives the slot back and then uncounts,
\* and nothing else changes either.
LEMMA SlotEffect ==
  ASSUME PoolInv, [Next]_vars
  PROVE  /\ \/ claimed' = claimed /\ Holders' = Holders
            \/ \E o \in Ops \ Holders : /\ claimed < MaxConnections
                                        /\ claimed' = claimed + 1
                                        /\ Holders' = Holders \cup {o}
            \/ \E o \in Holders : claimed' = claimed - 1 /\ Holders' = Holders \ {o}
         /\ \/ active' = active /\ Counted' = Counted
            \/ \E o \in Ops \ Counted : active' = active + 1
                                        /\ Counted' = Counted \cup {o}
            \/ \E o \in Counted : active' = active - 1 /\ Counted' = Counted \ {o}
<1> DEFINE SameSlots == claimed' = claimed /\ Holders' = Holders
           SameCount == active' = active /\ Counted' = Counted
<1>0. TypeOK /\ OneCloser /\ LifeInv /\ rel \in [Ops -> [Closers -> ClosePcs]]
  BY DEF PoolInv, TypeOK
<1>1. ASSUME UNCHANGED <<conn, released, rel, claimed, active>>,
             \A o \in Ops : pc'[o] = "count" <=> pc[o] = "count"
      PROVE  SameSlots /\ SameCount
  BY <1>1 DEF Holders, Counted, Counts, HoldsSlot
<1>2. ASSUME NEW o \in Ops, QuietStep(o) PROVE SameSlots /\ SameCount
  <2>1. UNCHANGED <<conn, released, rel, claimed, active>>
        /\ \A p \in Ops : pc'[p] = "count" <=> pc[p] = "count"
    BY <1>0, <1>2, QuietEffect
  <2> QED BY <1>1, <2>1
<1>3. ASSUME NEW o \in Ops,
             \/ UserCloses(o) \/ ClosedWaitEnds(o) \/ Down(o) \/ Free(o)
             \/ MonitorServer(o) /\ ~server
      PROVE  SameSlots /\ SameCount
  <2>1. PICK r \in Closers : /\ rel[o][r] \in {"none", "done"}
                             /\ rel' = [rel EXCEPT ![o][r] = "swap"]
    BY <1>3, CloserBegins
  <2>2. /\ rel'[o][r] = "swap"
        /\ \A s \in Closers \ {r} : rel'[o][s] = rel[o][s]
        /\ \A p \in Ops \ {o} : rel'[p] = rel[p]
    BY <1>0, <2>1, OneCloserMoves DEF ClosePcs
  <2>3. /\ conn[o] # "none" /\ conn'[o] # "none"
        /\ \A p \in Ops \ {o} : conn'[p] = conn[p] /\ pc'[p] = pc[p]
        /\ UNCHANGED <<released, claimed, active>>
        /\ pc'[o] = pc[o] \/ (pc[o] = "monitor" /\ pc'[o] = "closing")
    BY <1>3, CloserBegins
  <2>4. \A p \in Ops : (HoldsSlot(p)' <=> HoldsSlot(p)) /\ (Counts(p)' <=> Counts(p))
    BY <2>1, <2>2, <2>3 DEF HoldsSlot, Counts
  <2> QED BY <2>3, <2>4 DEF Holders, Counted
<1>4. ASSUME NEW o \in Ops, HandshakeDone(o) \/ PeerCloses(o)
      PROVE  SameSlots /\ SameCount
  <2>1. UNCHANGED <<conn, released, rel, claimed, active>>
        /\ \A p \in Ops : pc'[p] = "count" <=> pc[p] = "count"
    BY <1>0, <1>4 DEF HandshakeDone, PeerCloses, opVars, countVars, At, Goes,
       TypeOK
  <2> QED BY <1>1, <2>1
<1>5. ASSUME NEW o \in Ops, Claim(o)
      PROVE  /\ \/ SameSlots
                \/ /\ o \notin Holders /\ claimed < MaxConnections
                   /\ claimed' = claimed + 1 /\ Holders' = Holders \cup {o}
             /\ SameCount
  <2>1. /\ pc[o] = "claim" /\ conn[o] = "none"
        /\ UNCHANGED <<conn, released, rel, active>>
        /\ \A p \in Ops \ {o} : pc'[p] = pc[p]
        /\ \/ claimed' = claimed /\ pc'[o] = "permit"
           \/ /\ claimed < MaxConnections /\ claimed' = claimed + 1
              /\ pc'[o] = "count"
    BY <1>0, <1>5 DEF Claim, At, Goes, LifeInv, TypeOK
  <2>2. CASE claimed' = claimed /\ pc'[o] = "permit"
    BY <1>1, <2>1, <2>2
  <2>3. CASE claimed < MaxConnections /\ claimed' = claimed + 1 /\ pc'[o] = "count"
    <3>1. HoldsSlot(o)' /\ ~HoldsSlot(o)
      BY <2>1, <2>3 DEF HoldsSlot
    <3>2. \A p \in Ops \ {o} : HoldsSlot(p)' <=> HoldsSlot(p)
      BY <2>1 DEF HoldsSlot
    <3>3. SameCount
      BY <2>1 DEF Counted, Counts
    <3> QED BY <2>3, <3>1, <3>2, <3>3 DEF Holders
  <2> QED BY <2>1, <2>2, <2>3
<1>6. ASSUME NEW o \in Ops, Wrap(o)
      PROVE  /\ SameSlots
             /\ o \notin Counted /\ active' = active + 1 /\ Counted' = Counted \cup {o}
  <2>1. /\ pc[o] = "count" /\ conn[o] = "none" /\ ~released[o]
        /\ UNCHANGED <<released, rel, claimed>> /\ active' = active + 1
        /\ pc'[o] = "monitor" /\ conn'[o] = "live"
        /\ \A p \in Ops \ {o} : pc'[p] = pc[p] /\ conn'[p] = conn[p]
    BY <1>0, <1>6 DEF Wrap, At, Goes, LifeInv, TypeOK
  <2>2. \A p \in Ops : HoldsSlot(p)' <=> HoldsSlot(p)
    BY <2>1 DEF HoldsSlot
  <2>3. /\ ~Counts(o) /\ Counts(o)'
        /\ \A p \in Ops \ {o} : Counts(p)' <=> Counts(p)
    BY <2>1 DEF Counts
  <2> QED BY <2>1, <2>2, <2>3 DEF Holders, Counted
<1>7. ASSUME NEW o \in Ops, MonitorServer(o), server PROVE SameSlots /\ SameCount
  <2>1. UNCHANGED <<conn, released, rel, claimed, active>>
        /\ \A p \in Ops : pc'[p] = "count" <=> pc[p] = "count"
    BY <1>0, <1>7 DEF MonitorServer, countVars, At, Goes, TypeOK
  <2> QED BY <1>1, <2>1
<1>8. ASSUME NEW o \in Ops, NEW r \in Closers,
             CloseSwap(o, r) \/ CloseNative(o, r) \/ CloseSlot(o, r) \/ CloseCount(o, r)
      PROVE  /\ conn[o] # "none" /\ UNCHANGED <<pc, conn>> /\ pc[o] # "count"
             /\ \A s \in Closers \ {r} : rel'[o][s] = rel[o][s]
             /\ \A p \in Ops \ {o} : rel'[p] = rel[p] /\ released'[p] = released[p]
             /\ \A p \in Ops \ {o} : /\ HoldsSlot(p)' <=> HoldsSlot(p)
                                     /\ Counts(p)' <=> Counts(p)
  <2>1. /\ rel[o][r] # "none" /\ UNCHANGED <<pc, conn>>
        /\ \A p \in Ops \ {o} : released'[p] = released[p]
    BY <1>0, <1>8 DEF CloseSwap, CloseNative, CloseSlot, CloseCount, CloseAt,
       opVars,
       TypeOK
  <2>2. \E v \in ClosePcs : rel' = [rel EXCEPT ![o][r] = v]
    BY <1>8 DEF CloseSwap, CloseNative, CloseSlot, CloseCount, CloseGoes,
       ClosePcs
  <2>3. /\ \A s \in Closers \ {r} : rel'[o][s] = rel[o][s]
        /\ \A p \in Ops \ {o} : rel'[p] = rel[p]
    BY <1>0, <2>2, OneCloserMoves
  <2>4. conn[o] # "none" /\ pc[o] # "count"
    BY <1>0, <2>1 DEF LifeInv
  <2> QED BY <2>1, <2>3, <2>4 DEF HoldsSlot, Counts
<1>9. ASSUME NEW o \in Ops, NEW r \in Closers, CloseSwap(o, r) \/ CloseNative(o, r)
      PROVE  SameSlots /\ SameCount
  <2>1. /\ rel[o][r] \in {"swap", "native"} /\ UNCHANGED <<claimed, active>>
        /\ \/ released[o] /\ released'[o] /\ rel[o][r] = "swap" /\ rel'[o][r] = "done"
           \/ ~released[o] /\ released'[o] /\ rel'[o][r] = "native"
           \/ rel[o][r] = "native" /\ rel'[o][r] = "slot" /\ released'[o] = released[o]
    <3>1. CASE CloseSwap(o, r)
      BY <1>0, <3>1 DEF CloseSwap, CloseAt, CloseGoes, countVars, TypeOK
    <3>2. CASE CloseNative(o, r)
      BY <1>0, <3>2 DEF CloseNative, CloseAt, CloseGoes, countVars, TypeOK
    <3> QED BY <1>9, <3>1, <3>2
  <2>2. (HoldsSlot(o)' <=> HoldsSlot(o)) /\ (Counts(o)' <=> Counts(o))
    BY <1>8, <1>9, <2>1 DEF HoldsSlot, Counts
  <2>3. \A p \in Ops : (HoldsSlot(p)' <=> HoldsSlot(p)) /\ (Counts(p)' <=> Counts(p))
    BY <1>8, <1>9, <2>2
  <2> QED BY <2>1, <2>3 DEF Holders, Counted
<1>10. ASSUME NEW o \in Ops, NEW r \in Closers, CloseSlot(o, r)
       PROVE  /\ o \in Holders /\ claimed' = claimed - 1 /\ Holders' = Holders \ {o}
              /\ SameCount
  <2>1. /\ rel[o][r] = "slot" /\ rel'[o][r] = "count" /\ released' = released
        /\ claimed' = claimed - 1 /\ active' = active
    BY <1>0, <1>10 DEF CloseSlot, CloseAt, CloseGoes, TypeOK
  <2>2. released[o] /\ \A s \in Closers \ {r} : rel[o][s] \notin {"native", "slot"}
    BY <1>0, <2>1 DEF OneCloser
  <2>3. HoldsSlot(o) /\ ~HoldsSlot(o)' /\ Counts(o) /\ Counts(o)'
    BY <1>8, <1>10, <2>1, <2>2 DEF HoldsSlot, Counts
  <2>4. \A p \in Ops \ {o} : (HoldsSlot(p)' <=> HoldsSlot(p)) /\ (Counts(p)' <=> Counts(p))
    BY <1>8, <1>10
  <2> QED BY <2>1, <2>3, <2>4 DEF Holders, Counted
<1>11. ASSUME NEW o \in Ops, NEW r \in Closers, CloseCount(o, r)
       PROVE  /\ o \in Counted /\ active' = active - 1 /\ Counted' = Counted \ {o}
              /\ SameSlots
  <2>1. /\ rel[o][r] = "count" /\ rel'[o][r] = "done" /\ released' = released
        /\ active' = active - 1 /\ claimed' = claimed
    BY <1>0, <1>11 DEF CloseCount, CloseAt, CloseGoes, TypeOK
  <2>2. released[o] /\ \A s \in Closers \ {r} :
                         rel[o][s] \notin {"native", "slot", "count"}
    BY <1>0, <2>1 DEF OneCloser
  <2>3. ~HoldsSlot(o) /\ ~HoldsSlot(o)' /\ Counts(o) /\ ~Counts(o)'
    BY <1>8, <1>11, <2>1, <2>2 DEF HoldsSlot, Counts
  <2>4. \A p \in Ops \ {o} : (HoldsSlot(p)' <=> HoldsSlot(p)) /\ (Counts(p)' <=> Counts(p))
    BY <1>8, <1>11
  <2> QED BY <2>1, <2>3, <2>4 DEF Holders, Counted
<1>12. ASSUME EndpointCloses \/ ServerExits \/ UNCHANGED vars
       PROVE  SameSlots /\ SameCount
  <2>1. UNCHANGED <<pc, conn, released, rel, claimed, active>>
    BY <1>12 DEF EndpointCloses, ServerExits, vars, opVars, connVars, countVars
  <2> QED BY <1>1, <2>1
<1>13. CASE SameSlots /\ SameCount
  BY <1>13
<1>14. ASSUME NEW o \in Ops, Claim(o) \/ Wrap(o)
       PROVE  \/ SameSlots /\ o \in Ops \ Counted /\ active' = active + 1
                 /\ Counted' = Counted \cup {o}
              \/ SameSlots /\ SameCount
              \/ SameCount /\ o \in Ops \ Holders /\ claimed < MaxConnections
                 /\ claimed' = claimed + 1 /\ Holders' = Holders \cup {o}
  BY <1>5, <1>6, <1>14
<1> HIDE DEF SameSlots, SameCount
<1>15. CASE \E o \in Ops : Claim(o) \/ Wrap(o)
  BY <1>14, <1>15 DEF SameSlots, SameCount
<1>16. CASE \E o \in Ops, r \in Closers : CloseSlot(o, r)
  BY <1>10, <1>16 DEF SameSlots, SameCount
<1>17. CASE \E o \in Ops, r \in Closers : CloseCount(o, r)
  BY <1>11, <1>17 DEF SameSlots, SameCount
<1> QED
  BY NextCases, <1>2, <1>3, <1>4, <1>7, <1>9, <1>12, <1>13, <1>15, <1>16, <1>17

\* active_connections is exact and within its limit, and ACTIVE_CONNECTIONS is
\* exact.
LEMMA NextSlots ==
  PoolInv /\ [Next]_vars => /\ SlotsExact' /\ ActiveConnectionsExact'
                            /\ claimed' \in Nat /\ active' \in Nat
<1> SUFFICES ASSUME PoolInv, [Next]_vars
             PROVE  /\ claimed' = Cardinality(Holders') /\ claimed' <= MaxConnections
                    /\ active' = Cardinality(Counted')
                    /\ claimed' \in Nat /\ active' \in Nat
  BY DEF SlotsExact, ActiveConnectionsExact, Holders, Counted, Counts
<1>0. /\ claimed = Cardinality(Holders) /\ claimed <= MaxConnections
      /\ active = Cardinality(Counted) /\ claimed \in Nat /\ active \in Nat
      /\ MaxConnections \in Nat /\ Holders \subseteq Ops /\ Counted \subseteq Ops
  BY LimitsAssumption DEF PoolInv, TypeOK, SlotsExact, ActiveConnectionsExact,
     Holders, Counted, Counts
<1>1. \/ claimed' = claimed /\ Holders' = Holders
      \/ \E o \in Ops \ Holders : /\ claimed < MaxConnections
                                  /\ claimed' = claimed + 1
                                  /\ Holders' = Holders \cup {o}
      \/ \E o \in Holders : claimed' = claimed - 1 /\ Holders' = Holders \ {o}
  BY SlotEffect
<1>2. \/ active' = active /\ Counted' = Counted
      \/ \E o \in Ops \ Counted : active' = active + 1 /\ Counted' = Counted \cup {o}
      \/ \E o \in Counted : active' = active - 1 /\ Counted' = Counted \ {o}
  BY SlotEffect
<1>3. Holders' \subseteq Ops /\ Counted' \subseteq Ops
  BY DEF Holders, Counted
<1>4. Cardinality(Holders') \in Nat /\ Cardinality(Counted') \in Nat
  BY <1>3, Counting
<1>5. claimed' = Cardinality(Holders') /\ claimed' <= MaxConnections
  BY <1>0, <1>1, Counting
<1>6. active' = Cardinality(Counted')
  BY <1>0, <1>2, Counting
<1> QED BY <1>4, <1>5, <1>6

\* The QUIC connection is closed before its slot is given back.
LEMMA NextOpen == PoolInv /\ [Next]_vars => OpenHoldsSlot'
<1> SUFFICES ASSUME PoolInv, [Next]_vars PROVE OpenHoldsSlot'
  OBVIOUS
<1>0. TypeOK /\ OpenHoldsSlot /\ OneCloser /\ LifeInv
      /\ rel \in [Ops -> [Closers -> ClosePcs]]
  BY DEF PoolInv, TypeOK
<1>1. ASSUME NEW o \in Ops, \A p \in Ops \ {o} : /\ native'[p] = native[p]
                                                 /\ pc'[p] = pc[p]
                                                 /\ conn'[p] = conn[p]
                                                 /\ released'[p] = released[p]
                                                 /\ rel'[p] = rel[p],
             native'[o] = "open" => pc'[o] = "claim" \/ HoldsSlot(o)'
      PROVE  OpenHoldsSlot'
  BY <1>0, <1>1 DEF OpenHoldsSlot, HoldsSlot
<1>2. ASSUME NEW o \in Ops, QuietStep(o) PROVE OpenHoldsSlot'
  <2>1. /\ UNCHANGED <<conn, native, released, rel>>
        /\ \A p \in Ops \ {o} : pc'[p] = pc[p]
        /\ pc'[o] = pc[o] \/ pc[o] \notin {"claim", "count"}
    BY <1>0, <1>2, QuietEffect
  <2> QED BY <1>0, <2>1 DEF OpenHoldsSlot, HoldsSlot
<1>3. ASSUME NEW o \in Ops,
             \/ UserCloses(o) \/ ClosedWaitEnds(o) \/ Down(o) \/ Free(o)
             \/ MonitorServer(o) /\ ~server
      PROVE  OpenHoldsSlot'
  <2>1. PICK r \in Closers : /\ rel[o][r] \in {"none", "done"}
                             /\ rel' = [rel EXCEPT ![o][r] = "swap"]
    BY <1>3, CloserBegins
  <2>2. /\ \A s \in Closers \ {r} : rel'[o][s] = rel[o][s]
        /\ \A p \in Ops \ {o} : rel'[p] = rel[p]
    BY <1>0, <2>1, OneCloserMoves DEF ClosePcs
  <2>3. /\ conn[o] # "none" /\ conn'[o] # "none"
        /\ \A p \in Ops \ {o} : conn'[p] = conn[p] /\ pc'[p] = pc[p]
        /\ UNCHANGED <<released, native>>
        /\ pc'[o] = pc[o] \/ (pc[o] = "monitor" /\ pc'[o] = "closing")
    BY <1>3, CloserBegins
  <2> QED BY <1>0, <2>1, <2>2, <2>3 DEF OpenHoldsSlot, HoldsSlot
<1>4. ASSUME NEW o \in Ops, HandshakeDone(o) \/ Claim(o) \/ PeerCloses(o)
      PROVE  OpenHoldsSlot'
  <2>1. /\ UNCHANGED <<conn, released, rel>>
        /\ \A p \in Ops \ {o} : pc'[p] = pc[p] /\ native'[p] = native[p]
        /\ native'[o] = "closed" \/ pc'[o] \in {"claim", "count"}
    BY <1>0, <1>4 DEF HandshakeDone, Claim, PeerCloses, At, Goes, opVars, TypeOK
  <2> QED BY <1>1, <2>1 DEF HoldsSlot
<1>5. ASSUME NEW o \in Ops, Wrap(o) PROVE OpenHoldsSlot'
  <2>1. /\ UNCHANGED <<released, rel, native>> /\ conn'[o] = "live" /\ ~released[o]
        /\ \A p \in Ops \ {o} : pc'[p] = pc[p] /\ conn'[p] = conn[p]
    BY <1>0, <1>5 DEF Wrap, At, Goes, TypeOK, LifeInv
  <2> QED BY <1>1, <2>1 DEF HoldsSlot
<1>6. ASSUME NEW o \in Ops, MonitorServer(o), server PROVE OpenHoldsSlot'
  <2>1. /\ UNCHANGED <<conn, released, rel, native>> /\ pc[o] = "monitor"
        /\ \A p \in Ops \ {o} : pc'[p] = pc[p]
    BY <1>0, <1>6 DEF MonitorServer, At, Goes, TypeOK
  <2> QED BY <1>0, <2>1 DEF OpenHoldsSlot, HoldsSlot
<1>7. ASSUME NEW o \in Ops, NEW r \in Closers,
             CloseSwap(o, r) \/ CloseNative(o, r) \/ CloseSlot(o, r) \/ CloseCount(o, r)
      PROVE  OpenHoldsSlot'
  <2>1. \E v \in ClosePcs : rel' = [rel EXCEPT ![o][r] = v]
    BY <1>7 DEF CloseSwap, CloseNative, CloseSlot, CloseCount, CloseGoes,
       ClosePcs
  <2>2. /\ \A s \in Closers \ {r} : rel'[o][s] = rel[o][s]
        /\ \A p \in Ops \ {o} : rel'[p] = rel[p]
    BY <1>0, <2>1, OneCloserMoves
  <2>3. /\ UNCHANGED <<pc, conn>>
        /\ \A p \in Ops \ {o} : released'[p] = released[p] /\ native'[p] = native[p]
    BY <1>0, <1>7 DEF CloseSwap, CloseNative, CloseSlot, CloseCount, opVars,
       TypeOK
  <2>4. CASE CloseSwap(o, r)
    <3>1. /\ native' = native /\ rel[o][r] = "swap"
          /\ rel'[o][r] = IF released[o] THEN "done" ELSE "native"
          /\ released[o] => released'[o]
      BY <1>0, <2>4 DEF CloseSwap, CloseAt, CloseGoes, TypeOK
    <3>2. conn[o] # "none" /\ pc[o] \notin {"claim", "count"}
      BY <1>0, <3>1 DEF LifeInv
    <3>3. native'[o] = "open" => HoldsSlot(o)'
      BY <1>0, <2>2, <2>3, <3>1, <3>2 DEF OpenHoldsSlot, HoldsSlot
    <3> QED BY <1>1, <2>2, <2>3, <3>3
  <2>5. CASE CloseNative(o, r) \/ CloseSlot(o, r) \/ CloseCount(o, r)
    <3>1. native'[o] = "closed"
      BY <1>0, <2>5 DEF CloseNative, CloseSlot, CloseCount, CloseAt, OneCloser,
         TypeOK
    <3> QED BY <1>1, <2>2, <2>3, <3>1
  <2> QED BY <1>7, <2>4, <2>5
<1>8. ASSUME EndpointCloses \/ ServerExits \/ UNCHANGED vars PROVE OpenHoldsSlot'
  <2>1. UNCHANGED <<pc, conn, released, rel, native>>
    BY <1>8 DEF EndpointCloses, ServerExits, vars, opVars, connVars
  <2> QED BY <1>0, <2>1 DEF OpenHoldsSlot, HoldsSlot
<1> QED BY NextCases, <1>2, <1>3, <1>4, <1>5, <1>6, <1>7, <1>8

\* Nobody drops an obligation to close, whichever step is taken.
LEMMA NextObligation == PoolInv /\ [Next]_vars => ObligationInv'
<1> SUFFICES ASSUME PoolInv, [Next]_vars PROVE ObligationInv'
  OBVIOUS
<1>0. /\ TypeOK /\ LifeInv /\ OneCloser /\ ObligationInv
      /\ rel \in [Ops -> [Closers -> ClosePcs]]
  BY DEF PoolInv, TypeOK
<1>1. ASSUME NEW o \in Ops, QuietStep(o) PROVE ObligationInv'
  <2>1. /\ UNCHANGED <<conn, native, released, rel, monitor, server>>
        /\ \A p \in Ops \ {o} : pc'[p] = pc[p]
        /\ pc[o] = "monitor" => pc'[o] = "monitor"
        /\ pc'[o] = "closing" => pc[o] = "closing"
    BY <1>0, <1>1, QuietEffect
  <2> QED BY <1>0, <2>1 DEF ObligationInv
<1>2. ASSUME NEW o \in Ops,
             \/ UserCloses(o) \/ ClosedWaitEnds(o) \/ Down(o) \/ Free(o)
             \/ MonitorServer(o) /\ ~server
      PROVE  ObligationInv'
  <2>1. PICK r \in Closers : /\ rel[o][r] \in {"none", "done"}
                             /\ rel' = [rel EXCEPT ![o][r] = "swap"]
                             /\ monitor'[o] = monitor[o] \/ r = "down"
                             /\ r = "down" => monitor'[o] = "none"
                             /\ conn'[o] = conn[o] \/ r = "drop"
                             /\ pc'[o] = pc[o] \/ r = "wrap"
    BY <1>2, CloserBegins
  <2>2. /\ rel'[o][r] = "swap"
        /\ \A s \in Closers \ {r} : rel'[o][s] = rel[o][s]
        /\ \A p \in Ops \ {o} : rel'[p] = rel[p]
    BY <1>0, <2>1, OneCloserMoves DEF ClosePcs
  <2>3. /\ \A p \in Ops \ {o} : conn'[p] = conn[p] /\ pc'[p] = pc[p]
        /\ \A p \in Ops \ {o} : monitor'[p] = monitor[p]
        /\ conn[o] # "none"
        /\ UNCHANGED <<released, native, server>>
    BY <1>2, CloserBegins
  <2>4. \A p \in Ops, s \in Closers :
          /\ rel[p][s] # "none" => rel'[p][s] # "none"
          /\ rel'[p][s] = "done" => rel[p][s] = "done"
          /\ rel[p][s] = "native" => rel'[p][s] = "native"
    BY <2>1, <2>2
  <2>5. /\ \A s \in Closers : rel'[o][s] = "done" => released[o]
        /\ released[o] => native[o] = "closed" \/ \E s \in Closers : rel'[o][s] = "native"
    BY <1>0, <2>4 DEF ObligationInv
  <2>6. /\ conn'[o] = "freed" => rel'[o]["drop"] # "none"
        /\ \/ pc'[o] = "monitor" \/ rel'[o]["wrap"] # "none"
           \/ monitor'[o] # "none" \/ rel'[o]["down"] # "none"
        /\ monitor'[o] = "set" => server
        /\ pc'[o] = "closing" => rel'[o]["wrap"] # "none"
    BY <1>0, <2>1, <2>2, <2>3, <2>4 DEF ObligationInv, Closers
  <2> QED BY <1>0, <2>2, <2>3, <2>5, <2>6 DEF ObligationInv
<1>3. ASSUME NEW o \in Ops, HandshakeDone(o) \/ Claim(o) \/ PeerCloses(o)
      PROVE  ObligationInv'
  <2>1. /\ UNCHANGED <<conn, released, rel, monitor, server>>
        /\ \A p \in Ops \ {o} : pc'[p] = pc[p] /\ native'[p] = native[p]
        /\ native'[o] \in {native[o], "closed"} \/ pc[o] = "running"
        /\ \/ pc'[o] = pc[o]
           \/ pc[o] \in {"running", "claim"} /\ pc'[o] \in {"claim", "count", "permit"}
    BY <1>0, <1>3 DEF HandshakeDone, Claim, PeerCloses, opVars, At, Goes, TypeOK
  <2>2. pc[o] = "running" => ~released[o]
    BY <1>0 DEF LifeInv
  <2> QED BY <1>0, <2>1, <2>2 DEF ObligationInv
<1>4. ASSUME NEW o \in Ops, Wrap(o) PROVE ObligationInv'
  <2>1. /\ pc[o] = "count" /\ pc'[o] = "monitor" /\ conn'[o] = "live"
        /\ \A p \in Ops \ {o} : pc'[p] = pc[p] /\ conn'[p] = conn[p]
        /\ UNCHANGED <<native, released, rel, monitor, server>>
    BY <1>0, <1>4 DEF Wrap, At, Goes, TypeOK
  <2> QED BY <1>0, <2>1 DEF ObligationInv
<1>5. ASSUME NEW o \in Ops, MonitorServer(o), server PROVE ObligationInv'
  <2>1. /\ pc[o] = "monitor" /\ pc'[o] = "permit" /\ monitor'[o] = "set"
        /\ \A p \in Ops \ {o} : pc'[p] = pc[p] /\ monitor'[p] = monitor[p]
        /\ UNCHANGED <<conn, native, released, rel, server>>
    BY <1>0, <1>5 DEF MonitorServer, At, Goes, TypeOK
  <2> QED BY <1>0, <1>5, <2>1 DEF ObligationInv
<1>6. ASSUME NEW o \in Ops, NEW r \in Closers,
             \/ CloseSwap(o, r) \/ CloseNative(o, r)
             \/ CloseSlot(o, r) \/ CloseCount(o, r)
      PROVE  ObligationInv'
  <2>1. /\ rel[o][r] \in {"swap", "native", "slot", "count"}
        /\ \E v \in ClosePcs : rel' = [rel EXCEPT ![o][r] = v]
    BY <1>6 DEF CloseSwap, CloseNative, CloseSlot, CloseCount, CloseAt,
       CloseGoes,
       ClosePcs
  <2>2. /\ \A s \in Closers \ {r} : rel'[o][s] = rel[o][s]
        /\ \A p \in Ops \ {o} : rel'[p] = rel[p]
    BY <1>0, <2>1, OneCloserMoves
  <2>3. /\ UNCHANGED <<pc, conn, monitor, server>>
        /\ \A p \in Ops \ {o} : released'[p] = released[p] /\ native'[p] = native[p]
    BY <1>0, <1>6 DEF CloseSwap, CloseNative, CloseSlot, CloseCount, opVars,
       TypeOK
  <2>4. /\ released'[o] /\ rel'[o][r] # "none"
        /\ \/ rel'[o][r] = "native"
           \/ native'[o] = "closed"
           \/ rel[o][r] = "swap" /\ released[o] /\ native' = native
    <3>1. CASE CloseSwap(o, r)
      BY <1>0, <3>1 DEF CloseSwap, CloseAt, CloseGoes, TypeOK
    <3>2. CASE CloseNative(o, r)
      BY <1>0, <3>2 DEF CloseNative, CloseAt, CloseGoes, TypeOK, OneCloser
    <3>3. CASE CloseSlot(o, r) \/ CloseCount(o, r)
      BY <1>0, <3>3 DEF CloseSlot, CloseCount, CloseAt, CloseGoes, TypeOK,
         OneCloser
    <3> QED BY <1>6, <3>1, <3>2, <3>3
  <2>5. native'[o] = "closed" \/ \E s \in Closers : rel'[o][s] = "native"
    BY <1>0, <2>2, <2>4 DEF ObligationInv
  <2>6. \A p \in Ops, s \in Closers : rel[p][s] # "none" => rel'[p][s] # "none"
    BY <2>2, <2>4
  <2>7. /\ conn'[o] = "freed" => rel'[o]["drop"] # "none"
        /\ conn'[o] # "none" =>
             \/ pc'[o] = "monitor" \/ rel'[o]["wrap"] # "none"
             \/ monitor'[o] # "none" \/ rel'[o]["down"] # "none"
        /\ monitor'[o] = "set" => server'
        /\ pc'[o] = "closing" => rel'[o]["wrap"] # "none"
    BY <1>0, <2>3, <2>6 DEF ObligationInv, Closers
  <2> QED BY <1>0, <2>2, <2>3, <2>4, <2>5, <2>7 DEF ObligationInv
<1>7. ASSUME ServerExits PROVE ObligationInv'
  <2>1. /\ \A p \in Ops : /\ monitor'[p] # "none" <=> monitor[p] # "none"
                          /\ monitor'[p] # "set"
        /\ UNCHANGED <<pc, conn, native, released, rel>>
    BY <1>0, <1>7 DEF ServerExits, TypeOK, opVars
  <2> QED BY <1>0, <2>1 DEF ObligationInv
<1>8. ASSUME EndpointCloses \/ UNCHANGED vars PROVE ObligationInv'
  BY <1>0, <1>8 DEF EndpointCloses, vars, opVars, connVars, ObligationInv
<1> QED BY NextCases, <1>1, <1>2, <1>3, <1>4, <1>5, <1>6, <1>7, <1>8

\* An operation gives its permit back before it ends, and a caller cancels what it
\* gives up.
LEMMA NextGivenUp == PoolInv /\ [Next]_vars => GivenUpInv'
<1> SUFFICES ASSUME PoolInv, [Next]_vars PROVE GivenUpInv'
  OBVIOUS
<1>0. TypeOK /\ GivenUpInv
  BY DEF PoolInv
<1>1. ASSUME NEW o \in Ops, QuietStep(o) PROVE GivenUpInv'
  <2>1. CASE \/ BeginAccept(o) \/ BeginConnect(o) \/ HandshakeFails(o)
             \/ FutureDropped(o) \/ WrapFailed(o) \/ Send(o) \/ Receive(o)
             \/ Forget(o)
    <3>1. /\ UNCHANGED state
          /\ \A p \in Ops \ {o} : /\ pc'[p] = pc[p] /\ permit'[p] = permit[p]
                                  /\ caller'[p] = caller[p]
          /\ caller'[o] \in {caller[o], "returned"}
          /\ \/ pc'[o] = pc[o] /\ permit'[o] = permit[o]
             \/ pc[o] = "idle" /\ pc'[o] = "clone"
             \/ pc[o] = "idle" /\ pc'[o] = "done" /\ permit'[o] = permit[o]
             \/ pc[o] \in {"running", "closing"} /\ pc'[o] = "permit"
             \/ pc[o] = "send" /\ pc'[o] = "done" /\ permit'[o] = permit[o]
      BY <1>0, <2>1 DEF BeginAccept, BeginConnect, HandshakeFails, FutureDropped,
         WrapFailed, Send, Receive, Forget, Refused, At, Goes, TypeOK, opVars
    <3> QED BY <1>0, <3>1 DEF GivenUpInv
  <2>2. CASE CloneEndpoint(o)
    <3>1. /\ pc[o] = "clone"
          /\ \A p \in Ops \ {o} : /\ pc'[p] = pc[p] /\ permit'[p] = permit[p]
                                  /\ caller'[p] = caller[p] /\ state'[p] = state[p]
          /\ \/ /\ pc'[o] = "running" /\ state'[o] = "RUNNING"
                /\ caller'[o] = "awaiting" /\ permit'[o] = permit[o]
             \/ /\ pc'[o] = "done" /\ state'[o] = state[o] /\ ~permit'[o]
                /\ caller'[o] = "returned"
      BY <1>0, <2>2 DEF CloneEndpoint, Refused, DropPermit, At, Goes, TypeOK
    <3> QED BY <1>0, <3>1 DEF GivenUpInv
  <2>3. CASE FutureEnds(o)
    <3>1. /\ pc[o] = "permit" /\ pc'[o] = "result" /\ ~permit'[o]
          /\ \A p \in Ops \ {o} : pc'[p] = pc[p] /\ permit'[p] = permit[p]
          /\ UNCHANGED <<state, caller>>
      BY <1>0, <2>3 DEF FutureEnds, DropPermit, At, Goes, TypeOK
    <3> QED BY <1>0, <3>1 DEF GivenUpInv
  <2>4. CASE Decide(o)
    <3>1. /\ pc[o] = "result" /\ pc'[o] \in {"send", "done"}
          /\ state'[o] \in {state[o], "COMPLETED"}
          /\ \A p \in Ops \ {o} : pc'[p] = pc[p] /\ state'[p] = state[p]
          /\ UNCHANGED <<permit, caller>>
      BY <1>0, <2>4 DEF Decide, At, Goes, TypeOK
    <3> QED BY <1>0, <3>1 DEF GivenUpInv
  <2>5. CASE TimesOut(o) \/ CallerDies(o)
    <3>1. /\ state'[o] = IF state[o] = "RUNNING" THEN "CANCELLED" ELSE state[o]
          /\ \A p \in Ops \ {o} : state'[p] = state[p] /\ caller'[p] = caller[p]
          /\ UNCHANGED <<pc, permit>>
      BY <1>0, <2>5 DEF TimesOut, CallerDies, TypeOK
    <3> QED BY <1>0, <3>1 DEF GivenUpInv
  <2> QED BY <1>1, <2>1, <2>2, <2>3, <2>4, <2>5 DEF QuietStep
<1>2. ASSUME NEW o \in Ops,
             \/ UserCloses(o) \/ ClosedWaitEnds(o) \/ Down(o) \/ Free(o)
             \/ MonitorServer(o) /\ ~server
      PROVE  GivenUpInv'
  <2>1. /\ UNCHANGED <<permit, state, caller>>
        /\ \A p \in Ops \ {o} : pc'[p] = pc[p]
        /\ pc'[o] = pc[o] \/ (pc[o] = "monitor" /\ pc'[o] = "closing")
    BY <1>2, CloserBegins
  <2> QED BY <1>0, <2>1 DEF GivenUpInv
<1>3. ASSUME NEW o \in Ops,
             \/ HandshakeDone(o) \/ Claim(o) \/ Wrap(o) \/ PeerCloses(o)
             \/ MonitorServer(o) /\ server
      PROVE  GivenUpInv'
  <2>1. /\ UNCHANGED <<permit, state, caller>>
        /\ \A p \in Ops \ {o} : pc'[p] = pc[p]
        /\ \/ pc'[o] = pc[o]
           \/ /\ pc[o] \in {"running", "claim", "count", "monitor"}
              /\ pc'[o] \in {"claim", "count", "monitor", "permit"}
    BY <1>0, <1>3 DEF HandshakeDone, Claim, Wrap, PeerCloses, MonitorServer,
       opVars,
       At, Goes, TypeOK
  <2> QED BY <1>0, <2>1 DEF GivenUpInv
<1>4. ASSUME \/ EndpointCloses \/ ServerExits \/ UNCHANGED vars
             \/ \E o \in Ops, r \in Closers :
                  \/ CloseSwap(o, r) \/ CloseNative(o, r)
                  \/ CloseSlot(o, r) \/ CloseCount(o, r)
      PROVE  GivenUpInv'
  <2>1. UNCHANGED <<pc, permit, state, caller>>
    BY <1>4 DEF EndpointCloses, ServerExits, vars, CloseSwap, CloseNative,
       CloseSlot,
       CloseCount, opVars
  <2> QED BY <1>0, <2>1 DEF GivenUpInv
<1> QED BY NextCases, <1>1, <1>2, <1>3, <1>4

LEMMA InitPool == Init => PoolInv
<1> SUFFICES ASSUME Init PROVE PoolInv
  OBVIOUS
<1>1. /\ kind \in [Ops -> {"connect", "accept"}] /\ pc \in [Ops -> OpPcs]
      /\ permit \in [Ops -> BOOLEAN]
      /\ state \in [Ops -> {"none", "RUNNING", "COMPLETED", "CANCELLED"}]
      /\ caller \in [Ops -> {"ready", "awaiting", "returned", "timeout", "dead"}]
      /\ conn \in [Ops -> {"none", "live", "freed"}]
  BY DEF Init, OpPcs
<1>2. /\ ref \in [Ops -> {"none", "future", "inbox", "caller", "lost"}]
      /\ native \in [Ops -> {"none", "open", "closed"}]
      /\ released \in [Ops -> BOOLEAN]
      /\ rel \in [Ops -> [Closers -> ClosePcs]]
      /\ monitor \in [Ops -> {"none", "set", "fired"}]
  BY DEF Init, ClosePcs
<1>3. TypeOK
  BY <1>1, <1>2 DEF Init, TypeOK
<1>4. {o \in Ops : permit[o]} = {} /\ Holders = {} /\ Counted = {}
  BY DEF Init, Holders, HoldsSlot, Counted, Counts
<1>5. PermitsExact /\ SlotsExact /\ ActiveConnectionsExact
  <2>1. Cardinality({}) = 0 /\ 0 <= MaxAccepts /\ 0 <= MaxConnections
    BY FS_EmptySet, LimitsAssumption
  <2>2. pending = 0 /\ claimed = 0 /\ active = 0
    BY DEF Init
  <2>3. PermitsExact /\ SlotsExact
    BY <1>4, <2>1, <2>2 DEF PermitsExact, SlotsExact, Holders
  <2>4. ActiveConnectionsExact
    BY <1>4, <2>1, <2>2 DEF ActiveConnectionsExact, Counted, Counts
  <2> QED BY <2>3, <2>4
<1>6. OpenHoldsSlot /\ OneCloser /\ LifeInv /\ ObligationInv /\ GivenUpInv
  BY DEF Init, OpenHoldsSlot, OneCloser, LifeInv, ObligationInv, GivenUpInv,
     Closers
<1> QED BY <1>3, <1>5, <1>6 DEF PoolInv

\* Whatever the interleaving of accepts, connects, timeouts and the five closers
\* of every connection: pending accepts and connections stay within their limits,
\* each permit and slot is given back exactly once, both counters are exact and
\* never negative, and an open QUIC connection past its handshake holds a slot.
THEOREM PoolWithinLimits == Spec => []PoolInv
<1>1. PoolInv /\ [Next]_vars => PoolInv'
  <2>1. PoolInv /\ [Next]_vars => TypeOK'
    BY NextType, NextPermits, NextSlots DEF TypeOK
  <2> QED
    BY <2>1, NextPermits, NextSlots, NextOpen, NextOneCloser, NextLife,
       NextObligation, NextGivenUp DEF PoolInv
<1> QED BY InitPool, <1>1, PTL DEF Spec

\* A settled connection whose closer has ended is closed and holds no slot.
LEMMA SettledReleased ==
  ASSUME PoolInv, NEW o \in Ops, Settled(o), NEW r \in Closers, rel[o][r] # "none"
  PROVE  native[o] = "closed" /\ ~HoldsSlot(o)
<1>1. released[o] /\ pc[o] # "count"
  BY DEF PoolInv, ObligationInv, Settled
<1>2. \A s \in Closers : rel[o][s] \notin {"native", "slot"}
  BY DEF Settled
<1>3. native[o] = "closed"
  BY <1>1, <1>2 DEF PoolInv, ObligationInv
<1> QED BY <1>1, <1>2, <1>3 DEF HoldsSlot

\* Wherever the server's death meets a connect or an accept, once nothing is left to
\* do for it its connection is closed, whoever still refers to it.
THEOREM NoConnectionOutlivesServer == Spec => []ServerDeathCloses
<1>1. ASSUME PoolInv, NEW o \in Ops, ~server, conn[o] # "none", Settled(o)
      PROVE  native[o] = "closed"
  <2>1. CASE conn[o] = "freed"
    <3>1. "drop" \in Closers /\ rel[o]["drop"] # "none"
      BY <1>1, <2>1 DEF PoolInv, ObligationInv, Closers
    <3> QED BY <1>1, <3>1, SettledReleased
  <2>2. CASE conn[o] = "live"
    <3>1. monitor[o] = "none" /\ pc[o] # "monitor"
      BY <1>1, <2>2 DEF PoolInv, TypeOK, ObligationInv, Settled
    <3>2. \E r \in Closers : rel[o][r] # "none"
      BY <1>1, <3>1 DEF PoolInv, ObligationInv, Closers
    <3> QED BY <1>1, <3>2, SettledReleased
  <2> QED BY <1>1, <2>1, <2>2 DEF PoolInv, TypeOK
<1>2. PoolInv => ServerDeathCloses
  BY <1>1 DEF ServerDeathCloses
<1> QED BY PoolWithinLimits, <1>2, PTL

\* A connection nobody refers to any more has given its slot back once nothing is
\* left to do for it: the destructor runs, however the last reference was lost.
THEOREM LostConnectionsFree == Spec => []LostConnectionFreesSlot
<1>1. ASSUME PoolInv, NEW o \in Ops, ref[o] = "lost", Settled(o)
      PROVE  ~HoldsSlot(o)
  <2>1. conn[o] = "freed"
    BY <1>1 DEF PoolInv, TypeOK, LifeInv, Settled
  <2>2. "drop" \in Closers /\ rel[o]["drop"] # "none"
    BY <1>1, <2>1 DEF PoolInv, ObligationInv, Closers
  <2> QED BY <1>1, <2>2, SettledReleased
<1>2. PoolInv => LostConnectionFreesSlot
  BY <1>1 DEF LostConnectionFreesSlot
<1> QED BY PoolWithinLimits, <1>2, PTL

\* A connect or accept whose caller timed out or died holds no permit once nothing
\* is left to do for it.
THEOREM AbandonedHoldsNoPermit == Spec => []AbandonedSettlesFree
<1>1. ASSUME PoolInv, NEW o \in Ops, caller[o] \in {"timeout", "dead"}, Settled(o)
      PROVE  ~permit[o]
  <2>1. pc[o] # "running"
    BY <1>1 DEF PoolInv, GivenUpInv, Settled
  <2>2. pc[o] # "closing"
    BY <1>1 DEF PoolInv, ObligationInv, Settled, Closers
  <2> QED BY <1>1, <2>1, <2>2 DEF PoolInv, GivenUpInv, Settled
<1>2. PoolInv => AbandonedSettlesFree
  BY <1>1 DEF AbandonedSettlesFree
<1> QED BY PoolWithinLimits, <1>2, PTL
==============================================================================
