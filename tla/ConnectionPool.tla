--------------------------- MODULE ConnectionPool ---------------------------
(***************************************************************************)
(* The connections of one endpoint: the permits that bound pending         *)
(* accepts, the slots that bound connections, and the ConnectionResources  *)
(* that hold those slots until somebody closes or drops them.              *)
(*                                                                         *)
(* Each member of Ops is one connect or accept with the process that calls *)
(* it; o also names the connection it produces.  A connection belongs to   *)
(* the endpoint's server, not to the caller: it is closed by an explicit   *)
(* close, by a `closed` wait that ends, by the server's death, or when its *)
(* last reference is dropped, in any order and concurrently.               *)
(*                                                                         *)
(* The cancellation protocol is NativeOperation's; here a compare-and-     *)
(* exchange and the wake-up that follows it are one step.                  *)
(***************************************************************************)
EXTENDS Naturals, FiniteSets

CONSTANTS
  Ops,             \* connects and accepts (each runs once)
  MaxAccepts,      \* max_pending_accepts
  MaxConnections   \* max_connections

ASSUME LimitsAssumption ==
  /\ IsFiniteSet(Ops)
  /\ MaxAccepts \in Nat \ {0}
  /\ MaxConnections \in Nat \ {0}

\* Who may run ConnectionResource.close on a connection.
Closers == {"wrap", "user", "closed", "down", "drop"}
ClosePcs == {"none", "swap", "native", "slot", "count", "done"}

VARIABLES
  kind,       \* "connect" or "accept"
  pc,         \* where the operation's NIF, then its future, is
  permit,     \* does the operation hold an AcceptPermit
  state,      \* OperationResource.state
  caller,     \* "ready", "awaiting", "returned", "timeout", "dead"
  conn,       \* the ConnectionResource: "none", "live", "freed"
  ref,        \* where the reference the operation produced is
  native,     \* the QUIC connection: "none", "open", "closed"
  released,   \* ConnectionResource.released
  rel,        \* where each closer is
  monitor,    \* the resource's monitor of the server: "none", "set", "fired"
  pending,    \* pending_accepts
  claimed,    \* active_connections
  active,     \* ACTIVE_CONNECTIONS
  slot,       \* does the endpoint resource hold its native endpoint
  server      \* is the endpoint's server alive

opVars == <<kind, pc, permit, state, caller>>
connVars == <<conn, ref, native, released, rel, monitor>>
countVars == <<pending, claimed, active>>
vars == <<opVars, connVars, countVars, slot, server>>

OpPcs == {"idle", "clone", "running", "claim", "count", "monitor", "closing",
          "permit", "result", "send", "done"}

\* Every variable has its type; the counters, which the code decrements with
\* checked_sub or unsigned, never go below zero.
TypeOK ==
  /\ kind \in [Ops -> {"connect", "accept"}]
  /\ pc \in [Ops -> OpPcs]
  /\ permit \in [Ops -> BOOLEAN]
  /\ state \in [Ops -> {"none", "RUNNING", "COMPLETED", "CANCELLED"}]
  /\ caller \in [Ops -> {"ready", "awaiting", "returned", "timeout", "dead"}]
  /\ conn \in [Ops -> {"none", "live", "freed"}]
  /\ ref \in [Ops -> {"none", "future", "inbox", "caller", "lost"}]
  /\ native \in [Ops -> {"none", "open", "closed"}]
  /\ released \in [Ops -> BOOLEAN]
  /\ rel \in [Ops -> [Closers -> ClosePcs]]
  /\ monitor \in [Ops -> {"none", "set", "fired"}]
  /\ pending \in Nat /\ claimed \in Nat /\ active \in Nat
  /\ slot \in BOOLEAN /\ server \in BOOLEAN

Init ==
  /\ kind \in [Ops -> {"connect", "accept"}]
  /\ pc = [o \in Ops |-> "idle"]
  /\ permit = [o \in Ops |-> FALSE]
  /\ state = [o \in Ops |-> "none"]
  /\ caller = [o \in Ops |-> "ready"]
  /\ conn = [o \in Ops |-> "none"]
  /\ ref = [o \in Ops |-> "none"]
  /\ native = [o \in Ops |-> "none"]
  /\ released = [o \in Ops |-> FALSE]
  /\ rel = [o \in Ops |-> [r \in Closers |-> "none"]]
  /\ monitor = [o \in Ops |-> "none"]
  /\ pending = 0 /\ claimed = 0 /\ active = 0
  /\ slot = TRUE /\ server = TRUE
------------------------------------------------------------------------------
(* The NIFs *)

At(o, from) == pc[o] = from
Goes(o, to) == pc' = [pc EXCEPT ![o] = to]

\* The NIF returns an error to its caller.
Refused(o) ==
  /\ Goes(o, "done")
  /\ caller' = [caller EXCEPT ![o] = "returned"]

\* connection_accept_start: begin_accept takes a permit or says "busy".
BeginAccept(o) ==
  /\ At(o, "idle") /\ caller[o] = "ready"
  /\ kind[o] = "accept"
  /\ \/ /\ pending < MaxAccepts
        /\ pending' = pending + 1
        /\ permit' = [permit EXCEPT ![o] = TRUE]
        /\ Goes(o, "clone")
        /\ UNCHANGED caller
     \/ /\ ~(pending < MaxAccepts)
        /\ Refused(o)
        /\ UNCHANGED <<permit, pending>>
  /\ UNCHANGED <<kind, state, connVars, claimed, active, slot, server>>

\* connection_connect_start has no permit to take.
BeginConnect(o) ==
  /\ At(o, "idle") /\ caller[o] = "ready"
  /\ kind[o] = "connect"
  /\ Goes(o, "clone")
  /\ UNCHANGED <<kind, permit, state, caller, connVars, countVars, slot, server>>

\* finish_accept, run by the permit's destructor.
DropPermit(o) ==
  /\ permit' = [permit EXCEPT ![o] = FALSE]
  /\ pending' = IF permit[o] THEN pending - 1 ELSE pending

\* The native endpoint is cloned and the operation started; if the slot is
\* empty the permit is dropped and the caller told "closed".
CloneEndpoint(o) ==
  /\ At(o, "clone")
  /\ \/ /\ slot
        /\ Goes(o, "running")
        /\ state' = [state EXCEPT ![o] = "RUNNING"]
        /\ caller' = [caller EXCEPT ![o] = "awaiting"]
        /\ UNCHANGED <<permit, pending>>
     \/ /\ ~slot
        /\ Refused(o)
        /\ DropPermit(o)
        /\ UNCHANGED state
  /\ UNCHANGED <<kind, connVars, claimed, active, slot, server>>
------------------------------------------------------------------------------
(* The futures *)

\* The endpoint closes, the peer refuses, the handshake fails, or the peer is
\* not in the allowlist and its connection is closed.
HandshakeFails(o) ==
  /\ At(o, "running")
  /\ Goes(o, "permit")
  /\ UNCHANGED <<kind, permit, state, caller, connVars, countVars, slot, server>>

HandshakeDone(o) ==
  /\ At(o, "running")
  /\ native' = [native EXCEPT ![o] = "open"]
  /\ Goes(o, "claim")
  /\ UNCHANGED <<kind, permit, state, caller, conn, ref, released, rel, monitor,
                 countVars, slot, server>>

\* Mutant: a cancelled future keeps waiting for its peer.
FutureKept(o) == FALSE /\ UNCHANGED vars

\* A cancelled future is dropped at its await, and its permit with it.
FutureDropped(o) ==
  /\ At(o, "running")
  /\ state[o] = "CANCELLED"
  /\ Goes(o, "permit")
  /\ UNCHANGED <<kind, permit, state, caller, connVars, countVars, slot, server>>

\* Mutant: the slots are read and written in two steps.
ClaimUnchecked(o) ==
  /\ At(o, "claim")
  /\ claimed' = claimed + 1
  /\ Goes(o, "count")
  /\ UNCHANGED <<kind, permit, state, caller, connVars, pending, active, slot,
                 server>>

\* wrap_connection: claim_connection, or the new connection is closed.
Claim(o) ==
  /\ At(o, "claim")
  /\ \/ /\ claimed < MaxConnections
        /\ claimed' = claimed + 1
        /\ Goes(o, "count")
        /\ UNCHANGED native
     \/ /\ ~(claimed < MaxConnections)
        /\ native' = [native EXCEPT ![o] = "closed"]
        /\ Goes(o, "permit")
        /\ UNCHANGED claimed
  /\ UNCHANGED <<kind, permit, state, caller, conn, ref, released, rel, monitor,
                 pending, active, slot, server>>

\* The ConnectionResource is created and counted ...
Wrap(o) ==
  /\ At(o, "count")
  /\ active' = active + 1
  /\ conn' = [conn EXCEPT ![o] = "live"]
  /\ ref' = [ref EXCEPT ![o] = "future"]
  /\ Goes(o, "monitor")
  /\ UNCHANGED <<kind, permit, state, caller, native, released, rel, monitor,
                 pending, claimed, slot, server>>

\* Mutant: a server that is gone is not noticed.
MonitorUnchecked(o) ==
  /\ At(o, "monitor")
  /\ monitor' = [monitor EXCEPT ![o] = IF server THEN "set" ELSE "none"]
  /\ Goes(o, "permit")
  /\ UNCHANGED <<kind, permit, state, caller, conn, ref, native, released, rel,
                 countVars, slot, server>>

\* ... and monitors the server; it is closed at once if that is gone.
MonitorServer(o) ==
  /\ At(o, "monitor")
  /\ \/ /\ server
        /\ monitor' = [monitor EXCEPT ![o] = "set"]
        /\ Goes(o, "permit")
        /\ UNCHANGED rel
     \/ /\ ~server
        /\ rel' = [rel EXCEPT ![o]["wrap"] = "swap"]
        /\ Goes(o, "closing")
        /\ UNCHANGED monitor
  /\ UNCHANGED <<kind, permit, state, caller, conn, ref, native, released,
                 countVars, slot, server>>

\* The error return of wrap_connection drops the resource.
WrapFailed(o) ==
  /\ At(o, "closing")
  /\ rel[o]["wrap"] = "done"
  /\ ref' = [ref EXCEPT ![o] = "lost"]
  /\ Goes(o, "permit")
  /\ UNCHANGED <<kind, permit, state, caller, conn, native, released, rel,
                 monitor, countVars, slot, server>>

\* The future's locals are dropped once its result is known.
FutureEnds(o) ==
  /\ At(o, "permit")
  /\ Goes(o, "result")
  /\ DropPermit(o)
  /\ UNCHANGED <<kind, state, caller, connVars, claimed, active, slot, server>>

\* A reference in the future's hands goes elsewhere.
Moves(o, to) == ref' = [ref EXCEPT ![o] = IF @ = "future" THEN to ELSE @]

\* The watcher decides; the result of a cancelled operation is dropped.
Decide(o) ==
  /\ At(o, "result")
  /\ \/ /\ state[o] = "RUNNING"
        /\ state' = [state EXCEPT ![o] = "COMPLETED"]
        /\ Goes(o, "send")
        /\ UNCHANGED ref
     \/ /\ state[o] # "RUNNING"
        /\ Moves(o, "lost")
        /\ Goes(o, "done")
        /\ UNCHANGED state
  /\ UNCHANGED <<kind, permit, caller, conn, native, released, rel, monitor,
                 countVars, slot, server>>

\* send_operation_result; a message to a dead process vanishes.
Send(o) ==
  /\ At(o, "send")
  /\ Moves(o, IF caller[o] = "dead" THEN "lost" ELSE "inbox")
  /\ Goes(o, "done")
  /\ UNCHANGED <<kind, permit, state, caller, conn, native, released, rel,
                 monitor, countVars, slot, server>>
------------------------------------------------------------------------------
(* The callers *)

\* await_operation receives the connection, or the error.
Receive(o) ==
  /\ caller[o] = "awaiting"
  /\ At(o, "done")
  /\ caller' = [caller EXCEPT ![o] = "returned"]
  /\ ref' = [ref EXCEPT ![o] = IF @ = "inbox" THEN "caller" ELSE @]
  /\ UNCHANGED <<kind, pc, permit, state, conn, native, released, rel, monitor,
                 countVars, slot, server>>

\* The timer fires with no message in the mailbox, operation_cancel runs; the
\* decision may have been taken, and its message be on its way.
TimesOut(o) ==
  /\ caller[o] = "awaiting"
  /\ ~At(o, "done")
  /\ caller' = [caller EXCEPT ![o] = "timeout"]
  /\ state' = [state EXCEPT ![o] = IF @ = "RUNNING" THEN "CANCELLED" ELSE @]
  /\ UNCHANGED <<kind, pc, permit, connVars, countVars, slot, server>>

\* The process dies with its mailbox and what it held; the operation's monitor
\* cancels it.
CallerDies(o) ==
  /\ caller[o] \in {"awaiting", "returned", "timeout"}
  /\ caller' = [caller EXCEPT ![o] = "dead"]
  /\ state' = [state EXCEPT ![o] = IF @ = "RUNNING" THEN "CANCELLED" ELSE @]
  /\ ref' = [ref EXCEPT ![o] = IF @ \in {"inbox", "caller"} THEN "lost" ELSE @]
  /\ UNCHANGED <<kind, pc, permit, conn, native, released, rel, monitor,
                 countVars, slot, server>>

\* The caller forgets the connection and the BEAM collects it.
Forget(o) ==
  /\ ref[o] = "caller"
  /\ ref' = [ref EXCEPT ![o] = "lost"]
  /\ UNCHANGED <<opVars, conn, native, released, rel, monitor, countVars, slot,
                 server>>

\* Connection.close
UserCloses(o) ==
  /\ ref[o] = "caller"
  /\ rel[o]["user"] = "none"
  /\ rel' = [rel EXCEPT ![o]["user"] = "swap"]
  /\ UNCHANGED <<opVars, conn, ref, native, released, monitor, countVars, slot,
                 server>>

\* Connection.closed: its future closes the resource once the QUIC connection
\* is closed, by whichever side.
ClosedWaitEnds(o) ==
  /\ ref[o] = "caller"
  /\ native[o] = "closed"
  /\ rel[o]["closed"] = "none"
  /\ rel' = [rel EXCEPT ![o]["closed"] = "swap"]
  /\ UNCHANGED <<opVars, conn, ref, native, released, monitor, countVars, slot,
                 server>>
------------------------------------------------------------------------------
(* The endpoint and the peer *)

\* close or abort empties the endpoint's slot.
EndpointCloses ==
  /\ slot
  /\ slot' = FALSE
  /\ UNCHANGED <<opVars, connVars, countVars, server>>

\* The server exits: the monitors of its connections fire.
ServerExits ==
  /\ server
  /\ server' = FALSE
  /\ monitor' = [o \in Ops |-> IF monitor[o] = "set" THEN "fired" ELSE monitor[o]]
  /\ UNCHANGED <<opVars, conn, ref, native, released, rel, countVars, slot>>

PeerCloses(o) ==
  /\ native[o] = "open"
  /\ native' = [native EXCEPT ![o] = "closed"]
  /\ UNCHANGED <<opVars, conn, ref, released, rel, monitor, countVars, slot,
                 server>>
------------------------------------------------------------------------------
(* Closing *)

\* The resource's down callback.
Down(o) ==
  /\ monitor[o] = "fired"
  /\ conn[o] = "live"
  /\ monitor' = [monitor EXCEPT ![o] = "none"]
  /\ rel' = [rel EXCEPT ![o]["down"] = "swap"]
  /\ UNCHANGED <<opVars, conn, ref, native, released, countVars, slot, server>>

\* Mutant: the destructor does nothing.
FreeOnly(o) ==
  /\ conn[o] = "live" /\ ref[o] = "lost"
  /\ monitor[o] # "fired"
  /\ \A r \in Closers : rel[o][r] \in {"none", "done"}
  /\ conn' = [conn EXCEPT ![o] = "freed"]
  /\ UNCHANGED <<opVars, ref, native, released, rel, monitor, countVars, slot,
                 server>>

\* The last reference is gone: the destructor.
Free(o) ==
  /\ conn[o] = "live" /\ ref[o] = "lost"
  /\ monitor[o] # "fired"
  /\ \A r \in Closers : rel[o][r] \in {"none", "done"}
  /\ conn' = [conn EXCEPT ![o] = "freed"]
  /\ rel' = [rel EXCEPT ![o]["drop"] = "swap"]
  /\ UNCHANGED <<opVars, ref, native, released, monitor, countVars, slot, server>>

CloseAt(o, r, from) == rel[o][r] = from
CloseGoes(o, r, to) == rel' = [rel EXCEPT ![o][r] = to]

\* ConnectionResource.close: the first to swap released goes on, ...
CloseSwap(o, r) ==
  /\ CloseAt(o, r, "swap")
  /\ released' = [released EXCEPT ![o] = TRUE]
  /\ CloseGoes(o, r, IF released[o] THEN "done" ELSE "native")
  /\ UNCHANGED <<opVars, conn, ref, native, monitor, countVars, slot, server>>

\* ... closes the QUIC connection, ...
CloseNative(o, r) ==
  /\ CloseAt(o, r, "native")
  /\ native' = [native EXCEPT ![o] = "closed"]
  /\ CloseGoes(o, r, "slot")
  /\ UNCHANGED <<opVars, conn, ref, released, monitor, countVars, slot, server>>

\* ... gives the slot back (release_connection) ...
CloseSlot(o, r) ==
  /\ CloseAt(o, r, "slot")
  /\ claimed' = claimed - 1
  /\ CloseGoes(o, r, "count")
  /\ UNCHANGED <<opVars, conn, ref, native, released, monitor, pending, active,
                 slot, server>>

\* ... and uncounts the connection.
CloseCount(o, r) ==
  /\ CloseAt(o, r, "count")
  /\ active' = active - 1
  /\ CloseGoes(o, r, "done")
  /\ UNCHANGED <<opVars, conn, ref, native, released, monitor, pending, claimed,
                 slot, server>>
------------------------------------------------------------------------------
\* What the runtime does by itself.
OpStep(o) ==
  \/ CloneEndpoint(o) \/ FutureDropped(o) \/ Claim(o) \/ Wrap(o)
  \/ MonitorServer(o) \/ WrapFailed(o) \/ FutureEnds(o) \/ Decide(o)
  \/ Send(o)

AwaitStep(o) == Receive(o) \/ TimesOut(o)

ConnStep(o) == Down(o) \/ Free(o)

CloseStep(o, r) ==
  CloseSwap(o, r) \/ CloseNative(o, r) \/ CloseSlot(o, r) \/ CloseCount(o, r)

Next ==
  \/ \E o \in Ops :
       \/ BeginAccept(o) \/ BeginConnect(o)
       \/ HandshakeFails(o) \/ HandshakeDone(o) \/ OpStep(o)
       \/ AwaitStep(o) \/ CallerDies(o)
       \/ Forget(o) \/ UserCloses(o) \/ ClosedWaitEnds(o)
       \/ PeerCloses(o) \/ ConnStep(o)
       \/ \E r \in Closers : CloseStep(o, r)
  \/ EndpointCloses \/ ServerExits

Spec == Init /\ [][Next]_vars
------------------------------------------------------------------------------
(* Properties *)

\* Does the connection of o hold a slot of active_connections?
HoldsSlot(o) ==
  \/ pc[o] = "count"
  \/ /\ conn[o] # "none"
     /\ released[o] => \E r \in Closers : rel[o][r] \in {"native", "slot"}

\* pending_accepts is the number of operations that hold a permit and never
\* more than max_pending_accepts, on every path out of accept: busy, closed,
\* failed handshakes, cancellation and success.
PermitsExact ==
  /\ pending = Cardinality({o \in Ops : permit[o]})
  /\ pending <= MaxAccepts

\* active_connections is the number of connections that hold a slot, never
\* more than max_connections: whichever of close, closed, down, drop and a
\* failed wrap race, each slot is given back once.
SlotsExact ==
  /\ claimed = Cardinality({o \in Ops : HoldsSlot(o)})
  /\ claimed <= MaxConnections

\* ACTIVE_CONNECTIONS follows the resources, behind active_connections.
ActiveConnectionsExact ==
  active = Cardinality({o \in Ops :
             /\ conn[o] # "none"
             /\ released[o] => \E r \in Closers :
                                 rel[o][r] \in {"native", "slot", "count"}})

\* The limit bounds open QUIC connections, not only resources: past its
\* handshake an open connection holds a slot, and whoever closes it closes it
\* before giving the slot back.
OpenHoldsSlot ==
  \A o \in Ops : native[o] = "open" => pc[o] = "claim" \/ HoldsSlot(o)

\* One closer is past the swap of `released`, of a connection that is released,
\* and has closed the QUIC connection before it gives anything back.
OneCloser ==
  \A o \in Ops :
    /\ \A r \in Closers :
         /\ rel[o][r] \in {"native", "slot", "count"} => released[o]
         /\ rel[o][r] \in {"slot", "count"} => native[o] = "closed"
    /\ \A r, s \in Closers :
         /\ rel[o][r] \in {"native", "slot", "count"}
         /\ rel[o][s] \in {"native", "slot", "count"}
         => r = s

\* A ConnectionResource is made once, and before that nobody refers to it,
\* monitors it or closes it; it is monitored at most once, and only a fired
\* monitor runs its down callback.
LifeInv ==
  \A o \in Ops :
    /\ pc[o] = "idle" => ~permit[o]
    /\ pc[o] \in {"idle", "clone", "running", "claim", "count"} =>
         conn[o] = "none"
    /\ pc[o] \in {"monitor", "closing"} => conn[o] # "none"
    /\ pc[o] = "monitor" =>
         monitor[o] = "none" /\ rel[o]["wrap"] = "none" /\ rel[o]["down"] = "none"
    /\ conn[o] = "none" =>
         /\ ~released[o] /\ ref[o] = "none" /\ monitor[o] = "none"
         /\ \A r \in Closers : rel[o][r] = "none"
    /\ monitor[o] # "none" => rel[o]["down"] = "none"

\* Nobody drops an obligation to close: whoever has ended has released the
\* connection and closed it, or found another at it; a connection whose server
\* exits has wrap_connection, the monitor or the down callback to close it.
ObligationInv ==
  \A o \in Ops :
    /\ \A r \in Closers : rel[o][r] = "done" => released[o]
    /\ released[o] => native[o] = "closed" \/ \E r \in Closers : rel[o][r] = "native"
    /\ conn[o] = "freed" => rel[o]["drop"] # "none"
    /\ conn[o] # "none" =>
         \/ pc[o] = "monitor" \/ rel[o]["wrap"] # "none"
         \/ monitor[o] # "none" \/ rel[o]["down"] # "none"
    /\ monitor[o] = "set" => server
    /\ pc[o] = "closing" => rel[o]["wrap"] # "none"

\* An operation that has ended holds no permit, and a caller that has given up has
\* cancelled the one it awaited, unless that was decided before.
GivenUpInv ==
  \A o \in Ops :
    /\ permit[o] => pc[o] \notin {"idle", "result", "send", "done"}
    /\ pc[o] = "running" => state[o] \in {"RUNNING", "CANCELLED"}
    /\ caller[o] \in {"timeout", "dead"} => state[o] # "RUNNING"

\* The inductive invariant of the limits: permits, slots and counters agree with
\* the operations and connections and stay within their bounds, whoever closes.
PoolInv ==
  /\ TypeOK /\ PermitsExact /\ SlotsExact
  /\ ActiveConnectionsExact /\ OpenHoldsSlot
  /\ OneCloser /\ LifeInv /\ ObligationInv /\ GivenUpInv

\* Nothing that the runtime does by itself is left to do for o.  These steps
\* cannot go on for ever, so that what holds at rest holds in the end, although
\* peers, callers and the server may never do anything again.
AtRest(o) ==
  /\ ~ENABLED (OpStep(o) \/ ConnStep(o))
  /\ \A r \in Closers : ~ENABLED CloseStep(o, r)

\* The same, as the state it is: no guard of those steps holds.
Settled(o) ==
  /\ pc[o] \in {"idle", "running", "closing", "done"}
  /\ pc[o] = "running" => state[o] # "CANCELLED"
  /\ pc[o] = "closing" => rel[o]["wrap"] # "done"
  /\ conn[o] = "live" => monitor[o] # "fired" /\ ref[o] # "lost"
  /\ \A r \in Closers : rel[o][r] \in {"none", "done"}

\* No connection outlives the endpoint's server, whoever holds it and wherever
\* the server's death meets the handshake.
ServerDeathCloses ==
  \A o \in Ops : ~server /\ conn[o] # "none" /\ Settled(o) => native[o] = "closed"

\* The slot of a connection nobody refers to any more comes back.
LostConnectionFreesSlot ==
  \A o \in Ops : ref[o] = "lost" /\ Settled(o) => ~HoldsSlot(o)

\* An operation whose caller has given up settles without a permit.
AbandonedSettlesFree ==
  \A o \in Ops : caller[o] \in {"timeout", "dead"} /\ Settled(o) => ~permit[o]

\* An accept that timed out or whose caller died gives its permit back, even
\* if no peer ever connects: an operation at which no step is left has settled.
AbandonedAcceptFreesPermit ==
  /\ \A o \in Ops : AtRest(o) => Settled(o)
  /\ AbandonedSettlesFree

\* What the documentation says of timeouts: a connect or accept that timed out
\* was cancelled; once it is over it holds no connection.
TimedOutHoldsNoSlot ==
  \A o \in Ops : caller[o] = "timeout" /\ pc[o] = "done" /\ ref[o] # "lost"
    => ~HoldsSlot(o)
==============================================================================
