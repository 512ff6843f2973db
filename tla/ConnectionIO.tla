---------------------------- MODULE ConnectionIO ----------------------------
(***************************************************************************)
(* What runs over one connection: streams being opened and accepted,       *)
(* datagrams being sent and received under their busy flags, and the bytes *)
(* that sends of this and of other connections' streams keep queued.       *)
(*                                                                         *)
(* Each member of Ops is one NIF call with the process that makes it.  The *)
(* NIF checks, takes its permit and its QueueGuard, and starts the future  *)
(* that owns them; the future ends by itself, or is aborted at an await    *)
(* when its caller times out or dies, and drops what it owns.  A stream    *)
(* belongs to the connection's owner, the endpoint's server, and keeps its *)
(* ConnectionResource alive.                                               *)
(*                                                                         *)
(* The two steps of a cancellation are one here (NativeOperation has them  *)
(* apart), and so are those of a connection's close (ConnectionPool) and   *)
(* of ending a stream's two halves (StreamResource).                       *)
(***************************************************************************)
EXTENDS Naturals, FiniteSets, FiniteSetsExt

CONSTANTS
  Ops,          \* NIF calls (each runs once)
  Sizes,        \* byte sizes of what is sent
  MaxDatagram   \* the largest datagram of the connection

ASSUME SizesAssumption ==
  IsFiniteSet(Ops) /\ Sizes \subseteq Nat \ {0} /\ MaxDatagram \in Nat

\* "open" is any of the four stream_open and stream_accept NIFs; "send" is a
\* send on some stream that holds its lease.
Kinds == {"open", "send", "dsend", "drecv"}

VARIABLES
  kind, size, \* what the call does, and with how many bytes
  pc,         \* where its NIF, then its future, is
  refused,    \* the NIF returned an error
  cancelled,  \* OperationResource.state is CANCELLED
  caller,     \* "ready", "awaiting", "returned", "timeout", "dead"
  permits,    \* the calls that hold a DatagramPermit
  guards,     \* the calls that hold a QueueGuard
  current,    \* QueueGuard::new's `current`
  seen,       \* QueueGuard::new's `peak`
  busy,       \* datagram_send_busy and datagram_recv_busy
  queued,     \* QUEUED_BYTES
  peak,       \* PEAK_QUEUED_BYTES
  high,       \* the largest value QUEUED_BYTES has had
  stream,     \* "none", "new" (counted), "open" (monitored), "ending", "ended"
  ref,        \* where the stream's reference is
  active,     \* ACTIVE_STREAMS
  held,       \* does a process hold the connection's reference
  released,   \* who released the ConnectionResource, "no" if nobody
  server      \* is the connection's owner alive

opVars == <<kind, size>>
callVars == <<refused, cancelled, caller>>
permitVars == <<permits, busy>>
byteVars == <<guards, current, seen, queued, peak, high>>
streamVars == <<stream, ref, active>>
connVars == <<held, released, server>>
vars == <<opVars, pc, callVars, permitVars, byteVars, streamVars, connVars>>

Pcs == {"idle", "permit", "guard", "load", "cas", "start", "running", "count",
        "monitor", "closing", "unwind", "result", "done"}

\* Every variable has its type; the unsigned counters never go below zero.
TypeOK ==
  /\ kind \in [Ops -> Kinds] /\ size \in [Ops -> Sizes]
  /\ pc \in [Ops -> Pcs]
  /\ refused \in [Ops -> BOOLEAN] /\ cancelled \in [Ops -> BOOLEAN]
  /\ caller \in [Ops -> {"ready", "awaiting", "returned", "timeout", "dead"}]
  /\ permits \subseteq Ops /\ guards \subseteq Ops
  /\ current \in [Ops -> Nat] /\ seen \in [Ops -> Nat]
  /\ busy \in [{"dsend", "drecv"} -> BOOLEAN]
  /\ queued \in Nat /\ peak \in Nat /\ high \in Nat /\ active \in Nat
  /\ stream \in [Ops -> {"none", "new", "open", "ending", "ended"}]
  /\ ref \in [Ops -> {"none", "future", "inbox", "caller", "lost"}]
  /\ held \in BOOLEAN /\ server \in BOOLEAN
  /\ released \in {"no", "closed", "drop"}

Init ==
  /\ kind \in [Ops -> Kinds] /\ size \in [Ops -> Sizes]
  /\ pc = [o \in Ops |-> "idle"]
  /\ refused = [o \in Ops |-> FALSE] /\ cancelled = [o \in Ops |-> FALSE]
  /\ caller = [o \in Ops |-> "ready"]
  /\ permits = {} /\ guards = {}
  /\ current = [o \in Ops |-> 0] /\ seen = [o \in Ops |-> 0]
  /\ busy = [d \in {"dsend", "drecv"} |-> FALSE]
  /\ queued = 0 /\ peak = 0 /\ high = 0 /\ active = 0
  /\ stream = [o \in Ops |-> "none"] /\ ref = [o \in Ops |-> "none"]
  /\ held = TRUE /\ released = "no" /\ server = TRUE
------------------------------------------------------------------------------
(* The NIFs *)

At(o, from) == pc[o] = from
Goes(o, to) == pc' = [pc EXCEPT ![o] = to]

\* The NIF returns an error; what its locals own is dropped first.
Refuses(o) == Goes(o, "unwind") /\ refused' = [refused EXCEPT ![o] = TRUE]

\* connection_value: the connection, unless it was released.
ConnectionValue == released = "no"

\* connection_value, then for a datagram the check of its size against the
\* current maximum, which is zero while the peer accepts none.
Begin(o) ==
  /\ At(o, "idle") /\ caller[o] = "ready" /\ held
  /\ caller' = [caller EXCEPT ![o] = "awaiting"]
  /\ \/ kind[o] = "send" /\ Goes(o, "guard") /\ UNCHANGED refused
     \/ kind[o] # "send" /\ ~ConnectionValue /\ Refuses(o)
     \/ /\ kind[o] \in {"open", "drecv"} /\ ConnectionValue
        /\ Goes(o, IF kind[o] = "open" THEN "start" ELSE "permit")
        /\ UNCHANGED refused
     \/ /\ kind[o] = "dsend" /\ ConnectionValue
        /\ \E max \in {0, MaxDatagram} :
             \/ size[o] <= max /\ Goes(o, "permit") /\ UNCHANGED refused
             \/ size[o] > max /\ Refuses(o)
  /\ UNCHANGED <<opVars, cancelled, permitVars, byteVars, streamVars, connVars>>

\* begin_datagram_send or begin_datagram_recv, or "busy".
BeginDatagram(o) ==
  /\ At(o, "permit")
  /\ \/ /\ ~busy[kind[o]]
        /\ busy' = [busy EXCEPT ![kind[o]] = TRUE]
        /\ permits' = permits \cup {o}
        /\ Goes(o, IF kind[o] = "dsend" THEN "guard" ELSE "start")
        /\ UNCHANGED refused
     \/ busy[kind[o]] /\ Refuses(o) /\ UNCHANGED permitVars
  /\ UNCHANGED <<opVars, cancelled, caller, byteVars, streamVars, connVars>>

\* QueueGuard::new adds its bytes ...
AddBytes(o) ==
  /\ At(o, "guard")
  /\ queued' = queued + size[o]
  /\ high' = Max({high, queued + size[o]})
  /\ current' = [current EXCEPT ![o] = queued + size[o]]
  /\ guards' = guards \cup {o}
  /\ Goes(o, "load")
  /\ UNCHANGED <<opVars, callVars, permitVars, seen, peak, streamVars, connVars>>

\* ... loads the peak ...
LoadPeak(o) ==
  /\ At(o, "load")
  /\ seen' = [seen EXCEPT ![o] = peak]
  /\ Goes(o, "cas")
  /\ UNCHANGED <<opVars, callVars, permitVars, guards, current, queued, peak,
                 high, streamVars, connVars>>

\* Mutant: the loop ends when the compare-and-exchange fails.
RaisePeakOnce(o) ==
  /\ At(o, "cas")
  /\ peak' = IF current[o] > seen[o] /\ peak = seen[o] THEN current[o] ELSE peak
  /\ Goes(o, "start")
  /\ UNCHANGED <<opVars, callVars, permitVars, guards, current, queued, seen,
                 high, streamVars, connVars>>

\* ... and raises it with compare_exchange_weak until it is high enough.
RaisePeak(o) ==
  /\ At(o, "cas")
  /\ \/ current[o] <= seen[o] /\ Goes(o, "start") /\ UNCHANGED <<peak, seen>>
     \/ /\ current[o] > seen[o] /\ peak = seen[o]
        /\ peak' = current[o] /\ Goes(o, "start") /\ UNCHANGED seen
     \/ /\ current[o] > seen[o]
        /\ seen' = [seen EXCEPT ![o] = peak] /\ UNCHANGED <<pc, peak>>
  /\ UNCHANGED <<opVars, callVars, permitVars, guards, current, queued, high,
                 streamVars, connVars>>

\* start_endpoint_operation spawns the future, or has no runtime and drops it.
StartOperation(o) ==
  /\ At(o, "start")
  /\ \/ Goes(o, "running") /\ UNCHANGED refused
     \/ Refuses(o)
  /\ UNCHANGED <<opVars, cancelled, caller, permitVars, byteVars, streamVars,
                 connVars>>
------------------------------------------------------------------------------
(* The futures *)

\* open_uni, open_bi, accept_uni or accept_bi returns the halves of a stream; an
\* accept may return one that was received before the connection was closed.
StreamArrives(o) ==
  /\ At(o, "running") /\ kind[o] = "open"
  /\ Goes(o, "count")
  /\ UNCHANGED <<opVars, callVars, permitVars, byteVars, streamVars, connVars>>

\* The future ends with a result or an error, or is aborted.
FutureEnds(o) ==
  /\ At(o, "running")
  /\ Goes(o, "unwind")
  /\ UNCHANGED <<opVars, callVars, permitVars, byteVars, streamVars, connVars>>

\* wrap_stream counts the stream ...
CountStream(o) ==
  /\ At(o, "count")
  /\ active' = active + 1
  /\ stream' = [stream EXCEPT ![o] = "new"]
  /\ ref' = [ref EXCEPT ![o] = "future"]
  /\ Goes(o, "monitor")
  /\ UNCHANGED <<opVars, callVars, permitVars, byteVars, connVars>>

\* Mutant: a failed monitor is ignored.
MonitorIgnored(o) ==
  /\ At(o, "monitor")
  /\ stream' = [stream EXCEPT ![o] = IF server THEN "open" ELSE "new"]
  /\ Goes(o, "result")
  /\ UNCHANGED <<opVars, callVars, permitVars, byteVars, ref, active, connVars>>

\* ... and monitors its owner, or closes the stream if the owner is dead.
MonitorOwner(o) ==
  /\ At(o, "monitor")
  /\ \/ /\ server
        /\ stream' = [stream EXCEPT ![o] = "open"]
        /\ Goes(o, "result")
     \/ /\ ~server
        /\ stream' = [stream EXCEPT ![o] = "ending"]
        /\ Goes(o, "closing")
  /\ UNCHANGED <<opVars, callVars, permitVars, byteVars, ref, active, connVars>>

\* wrap_stream returns its error once close() has ended.
WrapFails(o) ==
  /\ At(o, "closing") /\ stream[o] = "ended"
  /\ ref' = [ref EXCEPT ![o] = "lost"]
  /\ Goes(o, "unwind")
  /\ UNCHANGED <<opVars, callVars, permitVars, byteVars, stream, active, connVars>>

\* finish_datagram_send or finish_datagram_recv, in the permit's destructor.
DropPermit(o) ==
  /\ At(o, "unwind") /\ o \in permits
  /\ permits' = permits \ {o}
  /\ busy' = [busy EXCEPT ![kind[o]] = FALSE]
  /\ UNCHANGED <<opVars, pc, callVars, byteVars, streamVars, connVars>>

\* Mutant: the guard of a call that is refused is forgotten.
DropGuardUnlessRefused(o) ==
  /\ At(o, "unwind") /\ o \in guards
  /\ guards' = guards \ {o}
  /\ queued' = IF refused[o] THEN queued ELSE queued - size[o]
  /\ UNCHANGED <<opVars, pc, callVars, permitVars, current, seen, peak, high,
                 streamVars, connVars>>

\* The QueueGuard's destructor.
DropGuard(o) ==
  /\ At(o, "unwind") /\ o \in guards
  /\ guards' = guards \ {o}
  /\ queued' = queued - size[o]
  /\ UNCHANGED <<opVars, pc, callVars, permitVars, current, seen, peak, high,
                 streamVars, connVars>>

\* Mutant: the result is passed on while the future still owns its guards.
UnwoundEarly(o) ==
  /\ At(o, "unwind")
  /\ Goes(o, IF refused[o] THEN "done" ELSE "result")
  /\ caller' = IF refused[o] THEN [caller EXCEPT ![o] = "returned"] ELSE caller
  /\ UNCHANGED <<opVars, refused, cancelled, permitVars, byteVars, streamVars,
                 connVars>>

\* The future, or the NIF that refused, is gone with all it owned.
Unwound(o) ==
  /\ At(o, "unwind") /\ o \notin permits \cup guards
  /\ Goes(o, IF refused[o] THEN "done" ELSE "result")
  /\ caller' = IF refused[o] THEN [caller EXCEPT ![o] = "returned"] ELSE caller
  /\ UNCHANGED <<opVars, refused, cancelled, permitVars, byteVars, streamVars,
                 connVars>>

\* The reference of o's stream, if the result has one, goes to another place.
Passes(o, to) ==
  ref' = IF ref[o] \in {"none", "lost"} THEN ref ELSE [ref EXCEPT ![o] = to]

\* The watcher sends the result to a live caller, or drops a result it may no
\* longer send.
Result(o) ==
  /\ At(o, "result")
  /\ Goes(o, "done")
  /\ \/ ~cancelled[o] /\ caller[o] = "awaiting" /\ Passes(o, "inbox")
     \/ cancelled[o] /\ Passes(o, "lost")
  /\ UNCHANGED <<opVars, callVars, permitVars, byteVars, stream, active, connVars>>
------------------------------------------------------------------------------
(* The callers *)

InFuture(o) == pc[o] \in {"running", "count", "monitor", "closing", "unwind", "result"}

\* await_operation receives the result.
Returns(o) ==
  /\ At(o, "done") /\ caller[o] = "awaiting"
  /\ caller' = [caller EXCEPT ![o] = "returned"]
  /\ Passes(o, "caller")
  /\ UNCHANGED <<opVars, pc, refused, cancelled, permitVars, byteVars, stream,
                 active, connVars>>

\* Mutant: a call that times out does not cancel its operation.
TimesOutOnly(o) ==
  /\ caller[o] = "awaiting" /\ ~refused[o] /\ (InFuture(o) \/ At(o, "done"))
  /\ caller' = [caller EXCEPT ![o] = "timeout"]
  /\ UNCHANGED <<opVars, pc, refused, cancelled, permitVars, byteVars, streamVars,
                 connVars>>

\* await_operation times out, or the caller dies between two NIFs: either
\* cancels the operation unless it has sent its result.
Abandons(o) ==
  /\ caller[o] = "awaiting" /\ ~refused[o] /\ (InFuture(o) \/ At(o, "done"))
  /\ cancelled' = [cancelled EXCEPT ![o] = InFuture(o)]
  /\ \/ caller' = [caller EXCEPT ![o] = "timeout"] /\ UNCHANGED ref
     \/ /\ caller' = [caller EXCEPT ![o] = "dead"]
        /\ IF ref[o] = "inbox" THEN Passes(o, "lost") ELSE UNCHANGED ref
  /\ UNCHANGED <<opVars, pc, refused, permitVars, byteVars, stream, active,
                 connVars>>

\* A process that has the stream, or its late message, exits or forgets it.
DropStream(o) ==
  /\ ref[o] \in {"caller", "inbox"} /\ caller[o] \in {"returned", "timeout"}
  /\ ref' = [ref EXCEPT ![o] = "lost"]
  /\ caller' = IF caller[o] = "timeout" THEN [caller EXCEPT ![o] = "dead"]
               ELSE caller
  /\ UNCHANGED <<opVars, pc, refused, cancelled, permitVars, byteVars, stream,
                 active, connVars>>
------------------------------------------------------------------------------
(* The streams and their connection *)

Ends(o) == stream' = [stream EXCEPT ![o] = "ending"]

\* stream_abort, by whoever has the stream.
AbortStream(o) ==
  /\ ref[o] = "caller" /\ stream[o] = "open"
  /\ Ends(o)
  /\ UNCHANGED <<opVars, pc, callVars, permitVars, byteVars, ref, active, connVars>>

\* The down callback, when the connection's owner has died.
OwnerDown(o) ==
  /\ ~server /\ stream[o] = "open"
  /\ Ends(o)
  /\ UNCHANGED <<opVars, pc, callVars, permitVars, byteVars, ref, active, connVars>>

\* The destructor.
FreeStream(o) ==
  /\ ref[o] = "lost" /\ stream[o] \in {"new", "open"}
  /\ Ends(o)
  /\ UNCHANGED <<opVars, pc, callVars, permitVars, byteVars, ref, active, connVars>>

\* The closer whose swap of `released` came first has ended both halves and
\* uncounts the stream.
UncountStream(o) ==
  /\ stream[o] = "ending"
  /\ active' = active - 1
  /\ stream' = [stream EXCEPT ![o] = "ended"]
  /\ UNCHANGED <<opVars, pc, callVars, permitVars, byteVars, ref, connVars>>

\* Who holds a reference to the ConnectionResource: a process, a NIF or future
\* that works on it, and every StreamResource until it is freed.
ConnectionKept ==
  \/ held
  \/ \E o \in Ops :
       \/ kind[o] # "send" /\ pc[o] \notin {"idle", "done"}
       \/ stream[o] # "none" /\ ~(ref[o] = "lost" /\ stream[o] = "ended")

\* The processes that know the connection forget it.
DropConnection ==
  /\ held
  /\ held' = FALSE
  /\ UNCHANGED <<opVars, pc, callVars, permitVars, byteVars, streamVars, released,
                 server>>

\* ConnectionResource.close, called by a process or by the down callback ...
CloseConnection ==
  /\ released = "no" /\ (held \/ ~server)
  /\ released' = "closed"
  /\ UNCHANGED <<opVars, pc, callVars, permitVars, byteVars, streamVars, held,
                 server>>

\* ... or by the destructor.
FreeConnection ==
  /\ released = "no" /\ ~ConnectionKept
  /\ released' = "drop"
  /\ UNCHANGED <<opVars, pc, callVars, permitVars, byteVars, streamVars, held,
                 server>>

ServerDies ==
  /\ server
  /\ server' = FALSE
  /\ UNCHANGED <<opVars, pc, callVars, permitVars, byteVars, streamVars, held,
                 released>>

\* What the NIFs and the runtime do by themselves; a future ends for sure only
\* when it is aborted or its connection is closed.
Progress(o) ==
  \/ BeginDatagram(o) \/ AddBytes(o) \/ LoadPeak(o) \/ RaisePeak(o)
  \/ StartOperation(o) \/ CountStream(o) \/ MonitorOwner(o) \/ WrapFails(o)
  \/ DropPermit(o) \/ DropGuard(o) \/ Unwound(o) \/ Result(o)
  \/ OwnerDown(o) \/ FreeStream(o) \/ UncountStream(o)
  \/ FutureEnds(o) /\ (cancelled[o] \/ released # "no")

Next ==
  \/ \E o \in Ops :
       \/ Begin(o) \/ Progress(o) \/ StreamArrives(o) \/ FutureEnds(o)
       \/ Returns(o) \/ Abandons(o) \/ DropStream(o) \/ AbortStream(o)
  \/ DropConnection \/ CloseConnection \/ FreeConnection \/ ServerDies

Spec == Init /\ [][Next]_vars
------------------------------------------------------------------------------
(* Properties *)

\* The bytes a guard of o accounts for, one by one.
BytesOf(o) == {o} \X (1..size[o])

\* QUEUED_BYTES is the sum of the live QueueGuards, on every path: refused,
\* failed, aborted or completed.
QueuedExact == queued = Cardinality(UNION {BytesOf(o) : o \in guards})

\* PEAK_QUEUED_BYTES is the largest value QUEUED_BYTES ever had as soon as no
\* sender is inside QueueGuard::new's lock-free loop, and never above it.
PeakExact ==
  /\ peak <= high
  /\ (\A o \in Ops : pc[o] \notin {"load", "cas"}) => peak = high

\* A datagram direction is busy exactly while one call holds its permit: at
\* most one sender and one receiver, none refused when nobody is at work.
DatagramExclusive ==
  \A d \in {"dsend", "drecv"} :
    Cardinality({o \in permits : kind[o] = d}) = IF busy[d] THEN 1 ELSE 0

\* A caller that has its result, or an error of the NIF, may call again at
\* once: its permit and its bytes have been given back before.
ReturnedOwnsNothing ==
  \A o \in Ops : caller[o] = "returned" => o \notin permits \cup guards

\* ACTIVE_STREAMS counts every stream from wrap_stream's increment to the one
\* decrement of whoever released it.
ActiveStreamsExact ==
  active = Cardinality({o \in Ops : stream[o] \in {"new", "open", "ending"}})

\* A call owns a permit or a guard only between taking it and the end of its
\* NIF's or its future's unwinding; no call to open a stream owns either.
OwnershipInv ==
  \A o \in Ops :
    /\ o \in permits => /\ kind[o] \in {"dsend", "drecv"}
                        /\ pc[o] \in {"guard", "load", "cas", "start", "running",
                                      "unwind"}
    /\ o \in guards => /\ kind[o] \in {"send", "dsend"}
                       /\ pc[o] \in {"load", "cas", "start", "running", "unwind"}
    /\ pc[o] = "permit" => kind[o] \in {"dsend", "drecv"}
    /\ pc[o] \in {"guard", "load", "cas"} => kind[o] \in {"send", "dsend"}
    /\ pc[o] \in {"count", "monitor", "closing"} => kind[o] = "open"
    /\ caller[o] = "returned" => pc[o] = "done"

\* A stream is made once, by the future of a call to open it, which alone refers
\* to it until it is monitored; once the connection's destructor has run nobody
\* can make, hold or end a stream.
StreamInv ==
  /\ \A o \in Ops :
       /\ pc[o] \in {"idle", "permit", "guard", "load", "cas", "start", "running",
                     "count"} \/ kind[o] # "open"
          => stream[o] = "none"
       /\ stream[o] = "none" => ref[o] = "none"
       /\ pc[o] = "monitor" => stream[o] = "new" /\ ref[o] = "future"
  /\ released = "drop" =>
       /\ ~held
       /\ \A o \in Ops :
            /\ kind[o] # "send" => pc[o] \in {"idle", "done"}
            /\ stream[o] = "none" \/ (stream[o] = "ended" /\ ref[o] = "lost")

\* Inside QueueGuard::new's loop: what a sender has added is no more than the
\* largest value so far, what it has seen no more than the peak; while the peak
\* is too low, the sender that reached the largest value is still in the loop.
PeakInv ==
  /\ queued <= high /\ peak <= high
  /\ \A o \in Ops : /\ pc[o] \in {"load", "cas"} => current[o] <= high
                    /\ pc[o] = "cas" => seen[o] <= peak
  /\ \/ peak = high
     \/ \E o \in Ops : pc[o] \in {"load", "cas"} /\ current[o] = high

\* Who will end a stream: the future that has counted it monitors its owner before it
\* does anything else, or ends it; and only a call whose future runs is cancelled.
EndingInv ==
  \A o \in Ops :
    /\ cancelled[o] => InFuture(o) \/ pc[o] = "done"
    /\ pc[o] = "closing" => stream[o] \in {"ending", "ended"}
    /\ stream[o] = "new" => pc[o] = "monitor"

\* Who keeps the connection: the future of a stream until it has its result, and a
\* call that has begun, whose caller waits for it unless it is cancelled.
KeeperInv ==
  \A o \in Ops :
    /\ stream[o] # "none" => ref[o] # "none"
    /\ ref[o] = "future" => pc[o] \in {"monitor", "closing", "result"}
    /\ pc[o] \notin {"idle", "done"} /\ ~cancelled[o] => caller[o] = "awaiting"

\* The inductive invariant of the shared statics and flags: each is exactly what
\* the live guards, permits and streams add up to, on every path of every call.
CountsInv ==
  /\ TypeOK /\ QueuedExact /\ DatagramExclusive /\ ActiveStreamsExact
  /\ OwnershipInv /\ StreamInv /\ PeakInv /\ EndingInv /\ KeeperInv

\* The runtime has nothing left to do for o: no guard of Progress holds.
Settled(o) ==
  /\ pc[o] \in {"idle", "running", "closing", "result", "done"}
  /\ pc[o] = "running" => ~cancelled[o] /\ released = "no"
  /\ pc[o] = "closing" => stream[o] # "ended"
  /\ pc[o] = "result" => ~cancelled[o] /\ caller[o] # "awaiting"
  /\ stream[o] # "ending"
  /\ stream[o] = "open" => server
  /\ stream[o] \in {"new", "open"} => ref[o] # "lost"

\* Once the runtime has nothing left to do, nothing survives its owner: an
\* abandoned call holds no permit and no bytes, and a stream whose owner died or
\* whose last reference is gone, in a discarded result too, has been ended.
NothingOutlivesItsOwner ==
  \A o \in Ops : Settled(o) =>
    /\ cancelled[o] => At(o, "done") /\ o \notin permits \cup guards
    /\ stream[o] # "none" /\ (~server \/ ref[o] = "lost") => stream[o] = "ended"

\* A connection that every process has forgotten is not kept open by the native
\* layer: once the runtime and the destructor have nothing left to do, a connection
\* that is open although no process holds it has a user, a caller that waits for an
\* operation on it or a process that has one of its streams, in a late message
\* perhaps.  An operation whose caller timed out or died, and a stream in a result
\* that nobody received, keep it no longer.
ForgottenIsReleased ==
  (\A o \in Ops : Settled(o)) /\ ~held /\ released = "no" /\ ConnectionKept =>
    \E o \in Ops :
      \/ At(o, "running") /\ caller[o] = "awaiting"
      \/ ref[o] \in {"inbox", "caller"}
==============================================================================
