# A TLA+ model of iroh_beam

iroh_beam lets BEAM processes use Iroh (QUIC) endpoints, connections and streams
through a Rust NIF with a tokio runtime, and offers the result as an Erlang
distribution carrier.  Its hard parts are the places where BEAM processes, NIF
calls on scheduler threads, tokio tasks, process monitors and destructors meet on
a few atomics.  This directory models those parts from the source, checks them
with TLC and proves their safety properties, and all three refinements, with TLAPS.

## 1. Inventory

| part | source | state | operations | what is hard | what makes it correct |
| --- | --- | --- | --- | --- | --- |
| native operations | `lib.rs`, `endpoint.rs` (`start_endpoint_operation`), four copies of `await_operation` | operation state, stored notify permit, monitor, `ACTIVE_OPERATIONS` | start, complete, cancel, retire, await | timeout, caller death and completion race; a wake-up before the first poll | one decision per operation; no result of a cancelled one; exact counter; no lost wake-up |
| streams | `stream.rs` | two handle slots, `busy`, `closed`, abort codes, two Notifys, `released`, `ACTIVE_STREAMS` | send, recv, finish, reset, stop, abort, close, drop, down | leases are taken and dropped in three steps, control calls take no lease | exclusive, linear handles; a final end; one release; no lost wake-up |
| endpoint lifecycle | `endpoint.rs`, `endpoint.ex` | identity registry, native endpoint slot, `released`, `ACTIVE_ENDPOINTS`, the server process | bind, close, abort, terminate, down, drop | six releasers race; reservations outlive failed binds; restarts with the same identity | exact registry; identity free after every exit |
| connections | `connection.rs`, `endpoint.rs`, `connection.ex` | `pending_accepts`, `active_connections`, `ACTIVE_CONNECTIONS`, `released` | connect, accept, close, closed, drop, down | limits, the server dies during a handshake, results nobody receives | exact and bounded permits and slots; nothing outlives the server |
| byte queue, datagrams, opening of streams | `stream.rs`, `connection.rs`, `stream.ex` | `QUEUED_BYTES`, its peak, two busy flags, `ACTIVE_STREAMS`, who refers to a stream and its connection | open, accept, send, datagram send and receive | a lock-free peak; permits and guards owned by futures that are refused or aborted; owners that die while a stream is made | exact sum, peak, flags and counter; nothing outlives its owner |
| identity files | `identity.rs`, `identity.ex` | a file, temporary files | load_or_create | two creators, a crash between write and link | one identity per path, never replaced; no private key left behind |
| distribution endpoint | `iroh_dist_endpoint.erl` | acceptor, one-place queue, waiter, links | incoming, take_incoming, register/unregister/update/close link | stale waiter, full queue, overwritten link, late counter updates | no session is orphaned by the server; a running controller is registered |
| distribution handshake | `iroh_dist.erl`, `iroh_dist_preface.erl`, `iroh_dist_support.erl` | preface, claim, creation | accept, hand-over to net_kernel and `do_accept`, setup, preface | deadlines, name/key claims, an accept loop that dies in the hand-over | a node name is accepted only for its endpoint |
| distribution controller | `iroh_dist_controller.erl`, `distribution/io.ex` | holder/output process, input process, parser | tick, data, close | exits of three linked processes, frames across chunks | a dead link is closed, and unregistered unless its controller was killed; parsing does not depend on chunking |
| distribution start | `distribution.ex`, `distribution/config.ex` | persistent configuration, net_kernel | start, stop, rollback | failure between install and start; concurrent starts and stops | a failed start leaves nothing; a running node has the configuration it was started with |
| validation, telemetry, errors | `endpoint.ex`, `relay.ex`, `error.ex`, `telemetry.ex` | none | | | pure, not modelled |

How the parts interact: an Elixir process calls a NIF; the NIF does bounded,
synchronous work on atomics and mutexes, creates a monitored `OperationResource`
and spawns a future and a watcher; the watcher sends one message back.  Endpoint,
connection and stream resources are monitored for the death of the *Endpoint
server*, operations for the death of their *caller*; both are reference counted,
and their destructors run on whichever thread drops the last reference.

## 2. Modules

| module | models |
| --- | --- |
| `OperationContract` | what an operation promises its caller (abstract) |
| `NativeOperation` | the operation protocol; implements `OperationContract` |
| `StreamResource` | one stream at the granularity of its atomics |
| `EndpointLifecycle` | starts of endpoints that may share an identity |
| `ConnectionPool` | the connections of one endpoint |
| `ConnectionIO` | what runs over one connection: streams being made, datagrams, queued bytes |
| `IdentityPromise` | what `load_or_create` promises of a path (abstract) |
| `IdentityFile` | `load_or_create` system call by system call; implements `IdentityPromise` |
| `DistSession` | sessions and links with one peer: server, accept loops, handshake, controller, input |
| `FrameChannel` | what a link promises of its frames (abstract) |
| `DistFrames` | framing and parsing over a byte stream; implements `FrameChannel` |
| `DistStart` | start, stop and rollback of distribution |
| `MC*` | the small instances TLC runs |
| `NativeOperationProofs`, `StreamResourceProofs`, `EndpointLifecycleProofs`, `ConnectionPoolProofs`, `ConnectionIOProofs`, `IdentityFileProofs`, `DistFramesProofs`, `DistProofs` | the theorems of a module and their proofs; `DistProofs` has those of `DistSession` and `DistStart` |

**NativeOperation.**  `state`, `permit` and `active` are
`OperationResource.state`, the stored permit of its `Notify` and
`ACTIVE_OPERATIONS`.  `watcher` is the spawned task of
`start_endpoint_operation` (kind "future") or `operation_start` (kind "smoke"),
one action per await or atomic; `down` is the BEAM's monitor callback, which runs
on a thread of its own; `cpc` is the caller in `await_operation`.  `cancel` is two
steps, the compare-and-exchange and the notify.  `picked` is what `select!`
returned.  tokio facts used: `notify_one` stores one permit; `select!` may take
any ready branch; `abort` takes effect at an await, so the future may still end.

**StreamResource.**  `slot`, `busy`, `closed`, `code`, `permit`, `released` are
the fields of the resource, by half.  An operation goes through the three steps of
`take_send`/`take_recv`, its `select!`, and the three steps of the lease's drop.
A control call is `finish`, `reset`, `stop`, `abort` or `close` (the last is also
the down callback and the destructor); each store, load, notify and mutex section
is an action.  `wire` is what the QUIC library was last told about the half;
`Dropped` is the library's own rule for a dropped handle.  A handle whose half is
open can be finished; abort codes are already validated.

**EndpointLifecycle.**  Each member of `Endpoints` is one start of a server, with
an identity `key`.  The bind watcher's steps are separate actions, so the server
may time out, be killed or exit between any two.  Six releasers (the watcher that
finds no owner, the close future, the abort after a failed close, `terminate`, the
down callback, the destructor) run `take_endpoint` and the three steps of
`release_identity` concurrently.  `native` says where the one native handle is;
`Users` are processes whose operations hold clones.

**ConnectionPool.**  Each member of `Ops` is one connect or accept with its
caller, and names the connection it makes.  `pending`, `claimed`, `active` are
`pending_accepts`, `active_connections`, `ACTIVE_CONNECTIONS`.  `ref` says who
holds the reference to the resource: the future, the mailbox, the caller, nobody.
Five closers run the four steps of `ConnectionResource::close`.

**ConnectionIO.**  Each member of `Ops` is one NIF call and the process that makes
it: opening or accepting a stream, sending bytes, sending or receiving a datagram.
`busy` are the two datagram flags, `permits` and `guards` the live
`DatagramPermit`s and `QueueGuard`s, `queued`, `peak` and `active` the three
statics; `high` is a history variable, the largest value `queued` ever had.
`QueueGuard::new` is the add, the load and the compare-and-exchange loop, each a
step.  `ref` says who refers to a stream (the future, the mailbox, the caller,
nobody), `held` whether any process still knows the connection.  The byte sends of
streams of other connections take part in the queue only.

**IdentityFile.**  `file` is the inode the path names, `temps` the temporary names
and their inodes, `data` an inode's content; `hard_link` gives an inode its second
name.  `counter` is `TEMP_COUNTER`, which starts again with its virtual machine, and
`pid` may be the same for two machines at once (containers that share a volume) or
after a restart.  Any system call may fail; a machine may die between any two.
The file may be there from the beginning, with a key or without.

**DistSession.**  One peer, several sessions.  `box` is the server's mailbox, `queue`,
`waiter` and `link` its state.  `loop` has net_kernel's accept loops, which run one
after the other: when one has died net_kernel starts the next, which may find its dead
predecessor still in `waiter`, is told busy and exits.  The hand-over of a session is
step by step: the loop is given it, offers it to net_kernel (`OfferSession`), net_kernel
spawns `do_accept` (`AcceptConnection`) and the loop gives `do_accept` its word
(`ForwardController`).  The loop may die before each of these; an offer that was sent is
still accepted, and `deserted` is a history variable, the sessions whose loop died in
the middle.  A session record holds the native side (`native`), where the session is
before its handshake (`at`), the handshake process (`parent`), the controller with its
mailbox (`ctrl`, `mail`) and the input process.  The holder's `spawn_link`, `trap_exit`
and second `link` are separate steps, because the parent may exit between them.
`balance` is node_up minus node_down events; `cut` is a history variable, the
controllers that were killed or whose call to the server failed.  `terminate` sends no
node_down, so a stop of the server leaves `balance` as it is.  The preface is one step
that succeeds or fails; dist_util's handshake, net_kernel and ERTS are external: ERTS
completes the handshake of one session of a peer at a time and may kill a controller.

**DistFrames.**  One direction of a link.  A byte is named by its frame and
position, so that a byte delivered out of place is seen.  `output_data`, `send_packet`
and the NIF's limit are the sending side, `recv` with `receive_chunk` and the two
clauses of `parser_feed` the receiving one.  Sender and receiver have limits of
their own.

**DistStart.**  `term` is the persistent term, `node` net_kernel's name and the
configuration its endpoint loaded, `env` whether a boot-time configuration is set.
`install` is two steps, a read and a put.  `raced` is a history variable: two starts
had both looked before either put its configuration, or a stop took down the node
of a start that had not yet asked for its status.  The specification is `StartSpec`,
with `StartInit` and `StartNext`, so that one proof module extends both this module and
DistSession.

The modules use each other's results.  In EndpointLifecycle, ConnectionPool and
ConnectionIO a cancellation is one step (the compare-and-exchange and the wake-up),
which the contract and `AbandonedRetires` of NativeOperation justify.  ConnectionIO
closes a connection and ends a stream's halves in one step each; ConnectionPool and
StreamResource have those steps apart.  DistSession closes a session in one step
(`Stream.abort`, `Connection.close`), and each frame it counts is one that
DistFrames delivers.

## 3. Runs

| run | bounds | shows |
| --- | --- | --- |
| `operation` | 1 caller, 2 operations, outcomes ok and panic, with fairness | `CancelExcludesReply`, `ReplyIsTheFuturesOutcome`, `ActiveOperationsExact`, refinement of `OperationContract`, and the liveness properties `AbandonedRetires`, `AwaitReturns` |
| `stream` | 2 operations, 2 control calls, 2 codes, one- and two-sided streams | `BusyHasOneOwner`, `HandleIsLinear` (in the slot or in one lease, and dropped only once a close was asked for), `ReleasedOnce`, `NoLostWakeup`, `EndIsFinal` |
| `endpoint` | 2 starts, 1 or 2 identities, 1 user | `EndpointInv` (registry, counter and slots agree with the endpoints), `CloseFreesIdentity`, and once settled `ExitFreesIdentity`, `CloseEndsHolding` |
| `pool` | 2 operations, 1 permit, 1 slot | `PoolInv` (permits, slots and counters are exact and bounded, an open connection holds a slot), and once settled `ServerDeathCloses`, `LostConnectionFreesSlot`, `AbandonedAcceptFreesPermit` |
| `identity_file` | 3 calls, 2 machines, 2 process ids, 1 restart each | refinement of `IdentityPromise` (the key never changes and is what every call answers), `FileInv` (a call owns its temporary file), `NoKeyLeftBehind`, `LeftoverRefusesOnce` |
| `connection_io` | 2 calls of any kind, sizes 1 and 2, largest datagram 0 or 1 | `CountsInv` (queued bytes, busy flags and stream counter are exact, and what the peak needs), `PeakExact`, `ReturnedOwnsNothing`, and once settled `NothingOutlivesItsOwner`, `ForgottenIsReleased` (a connection that no process holds and nobody waits for is released) |
| `frames` | 3 frames of 0 to 4 bytes, header of 2, limits 3 (sender) and 2 (receiver), writes of 3, reads of 1 to 4 | refinement of `FrameChannel`, `ParserInv` (every byte is in its place, the buffer is bounded by the receiver's own limit), `AdmittedFrameIsSent`, `NoFrameHeldBack` |
| `dist_session` | 2 sessions, incoming or outgoing, 2 accept loops, 1 counted frame each | `LinkInv` (a running controller is registered, a link counts its own frames, a session is in one place), `StaleLinkOnlyAfterCut`, `InputEndEndsLink`, and once settled `NoOrphanSession` (an open session is queued, has its processes, or was deserted by its accept loop) |
| `dist_start` | 3 processes, booted with a node or not | `StartInv` (without a race, installing, starting and uninstalling exclude each other; races or not, no configuration is left to nobody), `NothingLeftBehind`, `RunningIsStoppable`, the action property `ConfigurationImmutable` |

The `...Inv` of a module is a conjunction of named parts, its type invariant among
them.  `EndpointInv`, `PoolInv`, `CountsInv`, `FileInv`, `ParserInv`, `LinkInv` and
`StartInv` are the inductive invariants that the proofs use: some parts say what the
code promises (`RegistryExact`, `SlotsExact`, `RunningIsRegistered`), others only what
the promise rests on (`OneReleaser`, `ObligationInv`, `OrderInv`).  The type invariants and
inductive invariants of NativeOperation and StreamResource have no run: they are
proved (section 5).

Why the bounds are enough: two operations are needed for a late watcher next to a
new one (operation), for a competing lease (stream), for the last permit and slot
(pool); two control calls are needed for two closes, or a request inside a finish;
two starts for a late release next to a new reservation.  One caller runs its two
operations in turn while the first still retires.  Limits of 1 put every counter at
its boundary.  Three calls of `load_or_create` let a winner, a loser and a call that
meets a leftover file be there together.  Two calls are enough for the lock-free
peak: its loop retries when another sender raised the peak between its load and its
exchange.  Frames of 4 exceed both limits, of 3 the receiver's only; reads of up to 4
end inside a header, at its end, inside a body and across two frames.  Two sessions
let a link be overwritten, the queue be full and an old controller's messages meet a
new one's.  Two accept loops let a successor meet a stale waiter, and a session be given
to a dead one.  Three processes are needed for a start between two stops.
The theorems of section 5 hold for all bounds.  All deadlock checks
are off because every member of the bounded sets runs once, or may die.

Three runs show where the code does not do what its documentation says:

| run | property | what happens |
| --- | --- | --- |
| `stream_lost_reset` | `ResetReachesPeer` | a reset that meets an operation between its `select!` and its drop: the handle is dropped, which finishes the half, and the peer sees a regular end |
| `endpoint_shared_identity` | `IdentityHasOneLiveEndpoint` | abort frees the identity while another process's connect or accept keeps a clone of the native endpoint alive |
| `pool_late_connection` | `TimedOutHoldsNoSlot` | a connect that completes while it times out leaves a live connection, and its slot, in the caller's mailbox |

Other differences were met and have no run of their own:

- A lease clears `busy` before its handle is back in the slot; a competing
  operation in between is told that the open half is closed (`stream.rs:95`), where
  `docs/streams.md:23-24` promises `:busy`.
- A finish between the closed check and the restore of a lease's drop
  (`stream.rs:716`) answers closed, and the handle comes back to a half that every
  later call refuses; end of stream is not announced (`docs/streams.md:28`).
- An operation of any kind that wins its compare-and-exchange as its caller times
  out sends its message afterwards (the general form of `pool_late_connection`).
- `docs/connections.md:26` speaks of one pending accept where the default limit is
  64.
- Two concurrent `Distribution.start` calls may both pass `install`'s read.  The one
  whose net_kernel start fails then uninstalls the configuration of the other, whose
  node runs on while `stop` says that distribution is not running (compare
  `docs/distribution.md:57-59`).  `DistStart` reaches this state; `RunningIsStoppable`
  and the exclusion in `StartInv` are stated for behaviours in which `raced` is false.
- A start whose node is stopped, and replaced by that of another start, before it asks
  for its status is told ok for the other's node (`distribution.ex:26-27`): the status
  says that a node is ready, not which one.  This is the second race of `raced`; no
  property says that an ok is for one's own node.
- `do_accept` waits for the accept loop's word without a timer or a monitor
  (`iroh_dist.erl:100`).  If the loop dies after it has offered the session, which the
  peer holds for accepted, the process stays as long as net_kernel, and keeps the
  session's connection open unless the peer closes it or the server stops.
  `NoOrphanSession` names this case as its one exception.
- An accept loop that dies as the waiter stays in `#state.waiter`.  Each loop started
  after it is told busy and exits (`iroh_dist_endpoint.erl:245-246`, `iroh_dist.erl:87`),
  until an incoming session is handed to the dead one, and is lost
  (`iroh_dist_endpoint.erl:269-271`); its destructor closes it.
- `terminate` emits no node_down for the links it forgets
  (`iroh_dist_endpoint.erl:281-291`), so after a stop with a link up one node_up is
  without its node_down; `StaleLinkOnlyAfterCut` has the events agree only while the
  server runs.
- A controller that ERTS kills, or whose `unregister_link` fails, leaves its link
  registered until the node connects again; `StaleLinkOnlyAfterCut` says that nothing
  else does.

## 4. Fairness and progress

`operation` checks temporal properties under weak fairness of what the runtime does
by itself: tokio polls ready tasks, `abort` is prompt, the BEAM runs fired
monitors, `receive ... after` has a finite timer (all timeouts are validated as
positive integers), threads inside a NIF or a destructor go on.  Nothing is assumed
of peers, futures, binds, native closes, callers or users; all progress properties
hold although these may never move.

`endpoint`, `pool`, `connection_io` and `dist_session` state progress as invariants
over settled states, in which no step of the runtime is left: `Settled` says, program
counter by program counter, that no guard of such a step holds.  The steps that count
are the same kind: runtime, destructors, monitors, timers, messages in a mailbox.
They only move program counters forward or consume messages, so every behaviour that
keeps taking them settles.  `Settled` is written without ENABLED because the prover
cannot reason about that; TLC finds it equivalent to "no such step is enabled" in all
four modules.  Where a property is about a call that must end, the run checks the
needed half of it: `CloseEndsHolding` and `AbandonedAcceptFreesPermit` have the
conjunct `AtRest => Settled`, with `AtRest` stated by ENABLED.  It fails when a step
disappears from the code, such as the timeout of a close.

## 5. Proofs

`NativeOperationProofs` (any callers, any finite set of operations, any outcomes
among the three kinds):

- `InductiveInvariant`: `IndInv`.  `CancelExcludesReply` is not inductive: it needs
  that a stored permit, a pending notify or an aborting watcher exist only after the
  state is CANCELLED, that a watcher about to send has itself completed the
  operation, and that what it picked is what its task produced.  `OperationInv`
  says this operation by operation, `CallerInv` ties callers to their own
  operations.  One lemma per action.
- `TypeCorrect` and `ActiveOperationsCounted`: the counter equals the number of
  live watchers, hence never goes below zero; with the library's theorems on
  cardinality.
- `CancellationIsFinal`, `RepliesAreOutcomes`: consequences of `IndInv`.
- `ContractImplemented`: with the identity mapping, every step is a step of
  `OperationContract` or a stutter.
- `NoWakeupIsLost`: `WakeupInv`, the safety half of `AbandonedRetires`.  A cancelled
  operation whose watcher is in `select!` has its wake-up stored or about to be stored;
  a caller that dies between its compare-and-exchange and its notify is ruled out,
  because a NIF call is not interrupted.  A running operation whose caller is dead has
  its monitor fired.

`StreamResourceProofs` (any operations, control calls and codes):

- `StreamInvariant`: `TypeOK /\ StreamInv`.  `HandleIsLinear` needs `LeaseInv`
  (which program counters hold a lease, and that only an operation that has just
  aborted leases an ended half), `RequestInv` (a request marks its half closed with a
  code before it wakes anyone) and `BusyHasOneOwner`; `ReleasedOnce` needs
  `ClosingInv`.
- `TypeCorrect`, `BusyOwned`, `HandleNeverLost`, `StreamReleasedOnce`,
  `EndedHalvesNotReused` and the action property `EndsAreFinal` follow.

- `WakeupNeverLost`: a permit is consumed only by the operation that leaves its
  `select!`, and a request that has set the code has its notify still ahead;
  `BusyHasOneOwner` makes the woken operation the only one of its half.

`EndpointLifecycleProofs` (any finite set of starts, any identities, any users):

- `RegistryAlwaysExact`: `EndpointInv`.  `RegistryExact` alone is not inductive: a
  releaser removes the identity by its value, so it must be known that nobody else
  has reserved it since.  `OneReleaser` says that one releaser is past the swap,
  `ResourceInv` in which phases of the bind there is no resource, `ReleasersStart`
  that each releaser starts once.  The parts that speak of one endpoint are proved
  first, action by action; `RegistryExact` and the counter then follow from which
  endpoints hold and count before and after a step.
- `CloseGivesIdentityBack`: from `CloseInv`, which rules out that a closing server
  takes a late bind message for the answer of its close.
- `ExitGivesIdentityBack` and `CloseNeverKeepsIdentity` rest on `ObligationInv`: no
  step drops an obligation to release without leaving it to another.  A resource has
  the watcher, the monitor or the down callback behind it, whoever is done has
  released, and an operation that a server no longer awaits can still be cancelled.
  The lemma `SettledReleased` then goes through who may hold the identity in a settled
  state and finds nobody.

`ConnectionPoolProofs` (any finite set of operations, any positive limits):

- `PoolWithinLimits`: `PoolInv`.  Each counter is the cardinality of the set of its
  holders, and every action adds one holder, removes one, or none.  That a slot is
  given back once needs `OneCloser`; that `wrap_connection` starts from a connection
  nobody has released needs `LifeInv`.
- `NoConnectionOutlivesServer` and `LostConnectionsFree`: from `ObligationInv`, as
  above.  A closer that found the connection released may finish first, but then
  another one is still on its way to the native close.
- `AbandonedHoldsNoPermit`: from `GivenUpInv`; a caller that has given up has
  cancelled its operation, unless that had been decided, and a decided one has dropped
  its permit.

`ConnectionIOProofs` (any finite set of calls, any positive sizes, any largest
datagram):

- `CountersExact`: `CountsInv`.  `QUEUED_BYTES` is stated as the cardinality of the
  set of bytes under a guard, so that the sum needs no induction.
- `PeakReachesHighest`: from `PeakInv`: while the peak is below the highest value,
  the sender that reached it is still in its loop with that value.
- `AnswerFreesAll`: from `OwnershipInv`.
- `UnusedConnectionEnds`: from `KeeperInv`: a call that has begun and is not cancelled
  has a caller that waits for it, and a future refers to its stream only until it has
  its result; the places that may keep a connection are gone through one by one.
- `OwnersTakeAllAlong`: from `EndingInv`; a future that has counted a stream either
  monitors its owner next or is ending the stream.

`IdentityFileProofs` (any calls, machines, process ids and number of restarts):

- `FileInvariant`: `FileInv`.  `OwnsTemp` needs `NamesInv`, since an incarnation
  numbers its calls differently, and `create_new`, since two machines may share a
  process id; `PublishedInv` says that the published inode is past its last write.
- `LoadOrCreateKeepsPromise`: the refinement of `IdentityPromise`, action by action.
- `LeftoverNeverLocks` and `NoKeyIsLeft` follow, the second as an invariant of its
  own next to `FileInv`.

`DistFramesProofs` (any header size, limits, chunk sizes and frames):

- `BytesInPlace`: `ParserInv`.  What the parser is fed must be shown to be the next
  bytes of the frame it is in, however the stream was cut, without an induction over
  the bytes.  `ByteInv` therefore takes the last byte fed, the rest of the chunk and
  the wire as one stretch, and says of *every two* bytes of it that they are as far
  apart as they are in the frames (`Linked`, `Apart`), and that the last one is the
  last one written.  A suffix of such a stretch is one (a feed, a receive), and so
  is one with the next bytes of the last frame behind it (a write) or with another
  frame announced (a send): these are the four lemmas on `Linked`.  The byte d places
  after the last one fed is then in the same frame, and is the one wanted, as long
  as the frame has that many bytes left.
- `FramesDelivered`: the refinement of `FrameChannel`, with the packets of all frames
  handed over as what was sent.
- `NothingHeldBack`: when the stretch is empty the last byte fed is the last one of
  the last frame, so the parser is between two frames.
- `AdmittedNeverRefused`: from the assumption that the NIF's own limit has room for
  max_frame and a header; `config.ex` and the NIF's constant give it.

`DistProofs`, starting and stopping (any number of processes):

- `StartInvariant`: `StartInv`.  Without a lock, what keeps two starts apart is that
  `install` reads the term before it puts; `InstallInv` says that, unless one of the
  two races happened, at most one process is past that read and before its end.
- `NoConfigurationLeft` rests on `LeftoverInv`, which holds in spite of the races;
  `NodeStoppable` and the action property `ConfigurationFixed` on `InstallInv`.

`DistProofs`, sessions (any finite set of sessions, any accept loops, any bound on the
frames):

- `LinksExact`: `LinkInv`.  That a running controller keeps its link is not inductive:
  a `register` or `unregister` of another controller, sent long before, may still be in
  the server's mailbox.  `CallsInv` ties each request to the call its sender is in, or
  to a controller that was cut off; `OrderInv` says that registrations wait in the
  order of the handshakes, so that the one handled last is that of the live controller,
  and that none waits once a link is up; `OneConnected` is the external fact about ERTS
  that this rests on.  `BalanceInv` bounds node_up minus node_down by `Lost`, the
  controllers that were cut off after they had registered and then lost their place.
  `ProcessInv` relates the three processes of one session, and `PlaceInv` says in which
  one place a session is before it has any, and that the accept loop which offered it is
  still with it, or has deserted it.
- The argument: `ProcessInv` speaks of one session record, so it is shown for each way
  a record changes (`GoodMail`, `GoodMoves`, `GoodDead`, ...), and then for each action.
  `StepKinds` shows that, as far as the server is concerned, every step is one of five
  kinds: it leaves mailbox and links alone, posts one message, handles the first one,
  cuts a controller off, or stops the server.  The parts about mailbox and links follow
  kind by kind from lemmas on appending to a mailbox and on taking its head.  `PlaceInv`
  is taken apart into what holds of one session (`PlaceOf`) and of one loop (`LoopOf`); a
  step moves at most one session and one loop (`LoopMoves`, `PlacesMoved`,
  `LoopAnswered`), and all others keep their places.
- `StaleLinks`: from `BalanceInv`, which counts one more event once the server has
  stopped, for the link it had.
- `InputEnded`: the exit of the input process is in the controller's mailbox
  (`ProcessInv`), so a first message that the output loop takes exists, and each that
  it can take ends the link.
- `NoOrphans`: in a settled state each place of `PlaceInv` but the queue has a step to
  take, and each incomplete pair of parent and controller has an exit to handle.  A
  `do_accept` that waits has its loop, whose step is left, or was deserted.

Assumptions on constants, each with the module that declares the constant:
`ConstantsAssumption`, `CodesAssumption`, `PathAssumption`, `ProcsAssumption` (marker
values differ from the real ones), `EndpointsAssumption`, `LimitsAssumption`,
`SizesAssumption`, `SessionsAssumption` (finite sets, positive limits and sizes, markers
and accept loops that are no sessions: `endpoint.ex` validates the limits, and the NIFs
refuse empty data), `FramesAssumption` (positive sizes, and the NIF's limit above
max_frame and header).

Only model-checked: liveness under fairness (`AbandonedRetires`, `AwaitReturns`), and
the conjuncts `AtRest => Settled` of `CloseEndsHolding` and
`AbandonedAcceptFreesPermit`, which are stated with ENABLED; the prover handles neither.
That every behaviour settles is an argument of section 4, not a theorem.  The three
properties of the violation runs are false of the code and have no theorem.

## 6. Not modelled

Not modelled: validation of options, URLs and ALPNs, telemetry, error formatting,
the conversions of keys, addresses and tickets (pure); the address, path and
snapshot queries, which read without changing anything; `recv_to_end`, a loop
without state of its own; the bytes of the preface and dist_util's handshake
packets; the loss of unsynced directory entries at a power failure; the QUIC
library, net_kernel, ERTS and the file system beyond the facts named above.

Within the model, what remains is the liveness of section 4 for every value of the
constants: a measure that each step of the runtime decreases would turn the theorems
about settled states into eventualities.
