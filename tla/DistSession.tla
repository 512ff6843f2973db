----------------------------- MODULE DistSession -----------------------------
(***************************************************************************)
(* The sessions of a node with one peer, from accept or connect to the     *)
(* end of their links: the acceptor and the server iroh_dist_endpoint, the *)
(* accept loops that net_kernel runs, one after the other, the process     *)
(* that performs the OTP handshake (the parent), the link's controller,    *)
(* which starts as the holder of the session, and its input process.       *)
(*                                                                         *)
(* Signals between two processes keep their order; the server's mailbox is *)
(* one sequence.  A session's connection is closed by close_session, by    *)
(* the peer, with the endpoint, or by the destructor of its resources once *)
(* no process refers to it.  net_kernel, dist_util and ERTS are external:  *)
(* net_kernel starts another accept loop when one has died, a handshake    *)
(* may fail at any time, and completes for one session of a peer at a      *)
(* time.                                                                   *)
(***************************************************************************)
EXTENDS Integers, Sequences, FiniteSets

CONSTANTS
  Sessions,   \* sessions with the peer (each is used once)
  Loops,      \* accept loops, as processes (each is started once)
  MaxFrames,  \* bound on the frames a session receives
  NoSession, NoLoop

ASSUME SessionsAssumption ==
  /\ IsFiniteSet(Sessions) /\ MaxFrames \in Nat
  /\ Sessions \cap ({NoSession, "none", "idle", "calling", "dead"} \cup Loops) = {}
  /\ NoLoop \notin Loops

VARIABLES
  ses,     \* per session: its connection, where it is, and its processes
  box,     \* the server's mailbox
  server,  \* is iroh_dist_endpoint alive
  queue,   \* #state.incoming
  waiter,  \* #state.waiter, an accept loop, which may be dead
  loop,    \* where each accept loop is, or the session it has taken
  link,    \* the peer's entry of #state.links
  balance, \* node_up events less node_down events
  cut,     \* history: controllers that died without a complete unregistration
  deserted \* history: sessions whose accept loop died while it handed them over

vars == <<ses, box, server, queue, waiter, loop, link, balance, cut, deserted>>

Session == [
  side   : {"in", "out"},
  native : {"none", "open", "closed"},
  at     : {"none", "preface", "posted", "queued", "loop", "kernel", "process",
            "lost"},
  parent : {"none", "accepting", "handshake", "completing", "up", "dead"},
  ctrl   : {"none", "spawned", "trapping", "waiting", "registering", "running",
            "unregistering", "dead"},
  mail   : Seq({"complete", "close", "parent", "input"}),
  input  : {"none", "loop", "dead"},
  frames : 0..MaxFrames] \* frames received

NoLink == [owner |-> NoSession, frames |-> 0]
Requests == {"incoming", "take", "register", "unregister", "update"}

\* Every variable has its type; at most one session is queued.
TypeOK ==
  /\ ses \in [Sessions -> Session]
  /\ box \in Seq([what : Requests, from : Sessions \cup Loops])
  /\ server \in BOOLEAN /\ waiter \in Loops \cup {NoLoop}
  /\ queue \in Seq(Sessions) /\ Len(queue) <= 1
  /\ loop \in [Loops -> {"none", "idle", "calling", "dead"} \cup Sessions]
  /\ link \in [owner : Sessions \cup {NoSession}, frames : Nat]
  /\ balance \in Nat /\ cut \subseteq Sessions /\ deserted \subseteq Sessions

Init ==
  /\ ses \in [Sessions -> {[side |-> d, native |-> "none", at |-> "none",
                            parent |-> "none", ctrl |-> "none", mail |-> <<>>,
                            input |-> "none", frames |-> 0] : d \in {"in", "out"}}]
  /\ box = <<>> /\ server = TRUE /\ queue = <<>> /\ waiter = NoLoop
  /\ loop = [l \in Loops |-> "none"]
  /\ link = NoLink /\ balance = 0 /\ cut = {} /\ deserted = {}
------------------------------------------------------------------------------
Msg(what, s) == [what |-> what, from |-> s]
Posts(what, s) == box' = Append(box, Msg(what, s))

\* A message to a controller; one to a dead process vanishes.
Mailed(t, m) == IF t.ctrl = "dead" THEN t ELSE [t EXCEPT !.mail = Append(@, m)]

InMail(t, m) == \E i \in 1..Len(t.mail) : t.mail[i] = m
Has(s, m) == InMail(ses[s], m)

\* iroh_dist_endpoint:close_session aborts the stream and closes the connection.
Closed(t) == [t EXCEPT !.native = "closed"]

\* The controller dies, with its mailbox.
Dead(t) == [t EXCEPT !.ctrl = "dead", !.mail = <<>>]

\* Who refers to a session's resources.
Referenced(t) ==
  \/ t.at \in {"preface", "posted", "queued", "loop", "kernel"}
  \/ t.parent \in {"accepting", "handshake", "completing", "up"}
  \/ t.ctrl \notin {"none", "dead"} \/ t.input = "loop"

Update(s, t) == ses' = [ses EXCEPT ![s] = t]
Others == <<server, queue, waiter, loop, link, balance, cut, deserted>>
------------------------------------------------------------------------------
(* Sessions begin *)

\* The acceptor accepts a connection and its stream; it serves one at a time.
Accept(s) ==
  /\ server /\ ses[s].side = "in" /\ ses[s].at = "none"
  /\ \A r \in Sessions : ~(ses[r].side = "in" /\ ses[r].at = "preface")
  /\ Update(s, [ses[s] EXCEPT !.native = "open", !.at = "preface"])
  /\ UNCHANGED <<box, Others>>

\* iroh_dist_preface:incoming validates the claim and sends the one-byte
\* acknowledgement; only then does the acceptor post the session.
IncomingPreface(s) ==
  /\ ses[s].side = "in" /\ ses[s].at = "preface" /\ server
  /\ \/ /\ ses[s].native = "open"
        /\ Update(s, [ses[s] EXCEPT !.at = "posted"])
        /\ Posts("incoming", s)
     \/ /\ Update(s, [Closed(ses[s]) EXCEPT !.at = "lost"])
        /\ UNCHANGED box
  /\ UNCHANGED Others

\* do_setup: connect_peer opens the connection and its stream.
Connect(s) ==
  /\ server /\ ses[s].side = "out" /\ ses[s].at = "none"
  /\ Update(s, [ses[s] EXCEPT !.native = "open", !.at = "process",
                              !.parent = "handshake"])
  /\ UNCHANGED <<box, Others>>

\* The preface of an outgoing session fails: close_session and shutdown.
OutgoingPrefaceFails(s) ==
  /\ ses[s].side = "out" /\ ses[s].parent = "handshake" /\ ses[s].ctrl = "none"
  /\ Update(s, [Closed(ses[s]) EXCEPT !.parent = "dead"])
  /\ UNCHANGED <<box, Others>>

LoopGoes(l, to) == loop' = [loop EXCEPT ![l] = to]

\* Has the accept loop gone, or was it never there?
NoLoopRuns == \A l \in Loops : loop[l] \in {"none", "dead"}

\* The accept loop asks the server for a session, for as long as it takes.
Asks(l) ==
  /\ LoopGoes(l, "calling") /\ Posts("take", l)
  /\ UNCHANGED <<ses, server, queue, waiter, link, balance, cut, deserted>>

\* iroh_dist:accept: net_kernel starts an accept loop, and another one when it sees
\* the exit of the last.  The first thing a loop does is to ask.
StartLoop(l) == server /\ loop[l] = "none" /\ NoLoopRuns /\ Asks(l)

\* It asks again when it has handed a session over.
TakeIncoming(l) == server /\ loop[l] = "idle" /\ Asks(l)

\* It tells net_kernel of the session it was given, and waits for the answer.
OfferSession(l) ==
  /\ loop[l] \in Sessions /\ ses[loop[l]].at = "loop"
  /\ Update(loop[l], [ses[loop[l]] EXCEPT !.at = "kernel"])
  /\ UNCHANGED <<box, Others>>

\* accept_connection: net_kernel spawns do_accept, which waits, without a timer and
\* without a monitor, for a word of the accept loop that offered the session ...
AcceptConnection(s) ==
  /\ ses[s].at = "kernel"
  /\ Update(s, [ses[s] EXCEPT !.at = "process", !.parent = "accepting"])
  /\ UNCHANGED <<box, Others>>

\* ... and that loop, told of do_accept by net_kernel, gives it.
ForwardController(l) ==
  /\ loop[l] \in Sessions /\ ses[loop[l]].parent = "accepting"
  /\ Update(loop[l], [ses[loop[l]] EXCEPT !.parent = "handshake"])
  /\ LoopGoes(l, "idle")
  /\ UNCHANGED <<box, server, queue, waiter, link, balance, cut, deserted>>

\* net_kernel does not support the protocol: the loop, if it is still there, closes
\* the session and exits.
UnsupportedProtocol(s) ==
  LET told == {l \in Loops : loop[l] = s} IN
  /\ ses[s].at = "kernel"
  /\ Update(s, [(IF told = {} THEN ses[s] ELSE Closed(ses[s])) EXCEPT !.at = "lost"])
  /\ loop' = [l \in Loops |-> IF l \in told THEN "dead" ELSE loop[l]]
  /\ UNCHANGED <<box, server, queue, waiter, link, balance, cut, deserted>>

\* An accept loop dies, perhaps as the waiter, perhaps with a session: one it has
\* offered to net_kernel is still accepted.
LoopDies(l) ==
  /\ loop[l] \notin {"none", "dead"}
  /\ LoopGoes(l, "dead")
  /\ \/ loop[l] \notin Sessions /\ UNCHANGED <<ses, deserted>>
     \/ /\ loop[l] \in Sessions /\ ses[loop[l]].at = "loop"
        /\ Update(loop[l], [ses[loop[l]] EXCEPT !.at = "lost"])
        /\ UNCHANGED deserted
     \/ /\ loop[l] \in Sessions /\ ses[loop[l]].at # "loop"
        /\ deserted' = deserted \cup {loop[l]} /\ UNCHANGED ses
  /\ UNCHANGED <<box, server, queue, waiter, link, balance, cut>>
------------------------------------------------------------------------------
(* The server *)

\* What the message at the head of the mailbox is.
Handles(what) == server /\ box # <<>> /\ Head(box).what = what /\ box' = Tail(box)

HasRoom == queue = <<>>

\* gen_server:reply with a session; one to a dead accept loop is lost.
Replies(l, s) ==
  /\ ses' = [ses EXCEPT ![s].at = IF loop[l] = "dead" THEN "lost" ELSE "loop"]
  /\ loop' = IF loop[l] = "dead" THEN loop ELSE [loop EXCEPT ![l] = s]

\* handle_info incoming: to the waiter, which may be gone, into the queue if it
\* is empty, or closed.
HandleIncoming ==
  LET s == Head(box).from IN
  /\ Handles("incoming")
  /\ \/ /\ waiter # NoLoop /\ waiter' = NoLoop
        /\ Replies(waiter, s)
        /\ UNCHANGED queue
     \/ /\ waiter = NoLoop /\ HasRoom
        /\ queue' = Append(queue, s) /\ ses' = [ses EXCEPT ![s].at = "queued"]
        /\ UNCHANGED <<waiter, loop>>
     \/ /\ waiter = NoLoop /\ ~HasRoom
        /\ ses' = [ses EXCEPT ![s] = [Closed(@) EXCEPT !.at = "lost"]]
        /\ UNCHANGED <<queue, waiter, loop>>
  /\ UNCHANGED <<server, link, balance, cut, deserted>>

\* handle_call take_incoming: the queued session, or the caller becomes the waiter,
\* or it is told "busy" because of another one, dead or not, and exits.
HandleTake ==
  LET l == Head(box).from IN
  /\ Handles("take")
  /\ \/ /\ waiter = NoLoop /\ queue # <<>> /\ queue' = Tail(queue)
        /\ Replies(l, Head(queue))
        /\ UNCHANGED waiter
     \/ /\ waiter = NoLoop /\ queue = <<>> /\ waiter' = l
        /\ UNCHANGED <<ses, queue, loop>>
     \/ /\ waiter # NoLoop /\ LoopGoes(l, "dead")
        /\ UNCHANGED <<ses, queue, waiter>>
  /\ UNCHANGED <<server, link, balance, cut, deserted>>

\* handle_call register_link overwrites; its reply reaches a controller that is
\* still in its call, which then answers the parent.
HandleRegister ==
  LET s == Head(box).from IN
  /\ Handles("register")
  /\ link' = [owner |-> s, frames |-> 0]
  /\ balance' = balance + 1
  /\ ses' = IF ses[s].ctrl # "registering" THEN ses
            ELSE [ses EXCEPT ![s].ctrl = "running",
                             ![s].parent = IF @ = "completing" THEN "up" ELSE @]
  /\ UNCHANGED <<server, queue, waiter, loop, cut, deserted>>

\* handle_call unregister_link, if the caller is the owner; the controller's
\* after clause then closes the session.
HandleUnregister ==
  LET s == Head(box).from IN
  /\ Handles("unregister")
  /\ \/ link.owner = s /\ link' = NoLink /\ balance' = balance - 1
     \/ link.owner # s /\ UNCHANGED <<link, balance>>
  /\ ses' = IF ses[s].ctrl # "unregistering" THEN ses
            ELSE [ses EXCEPT ![s] = Dead(Closed(@))]
  /\ UNCHANGED <<server, queue, waiter, loop, cut, deserted>>

\* An update counts only for the registered owner.
UpdateOwner(s) ==
  link' = IF link.owner = s THEN [link EXCEPT !.frames = @ + 1] ELSE link

\* handle_cast update_link
HandleUpdate ==
  /\ Handles("update")
  /\ UpdateOwner(Head(box).from)
  /\ UNCHANGED <<ses, server, queue, waiter, loop, balance, cut, deserted>>

\* handle_call close_link tells the owner's process to close.
CloseLink ==
  /\ server /\ link.owner # NoSession
  /\ ~Has(link.owner, "close")
  /\ Update(link.owner, Mailed(ses[link.owner], "close"))
  /\ UNCHANGED <<box, Others>>

\* The server terminates, or dies, and the endpoint with it: every connection
\* is closed, queued or not; an accept loop's call exits.  terminate tells nobody
\* that the nodes of its links are down.
ServerStops ==
  /\ server
  /\ server' = FALSE
  /\ box' = <<>> /\ queue' = <<>> /\ waiter' = NoLoop /\ link' = NoLink
  /\ loop' = [l \in Loops |-> IF loop[l] \in {"idle", "calling"} THEN "dead"
                              ELSE loop[l]]
  /\ ses' = [s \in Sessions |->
               LET t == IF ses[s].native = "open" THEN Closed(ses[s]) ELSE ses[s]
               IN IF t.at \in {"preface", "posted", "queued"} /\ t.parent = "none"
                  THEN [t EXCEPT !.at = "lost"] ELSE t]
  /\ UNCHANGED <<balance, cut, deserted>>
------------------------------------------------------------------------------
(* The parent: the process of the handshake, then of the ticks *)

\* iroh_dist_controller:start_link
StartLink(s) ==
  /\ ses[s].parent = "handshake" /\ ses[s].ctrl = "none"
  /\ Update(s, [ses[s] EXCEPT !.ctrl = "spawned"])
  /\ UNCHANGED <<box, Others>>

\* Has ERTS made the controller that of the node, and is it, or the node's entry
\* in net_kernel, still there?
Connected(s) ==
  \/ ses[s].parent \in {"completing", "up"}
  \/ Has(s, "complete") \/ ses[s].ctrl \in {"registering", "running",
                                             "unregistering"}

\* The handshake succeeds; handshake_complete waits for the controller.
HandshakeComplete(s) ==
  /\ ses[s].parent = "handshake" /\ ses[s].native = "open"
  /\ ses[s].ctrl \notin {"none", "dead"}
  /\ \A r \in Sessions \ {s} : ~Connected(r)
  /\ Update(s, [Mailed(ses[s], "complete") EXCEPT !.parent = "completing"])
  /\ UNCHANGED <<box, Others>>

\* An exit message; a process that does not trap exits yet dies of an abnormal
\* one and ignores a normal one.
ParentGone(t, reason) ==
  LET u == [t EXCEPT !.parent = "dead"] IN
  IF t.ctrl = "none" THEN u
  ELSE IF t.ctrl # "spawned" THEN Mailed(u, "parent")
  ELSE IF reason = "normal" THEN u ELSE Dead(u)

\* The handshake fails, the setup timer or the wait for the controller fires,
\* or net_kernel disconnects the node.
ParentExits(s, reason) ==
  /\ ses[s].parent \in {"handshake", "completing", "up"}
  /\ Update(s, ParentGone(ses[s], reason))
  /\ UNCHANGED <<box, Others>>

\* A parent notices that its session or its controller is gone.
ParentNotices(s) ==
  /\ ses[s].native = "closed" \/ ses[s].ctrl = "dead"
  /\ ParentExits(s, "abnormal")
------------------------------------------------------------------------------
(* The controller and its input process *)

At(s, c) == ses[s].ctrl = c
Goes(s, c) == Update(s, [ses[s] EXCEPT !.ctrl = c])

\* holder: process_flag(trap_exit, true) ...
TrapExit(s) ==
  /\ At(s, "spawned") /\ Goes(s, "trapping")
  /\ UNCHANGED <<box, Others>>

\* Mutant: the second link is left out, since spawn_link made one.
NoSecondLink(s) ==
  /\ At(s, "trapping") /\ Goes(s, "waiting")
  /\ UNCHANGED <<box, Others>>

\* ... then link(Parent) again: a parent that is dead gives an exit message.
LinkParent(s) ==
  /\ At(s, "trapping")
  /\ Update(s, IF ses[s].parent = "dead" /\ ~Has(s, "parent")
               THEN [Mailed(ses[s], "parent") EXCEPT !.ctrl = "waiting"]
               ELSE [ses[s] EXCEPT !.ctrl = "waiting"])
  /\ UNCHANGED <<box, Others>>

Gets(s, m) == ses[s].mail # <<>> /\ Head(ses[s].mail) = m

\* Mutant: the link is registered with a cast.
StartControllerCast(s) ==
  /\ Update(s, [ses[s] EXCEPT !.ctrl = "running", !.input = "loop",
                              !.mail = Tail(@),
                              !.parent = IF @ = "completing" THEN "up" ELSE @])
  /\ box' = IF server THEN Append(box, Msg("register", s)) ELSE box

\* start_controller: the input process is spawned and started before the call
\* that registers the link.  A call of ERTS, or the server's absence, may end
\* it before that.
StartController(s) ==
  \/ /\ server
     /\ Update(s, [ses[s] EXCEPT !.ctrl = "registering", !.input = "loop",
                                 !.mail = Tail(@)])
     /\ Posts("register", s)
  \/ Update(s, Dead(ses[s])) /\ UNCHANGED box

\* The holder's receive: it becomes the controller, or closes the session.
HolderReceives(s) ==
  /\ At(s, "waiting")
  /\ \/ Gets(s, "complete") /\ StartController(s)
     \/ /\ Gets(s, "close") \/ Gets(s, "parent")
        /\ Update(s, Dead(Closed(ses[s]))) /\ UNCHANGED box
  /\ UNCHANGED Others

\* Mutant: the after clause only closes the session.
AfterOnlyCloses(s) == Update(s, Dead(Closed(ses[s]))) /\ UNCHANGED box

\* The after clause calls unregister_link; if the server is gone that exits, and
\* the session is left to its destructor.
After(s) ==
  \/ server /\ Goes(s, "unregistering") /\ Posts("unregister", s)
  \/ ~server /\ Update(s, Dead(ses[s])) /\ UNCHANGED box

\* Mutant: the exit of the input process falls into the clause for others.
OutputWaitIgnoresInput(s) ==
  /\ At(s, "running")
  /\ \/ (Gets(s, "close") \/ Gets(s, "parent")) /\ After(s)
     \/ /\ Gets(s, "input") /\ UNCHANGED box
        /\ Update(s, [ses[s] EXCEPT !.mail = Tail(@)])
  /\ UNCHANGED Others

\* output_wait ends by a close, or by the exit of the parent or of the input
\* process; the catch makes every exit abnormal.
OutputWait(s) ==
  /\ At(s, "running")
  /\ Gets(s, "close") \/ Gets(s, "parent") \/ Gets(s, "input")
  /\ After(s)
  /\ UNCHANGED Others

\* A send fails or times out, or a frame is too large.
SendFails(s) == At(s, "running") /\ After(s) /\ UNCHANGED Others

\* A call of the controller times out, or exits with the server.
CallExits(s) ==
  /\ ses[s].ctrl \in {"registering", "unregistering"}
  /\ Update(s, Dead(ses[s]))
  /\ cut' = cut \cup {s}
  /\ UNCHANGED <<box, server, queue, waiter, loop, link, balance, deserted>>

\* ERTS kills the controller of a connection it gives up, untrappably.
Killed(s) ==
  /\ ses[s].ctrl \in {"registering", "running", "unregistering"}
  /\ Update(s, Dead(ses[s]))
  /\ cut' = cut \cup {s}
  /\ UNCHANGED <<box, server, queue, waiter, loop, link, balance, deserted>>

\* input_loop: a chunk with one frame goes to ERTS and to the link's counters,
\* also before the link is registered and after the controller's death.
InputReceives(s) ==
  /\ ses[s].input = "loop" /\ ses[s].native = "open"
  /\ ses[s].frames < MaxFrames
  /\ Update(s, [ses[s] EXCEPT !.frames = @ + 1])
  /\ box' = IF server THEN Append(box, Msg("update", s)) ELSE box
  /\ UNCHANGED Others

\* input_loop ends: eof, an error, a frame too large or ERTS refuses.
InputEnds(s) ==
  /\ ses[s].input = "loop"
  /\ Update(s, [Mailed(ses[s], "input") EXCEPT !.input = "dead"])
  /\ UNCHANGED <<box, Others>>

\* The input process notices that the stream is closed, or the controller's
\* exit reaches it through their link.
InputNotices(s) ==
  (ses[s].native = "closed" \/ At(s, "dead")) /\ InputEnds(s)
------------------------------------------------------------------------------
(* The connections *)

\* The peer closes, or the connection is lost.
PeerCloses(s) ==
  /\ ses[s].native = "open"
  /\ Update(s, Closed(ses[s]))
  /\ UNCHANGED <<box, Others>>

\* The last reference to the session is gone.
FreeSession(s) ==
  /\ ses[s].native = "open" /\ ~Referenced(ses[s])
  /\ Update(s, Closed(ses[s]))
  /\ UNCHANGED <<box, Others>>

ServerStep ==
  HandleIncoming \/ HandleTake \/ HandleRegister \/ HandleUnregister \/ HandleUpdate

\* What processes do without anybody's help; preface reads time out.
Progress(s) ==
  \/ IncomingPreface(s) \/ AcceptConnection(s) \/ StartLink(s) \/ ParentNotices(s)
  \/ TrapExit(s) \/ LinkParent(s) \/ HolderReceives(s) \/ OutputWait(s)
  \/ (~server /\ CallExits(s)) \/ InputNotices(s) \/ FreeSession(s)

LoopStep(l) == TakeIncoming(l) \/ OfferSession(l) \/ ForwardController(l)

Next ==
  \/ ServerStep \/ CloseLink \/ ServerStops
  \/ \E l \in Loops : StartLoop(l) \/ LoopStep(l) \/ LoopDies(l)
  \/ \E s \in Sessions :
       \/ Accept(s) \/ Connect(s) \/ OutgoingPrefaceFails(s) \/ Progress(s)
       \/ UnsupportedProtocol(s)
       \/ HandshakeComplete(s)
       \/ \E reason \in {"normal", "abnormal"} : ParentExits(s, reason)
       \/ SendFails(s) \/ CallExits(s) \/ Killed(s)
       \/ InputReceives(s) \/ InputEnds(s) \/ PeerCloses(s)

Spec == Init /\ [][Next]_vars
------------------------------------------------------------------------------
(* Properties *)

\* A controller that the server has registered and that has not died.
Up(t) == t.ctrl \in {"running", "unregistering"}

\* A controller reaches its output loop, and its parent is told that the
\* handshake is complete, only with its own link registered, and as long as it
\* runs no other session's message takes that link away.
RunningIsRegistered ==
  \A s \in Sessions : Up(ses[s]) /\ server => link.owner = s

\* Where the messages of one kind from one sender are in the server's mailbox.
Places(what, s) == {i \in 1..Len(box) : box[i] = Msg(what, s)}
Waits(what, s) == Places(what, s) # {}

\* The counters of a link never show frames that its own session has not
\* received, those of the updates still on their way included: an update of a
\* predecessor whose input process outlived its controller is not added.
LinkCountsOwnFrames ==
  \A s \in Sessions :
    Cardinality(Places("update", s)) + (IF link.owner = s THEN link.frames ELSE 0)
      <= ses[s].frames

\* ERTS has one session with the peer at a time.
OneConnected ==
  \A r, s \in Sessions : Connected(r) /\ Connected(s) => r = s

\* No request but an update is in the mailbox twice.  A controller in a call has
\* its request there; a request whose caller is in no call any more is that of a
\* controller that was cut off.
CallsInv ==
  /\ \A i \in 1..Len(box) :
       box[i].from \in IF box[i].what = "take" THEN Loops ELSE Sessions
  /\ \A i, j \in 1..Len(box) : box[i] = box[j] /\ box[i].what # "update" => i = j
  /\ ~server => box = <<>> /\ queue = <<>> /\ waiter = NoLoop /\ link = NoLink
  /\ \A s \in Sessions :
       /\ At(s, "registering") /\ server => Waits("register", s)
       /\ At(s, "unregistering") /\ server => Waits("unregister", s)
       /\ Waits("register", s) => At(s, "registering") \/ s \in cut
       /\ Waits("unregister", s) => At(s, "unregistering") \/ s \in cut
       /\ s \in cut => At(s, "dead")

\* Registrations are handled in the order of the handshakes: each but the last is
\* that of a controller that was cut off, and none is left once a link is up.
OrderInv ==
  /\ \A i, j \in 1..Len(box) :
       box[i].what = "register" /\ box[j].what = "register" /\ i < j =>
         box[i].from \in cut
  /\ \A s \in Sessions, i \in 1..Len(box) : Up(ses[s]) => box[i].what # "register"

\* The controllers that were cut off after their registration and lost their
\* place to another one.
Lost == {s \in cut : s # link.owner /\ ~Waits("register", s)}

\* The owner of the link is up or was cut off, and its registration is over; the
\* events differ by no more than those that were cut off.
BalanceInv ==
  /\ link.owner = NoSession => link.frames = 0
  /\ link.owner # NoSession =>
       /\ balance > 0
       /\ Up(ses[link.owner]) \/ link.owner \in cut
       /\ ~Waits("register", link.owner)
  /\ balance <= Cardinality(Lost) + (IF link.owner = NoSession /\ server THEN 0 ELSE 1)
  /\ server /\ cut = {} => balance = IF link.owner = NoSession THEN 0 ELSE 1

\* A dead controller stays registered only if it was killed or a call of it
\* to the server failed; node_up and node_down events then differ by no more
\* than such controllers and the one link that is up, or that was up when the
\* server stopped.  Without such a controller they agree, as long as the server runs.
StaleLinkOnlyAfterCut ==
  /\ link.owner # NoSession /\ At(link.owner, "dead") => link.owner \in cut
  /\ balance <= Cardinality(cut) + 1
  /\ server /\ cut = {} => balance = IF link = NoLink THEN 0 ELSE 1

\* What a session's processes know of each other: the holder is started by the
\* parent and becomes the controller by the one message that the handshake is
\* complete; a controller has the exit of its parent and of its input process in
\* its mailbox, if they are gone.
ProcessInv(t) ==
  /\ t.parent \in {"none", "accepting"} => t.ctrl = "none"
  /\ t.ctrl = "none" => t.mail = <<>> /\ t.parent \notin {"completing", "up"}
  /\ t.parent = "handshake" =>
       ~InMail(t, "complete") /\ ~Up(t) /\ t.ctrl # "registering"
  /\ t.ctrl \in {"none", "spawned", "trapping", "waiting"} =>
       t.input = "none" /\ ~InMail(t, "input")
  /\ t.ctrl \in {"registering", "running", "unregistering"} =>
       /\ ~InMail(t, "complete")
       /\ t.input = "loop" \/ (t.input = "dead" /\ InMail(t, "input"))
  /\ \A i, j \in 1..Len(t.mail) :
       t.mail[i] = "complete" /\ t.mail[j] = "complete" => i = j
  /\ t.ctrl \in {"waiting", "registering", "running", "unregistering"}
     /\ t.parent = "dead" => InMail(t, "parent")

\* A session is in one place: the acceptor, the server's mailbox or queue, an
\* accept loop, net_kernel's mailbox, or a process of its own.  One accept loop
\* runs at a time; the one that offered a session stays with it until it has
\* forwarded it, or has died.
PlaceInv ==
  /\ \A s \in Sessions :
       /\ ses[s].at = "none" => ses[s].native = "none"
       /\ ses[s].parent # "none" => ses[s].at = "process"
       /\ ses[s].at = "preface" => ses[s].side = "in" /\ server
       /\ ses[s].at = "posted" => Waits("incoming", s)
       /\ Waits("incoming", s) => ses[s].at = "posted"
       /\ ses[s].at = "queued" <=> queue = <<s>>
       /\ ses[s].at = "loop" => \E l \in Loops : loop[l] = s
       /\ ses[s].at = "kernel" \/ ses[s].parent = "accepting" =>
            s \in deserted \/ \E l \in Loops : loop[l] = s
  /\ \A l \in Loops :
       /\ loop[l] \in Sessions => \/ ses[loop[l]].at \in {"loop", "kernel"}
                                  \/ ses[loop[l]].parent = "accepting"
       /\ waiter = l \/ Waits("take", l) => loop[l] \in {"calling", "dead"}
       /\ waiter = l => ~Waits("take", l)
  /\ \A l, m \in Loops : {loop[l], loop[m]} \cap {"none", "dead"} = {} => l = m

\* The inductive invariant of sessions and links: a running controller has its own
\* link registered, the link counts that controller's frames only, and every
\* session is where somebody will use or end it.
LinkInv ==
  /\ TypeOK /\ RunningIsRegistered /\ LinkCountsOwnFrames
  /\ OneConnected /\ CallsInv /\ OrderInv /\ BalanceInv /\ PlaceInv
  /\ \A s \in Sessions : ProcessInv(ses[s])

\* A controller whose input process has ended does not linger: the message it
\* takes next, whichever that is, ends the link.
InputEndEndsLink ==
  \A s \in Sessions : At(s, "running") /\ ses[s].input # "loop" =>
    Gets(s, "close") \/ Gets(s, "parent") \/ Gets(s, "input")

\* Nothing is left to do: the server and net_kernel have no message, the accept
\* loop waits for one, and none of the steps of LoopStep and Progress has its guard.
\* Whether net_kernel starts another accept loop makes no difference.
Settled ==
  /\ server => box = <<>>
  /\ \A l \in Loops :
       /\ ~(loop[l] = "idle" /\ server)
       /\ loop[l] \in Sessions => /\ ses[loop[l]].at # "loop"
                                  /\ ses[loop[l]].parent # "accepting"
  /\ \A s \in Sessions : LET t == ses[s] IN
       /\ ~(server /\ t.side = "in" /\ t.at = "preface") /\ t.at # "kernel"
       /\ ~(t.parent = "handshake" /\ t.ctrl = "none")
       /\ t.native = "closed" \/ t.ctrl = "dead" =>
            t.parent \in {"none", "accepting", "dead"} /\ t.input # "loop"
       /\ t.ctrl \notin {"spawned", "trapping"}
       /\ At(s, "waiting") =>
            ~(Gets(s, "complete") \/ Gets(s, "close") \/ Gets(s, "parent"))
       /\ At(s, "running") =>
            ~(Gets(s, "close") \/ Gets(s, "parent") \/ Gets(s, "input"))
       /\ ~server => t.ctrl \notin {"registering", "unregistering"}
       /\ t.native = "open" => Referenced(t)

\* No session is orphaned, acknowledged to the peer or not, but by the death of the
\* accept loop that handed it over: when nothing is left to do, a connection that is
\* open is the one in the queue, or has both a handshake or tick process and a
\* controller.  A full queue, a dead waiter, a handshake that fails at any point of
\* the holder's start, a failed registration or unregistration all end in its
\* close.  Only a do_accept whose accept loop died before it forwarded the session
\* keeps one for ever.
NoOrphanSession ==
  Settled => \A s \in Sessions : ses[s].native = "open" =>
    \/ ses[s].at = "queued" /\ queue = <<s>>
    \/ /\ ses[s].parent \in {"handshake", "completing", "up"}
       /\ ses[s].ctrl \in {"waiting", "running"}
    \/ ses[s].parent = "accepting" /\ s \in deserted
==============================================================================
