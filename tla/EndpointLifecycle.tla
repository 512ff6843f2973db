-------------------------- MODULE EndpointLifecycle --------------------------
(***************************************************************************)
(* The life of endpoints that share private identities: the VM-wide        *)
(* registry of active identities, the asynchronous bind, the close future, *)
(* and the callers that may release an endpoint at the same time (a        *)
(* watcher that finds its owner dead, the close future, the owner's abort  *)
(* after a failed close, its terminate callback, the BEAM's monitor and    *)
(* the resource's destructor).                                             *)
(*                                                                         *)
(* Each member of Endpoints is one start of an Endpoint server with one    *)
(* native resource.  Users are other processes: they get the endpoint's    *)
(* resource from its server and clone the native endpoint for the          *)
(* duration of a connect or an accept.                                     *)
(*                                                                         *)
(* The cancellation protocol is NativeOperation's; here a compare-and-     *)
(* exchange and the wake-up that follows it are one step.                  *)
(***************************************************************************)
EXTENDS Naturals, FiniteSets

CONSTANTS
  Endpoints,  \* starts of an endpoint server
  Users,      \* processes that run operations on endpoints
  Ids,        \* private identities
  NoEndpoint

ASSUME EndpointsAssumption ==
  /\ IsFiniteSet(Endpoints)
  /\ NoEndpoint \notin Endpoints

\* Who may run take_endpoint and release_identity on a resource.
Releasers == {"watcher", "close", "abort", "terminate", "down", "drop"}
ReleasePcs == {"none", "take", "await", "swap", "remove", "count", "done",
               "replied"}

VARIABLES
  key,         \* the identity an endpoint is started with
  server,      \* the endpoint's server process
  op,          \* state of the operation its server awaits (bind, then close)
  task,        \* the bind task: "none", "running", "ok", "error", "dropped"
  watcher,     \* the bind watcher
  native,      \* where the native endpoint is: in no place yet, in the bind
               \* task, in the resource's slot, in a releaser's hands, closed
               \* for all its clones, dropped
  resource,    \* the EndpointResource: "none", "live", "freed"
  released,    \* EndpointResource.released
  rel,         \* where each releaser is
  monitor,     \* the resource's monitor: "none", "set", "fired"
  inbox,       \* the message in the server's mailbox: "none", "ok", "error"
  closed,      \* what close returned: "none", "ok", "error"
  identities,  \* active_identities()
  active,      \* ACTIVE_ENDPOINTS
  at, uses     \* where a user is, and on which endpoint

bindVars == <<op, task, watcher>>
resourceVars == <<native, resource, released, rel, monitor>>
registryVars == <<identities, active>>
userVars == <<at, uses>>
vars == <<key, server, bindVars, resourceVars, inbox, closed, registryVars,
          userVars>>

ServerStates == {"new", "binding", "awaiting", "running", "closing",
                 "aborting", "terminating", "exited"}
WatcherStates == {"none", "select", "cas", "wrap", "monitor", "aborting",
                  "failed", "lost", "retire", "reply_ok", "reply_error", "done"}

\* Every variable has its type.
TypeOK ==
  /\ key \in [Endpoints -> Ids]
  /\ server \in [Endpoints -> ServerStates]
  /\ op \in [Endpoints -> {"none", "RUNNING", "COMPLETED", "CANCELLED"}]
  /\ task \in [Endpoints -> {"none", "running", "ok", "error", "dropped"}]
  /\ watcher \in [Endpoints -> WatcherStates]
  /\ native \in [Endpoints -> {"none", "bind", "slot", "closed", "dropped"}
                              \cup Releasers]
  /\ resource \in [Endpoints -> {"none", "live", "freed"}]
  /\ released \in [Endpoints -> BOOLEAN]
  /\ rel \in [Endpoints -> [Releasers -> ReleasePcs]]
  /\ monitor \in [Endpoints -> {"none", "set", "fired"}]
  /\ inbox \in [Endpoints -> {"none", "ok", "error"}]
  /\ closed \in [Endpoints -> {"none", "ok", "error"}]
  /\ identities \subseteq Ids
  /\ active \in Nat
  /\ at \in [Users -> {"idle", "config", "operation"}]
  /\ uses \in [Users -> Endpoints \cup {NoEndpoint}]

Init ==
  /\ key \in [Endpoints -> Ids]
  /\ server = [e \in Endpoints |-> "new"]
  /\ op = [e \in Endpoints |-> "none"]
  /\ task = [e \in Endpoints |-> "none"]
  /\ watcher = [e \in Endpoints |-> "none"]
  /\ native = [e \in Endpoints |-> "none"]
  /\ resource = [e \in Endpoints |-> "none"]
  /\ released = [e \in Endpoints |-> FALSE]
  /\ rel = [e \in Endpoints |-> [r \in Releasers |-> "none"]]
  /\ monitor = [e \in Endpoints |-> "none"]
  /\ inbox = [e \in Endpoints |-> "none"]
  /\ closed = [e \in Endpoints |-> "none"]
  /\ identities = {}
  /\ active = 0
  /\ at = [u \in Users |-> "idle"]
  /\ uses = [u \in Users |-> NoEndpoint]
------------------------------------------------------------------------------
(* Binding *)

\* A process exits: the resource's monitor, if set, fires.
Exits(e) ==
  /\ server' = [server EXCEPT ![e] = "exited"]
  /\ monitor' = [monitor EXCEPT ![e] = IF @ = "set" THEN "fired" ELSE @]

\* endpoint_bind_start: an invalid configuration or an identity that is
\* already active stops the server; otherwise the identity is reserved.
Reserve(e) ==
  /\ server[e] = "new"
  /\ \/ /\ Exits(e)
        /\ UNCHANGED identities
     \/ /\ key[e] \notin identities
        /\ server' = [server EXCEPT ![e] = "binding"]
        /\ identities' = identities \cup {key[e]}
        /\ UNCHANGED monitor
  /\ UNCHANGED <<key, bindVars, native, resource, released, rel, inbox, closed,
                 active, userVars>>

\* The rest of the NIF: a builder error gives the identity back; otherwise the
\* bind task and its watcher are spawned and the server awaits them.
SpawnBind(e) ==
  /\ server[e] = "binding"
  /\ \/ /\ Exits(e)
        /\ identities' = identities \ {key[e]}
        /\ UNCHANGED bindVars
     \/ /\ server' = [server EXCEPT ![e] = "awaiting"]
        /\ op' = [op EXCEPT ![e] = "RUNNING"]
        /\ task' = [task EXCEPT ![e] = "running"]
        /\ watcher' = [watcher EXCEPT ![e] = "select"]
        /\ UNCHANGED <<identities, monitor>>
  /\ UNCHANGED <<key, native, resource, released, rel, inbox, closed, active,
                 userVars>>

\* builder.bind() ends.
BindEnds(e) ==
  /\ task[e] = "running"
  /\ \/ /\ task' = [task EXCEPT ![e] = "ok"]
        /\ native' = [native EXCEPT ![e] = "bind"]
     \/ /\ task' = [task EXCEPT ![e] = "error"]
        /\ UNCHANGED native
  /\ UNCHANGED <<key, server, op, watcher, resource, released, rel, monitor,
                 inbox, closed, registryVars, userVars>>

\* The watcher's select!: the task's result, or the cancellation, which aborts
\* the task and drops whatever it produced.
Select(e) ==
  /\ watcher[e] = "select"
  /\ watcher' = [watcher EXCEPT ![e] = "cas"]
  /\ \/ /\ task[e] \in {"ok", "error"}
        /\ UNCHANGED <<task, native>>
     \/ /\ op[e] = "CANCELLED"
        /\ task' = [task EXCEPT ![e] = "dropped"]
        /\ native' = [native EXCEPT ![e] = IF @ = "bind" THEN "dropped" ELSE @]
  /\ UNCHANGED <<key, server, op, resource, released, rel, monitor, inbox,
                 closed, registryVars, userVars>>

\* should_complete
Complete(e) ==
  /\ watcher[e] = "cas"
  /\ \/ /\ op[e] = "RUNNING"
        /\ op' = [op EXCEPT ![e] = "COMPLETED"]
        /\ watcher' = [watcher EXCEPT ![e] =
                         IF task[e] = "ok" THEN "wrap" ELSE "failed"]
     \/ /\ op[e] # "RUNNING"
        /\ watcher' = [watcher EXCEPT ![e] = "lost"]
        /\ UNCHANGED op
  /\ UNCHANGED <<key, server, task, resourceVars, inbox, closed, registryVars,
                 userVars>>

\* release_reserved_identity, after a failed bind or a cancelled one.
ReleaseReserved(e) ==
  /\ watcher[e] \in {"failed", "lost"}
  /\ identities' = identities \ {key[e]}
  /\ watcher' = [watcher EXCEPT ![e] =
                   IF @ = "failed" THEN "reply_error" ELSE "retire"]
  /\ UNCHANGED <<key, server, op, task, resourceVars, inbox, closed, active,
                 userVars>>

\* The watcher of a cancelled bind ends; a native endpoint that was bound all
\* the same is dropped only now.
Retire(e) ==
  /\ watcher[e] = "retire"
  /\ watcher' = [watcher EXCEPT ![e] = "done"]
  /\ native' = [native EXCEPT ![e] = IF @ = "bind" THEN "dropped" ELSE @]
  /\ UNCHANGED <<key, server, op, task, resource, released, rel, monitor,
                 inbox, closed, registryVars, userVars>>

\* The EndpointResource is created and counted.
Wrap(e) ==
  /\ watcher[e] = "wrap"
  /\ active' = active + 1
  /\ native' = [native EXCEPT ![e] = "slot"]
  /\ resource' = [resource EXCEPT ![e] = "live"]
  /\ watcher' = [watcher EXCEPT ![e] = "monitor"]
  /\ UNCHANGED <<key, server, op, task, released, rel, monitor, inbox, closed,
                 identities, userVars>>

\* The resource monitors its server; if that is gone the watcher aborts it.
MonitorServer(e) ==
  /\ watcher[e] = "monitor"
  /\ \/ /\ server[e] # "exited"
        /\ monitor' = [monitor EXCEPT ![e] = "set"]
        /\ watcher' = [watcher EXCEPT ![e] = "reply_ok"]
        /\ UNCHANGED rel
     \/ /\ server[e] = "exited"
        /\ rel' = [rel EXCEPT ![e]["watcher"] = "take"]
        /\ watcher' = [watcher EXCEPT ![e] = "aborting"]
        /\ UNCHANGED monitor
  /\ UNCHANGED <<key, server, op, task, native, resource, released, inbox,
                 closed, registryVars, userVars>>

WatcherAborted(e) ==
  /\ watcher[e] = "aborting"
  /\ rel[e]["watcher"] = "done"
  /\ watcher' = [watcher EXCEPT ![e] = "reply_error"]
  /\ UNCHANGED <<key, server, op, task, resourceVars, inbox, closed,
                 registryVars, userVars>>

\* send_operation_result; a message to a dead process vanishes.
SendReply(e) ==
  /\ watcher[e] \in {"reply_ok", "reply_error"}
  /\ inbox' = [inbox EXCEPT ![e] = IF server[e] = "exited" THEN "none"
                 ELSE IF watcher[e] = "reply_ok" THEN "ok" ELSE "error"]
  /\ watcher' = [watcher EXCEPT ![e] = "done"]
  /\ UNCHANGED <<key, server, op, task, resourceVars, closed, registryVars,
                 userVars>>
------------------------------------------------------------------------------
(* The endpoint server *)

\* init receives the result of the bind; an error stops the server.
BindReturns(e) ==
  /\ server[e] = "awaiting"
  /\ inbox[e] # "none"
  /\ inbox' = [inbox EXCEPT ![e] = "none"]
  /\ \/ /\ inbox[e] = "ok"
        /\ server' = [server EXCEPT ![e] = "running"]
        /\ UNCHANGED monitor
     \/ /\ inbox[e] = "error"
        /\ Exits(e)
  /\ UNCHANGED <<key, bindVars, native, resource, released, rel, closed,
                 registryVars, userVars>>

\* The startup timeout: init cancels the operation and stops the server.
BindTimesOut(e) ==
  /\ server[e] = "awaiting"
  /\ inbox[e] = "none"
  /\ op' = [op EXCEPT ![e] = IF @ = "RUNNING" THEN "CANCELLED" ELSE @]
  /\ Exits(e)
  /\ UNCHANGED <<key, task, watcher, native, resource, released, rel, inbox,
                 closed, registryVars, userVars>>

\* handle_call({:close, timeout}) starts the close future.
CloseStart(e) ==
  /\ server[e] = "running"
  /\ server' = [server EXCEPT ![e] = "closing"]
  /\ op' = [op EXCEPT ![e] = "RUNNING"]
  /\ rel' = [rel EXCEPT ![e]["close"] = "take"]
  /\ UNCHANGED <<key, task, watcher, native, resource, released, monitor, inbox,
                 closed, registryVars, userVars>>

\* The close future has ended: its watcher decides, then replies.
CloseCompletes(e) ==
  /\ rel[e]["close"] = "done"
  /\ op[e] = "RUNNING"
  /\ op' = [op EXCEPT ![e] = "COMPLETED"]
  /\ UNCHANGED <<key, server, task, watcher, resourceVars, inbox, closed,
                 registryVars, userVars>>

CloseReplies(e) ==
  /\ rel[e]["close"] = "done"
  /\ op[e] = "COMPLETED"
  /\ rel' = [rel EXCEPT ![e]["close"] = "replied"]
  /\ inbox' = [inbox EXCEPT ![e] = IF server[e] = "exited" THEN "none" ELSE "ok"]
  /\ UNCHANGED <<key, server, bindVars, native, resource, released, monitor,
                 closed, registryVars, userVars>>

\* The cancelled close future is dropped at its await, or before it ran.
CloseDropped(e) ==
  /\ op[e] = "CANCELLED"
  /\ rel[e]["close"] \in {"take", "await"}
  /\ rel' = [rel EXCEPT ![e]["close"] = "done"]
  /\ native' = [native EXCEPT ![e] = IF @ = "close" THEN "dropped" ELSE @]
  /\ UNCHANGED <<key, server, bindVars, resource, released, monitor, inbox,
                 closed, registryVars, userVars>>

CloseReturns(e) ==
  /\ server[e] = "closing"
  /\ inbox[e] = "ok"
  /\ inbox' = [inbox EXCEPT ![e] = "none"]
  /\ closed' = [closed EXCEPT ![e] = "ok"]
  /\ server' = [server EXCEPT ![e] = "terminating"]
  /\ rel' = [rel EXCEPT ![e]["terminate"] = "take"]
  /\ UNCHANGED <<key, bindVars, native, resource, released, monitor,
                 registryVars, userVars>>

\* Mutant: close waits for the native close without a limit.
CloseWaits(e) == FALSE /\ UNCHANGED vars

\* The shutdown timeout: the close is cancelled and the endpoint aborted.
CloseTimesOut(e) ==
  /\ server[e] = "closing"
  /\ inbox[e] = "none"
  /\ op' = [op EXCEPT ![e] = IF @ = "RUNNING" THEN "CANCELLED" ELSE @]
  /\ closed' = [closed EXCEPT ![e] = "error"]
  /\ server' = [server EXCEPT ![e] = "aborting"]
  /\ rel' = [rel EXCEPT ![e]["abort"] = "take"]
  /\ UNCHANGED <<key, task, watcher, native, resource, released, monitor, inbox,
                 registryVars, userVars>>

\* The server stops: after an abort, or because a callback failed or it was
\* asked to stop.  terminate aborts the endpoint.
Terminate(e) ==
  /\ \/ server[e] = "aborting" /\ rel[e]["abort"] = "done"
     \/ server[e] = "running"
  /\ server' = [server EXCEPT ![e] = "terminating"]
  /\ rel' = [rel EXCEPT ![e]["terminate"] = "take"]
  /\ UNCHANGED <<key, bindVars, native, resource, released, monitor, inbox,
                 closed, registryVars, userVars>>

Terminated(e) ==
  /\ server[e] = "terminating"
  /\ rel[e]["terminate"] = "done"
  /\ Exits(e)
  /\ UNCHANGED <<key, bindVars, native, resource, released, rel, inbox, closed,
                 registryVars, userVars>>

\* The server traps no exits: an exit signal kills it without terminate.
Killed(e) ==
  /\ server[e] \in {"awaiting", "running", "closing"}
  /\ Exits(e)
  /\ inbox' = [inbox EXCEPT ![e] = "none"]
  /\ UNCHANGED <<key, bindVars, native, resource, released, rel, closed,
                 registryVars, userVars>>

\* The monitor of the operation the dead server awaited cancels it.
OperationDown(e) ==
  /\ server[e] = "exited"
  /\ op[e] = "RUNNING"
  /\ op' = [op EXCEPT ![e] = "CANCELLED"]
  /\ UNCHANGED <<key, server, task, watcher, resourceVars, inbox, closed,
                 registryVars, userVars>>
------------------------------------------------------------------------------
(* Releasing *)

\* Mutant: the resource has no down callback.
DownIgnored(e) ==
  /\ monitor[e] = "fired"
  /\ resource[e] = "live"
  /\ monitor' = [monitor EXCEPT ![e] = "none"]
  /\ UNCHANGED <<key, server, bindVars, native, resource, released, rel, inbox,
                 closed, registryVars, userVars>>

\* The resource's down callback runs abort.
Down(e) ==
  /\ monitor[e] = "fired"
  /\ resource[e] = "live"
  /\ monitor' = [monitor EXCEPT ![e] = "none"]
  /\ rel' = [rel EXCEPT ![e]["down"] = "take"]
  /\ UNCHANGED <<key, server, bindVars, native, resource, released, inbox,
                 closed, registryVars, userVars>>

\* Does anything still refer to the resource: the watcher, a message to or the
\* state of the server, a running releaser, a user?
Referenced(e) ==
  \/ watcher[e] \in {"monitor", "aborting", "reply_ok"}
  \/ server[e] # "exited"
  \/ monitor[e] = "fired"
  \/ \E r \in Releasers : rel[e][r] \notin {"none", "done", "replied"}
  \/ \E u \in Users : uses[u] = e

\* The last reference is gone: the destructor runs abort.
Free(e) ==
  /\ resource[e] = "live"
  /\ ~Referenced(e)
  /\ resource' = [resource EXCEPT ![e] = "freed"]
  /\ rel' = [rel EXCEPT ![e]["drop"] = "take"]
  /\ UNCHANGED <<key, server, bindVars, native, released, monitor, inbox,
                 closed, registryVars, userVars>>

ReleaseAt(e, r, from) == rel[e][r] = from
ReleaseGoes(e, r, to) == rel' = [rel EXCEPT ![e][r] = to]

\* take_endpoint.  close awaits the native close of what it took; the others
\* go on to release the identity with the endpoint in hand.
Take(e, r) ==
  /\ ReleaseAt(e, r, "take")
  /\ native' = [native EXCEPT ![e] = IF @ = "slot" THEN r ELSE @]
  /\ ReleaseGoes(e, r, IF r = "close" /\ native[e] = "slot" THEN "await"
                       ELSE "swap")
  /\ UNCHANGED <<key, server, bindVars, resource, released, monitor, inbox,
                 closed, registryVars, userVars>>

\* Mutant: the close future returns without releasing the identity.
CloseAwaitedOnly(e) ==
  /\ ReleaseAt(e, "close", "await")
  /\ native' = [native EXCEPT ![e] = "closed"]
  /\ ReleaseGoes(e, "close", "done")
  /\ UNCHANGED <<key, server, bindVars, resource, released, monitor, inbox,
                 closed, registryVars, userVars>>

\* value.close().await returns: the endpoint is closed for its clones too.
CloseAwaited(e) ==
  /\ ReleaseAt(e, "close", "await")
  /\ native' = [native EXCEPT ![e] = "closed"]
  /\ ReleaseGoes(e, "close", "swap")
  /\ UNCHANGED <<key, server, bindVars, resource, released, monitor, inbox,
                 closed, registryVars, userVars>>

\* What a releaser still holds is dropped when it returns.
DropHeld(e, r) ==
  native' = [native EXCEPT ![e] = IF @ = r THEN "dropped" ELSE @]

\* Mutant: released is not tested.
SwapAlways(e, r) ==
  /\ ReleaseAt(e, r, "swap")
  /\ released' = [released EXCEPT ![e] = TRUE]
  /\ ReleaseGoes(e, r, "remove")
  /\ UNCHANGED <<key, server, bindVars, native, resource, monitor, inbox,
                 closed, registryVars, userVars>>

\* release_identity: the first to swap released goes on, ...
Swap(e, r) ==
  /\ ReleaseAt(e, r, "swap")
  /\ released' = [released EXCEPT ![e] = TRUE]
  /\ \/ released[e] /\ ReleaseGoes(e, r, "done") /\ DropHeld(e, r)
     \/ ~released[e] /\ ReleaseGoes(e, r, "remove") /\ UNCHANGED native
  /\ UNCHANGED <<key, server, bindVars, resource, monitor, inbox, closed,
                 registryVars, userVars>>

\* ... removes the identity from the registry ...
Remove(e, r) ==
  /\ ReleaseAt(e, r, "remove")
  /\ identities' = identities \ {key[e]}
  /\ ReleaseGoes(e, r, "count")
  /\ UNCHANGED <<key, server, bindVars, native, resource, released, monitor,
                 inbox, closed, active, userVars>>

\* ... and uncounts the endpoint.
Uncount(e, r) ==
  /\ ReleaseAt(e, r, "count")
  /\ active' = active - 1
  /\ ReleaseGoes(e, r, "done")
  /\ DropHeld(e, r)
  /\ UNCHANGED <<key, server, bindVars, resource, released, monitor, inbox,
                 closed, identities, userVars>>
------------------------------------------------------------------------------
(* Other processes *)

\* connection_config: a user gets the resource from the running server.
GetConfig(u, e) ==
  /\ at[u] = "idle"
  /\ server[e] = "running"
  /\ at' = [at EXCEPT ![u] = "config"]
  /\ uses' = [uses EXCEPT ![u] = e]
  /\ UNCHANGED <<key, server, bindVars, resourceVars, inbox, closed,
                 registryVars>>

\* connect or accept clones the native endpoint, or finds the slot empty.
StartUse(u) ==
  /\ at[u] = "config"
  /\ \/ /\ native[uses[u]] = "slot"
        /\ at' = [at EXCEPT ![u] = "operation"]
        /\ UNCHANGED uses
     \/ /\ native[uses[u]] # "slot"
        /\ at' = [at EXCEPT ![u] = "idle"]
        /\ uses' = [uses EXCEPT ![u] = NoEndpoint]
  /\ UNCHANGED <<key, server, bindVars, resourceVars, inbox, closed,
                 registryVars>>

\* The operation ends, by itself or cancelled, and drops its clone.
EndUse(u) ==
  /\ at[u] = "operation"
  /\ at' = [at EXCEPT ![u] = "idle"]
  /\ uses' = [uses EXCEPT ![u] = NoEndpoint]
  /\ UNCHANGED <<key, server, bindVars, resourceVars, inbox, closed,
                 registryVars>>
------------------------------------------------------------------------------
\* What the runtime does by itself once an endpoint has been started.
BindStep(e) ==
  \/ SpawnBind(e) \/ Select(e) \/ Complete(e) \/ ReleaseReserved(e)
  \/ Retire(e) \/ Wrap(e) \/ MonitorServer(e) \/ WatcherAborted(e) \/ SendReply(e)

ServerStep(e) ==
  \/ BindReturns(e) \/ BindTimesOut(e)
  \/ CloseReturns(e) \/ CloseTimesOut(e) \/ Terminated(e)

RuntimeStep(e) ==
  \/ OperationDown(e) \/ CloseCompletes(e) \/ CloseReplies(e) \/ CloseDropped(e)
  \/ Down(e) \/ Free(e)

ReleaseStep(e, r) == Take(e, r) \/ Swap(e, r) \/ Remove(e, r) \/ Uncount(e, r)

Next ==
  \/ \E e \in Endpoints :
       \/ Reserve(e) \/ BindStep(e) \/ BindEnds(e) \/ ServerStep(e)
       \/ CloseStart(e) \/ Terminate(e) \/ Killed(e)
       \/ RuntimeStep(e) \/ CloseAwaited(e)
       \/ \E r \in Releasers : ReleaseStep(e, r)
  \/ \E u \in Users :
       \/ \E e \in Endpoints : GetConfig(u, e)
       \/ StartUse(u) \/ EndUse(u)

Spec == Init /\ [][Next]_vars
------------------------------------------------------------------------------
(* Properties *)

\* The identity of e is reserved for a bind in progress, or belongs to a
\* resource from whose release it has not been removed yet.
Holding(e) ==
  \/ server[e] = "binding"
  \/ watcher[e] \in {"select", "cas", "failed", "lost", "wrap"}
  \/ /\ resource[e] # "none"
     /\ released[e] => \E r \in Releasers : rel[e][r] = "remove"

\* active_identities() holds exactly the identities in use, each for one
\* endpoint: no late abort, down callback or destructor of an old endpoint
\* takes away the reservation of the one that replaced it, no failed or
\* cancelled bind leaves its identity behind.
RegistryExact ==
  /\ identities = {key[e] : e \in {f \in Endpoints : Holding(f)}}
  /\ \A e, f \in Endpoints :
       Holding(e) /\ Holding(f) /\ key[e] = key[f] => e = f

\* ACTIVE_ENDPOINTS counts the resources that were not released.
ActiveEndpointsExact ==
  active = Cardinality({e \in Endpoints :
             /\ resource[e] # "none"
             /\ released[e] => \E r \in Releasers :
                                rel[e][r] \in {"remove", "count"}})

\* A resource offers its native endpoint to operations only while it holds
\* the identity: every releaser empties the slot before the registry.
SlotHoldsIdentity ==
  \A e \in Endpoints : native[e] = "slot" => Holding(e)

\* One releaser is past the swap of `released`, and the slot is empty from the
\* first take_endpoint on.
OneReleaser ==
  \A e \in Endpoints :
    /\ \A r \in Releasers : rel[e][r] \in {"remove", "count"} => released[e]
    /\ \A r, s \in Releasers :
         rel[e][r] \in {"remove", "count"} /\ rel[e][s] \in {"remove", "count"}
         => r = s
    /\ native[e] = "slot" =>
         /\ ~released[e]
         /\ \A r \in Releasers : rel[e][r] \notin {"await", "swap", "remove", "count"}

\* The EndpointResource exists once the watcher has wrapped the bound endpoint,
\* before its server learns of it; before that nobody releases it.
ResourceInv ==
  \A e \in Endpoints :
    /\ server[e] \in {"new", "binding"} => watcher[e] = "none"
    /\ watcher[e] \in {"none", "select", "cas", "failed", "lost", "wrap", "retire"} =>
         resource[e] = "none"
    /\ \/ watcher[e] \in {"monitor", "aborting", "reply_ok"} \/ inbox[e] = "ok"
       \/ server[e] \in {"running", "closing", "aborting", "terminating"}
       => resource[e] # "none"
    /\ resource[e] = "none" =>
         /\ ~released[e] /\ native[e] # "slot" /\ monitor[e] = "none"
         /\ \A r \in Releasers : rel[e][r] = "none"

\* Each releaser runs once, and only after the event that starts it: the watcher,
\* the monitor and the destructor only once the server has exited.
ReleasersStart ==
  \A e \in Endpoints :
    /\ server[e] # "exited" =>
         /\ monitor[e] # "fired"
         /\ \A r \in {"watcher", "down", "drop"} : rel[e][r] = "none"
    /\ server[e] \in {"awaiting", "running"} => rel[e]["close"] = "none"
    /\ server[e] \in {"awaiting", "running", "closing"} => rel[e]["abort"] = "none"
    /\ server[e] \in {"awaiting", "running", "closing", "aborting"} =>
         rel[e]["terminate"] = "none"
    /\ watcher[e] = "monitor" =>
         /\ monitor[e] = "none"
         /\ rel[e]["watcher"] = "none" /\ rel[e]["down"] = "none"
    /\ monitor[e] # "none" => rel[e]["down"] = "none"
    /\ resource[e] # "freed" => rel[e]["drop"] = "none"

\* The message a closing server takes for the close's is the close's: that of the
\* bind was received before, and the close has released the identity by then.
CloseInv ==
  \A e \in Endpoints :
    /\ server[e] \in {"new", "binding"} => inbox[e] = "none"
    /\ server[e] = "awaiting" /\ inbox[e] # "none" => watcher[e] = "done"
    /\ server[e] = "running" => watcher[e] = "done" /\ inbox[e] = "none"
    /\ server[e] = "closing" =>
         /\ watcher[e] = "done" /\ op[e] # "CANCELLED"
         /\ rel[e]["close"] \in {"done", "replied"} => released[e]
         /\ inbox[e] # "none" => rel[e]["close"] = "replied"
    /\ closed[e] = "ok" =>
         released[e] /\ \A r \in Releasers : rel[e][r] # "remove"

\* Nobody drops an obligation to release: whoever has ended has released, a server
\* that exits has the watcher, the monitor or the down callback to release for it,
\* and the operation it awaited can still be cancelled.
ObligationInv ==
  \A e \in Endpoints :
    /\ \A r \in Releasers :
         /\ rel[e][r] \in {"await", "replied"} => r = "close"
         /\ rel[e][r] = "done" /\ r # "close" => released[e]
    /\ rel[e]["close"] # "none" => watcher[e] = "done"
    /\ watcher[e] = "select" \/ rel[e]["close"] \in {"take", "await"} =>
         op[e] \in {"RUNNING", "CANCELLED"}
    /\ watcher[e] = "aborting" => rel[e]["watcher"] # "none"
    /\ resource[e] = "freed" => rel[e]["drop"] # "none"
    /\ resource[e] # "none" =>
         \/ watcher[e] = "monitor" \/ rel[e]["watcher"] # "none"
         \/ monitor[e] # "none" \/ rel[e]["down"] # "none"
    /\ monitor[e] = "set" => server[e] # "exited"
    /\ server[e] \in {"running", "closing"} => closed[e] = "none" /\ inbox[e] # "error"
    /\ server[e] = "aborting" => rel[e]["abort"] # "none"
    /\ server[e] = "terminating" => rel[e]["terminate"] # "none"
    /\ closed[e] # "none" => server[e] \in {"aborting", "terminating", "exited"}

\* The inductive invariant of the registry: identities, counter and slots agree
\* with the endpoints, whichever of the six releasers race.
EndpointInv ==
  /\ TypeOK /\ RegistryExact /\ ActiveEndpointsExact /\ SlotHoldsIdentity
  /\ OneReleaser /\ ResourceInv /\ ReleasersStart /\ CloseInv /\ ObligationInv

\* A successful close has given the identity back: the caller may start
\* another endpoint with it at once.
CloseFreesIdentity ==
  \A e \in Endpoints : closed[e] = "ok" => ~Holding(e)

\* Nothing is left to do for e: its threads, tasks, callbacks and timers have
\* run; nothing obliges a bind, a native close or a user's operation to end by
\* itself, nor anyone to stop a server.
AtRest(e) ==
  /\ ~ENABLED (BindStep(e) \/ ServerStep(e) \/ RuntimeStep(e))
  /\ \A r \in Releasers : ~ENABLED ReleaseStep(e, r)

\* The same, as the state it is: no guard of those steps holds.
Settled(e) ==
  /\ watcher[e] \in {"none", "select", "aborting", "done"}
  /\ watcher[e] = "select" => task[e] \notin {"ok", "error"} /\ op[e] # "CANCELLED"
  /\ watcher[e] = "aborting" => rel[e]["watcher"] # "done"
  /\ server[e] \notin {"binding", "awaiting"}
  /\ server[e] = "closing" => inbox[e] = "error"
  /\ server[e] = "terminating" => rel[e]["terminate"] # "done"
  /\ server[e] = "exited" => op[e] # "RUNNING"
  /\ rel[e]["close"] = "done" => op[e] \notin {"RUNNING", "COMPLETED"}
  /\ rel[e]["close"] \in {"take", "await"} => op[e] # "CANCELLED"
  /\ resource[e] = "live" => monitor[e] # "fired" /\ Referenced(e)
  /\ \A r \in Releasers : rel[e][r] \notin {"take", "swap", "remove", "count"}

\* Once its server is gone, for whatever reason and at whatever moment of the
\* bind or the close, the identity of an endpoint becomes free.
ExitFreesIdentity ==
  \A e \in Endpoints : server[e] = "exited" /\ Settled(e) => ~Holding(e)

\* No endpoint settles in the middle of a close, nor with its identity held once
\* a close has returned, with success or not.
CloseSettlesFree ==
  \A e \in Endpoints : Settled(e) =>
    server[e] # "closing" /\ (closed[e] # "none" => ~Holding(e))

\* A close that was asked for ends, even if the native close never does, and
\* leaves the identity free: an endpoint at which no step is left has settled.
CloseEndsHolding ==
  /\ \A e \in Endpoints : AtRest(e) => Settled(e)
  /\ CloseSettlesFree

\* A native endpoint lives in its resource's slot, and in the clones of the
\* operations that use it until it has been closed.
Live(e) ==
  \/ native[e] = "slot"
  \/ native[e] # "closed" /\ \E u \in Users : at[u] = "operation" /\ uses[u] = e

\* What the documentation says of identities: no two endpoints that still run
\* operations or offer their native endpoint have the same one.
IdentityHasOneLiveEndpoint ==
  \A e, f \in Endpoints : Live(e) /\ Live(f) /\ key[e] = key[f] => e = f
==============================================================================
