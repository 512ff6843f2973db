----------------------- MODULE EndpointLifecycleProofs -----------------------
(***************************************************************************)
(* Proofs, for any finite set of endpoints, users and identities, that the *)
(* registry of active identities and ACTIVE_ENDPOINTS are exact, whichever *)
(* of the releasers race, and that a close that has returned, or a server  *)
(* that is gone, gives the identity back.                                  *)
(***************************************************************************)
EXTENDS EndpointLifecycle, FiniteSetTheorems, TLAPS

\* The steps by which an endpoint gets or loses its server, the operation or
\* the bind task, without a releaser.
PlainStep(e) ==
  \/ Reserve(e) \/ SpawnBind(e) \/ BindEnds(e) \/ Select(e) \/ Complete(e)
  \/ ReleaseReserved(e) \/ Retire(e) \/ WatcherAborted(e) \/ SendReply(e)
  \/ BindReturns(e) \/ BindTimesOut(e) \/ Terminated(e) \/ Killed(e)
  \/ OperationDown(e) \/ CloseCompletes(e)

\* The steps that start a releaser.
StartStep(e) ==
  \/ MonitorServer(e) /\ server[e] = "exited"
  \/ CloseStart(e) \/ CloseReturns(e) \/ CloseTimesOut(e) \/ Terminate(e)
  \/ Down(e) \/ Free(e)

UserStep ==
  \E u \in Users : (\E e \in Endpoints : GetConfig(u, e)) \/ StartUse(u) \/ EndUse(u)

\* The next-state relation, one disjunct per kind of step.
LEMMA NextCases ==
  ASSUME [Next]_vars
  PROVE  \/ \E e \in Endpoints :
              \/ PlainStep(e) \/ Wrap(e)
              \/ MonitorServer(e) /\ server[e] # "exited"
              \/ StartStep(e)
              \/ CloseReplies(e) \/ CloseDropped(e) \/ CloseAwaited(e)
         \/ \E e \in Endpoints, r \in Releasers :
              Take(e, r) \/ Swap(e, r) \/ Remove(e, r) \/ Uncount(e, r)
         \/ UserStep
         \/ UNCHANGED vars
BY DEF Next, BindStep, ServerStep, RuntimeStep, ReleaseStep, PlainStep,
   StartStep,
   UserStep

\* One releaser of one endpoint moves, the others stay where they are.
LEMMA OneReleaserMoves ==
  ASSUME rel \in [Endpoints -> [Releasers -> ReleasePcs]],
         NEW e \in Endpoints, NEW r \in Releasers, NEW v \in ReleasePcs,
         rel' = [rel EXCEPT ![e][r] = v]
  PROVE  /\ rel' \in [Endpoints -> [Releasers -> ReleasePcs]]
         /\ rel'[e][r] = v
         /\ \A s \in Releasers \ {r} : rel'[e][s] = rel[e][s]
         /\ \A f \in Endpoints \ {e} : rel'[f] = rel[f]
OBVIOUS

\* The variables of an endpoint that the invariant is about stay as they are at
\* every other endpoint.
Elsewhere(e) ==
  \A f \in Endpoints \ {e} :
    /\ server'[f] = server[f] /\ op'[f] = op[f] /\ watcher'[f] = watcher[f]
    /\ native'[f] = native[f] /\ resource'[f] = resource[f]
    /\ released'[f] = released[f] /\ rel'[f] = rel[f]
    /\ monitor'[f] = monitor[f] /\ inbox'[f] = inbox[f] /\ closed'[f] = closed[f]

\* An exit leaves a set monitor fired and changes no other.
LEMMA ExitEffect ==
  ASSUME TypeOK, NEW e \in Endpoints, Exits(e)
  PROVE  /\ server' \in [Endpoints -> ServerStates]
         /\ monitor' \in [Endpoints -> {"none", "set", "fired"}]
         /\ server'[e] = "exited" /\ (monitor'[e] = "none" <=> monitor[e] = "none")
         /\ \A f \in Endpoints \ {e} : server'[f] = server[f] /\ monitor'[f] = monitor[f]
BY DEF Exits, TypeOK, ServerStates

\* The parts of the invariant that speak of one endpoint at a time.
LocalInv == OneReleaser /\ ResourceInv /\ ReleasersStart /\ CloseInv

\* The steps of the server, the watcher and the bind task keep them.
LEMMA NextPlain ==
  ASSUME EndpointInv,
         \E e \in Endpoints : \/ PlainStep(e) \/ Wrap(e)
                              \/ MonitorServer(e) /\ server[e] # "exited"
  PROVE  LocalInv'
<1>0. TypeOK /\ LocalInv
  BY DEF EndpointInv, LocalInv
<1>1. ASSUME NEW e \in Endpoints, Reserve(e) PROVE LocalInv'
  <2>1. /\ Elsewhere(e)
        /\ server[e] = "new" /\ server'[e] \in {"binding", "exited"}
        /\ monitor'[e] = "none" <=> monitor[e] = "none"
        /\ server'[e] = "binding" => monitor' = monitor
        /\ UNCHANGED <<op, watcher, native, resource, released, rel, inbox, closed>>
    BY <1>0, <1>1, ExitEffect DEF Reserve, Elsewhere, TypeOK, bindVars,
       resourceVars, registryVars
  <2> QED
    BY <1>0, <2>1 DEF LocalInv, OneReleaser, ResourceInv, ReleasersStart,
       CloseInv, Elsewhere
<1>2. ASSUME NEW e \in Endpoints, SpawnBind(e) PROVE LocalInv'
  <2>1. /\ Elsewhere(e)
        /\ server[e] = "binding"
        /\ monitor'[e] = "none" <=> monitor[e] = "none"
        /\ \/ server'[e] = "exited" /\ watcher' = watcher
           \/ /\ server'[e] = "awaiting" /\ watcher'[e] = "select"
              /\ monitor' = monitor
        /\ UNCHANGED <<native, resource, released, rel, inbox, closed>>
    BY <1>0, <1>2, ExitEffect DEF SpawnBind, Elsewhere, TypeOK, bindVars,
       resourceVars, registryVars
  <2> QED
    BY <1>0, <2>1 DEF LocalInv, OneReleaser, ResourceInv, ReleasersStart,
       CloseInv, Elsewhere, Releasers
<1>3. ASSUME NEW e \in Endpoints, BindEnds(e) PROVE LocalInv'
  <2>1. /\ Elsewhere(e)
        /\ native'[e] \in {native[e], "bind"}
        /\ UNCHANGED <<server, op, watcher, resource, released, rel, monitor, inbox,
                     closed>>
    BY <1>0, <1>3 DEF BindEnds, Elsewhere, TypeOK, bindVars, resourceVars,
       registryVars
  <2> QED
    BY <1>0, <2>1 DEF LocalInv, OneReleaser, ResourceInv, ReleasersStart,
       CloseInv, Elsewhere
<1>4. ASSUME NEW e \in Endpoints, Select(e) PROVE LocalInv'
  <2>1. /\ Elsewhere(e)
        /\ watcher[e] = "select" /\ watcher'[e] = "cas"
        /\ native'[e] \in {native[e], "dropped"}
        /\ UNCHANGED <<server, op, resource, released, rel, monitor, inbox, closed>>
    BY <1>0, <1>4 DEF Select, Elsewhere, TypeOK, bindVars, resourceVars,
       registryVars
  <2> QED
    BY <1>0, <2>1 DEF LocalInv, OneReleaser, ResourceInv, ReleasersStart,
       CloseInv, Elsewhere
<1>5. ASSUME NEW e \in Endpoints, Complete(e) PROVE LocalInv'
  <2>1. /\ Elsewhere(e)
        /\ watcher[e] = "cas" /\ watcher'[e] \in {"wrap", "failed", "lost"}
        /\ UNCHANGED <<server, native, resource, released, rel, monitor, inbox, closed>>
    BY <1>0, <1>5 DEF Complete, Elsewhere, TypeOK, bindVars, resourceVars,
       registryVars
  <2> QED
    BY <1>0, <2>1 DEF LocalInv, OneReleaser, ResourceInv, ReleasersStart,
       CloseInv, Elsewhere
<1>6. ASSUME NEW e \in Endpoints, ReleaseReserved(e) PROVE LocalInv'
  <2>1. /\ Elsewhere(e)
        /\ \/ watcher[e] = "failed" /\ watcher'[e] = "reply_error"
           \/ watcher[e] = "lost" /\ watcher'[e] = "retire"
        /\ UNCHANGED <<server, op, native, resource, released, rel, monitor, inbox,
                     closed>>
    BY <1>0, <1>6 DEF ReleaseReserved, Elsewhere, TypeOK, bindVars,
       resourceVars, registryVars
  <2> QED
    BY <1>0, <2>1 DEF LocalInv, OneReleaser, ResourceInv, ReleasersStart,
       CloseInv, Elsewhere
<1>7. ASSUME NEW e \in Endpoints, Retire(e) PROVE LocalInv'
  <2>1. /\ Elsewhere(e)
        /\ watcher[e] = "retire" /\ watcher'[e] = "done"
        /\ native'[e] \in {native[e], "dropped"}
        /\ UNCHANGED <<server, op, resource, released, rel, monitor, inbox, closed>>
    BY <1>0, <1>7 DEF Retire, Elsewhere, TypeOK, bindVars, resourceVars,
       registryVars
  <2> QED
    BY <1>0, <2>1 DEF LocalInv, OneReleaser, ResourceInv, ReleasersStart,
       CloseInv, Elsewhere
<1>8. ASSUME NEW e \in Endpoints, WatcherAborted(e) PROVE LocalInv'
  <2>1. /\ Elsewhere(e)
        /\ watcher[e] = "aborting" /\ watcher'[e] = "reply_error"
        /\ UNCHANGED <<server, op, native, resource, released, rel, monitor, inbox,
                     closed>>
    BY <1>0, <1>8 DEF WatcherAborted, Elsewhere, TypeOK, bindVars, resourceVars,
       registryVars
  <2> QED
    BY <1>0, <2>1 DEF LocalInv, OneReleaser, ResourceInv, ReleasersStart,
       CloseInv, Elsewhere
<1>9. ASSUME NEW e \in Endpoints, SendReply(e) PROVE LocalInv'
  <2>1. /\ Elsewhere(e)
        /\ watcher[e] \in {"reply_ok", "reply_error"} /\ watcher'[e] = "done"
        /\ inbox'[e] = "ok" => watcher[e] = "reply_ok"
        /\ UNCHANGED <<server, op, native, resource, released, rel, monitor, closed>>
    BY <1>0, <1>9 DEF SendReply, Elsewhere, TypeOK, bindVars, resourceVars,
       registryVars
  <2> QED
    BY <1>0, <2>1 DEF LocalInv, OneReleaser, ResourceInv, ReleasersStart,
       CloseInv, Elsewhere
<1>10. ASSUME NEW e \in Endpoints, BindReturns(e) PROVE LocalInv'
  <2>1. /\ Elsewhere(e)
        /\ server[e] = "awaiting" /\ inbox[e] # "none" /\ inbox'[e] = "none"
        /\ monitor'[e] = "none" <=> monitor[e] = "none"
        /\ \/ server'[e] = "exited"
           \/ server'[e] = "running" /\ inbox[e] = "ok" /\ monitor' = monitor
        /\ UNCHANGED <<op, watcher, native, resource, released, rel, closed>>
    BY <1>0, <1>10, ExitEffect DEF BindReturns, Elsewhere, TypeOK, bindVars,
       resourceVars, registryVars
  <2> QED
    BY <1>0, <2>1 DEF LocalInv, OneReleaser, ResourceInv, ReleasersStart,
       CloseInv, Elsewhere
<1>11. ASSUME NEW e \in Endpoints, BindTimesOut(e) \/ Terminated(e) \/ Killed(e) PROVE LocalInv'
  <2>1. /\ Elsewhere(e)
        /\ server'[e] = "exited" /\ (monitor'[e] = "none" <=> monitor[e] = "none")
        /\ inbox'[e] \in {inbox[e], "none"}
        /\ server[e] \notin {"new", "binding"}
        /\ UNCHANGED <<watcher, native, resource, released, rel, closed>>
    BY <1>0, <1>11, ExitEffect DEF BindTimesOut, Terminated, Killed, Elsewhere,
       TypeOK, bindVars, resourceVars, registryVars
  <2> QED
    BY <1>0, <2>1 DEF LocalInv, OneReleaser, ResourceInv, ReleasersStart,
       CloseInv, Elsewhere
<1>12. ASSUME NEW e \in Endpoints, OperationDown(e) PROVE LocalInv'
  <2>1. /\ Elsewhere(e)
        /\ server[e] = "exited"
        /\ UNCHANGED <<server, watcher, native, resource, released, rel, monitor,
                     inbox, closed>>
    BY <1>0, <1>12 DEF OperationDown, Elsewhere, TypeOK, bindVars, resourceVars,
       registryVars
  <2> QED
    BY <1>0, <2>1 DEF LocalInv, OneReleaser, ResourceInv, ReleasersStart,
       CloseInv, Elsewhere
<1>13. ASSUME NEW e \in Endpoints, CloseCompletes(e) PROVE LocalInv'
  <2>1. /\ Elsewhere(e)
        /\ op'[e] = "COMPLETED"
        /\ UNCHANGED <<server, watcher, native, resource, released, rel, monitor,
                     inbox, closed>>
    BY <1>0, <1>13 DEF CloseCompletes, Elsewhere, TypeOK, bindVars,
       resourceVars, registryVars
  <2> QED
    BY <1>0, <2>1 DEF LocalInv, OneReleaser, ResourceInv, ReleasersStart,
       CloseInv, Elsewhere
<1>14. ASSUME NEW e \in Endpoints, Wrap(e) PROVE LocalInv'
  <2>1. /\ Elsewhere(e)
        /\ watcher[e] = "wrap" /\ watcher'[e] = "monitor"
        /\ native'[e] = "slot" /\ resource'[e] = "live"
        /\ UNCHANGED <<server, op, released, rel, monitor, inbox, closed>>
    BY <1>0, <1>14 DEF Wrap, Elsewhere, TypeOK, bindVars, resourceVars,
       registryVars
  <2> QED
    BY <1>0, <2>1 DEF LocalInv, OneReleaser, ResourceInv, ReleasersStart,
       CloseInv, Elsewhere, Releasers
<1>15. ASSUME NEW e \in Endpoints, MonitorServer(e), server[e] # "exited" PROVE LocalInv'
  <2>1. /\ Elsewhere(e)
        /\ watcher[e] = "monitor" /\ watcher'[e] = "reply_ok" /\ monitor'[e] = "set"
        /\ UNCHANGED <<server, op, native, resource, released, rel, inbox, closed>>
    BY <1>0, <1>15 DEF MonitorServer, Elsewhere, TypeOK, bindVars, resourceVars,
       registryVars
  <2> QED
    BY <1>0, <2>1 DEF LocalInv, OneReleaser, ResourceInv, ReleasersStart,
       CloseInv, Elsewhere
<1> QED
  BY <1>1, <1>2, <1>3, <1>4, <1>5, <1>6, <1>7, <1>8, <1>9, <1>10, <1>11, <1>12,
     <1>13, <1>14, <1>15 DEF PlainStep

\* A releaser starts once, on an endpoint whose resource exists.
LEMMA NextStart ==
  ASSUME EndpointInv, \E e \in Endpoints : StartStep(e)
  PROVE  LocalInv'
<1>0. TypeOK /\ LocalInv
  BY DEF EndpointInv, LocalInv
<1>1. ASSUME NEW e \in Endpoints, MonitorServer(e), server[e] = "exited" PROVE LocalInv'
  <2>1. rel' = [rel EXCEPT ![e]["watcher"] = "take"]
    BY <1>1 DEF MonitorServer
  <2>2. /\ rel'[e]["watcher"] = "take"
        /\ \A s \in Releasers \ {"watcher"} : rel'[e][s] = rel[e][s]
        /\ \A f \in Endpoints \ {e} : rel'[f] = rel[f]
    BY <1>0, <2>1, OneReleaserMoves DEF TypeOK, Releasers, ReleasePcs
  <2>3. /\ Elsewhere(e)
        /\ watcher[e] = "monitor" /\ watcher'[e] = "aborting" /\ server[e] = "exited"
        /\ UNCHANGED <<server, op, native, resource, released, monitor, inbox, closed>>
    BY <1>0, <1>1, <2>2 DEF MonitorServer, Elsewhere, TypeOK, bindVars,
       resourceVars, registryVars
  <2> QED
    BY <1>0, <2>2, <2>3 DEF LocalInv, OneReleaser, ResourceInv, ReleasersStart,
       CloseInv, Elsewhere, Releasers
<1>2. ASSUME NEW e \in Endpoints, CloseStart(e) PROVE LocalInv'
  <2>1. rel' = [rel EXCEPT ![e]["close"] = "take"]
    BY <1>2 DEF CloseStart
  <2>2. /\ rel'[e]["close"] = "take"
        /\ \A s \in Releasers \ {"close"} : rel'[e][s] = rel[e][s]
        /\ \A f \in Endpoints \ {e} : rel'[f] = rel[f]
    BY <1>0, <2>1, OneReleaserMoves DEF TypeOK, Releasers, ReleasePcs
  <2>3. /\ Elsewhere(e)
        /\ server[e] = "running" /\ server'[e] = "closing" /\ op'[e] = "RUNNING"
        /\ UNCHANGED <<watcher, native, resource, released, monitor, inbox, closed>>
    BY <1>0, <1>2, <2>2 DEF CloseStart, Elsewhere, TypeOK, bindVars,
       resourceVars, registryVars
  <2> QED
    BY <1>0, <2>2, <2>3 DEF LocalInv, OneReleaser, ResourceInv, ReleasersStart,
       CloseInv, Elsewhere, Releasers
<1>3. ASSUME NEW e \in Endpoints, CloseReturns(e) PROVE LocalInv'
  <2>1. rel' = [rel EXCEPT ![e]["terminate"] = "take"]
    BY <1>3 DEF CloseReturns
  <2>2. /\ rel'[e]["terminate"] = "take"
        /\ \A s \in Releasers \ {"terminate"} : rel'[e][s] = rel[e][s]
        /\ \A f \in Endpoints \ {e} : rel'[f] = rel[f]
    BY <1>0, <2>1, OneReleaserMoves DEF TypeOK, Releasers, ReleasePcs
  <2>3. /\ Elsewhere(e)
        /\ server[e] = "closing" /\ server'[e] = "terminating"
        /\ inbox[e] = "ok" /\ inbox'[e] = "none"
        /\ UNCHANGED <<op, watcher, native, resource, released, monitor>>
    BY <1>0, <1>3, <2>2 DEF CloseReturns, Elsewhere, TypeOK, bindVars,
       resourceVars, registryVars
  <2> QED
    BY <1>0, <2>2, <2>3 DEF LocalInv, OneReleaser, ResourceInv, ReleasersStart,
       CloseInv, Elsewhere, Releasers
<1>4. ASSUME NEW e \in Endpoints, CloseTimesOut(e) PROVE LocalInv'
  <2>1. rel' = [rel EXCEPT ![e]["abort"] = "take"]
    BY <1>4 DEF CloseTimesOut
  <2>2. /\ rel'[e]["abort"] = "take"
        /\ \A s \in Releasers \ {"abort"} : rel'[e][s] = rel[e][s]
        /\ \A f \in Endpoints \ {e} : rel'[f] = rel[f]
    BY <1>0, <2>1, OneReleaserMoves DEF TypeOK, Releasers, ReleasePcs
  <2>3. /\ Elsewhere(e)
        /\ server[e] = "closing" /\ server'[e] = "aborting" /\ closed'[e] = "error"
        /\ UNCHANGED <<watcher, native, resource, released, monitor, inbox>>
    BY <1>0, <1>4, <2>2 DEF CloseTimesOut, Elsewhere, TypeOK, bindVars,
       resourceVars, registryVars
  <2> QED
    BY <1>0, <2>2, <2>3 DEF LocalInv, OneReleaser, ResourceInv, ReleasersStart,
       CloseInv, Elsewhere, Releasers
<1>5. ASSUME NEW e \in Endpoints, Terminate(e) PROVE LocalInv'
  <2>1. rel' = [rel EXCEPT ![e]["terminate"] = "take"]
    BY <1>5 DEF Terminate
  <2>2. /\ rel'[e]["terminate"] = "take"
        /\ \A s \in Releasers \ {"terminate"} : rel'[e][s] = rel[e][s]
        /\ \A f \in Endpoints \ {e} : rel'[f] = rel[f]
    BY <1>0, <2>1, OneReleaserMoves DEF TypeOK, Releasers, ReleasePcs
  <2>3. /\ Elsewhere(e)
        /\ server[e] \in {"running", "aborting"} /\ server'[e] = "terminating"
        /\ UNCHANGED <<op, watcher, native, resource, released, monitor, inbox, closed>>
    BY <1>0, <1>5, <2>2 DEF Terminate, Elsewhere, TypeOK, bindVars,
       resourceVars, registryVars
  <2> QED
    BY <1>0, <2>2, <2>3 DEF LocalInv, OneReleaser, ResourceInv, ReleasersStart,
       CloseInv, Elsewhere, Releasers
<1>6. ASSUME NEW e \in Endpoints, Down(e) PROVE LocalInv'
  <2>1. rel' = [rel EXCEPT ![e]["down"] = "take"]
    BY <1>6 DEF Down
  <2>2. /\ rel'[e]["down"] = "take"
        /\ \A s \in Releasers \ {"down"} : rel'[e][s] = rel[e][s]
        /\ \A f \in Endpoints \ {e} : rel'[f] = rel[f]
    BY <1>0, <2>1, OneReleaserMoves DEF TypeOK, Releasers, ReleasePcs
  <2>3. /\ Elsewhere(e)
        /\ monitor[e] = "fired" /\ monitor'[e] = "none" /\ resource[e] = "live"
        /\ UNCHANGED <<server, op, watcher, native, resource, released, inbox, closed>>
    BY <1>0, <1>6, <2>2 DEF Down, Elsewhere, TypeOK, bindVars, resourceVars,
       registryVars
  <2> QED
    BY <1>0, <2>2, <2>3 DEF LocalInv, OneReleaser, ResourceInv, ReleasersStart,
       CloseInv, Elsewhere, Releasers
<1>7. ASSUME NEW e \in Endpoints, Free(e) PROVE LocalInv'
  <2>1. rel' = [rel EXCEPT ![e]["drop"] = "take"]
    BY <1>7 DEF Free, Referenced
  <2>2. /\ rel'[e]["drop"] = "take"
        /\ \A s \in Releasers \ {"drop"} : rel'[e][s] = rel[e][s]
        /\ \A f \in Endpoints \ {e} : rel'[f] = rel[f]
    BY <1>0, <2>1, OneReleaserMoves DEF TypeOK, Releasers, ReleasePcs
  <2>3. /\ Elsewhere(e)
        /\ server[e] = "exited" /\ resource[e] = "live" /\ resource'[e] = "freed"
        /\ watcher[e] # "monitor"
        /\ UNCHANGED <<server, op, watcher, native, released, monitor, inbox, closed>>
    BY <1>0, <1>7, <2>2 DEF Free, Referenced, Elsewhere, TypeOK, bindVars,
       resourceVars, registryVars
  <2> QED
    BY <1>0, <2>2, <2>3 DEF LocalInv, OneReleaser, ResourceInv, ReleasersStart,
       CloseInv, Elsewhere, Releasers
<1> QED
  BY <1>1, <1>2, <1>3, <1>4, <1>5, <1>6, <1>7 DEF StartStep

\* The close future and its watcher.
LEMMA NextCloseFuture ==
  ASSUME EndpointInv,
         \E e \in Endpoints : CloseReplies(e) \/ CloseDropped(e) \/ CloseAwaited(e)
  PROVE  LocalInv'
<1>0. TypeOK /\ LocalInv
  BY DEF EndpointInv, LocalInv
<1>1. ASSUME NEW e \in Endpoints, CloseReplies(e) PROVE LocalInv'
  <2>1. rel' = [rel EXCEPT ![e]["close"] = "replied"]
    BY <1>1 DEF CloseReplies
  <2>2. /\ rel'[e]["close"] = "replied"
        /\ \A s \in Releasers \ {"close"} : rel'[e][s] = rel[e][s]
        /\ \A f \in Endpoints \ {e} : rel'[f] = rel[f]
    <3>1. "close" \in Releasers /\ "replied" \in ReleasePcs
      BY DEF Releasers, ReleasePcs
    <3> QED BY <1>0, <2>1, <3>1, OneReleaserMoves DEF TypeOK
  <2>3. /\ Elsewhere(e)
        /\ rel[e]["close"] = "done" /\ op[e] = "COMPLETED"
        /\ inbox'[e] = "none" \/ (inbox'[e] = "ok" /\ server[e] # "exited")
        /\ UNCHANGED <<server, op, watcher, native, resource, released, monitor, closed>>
    BY <1>0, <1>1, <2>2 DEF CloseReplies, Elsewhere, TypeOK, bindVars,
       resourceVars, registryVars
  <2> QED
    BY <1>0, <2>2, <2>3 DEF LocalInv, OneReleaser, ResourceInv, ReleasersStart,
       CloseInv, Elsewhere, Releasers
<1>2. ASSUME NEW e \in Endpoints, CloseDropped(e) PROVE LocalInv'
  <2>1. rel' = [rel EXCEPT ![e]["close"] = "done"]
    BY <1>2 DEF CloseDropped
  <2>2. /\ rel'[e]["close"] = "done"
        /\ \A s \in Releasers \ {"close"} : rel'[e][s] = rel[e][s]
        /\ \A f \in Endpoints \ {e} : rel'[f] = rel[f]
    BY <1>0, <2>1, OneReleaserMoves DEF TypeOK, Releasers, ReleasePcs
  <2>3. /\ Elsewhere(e)
        /\ rel[e]["close"] \in {"take", "await"} /\ op[e] = "CANCELLED"
        /\ native'[e] = "slot" => native[e] = "slot"
        /\ UNCHANGED <<server, op, watcher, resource, released, monitor, inbox, closed>>
    BY <1>0, <1>2, <2>2 DEF CloseDropped, Elsewhere, TypeOK, bindVars,
       resourceVars, registryVars
  <2> QED
    BY <1>0, <2>2, <2>3 DEF LocalInv, OneReleaser, ResourceInv, ReleasersStart,
       CloseInv, Elsewhere, Releasers
<1>3. ASSUME NEW e \in Endpoints, CloseAwaited(e) PROVE LocalInv'
  <2>1. rel' = [rel EXCEPT ![e]["close"] = "swap"]
    BY <1>3 DEF CloseAwaited, ReleaseAt, ReleaseGoes
  <2>2. /\ rel'[e]["close"] = "swap"
        /\ \A s \in Releasers \ {"close"} : rel'[e][s] = rel[e][s]
        /\ \A f \in Endpoints \ {e} : rel'[f] = rel[f]
    BY <1>0, <2>1, OneReleaserMoves DEF TypeOK, Releasers, ReleasePcs
  <2>3. /\ Elsewhere(e)
        /\ rel[e]["close"] = "await" /\ native'[e] = "closed"
        /\ UNCHANGED <<server, op, watcher, resource, released, monitor, inbox, closed>>
    BY <1>0, <1>3, <2>2 DEF CloseAwaited, ReleaseAt, ReleaseGoes, Elsewhere,
       TypeOK, bindVars, resourceVars, registryVars
  <2> QED
    BY <1>0, <2>2, <2>3 DEF LocalInv, OneReleaser, ResourceInv, ReleasersStart,
       CloseInv, Elsewhere, Releasers
<1> QED BY <1>1, <1>2, <1>3

\* release_identity: the swap lets one releaser through.
LEMMA NextRelease ==
  ASSUME EndpointInv,
         \E e \in Endpoints, r \in Releasers :
           Take(e, r) \/ Swap(e, r) \/ Remove(e, r) \/ Uncount(e, r)
  PROVE  LocalInv'
<1>0. TypeOK /\ LocalInv
  BY DEF EndpointInv, LocalInv
<1>1. PICK e \in Endpoints, r \in Releasers :
        Take(e, r) \/ Swap(e, r) \/ Remove(e, r) \/ Uncount(e, r)
  OBVIOUS
<1>2. \E v \in ReleasePcs : rel' = [rel EXCEPT ![e][r] = v]
  BY <1>1 DEF Take, Swap, Remove, Uncount, ReleaseGoes, ReleasePcs
<1>3. /\ \A s \in Releasers \ {r} : rel'[e][s] = rel[e][s]
      /\ \A f \in Endpoints \ {e} : rel'[f] = rel[f]
  BY <1>0, <1>2, OneReleaserMoves DEF TypeOK
<1>4. /\ Elsewhere(e)
      /\ UNCHANGED <<server, op, watcher, resource, monitor, inbox, closed>>
      /\ native'[e] = "slot" => native[e] = "slot"
  <2>1. UNCHANGED <<server, op, watcher, resource, monitor, inbox, closed>>
    BY <1>1 DEF Take, Swap, Remove, Uncount, bindVars
  <2>2. /\ \A f \in Endpoints \ {e} : native'[f] = native[f]
        /\ \A f \in Endpoints \ {e} : released'[f] = released[f]
        /\ native'[e] = "slot" => native[e] = "slot"
    <3>1. CASE Take(e, r) \/ Remove(e, r)
      BY <1>0, <3>1 DEF Take, Remove, TypeOK, Releasers
    <3>2. CASE Swap(e, r) \/ Uncount(e, r)
      BY <1>0, <3>2 DEF Swap, Uncount, DropHeld, TypeOK, Releasers
    <3> QED BY <1>1, <3>1, <3>2
  <2> QED BY <1>3, <2>1, <2>2 DEF Elsewhere
<1>5. CASE Take(e, r)
  <2>1. /\ rel[e][r] = "take" /\ rel'[e][r] \in {"await", "swap"} /\ native'[e] # "slot"
        /\ released' = released
    BY <1>0, <1>5 DEF Take, ReleaseAt, ReleaseGoes, TypeOK, Releasers
  <2> QED
    BY <1>0, <1>3, <1>4, <2>1 DEF LocalInv, OneReleaser, ResourceInv,
       ReleasersStart, CloseInv, Elsewhere, Releasers
<1>6. CASE Swap(e, r)
  <2>1. /\ rel[e][r] = "swap" /\ released'[e]
        /\ rel'[e][r] = IF released[e] THEN "done" ELSE "remove"
    BY <1>0, <1>6 DEF Swap, ReleaseAt, ReleaseGoes, TypeOK
  <2> QED
    BY <1>0, <1>3, <1>4, <2>1 DEF LocalInv, OneReleaser, ResourceInv,
       ReleasersStart, CloseInv, Elsewhere, Releasers
<1>7. CASE Remove(e, r)
  <2>1. /\ rel[e][r] = "remove" /\ rel'[e][r] = "count" /\ released' = released
    BY <1>0, <1>7 DEF Remove, ReleaseAt, ReleaseGoes, TypeOK
  <2> QED
    BY <1>0, <1>3, <1>4, <2>1 DEF LocalInv, OneReleaser, ResourceInv,
       ReleasersStart, CloseInv, Elsewhere, Releasers
<1>8. CASE Uncount(e, r)
  <2>1. /\ rel[e][r] = "count" /\ rel'[e][r] = "done" /\ released' = released
    BY <1>0, <1>8 DEF Uncount, ReleaseAt, ReleaseGoes, TypeOK
  <2> QED
    BY <1>0, <1>3, <1>4, <2>1 DEF LocalInv, OneReleaser, ResourceInv,
       ReleasersStart, CloseInv, Elsewhere, Releasers
<1> QED BY <1>1, <1>5, <1>6, <1>7, <1>8

\* The endpoints whose identity is in use, and those that are counted.
Held == {e \in Endpoints : Holding(e)}
Counts(e) ==
  /\ resource[e] # "none"
  /\ released[e] => \E r \in Releasers : rel[e][r] \in {"remove", "count"}
Counted == {e \in Endpoints : Counts(e)}

\* A step that does neither reserve nor release: the registry, the counter and
\* what they count stay the same.
Steady == UNCHANGED <<identities, active>> /\ Held' = Held /\ Counted' = Counted

Reserving == {"select", "cas", "failed", "lost", "wrap"}

\* Most steps of the server and the watcher move neither out of nor into a phase
\* in which the identity is reserved.
LEMMA PlainSteady ==
  ASSUME TypeOK, NEW e \in Endpoints,
         \/ BindEnds(e) \/ Select(e) \/ Complete(e) \/ Retire(e)
         \/ WatcherAborted(e) \/ SendReply(e) \/ BindReturns(e)
         \/ BindTimesOut(e) \/ Terminated(e) \/ Killed(e)
         \/ OperationDown(e) \/ CloseCompletes(e)
         \/ MonitorServer(e) /\ server[e] # "exited"
  PROVE  Steady
<1>1. /\ UNCHANGED <<resource, released, rel, identities, active>>
      /\ \A f \in Endpoints : server'[f] = "binding" <=> server[f] = "binding"
      /\ \A f \in Endpoints : watcher'[f] \in Reserving <=> watcher[f] \in Reserving
  <2> USE DEF TypeOK, Reserving, bindVars, resourceVars, registryVars
  <2>1. CASE BindEnds(e) \/ OperationDown(e) \/ CloseCompletes(e)
    BY <2>1 DEF BindEnds, OperationDown, CloseCompletes
  <2>2. CASE Select(e) \/ Complete(e)
    BY <2>2 DEF Select, Complete
  <2>3. CASE Retire(e) \/ WatcherAborted(e) \/ SendReply(e)
    BY <2>3 DEF Retire, WatcherAborted, SendReply
  <2>4. CASE BindReturns(e)
    BY <2>4 DEF BindReturns, Exits
  <2>5. CASE BindTimesOut(e) \/ Terminated(e) \/ Killed(e)
    BY <2>5 DEF BindTimesOut, Terminated, Killed, Exits
  <2>6. CASE MonitorServer(e) /\ server[e] # "exited"
    BY <2>6 DEF MonitorServer
  <2> QED BY <2>1, <2>2, <2>3, <2>4, <2>5, <2>6
<1> QED BY <1>1 DEF Steady, Held, Holding, Counted, Counts, Reserving

\* A releaser that moves without passing the swap changes nothing either.
LEMMA MoveSteady ==
  ASSUME TypeOK, NEW e \in Endpoints, NEW r \in Releasers, NEW v \in ReleasePcs,
         rel' = [rel EXCEPT ![e][r] = v],
         rel[e][r] \notin {"remove", "count"}, v \notin {"remove", "count"},
         UNCHANGED <<released, identities, active>>,
         \A f \in Endpoints : resource'[f] = "none" <=> resource[f] = "none",
         \A f \in Endpoints : server'[f] = "binding" <=> server[f] = "binding",
         \A f \in Endpoints : watcher'[f] \in Reserving <=> watcher[f] \in Reserving
  PROVE  Steady
<1>1. /\ rel'[e][r] = v
      /\ \A s \in Releasers \ {r} : rel'[e][s] = rel[e][s]
      /\ \A f \in Endpoints \ {e} : rel'[f] = rel[f]
  BY OneReleaserMoves DEF TypeOK
<1>2. \A f \in Endpoints, s \in Releasers :
        /\ rel'[f][s] = "remove" <=> rel[f][s] = "remove"
        /\ rel'[f][s] = "count" <=> rel[f][s] = "count"
  BY <1>1
<1> QED BY <1>2 DEF Steady, Held, Holding, Counted, Counts, Reserving

LEMMA StartSteady ==
  ASSUME EndpointInv, NEW e \in Endpoints,
         StartStep(e) \/ CloseReplies(e) \/ CloseDropped(e) \/ CloseAwaited(e)
  PROVE  Steady
<1>0. TypeOK /\ LocalInv
  BY DEF EndpointInv, LocalInv
<1>1. /\ UNCHANGED <<released, identities, active>>
      /\ \A f \in Endpoints : resource'[f] = "none" <=> resource[f] = "none"
      /\ \A f \in Endpoints : server'[f] = "binding" <=> server[f] = "binding"
      /\ \A f \in Endpoints : watcher'[f] \in Reserving <=> watcher[f] \in Reserving
  <2> USE <1>0 DEF TypeOK, Reserving, bindVars, resourceVars, registryVars
  <2>1. CASE MonitorServer(e) /\ server[e] = "exited"
    BY <2>1 DEF MonitorServer
  <2>2. CASE CloseStart(e) \/ CloseReturns(e) \/ CloseTimesOut(e) \/ Terminate(e)
    BY <2>2 DEF CloseStart, CloseReturns, CloseTimesOut, Terminate
  <2>3. CASE Down(e) \/ Free(e)
    BY <2>3 DEF Down, Free
  <2>4. CASE CloseReplies(e) \/ CloseDropped(e) \/ CloseAwaited(e)
    BY <2>4 DEF CloseReplies, CloseDropped, CloseAwaited
  <2> QED BY <2>1, <2>2, <2>3, <2>4 DEF StartStep
<1>2. \E r \in Releasers, v \in ReleasePcs :
        /\ rel' = [rel EXCEPT ![e][r] = v]
        /\ rel[e][r] \notin {"remove", "count"} /\ v \notin {"remove", "count"}
  <2> USE DEF Releasers, ReleasePcs
  <2>1. CASE MonitorServer(e) /\ server[e] = "exited"
    BY <1>0, <2>1 DEF MonitorServer, LocalInv, ReleasersStart
  <2>2. CASE CloseStart(e)
    BY <1>0, <2>2 DEF CloseStart, LocalInv, ReleasersStart
  <2>3. CASE CloseReturns(e)
    BY <1>0, <2>3 DEF CloseReturns, LocalInv, ReleasersStart
  <2>4. CASE CloseTimesOut(e)
    BY <1>0, <2>4 DEF CloseTimesOut, LocalInv, ReleasersStart
  <2>5. CASE Terminate(e)
    BY <1>0, <2>5 DEF Terminate, LocalInv, ReleasersStart
  <2>6. CASE Down(e)
    BY <1>0, <2>6 DEF Down, LocalInv, ReleasersStart
  <2>7. CASE Free(e)
    BY <1>0, <2>7 DEF Free, LocalInv, ReleasersStart
  <2>8. CASE CloseReplies(e)
    BY <2>8 DEF CloseReplies
  <2>9. CASE CloseDropped(e)
    BY <2>9 DEF CloseDropped
  <2>10. CASE CloseAwaited(e)
    BY <2>10 DEF CloseAwaited, ReleaseAt, ReleaseGoes
  <2> QED BY <2>1, <2>2, <2>3, <2>4, <2>5, <2>6, <2>7, <2>8, <2>9, <2>10
          DEF StartStep
<1> QED BY <1>0, <1>1, <1>2, MoveSteady

\* An endpoint joins or leaves those that hold their identity, together with the
\* identity itself; an endpoint is counted or uncounted.
Joins(e) ==
  /\ e \in Endpoints \ Held /\ key[e] \notin identities
  /\ identities' = identities \cup {key[e]} /\ Held' = Held \cup {e}
Leaves(e) ==
  /\ e \in Held
  /\ identities' = identities \ {key[e]} /\ Held' = Held \ {e}
CountedIn(e) ==
  e \in Endpoints \ Counted /\ active' = active + 1 /\ Counted' = Counted \cup {e}
CountedOut(e) ==
  e \in Counted /\ active' = active - 1 /\ Counted' = Counted \ {e}
SameHeld == identities' = identities /\ Held' = Held
SameCount == active' = active /\ Counted' = Counted

\* What each step does to the registry and to the counter: a reservation joins,
\* a failed bind and the one releaser past the swap leave, Wrap counts and the
\* same releaser uncounts, and no other step changes either.
LEMMA RegistryEffect ==
  ASSUME EndpointInv, [Next]_vars
  PROVE  /\ SameHeld \/ (\E e \in Endpoints : Joins(e) \/ Leaves(e))
         /\ SameCount \/ (\E e \in Endpoints : CountedIn(e) \/ CountedOut(e))
<1>0. TypeOK /\ LocalInv
  BY DEF EndpointInv, LocalInv
<1>1. CASE Steady
  BY <1>1 DEF Steady, SameHeld, SameCount
<1>2. ASSUME NEW e \in Endpoints, Reserve(e)
      PROVE  SameCount /\ (SameHeld \/ Joins(e))
  <2>1. /\ UNCHANGED <<watcher, resource, released, rel, active>>
        /\ server[e] = "new"
        /\ \A f \in Endpoints \ {e} : server'[f] = server[f]
        /\ \/ server'[e] = "exited" /\ identities' = identities
           \/ /\ server'[e] = "binding" /\ key[e] \notin identities
              /\ identities' = identities \cup {key[e]}
    BY <1>0, <1>2 DEF Reserve, Exits, TypeOK, bindVars
  <2>2. watcher[e] = "none" /\ resource[e] = "none"
    BY <1>0, <2>1 DEF LocalInv, ResourceInv
  <2>3. SameCount
    BY <2>1 DEF SameCount, Counted, Counts
  <2>4. ~Holding(e) /\ (Holding(e)' <=> server'[e] = "binding")
        /\ \A f \in Endpoints \ {e} : Holding(f)' <=> Holding(f)
    BY <2>1, <2>2 DEF Holding
  <2> QED BY <2>1, <2>3, <2>4 DEF SameHeld, Joins, Held
<1>3. ASSUME NEW e \in Endpoints, SpawnBind(e)
      PROVE  SameCount /\ (SameHeld \/ Leaves(e))
  <2>1. /\ UNCHANGED <<resource, released, rel, active>>
        /\ server[e] = "binding"
        /\ \A f \in Endpoints \ {e} : server'[f] = server[f] /\ watcher'[f] = watcher[f]
        /\ \/ /\ server'[e] = "exited" /\ watcher'[e] = watcher[e]
              /\ identities' = identities \ {key[e]}
           \/ /\ server'[e] = "awaiting" /\ watcher'[e] = "select"
              /\ identities' = identities
    BY <1>0, <1>3 DEF SpawnBind, Exits, TypeOK, bindVars
  <2>2. watcher[e] = "none" /\ resource[e] = "none"
    BY <1>0, <2>1 DEF LocalInv, ResourceInv
  <2>3. SameCount
    BY <2>1 DEF SameCount, Counted, Counts
  <2>4. Holding(e) /\ (Holding(e)' <=> server'[e] # "exited")
        /\ \A f \in Endpoints \ {e} : Holding(f)' <=> Holding(f)
    BY <2>1, <2>2 DEF Holding
  <2> QED BY <2>1, <2>3, <2>4 DEF SameHeld, Leaves, Held
<1>4. ASSUME NEW e \in Endpoints, ReleaseReserved(e)
      PROVE  SameCount /\ Leaves(e)
  <2>1. /\ UNCHANGED <<server, resource, released, rel, active>>
        /\ watcher[e] \in {"failed", "lost"}
        /\ watcher'[e] \in {"reply_error", "retire"}
        /\ \A f \in Endpoints \ {e} : watcher'[f] = watcher[f]
        /\ identities' = identities \ {key[e]}
    BY <1>0, <1>4 DEF ReleaseReserved, TypeOK, resourceVars
  <2>2. server[e] # "binding" /\ resource[e] = "none"
    BY <1>0, <2>1 DEF LocalInv, ResourceInv
  <2>3. SameCount
    BY <2>1 DEF SameCount, Counted, Counts
  <2>4. Holding(e) /\ ~Holding(e)'
        /\ \A f \in Endpoints \ {e} : Holding(f)' <=> Holding(f)
    BY <2>1, <2>2 DEF Holding
  <2> QED BY <2>1, <2>3, <2>4 DEF Leaves, Held
<1>5. ASSUME NEW e \in Endpoints, Wrap(e) PROVE SameHeld /\ CountedIn(e)
  <2>1. /\ UNCHANGED <<server, released, rel, identities>> /\ active' = active + 1
        /\ watcher[e] = "wrap" /\ watcher'[e] = "monitor" /\ resource'[e] = "live"
        /\ \A f \in Endpoints \ {e} : /\ watcher'[f] = watcher[f]
                                      /\ resource'[f] = resource[f]
    BY <1>0, <1>5 DEF Wrap, TypeOK
  <2>2. resource[e] = "none" /\ ~released[e]
    BY <1>0, <2>1 DEF LocalInv, ResourceInv
  <2>3. \A f \in Endpoints : Holding(f)' <=> Holding(f)
    BY <2>1, <2>2 DEF Holding
  <2>4. ~Counts(e) /\ Counts(e)' /\ \A f \in Endpoints \ {e} : Counts(f)' <=> Counts(f)
    BY <2>1, <2>2 DEF Counts
  <2> QED BY <2>1, <2>3, <2>4 DEF SameHeld, CountedIn, Held, Counted
<1>6. ASSUME NEW e \in Endpoints, NEW r \in Releasers, Take(e, r) PROVE Steady
  <2>1. /\ \E v \in {"await", "swap"} : rel' = [rel EXCEPT ![e][r] = v]
        /\ rel[e][r] = "take"
        /\ UNCHANGED <<server, watcher, resource, released, identities, active>>
    BY <1>6 DEF Take, ReleaseAt, ReleaseGoes, bindVars, registryVars
  <2> QED BY <1>0, <2>1, MoveSteady DEF ReleasePcs
<1>7. ASSUME NEW e \in Endpoints, NEW r \in Releasers,
             Swap(e, r) \/ Remove(e, r) \/ Uncount(e, r)
      PROVE  /\ UNCHANGED <<server, watcher, resource>>
             /\ \A s \in Releasers \ {r} : rel'[e][s] = rel[e][s]
             /\ \A f \in Endpoints \ {e} : rel'[f] = rel[f] /\ released'[f] = released[f]
             /\ resource[e] # "none" /\ server[e] # "binding"
             /\ watcher[e] \notin {"select", "cas", "failed", "lost", "wrap"}
             /\ \A f \in Endpoints \ {e} : /\ Holding(f)' <=> Holding(f)
                                           /\ Counts(f)' <=> Counts(f)
  <2>1. /\ UNCHANGED <<server, watcher, resource>> /\ rel[e][r] # "none"
        /\ \A f \in Endpoints \ {e} : released'[f] = released[f]
    BY <1>0, <1>7 DEF Swap, Remove, Uncount, ReleaseAt, bindVars, TypeOK
  <2>2. \E v \in ReleasePcs : rel' = [rel EXCEPT ![e][r] = v]
    BY <1>7 DEF Swap, Remove, Uncount, ReleaseGoes, ReleasePcs
  <2>3. /\ \A s \in Releasers \ {r} : rel'[e][s] = rel[e][s]
        /\ \A f \in Endpoints \ {e} : rel'[f] = rel[f]
    BY <1>0, <2>2, OneReleaserMoves DEF TypeOK
  <2>4. /\ resource[e] # "none" /\ server[e] # "binding"
        /\ watcher[e] \notin {"select", "cas", "failed", "lost", "wrap"}
    BY <1>0, <2>1 DEF LocalInv, ResourceInv
  <2> QED BY <2>1, <2>3, <2>4 DEF Holding, Counts
<1>8. ASSUME NEW e \in Endpoints, NEW r \in Releasers, Swap(e, r) PROVE Steady
  <2>1. /\ rel[e][r] = "swap" /\ UNCHANGED <<identities, active>> /\ released'[e]
        /\ rel'[e][r] = IF released[e] THEN "done" ELSE "remove"
    BY <1>0, <1>8 DEF Swap, ReleaseAt, ReleaseGoes, registryVars, TypeOK
  <2>2. (Holding(e)' <=> Holding(e)) /\ (Counts(e)' <=> Counts(e))
    BY <1>7, <1>8, <2>1 DEF Holding, Counts
  <2>3. \A f \in Endpoints : (Holding(f)' <=> Holding(f)) /\ (Counts(f)' <=> Counts(f))
    BY <1>7, <1>8, <2>2
  <2> QED BY <2>1, <2>3 DEF Steady, Held, Counted
<1>9. ASSUME NEW e \in Endpoints, NEW r \in Releasers, Remove(e, r)
      PROVE  SameCount /\ Leaves(e)
  <2>1. /\ rel[e][r] = "remove" /\ rel'[e][r] = "count"
        /\ identities' = identities \ {key[e]} /\ UNCHANGED <<released, active>>
    BY <1>0, <1>9 DEF Remove, ReleaseAt, ReleaseGoes, TypeOK
  <2>2. released[e] /\ \A s \in Releasers \ {r} : rel[e][s] # "remove"
    BY <1>0, <2>1 DEF LocalInv, OneReleaser
  <2>3. Holding(e) /\ ~Holding(e)' /\ Counts(e) /\ Counts(e)'
    BY <1>7, <1>9, <2>1, <2>2 DEF Holding, Counts
  <2>4. \A f \in Endpoints \ {e} : (Holding(f)' <=> Holding(f)) /\ (Counts(f)' <=> Counts(f))
    BY <1>7, <1>9
  <2> QED BY <2>1, <2>3, <2>4 DEF SameCount, Leaves, Held, Counted
<1>10. ASSUME NEW e \in Endpoints, NEW r \in Releasers, Uncount(e, r)
       PROVE  SameHeld /\ CountedOut(e)
  <2>1. /\ rel[e][r] = "count" /\ rel'[e][r] = "done"
        /\ active' = active - 1 /\ UNCHANGED <<released, identities>>
    BY <1>0, <1>10 DEF Uncount, ReleaseAt, ReleaseGoes, TypeOK
  <2>2. released[e] /\ \A s \in Releasers \ {r} : rel[e][s] \notin {"remove", "count"}
    BY <1>0, <2>1 DEF LocalInv, OneReleaser
  <2>3. ~Holding(e) /\ ~Holding(e)' /\ Counts(e) /\ ~Counts(e)'
    BY <1>7, <1>10, <2>1, <2>2 DEF Holding, Counts
  <2>4. \A f \in Endpoints \ {e} : (Holding(f)' <=> Holding(f)) /\ (Counts(f)' <=> Counts(f))
    BY <1>7, <1>10
  <2> QED BY <2>1, <2>3, <2>4 DEF SameHeld, CountedOut, Held, Counted
<1>11. ASSUME UserStep \/ UNCHANGED vars PROVE Steady
  <2>1. UNCHANGED <<server, watcher, resource, released, rel, identities, active>>
    BY <1>11 DEF UserStep, GetConfig, StartUse, EndUse, vars, bindVars,
       resourceVars,
       registryVars
  <2> QED BY <2>1 DEF Steady, Held, Holding, Counted, Counts
<1>12. ASSUME NEW e \in Endpoints, PlainStep(e)
       PROVE  Steady \/ Reserve(e) \/ SpawnBind(e) \/ ReleaseReserved(e)
  BY <1>0, <1>12, PlainSteady DEF PlainStep
<1>13. ASSUME NEW e \in Endpoints,
              \/ MonitorServer(e) /\ server[e] # "exited"
              \/ StartStep(e)
              \/ CloseReplies(e) \/ CloseDropped(e) \/ CloseAwaited(e)
       PROVE  Steady
  BY <1>0, <1>13, PlainSteady, StartSteady
<1> QED
  BY NextCases, <1>1, <1>2, <1>3, <1>4, <1>5, <1>6, <1>8, <1>9, <1>10, <1>11,
     <1>12, <1>13

\* The registry holds exactly the identities in use, each for one endpoint.
LEMMA NextRegistry == EndpointInv /\ [Next]_vars => RegistryExact'
<1> SUFFICES ASSUME EndpointInv, [Next]_vars PROVE RegistryExact'
  OBVIOUS
<1>0. /\ identities = {key[e] : e \in Held}
      /\ \A e, f \in Held : key[e] = key[f] => e = f
  BY DEF EndpointInv, RegistryExact, Held
<1>1. key' = key
  BY NextCases DEF PlainStep, StartStep, UserStep, Reserve, SpawnBind, BindEnds,
     Select, Complete, ReleaseReserved, Retire, WatcherAborted, SendReply,
     BindReturns, BindTimesOut, Terminated, Killed, OperationDown, CloseCompletes,
     Wrap, MonitorServer, CloseStart, CloseReturns, CloseTimesOut, Terminate,
     Down, Free, CloseReplies, CloseDropped, CloseAwaited, Take, Swap, Remove,
     Uncount, GetConfig, StartUse, EndUse, vars
<1>2. /\ identities' = {key[e] : e \in Held'}
      /\ \A e, f \in Held' : key[e] = key[f] => e = f
  <2>1. CASE SameHeld
    BY <1>0, <2>1 DEF SameHeld
  <2>2. ASSUME NEW e \in Endpoints, Joins(e)
        PROVE  /\ identities' = {key[f] : f \in Held'}
               /\ \A f, g \in Held' : key[f] = key[g] => f = g
    BY <1>0, <2>2 DEF Joins
  <2>3. ASSUME NEW e \in Endpoints, Leaves(e)
        PROVE  /\ identities' = {key[f] : f \in Held'}
               /\ \A f, g \in Held' : key[f] = key[g] => f = g
    BY <1>0, <2>3 DEF Leaves
  <2> QED BY <2>1, <2>2, <2>3, RegistryEffect
<1> QED BY <1>1, <1>2 DEF RegistryExact, Held

\* ACTIVE_ENDPOINTS counts the resources that were not released.
LEMMA NextActive ==
  EndpointInv /\ [Next]_vars => ActiveEndpointsExact' /\ active' \in Nat
<1> SUFFICES ASSUME EndpointInv, [Next]_vars
             PROVE  active' = Cardinality(Counted') /\ active' \in Nat
  BY DEF ActiveEndpointsExact, Counted, Counts
<1>1. active = Cardinality(Counted) /\ active \in Nat
  BY DEF EndpointInv, TypeOK, ActiveEndpointsExact, Counted, Counts
<1>2. IsFiniteSet(Counted) /\ IsFiniteSet(Counted')
  <2>1. Counted \in SUBSET Endpoints /\ Counted' \in SUBSET Endpoints
    BY DEF Counted
  <2> QED BY <2>1, FS_Subset, EndpointsAssumption
<1>3. Cardinality(Counted') \in Nat
  BY <1>2, FS_CardinalityType
<1>4. active' = Cardinality(Counted')
  <2>1. CASE SameCount
    BY <1>1, <2>1 DEF SameCount
  <2>2. ASSUME NEW e \in Endpoints, CountedIn(e)
        PROVE  active' = Cardinality(Counted')
    BY <1>1, <1>2, <2>2, FS_AddElement DEF CountedIn
  <2>3. ASSUME NEW e \in Endpoints, CountedOut(e)
        PROVE  active' = Cardinality(Counted')
    BY <1>1, <1>2, <2>3, FS_RemoveElement DEF CountedOut
  <2> QED BY <2>1, <2>2, <2>3, RegistryEffect
<1> QED BY <1>3, <1>4

\* Every step keeps the types of the variables other than the counter.
LEMMA NextType ==
  EndpointInv /\ [Next]_vars /\ active' \in Nat => TypeOK'
<1> DEFINE Typed ==
      /\ key \in [Endpoints -> Ids]
      /\ server \in [Endpoints -> ServerStates]
      /\ op \in [Endpoints -> {"none", "RUNNING", "COMPLETED", "CANCELLED"}]
      /\ task \in [Endpoints -> {"none", "running", "ok", "error", "dropped"}]
      /\ watcher \in [Endpoints -> WatcherStates]
      /\ native \in [Endpoints -> {"none", "bind", "slot", "closed", "dropped"}
                                  \cup Releasers]
      /\ resource \in [Endpoints -> {"none", "live", "freed"}]
      /\ released \in [Endpoints -> BOOLEAN]
      /\ rel \in [Endpoints -> [Releasers -> ReleasePcs]]
      /\ monitor \in [Endpoints -> {"none", "set", "fired"}]
      /\ inbox \in [Endpoints -> {"none", "ok", "error"}]
      /\ closed \in [Endpoints -> {"none", "ok", "error"}]
      /\ identities \subseteq Ids
      /\ at \in [Users -> {"idle", "config", "operation"}]
      /\ uses \in [Users -> Endpoints \cup {NoEndpoint}]
<1> SUFFICES ASSUME TypeOK, [Next]_vars PROVE Typed'
  BY DEF EndpointInv, TypeOK
<1>0. Typed
  BY DEF TypeOK
<1> USE <1>0 DEF bindVars, resourceVars, registryVars, userVars
<1>1. ASSUME NEW e \in Endpoints, Reserve(e) PROVE Typed'
  <2>1. server' \in [Endpoints -> ServerStates]
        /\ monitor' \in [Endpoints -> {"none", "set", "fired"}]
    BY <1>1, ExitEffect DEF Reserve, ServerStates
  <2>2. identities' \subseteq Ids
    BY <1>1 DEF Reserve
  <2> QED BY <1>1, <2>1, <2>2 DEF Reserve
<1>2. ASSUME NEW e \in Endpoints, SpawnBind(e) PROVE Typed'
  <2>1. server' \in [Endpoints -> ServerStates]
        /\ monitor' \in [Endpoints -> {"none", "set", "fired"}]
    BY <1>2, ExitEffect DEF SpawnBind, ServerStates
  <2>2. identities' \subseteq Ids
    BY <1>2 DEF SpawnBind
  <2>3. /\ op' \in [Endpoints -> {"none", "RUNNING", "COMPLETED", "CANCELLED"}]
        /\ task' \in [Endpoints -> {"none", "running", "ok", "error", "dropped"}]
        /\ watcher' \in [Endpoints -> WatcherStates]
    <3>1. CASE UNCHANGED bindVars
      BY <3>1
    <3>2. CASE /\ op' = [op EXCEPT ![e] = "RUNNING"]
               /\ task' = [task EXCEPT ![e] = "running"]
               /\ watcher' = [watcher EXCEPT ![e] = "select"]
      BY <3>2 DEF WatcherStates
    <3> QED BY <1>2, <3>1, <3>2 DEF SpawnBind
  <2> QED BY <1>2, <2>1, <2>2, <2>3 DEF SpawnBind
<1>3. ASSUME NEW e \in Endpoints, BindEnds(e) \/ Select(e) PROVE Typed'
  <2>1. CASE BindEnds(e)
    BY <2>1 DEF BindEnds
  <2>2. CASE Select(e)
    <3>1. watcher' \in [Endpoints -> WatcherStates]
      BY <2>2 DEF Select, WatcherStates
    <3>2. /\ task' \in [Endpoints -> {"none", "running", "ok", "error", "dropped"}]
          /\ native' \in [Endpoints -> {"none", "bind", "slot", "closed", "dropped"}
                                       \cup Releasers]
      <4>1. CASE UNCHANGED <<task, native>>
        BY <4>1
      <4>2. CASE /\ task' = [task EXCEPT ![e] = "dropped"]
                 /\ native' = [native EXCEPT ![e] =
                                 IF @ = "bind" THEN "dropped" ELSE @]
        BY <4>2
      <4> QED BY <2>2, <4>1, <4>2 DEF Select
    <3> QED BY <2>2, <3>1, <3>2 DEF Select
  <2> QED BY <1>3, <2>1, <2>2
<1>4. ASSUME NEW e \in Endpoints, Complete(e) PROVE Typed'
  BY <1>4 DEF Complete, WatcherStates
<1>5. ASSUME NEW e \in Endpoints, ReleaseReserved(e) \/ Retire(e) PROVE Typed'
  <2>1. CASE ReleaseReserved(e)
    BY <2>1 DEF ReleaseReserved, WatcherStates
  <2>2. CASE Retire(e)
    BY <2>2 DEF Retire, WatcherStates
  <2> QED BY <1>5, <2>1, <2>2
<1>6. ASSUME NEW e \in Endpoints, Wrap(e) PROVE Typed'
  BY <1>6 DEF Wrap, WatcherStates
<1>7. ASSUME NEW e \in Endpoints, WatcherAborted(e) \/ SendReply(e) PROVE Typed'
  BY <1>7 DEF WatcherAborted, SendReply, WatcherStates
<1>8. ASSUME NEW e \in Endpoints, BindReturns(e) PROVE Typed'
  BY <1>8 DEF BindReturns, Exits, ServerStates
<1>9. ASSUME NEW e \in Endpoints, BindTimesOut(e) PROVE Typed'
  BY <1>9 DEF BindTimesOut, Exits, ServerStates
<1>10. ASSUME NEW e \in Endpoints, Terminated(e) \/ Killed(e) PROVE Typed'
  <2>1. Exits(e) /\ (inbox' = inbox \/ inbox' = [inbox EXCEPT ![e] = "none"])
    BY <1>10 DEF Terminated, Killed
  <2> QED BY <1>10, <2>1, ExitEffect DEF Terminated, Killed
<1>11. ASSUME NEW e \in Endpoints, OperationDown(e) \/ CloseCompletes(e) PROVE Typed'
  BY <1>11 DEF OperationDown, CloseCompletes
<1>12. ASSUME NEW e \in Endpoints, MonitorServer(e), server[e] # "exited" PROVE Typed'
  BY <1>12 DEF MonitorServer, WatcherStates
<1>13. ASSUME NEW e \in Endpoints, MonitorServer(e), server[e] = "exited" PROVE Typed'
  <2>1. rel' = [rel EXCEPT ![e]["watcher"] = "take"]
    BY <1>13 DEF MonitorServer
  <2>2. rel' \in [Endpoints -> [Releasers -> ReleasePcs]]
    BY <2>1, OneReleaserMoves DEF Releasers, ReleasePcs
  <2> QED BY <1>13, <2>2 DEF MonitorServer, WatcherStates
<1>14. ASSUME NEW e \in Endpoints, CloseStart(e) PROVE Typed'
  <2>1. rel' = [rel EXCEPT ![e]["close"] = "take"]
    BY <1>14 DEF CloseStart
  <2>2. rel' \in [Endpoints -> [Releasers -> ReleasePcs]]
    BY <2>1, OneReleaserMoves DEF Releasers, ReleasePcs
  <2> QED BY <1>14, <2>2 DEF CloseStart, ServerStates
<1>15. ASSUME NEW e \in Endpoints, CloseReturns(e) PROVE Typed'
  <2>1. rel' = [rel EXCEPT ![e]["terminate"] = "take"]
    BY <1>15 DEF CloseReturns
  <2>2. rel' \in [Endpoints -> [Releasers -> ReleasePcs]]
    BY <2>1, OneReleaserMoves DEF Releasers, ReleasePcs
  <2> QED BY <1>15, <2>2 DEF CloseReturns, ServerStates
<1>16. ASSUME NEW e \in Endpoints, CloseTimesOut(e) PROVE Typed'
  <2>1. rel' = [rel EXCEPT ![e]["abort"] = "take"]
    BY <1>16 DEF CloseTimesOut
  <2>2. rel' \in [Endpoints -> [Releasers -> ReleasePcs]]
    BY <2>1, OneReleaserMoves DEF Releasers, ReleasePcs
  <2> QED BY <1>16, <2>2 DEF CloseTimesOut, ServerStates
<1>17. ASSUME NEW e \in Endpoints, Terminate(e) PROVE Typed'
  <2>1. rel' = [rel EXCEPT ![e]["terminate"] = "take"]
    BY <1>17 DEF Terminate
  <2>2. rel' \in [Endpoints -> [Releasers -> ReleasePcs]]
    BY <2>1, OneReleaserMoves DEF Releasers, ReleasePcs
  <2> QED BY <1>17, <2>2 DEF Terminate, ServerStates
<1>18. ASSUME NEW e \in Endpoints, Down(e) PROVE Typed'
  <2>1. rel' = [rel EXCEPT ![e]["down"] = "take"]
    BY <1>18 DEF Down
  <2>2. rel' \in [Endpoints -> [Releasers -> ReleasePcs]]
    BY <2>1, OneReleaserMoves DEF Releasers, ReleasePcs
  <2> QED BY <1>18, <2>2 DEF Down
<1>19. ASSUME NEW e \in Endpoints, Free(e) PROVE Typed'
  <2>1. rel' = [rel EXCEPT ![e]["drop"] = "take"]
    BY <1>19 DEF Free
  <2>2. rel' \in [Endpoints -> [Releasers -> ReleasePcs]]
    BY <2>1, OneReleaserMoves DEF Releasers, ReleasePcs
  <2> QED BY <1>19, <2>2 DEF Free
<1>20. ASSUME NEW e \in Endpoints, CloseReplies(e) PROVE Typed'
  <2>1. rel' = [rel EXCEPT ![e]["close"] = "replied"]
    BY <1>20 DEF CloseReplies
  <2>2. rel' \in [Endpoints -> [Releasers -> ReleasePcs]]
    BY <2>1, OneReleaserMoves DEF Releasers, ReleasePcs
  <2> QED BY <1>20, <2>2 DEF CloseReplies
<1>21. ASSUME NEW e \in Endpoints, CloseDropped(e) PROVE Typed'
  <2>1. rel' = [rel EXCEPT ![e]["close"] = "done"]
    BY <1>21 DEF CloseDropped
  <2>2. rel' \in [Endpoints -> [Releasers -> ReleasePcs]]
    BY <2>1, OneReleaserMoves DEF Releasers, ReleasePcs
  <2> QED BY <1>21, <2>2 DEF CloseDropped
<1>22. ASSUME NEW e \in Endpoints, CloseAwaited(e) PROVE Typed'
  <2>1. rel' = [rel EXCEPT ![e]["close"] = "swap"]
    BY <1>22 DEF CloseAwaited, ReleaseGoes
  <2>2. rel' \in [Endpoints -> [Releasers -> ReleasePcs]]
    BY <2>1, OneReleaserMoves DEF Releasers, ReleasePcs
  <2> QED BY <1>22, <2>2 DEF CloseAwaited, ReleaseGoes
<1>23. ASSUME NEW e \in Endpoints, NEW r \in Releasers,
             Take(e, r) \/ Swap(e, r) \/ Remove(e, r) \/ Uncount(e, r)
      PROVE  Typed'
  <2>1. \E v \in ReleasePcs : rel' = [rel EXCEPT ![e][r] = v]
    BY <1>23 DEF Take, Swap, Remove, Uncount, ReleaseGoes, ReleasePcs
  <2>2. rel' \in [Endpoints -> [Releasers -> ReleasePcs]]
    BY <2>1, OneReleaserMoves
  <2>3. CASE Take(e, r)
    BY <2>2, <2>3 DEF Take
  <2>4. CASE Swap(e, r)
    BY <2>2, <2>4 DEF Swap, DropHeld
  <2>5. CASE Remove(e, r)
    BY <2>2, <2>5 DEF Remove
  <2>6. CASE Uncount(e, r)
    BY <2>2, <2>6 DEF Uncount, DropHeld
  <2> QED BY <1>23, <2>3, <2>4, <2>5, <2>6
<1>24. ASSUME UserStep PROVE Typed'
  <2>1. /\ at' \in [Users -> {"idle", "config", "operation"}]
        /\ uses' \in [Users -> Endpoints \cup {NoEndpoint}]
    <3>1. PICK u \in Users : (\E e \in Endpoints : GetConfig(u, e)) \/ StartUse(u)
                             \/ EndUse(u)
      BY <1>24 DEF UserStep
    <3>2. CASE \E e \in Endpoints : GetConfig(u, e)
      BY <3>2 DEF GetConfig
    <3>3. CASE StartUse(u)
      <4>1. CASE at' = [at EXCEPT ![u] = "operation"] /\ uses' = uses
        BY <4>1
      <4>2. CASE /\ at' = [at EXCEPT ![u] = "idle"]
                 /\ uses' = [uses EXCEPT ![u] = NoEndpoint]
        BY <4>2
      <4> QED BY <3>3, <4>1, <4>2 DEF StartUse
    <3>4. CASE EndUse(u)
      BY <3>4 DEF EndUse
    <3> QED BY <3>1, <3>2, <3>3, <3>4
  <2>2. UNCHANGED <<key, server, bindVars, resourceVars, inbox, closed, identities>>
    BY <1>24 DEF UserStep, GetConfig, StartUse, EndUse
  <2> QED BY <2>1, <2>2
<1>25. CASE UNCHANGED vars
  BY <1>25 DEF vars
<1> QED
  BY NextCases, <1>1, <1>2, <1>3, <1>4, <1>5, <1>6, <1>7, <1>8, <1>9, <1>10,
     <1>11, <1>12, <1>13, <1>14, <1>15, <1>16, <1>17, <1>18, <1>19, <1>20,
     <1>21, <1>22, <1>23, <1>24, <1>25 DEF PlainStep, StartStep

\* Nobody drops an obligation to release, whichever step is taken.
LEMMA NextObligation == EndpointInv /\ [Next]_vars => ObligationInv'
<1> SUFFICES ASSUME EndpointInv, [Next]_vars PROVE ObligationInv'
  OBVIOUS
<1>0. TypeOK /\ ObligationInv /\ ResourceInv /\ ReleasersStart /\ CloseInv /\ OneReleaser
  BY DEF EndpointInv
<1>a. ASSUME NEW e \in Endpoints, Exits(e)
      PROVE  /\ server'[e] = "exited"
             /\ monitor'[e] = IF monitor[e] = "set" THEN "fired" ELSE monitor[e]
             /\ \A f \in Endpoints \ {e} : server'[f] = server[f] /\ monitor'[f] = monitor[f]
  BY <1>0, <1>a DEF Exits, TypeOK
<1>1. ASSUME NEW e \in Endpoints, Reserve(e) PROVE ObligationInv'
  <2>1. /\ Elsewhere(e)
        /\ server[e] = "new"
        /\ \/ server'[e] = "exited" /\ monitor'[e] = (IF monitor[e] = "set" THEN "fired" ELSE monitor[e])
           \/ server'[e] = "binding" /\ monitor'[e] = monitor[e]
        /\ UNCHANGED <<op, watcher, resource, released, rel, inbox, closed>>
    BY <1>0, <1>a, <1>1 DEF Reserve, Elsewhere, TypeOK, bindVars, resourceVars,
       registryVars
  <2> QED
    BY <1>0, <2>1 DEF ObligationInv, ResourceInv, ReleasersStart, CloseInv,
       Elsewhere, Releasers
<1>2. ASSUME NEW e \in Endpoints, SpawnBind(e) PROVE ObligationInv'
  <2>1. /\ Elsewhere(e)
        /\ server[e] = "binding"
        /\ \/ server'[e] = "exited" /\ monitor'[e] = (IF monitor[e] = "set" THEN "fired" ELSE monitor[e]) /\ UNCHANGED <<op, watcher>>
           \/ /\ server'[e] = "awaiting" /\ monitor'[e] = monitor[e]
              /\ op'[e] = "RUNNING" /\ watcher'[e] = "select"
        /\ UNCHANGED <<resource, released, rel, inbox, closed>>
    BY <1>0, <1>a, <1>2 DEF SpawnBind, Elsewhere, TypeOK, bindVars,
       resourceVars, registryVars
  <2> QED
    BY <1>0, <2>1 DEF ObligationInv, ResourceInv, ReleasersStart, CloseInv,
       Elsewhere, Releasers
<1>3. ASSUME NEW e \in Endpoints, BindEnds(e) PROVE ObligationInv'
  <2>1. /\ Elsewhere(e)
        /\ UNCHANGED <<server, op, watcher, resource, released, rel, monitor, inbox, closed>>
    BY <1>0, <1>a, <1>3 DEF BindEnds, Elsewhere, TypeOK, bindVars, resourceVars,
       registryVars
  <2> QED
    BY <1>0, <2>1 DEF ObligationInv, ResourceInv, ReleasersStart, CloseInv,
       Elsewhere, Releasers
<1>4. ASSUME NEW e \in Endpoints, Select(e) PROVE ObligationInv'
  <2>1. /\ Elsewhere(e)
        /\ watcher[e] = "select" /\ watcher'[e] = "cas"
        /\ UNCHANGED <<server, op, resource, released, rel, monitor, inbox, closed>>
    BY <1>0, <1>a, <1>4 DEF Select, Elsewhere, TypeOK, bindVars, resourceVars,
       registryVars
  <2> QED
    BY <1>0, <2>1 DEF ObligationInv, ResourceInv, ReleasersStart, CloseInv,
       Elsewhere, Releasers
<1>5. ASSUME NEW e \in Endpoints, Complete(e) PROVE ObligationInv'
  <2>1. /\ Elsewhere(e)
        /\ watcher[e] = "cas" /\ watcher'[e] \in {"wrap", "failed", "lost"}
        /\ UNCHANGED <<server, resource, released, rel, monitor, inbox, closed>>
    BY <1>0, <1>a, <1>5 DEF Complete, Elsewhere, TypeOK, bindVars, resourceVars,
       registryVars
  <2> QED
    BY <1>0, <2>1 DEF ObligationInv, ResourceInv, ReleasersStart, CloseInv,
       Elsewhere, Releasers
<1>6. ASSUME NEW e \in Endpoints, ReleaseReserved(e) PROVE ObligationInv'
  <2>1. /\ Elsewhere(e)
        /\ watcher[e] \in {"failed", "lost"} /\ watcher'[e] \in {"reply_error", "retire"}
        /\ UNCHANGED <<server, op, resource, released, rel, monitor, inbox, closed>>
    BY <1>0, <1>a, <1>6 DEF ReleaseReserved, Elsewhere, TypeOK, bindVars,
       resourceVars, registryVars
  <2> QED
    BY <1>0, <2>1 DEF ObligationInv, ResourceInv, ReleasersStart, CloseInv,
       Elsewhere, Releasers
<1>7. ASSUME NEW e \in Endpoints, Retire(e) PROVE ObligationInv'
  <2>1. /\ Elsewhere(e)
        /\ watcher[e] = "retire" /\ watcher'[e] = "done"
        /\ UNCHANGED <<server, op, resource, released, rel, monitor, inbox, closed>>
    BY <1>0, <1>a, <1>7 DEF Retire, Elsewhere, TypeOK, bindVars, resourceVars,
       registryVars
  <2> QED
    BY <1>0, <2>1 DEF ObligationInv, ResourceInv, ReleasersStart, CloseInv,
       Elsewhere, Releasers
<1>8. ASSUME NEW e \in Endpoints, Wrap(e) PROVE ObligationInv'
  <2>1. /\ Elsewhere(e)
        /\ watcher[e] = "wrap" /\ watcher'[e] = "monitor" /\ resource'[e] = "live"
        /\ UNCHANGED <<server, op, released, rel, monitor, inbox, closed>>
    BY <1>0, <1>a, <1>8 DEF Wrap, Elsewhere, TypeOK, bindVars, resourceVars,
       registryVars
  <2> QED
    BY <1>0, <2>1 DEF ObligationInv, ResourceInv, ReleasersStart, CloseInv,
       Elsewhere, Releasers
<1>9. ASSUME NEW e \in Endpoints, MonitorServer(e), server[e] # "exited" PROVE ObligationInv'
  <2>1. /\ Elsewhere(e)
        /\ watcher[e] = "monitor" /\ watcher'[e] = "reply_ok" /\ monitor'[e] = "set"
        /\ server[e] # "exited"
        /\ UNCHANGED <<server, op, resource, released, rel, inbox, closed>>
    BY <1>0, <1>a, <1>9 DEF MonitorServer, Elsewhere, TypeOK, bindVars,
       resourceVars, registryVars
  <2> QED
    BY <1>0, <2>1 DEF ObligationInv, ResourceInv, ReleasersStart, CloseInv,
       Elsewhere, Releasers
<1>10. ASSUME NEW e \in Endpoints, MonitorServer(e), server[e] = "exited" PROVE ObligationInv'
  <2>1. rel' = [rel EXCEPT ![e]["watcher"] = "take"]
    BY <1>10 DEF MonitorServer
  <2>2. "watcher" \in Releasers /\ "take" \in ReleasePcs
    BY DEF Releasers, ReleasePcs
  <2>3. /\ rel'[e]["watcher"] = "take"
        /\ \A s \in Releasers \ {"watcher"} : rel'[e][s] = rel[e][s]
        /\ \A f \in Endpoints \ {e} : rel'[f] = rel[f]
    BY <1>0, <2>1, <2>2, OneReleaserMoves DEF TypeOK
  <2>4. /\ Elsewhere(e)
        /\ watcher[e] = "monitor" /\ watcher'[e] = "aborting"
        /\ UNCHANGED <<server, op, resource, released, monitor, inbox, closed>>
    BY <1>0, <1>10, <2>3 DEF MonitorServer, Elsewhere, TypeOK, bindVars,
       resourceVars, registryVars
  <2> QED
    BY <1>0, <2>3, <2>4 DEF ObligationInv, ResourceInv, ReleasersStart,
       CloseInv, Elsewhere, Releasers
<1>11. ASSUME NEW e \in Endpoints, WatcherAborted(e) PROVE ObligationInv'
  <2>1. /\ Elsewhere(e)
        /\ watcher[e] = "aborting" /\ watcher'[e] = "reply_error"
        /\ rel[e]["watcher"] = "done"
        /\ UNCHANGED <<server, op, resource, released, rel, monitor, inbox, closed>>
    BY <1>0, <1>a, <1>11 DEF WatcherAborted, Elsewhere, TypeOK, bindVars,
       resourceVars, registryVars
  <2> QED
    BY <1>0, <2>1 DEF ObligationInv, ResourceInv, ReleasersStart, CloseInv,
       Elsewhere, Releasers
<1>12. ASSUME NEW e \in Endpoints, SendReply(e) PROVE ObligationInv'
  <2>1. /\ Elsewhere(e)
        /\ watcher[e] \in {"reply_ok", "reply_error"} /\ watcher'[e] = "done"
        /\ UNCHANGED <<server, op, resource, released, rel, monitor, closed>>
    BY <1>0, <1>a, <1>12 DEF SendReply, Elsewhere, TypeOK, bindVars,
       resourceVars, registryVars
  <2> QED
    BY <1>0, <2>1 DEF ObligationInv, ResourceInv, ReleasersStart, CloseInv,
       Elsewhere, Releasers
<1>13. ASSUME NEW e \in Endpoints, BindReturns(e) PROVE ObligationInv'
  <2>1. /\ Elsewhere(e)
        /\ server[e] = "awaiting"
        /\ inbox'[e] = "none"
        /\ \/ server'[e] = "exited" /\ monitor'[e] = (IF monitor[e] = "set" THEN "fired" ELSE monitor[e])
           \/ server'[e] = "running" /\ monitor'[e] = monitor[e]
        /\ UNCHANGED <<op, watcher, resource, released, rel, closed>>
    BY <1>0, <1>a, <1>13 DEF BindReturns, Elsewhere, TypeOK, bindVars,
       resourceVars, registryVars
  <2> QED
    BY <1>0, <2>1 DEF ObligationInv, ResourceInv, ReleasersStart, CloseInv,
       Elsewhere, Releasers
<1>14. ASSUME NEW e \in Endpoints, BindTimesOut(e) PROVE ObligationInv'
  <2>1. /\ Elsewhere(e)
        /\ server[e] = "awaiting"
        /\ op'[e] = IF op[e] = "RUNNING" THEN "CANCELLED" ELSE op[e]
        /\ server'[e] = "exited" /\ monitor'[e] = (IF monitor[e] = "set" THEN "fired" ELSE monitor[e])
        /\ UNCHANGED <<watcher, resource, released, rel, inbox, closed>>
    BY <1>0, <1>a, <1>14 DEF BindTimesOut, Elsewhere, TypeOK, bindVars,
       resourceVars, registryVars
  <2> QED
    BY <1>0, <2>1 DEF ObligationInv, ResourceInv, ReleasersStart, CloseInv,
       Elsewhere, Releasers
<1>15. ASSUME NEW e \in Endpoints, Terminated(e) \/ Killed(e) PROVE ObligationInv'
  <2>1. /\ Elsewhere(e)
        /\ server[e] \in {"awaiting", "running", "closing", "terminating"}
        /\ server'[e] = "exited" /\ monitor'[e] = (IF monitor[e] = "set" THEN "fired" ELSE monitor[e])
        /\ UNCHANGED <<op, watcher, resource, released, rel, closed>>
    BY <1>0, <1>a, <1>15 DEF Terminated, Killed, Elsewhere, TypeOK, bindVars,
       resourceVars, registryVars
  <2> QED
    BY <1>0, <2>1 DEF ObligationInv, ResourceInv, ReleasersStart, CloseInv,
       Elsewhere, Releasers
<1>16. ASSUME NEW e \in Endpoints, OperationDown(e) PROVE ObligationInv'
  <2>1. /\ Elsewhere(e)
        /\ op[e] = "RUNNING" /\ op'[e] = "CANCELLED"
        /\ UNCHANGED <<server, watcher, resource, released, rel, monitor, inbox, closed>>
    BY <1>0, <1>a, <1>16 DEF OperationDown, Elsewhere, TypeOK, bindVars,
       resourceVars, registryVars
  <2> QED
    BY <1>0, <2>1 DEF ObligationInv, ResourceInv, ReleasersStart, CloseInv,
       Elsewhere, Releasers
<1>17. ASSUME NEW e \in Endpoints, CloseCompletes(e) PROVE ObligationInv'
  <2>1. /\ Elsewhere(e)
        /\ rel[e]["close"] = "done"
        /\ UNCHANGED <<server, watcher, resource, released, rel, monitor, inbox, closed>>
    BY <1>0, <1>a, <1>17 DEF CloseCompletes, Elsewhere, TypeOK, bindVars,
       resourceVars, registryVars
  <2> QED
    BY <1>0, <2>1 DEF ObligationInv, ResourceInv, ReleasersStart, CloseInv,
       Elsewhere, Releasers
<1>18. ASSUME NEW e \in Endpoints, CloseStart(e) PROVE ObligationInv'
  <2>1. rel' = [rel EXCEPT ![e]["close"] = "take"]
    BY <1>18 DEF CloseStart
  <2>2. "close" \in Releasers /\ "take" \in ReleasePcs
    BY DEF Releasers, ReleasePcs
  <2>3. /\ rel'[e]["close"] = "take"
        /\ \A s \in Releasers \ {"close"} : rel'[e][s] = rel[e][s]
        /\ \A f \in Endpoints \ {e} : rel'[f] = rel[f]
    BY <1>0, <2>1, <2>2, OneReleaserMoves DEF TypeOK
  <2>4. /\ Elsewhere(e)
        /\ server[e] = "running" /\ server'[e] = "closing" /\ op'[e] = "RUNNING"
        /\ UNCHANGED <<watcher, resource, released, monitor, inbox, closed>>
    BY <1>0, <1>18, <2>3 DEF CloseStart, Elsewhere, TypeOK, bindVars,
       resourceVars, registryVars
  <2> QED
    BY <1>0, <2>3, <2>4 DEF ObligationInv, ResourceInv, ReleasersStart,
       CloseInv, Elsewhere, Releasers
<1>19. ASSUME NEW e \in Endpoints, CloseReturns(e) PROVE ObligationInv'
  <2>1. rel' = [rel EXCEPT ![e]["terminate"] = "take"]
    BY <1>19 DEF CloseReturns
  <2>2. "terminate" \in Releasers /\ "take" \in ReleasePcs
    BY DEF Releasers, ReleasePcs
  <2>3. /\ rel'[e]["terminate"] = "take"
        /\ \A s \in Releasers \ {"terminate"} : rel'[e][s] = rel[e][s]
        /\ \A f \in Endpoints \ {e} : rel'[f] = rel[f]
    BY <1>0, <2>1, <2>2, OneReleaserMoves DEF TypeOK
  <2>4. /\ Elsewhere(e)
        /\ server[e] = "closing" /\ server'[e] = "terminating"
        /\ UNCHANGED <<op, watcher, resource, released, monitor>>
    BY <1>0, <1>19, <2>3 DEF CloseReturns, Elsewhere, TypeOK, bindVars,
       resourceVars, registryVars
  <2> QED
    BY <1>0, <2>3, <2>4 DEF ObligationInv, ResourceInv, ReleasersStart,
       CloseInv, Elsewhere, Releasers
<1>20. ASSUME NEW e \in Endpoints, CloseTimesOut(e) PROVE ObligationInv'
  <2>1. rel' = [rel EXCEPT ![e]["abort"] = "take"]
    BY <1>20 DEF CloseTimesOut
  <2>2. "abort" \in Releasers /\ "take" \in ReleasePcs
    BY DEF Releasers, ReleasePcs
  <2>3. /\ rel'[e]["abort"] = "take"
        /\ \A s \in Releasers \ {"abort"} : rel'[e][s] = rel[e][s]
        /\ \A f \in Endpoints \ {e} : rel'[f] = rel[f]
    BY <1>0, <2>1, <2>2, OneReleaserMoves DEF TypeOK
  <2>4. /\ Elsewhere(e)
        /\ server[e] = "closing" /\ server'[e] = "aborting"
        /\ op'[e] = IF op[e] = "RUNNING" THEN "CANCELLED" ELSE op[e]
        /\ UNCHANGED <<watcher, resource, released, monitor>>
    BY <1>0, <1>20, <2>3 DEF CloseTimesOut, Elsewhere, TypeOK, bindVars,
       resourceVars, registryVars
  <2> QED
    BY <1>0, <2>3, <2>4 DEF ObligationInv, ResourceInv, ReleasersStart,
       CloseInv, Elsewhere, Releasers
<1>21. ASSUME NEW e \in Endpoints, Terminate(e) PROVE ObligationInv'
  <2>1. rel' = [rel EXCEPT ![e]["terminate"] = "take"]
    BY <1>21 DEF Terminate
  <2>2. "terminate" \in Releasers /\ "take" \in ReleasePcs
    BY DEF Releasers, ReleasePcs
  <2>3. /\ rel'[e]["terminate"] = "take"
        /\ \A s \in Releasers \ {"terminate"} : rel'[e][s] = rel[e][s]
        /\ \A f \in Endpoints \ {e} : rel'[f] = rel[f]
    BY <1>0, <2>1, <2>2, OneReleaserMoves DEF TypeOK
  <2>4. /\ Elsewhere(e)
        /\ server[e] \in {"running", "aborting"} /\ server'[e] = "terminating"
        /\ UNCHANGED <<op, watcher, resource, released, monitor, inbox, closed>>
    BY <1>0, <1>21, <2>3 DEF Terminate, Elsewhere, TypeOK, bindVars,
       resourceVars, registryVars
  <2> QED
    BY <1>0, <2>3, <2>4 DEF ObligationInv, ResourceInv, ReleasersStart,
       CloseInv, Elsewhere, Releasers
<1>22. ASSUME NEW e \in Endpoints, Down(e) PROVE ObligationInv'
  <2>1. rel' = [rel EXCEPT ![e]["down"] = "take"]
    BY <1>22 DEF Down
  <2>2. "down" \in Releasers /\ "take" \in ReleasePcs
    BY DEF Releasers, ReleasePcs
  <2>3. /\ rel'[e]["down"] = "take"
        /\ \A s \in Releasers \ {"down"} : rel'[e][s] = rel[e][s]
        /\ \A f \in Endpoints \ {e} : rel'[f] = rel[f]
    BY <1>0, <2>1, <2>2, OneReleaserMoves DEF TypeOK
  <2>4. /\ Elsewhere(e) /\ monitor'[e] = "none"
        /\ UNCHANGED <<server, op, watcher, resource, released, inbox, closed>>
    BY <1>0, <1>22, <2>3 DEF Down, Elsewhere, TypeOK, bindVars, resourceVars,
       registryVars
  <2> QED
    BY <1>0, <2>3, <2>4 DEF ObligationInv, ResourceInv, ReleasersStart,
       CloseInv, Elsewhere, Releasers
<1>23. ASSUME NEW e \in Endpoints, Free(e) PROVE ObligationInv'
  <2>1. rel' = [rel EXCEPT ![e]["drop"] = "take"]
    BY <1>23 DEF Free
  <2>2. "drop" \in Releasers /\ "take" \in ReleasePcs
    BY DEF Releasers, ReleasePcs
  <2>3. /\ rel'[e]["drop"] = "take"
        /\ \A s \in Releasers \ {"drop"} : rel'[e][s] = rel[e][s]
        /\ \A f \in Endpoints \ {e} : rel'[f] = rel[f]
    BY <1>0, <2>1, <2>2, OneReleaserMoves DEF TypeOK
  <2>4. /\ Elsewhere(e)
        /\ resource[e] = "live" /\ resource'[e] = "freed"
        /\ UNCHANGED <<server, op, watcher, released, monitor, inbox, closed>>
    BY <1>0, <1>23, <2>3 DEF Free, Elsewhere, TypeOK, bindVars, resourceVars,
       registryVars
  <2> QED
    BY <1>0, <2>3, <2>4 DEF ObligationInv, ResourceInv, ReleasersStart,
       CloseInv, Elsewhere, Releasers
<1>24. ASSUME NEW e \in Endpoints, CloseReplies(e) PROVE ObligationInv'
  <2>1. rel' = [rel EXCEPT ![e]["close"] = "replied"]
    BY <1>24 DEF CloseReplies
  <2>2. "close" \in Releasers /\ "replied" \in ReleasePcs
    BY DEF Releasers, ReleasePcs
  <2>3. /\ rel'[e]["close"] = "replied"
        /\ \A s \in Releasers \ {"close"} : rel'[e][s] = rel[e][s]
        /\ \A f \in Endpoints \ {e} : rel'[f] = rel[f]
    BY <1>0, <2>1, <2>2, OneReleaserMoves DEF TypeOK
  <2>4. /\ Elsewhere(e)
        /\ rel[e]["close"] = "done" /\ inbox'[e] # "error"
        /\ UNCHANGED <<server, op, watcher, resource, released, monitor, closed>>
    BY <1>0, <1>24, <2>3 DEF CloseReplies, Elsewhere, TypeOK, bindVars,
       resourceVars, registryVars
  <2> QED
    BY <1>0, <2>3, <2>4 DEF ObligationInv, ResourceInv, ReleasersStart,
       CloseInv, Elsewhere, Releasers
<1>25. ASSUME NEW e \in Endpoints, CloseDropped(e) PROVE ObligationInv'
  <2>1. rel' = [rel EXCEPT ![e]["close"] = "done"]
    BY <1>25 DEF CloseDropped
  <2>2. "close" \in Releasers /\ "done" \in ReleasePcs
    BY DEF Releasers, ReleasePcs
  <2>3. /\ rel'[e]["close"] = "done"
        /\ \A s \in Releasers \ {"close"} : rel'[e][s] = rel[e][s]
        /\ \A f \in Endpoints \ {e} : rel'[f] = rel[f]
    BY <1>0, <2>1, <2>2, OneReleaserMoves DEF TypeOK
  <2>4. /\ Elsewhere(e)
        /\ rel[e]["close"] \in {"take", "await"}
        /\ UNCHANGED <<server, op, watcher, resource, released, monitor, inbox, closed>>
    BY <1>0, <1>25, <2>3 DEF CloseDropped, Elsewhere, TypeOK, bindVars,
       resourceVars, registryVars
  <2> QED
    BY <1>0, <2>3, <2>4 DEF ObligationInv, ResourceInv, ReleasersStart,
       CloseInv, Elsewhere, Releasers
<1>26. ASSUME NEW e \in Endpoints, CloseAwaited(e) PROVE ObligationInv'
  <2>1. rel' = [rel EXCEPT ![e]["close"] = "swap"]
    BY <1>26 DEF CloseAwaited, ReleaseAt, ReleaseGoes
  <2>2. "close" \in Releasers /\ "swap" \in ReleasePcs
    BY DEF Releasers, ReleasePcs
  <2>3. /\ rel'[e]["close"] = "swap"
        /\ \A s \in Releasers \ {"close"} : rel'[e][s] = rel[e][s]
        /\ \A f \in Endpoints \ {e} : rel'[f] = rel[f]
    BY <1>0, <2>1, <2>2, OneReleaserMoves DEF TypeOK
  <2>4. /\ Elsewhere(e)
        /\ rel[e]["close"] = "await"
        /\ UNCHANGED <<server, op, watcher, resource, released, monitor, inbox, closed>>
    BY <1>0, <1>26, <2>3 DEF CloseAwaited, ReleaseAt, ReleaseGoes, Elsewhere,
       TypeOK, bindVars, resourceVars, registryVars
  <2> QED
    BY <1>0, <2>3, <2>4 DEF ObligationInv, ResourceInv, ReleasersStart,
       CloseInv, Elsewhere, Releasers
<1>30. ASSUME NEW e \in Endpoints, NEW r \in Releasers,
              Take(e, r) \/ Swap(e, r) \/ Remove(e, r) \/ Uncount(e, r)
       PROVE  ObligationInv'
  <2>1. \E v \in ReleasePcs : rel' = [rel EXCEPT ![e][r] = v]
    BY <1>30 DEF Take, Swap, Remove, Uncount, ReleaseGoes, ReleasePcs
  <2>2. /\ \A s \in Releasers \ {r} : rel'[e][s] = rel[e][s]
        /\ \A f \in Endpoints \ {e} : rel'[f] = rel[f]
    BY <1>0, <2>1, OneReleaserMoves DEF TypeOK
  <2>3. /\ UNCHANGED <<server, op, watcher, resource, monitor, inbox, closed>>
        /\ \A f \in Endpoints \ {e} : released'[f] = released[f]
        /\ released[e] => released'[e]
    BY <1>0, <1>30 DEF Take, Swap, Remove, Uncount, bindVars, TypeOK
  <2>4. /\ rel[e][r] \in {"take", "swap", "remove", "count"}
        /\ \/ rel'[e][r] \in {"swap", "remove", "count"}
           \/ rel'[e][r] = "await" /\ r = "close" /\ rel[e][r] = "take"
           \/ rel'[e][r] = "done" /\ released'[e]
    <3>1. CASE Take(e, r)
      BY <1>0, <3>1 DEF Take, ReleaseAt, ReleaseGoes, TypeOK
    <3>2. CASE Swap(e, r)
      BY <1>0, <3>2 DEF Swap, ReleaseAt, ReleaseGoes, TypeOK
    <3>3. CASE Remove(e, r)
      BY <1>0, <3>3 DEF Remove, ReleaseAt, ReleaseGoes, TypeOK
    <3>4. CASE Uncount(e, r)
      BY <1>0, <3>4 DEF Uncount, ReleaseAt, ReleaseGoes, TypeOK, OneReleaser
    <3> QED BY <1>30, <3>1, <3>2, <3>3, <3>4
  <2>5. \A f \in Endpoints, s \in Releasers : rel'[f][s] = "none" <=> rel[f][s] = "none"
    BY <2>2, <2>4
  <2>6. \A f \in Endpoints, s \in Releasers :
          /\ rel'[f][s] \in {"await", "replied"} => s = "close"
          /\ rel'[f][s] = "done" /\ s # "close" => released'[f]
          /\ rel'[f][s] \in {"take", "await"} => rel[f][s] \in {"take", "await"}
    BY <1>0, <2>2, <2>3, <2>4 DEF ObligationInv
  <2> QED
    BY <1>0, <2>3, <2>5, <2>6 DEF ObligationInv, Releasers
<1>31. CASE UserStep \/ UNCHANGED vars
  <2>1. UNCHANGED <<server, op, watcher, resource, released, rel, monitor, inbox,
                    closed>>
    BY <1>31 DEF UserStep, GetConfig, StartUse, EndUse, vars, bindVars,
       resourceVars
  <2> QED BY <1>0, <2>1 DEF ObligationInv
<1> QED
  BY NextCases, <1>1, <1>2, <1>3, <1>4, <1>5, <1>6, <1>7, <1>8, <1>9, <1>10,
     <1>11, <1>12, <1>13, <1>14, <1>15, <1>16, <1>17, <1>18, <1>19, <1>20,
     <1>21, <1>22, <1>23, <1>24, <1>25, <1>26, <1>30, <1>31 DEF PlainStep,
     StartStep

LEMMA InitEndpoint == Init => EndpointInv
<1> SUFFICES ASSUME Init PROVE EndpointInv
  OBVIOUS
<1>1. TypeOK
  <2>1. /\ key \in [Endpoints -> Ids]
        /\ server \in [Endpoints -> ServerStates]
        /\ watcher \in [Endpoints -> WatcherStates]
        /\ native \in [Endpoints -> {"none", "bind", "slot", "closed", "dropped"}
                                    \cup Releasers]
        /\ rel \in [Endpoints -> [Releasers -> ReleasePcs]]
    BY DEF Init, ServerStates, WatcherStates, ReleasePcs
  <2>2. /\ op \in [Endpoints -> {"none", "RUNNING", "COMPLETED", "CANCELLED"}]
        /\ task \in [Endpoints -> {"none", "running", "ok", "error", "dropped"}]
        /\ resource \in [Endpoints -> {"none", "live", "freed"}]
        /\ released \in [Endpoints -> BOOLEAN]
        /\ monitor \in [Endpoints -> {"none", "set", "fired"}]
    BY DEF Init
  <2>3. /\ inbox \in [Endpoints -> {"none", "ok", "error"}]
        /\ closed \in [Endpoints -> {"none", "ok", "error"}]
        /\ identities \subseteq Ids /\ active \in Nat
        /\ at \in [Users -> {"idle", "config", "operation"}]
        /\ uses \in [Users -> Endpoints \cup {NoEndpoint}]
    BY DEF Init
  <2> QED BY <2>1, <2>2, <2>3 DEF TypeOK
<1>2. Held = {} /\ Counted = {}
  BY DEF Init, Held, Holding, Counted, Counts
<1>3. RegistryExact
  BY <1>2 DEF Init, RegistryExact, Held
<1>4. ActiveEndpointsExact
  <2>1. active = 0 /\ Cardinality({}) = 0
    BY FS_EmptySet DEF Init
  <2> QED BY <1>2, <2>1 DEF ActiveEndpointsExact, Counted, Counts
<1>5. /\ SlotHoldsIdentity /\ OneReleaser /\ ResourceInv /\ ReleasersStart
      /\ CloseInv /\ ObligationInv
  BY DEF Init, SlotHoldsIdentity, OneReleaser, ResourceInv, ReleasersStart,
     CloseInv, ObligationInv, Releasers
<1> QED BY <1>1, <1>3, <1>4, <1>5 DEF EndpointInv

\* Whatever the interleaving of binds, timeouts, kills and the six releasers of
\* every endpoint: active_identities() holds exactly the identities in use, no
\* two endpoints hold one, ACTIVE_ENDPOINTS is exact, and a native endpoint is on
\* offer only while its identity is held.
THEOREM RegistryAlwaysExact == Spec => []EndpointInv
<1>1. EndpointInv /\ [Next]_vars => EndpointInv'
  <2> SUFFICES ASSUME EndpointInv, [Next]_vars PROVE EndpointInv'
    OBVIOUS
  <2>1. LocalInv'
    <3>1. CASE UserStep \/ UNCHANGED vars
      <4>1. UNCHANGED <<server, op, watcher, native, resource, released, rel,
                        monitor, inbox, closed>>
        BY <3>1 DEF UserStep, GetConfig, StartUse, EndUse, vars, bindVars,
           resourceVars
      <4> QED BY <4>1 DEF EndpointInv, LocalInv, OneReleaser, ResourceInv,
                 ReleasersStart, CloseInv
    <3> QED
      BY <3>1, NextCases, NextPlain, NextStart, NextCloseFuture, NextRelease
  <2>2. SlotHoldsIdentity'
    BY <2>1 DEF LocalInv, OneReleaser, ResourceInv, SlotHoldsIdentity, Holding
  <2> QED
    BY <2>1, <2>2, NextType, NextActive, NextRegistry, NextObligation
    DEF EndpointInv, LocalInv
<1> QED BY InitEndpoint, <1>1, PTL DEF Spec

\* A close that returned :ok has released the identity before: the caller may
\* start another endpoint with it at once.
THEOREM CloseGivesIdentityBack == Spec => []CloseFreesIdentity
<1>1. EndpointInv => CloseFreesIdentity
  BY DEF EndpointInv, ResourceInv, CloseInv, CloseFreesIdentity, Holding
<1> QED BY RegistryAlwaysExact, <1>1, PTL

\* An endpoint at which no step is left holds its identity only with a server that
\* nobody has stopped.
LEMMA SettledReleased ==
  ASSUME EndpointInv, NEW e \in Endpoints, Settled(e), server[e] = "exited"
  PROVE  ~Holding(e)
<1>0. TypeOK /\ ObligationInv
  BY DEF EndpointInv
<1>1. \A r \in Releasers \ {"close"} : rel[e][r] # "none" => released[e]
  BY <1>0 DEF ObligationInv, TypeOK, ReleasePcs, Settled
<1>2. watcher[e] \notin {"select", "cas", "failed", "lost", "wrap"}
  BY <1>0 DEF Settled, ObligationInv
<1>3. resource[e] # "none" => released[e]
  <2>1. CASE resource[e] = "freed"
    BY <1>0, <1>1, <2>1 DEF ObligationInv, Releasers
  <2>2. CASE resource[e] = "live"
    BY <1>0, <1>1, <2>2 DEF ObligationInv, Settled, TypeOK, Releasers
  <2> QED BY <1>0, <2>1, <2>2 DEF TypeOK
<1> QED BY <1>2, <1>3 DEF Holding, Settled

\* Once its server is gone, at whatever moment of the bind or the close, and
\* whatever its watcher, its close future and its monitor did since, an endpoint
\* at which nothing is left to do has given its identity back.
THEOREM ExitGivesIdentityBack == Spec => []ExitFreesIdentity
<1>1. EndpointInv => ExitFreesIdentity
  BY SettledReleased DEF ExitFreesIdentity
<1> QED BY RegistryAlwaysExact, <1>1, PTL

\* No endpoint settles in the middle of a close, and none whose close returned,
\* with success or after its timeout, keeps its identity.
THEOREM CloseNeverKeepsIdentity == Spec => []CloseSettlesFree
<1>1. ASSUME EndpointInv, NEW e \in Endpoints, Settled(e)
      PROVE  server[e] # "closing" /\ (closed[e] # "none" => ~Holding(e))
  <2>0. TypeOK /\ ObligationInv /\ ResourceInv
    BY <1>1 DEF EndpointInv
  <2>1. server[e] # "closing"
    BY <1>1, <2>0 DEF Settled, ObligationInv
  <2>2. CASE closed[e] # "none" /\ server[e] = "exited"
    BY <1>1, <2>2, SettledReleased
  <2>3. CASE closed[e] # "none" /\ server[e] \in {"aborting", "terminating"}
    <3>1. \A r \in Releasers \ {"close"} : rel[e][r] # "none" => released[e]
      BY <1>1, <2>0 DEF ObligationInv, TypeOK, ReleasePcs, Settled
    <3>2. released[e]
      BY <2>0, <2>3, <3>1 DEF ObligationInv, Releasers
    <3>3. /\ server[e] # "binding"
          /\ watcher[e] \notin {"select", "cas", "failed", "lost", "wrap"}
      BY <2>0, <2>3 DEF ResourceInv
    <3>4. \A r \in Releasers : rel[e][r] # "remove"
      BY <1>1 DEF Settled
    <3> QED BY <2>1, <3>2, <3>3, <3>4 DEF Holding
  <2> QED BY <1>1, <2>0, <2>1, <2>2, <2>3 DEF ObligationInv
<1>2. EndpointInv => CloseSettlesFree
  BY <1>1 DEF CloseSettlesFree
<1> QED BY RegistryAlwaysExact, <1>2, PTL
==============================================================================
