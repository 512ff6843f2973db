------------------------------ MODULE DistStart ------------------------------
(***************************************************************************)
(* Starting and stopping distribution: processes that call                 *)
(* IrohBeam.Distribution.start and stop, the configuration they keep in a  *)
(* persistent term, and net_kernel, whose start runs the initialisation of *)
(* iroh_dist_endpoint, which loads that configuration.                     *)
(*                                                                         *)
(* A process starts with a configuration of its own, named after it.       *)
(* net_kernel's start and stop are serialised by its supervisor and        *)
(* external; a start may fail for any reason.                              *)
(***************************************************************************)
CONSTANTS
  Procs,  \* processes that start and stop distribution
  Early,  \* the configuration of the boot-time application environment
  None

ASSUME ProcsAssumption == None \notin Procs /\ Early \notin Procs /\ None # Early

VARIABLES
  pc,       \* where each process is in its call
  term,     \* the persistent term of the configuration
  node,     \* the name net_kernel was started with, and the configuration
            \* that iroh_dist_endpoint loaded
  env,      \* is the boot-time configuration there
  raced     \* history: see Races

startVars == <<pc, term, node, env, raced>>

NoNode == [name |-> None, config |-> None]
Pcs == {"idle", "get", "put", "kernel", "status", "rollback", "uninstall",
        "stop", "dead"}

\* Every variable has its type; a node that runs has a name and a configuration.
StartTypeOK ==
  /\ pc \in [Procs -> Pcs]
  /\ term \in Procs \cup {Early, None}
  /\ node \in {NoNode} \cup [name : Procs \cup {Early}, config : Procs \cup {Early}]
  /\ env \in BOOLEAN /\ raced \in BOOLEAN

\* The virtual machine may have been booted with a node name.
StartInit ==
  /\ pc = [p \in Procs |-> "idle"] /\ raced = FALSE
  /\ \/ term = None /\ node = NoNode /\ env \in BOOLEAN
     \/ term = Early /\ node = [name |-> Early, config |-> Early] /\ env = TRUE

StartGoes(p, to) == pc' = [pc EXCEPT ![p] = to]
------------------------------------------------------------------------------
(* Distribution.start *)

\* require_unnamed, and a configuration that is valid.
Start(p) ==
  /\ pc[p] = "idle" /\ node = NoNode
  /\ StartGoes(p, "get")
  /\ UNCHANGED <<term, node, env>>

\* Mutant: install puts whatever is there.
InstallOverwrites(p) ==
  pc[p] = "get" /\ StartGoes(p, "put") /\ UNCHANGED <<term, node, env>>

\* install looks whether a configuration is there ...
InstallGet(p) ==
  /\ pc[p] = "get"
  /\ \/ term = None /\ StartGoes(p, "put")
     \/ term # None /\ StartGoes(p, "idle")
  /\ UNCHANGED <<term, node, env>>

\* ... and puts its own.
InstallPut(p) ==
  /\ pc[p] = "put" /\ StartGoes(p, "kernel")
  /\ term' = p
  /\ UNCHANGED <<node, env>>

\* Mutant: the boot-time configuration comes first.
LoadEnvFirst == IF env THEN Early ELSE term

\* Config.load: the installed configuration, or else the boot-time one.
Load == IF term # None THEN term ELSE IF env THEN Early ELSE None

CanLoad == Load # None

\* net_kernel.start: load_early installs what it loads.
NetKernelStart(p) ==
  /\ pc[p] = "kernel" /\ node = NoNode /\ CanLoad
  /\ node' = [name |-> p, config |-> Load]
  /\ term' = Load
  /\ StartGoes(p, "status")
  /\ UNCHANGED env

\* Mutant: a failed start returns its error at once.
FailedReturns(p) == StartGoes(p, "idle")

Failed(p) == StartGoes(p, "uninstall")

\* net_kernel runs already, or the endpoint does not start, before or after it
\* loaded its configuration.
NetKernelFails(p) ==
  /\ pc[p] = "kernel" /\ Failed(p)
  /\ term' = term \/ (node = NoNode /\ term' = Load)
  /\ UNCHANGED <<node, env>>

\* The start is complete if there is an endpoint to answer.
Status(p) ==
  /\ pc[p] = "status"
  /\ StartGoes(p, IF node # NoNode THEN "idle" ELSE "rollback")
  /\ UNCHANGED <<term, node, env>>

\* net_kernel.stop stops what was started dynamically.
Stopped(n) == IF n.name = Early THEN n ELSE NoNode

\* rollback_start ignores what net_kernel.stop returns.
RollbackStop(p) ==
  /\ pc[p] = "rollback" /\ StartGoes(p, "uninstall")
  /\ node' = Stopped(node)
  /\ UNCHANGED <<term, env>>

\* uninstall, at the end of a failed start or of a stop.
Uninstall(p) ==
  /\ pc[p] = "uninstall" /\ StartGoes(p, "idle")
  /\ term' = None
  /\ UNCHANGED <<node, env>>
------------------------------------------------------------------------------
(* Distribution.stop *)

\* Only a dynamic configuration is stopped.
Stop(p) ==
  /\ pc[p] = "idle" /\ term \in Procs
  /\ StartGoes(p, "stop")
  /\ UNCHANGED <<term, node, env>>

\* Mutant: the configuration is removed whatever net_kernel.stop says.
StopAlwaysUninstalls(p) ==
  /\ pc[p] = "stop" /\ node' = Stopped(node) /\ StartGoes(p, "uninstall")
  /\ UNCHANGED <<term, env>>

\* The configuration goes only if net_kernel stopped.
StopKernel(p) ==
  /\ pc[p] = "stop"
  /\ node' = Stopped(node)
  /\ StartGoes(p, IF node = NoNode \/ node.name = Early
                  THEN "idle" ELSE "uninstall")
  /\ UNCHANGED <<term, env>>

\* A process dies in the middle of a call.
Dies(p) ==
  /\ pc[p] # "dead" /\ StartGoes(p, "dead")
  /\ UNCHANGED <<term, node, env>>

\* The two races the code does not exclude: two starts are past install's look
\* before either has put its configuration, and a stop takes down the node of a
\* start that has not asked for its status yet.
Races ==
  \/ \E p, q \in Procs : p # q /\ pc[p] = "put" /\ pc[q] = "put"
  \/ \E p \in Procs : pc[p] = "status" /\ node = NoNode

StartNext ==
  /\ \E p \in Procs :
       \/ Start(p) \/ InstallGet(p) \/ InstallPut(p)
       \/ NetKernelStart(p) \/ NetKernelFails(p) \/ Status(p) \/ RollbackStop(p)
       \/ Uninstall(p) \/ Stop(p) \/ StopKernel(p) \/ Dies(p)
  /\ raced' = (raced \/ Races')

StartSpec == StartInit /\ [][StartNext]_startVars
------------------------------------------------------------------------------
(* Properties *)

Quiet == \A p \in Procs : pc[p] \in {"idle", "dead"}

\* Whatever fails, and whoever starts and stops at once, no configuration is
\* left without a node to hinder the next start, unless its process died.
NothingLeftBehind ==
  Quiet /\ node = NoNode /\ (\A p \in Procs : pc[p] # "dead") => term = None

\* A dynamic node that runs can be stopped: its configuration is installed, is
\* the one its endpoint uses and the one it was started with, unless one of the
\* two races happened.
RunningIsStoppable ==
  Quiet /\ ~raced /\ node.name \in Procs =>
    term = node.name /\ node.config = node.name

\* Unless one of the two races happened, installing, starting and uninstalling
\* exclude each other, although no lock is taken: install's look at the term is
\* what keeps a second process out, and a node that runs keeps everybody out.  A
\* start that asks for its status then finds its own node and configuration; one
\* whose node was stopped and replaced before it asked is told ok all the same, for
\* the node of another.
InstallInv ==
  ~raced =>
    /\ \A p, q \in Procs :
         pc[p] \in {"put", "kernel", "status", "uninstall"}
         /\ pc[q] \in {"put", "kernel", "status", "uninstall"} => p = q
    /\ \A p \in Procs :
         /\ pc[p] # "rollback"
         /\ pc[p] = "put" => node = NoNode /\ term = None
         /\ pc[p] = "kernel" => node = NoNode /\ term = p
         /\ pc[p] = "status" => node = [name |-> p, config |-> p]
         /\ pc[p] = "uninstall" => node = NoNode /\ term # None
    /\ node # NoNode => node.name = term /\ node.config = term

\* Whatever happens, a configuration without a node has somebody who will start
\* a node with it or remove it, unless a process died.
LeftoverInv ==
  node = NoNode /\ term # None =>
    \E p \in Procs : pc[p] \in {"kernel", "status", "rollback", "uninstall", "dead"}

\* The inductive invariant of start and stop: without a race the calls exclude each
\* other, and, races or not, no configuration is left to nobody.
StartInv == StartTypeOK /\ InstallInv /\ LeftoverInv

\* The configuration is immutable while a node runs: no stop that is late with
\* its uninstall takes away the configuration of the next node.
ConfigurationImmutable ==
  [][node # NoNode /\ node' = node /\ ~raced => term' = term]_startVars
==============================================================================
