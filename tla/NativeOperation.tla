--------------------------- MODULE NativeOperation ---------------------------
(***************************************************************************)
(* The asynchronous operation protocol between Elixir callers and the      *)
(* native runtime.                                                         *)
(*                                                                         *)
(* A caller starts an operation through a NIF and blocks in                *)
(* await_operation; a tokio watcher task races the operation's future      *)
(* against the operation's `cancelled` Notify, decides with one            *)
(* compare-and-exchange whether the result is sent, and retires the        *)
(* operation.  Cancellation comes from the caller's timeout or from the    *)
(* BEAM's monitor callback when the caller dies; it is a                   *)
(* compare-and-exchange followed by a notify, two separate steps.          *)
(*                                                                         *)
(* kind "future" is start_endpoint_operation; kind "smoke" is              *)
(* operation_start, whose select has no task to abort.                     *)
(***************************************************************************)
EXTENDS Naturals, FiniteSets

CONSTANTS
  Callers,   \* BEAM processes
  Ops,       \* operation references (bounds the number of operations)
  Outcomes,  \* what a future (or the smoke timer) may end with
  NoCaller, NoOp, NoResult

ASSUME ConstantsAssumption ==
  /\ Outcomes \subseteq {"ok", "error", "panic"}
  /\ IsFiniteSet(Ops)
  /\ NoCaller \notin Callers
  /\ NoOp \notin Ops
  /\ NoResult \notin {"ok", "error", "internal", "cancelled", "timeout"}

Kinds == {"future", "smoke"}

VARIABLES
  alive,     \* is the caller's process alive
  cpc,       \* where the caller is: "idle", "awaiting", "cancelling", "notifying"
  awaiting,  \* the operation the caller awaits
  caller,    \* the process an operation belongs to
  kind,
  state,     \* OperationResource.state
  permit,    \* the stored permit of OperationResource.cancelled
  down,      \* the monitor: "none", "set", "fired", "notifying", "done"
  task,      \* the future: "none", "running", "aborted" or its outcome
  watcher,   \* where the watcher task is
  picked,    \* the result the watcher's select! produced
  reply,     \* the message sent, NoResult if none
  inbox,     \* is that message in the caller's mailbox
  returned,  \* what await_operation returned
  active     \* ACTIVE_OPERATIONS

callerVars == <<alive, cpc, awaiting>>
opVars == <<caller, kind>>
nativeVars == <<state, permit, down, task, watcher, picked, active>>
messageVars == <<reply, inbox, returned>>
vars == <<callerVars, opVars, nativeVars, messageVars>>

WatcherStates ==
  {"none", "select", "aborting", "cas", "send", "demonitor", "retire", "done"}

\* The types of everything but the counter.
ShapeOK ==
  /\ alive \in [Callers -> BOOLEAN]
  /\ cpc \in [Callers -> {"idle", "awaiting", "cancelling", "notifying"}]
  /\ awaiting \in [Callers -> Ops \cup {NoOp}]
  /\ caller \in [Ops -> Callers \cup {NoCaller}]
  /\ kind \in [Ops -> Kinds]
  /\ state \in [Ops -> {"NONE", "RUNNING", "COMPLETED", "CANCELLED"}]
  /\ permit \in [Ops -> BOOLEAN]
  /\ down \in [Ops -> {"none", "set", "fired", "notifying", "done"}]
  /\ task \in [Ops -> {"none", "running", "aborted"} \cup Outcomes]
  /\ watcher \in [Ops -> WatcherStates]
  /\ picked \in [Ops -> Outcomes \cup {"cancelled", NoResult}]
  /\ reply \in [Ops -> {"ok", "error", "internal", "cancelled", NoResult}]
  /\ inbox \in [Ops -> BOOLEAN]
  /\ returned \in [Ops -> {"ok", "error", "internal", "cancelled", "timeout",
                           NoResult}]

\* Every variable of the callers, of the operations and of the runtime has its
\* type; ACTIVE_OPERATIONS, an unsigned counter, never goes below zero.
TypeOK == ShapeOK /\ active \in Nat

Init ==
  /\ alive = [c \in Callers |-> TRUE]
  /\ cpc = [c \in Callers |-> "idle"]
  /\ awaiting = [c \in Callers |-> NoOp]
  /\ caller = [o \in Ops |-> NoCaller]
  /\ kind \in [Ops -> Kinds]
  /\ state = [o \in Ops |-> "NONE"]
  /\ permit = [o \in Ops |-> FALSE]
  /\ down = [o \in Ops |-> "none"]
  /\ task = [o \in Ops |-> "none"]
  /\ watcher = [o \in Ops |-> "none"]
  /\ picked = [o \in Ops |-> NoResult]
  /\ reply = [o \in Ops |-> NoResult]
  /\ inbox = [o \in Ops |-> FALSE]
  /\ returned = [o \in Ops |-> NoResult]
  /\ active = 0
------------------------------------------------------------------------------
(* The native side *)

\* OperationResource.cancel: whether the compare-and-exchange wins, and the
\* state it leaves.  The notify is a later step of the winner only.
CancelWins(o) == state[o] = "RUNNING"

\* Mutant: a store instead of the compare-and-exchange.
CancelStore(o) ==
  state' = [state EXCEPT ![o] = "CANCELLED"]

\* Mutant: cancel only wakes the watcher.
CancelOnlyNotifies(o) ==
  UNCHANGED state

CancelCas(o) ==
  state' = IF CancelWins(o) THEN [state EXCEPT ![o] = "CANCELLED"] ELSE state

\* Mutant: notify_waiters, which stores no permit, before the watcher's first poll.
NotifyWaiters(o) == UNCHANGED permit

\* notify_one stores a permit that the watcher's next poll of notified() takes.
NotifyOne(o) == permit' = [permit EXCEPT ![o] = TRUE]

\* The NIF creates the resource, monitors the caller, counts the operation and
\* spawns the future and its watcher; nothing of it is visible before it
\* returns.  The caller argument is the process that runs the NIF, so that the
\* monitor finds it alive.
StartOperation(c, o) ==
  /\ alive[c] /\ cpc[c] = "idle"
  /\ state[o] = "NONE"
  /\ caller' = [caller EXCEPT ![o] = c]
  /\ state' = [state EXCEPT ![o] = "RUNNING"]
  /\ down' = [down EXCEPT ![o] = "set"]
  /\ task' = [task EXCEPT ![o] = "running"]
  /\ watcher' = [watcher EXCEPT ![o] = "select"]
  /\ active' = active + 1
  /\ cpc' = [cpc EXCEPT ![c] = "awaiting"]
  /\ awaiting' = [awaiting EXCEPT ![c] = o]
  /\ UNCHANGED <<alive, kind, permit, picked, messageVars>>

\* The future ends by itself, at any poll, also one already asked to abort.
FutureEnds(o, r) ==
  /\ task[o] = "running"
  /\ task' = [task EXCEPT ![o] = r]
  /\ UNCHANGED <<callerVars, opVars, state, permit, down, watcher, picked,
                 active, messageVars>>

\* select! takes the branch of the future's result.
SelectResult(o) ==
  /\ watcher[o] = "select"
  /\ task[o] \in Outcomes
  /\ picked' = [picked EXCEPT ![o] = task[o]]
  /\ watcher' = [watcher EXCEPT ![o] = "cas"]
  /\ UNCHANGED <<callerVars, opVars, state, permit, down, task, active,
                 messageVars>>

\* select! takes the branch of cancelled.notified(), even if the result is
\* ready too.  A future is aborted and awaited; the smoke operation falls
\* through with the outcome it was started for.
SelectCancelled(o) ==
  /\ watcher[o] = "select"
  /\ permit[o]
  /\ permit' = [permit EXCEPT ![o] = FALSE]
  /\ \/ /\ kind[o] = "future"
        /\ watcher' = [watcher EXCEPT ![o] = "aborting"]
        /\ UNCHANGED picked
     \/ /\ kind[o] = "smoke"
        /\ watcher' = [watcher EXCEPT ![o] = "cas"]
        /\ \E r \in Outcomes : picked' = [picked EXCEPT ![o] = r]
  /\ UNCHANGED <<callerVars, opVars, state, down, task, active, messageVars>>

\* abort() takes effect at the future's next await.
AbortTakesEffect(o) ==
  /\ watcher[o] = "aborting"
  /\ task[o] = "running"
  /\ task' = [task EXCEPT ![o] = "aborted"]
  /\ UNCHANGED <<callerVars, opVars, state, permit, down, watcher, picked,
                 active, messageVars>>

\* future_task.await returns; whatever it returned is dropped.
AwaitAborted(o) ==
  /\ watcher[o] = "aborting"
  /\ task[o] # "running"
  /\ picked' = [picked EXCEPT ![o] = "cancelled"]
  /\ watcher' = [watcher EXCEPT ![o] = "cas"]
  /\ UNCHANGED <<callerVars, opVars, state, permit, down, task, active,
                 messageVars>>

\* Mutant: the watcher stores COMPLETED without comparing.
CompleteStore(o) ==
  /\ watcher[o] = "cas"
  /\ state' = [state EXCEPT ![o] = "COMPLETED"]
  /\ watcher' = [watcher EXCEPT ![o] = "send"]
  /\ UNCHANGED <<callerVars, opVars, permit, down, task, picked, active,
                 messageVars>>

\* Mutant: a watcher that lost returns early, without retiring.
CompleteCasEarlyReturn(o) ==
  /\ watcher[o] = "cas"
  /\ \/ /\ state[o] = "RUNNING"
        /\ state' = [state EXCEPT ![o] = "COMPLETED"]
        /\ watcher' = [watcher EXCEPT ![o] = "send"]
     \/ /\ state[o] # "RUNNING"
        /\ watcher' = [watcher EXCEPT ![o] = "done"]
        /\ UNCHANGED state
  /\ UNCHANGED <<callerVars, opVars, permit, down, task, picked, active,
                 messageVars>>

\* should_complete: the watcher's compare-and-exchange.
CompleteCas(o) ==
  /\ watcher[o] = "cas"
  /\ \/ /\ state[o] = "RUNNING"
        /\ state' = [state EXCEPT ![o] = "COMPLETED"]
        /\ watcher' = [watcher EXCEPT ![o] = "send"]
     \/ /\ state[o] # "RUNNING"
        /\ watcher' = [watcher EXCEPT ![o] = "demonitor"]
        /\ UNCHANGED state
  /\ UNCHANGED <<callerVars, opVars, permit, down, task, picked, active,
                 messageVars>>

\* The message's result: a panic is reported as internal.
Encoded(r) == IF r = "panic" THEN "internal" ELSE r

\* send_operation_result; a message to a dead process vanishes.
SendResult(o) ==
  /\ watcher[o] = "send"
  /\ watcher' = [watcher EXCEPT ![o] = "demonitor"]
  /\ \/ /\ alive[caller[o]]
        /\ reply' = [reply EXCEPT ![o] = Encoded(picked[o])]
        /\ inbox' = [inbox EXCEPT ![o] = TRUE]
     \/ /\ ~alive[caller[o]]
        /\ UNCHANGED <<reply, inbox>>
  /\ UNCHANGED <<callerVars, opVars, state, permit, down, task, picked, active,
                 returned>>

\* A monitor that has already fired is not undone.
Demonitor(o) ==
  /\ watcher[o] = "demonitor"
  /\ watcher' = [watcher EXCEPT ![o] = "retire"]
  /\ down' = IF down[o] = "set" THEN [down EXCEPT ![o] = "none"] ELSE down
  /\ UNCHANGED <<callerVars, opVars, state, permit, task, picked, active,
                 messageVars>>

Retire(o) ==
  /\ watcher[o] = "retire"
  /\ watcher' = [watcher EXCEPT ![o] = "done"]
  /\ active' = active - 1
  /\ UNCHANGED <<callerVars, opVars, state, permit, down, task, picked,
                 messageVars>>

\* Mutant: the callback does not cancel.
DownIgnored(o) ==
  /\ down[o] = "fired"
  /\ down' = [down EXCEPT ![o] = "done"]
  /\ UNCHANGED <<callerVars, opVars, state, permit, task, watcher, picked,
                 active, messageVars>>

\* The resource's down callback runs cancel: first its compare-and-exchange ...
DownCancel(o) ==
  /\ down[o] = "fired"
  /\ CancelCas(o)
  /\ down' = [down EXCEPT ![o] = IF CancelWins(o) THEN "notifying" ELSE "done"]
  /\ UNCHANGED <<callerVars, opVars, permit, task, watcher, picked, active,
                 messageVars>>

\* ... then, if it won, the notify.
DownNotify(o) ==
  /\ down[o] = "notifying"
  /\ NotifyOne(o)
  /\ down' = [down EXCEPT ![o] = "done"]
  /\ UNCHANGED <<callerVars, opVars, state, task, watcher, picked, active,
                 messageVars>>
------------------------------------------------------------------------------
(* The Elixir side: await_operation *)

Receive(c) ==
  /\ alive[c] /\ cpc[c] = "awaiting"
  /\ inbox[awaiting[c]]
  /\ inbox' = [inbox EXCEPT ![awaiting[c]] = FALSE]
  /\ returned' = [returned EXCEPT ![awaiting[c]] = reply[awaiting[c]]]
  /\ cpc' = [cpc EXCEPT ![c] = "idle"]
  /\ UNCHANGED <<alive, awaiting, opVars, nativeVars, reply>>

\* Mutant: a receive without `after`.
NoTimeout(c) == FALSE /\ UNCHANGED vars

\* The receive's timer fires with no matching message in the mailbox.
TimeoutFires(c) ==
  /\ alive[c] /\ cpc[c] = "awaiting"
  /\ ~inbox[awaiting[c]]
  /\ cpc' = [cpc EXCEPT ![c] = "cancelling"]
  /\ UNCHANGED <<alive, awaiting, opVars, nativeVars, messageVars>>

\* operation_cancel; its boolean is ignored.  A caller that loses the
\* compare-and-exchange returns the timeout at once, one that wins it notifies.
TimeoutCancel(c) ==
  LET o == awaiting[c] IN
  /\ alive[c] /\ cpc[c] = "cancelling"
  /\ CancelCas(o)
  /\ \/ /\ CancelWins(o)
        /\ cpc' = [cpc EXCEPT ![c] = "notifying"]
        /\ UNCHANGED returned
     \/ /\ ~CancelWins(o)
        /\ cpc' = [cpc EXCEPT ![c] = "idle"]
        /\ returned' = [returned EXCEPT ![o] = "timeout"]
  /\ UNCHANGED <<alive, awaiting, opVars, permit, down, task, watcher, picked,
                 active, reply, inbox>>

TimeoutNotify(c) ==
  LET o == awaiting[c] IN
  /\ alive[c] /\ cpc[c] = "notifying"
  /\ NotifyOne(o)
  /\ cpc' = [cpc EXCEPT ![c] = "idle"]
  /\ returned' = [returned EXCEPT ![o] = "timeout"]
  /\ UNCHANGED <<alive, awaiting, opVars, state, down, task, watcher, picked,
                 active, reply, inbox>>

\* A process dies between two NIF calls: its mailbox is gone and every monitor
\* still set on it fires.
CallerDies(c) ==
  /\ alive[c] /\ cpc[c] # "notifying"
  /\ alive' = [alive EXCEPT ![c] = FALSE]
  /\ inbox' = [o \in Ops |-> inbox[o] /\ caller[o] # c]
  /\ down' = [o \in Ops |->
                IF caller[o] = c /\ down[o] = "set" THEN "fired" ELSE down[o]]
  /\ UNCHANGED <<cpc, awaiting, opVars, state, permit, task, watcher, picked,
                 active, reply, returned>>
------------------------------------------------------------------------------
Watcher(o) ==
  \/ SelectResult(o) \/ SelectCancelled(o) \/ AwaitAborted(o)
  \/ CompleteCas(o) \/ SendResult(o) \/ Demonitor(o) \/ Retire(o)

Down(o) == DownCancel(o) \/ DownNotify(o)

Await(c) ==
  Receive(c) \/ TimeoutFires(c) \/ TimeoutCancel(c) \/ TimeoutNotify(c)

Next ==
  \/ \E c \in Callers, o \in Ops : StartOperation(c, o)
  \/ \E o \in Ops : \E r \in Outcomes : FutureEnds(o, r)
  \/ \E o \in Ops : Watcher(o) \/ AbortTakesEffect(o) \/ Down(o)
  \/ \E c \in Callers : Await(c) \/ CallerDies(c)

Spec == Init /\ [][Next]_vars

\* The tokio scheduler polls every ready task, abort is prompt, the BEAM runs
\* every fired monitor and every receive's timer is finite.  Nothing obliges a
\* future to end by itself.
Fairness ==
  /\ \A o \in Ops : WF_vars(Watcher(o)) /\ WF_vars(Down(o))
                    /\ WF_vars(AbortTakesEffect(o))
  /\ \A c \in Callers : WF_vars(Await(c))

FairSpec == Spec /\ Fairness
------------------------------------------------------------------------------
(* Properties *)

Live(o) == watcher[o] \notin {"none", "done"}

\* Cancellation and completion exclude each other: once cancel() has won, on
\* the caller's timeout or on its death, no result of the operation is sent.
CancelExcludesReply ==
  \A o \in Ops : state[o] = "CANCELLED" => reply[o] = NoResult

\* The message a caller gets is the outcome its own future produced, never the
\* placeholder of a watcher woken by the cancellation: the `None => cancelled`
\* arm of start_endpoint_operation is unreachable because cancel() changes the
\* state before it notifies.
ReplyIsTheFuturesOutcome ==
  \A o \in Ops : reply[o] # NoResult =>
    task[o] \in Outcomes /\ reply[o] = Encoded(task[o])

\* Why cancellation and completion exclude each other, operation by operation:
\* a permit or a pending notify exists only after the state is CANCELLED, a
\* message only after the watcher's own compare-and-exchange.
OperationInv ==
  \A o \in Ops :
    /\ state[o] = "NONE" <=> watcher[o] = "none"
    /\ state[o] # "NONE" => caller[o] \in Callers
    /\ permit[o] \/ down[o] = "notifying" \/ watcher[o] = "aborting"
         => state[o] = "CANCELLED"
    /\ watcher[o] \in {"select", "aborting", "cas"} => state[o] # "COMPLETED"
    /\ watcher[o] \in {"none", "select", "aborting", "cas", "send"}
         => reply[o] = NoResult
    /\ watcher[o] \in {"demonitor", "retire", "done"} => state[o] # "RUNNING"
    /\ watcher[o] = "send" \/ reply[o] # NoResult => state[o] = "COMPLETED"
    /\ watcher[o] = "send" \/ (watcher[o] = "cas" /\ state[o] = "RUNNING")
         => task[o] \in Outcomes /\ picked[o] = task[o]
    /\ reply[o] # NoResult =>
         task[o] \in Outcomes /\ reply[o] = Encoded(task[o])
    /\ inbox[o] => reply[o] # NoResult
    /\ returned[o] # NoResult => state[o] # "NONE"

\* A caller inside await_operation awaits an operation of its own that has not
\* returned yet, and notifies only what it has cancelled.
CallerInv ==
  \A c \in Callers : cpc[c] # "idle" =>
    /\ awaiting[c] \in Ops
    /\ state[awaiting[c]] # "NONE"
    /\ caller[awaiting[c]] = c
    /\ returned[awaiting[c]] = NoResult
    /\ cpc[c] = "notifying" => state[awaiting[c]] = "CANCELLED"

\* The inductive invariant of the protocol, around OperationResource.cancel and
\* the watcher of start_endpoint_operation.
IndInv == OperationInv /\ CallerInv

\* The wake-up of a cancelled operation is stored, or somebody who will not die
\* before is about to store it.
WakeupDue(o) ==
  \/ permit[o] \/ down[o] = "notifying"
  \/ \E c \in Callers : alive[c] /\ cpc[c] = "notifying" /\ awaiting[c] = o

\* No wake-up is lost between cancel() and the watcher's select!, and the monitor of
\* a running operation outlasts its caller: it has fired once the caller is dead.
WakeupInv ==
  \A o \in Ops :
    /\ state[o] = "CANCELLED" /\ watcher[o] = "select" => WakeupDue(o)
    /\ state[o] = "RUNNING" => down[o] = IF alive[caller[o]] THEN "set" ELSE "fired"

\* ACTIVE_OPERATIONS counts exactly the operations whose watcher has not
\* retired, on every path through the watcher.
ActiveOperationsExact ==
  active = Cardinality({o \in Ops : Live(o)})

\* An operation that is given up always retires, even if its future never ends:
\* no wake-up is lost between cancel() and the watcher's select!, whether the
\* caller cancelled it or died.
AbandonedRetires ==
  \A o \in Ops :
    /\ state[o] = "CANCELLED" ~> watcher[o] = "done"
    /\ \A c \in Callers : caller[o] = c /\ ~alive[c] ~> watcher[o] = "done"

\* A live caller that awaits an operation returns.
AwaitReturns ==
  \A c \in Callers : cpc[c] = "awaiting" ~> cpc[c] = "idle" \/ ~alive[c]

\* The operation protocol implements the contract its callers rely on.
Contract == INSTANCE OperationContract
              WITH state <- state, reply <- reply, returned <- returned
ImplementsContract == Contract!Spec
==============================================================================
