-------------------------- MODULE OperationContract --------------------------
(***************************************************************************)
(* What an asynchronous native operation promises to the Elixir process    *)
(* that started it, independently of tasks, atomics and notifications:     *)
(* one irrevocable decision between completion and cancellation, a message *)
(* only after completion, carrying only an outcome the work itself         *)
(* produced, and one return of the awaiting call.                          *)
(***************************************************************************)
CONSTANTS Ops, NoResult

VARIABLES
  state,    \* the decision taken for each operation
  reply,    \* the message sent to the caller, or NoResult
  returned  \* what the awaiting call returned, or NoResult

vars == <<state, reply, returned>>

\* The outcomes an operation may announce; "cancelled" is not among them.
Replies == {"ok", "error", "internal"}

Init ==
  /\ state = [o \in Ops |-> "NONE"]
  /\ reply = [o \in Ops |-> NoResult]
  /\ returned = [o \in Ops |-> NoResult]

Start(o) ==
  /\ state[o] = "NONE"
  /\ state' = [state EXCEPT ![o] = "RUNNING"]
  /\ UNCHANGED <<reply, returned>>

Decide(o, d) ==
  /\ state[o] = "RUNNING"
  /\ state' = [state EXCEPT ![o] = d]
  /\ UNCHANGED <<reply, returned>>

Reply(o, r) ==
  /\ state[o] = "COMPLETED"
  /\ reply[o] = NoResult
  /\ reply' = [reply EXCEPT ![o] = r]
  /\ UNCHANGED <<state, returned>>

\* The call returns the message, or gives up once the operation is decided.
Return(o, r) ==
  /\ returned[o] = NoResult
  /\ \/ r = reply[o] /\ r # NoResult
     \/ r = "timeout" /\ state[o] \in {"COMPLETED", "CANCELLED"}
  /\ returned' = [returned EXCEPT ![o] = r]
  /\ UNCHANGED <<state, reply>>

Next ==
  \E o \in Ops :
    \/ Start(o)
    \/ \E d \in {"COMPLETED", "CANCELLED"} : Decide(o, d)
    \/ \E r \in Replies : Reply(o, r)
    \/ \E r \in Replies \cup {"timeout"} : Return(o, r)

Spec == Init /\ [][Next]_vars
==============================================================================
