--------------------------- MODULE IdentityPromise ---------------------------
(***************************************************************************)
(* What Identity.load_or_create promises of one path: the file is absent   *)
(* until one call publishes its complete key, never changes afterwards,    *)
(* and no call answers with any other key.                                 *)
(***************************************************************************)
CONSTANTS Calls, Prior

VARIABLES
  identity,  \* the content of the file at the path
  answer     \* what each call has returned

Keys == Calls \cup {Prior}

Init ==
  /\ identity \in {"absent", "corrupt", Prior}
  /\ answer = [c \in Calls |-> "none"]

\* The key that c generated becomes the identity of the path.
Publish(c) ==
  /\ identity = "absent" /\ answer[c] = "none"
  /\ identity' = c
  /\ UNCHANGED answer

\* A call returns the identity, or an error.
Answer(c) ==
  /\ answer[c] = "none"
  /\ \E a \in {identity, "error"} \ {"absent", "corrupt"} :
       answer' = [answer EXCEPT ![c] = a]
  /\ UNCHANGED identity

Next == \E c \in Calls : Publish(c) \/ Answer(c)

Spec == Init /\ [][Next]_<<identity, answer>>
==============================================================================
