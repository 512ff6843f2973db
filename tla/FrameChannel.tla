----------------------------- MODULE FrameChannel -----------------------------
(***************************************************************************)
(* What a distribution link promises of its frames: those delivered are    *)
(* the ones sent, whole, in order, without gaps or repetition.  A link may *)
(* stop at any time.                                                       *)
(***************************************************************************)
EXTENDS Naturals, Sequences

VARIABLES
  sent,      \* the frames handed to the link
  delivered  \* the frames the peer's ERTS got

Init == sent = <<>> /\ delivered = <<>>

\* Any frame is added at the end.
Send ==
  /\ Len(sent') = Len(sent) + 1
  /\ SubSeq(sent', 1, Len(sent)) = sent
  /\ UNCHANGED delivered

Deliver ==
  /\ Len(delivered) < Len(sent)
  /\ delivered' = Append(delivered, sent[Len(delivered) + 1])
  /\ UNCHANGED sent

Next == Send \/ Deliver

Spec == Init /\ [][Next]_<<sent, delivered>>
==============================================================================
