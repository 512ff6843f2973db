--------------------------- MODULE StreamResource ---------------------------
(***************************************************************************)
(* One QUIC stream of the native layer, at the granularity of its atomics. *)
(*                                                                         *)
(* Each half keeps its QUIC handle in a mutex-protected slot.  A send or   *)
(* receive operation leases the handle (closed check, busy                 *)
(* compare-and-exchange, slot take), runs its I/O in a select! against the *)
(* half's Notify, and gives the lease back when its future is dropped.     *)
(* Control calls run on other threads without taking the lease: finish,    *)
(* reset, stop, abort, and the close run by the owner's monitor or by the  *)
(* resource's destructor.                                                  *)
(*                                                                         *)
(* wire is what the QUIC library was last told about a half: still "open", *)
(* "finished", aborted with one of Codes, or "discarded", the library's    *)
(* own reaction to a handle that is dropped without a word (an implicit    *)
(* finish of a send half, an implicit stop of a receive half).  A          *)
(* unidirectional stream has one "absent" half.                            *)
(***************************************************************************)
EXTENDS Naturals, FiniteSets

CONSTANTS
  Ops,        \* send and receive operations (each runs once)
  Controls,   \* control calls (each runs once)
  Codes,      \* QUIC abort codes
  Zero,       \* the code close() uses
  NoCode      \* NO_ABORT

Fates == {"open", "absent", "finished", "discarded"}

ASSUME CodesAssumption ==
  /\ Zero \in Codes
  /\ NoCode \notin Codes
  /\ Codes \cap Fates = {}

Halves == {"send", "recv"}
Calls == {"finish", "reset", "stop", "abort", "close"}

VARIABLES
  slot,      \* is the half's handle in its slot
  busy, closed,
  code,      \* reset_code and stop_code
  permit,    \* the stored permits of reset_notify and stop_notify
  released,
  active,    \* this stream's share of ACTIVE_STREAMS
  wire,
  half,      \* the half an operation works on
  opc,       \* where the operation is
  lease,     \* does the operation's lease hold the handle
  result,    \* what the operation ended with
  call,      \* the control call being made
  cpc,       \* where it is
  chalf, ccode,  \* the half and the code of the request it is carrying out
  closing,   \* is it inside close()
  answer     \* what it returned

halfVars == <<slot, busy, closed, code, permit, wire>>
opVars == <<half, opc, lease, result>>
controlVars == <<call, cpc, chalf, ccode, closing, answer>>
vars == <<halfVars, released, active, opVars, controlVars>>

OpPcs == {"idle", "cas", "slot", "unavailable", "select", "abort", "drop",
          "dropping", "restore", "done"}
ControlPcs == {"idle", "busy?", "close_send", "finish", "store", "close",
               "notify", "take", "swap", "uncount", "done"}
Results == {"none", "closed", "busy", "ok", "ended", "peer_aborted"}

\* Every atomic, lease and program counter has its type.
TypeOK ==
  /\ slot \in [Halves -> BOOLEAN] /\ busy \in [Halves -> BOOLEAN]
  /\ closed \in [Halves -> BOOLEAN] /\ permit \in [Halves -> BOOLEAN]
  /\ code \in [Halves -> Codes \cup {NoCode}]
  /\ wire \in [Halves -> Fates \cup Codes]
  /\ released \in BOOLEAN /\ active \in {0, 1}
  /\ half \in [Ops -> Halves]
  /\ opc \in [Ops -> OpPcs]
  /\ lease \in [Ops -> BOOLEAN]
  /\ result \in [Ops -> Results]
  /\ call \in [Controls -> Calls]
  /\ cpc \in [Controls -> ControlPcs]
  /\ chalf \in [Controls -> Halves]
  /\ ccode \in [Controls -> Codes]
  /\ closing \in [Controls -> BOOLEAN]
  /\ answer \in [Controls -> Results]

\* wrap_stream: a new resource holds one or both handles.
Init ==
  /\ slot \in {f \in [Halves -> BOOLEAN] : \E h \in Halves : f[h]}
  /\ busy = [h \in Halves |-> FALSE]
  /\ closed = [h \in Halves |-> FALSE]
  /\ permit = [h \in Halves |-> FALSE]
  /\ code = [h \in Halves |-> NoCode]
  /\ wire = [h \in Halves |-> IF slot[h] THEN "open" ELSE "absent"]
  /\ released = FALSE /\ active = 1
  /\ half \in [Ops -> Halves]
  /\ opc = [o \in Ops |-> "idle"]
  /\ lease = [o \in Ops |-> FALSE]
  /\ result = [o \in Ops |-> "none"]
  /\ call \in [Controls -> Calls]
  /\ cpc = [c \in Controls |-> "idle"]
  /\ chalf = [c \in Controls |-> "send"]
  /\ ccode \in [Controls -> Codes]
  /\ closing = [c \in Controls |-> FALSE]
  /\ answer = [c \in Controls |-> "none"]
------------------------------------------------------------------------------
(* Operations *)

OpAt(o, from) == opc[o] = from
OpGoes(o, to) == opc' = [opc EXCEPT ![o] = to]

\* The operation stops with r.
OpEnds(o, r) ==
  /\ OpGoes(o, "done")
  /\ result' = [result EXCEPT ![o] = r]

\* take_send and take_recv, first step: the closed flag.
TakeCheck(o) ==
  /\ OpAt(o, "idle")
  /\ \/ closed[half[o]] /\ OpEnds(o, "closed")
     \/ ~closed[half[o]] /\ OpGoes(o, "cas") /\ UNCHANGED result
  /\ UNCHANGED <<halfVars, released, active, half, lease, controlVars>>

\* Mutant: busy is read and written in two steps.
TakeBusyUnchecked(o) ==
  /\ OpAt(o, "cas")
  /\ busy' = [busy EXCEPT ![half[o]] = TRUE]
  /\ OpGoes(o, "slot")
  /\ UNCHANGED <<slot, closed, code, permit, wire, released, active, half,
                 lease, result, controlVars>>

\* Second step: the compare-and-exchange on busy.
TakeBusy(o) ==
  /\ OpAt(o, "cas")
  /\ \/ /\ busy[half[o]]
        /\ OpEnds(o, "busy")
        /\ UNCHANGED busy
     \/ /\ ~busy[half[o]]
        /\ busy' = [busy EXCEPT ![half[o]] = TRUE]
        /\ OpGoes(o, "slot")
        /\ UNCHANGED result
  /\ UNCHANGED <<slot, closed, code, permit, wire, released, active, half,
                 lease, controlVars>>

\* Third step: the handle is taken out of the slot.
TakeSlot(o) ==
  /\ OpAt(o, "slot")
  /\ slot' = [slot EXCEPT ![half[o]] = FALSE]
  /\ lease' = [lease EXCEPT ![o] = slot[half[o]]]
  /\ OpGoes(o, IF slot[half[o]] THEN "select" ELSE "unavailable")
  /\ UNCHANGED <<busy, closed, code, permit, wire, released, active, half,
                 result, controlVars>>

\* No handle in the slot: busy is cleared and the caller told "closed".
TakeUnavailable(o) ==
  /\ OpAt(o, "unavailable")
  /\ busy' = [busy EXCEPT ![half[o]] = FALSE]
  /\ OpEnds(o, "closed")
  /\ UNCHANGED <<slot, closed, code, permit, wire, released, active, half,
                 lease, controlVars>>

\* The future ends: its I/O succeeds or fails, or the operation is cancelled
\* and the future dropped at its await.  Which of them makes no difference to
\* the stream.
IoEnds(o) ==
  /\ OpAt(o, "select")
  /\ result' = [result EXCEPT ![o] = "ended"]
  /\ OpGoes(o, "drop")
  /\ UNCHANGED <<halfVars, released, active, half, lease, controlVars>>

\* select! takes the branch of reset_notify or stop_notify ...
Notified(o) ==
  /\ OpAt(o, "select")
  /\ permit[half[o]]
  /\ permit' = [permit EXCEPT ![half[o]] = FALSE]
  /\ OpGoes(o, "abort")
  /\ UNCHANGED <<slot, busy, closed, code, wire, released, active, half,
                 lease, result, controlVars>>

\* ... then loads the code and aborts the half with it.  NO_ABORT is no QUIC
\* code and would be ignored.
ApplyAbort(o) ==
  LET h == half[o] IN
  /\ OpAt(o, "abort")
  /\ wire' = IF code[h] = NoCode THEN wire ELSE [wire EXCEPT ![h] = code[h]]
  /\ result' = [result EXCEPT ![o] = "peer_aborted"]
  /\ OpGoes(o, "drop")
  /\ UNCHANGED <<slot, busy, closed, code, permit, released, active, half,
                 lease, controlVars>>

\* The lease's destructor, first step: busy is cleared.
DropBusy(o) ==
  /\ OpAt(o, "drop")
  /\ busy' = [busy EXCEPT ![half[o]] = FALSE]
  /\ OpGoes(o, "dropping")
  /\ UNCHANGED <<slot, closed, code, permit, wire, released, active, half,
                 lease, result, controlVars>>

\* What the library makes of a handle dropped without finish, reset or stop.
Dropped(fate) == IF fate = "open" THEN "discarded" ELSE fate

\* Mutant: the handle is dropped with the lease, whether the half is closed or not.
DropAlways(o) ==
  /\ OpAt(o, "dropping")
  /\ lease' = [lease EXCEPT ![o] = FALSE]
  /\ wire' = [wire EXCEPT ![half[o]] = Dropped(wire[half[o]])]
  /\ OpGoes(o, "done")
  /\ UNCHANGED <<slot, busy, closed, code, permit, released, active, half,
                 result, controlVars>>

\* Second step: the closed flag; the handle of a closed half is dropped.
DropCheck(o) ==
  LET h == half[o] IN
  /\ OpAt(o, "dropping")
  /\ \/ /\ closed[h]
        /\ lease' = [lease EXCEPT ![o] = FALSE]
        /\ wire' = [wire EXCEPT ![h] = Dropped(wire[h])]
        /\ OpGoes(o, "done")
     \/ /\ ~closed[h]
        /\ OpGoes(o, "restore")
        /\ UNCHANGED <<lease, wire>>
  /\ UNCHANGED <<slot, busy, closed, code, permit, released, active, half,
                 result, controlVars>>

\* Third step: the handle of a half seen open goes back to its slot.
DropRestore(o) ==
  /\ OpAt(o, "restore")
  /\ slot' = [slot EXCEPT ![half[o]] = TRUE]
  /\ lease' = [lease EXCEPT ![o] = FALSE]
  /\ OpGoes(o, "done")
  /\ UNCHANGED <<busy, closed, code, permit, wire, released, active, half,
                 result, controlVars>>
------------------------------------------------------------------------------
(* Control calls *)

ControlAt(c, from) == cpc[c] = from
ControlGoes(c, to) == cpc' = [cpc EXCEPT ![c] = to]

\* stream_finish starts with the busy flag, reset and abort with the send half,
\* stop with the receive half, close with the released flag.
FirstStep == [finish |-> "busy?", reset |-> "store", stop |-> "store",
              abort |-> "store", close |-> "swap"]

Call(c) ==
  /\ ControlAt(c, "idle")
  /\ ControlGoes(c, FirstStep[call[c]])
  /\ chalf' = [chalf EXCEPT ![c] = IF call[c] = "stop" THEN "recv" ELSE "send"]
  /\ UNCHANGED <<halfVars, released, active, opVars, call, ccode, closing,
                 answer>>

\* stream_finish: an operation in progress makes it fail ...
FinishBusy(c) ==
  /\ ControlAt(c, "busy?")
  /\ \/ /\ busy["send"]
        /\ answer' = [answer EXCEPT ![c] = "busy"]
        /\ ControlGoes(c, "done")
     \/ /\ ~busy["send"]
        /\ ControlGoes(c, "close_send")
        /\ UNCHANGED answer
  /\ UNCHANGED <<halfVars, released, active, opVars, call, chalf, ccode,
                 closing>>

FinishClose(c) ==
  /\ ControlAt(c, "close_send")
  /\ closed' = [closed EXCEPT !["send"] = TRUE]
  /\ ControlGoes(c, "finish")
  /\ UNCHANGED <<slot, busy, code, permit, wire, released, active, opVars,
                 call, chalf, ccode, closing, answer>>

\* Mutant: the finished handle stays in its slot.
FinishInPlace(c) ==
  /\ ControlAt(c, "finish")
  /\ wire' = IF slot["send"] THEN [wire EXCEPT !["send"] = "finished"] ELSE wire
  /\ answer' = [answer EXCEPT ![c] = IF slot["send"] THEN "ok" ELSE "closed"]
  /\ ControlGoes(c, "done")
  /\ UNCHANGED <<slot, busy, closed, code, permit, released, active, opVars,
                 call, chalf, ccode, closing>>

\* ... otherwise the handle is taken and finished, or the half is "closed".
Finish(c) ==
  /\ ControlAt(c, "finish")
  /\ slot' = [slot EXCEPT !["send"] = FALSE]
  /\ wire' = IF slot["send"] THEN [wire EXCEPT !["send"] = "finished"] ELSE wire
  /\ answer' = [answer EXCEPT ![c] = IF slot["send"] THEN "ok" ELSE "closed"]
  /\ ControlGoes(c, "done")
  /\ UNCHANGED <<busy, closed, code, permit, released, active, opVars, call,
                 chalf, ccode, closing>>

\* request_reset and request_stop: the code is stored, ...
RequestStore(c) ==
  /\ ControlAt(c, "store")
  /\ code' = [code EXCEPT ![chalf[c]] = ccode[c]]
  /\ ControlGoes(c, "close")
  /\ UNCHANGED <<slot, busy, closed, permit, wire, released, active, opVars,
                 call, chalf, ccode, closing, answer>>

\* ... the half marked closed, ...
RequestClose(c) ==
  /\ ControlAt(c, "close")
  /\ closed' = [closed EXCEPT ![chalf[c]] = TRUE]
  /\ ControlGoes(c, "notify")
  /\ UNCHANGED <<slot, busy, code, permit, wire, released, active, opVars,
                 call, chalf, ccode, closing, answer>>

\* Mutant: notify_waiters, which wakes only an operation already in its select!.
RequestNotifyWaiters(c) ==
  /\ ControlAt(c, "notify")
  /\ permit' = [permit EXCEPT ![chalf[c]] =
                  \E o \in Ops : half[o] = chalf[c] /\ opc[o] = "select"]
  /\ ControlGoes(c, "take")
  /\ UNCHANGED <<slot, busy, closed, code, wire, released, active, opVars,
                 call, chalf, ccode, closing, answer>>

\* ... an operation woken or a permit left for it, ...
RequestNotify(c) ==
  /\ ControlAt(c, "notify")
  /\ permit' = [permit EXCEPT ![chalf[c]] = TRUE]
  /\ ControlGoes(c, "take")
  /\ UNCHANGED <<slot, busy, closed, code, wire, released, active, opVars,
                 call, chalf, ccode, closing, answer>>

\* What follows a request: abort and close treat both halves, abort then
\* closes, close then uncounts the stream.
AfterRequest(c) ==
  CASE chalf[c] = "send" /\ call[c] \in {"abort", "close"} -> "store"
    [] chalf[c] = "recv" /\ closing[c] -> "uncount"
    [] chalf[c] = "recv" /\ call[c] = "abort" /\ ~closing[c] -> "swap"
    [] OTHER -> "done"

\* ... and a handle found in the slot taken and aborted.
RequestTake(c) ==
  LET h == chalf[c] IN
  /\ ControlAt(c, "take")
  /\ slot' = [slot EXCEPT ![h] = FALSE]
  /\ wire' = IF slot[h] THEN [wire EXCEPT ![h] = ccode[c]] ELSE wire
  /\ ControlGoes(c, AfterRequest(c))
  /\ chalf' = [chalf EXCEPT ![c] = "recv"]
  /\ answer' = IF AfterRequest(c) = "done" THEN [answer EXCEPT ![c] = "ok"]
               ELSE answer
  /\ UNCHANGED <<busy, closed, code, permit, released, active, opVars, call,
                 ccode, closing>>

\* Mutant: released is not tested.
CloseAlways(c) ==
  /\ ControlAt(c, "swap")
  /\ released' = TRUE
  /\ closing' = [closing EXCEPT ![c] = TRUE]
  /\ chalf' = [chalf EXCEPT ![c] = "send"]
  /\ ccode' = [ccode EXCEPT ![c] = Zero]
  /\ ControlGoes(c, "store")
  /\ UNCHANGED <<halfVars, active, opVars, call, answer>>

\* close: the first to swap released aborts both halves with code zero.
CloseSwap(c) ==
  /\ ControlAt(c, "swap")
  /\ released' = TRUE
  /\ \/ /\ released
        /\ ControlGoes(c, "done")
        /\ answer' = [answer EXCEPT ![c] = "ok"]
        /\ UNCHANGED <<closing, chalf, ccode>>
     \/ /\ ~released
        /\ closing' = [closing EXCEPT ![c] = TRUE]
        /\ chalf' = [chalf EXCEPT ![c] = "send"]
        /\ ccode' = [ccode EXCEPT ![c] = Zero]
        /\ ControlGoes(c, "store")
        /\ UNCHANGED answer
  /\ UNCHANGED <<halfVars, active, opVars, call>>

CloseUncount(c) ==
  /\ ControlAt(c, "uncount")
  /\ active' = active - 1
  /\ ControlGoes(c, "done")
  /\ answer' = [answer EXCEPT ![c] = "ok"]
  /\ UNCHANGED <<halfVars, released, opVars, call, chalf, ccode, closing>>
------------------------------------------------------------------------------
\* The steps an operation takes by itself, in whatever state the peer is.
OpStep(o) ==
  \/ TakeBusy(o) \/ TakeSlot(o) \/ TakeUnavailable(o)
  \/ Notified(o) \/ ApplyAbort(o)
  \/ DropBusy(o) \/ DropCheck(o) \/ DropRestore(o)

ControlStep(c) ==
  \/ FinishBusy(c) \/ FinishClose(c) \/ Finish(c)
  \/ RequestStore(c) \/ RequestClose(c) \/ RequestNotify(c) \/ RequestTake(c)
  \/ CloseSwap(c) \/ CloseUncount(c)

Next ==
  \/ \E o \in Ops : TakeCheck(o) \/ OpStep(o) \/ IoEnds(o)
  \/ \E c \in Controls : Call(c) \/ ControlStep(c)

Spec == Init /\ [][Next]_vars
------------------------------------------------------------------------------
(* Properties *)

Holds(o) == opc[o] \in {"slot", "unavailable", "select", "abort", "drop"}
Holders(h) == {o \in Ops : half[o] = h /\ Holds(o)}
Leases(h) == {o \in Ops : half[o] = h /\ lease[o]}
Ended(h) == wire[h] \in {"finished", "discarded"} \cup Codes

\* Where leases exist, and that only a lease that has just aborted its half
\* holds the handle of an ended one.
LeaseInv ==
  \A o \in Ops :
    /\ lease[o] <=> opc[o] \in {"select", "abort", "drop", "dropping", "restore"}
    /\ lease[o] => wire[half[o]] = "open" \/
                   (opc[o] \in {"drop", "dropping"} /\ Ended(half[o])
                     /\ closed[half[o]])
    /\ opc[o] = "abort" => closed[half[o]] /\ code[half[o]] # NoCode

\* A request marks its half closed, with a code, before it wakes anyone.
RequestInv ==
  /\ \A h \in Halves : slot[h] => wire[h] = "open"
  /\ \A h \in Halves : permit[h] => closed[h] /\ code[h] # NoCode
  /\ \A c \in Controls :
       /\ cpc[c] \in {"notify", "take"} => closed[chalf[c]]
       /\ cpc[c] \in {"close", "notify", "take"} => code[chalf[c]] # NoCode

\* busy has one owner: it is set exactly while one operation of the half is
\* between its compare-and-exchange and the first step of its lease's drop.
BusyHasOneOwner ==
  \A h \in Halves :
    /\ \A o, p \in Holders(h) : o = p
    /\ busy[h] <=> Holders(h) # {}

\* The handle of a half is never lost or duplicated.  It is in the slot or in one
\* lease, never in both, never in two; as long as nobody has asked to close the
\* half, no operation, failed, cancelled or complete, drops the handle, which would
\* finish or stop the half behind the caller's back.
HandleIsLinear ==
  \A h \in Halves :
    /\ \A o, p \in Leases(h) : o = p
    /\ ~(slot[h] /\ Leases(h) # {})
    /\ wire[h] = "open" => slot[h] \/ Leases(h) # {}
    /\ wire[h] = "discarded" => closed[h]

\* A half that has been finished, reset or stopped is never offered again: its
\* handle is not in the slot, and an operation that still leases it is on its
\* way to drop it.
EndedHalfNotReused ==
  \A h \in Halves : Ended(h) =>
    /\ ~slot[h]
    /\ \A o \in Leases(h) : opc[o] \in {"drop", "dropping"} /\ closed[h]

\* The first word on a half is final: no race of finish, reset, stop, abort
\* and operations announces a second end, or another code, to the peer.
EndIsFinal ==
  [][\A h \in Halves : Ended(h) => wire'[h] = wire[h]]_vars

\* The stream leaves ACTIVE_STREAMS once, however many of abort, the owner's
\* death and the destructor close it.
ReleasedOnce ==
  /\ active = 1 <=> ~released \/ \E c \in Controls :
                                  closing[c] /\ cpc[c] # "done"
  /\ \A c, d \in Controls : closing[c] /\ closing[d] => c = d
  /\ \A c \in Controls : closing[c] => released

\* Only abort and close get inside close(), and only through the swap.
ClosingInv ==
  \A c \in Controls :
    /\ closing[c] => /\ call[c] \in {"abort", "close"}
                     /\ cpc[c] \in {"store", "close", "notify", "take",
                                    "uncount", "done"}
    /\ cpc[c] = "swap" => call[c] \in {"abort", "close"}
    /\ cpc[c] = "uncount" => closing[c]

\* The inductive invariant of a stream's slots, leases, requests and release.
StreamInv ==
  /\ LeaseInv /\ RequestInv /\ BusyHasOneOwner /\ HandleIsLinear
  /\ ClosingInv /\ ReleasedOnce

\* reset, stop, abort and close interrupt an operation that is blocked in its
\* I/O, wherever the request meets it: whoever is in the select! of a half with
\* a requested code has a permit to wake it, or a request that is about to
\* leave one.  A wake-up is never lost.
NoLostWakeup ==
  \A o \in Ops :
    opc[o] = "select" /\ code[half[o]] # NoCode =>
      \/ permit[half[o]]
      \/ \E c \in Controls : /\ chalf[c] = half[o]
                             /\ cpc[c] \in {"close", "notify"}

Quiet == /\ \A o \in Ops : opc[o] \in {"idle", "done"}
         /\ \A c \in Controls : cpc[c] \in {"idle", "done"}

\* What the documentation says of reset: once it has returned and nothing is
\* in progress, the send half was abandoned with a QUIC code (unless finished).
ResetReachesPeer ==
  \A c \in Controls :
    Quiet /\ call[c] = "reset" /\ cpc[c] = "done" /\ wire["send"] # "absent"
      => wire["send"] \in Codes \cup {"finished"}
==============================================================================
