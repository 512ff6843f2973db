------------------------------ MODULE DistFrames ------------------------------
(***************************************************************************)
(* One direction of a distribution link: the controller's output side,     *)
(* which puts a length in front of each frame and writes both to the       *)
(* stream, and the peer's input process, which cuts the bytes it receives, *)
(* in chunks of any size, into frames again.                               *)
(*                                                                         *)
(* A byte is <<i, k>>, the k-th byte of the i-th frame with its header.    *)
(* The two nodes may be configured with different limits, and a write may  *)
(* fail or time out in the middle of a frame.  parser_feed's recursion is  *)
(* one step per clause; it works on local data only.                       *)
(***************************************************************************)
EXTENDS Integers, Sequences

CONSTANTS
  HeaderSize,    \* bytes of a length
  MaxSend,       \* the sender's max_frame
  MaxReceive,    \* the receiver's max_frame
  ReceiveChunk,  \* the receiver's receive_chunk
  WriteChunk,    \* bytes written at once by start_stream_send
  NifLimit,      \* the largest max_bytes of stream_send_iodata_start
  MaxLength,     \* the largest frame ERTS hands over
  MaxFrames      \* bound on the frames sent

ASSUME FramesAssumption ==
  /\ {HeaderSize, MaxSend, MaxReceive, ReceiveChunk, WriteChunk}
       \subseteq Nat \ {0}
  /\ MaxLength \in Nat /\ MaxFrames \in Nat
  /\ NifLimit \in Nat /\ MaxSend + HeaderSize <= NifLimit

VARIABLES
  output,     \* the controller: "ready", "writing", "refused", "exited"
  frames,     \* the lengths of the frames handed to send_packet
  written,    \* how much of the last one has been written
  wire,       \* bytes written and not received
  input,      \* the input process: "recv", "feed", "put", "exited"
  data,       \* what is left of the chunk given to parser_feed
  parser,     \* the parser between two clauses
  packets,    \* the packets of this chunk that ERTS has not got
  delivered   \* the packets ERTS got

outputVars == <<output, frames, written>>
inputVars == <<input, data, parser, packets, delivered>>
vars == <<outputVars, wire, inputVars>>

Bytes(i, from, to) == [k \in 1..(to - from + 1) |-> <<i, from + k - 1>>]

\* The body of the i-th frame.
Packet(i) == Bytes(i, HeaderSize + 1, HeaderSize + frames[i])

\* The bytes of the first frames.
Place == (1..MaxFrames) \X Nat

\* Every variable has its type.
TypeOK ==
  /\ output \in {"ready", "writing", "refused", "exited"}
  /\ frames \in Seq(Nat) /\ Len(frames) <= MaxFrames
  /\ written \in Nat
  /\ input \in {"recv", "feed", "put", "exited"}
  /\ wire \in Seq(Place) /\ data \in Seq(Place)
  /\ parser \in [at : {"header"}, header : Seq(Place)]
                \cup [at : {"body"}, length : Nat, body : Seq(Place)]
  /\ packets \in Seq(Seq(Place)) /\ delivered \in Seq(Seq(Place))

\* parser_new
NewParser == [at |-> "header", header |-> <<>>]

Init ==
  /\ output = "ready" /\ frames = <<>> /\ written = 0
  /\ wire = <<>>
  /\ input = "recv" /\ data = <<>> /\ parser = NewParser
  /\ packets = <<>> /\ delivered = <<>>
------------------------------------------------------------------------------
(* The controller's output side *)

\* Mutant: the limit passed on leaves no room for the header.
NifAcceptsBodyOnly(expected, max) ==
  expected # 0 /\ expected <= max - HeaderSize /\ max <= NifLimit

\* stream_send_iodata_start's bounds on the declared size.
NifAccepts(expected, max) ==
  expected # 0 /\ expected <= max /\ max # 0 /\ max <= NifLimit

\* send_packet starts to send a frame of this length, if the NIF accepts it.
SendPacket(length) ==
  \/ /\ NifAccepts(length + HeaderSize, MaxSend + HeaderSize)
     /\ frames' = Append(frames, length) /\ written' = 0
     /\ output' = "writing"
  \/ /\ ~NifAccepts(length + HeaderSize, MaxSend + HeaderSize)
     /\ output' = "refused" /\ UNCHANGED <<frames, written>>

\* output_data: dist_ctrl_get_data has a frame; one that is too large ends the
\* link.
OutputData(length) ==
  /\ output = "ready" /\ Len(frames) < MaxFrames
  /\ \/ length <= MaxSend /\ SendPacket(length)
     \/ length > MaxSend /\ output' = "exited" /\ UNCHANGED <<frames, written>>
  /\ UNCHANGED <<wire, inputVars>>

\* dist_tick: an empty frame.
Tick ==
  /\ output = "ready" /\ Len(frames) < MaxFrames
  /\ SendPacket(0)
  /\ UNCHANGED <<wire, inputVars>>

\* start_stream_send with send_all: header and body are written chunk by chunk.
WriteAll ==
  LET i == Len(frames)
      total == HeaderSize + frames[i]
      end == IF written + WriteChunk < total THEN written + WriteChunk ELSE total IN
  /\ output = "writing"
  /\ wire' = wire \o Bytes(i, written + 1, end)
  /\ written' = end
  /\ output' = IF end = total THEN "ready" ELSE "writing"
  /\ UNCHANGED <<frames, inputVars>>

\* The send fails or times out, perhaps within a frame: `ok = send_packet(...)`
\* does not match and the controller exits.
SendFails ==
  /\ output = "writing"
  /\ output' = "exited"
  /\ UNCHANGED <<frames, written, wire, inputVars>>
------------------------------------------------------------------------------
(* The peer's input process *)

\* IO:recv returns one to receive_chunk bytes, as many as have arrived.
Receive(n) ==
  /\ input = "recv" /\ n <= Len(wire)
  /\ data' = SubSeq(wire, 1, n)
  /\ wire' = SubSeq(wire, n + 1, Len(wire))
  /\ input' = "feed"
  /\ UNCHANGED <<outputVars, parser, packets, delivered>>

\* The stream ends, is reset or fails.
ReceiveFails ==
  /\ input = "recv" /\ output = "exited"
  /\ input' = "exited"
  /\ UNCHANGED <<outputVars, wire, data, parser, packets, delivered>>

\* <<Length:32>> of a complete header; bytes that are no header give a length
\* that says nothing.
Length(header) ==
  LET i == header[1][1] IN
  IF header = Bytes(i, 1, HeaderSize) THEN frames[i] ELSE 0

Feeding(at) == input = "feed" /\ parser.at = at

\* The chunk ends within a header.
FeedHeaderPart ==
  /\ Feeding("header")
  /\ Len(data) < HeaderSize - Len(parser.header)
  /\ parser' = [parser EXCEPT !.header = @ \o data]
  /\ data' = <<>>
  /\ input' = "put"
  /\ UNCHANGED <<outputVars, wire, packets, delivered>>

\* Mutant: the length is not checked.
FeedHeaderUnchecked ==
  LET need == HeaderSize - Len(parser.header)
      header == parser.header \o SubSeq(data, 1, need) IN
  /\ Feeding("header") /\ Len(data) >= need
  /\ data' = SubSeq(data, need + 1, Len(data))
  /\ parser' = [at |-> "body", length |-> Length(header), body |-> <<>>]
  /\ UNCHANGED <<outputVars, wire, input, packets, delivered>>

\* A header is complete; a length above max_frame ends the link, and with it
\* the packets of this chunk.
FeedHeader ==
  LET need == HeaderSize - Len(parser.header)
      header == parser.header \o SubSeq(data, 1, need) IN
  /\ Feeding("header") /\ Len(data) >= need
  /\ \/ /\ Length(header) <= MaxReceive
        /\ data' = SubSeq(data, need + 1, Len(data))
        /\ parser' = [at |-> "body", length |-> Length(header), body |-> <<>>]
        /\ UNCHANGED <<input, packets>>
     \/ /\ Length(header) > MaxReceive
        /\ input' = "exited" /\ packets' = <<>>
        /\ UNCHANGED <<data, parser>>
  /\ UNCHANGED <<outputVars, wire, delivered>>

\* Mutant: a body that the chunk completes exactly waits for the next chunk.
BodyShortOrExact == Len(data) <= parser.length - Len(parser.body)

\* The chunk ends before the body does.
BodyShort == Len(data) < parser.length - Len(parser.body)

FeedBodyPart ==
  /\ Feeding("body") /\ BodyShort
  /\ parser' = [parser EXCEPT !.body = @ \o data]
  /\ data' = <<>>
  /\ input' = "put"
  /\ UNCHANGED <<outputVars, wire, packets, delivered>>

\* Mutant: the packets are collected in front and never reversed.
FeedBodyUnreversed ==
  LET remaining == parser.length - Len(parser.body) IN
  /\ Feeding("body") /\ ~BodyShort
  /\ packets' = <<parser.body \o SubSeq(data, 1, remaining)>> \o packets
  /\ data' = SubSeq(data, remaining + 1, Len(data))
  /\ parser' = NewParser
  /\ UNCHANGED <<outputVars, wire, input, delivered>>

\* A body is complete, at once if it is empty.
FeedBody ==
  LET remaining == parser.length - Len(parser.body) IN
  /\ Feeding("body") /\ ~BodyShort
  /\ packets' = Append(packets, parser.body \o SubSeq(data, 1, remaining))
  /\ data' = SubSeq(data, remaining + 1, Len(data))
  /\ parser' = NewParser
  /\ UNCHANGED <<outputVars, wire, input, delivered>>

\* input_loop: dist_ctrl_put_data for each packet, then the next receive.
PutData ==
  /\ input = "put"
  /\ \/ /\ packets # <<>>
        /\ delivered' = Append(delivered, Head(packets))
        /\ packets' = Tail(packets) /\ UNCHANGED input
     \/ /\ packets = <<>>
        /\ input' = "recv" /\ UNCHANGED <<packets, delivered>>
  /\ UNCHANGED <<outputVars, wire, data, parser>>

\* The input process, or the connection, dies.
InputDies ==
  /\ input # "exited"
  /\ input' = "exited"
  /\ UNCHANGED <<outputVars, wire, data, parser, packets, delivered>>

Next ==
  \/ \E length \in 0..MaxLength : OutputData(length)
  \/ Tick \/ WriteAll \/ SendFails
  \/ \E n \in 1..ReceiveChunk : Receive(n)
  \/ FeedHeaderPart \/ FeedHeader \/ FeedBodyPart \/ FeedBody
  \/ PutData \/ ReceiveFails \/ InputDies

Spec == Init /\ [][Next]_vars
------------------------------------------------------------------------------
(* Properties *)

\* However the stream cuts the bytes, and wherever a write fails, ERTS gets the
\* frames its peer's ERTS handed over: whole, in order, none twice, and none
\* made of the bytes of two.
Channel == INSTANCE FrameChannel
             WITH sent <- [i \in 1..Len(frames) |-> Packet(i)],
                  delivered <- delivered
ImplementsChannel == Channel!Spec

\* A peer with a larger limit cannot make the receiver buffer more than its own
\* max_frame of one frame, besides a partial header.
BufferBounded ==
  \/ parser.at = "header" /\ Len(parser.header) < HeaderSize
  \/ parser.at = "body" /\ Len(parser.body) <= MaxReceive
                        /\ parser.length <= MaxReceive

\* The bytes of each frame with its header; before the first frame there is an
\* imagined one of one byte.
Total == [i \in 0..Len(frames) |-> IF i = 0 THEN 1 ELSE HeaderSize + frames[i]]

\* The byte before the (k+1)-th of frame n, for frames of these sizes.
Before(total, n, k) == IF k > 0 THEN <<n, k>> ELSE <<n - 1, total[n - 1]>>

\* The last byte written.
LastWritten ==
  IF frames = <<>> THEN <<0, 1>> ELSE Before(Total, Len(frames), written)

\* How many packets the parser has completed, how much of the next frame it was
\* fed, and so the last byte it was fed.
Parsed == Len(delivered) + Len(packets)
Fed == IF parser.at = "body" THEN HeaderSize + Len(parser.body)
       ELSE Len(parser.header)
LastFed == Before(Total, Parsed + 1, Fed)

\* The last byte the parser was fed, and those ahead of it, in the chunk and on
\* the wire.
Ahead == Len(data) + Len(wire)
Stretch ==
  [j \in 0..Ahead |-> IF j = 0 THEN LastFed
                      ELSE IF j <= Len(data) THEN data[j] ELSE wire[j - Len(data)]]

\* Byte b is d places after byte a: further on in the same frame, or in a later
\* one when a's own has ended.
Apart(total, a, b, d) ==
  \/ a[1] = b[1] /\ b[2] - a[2] = d
  \/ a[1] < b[1] /\ d >= (total[a[1]] - a[2]) + b[2] + (b[1] - a[1] - 1)

\* The bytes s[0] to s[n] belong to m frames of these sizes and follow each other
\* without a gap: every two are as far apart in s as they are in the frames.
Linked(total, m, s, n) ==
  /\ \A j \in 0..n : s[j] \in (0..m) \X Nat /\ s[j][2] \in 1..total[s[j][1]]
  /\ \A j \in 0..n, k \in 0..n : j < k => Apart(total, s[j], s[k], k - j)

\* The sender is within a frame while it writes, and between two when it is ready.
WriterInv ==
  /\ written <= Total[Len(frames)]
  /\ output = "writing" => frames # <<>> /\ written < Total[Len(frames)]
  /\ output = "ready" => LastWritten = <<Len(frames), Total[Len(frames)]>>

\* Between two receives the chunk is used up, its packets are on their way, and
\* the parser waits for a byte.
ChunkInv ==
  /\ input \in {"recv", "put"} =>
       /\ data = <<>>
       /\ parser.at = "body" => Len(parser.body) < parser.length
  /\ input = "recv" => packets = <<>>

\* Every packet is one frame of the sender, in order, and the parser holds the
\* first bytes of the next.
PacketInv ==
  input # "exited" =>
    /\ Parsed <= Len(frames)
    /\ \A j \in 1..Len(packets) : packets[j] = Packet(Len(delivered) + j)
    /\ parser.at = "header" =>
         \A k \in 1..Len(parser.header) : parser.header[k] = <<Parsed + 1, k>>
    /\ parser.at = "body" =>
         /\ Parsed < Len(frames) /\ parser.length = frames[Parsed + 1]
         /\ Len(parser.body) <= parser.length
         /\ \A k \in 1..Len(parser.body) :
              parser.body[k] = <<Parsed + 1, HeaderSize + k>>

\* The bytes on their way are those between the last one that the parser has
\* and the last one written: none lost, none twice, none out of place.
ByteInv ==
  input # "exited" =>
    Linked(Total, Len(frames), Stretch, Ahead) /\ Stretch[Ahead] = LastWritten

\* The invariant of the link: the parser's state has one of its two shapes and
\* holds no more than the receiver's own limit allows, and all bytes are where
\* they belong.
ParserInv ==
  TypeOK /\ BufferBounded /\ WriterInv /\ ChunkInv /\ PacketInv /\ ByteInv

\* The limits of the layers agree: a frame that output_data admits, with its
\* header, is never refused by the NIF, at the limit and for an empty tick too.
AdmittedFrameIsSent == output # "refused"

\* No frame is held back: when everything written has been received and fed,
\* every frame completely written has been delivered, also one that ends with
\* its chunk and an empty one, without waiting for more bytes.
NoFrameHeldBack ==
  output = "ready" /\ input = "recv" /\ wire = <<>> =>
    Len(delivered) = Len(frames)
==============================================================================
