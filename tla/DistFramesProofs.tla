-------------------------- MODULE DistFramesProofs --------------------------
(***************************************************************************)
(* Proofs, for any limits, chunk sizes and frames, that the bytes of a     *)
(* link stay in their places, that the parser cuts them into the frames    *)
(* the peer sent, and that no frame is refused or held back.               *)
(***************************************************************************)
EXTENDS DistFrames, SequenceTheorems, TLAPS

(* Bytes that follow each other *)

\* A byte is a frame and a position.
LEMMA ByteIsPair ==
  ASSUME NEW m \in Nat, NEW q \in (0..m) \X Nat
  PROVE  \E a \in 0..m, b \in Nat : q = <<a, b>>
<1>1. q = <<q[1], q[2]>> /\ q[1] \in 0..m /\ q[2] \in Nat
  OBVIOUS
<1> QED BY <1>1, Zenon

\* What is left of a stretch when the first d bytes have been taken.
LEMMA LinkedSuffix ==
  ASSUME NEW total, NEW m \in Nat, total \in [0..m -> Nat \ {0}],
         NEW s, NEW n \in Nat, Linked(total, m, s, n),
         NEW d \in 0..n, NEW t, \A j \in 0..(n - d) : t[j] = s[j + d]
  PROVE  Linked(total, m, t, n - d)
<1>1. \A j \in 0..(n - d) : j + d \in 0..n
  OBVIOUS
<1>2. ASSUME NEW j \in 0..(n - d)
      PROVE  t[j] \in (0..m) \X Nat /\ t[j][2] \in 1..total[t[j][1]]
  BY <1>1 DEF Linked
<1>3. ASSUME NEW j \in 0..(n - d), NEW k \in 0..(n - d), j < k
      PROVE  Apart(total, t[j], t[k], k - j)
  <2>1. j + d \in 0..n /\ k + d \in 0..n /\ j + d < k + d
    BY <1>3
  <2>2. (k + d) - (j + d) = k - j
    OBVIOUS
  <2>3. Apart(total, s[j + d], s[k + d], (k + d) - (j + d))
    BY <2>1 DEF Linked
  <2> QED BY <2>2, <2>3
<1> QED BY <1>2, <1>3 DEF Linked

\* A new frame changes nothing for the bytes of the others.
LEMMA LinkedMoreFrames ==
  ASSUME NEW total, NEW m \in Nat, total \in [0..m -> Nat \ {0}],
         NEW s, NEW n \in Nat, Linked(total, m, s, n),
         NEW more, \A i \in 0..m : more[i] = total[i]
  PROVE  Linked(more, m + 1, s, n)
<1>1. ASSUME NEW j \in 0..n
      PROVE  /\ s[j] \in (0..m) \X Nat /\ s[j][1] \in 0..m
             /\ s[j] \in (0..(m + 1)) \X Nat /\ s[j][2] \in 1..more[s[j][1]]
  <2>1. s[j] \in (0..m) \X Nat /\ s[j][2] \in 1..total[s[j][1]]
    BY DEF Linked
  <2>2. s[j][1] \in 0..m
    BY <2>1
  <2>3. 0..m \subseteq 0..(m + 1)
    OBVIOUS
  <2> QED BY <2>1, <2>2, <2>3
<1>2. ASSUME NEW j \in 0..n, NEW k \in 0..n, j < k
      PROVE  Apart(more, s[j], s[k], k - j)
  <2>1. Apart(total, s[j], s[k], k - j)
    BY <1>2 DEF Linked
  <2> QED BY <1>1, <2>1 DEF Apart
<1> QED BY <1>1, <1>2 DEF Linked

\* The bytes of the last frame that are written next follow.
LEMMA LinkedMoreBytes ==
  ASSUME NEW total, NEW m \in Nat \ {0}, total \in [0..m -> Nat \ {0}],
         NEW s, NEW n \in Nat, Linked(total, m, s, n),
         NEW w \in Nat, NEW e \in Nat, w + e <= total[m],
         s[n] = Before(total, m, w),
         NEW t, \A j \in 0..n : t[j] = s[j],
         \A x \in 1..e : t[n + x] = <<m, w + x>>
  PROVE  Linked(total, m, t, n + e)
<1>1. ASSUME NEW j \in 0..(n + e)
      PROVE  t[j] \in (0..m) \X Nat /\ t[j][2] \in 1..total[t[j][1]]
  <2>1. CASE j \in 0..n
    BY <2>1 DEF Linked
  <2>2. CASE j \notin 0..n
    <3> DEFINE x == j - n
    <3>1. x \in 1..e /\ j = n + x
      BY <2>2
    <3>2. t[j] = <<m, w + x>>
      BY <3>1
    <3>3. w + x \in 1..total[m] /\ m \in 0..m /\ w + x \in Nat
      BY <3>1
    <3> QED BY <3>2, <3>3
  <2> QED BY <2>1, <2>2
<1>2. ASSUME NEW j \in 0..n, NEW x \in 1..e
      PROVE  Apart(total, s[j], <<m, w + x>>, (n + x) - j)
  <2>0. s[j] \in (0..m) \X Nat /\ s[j][2] \in 1..total[s[j][1]]
    BY DEF Linked
  <2>1. PICK a \in 0..m, b \in Nat : s[j] = <<a, b>>
    BY <2>0, ByteIsPair
  <2>a. total[a] \in Nat /\ b \in 1..total[a]
    BY <2>0, <2>1
  <2>2. j = n \/ (j < n /\ Apart(total, <<a, b>>, s[n], n - j))
    <3>1. CASE j = n
      BY <3>1
    <3>2. CASE j # n
      <4>1. j \in 0..n /\ n \in 0..n /\ j < n
        BY <3>2
      <4>2. Apart(total, s[j], s[n], n - j)
        BY <4>1 DEF Linked
      <4> QED BY <2>1, <4>1, <4>2
    <3> QED BY <3>1, <3>2
  <2>3. CASE w > 0
    <3>1. s[n] = <<m, w>>
      BY <2>3 DEF Before
    <3>2. CASE j = n
      BY <3>1, <3>2 DEF Apart
    <3>3. CASE j < n /\ Apart(total, <<a, b>>, <<m, w>>, n - j)
      <4>1. \/ a = m /\ w - b = n - j
            \/ a < m /\ n - j >= (total[a] - b) + w + (m - a - 1)
        BY <3>3 DEF Apart
      <4>2. \/ a = m /\ (w + x) - b = (n + x) - j
            \/ a < m /\ (n + x) - j >= (total[a] - b) + (w + x) + (m - a - 1)
        BY <2>a, <4>1
      <4> QED BY <2>1, <4>2 DEF Apart
    <3> QED BY <2>2, <3>1, <3>2, <3>3
  <2>4. CASE w = 0
    <3>1. s[n] = <<m - 1, total[m - 1]>> /\ total[m - 1] \in Nat \ {0}
      BY <2>4 DEF Before
    <3>2. CASE j = n
      <4>1. s[j][1] = m - 1 /\ s[j][2] = total[m - 1]
        BY <3>1, <3>2
      <4>2. /\ m - 1 < m
            /\ (n + x) - j >= (total[m - 1] - total[m - 1]) + (w + x) + (m - (m - 1) - 1)
        BY <2>4, <3>1, <3>2
      <4> QED BY <4>1, <4>2 DEF Apart
    <3>3. CASE j < n /\ Apart(total, <<a, b>>, s[n], n - j)
      <4>1. \/ a = m - 1 /\ total[m - 1] - b = n - j
            \/ a < m - 1 /\ n - j >= (total[a] - b) + total[m - 1] + ((m - 1) - a - 1)
        BY <3>1, <3>3 DEF Apart
      <4>2. a < m /\ (n + x) - j >= (total[a] - b) + (w + x) + (m - a - 1)
        <5>1. CASE a = m - 1 /\ total[m - 1] - b = n - j
          BY <2>4, <2>a, <3>1, <5>1
        <5>2. CASE /\ a < m - 1
                   /\ n - j >= (total[a] - b) + total[m - 1] + ((m - 1) - a - 1)
          <6> DEFINE u == total[a]
                     v == total[m - 1]
          <6>1. u \in Nat /\ v \in Nat /\ v >= 1
            BY <2>a, <3>1
          <6>2. n - j >= (u - b) + v + ((m - 1) - a - 1)
            BY <5>2
          <6> HIDE DEF u, v
          <6>3. (n + x) - j >= (u - b) + (0 + x) + (m - a - 1)
            BY <6>1, <6>2
          <6> QED BY <2>4, <5>2, <6>3 DEF u
        <5> QED BY <4>1, <5>1, <5>2
      <4> QED BY <2>1, <4>2 DEF Apart
    <3> QED BY <2>2, <3>2, <3>3
  <2> QED BY <2>3, <2>4
<1>3. ASSUME NEW j \in 0..(n + e), NEW k \in 0..(n + e), j < k
      PROVE  Apart(total, t[j], t[k], k - j)
  <2>1. CASE k <= n
    BY <1>3, <2>1 DEF Linked
  <2>2. CASE k > n
    <3> DEFINE x == k - n
    <3>0. x \in 1..e /\ k = n + x
      BY <2>2
    <3>1. x \in 1..e /\ k = n + x /\ t[k] = <<m, w + x>>
      BY <3>0
    <3>2. CASE j <= n
      <4>1. j \in 0..n /\ t[j] = s[j]
        BY <3>2
      <4> QED BY <1>2, <3>1, <4>1
    <3>3. CASE j > n
      <4> DEFINE y == j - n
      <4>1. y \in 1..e /\ j = n + y
        BY <1>3, <3>1, <3>3
      <4>2. t[j] = <<m, w + y>>
        BY <4>1
      <4>3. (w + x) - (w + y) = k - j
        BY <3>1, <4>1
      <4> HIDE DEF x, y
      <4> QED BY <3>1, <4>2, <4>3 DEF Apart
    <3> QED BY <3>2, <3>3
  <2> QED BY <2>1, <2>2
<1> QED BY <1>1, <1>3 DEF Linked

\* The bytes after the c-th of frame q are the next ones of that frame, up to
\* its end and at least to the end of its header.
LEMMA LinkedNextBytes ==
  ASSUME NEW total, NEW m \in Nat, total \in [0..m -> Nat \ {0}],
         NEW s, NEW n \in Nat, Linked(total, m, s, n),
         NEW q \in 1..(m + 1), NEW c \in Nat, s[0] = Before(total, q, c),
         q <= m => total[q] >= HeaderSize
  PROVE  \A x \in 1..n :
           c + x <= HeaderSize \/ (q <= m /\ c + x <= total[q])
             => q <= m /\ s[x] = <<q, c + x>>
<1> SUFFICES ASSUME NEW x \in 1..n,
                    c + x <= HeaderSize \/ (q <= m /\ c + x <= total[q])
             PROVE  q <= m /\ s[x] = <<q, c + x>>
  OBVIOUS
<1>0. HeaderSize \in Nat \ {0}
  BY FramesAssumption
<1>1. ASSUME NEW j \in 0..n
      PROVE  /\ s[j] \in (0..m) \X Nat /\ s[j] = <<s[j][1], s[j][2]>>
             /\ s[j][1] \in 0..m /\ s[j][2] \in Nat
             /\ s[j][2] <= total[s[j][1]] /\ s[j][2] >= 1
             /\ total[s[j][1]] \in Nat
  BY DEF Linked
<1>2. ASSUME NEW j \in 0..n, NEW k \in 0..n, j < k
      PROVE  Apart(total, s[j], s[k], k - j)
  BY <1>2 DEF Linked
<1>3. CASE c > 0
  <2>1. s[0] = <<q, c>>
    BY <1>3 DEF Before
  <2>2. q <= m
    BY <1>1, <2>1
  <2>3. c + x <= total[q]
    BY <1>0, <1>1, <2>1, <2>2
  <2>4. Apart(total, s[0], s[x], x)
    BY <1>2
  <2>b. x \in 0..n /\ s[x] \in (0..m) \X Nat
    BY <1>1
  <2>5. PICK a \in 0..m, b \in Nat : s[x] = <<a, b>>
    BY <2>b, ByteIsPair
  <2>a. b <= total[a] /\ b >= 1
    BY <1>1, <2>5, <2>b
  <2>6. \/ q = a /\ b - c = x
        \/ q < a /\ x >= (total[q] - c) + b + (a - q - 1)
    <3>1. Apart(total, <<q, c>>, <<a, b>>, x)
      BY <2>1, <2>4, <2>5
    <3> QED BY <3>1 DEF Apart
  <2>7. total[q] \in Nat
    BY <2>2
  <2>8. a = q /\ b = c + x
    <3> DEFINE u == total[q]
    <3>1. u \in Nat /\ c + x <= u /\ b >= 1
      BY <2>3, <2>7, <2>a
    <3>2. q < a => x >= (u - c) + b + (a - q - 1)
      BY <2>6
    <3> HIDE DEF u
    <3>3. ~(q < a)
      BY <3>1, <3>2
    <3> QED BY <2>6, <3>3
  <2> QED BY <2>2, <2>5, <2>8
<1>4. CASE c = 0
  <2>1. s[0] = <<q - 1, total[q - 1]>> /\ total[q - 1] \in Nat
    BY <1>4 DEF Before
  <2>2. Apart(total, s[0], s[1], 1)
    BY <1>2
  <2>f. 1 \in 0..n /\ s[1] \in (0..m) \X Nat
    BY <1>1
  <2>a. PICK a \in 0..m, b \in Nat : s[1] = <<a, b>>
    BY <2>f, ByteIsPair
  <2>d. b <= total[a] /\ b >= 1
    BY <1>1, <2>a, <2>f
  <2>b. \/ q - 1 = a /\ b - total[q - 1] = 1
        \/ q - 1 < a /\ 1 >= (total[q - 1] - total[q - 1]) + b + (a - (q - 1) - 1)
    <3>1. Apart(total, <<q - 1, total[q - 1]>>, <<a, b>>, 1)
      BY <2>1, <2>2, <2>a
    <3> QED BY <3>1 DEF Apart
  <2>c. a = q /\ b = 1
    <3>1. CASE q - 1 = a
      BY <2>1, <2>b, <2>d, <3>1
    <3>2. CASE q - 1 # a
      <4>1. q - 1 < a /\ 1 >= b + (a - (q - 1) - 1)
        BY <2>1, <2>b, <3>2
      <4> QED BY <2>d, <4>1
    <3> QED BY <3>1, <3>2
  <2>3. s[1] = <<q, 1>>
    BY <2>a, <2>c
  <2>4. q <= m /\ x <= total[q]
    BY <1>0, <1>1, <1>4, <2>3
  <2>5. x = 1 \/ Apart(total, s[1], s[x], x - 1)
    BY <1>2
  <2>g. x \in 0..n /\ s[x] \in (0..m) \X Nat
    BY <1>1
  <2>6. PICK f \in 0..m, g \in Nat : s[x] = <<f, g>>
    BY <2>g, ByteIsPair
  <2>e. g <= total[f] /\ g >= 1
    BY <1>1, <2>6, <2>g
  <2>7. \/ x = 1
        \/ q = f /\ g - 1 = x - 1
        \/ q < f /\ x - 1 >= (total[q] - 1) + g + (f - q - 1)
    <3>1. CASE Apart(total, <<q, 1>>, <<f, g>>, x - 1)
      BY <3>1 DEF Apart
    <3> QED BY <2>3, <2>5, <2>6, <3>1
  <2>8. total[q] \in Nat
    BY <2>4
  <2>9. CASE x = 1
    BY <1>4, <2>3, <2>4, <2>9
  <2>10. CASE x # 1
    <3>1. f = q /\ g = x
      BY <2>4, <2>7, <2>8, <2>10, <2>e
    <3> QED BY <1>4, <2>4, <2>6, <3>1
  <2> QED BY <2>9, <2>10
<1> QED BY <1>3, <1>4
------------------------------------------------------------------------------
(* The state *)

\* The sizes of the frames.
LEMMA Totals ==
  ASSUME TypeOK
  PROVE  /\ Len(frames) \in Nat /\ HeaderSize \in Nat \ {0}
         /\ Total \in [0..Len(frames) -> Nat \ {0}]
         /\ Total[0] = 1
         /\ \A i \in 1..Len(frames) :
              /\ frames[i] \in Nat /\ Total[i] = HeaderSize + frames[i]
              /\ Total[i] >= HeaderSize
<1>1. Len(frames) \in Nat /\ HeaderSize \in Nat \ {0}
  BY FramesAssumption DEF TypeOK
<1>2. \A i \in 1..Len(frames) : frames[i] \in Nat
  BY DEF TypeOK
<1>3. \A i \in 1..Len(frames) : i # 0 /\ i \in 0..Len(frames)
  BY <1>1
<1>4. \A i \in 1..Len(frames) : Total[i] = HeaderSize + frames[i]
  BY <1>3 DEF Total
<1>5. Total[0] = 1
  BY <1>1 DEF Total
<1>6. Total \in [0..Len(frames) -> Nat \ {0}]
  BY <1>1, <1>2 DEF Total
<1> QED BY <1>1, <1>2, <1>4, <1>5, <1>6

\* Bytes(i, from, to) is a sequence of bytes of frame i.
LEMMA BytesSeq ==
  ASSUME NEW i, NEW from \in Nat, NEW to \in Nat, from <= to + 1
  PROVE  /\ Bytes(i, from, to) \in Seq({i} \X Nat)
         /\ Len(Bytes(i, from, to)) = to - from + 1
         /\ \A k \in 1..(to - from + 1) : Bytes(i, from, to)[k] = <<i, from + k - 1>>
<1> DEFINE n == to - from + 1
           b == [k \in 1..n |-> <<i, from + k - 1>>]
<1>1. n \in Nat
  OBVIOUS
<1>2. \A k \in 1..n : <<i, from + k - 1>> \in {i} \X Nat
  BY <1>1
<1>3. b \in [1..n -> {i} \X Nat]
  BY <1>2
<1>4. b \in Seq({i} \X Nat)
  BY <1>1, <1>3, SeqDef
<1>5. Len(b) = n
  BY <1>1, <1>4, LenProperties
<1>6. Bytes(i, from, to) = b
  BY DEF Bytes
<1> QED BY <1>4, <1>5, <1>6

\* The numbers that the invariant is about.
LEMMA Numbers ==
  ASSUME TypeOK
  PROVE  /\ Len(data) \in Nat /\ Len(wire) \in Nat /\ Ahead \in Nat
         /\ Len(packets) \in Nat /\ Len(delivered) \in Nat /\ Parsed \in Nat
         /\ parser.at \in {"header", "body"}
         /\ parser.at = "header" => parser.header \in Seq(Place)
         /\ parser.at = "body" => parser.body \in Seq(Place) /\ parser.length \in Nat
         /\ Fed \in Nat
<1>1. /\ Len(data) \in Nat /\ Len(wire) \in Nat
      /\ Len(packets) \in Nat /\ Len(delivered) \in Nat
  BY DEF TypeOK
<1>2. /\ parser.at \in {"header", "body"}
      /\ parser.at = "header" => parser.header \in Seq(Place)
      /\ parser.at = "body" => parser.body \in Seq(Place) /\ parser.length \in Nat
  BY DEF TypeOK
<1>3. Fed \in Nat
  BY <1>2, FramesAssumption DEF Fed
<1> QED BY <1>1, <1>2, <1>3 DEF Ahead, Parsed

\* The two shapes of the parser.
LEMMA Shapes ==
  ASSUME TypeOK
  PROVE  /\ parser.at = "header" => parser \in [at : {"header"}, header : Seq(Place)]
         /\ parser.at = "body" =>
              parser \in [at : {"body"}, length : Nat, body : Seq(Place)]
<1>1. \/ parser \in [at : {"header"}, header : Seq(Place)]
      \/ parser \in [at : {"body"}, length : Nat, body : Seq(Place)]
  BY DEF TypeOK
<1> QED BY <1>1

\* The chunk holds the next bytes of the frame that the parser is in.
LEMMA NextOfChunk ==
  ASSUME ParserInv, input = "feed", NEW x \in 1..Len(data),
         \/ Fed + x <= HeaderSize
         \/ Parsed < Len(frames) /\ Fed + x <= Total[Parsed + 1]
  PROVE  /\ Parsed < Len(frames)
         /\ data[x] = <<Parsed + 1, Fed + x>> /\ Stretch[x] = data[x]
<1> USE DEF ParserInv
<1>1. Stretch[x] = data[x] /\ x \in 1..Ahead
  BY Numbers DEF Stretch, Ahead
<1>2. Stretch[0] = Before(Total, Parsed + 1, Fed)
  BY Numbers DEF Stretch, LastFed
<1>3. Linked(Total, Len(frames), Stretch, Ahead)
  BY DEF ByteInv
<1>4. Parsed \in 0..Len(frames)
  BY Numbers, Totals DEF PacketInv
<1>5. Parsed < Len(frames) /\ Stretch[x] = <<Parsed + 1, Fed + x>>
  <2> HIDE DEF ParserInv
  <2>1. TypeOK
    BY DEF ParserInv
  <2>2. /\ Len(frames) \in Nat /\ Total \in [0..Len(frames) -> Nat \ {0}]
        /\ Parsed < Len(frames) => Total[Parsed + 1] >= HeaderSize
        /\ Ahead \in Nat /\ Fed \in Nat
    BY <1>4, <2>1, Totals, Numbers
  <2>3. \A y \in 1..Ahead :
          \/ Fed + y <= HeaderSize
          \/ Parsed < Len(frames) /\ Fed + y <= Total[Parsed + 1]
          => Parsed < Len(frames) /\ Stretch[y] = <<Parsed + 1, Fed + y>>
    <3> DEFINE q == Parsed + 1
               m == Len(frames)
    <3>1. m \in Nat /\ Total \in [0..m -> Nat \ {0}] /\ Ahead \in Nat /\ Fed \in Nat
      BY <2>2
    <3>2. Linked(Total, m, Stretch, Ahead) /\ Stretch[0] = Before(Total, q, Fed)
      BY <1>2, <1>3
    <3>3. /\ q \in 1..(m + 1)
          /\ Parsed < m <=> q <= m
          /\ q <= m => Total[q] >= HeaderSize
      BY <1>4, <2>2
    <3> HIDE DEF q, m
    <3>4. \A y \in 1..Ahead :
            Fed + y <= HeaderSize \/ (q <= m /\ Fed + y <= Total[q])
              => q <= m /\ Stretch[y] = <<q, Fed + y>>
      BY ONLY <3>1, <3>2, <3>3, LinkedNextBytes
    <3> QED BY <3>3, <3>4 DEF q, m
  <2> QED BY <1>1, <2>3
<1> QED BY <1>1, <1>5

\* The parser takes d bytes of the chunk.
LEMMA Takes ==
  ASSUME ParserInv, input = "feed", NEW d \in 0..Len(data),
         UNCHANGED <<frames, written, wire>>,
         Len(data') = Len(data) - d,
         \A j \in 1..(Len(data) - d) : data'[j] = data[j + d],
         LastFed' = Stretch[d]
  PROVE  ByteInv'
<1>0. TypeOK /\ ByteInv
  BY DEF ParserInv
<1>1. Len(data) \in Nat /\ Len(wire) \in Nat /\ Ahead = Len(data) + Len(wire)
  BY <1>0, Numbers DEF Ahead
<1>2. Ahead' = Ahead - d /\ Ahead' \in Nat /\ d \in 0..Ahead
  BY <1>1 DEF Ahead
<1>3. \A j \in 0..(Ahead - d) : Stretch'[j] = Stretch[j + d]
  <2> SUFFICES ASSUME NEW j \in 0..(Ahead - d) PROVE Stretch'[j] = Stretch[j + d]
    OBVIOUS
  <2>1. /\ j \in 0..Ahead'
        /\ Stretch'[j] = IF j = 0 THEN LastFed'
                         ELSE IF j <= Len(data') THEN data'[j]
                         ELSE wire'[j - Len(data')]
    BY <1>2 DEF Stretch
  <2>2. /\ j + d \in 0..Ahead
        /\ Stretch[j + d] = IF j + d = 0 THEN LastFed
                            ELSE IF j + d <= Len(data) THEN data[j + d]
                            ELSE wire[j + d - Len(data)]
    BY <1>1, <1>2 DEF Stretch
  <2>3. CASE j = 0
    BY <2>1, <2>3
  <2>4. CASE j # 0 /\ j <= Len(data')
    <3>1. j \in 1..(Len(data) - d) /\ j + d <= Len(data) /\ j + d # 0
      BY <1>1, <2>4
    <3> QED BY <2>1, <2>2, <2>4, <3>1
  <2>5. CASE j # 0 /\ ~(j <= Len(data'))
    <3>1. /\ ~(j + d <= Len(data)) /\ j + d # 0
          /\ j - Len(data') = j + d - Len(data)
      BY <1>1, <2>5
    <3> QED BY <2>1, <2>2, <2>5, <3>1
  <2> QED BY <2>3, <2>4, <2>5
<1>4. Total' = Total /\ LastWritten' = LastWritten
  BY DEF Total, LastWritten
<1>5. Linked(Total, Len(frames), Stretch, Ahead) /\ Stretch[Ahead] = LastWritten
  BY <1>0 DEF ByteInv
<1>6. Linked(Total, Len(frames), Stretch', Ahead - d)
  <2>1. /\ Len(frames) \in Nat /\ Total \in [0..Len(frames) -> Nat \ {0}]
        /\ Ahead \in Nat
    BY <1>0, <1>1, Totals
  <2> QED BY <1>2, <1>3, <1>5, <2>1, LinkedSuffix
<1>7. Stretch'[Ahead - d] = Stretch[Ahead]
  <2>1. Ahead - d \in 0..(Ahead - d) /\ (Ahead - d) + d = Ahead
    BY <1>1, <1>2
  <2> QED BY <1>3, <2>1
<1> QED BY <1>2, <1>4, <1>5, <1>6, <1>7 DEF ByteInv
------------------------------------------------------------------------------
(* The sender *)

\* A frame that output_data admits is within the NIF's limits.
LEMMA Admitted ==
  ASSUME NEW length \in Nat, length <= MaxSend
  PROVE  NifAccepts(length + HeaderSize, MaxSend + HeaderSize)
BY FramesAssumption DEF NifAccepts

\* output_data and dist_tick append a frame, or end the link.
LEMMA SendStarts ==
  ASSUME Tick \/ \E length \in 0..MaxLength : OutputData(length)
  PROVE  /\ output = "ready" /\ Len(frames) < MaxFrames
         /\ UNCHANGED <<wire, inputVars>>
         /\ \/ output' = "exited" /\ UNCHANGED <<frames, written>>
            \/ /\ output' = "writing" /\ written' = 0
               /\ \E length \in Nat : frames' = Append(frames, length)
<1>1. CASE Tick
  <2>1. NifAccepts(0 + HeaderSize, MaxSend + HeaderSize)
    BY Admitted, FramesAssumption
  <2> QED BY <1>1, <2>1 DEF Tick, SendPacket
<1>2. ASSUME NEW length \in 0..MaxLength, OutputData(length)
      PROVE  /\ output = "ready" /\ Len(frames) < MaxFrames
             /\ UNCHANGED <<wire, inputVars>>
             /\ \/ output' = "exited" /\ UNCHANGED <<frames, written>>
                \/ /\ output' = "writing" /\ written' = 0
                   /\ \E n \in Nat : frames' = Append(frames, n)
  <2>1. length \in Nat
    BY FramesAssumption
  <2>2. CASE length <= MaxSend
    <3>1. NifAccepts(length + HeaderSize, MaxSend + HeaderSize)
      BY <2>1, <2>2, Admitted
    <3>2. ~(length > MaxSend)
      BY <2>1, <2>2, FramesAssumption
    <3> QED BY <1>2, <2>1, <3>1, <3>2 DEF OutputData, SendPacket
  <2>3. CASE ~(length <= MaxSend)
    BY <1>2, <2>3 DEF OutputData
  <2> QED BY <2>2, <2>3
<1> QED BY <1>1, <1>2

\* What the invariant says of a step that leaves the bytes and frames alone.
LEMMA Unmoved ==
  ASSUME ParserInv, UNCHANGED <<frames, written, wire, data, parser, packets, delivered>>,
         output' \in {output, "exited"}, input' \in {input, "exited"}
  PROVE  ParserInv'
<1>1. /\ UNCHANGED <<Total, LastWritten, Parsed, Ahead, Stretch>>
      /\ \A i \in Nat : UNCHANGED frames[i]
  BY DEF Total, LastWritten, Before, Parsed, Fed, LastFed, Ahead, Stretch
<1>2. TypeOK' /\ BufferBounded'
  BY DEF ParserInv, TypeOK, BufferBounded
<1>3. WriterInv' /\ ChunkInv' /\ ByteInv'
  BY <1>1 DEF ParserInv, WriterInv, ChunkInv, ByteInv
<1>4. PacketInv'
  BY <1>1 DEF ParserInv, PacketInv, Packet
<1> QED BY <1>2, <1>3, <1>4 DEF ParserInv

\* A new frame: all bytes before its first are already written.
LEMMA SendPreserves ==
  ASSUME ParserInv, output = "ready", Len(frames) < MaxFrames,
         UNCHANGED <<wire, inputVars>>, output' = "writing", written' = 0,
         NEW length \in Nat, frames' = Append(frames, length)
  PROVE  ParserInv'
<1> DEFINE n == Len(frames)
<1>0. TypeOK /\ BufferBounded /\ WriterInv /\ ChunkInv /\ PacketInv /\ ByteInv
  BY DEF ParserInv
<1>u. UNCHANGED <<wire, input, data, parser, packets, delivered>>
  BY DEF inputVars
<1>1. /\ n \in Nat /\ frames' \in Seq(Nat) /\ Len(frames') = n + 1
      /\ \A i \in 1..n : frames'[i] = frames[i]
      /\ frames'[n + 1] = length /\ frames' # <<>>
  <2>1. frames \in Seq(Nat)
    BY <1>0 DEF TypeOK
  <2> QED BY <2>1, AppendProperties, LenProperties
<1>2. /\ \A i \in 0..n : Total'[i] = Total[i]
      /\ Total'[n + 1] = HeaderSize + length
  BY <1>1 DEF Total
<1>3. /\ HeaderSize \in Nat \ {0} /\ Total \in [0..n -> Nat \ {0}]
  BY <1>0, Totals
<1>4. TypeOK' /\ BufferBounded'
  <2>1. Len(frames') <= MaxFrames
    BY <1>1, FramesAssumption
  <2> QED BY <1>0, <1>u, <1>1, <2>1 DEF TypeOK, BufferBounded
<1>5. LastWritten' = LastWritten
  <2>1. LastWritten = <<n, Total[n]>>
    BY <1>0 DEF WriterInv
  <2>2. LastWritten' = <<(n + 1) - 1, Total'[(n + 1) - 1]>>
    BY <1>1 DEF LastWritten, Before
  <2>3. (n + 1) - 1 = n /\ n \in 0..n
    BY <1>1
  <2> QED BY <1>2, <2>1, <2>2, <2>3
<1>6. WriterInv'
  <2>1. Total'[Len(frames')] = HeaderSize + length
    BY <1>1, <1>2
  <2>2. 0 < HeaderSize + length /\ 0 <= HeaderSize + length
    BY <1>3
  <2> QED BY <1>1, <2>1, <2>2 DEF WriterInv
<1>7. ChunkInv'
  BY <1>0, <1>u DEF ChunkInv
<1>8. PacketInv'
  <2> SUFFICES ASSUME input # "exited"
               PROVE  PacketInv'
    BY <1>u DEF PacketInv
  <2>1. /\ Parsed' = Parsed /\ Parsed \in Nat /\ Parsed <= n
        /\ Len(packets) \in Nat /\ Len(delivered) \in Nat
    BY <1>0, <1>u, Numbers DEF Parsed, PacketInv
  <2>2. ASSUME NEW j \in 1..Len(packets)
        PROVE  packets'[j] = Packet(Len(delivered) + j)'
    <3>1. Len(delivered) + j \in 1..n
      BY <2>1 DEF Parsed
    <3>2. packets[j] = Packet(Len(delivered) + j)
      BY <1>0 DEF PacketInv
    <3> QED BY <1>1, <1>u, <3>1, <3>2 DEF Packet
  <2>3. ASSUME parser.at = "body"
        PROVE  Parsed < n + 1 /\ parser.length = frames'[Parsed + 1]
    <3>1. Parsed < n /\ parser.length = frames[Parsed + 1]
      BY <1>0, <2>3 DEF PacketInv
    <3>2. Parsed + 1 \in 1..n
      BY <1>1, <2>1, <3>1
    <3> QED BY <1>1, <2>1, <3>1, <3>2
  <2>4. Parsed' <= Len(frames')
    BY <1>1, <2>1
  <2> QED BY <1>0, <1>1, <1>u, <2>1, <2>2, <2>3, <2>4 DEF PacketInv
<1>9. ByteInv'
  <2> SUFFICES ASSUME input # "exited"
               PROVE  ByteInv'
    BY <1>u DEF ByteInv
  <2>1. Parsed' = Parsed /\ Fed' = Fed /\ Ahead' = Ahead /\ Parsed \in 0..n
    BY <1>0, <1>1, <1>u, Numbers DEF Parsed, Fed, Ahead, PacketInv
  <2>2. LastFed' = LastFed
    <3>1. (Parsed + 1) - 1 = Parsed
      BY <2>1
    <3> QED BY <1>2, <2>1, <3>1 DEF LastFed, Before
  <2>3. Stretch' = Stretch
    BY <1>u, <2>1, <2>2 DEF Stretch
  <2>4. Linked(Total, n, Stretch, Ahead) /\ Stretch[Ahead] = LastWritten
    BY <1>0 DEF ByteInv
  <2>5. Ahead \in Nat
    BY <1>0, Numbers
  <2>6. Linked(Total', n + 1, Stretch, Ahead)
    <3> DEFINE more == Total'
    <3>1. \A i \in 0..n : more[i] = Total[i]
      BY <1>2
    <3> HIDE DEF more, n
    <3>2. Linked(more, n + 1, Stretch, Ahead)
      BY ONLY <1>1, <1>3, <2>4, <2>5, <3>1, LinkedMoreFrames
    <3> QED BY <3>2 DEF more
  <2> QED BY <1>1, <1>5, <2>1, <2>3, <2>4, <2>6 DEF ByteInv
<1> QED BY <1>4, <1>6, <1>7, <1>8, <1>9 DEF ParserInv

\* The next chunk of the last frame is written behind the bytes on the wire.
LEMMA WritePreserves ==
  ASSUME ParserInv, WriteAll
  PROVE  ParserInv'
<1> DEFINE i == Len(frames)
           total == HeaderSize + frames[i]
           end == IF written + WriteChunk < total THEN written + WriteChunk ELSE total
           e == end - written
           b == Bytes(i, written + 1, end)
<1>0. TypeOK /\ BufferBounded /\ WriterInv /\ ChunkInv /\ PacketInv /\ ByteInv
  BY DEF ParserInv
<1>1. /\ output = "writing" /\ wire' = wire \o b /\ written' = end
      /\ output' = IF end = total THEN "ready" ELSE "writing"
      /\ UNCHANGED <<frames, input, data, parser, packets, delivered>>
  BY DEF WriteAll, inputVars
<1>2. /\ frames # <<>> /\ i \in Nat \ {0} /\ i \in 1..MaxFrames /\ i \in 1..i
      /\ Total[i] = total /\ total \in Nat /\ written < total /\ written \in Nat
      /\ Total \in [0..i -> Nat \ {0}]
  <2>1. frames # <<>> /\ frames \in Seq(Nat) /\ written < Total[i] /\ written \in Nat
    BY <1>0, <1>1 DEF WriterInv, TypeOK
  <2>2. i \in Nat \ {0} /\ i <= MaxFrames
    BY <1>0, <2>1, EmptySeq DEF TypeOK
  <2>3. i \in 1..i /\ i \in 1..MaxFrames
    BY <2>2, FramesAssumption
  <2>4. Total[i] = total /\ total \in Nat /\ Total \in [0..i -> Nat \ {0}]
    BY <1>0, <2>3, Totals
  <2> QED BY <2>1, <2>2, <2>3, <2>4
<1>3. end \in Nat /\ e \in Nat \ {0} /\ end = written + e /\ end <= total /\ end > 0
  BY <1>2, FramesAssumption
<1>4. /\ b \in Seq(Place) /\ Len(b) = e
      /\ \A x \in 1..e : b[x] = <<i, written + x>>
  <2>0. written + 1 \in Nat /\ written + 1 <= end + 1 /\ end - (written + 1) + 1 = e
    BY <1>2, <1>3
  <2> HIDE DEF i, end, e
  <2>1. /\ b \in Seq({i} \X Nat) /\ Len(b) = e
        /\ \A x \in 1..e : b[x] = <<i, (written + 1) + x - 1>>
    <3> DEFINE from == written + 1
    <3>1. from \in Nat /\ from <= end + 1 /\ end \in Nat
      BY <1>3, <2>0
    <3> HIDE DEF from
    <3>2. /\ Bytes(i, from, end) \in Seq({i} \X Nat)
          /\ Len(Bytes(i, from, end)) = end - from + 1
          /\ \A k \in 1..(end - from + 1) : Bytes(i, from, end)[k] = <<i, from + k - 1>>
      BY ONLY <3>1, BytesSeq
    <3> QED BY <2>0, <3>2 DEF from
  <2>2. {i} \X Nat \subseteq Place
    BY <1>2 DEF Place
  <2>3. \A x \in 1..e : (written + 1) + x - 1 = written + x
    BY <1>2, <1>3
  <2> QED BY <2>1, <2>2, <2>3, SeqMonotonic
<1> HIDE DEF i, total, end, e, b
<1>5. /\ wire' \in Seq(Place) /\ Len(wire') = Len(wire) + e
      /\ \A x \in 1..(Len(wire) + e) :
           wire'[x] = IF x <= Len(wire) THEN wire[x] ELSE b[x - Len(wire)]
  <2>1. wire \in Seq(Place)
    BY <1>0 DEF TypeOK
  <2> QED BY <1>1, <1>4, <2>1, ConcatProperties
<1>6. TypeOK' /\ BufferBounded' /\ ChunkInv'
  <2>1. output' \in {"ready", "writing"}
    BY <1>1
  <2> QED BY <1>0, <1>1, <1>3, <1>5, <2>1 DEF TypeOK, BufferBounded, ChunkInv
<1>7. /\ Total' = Total /\ Parsed' = Parsed /\ Fed' = Fed /\ LastFed' = LastFed
      /\ Ahead' = Ahead + e /\ Ahead \in Nat
      /\ Len(data) \in Nat /\ Len(wire) \in Nat /\ Ahead = Len(data) + Len(wire)
  <2>1. Total' = Total /\ Parsed' = Parsed /\ Fed' = Fed
    BY <1>1 DEF Total, Parsed, Fed
  <2>2. LastFed' = LastFed
    BY <2>1 DEF LastFed
  <2>3. Len(data) \in Nat /\ Len(wire) \in Nat /\ Ahead = Len(data) + Len(wire)
    BY <1>0, Numbers DEF Ahead
  <2>4. Ahead' = Len(data) + (Len(wire) + e)
    BY <1>1, <1>5 DEF Ahead
  <2> QED BY <1>3, <2>1, <2>2, <2>3, <2>4
<1>8. LastWritten' = <<i, end>>
  BY <1>1, <1>2, <1>3 DEF LastWritten, Before, i
<1>9. WriterInv'
  <2>1. Total'[Len(frames')] = total /\ Len(frames') = i
    BY <1>1, <1>2, <1>7 DEF i
  <2>2. output' = "writing" => end < total
    BY <1>1, <1>2, <1>3
  <2>3. output' = "ready" => end = total
    BY <1>1
  <2> QED BY <1>1, <1>2, <1>3, <1>8, <2>1, <2>2, <2>3 DEF WriterInv
<1>10. PacketInv'
  BY <1>0, <1>1, <1>7 DEF PacketInv, Packet
<1>11. ByteInv'
  <2> SUFFICES ASSUME input # "exited"
               PROVE  ByteInv'
    BY <1>1 DEF ByteInv
  <2>1. Linked(Total, i, Stretch, Ahead) /\ Stretch[Ahead] = Before(Total, i, written)
    BY <1>0, <1>2 DEF ByteInv, LastWritten, i
  <2>2. \A j \in 0..Ahead : Stretch'[j] = Stretch[j]
    <3> SUFFICES ASSUME NEW j \in 0..Ahead PROVE Stretch'[j] = Stretch[j]
      OBVIOUS
    <3>1. j \in 0..Ahead'
      BY <1>3, <1>7
    <3>2. CASE j <= Len(data)
      BY <1>1, <1>7, <3>1, <3>2 DEF Stretch
    <3>3. CASE ~(j <= Len(data))
      <4>1. /\ j - Len(data) \in 1..(Len(wire) + e) /\ j - Len(data) <= Len(wire)
            /\ j # 0
        BY <1>3, <1>7, <3>3
      <4>2. wire'[j - Len(data)] = wire[j - Len(data)]
        BY <1>5, <4>1
      <4> QED BY <1>1, <3>1, <3>3, <4>1, <4>2 DEF Stretch
    <3> QED BY <3>2, <3>3
  <2>3. \A x \in 1..e : Stretch'[Ahead + x] = <<i, written + x>>
    <3> SUFFICES ASSUME NEW x \in 1..e
                 PROVE  Stretch'[Ahead + x] = <<i, written + x>>
      OBVIOUS
    <3>1. /\ Ahead + x \in 0..Ahead' /\ Ahead + x # 0 /\ ~(Ahead + x <= Len(data))
          /\ (Ahead + x) - Len(data) = Len(wire) + x
      BY <1>3, <1>7
    <3>2. Len(wire) + x \in 1..(Len(wire) + e) /\ ~(Len(wire) + x <= Len(wire))
      BY <1>3, <1>7
    <3>3. (Len(wire) + x) - Len(wire) = x
      BY <1>3, <1>7
    <3>4. wire'[Len(wire) + x] = b[x]
      BY <1>5, <3>2, <3>3
    <3>5. Stretch'[Ahead + x] = wire'[(Ahead + x) - Len(data)]
      BY <1>1, <3>1 DEF Stretch
    <3> QED BY <1>4, <3>1, <3>4, <3>5
  <2>4. Linked(Total, i, Stretch', Ahead + e)
    <3> DEFINE t == Stretch'
    <3>1. /\ \A j \in 0..Ahead : t[j] = Stretch[j]
          /\ \A x \in 1..e : t[Ahead + x] = <<i, written + x>>
      BY <2>2, <2>3
    <3>2. written + e <= Total[i] /\ written \in Nat /\ e \in Nat
      BY <1>2, <1>3
    <3>3. i \in Nat \ {0} /\ Total \in [0..i -> Nat \ {0}] /\ Ahead \in Nat
      BY <1>2, <1>7
    <3> HIDE DEF t
    <3>4. Linked(Total, i, t, Ahead + e)
      BY ONLY <2>1, <3>1, <3>2, <3>3, LinkedMoreBytes
    <3> QED BY <3>4 DEF t
  <2>5. Stretch'[Ahead + e] = LastWritten'
    <3>1. e \in 1..e
      BY <1>3
    <3> QED BY <1>3, <1>8, <2>3, <3>1
  <2> QED BY <1>1, <1>7, <2>4, <2>5 DEF ByteInv, i
<1> QED BY <1>6, <1>9, <1>10, <1>11 DEF ParserInv
------------------------------------------------------------------------------
(* The receiver *)

\* What is left of a sequence when its first d elements have been taken.
LEMMA Rest ==
  ASSUME NEW S, NEW s \in Seq(S), NEW d \in 0..Len(s)
  PROVE  /\ SubSeq(s, 1, d) \in Seq(S) /\ Len(SubSeq(s, 1, d)) = d
         /\ \A k \in 1..d : SubSeq(s, 1, d)[k] = s[k]
         /\ SubSeq(s, d + 1, Len(s)) \in Seq(S)
         /\ Len(SubSeq(s, d + 1, Len(s))) = Len(s) - d
         /\ \A k \in 1..(Len(s) - d) : SubSeq(s, d + 1, Len(s))[k] = s[k + d]
<1>1. Len(s) \in Nat /\ \A k \in 1..Len(s) : s[k] \in S
  OBVIOUS
<1>2. \A k \in 1..d : s[k] \in S
  BY <1>1
<1>3. /\ SubSeq(s, 1, d) \in Seq(S)
      /\ Len(SubSeq(s, 1, d)) = IF 1 <= d THEN d - 1 + 1 ELSE 0
      /\ \A k \in 1..(d - 1 + 1) : SubSeq(s, 1, d)[k] = s[1 + k - 1]
  BY <1>1, <1>2, SubSeqProperties
<1>4. d - 1 + 1 = d /\ \A k \in 1..d : 1 + k - 1 = k
  BY <1>1
<1>5. (IF 1 <= d THEN d - 1 + 1 ELSE 0) = d
  BY <1>1
<1> DEFINE m == d + 1
           n == Len(s)
<1>6. m \in Int /\ n \in Int /\ \A k \in m..n : s[k] \in S
  BY <1>1
<1>7. /\ n - m + 1 = n - d /\ (IF m <= n THEN n - m + 1 ELSE 0) = n - d
      /\ \A k \in 1..(n - d) : m + k - 1 = k + d
  BY <1>1
<1> HIDE DEF m, n
<1>8. /\ SubSeq(s, m, n) \in Seq(S)
      /\ Len(SubSeq(s, m, n)) = IF m <= n THEN n - m + 1 ELSE 0
      /\ \A k \in 1..(n - m + 1) : SubSeq(s, m, n)[k] = s[m + k - 1]
  BY ONLY <1>6, SubSeqProperties
<1>9. /\ SubSeq(s, m, n) \in Seq(S) /\ Len(SubSeq(s, m, n)) = n - d
      /\ \A k \in 1..(n - d) : SubSeq(s, m, n)[k] = s[k + d]
  BY <1>7, <1>8
<1>10. /\ SubSeq(s, 1, d) \in Seq(S) /\ Len(SubSeq(s, 1, d)) = d
       /\ \A k \in 1..d : SubSeq(s, 1, d)[k] = s[k]
  BY <1>3, <1>4, <1>5
<1> QED BY <1>9, <1>10 DEF m, n

\* A receive moves bytes from the wire to the chunk, the first ones first.
LEMMA ReceivePreserves ==
  ASSUME ParserInv, NEW n \in 1..ReceiveChunk, Receive(n)
  PROVE  ParserInv'
<1>0. TypeOK /\ BufferBounded /\ WriterInv /\ ChunkInv /\ PacketInv /\ ByteInv
  BY DEF ParserInv
<1>1. /\ input = "recv" /\ input' = "feed" /\ n <= Len(wire)
      /\ data' = SubSeq(wire, 1, n) /\ wire' = SubSeq(wire, n + 1, Len(wire))
      /\ UNCHANGED <<output, frames, written, parser, packets, delivered>>
  BY DEF Receive, outputVars
<1>2. wire \in Seq(Place) /\ Len(wire) \in Nat /\ n \in 0..Len(wire) /\ data = <<>>
  BY <1>0, <1>1, FramesAssumption DEF TypeOK, ChunkInv
<1>3. /\ data' \in Seq(Place) /\ Len(data') = n
      /\ \A k \in 1..n : data'[k] = wire[k]
      /\ wire' \in Seq(Place) /\ Len(wire') = Len(wire) - n
      /\ \A k \in 1..(Len(wire) - n) : wire'[k] = wire[k + n]
  BY <1>1, <1>2, Rest
<1>4. TypeOK' /\ BufferBounded' /\ ChunkInv'
  BY <1>0, <1>1, <1>3 DEF TypeOK, BufferBounded, ChunkInv
<1>5. UNCHANGED <<Total, LastWritten, Parsed, LastFed>>
  BY <1>1 DEF Total, LastWritten, Before, Parsed, Fed, LastFed
<1>6. WriterInv' /\ PacketInv'
  BY <1>0, <1>1, <1>5 DEF WriterInv, PacketInv, Packet
<1>7. Ahead' = Ahead /\ Ahead = Len(wire) /\ Len(data) = 0
  <2>1. Len(data) = 0
    BY <1>2
  <2> QED BY <1>2, <1>3, <2>1 DEF Ahead
<1>8. Stretch' = Stretch
  <2>1. ASSUME NEW j \in 0..Ahead PROVE Stretch'[j] = Stretch[j]
    <3>1. CASE j = 0
      BY <1>5, <1>7, <3>1 DEF Stretch
    <3>2. CASE j # 0 /\ j <= n
      <4>1. j \in 1..n /\ ~(j <= Len(data)) /\ j - Len(data) = j
        BY <1>2, <1>7, <3>2
      <4> QED BY <1>3, <1>7, <3>2, <4>1 DEF Stretch
    <3>3. CASE j # 0 /\ ~(j <= n)
      <4>1. /\ ~(j <= Len(data)) /\ j - Len(data) = j
            /\ j - n \in 1..(Len(wire) - n) /\ (j - n) + n = j
        BY <1>2, <1>7, <3>3
      <4>2. wire'[j - n] = wire[j]
        BY <1>3, <4>1
      <4> QED BY <1>3, <1>7, <3>3, <4>1, <4>2 DEF Stretch
    <3> QED BY <3>1, <3>2, <3>3
  <2> QED BY <1>7, <2>1 DEF Stretch
<1>9. ByteInv'
  BY <1>0, <1>1, <1>5, <1>7, <1>8 DEF ByteInv
<1> QED BY <1>4, <1>6, <1>9 DEF ParserInv

\* A part of a header is the part of it that the frame has next.
LEMMA HeaderPartPreserves ==
  ASSUME ParserInv, FeedHeaderPart
  PROVE  ParserInv'
<1> DEFINE d == Len(data)
           h == Len(parser.header)
<1>0. TypeOK /\ BufferBounded /\ WriterInv /\ ChunkInv /\ PacketInv /\ ByteInv
  BY DEF ParserInv
<1>1. /\ input = "feed" /\ input' = "put" /\ parser.at = "header"
      /\ d < HeaderSize - h /\ data' = <<>>
      /\ parser' = [parser EXCEPT !.header = @ \o data]
      /\ UNCHANGED <<output, frames, written, wire, packets, delivered>>
  BY DEF FeedHeaderPart, Feeding, outputVars
<1>2. /\ parser \in [at : {"header"}, header : Seq(Place)] /\ data \in Seq(Place)
      /\ d \in Nat /\ h \in Nat /\ HeaderSize \in Nat \ {0}
  <2>1. parser \in [at : {"header"}, header : Seq(Place)]
    BY <1>0, <1>1, Shapes
  <2>2. parser.header \in Seq(Place) /\ data \in Seq(Place)
    BY <1>0, <2>1 DEF TypeOK
  <2> QED BY <2>1, <2>2, FramesAssumption, LenProperties
<1>3. /\ parser' \in [at : {"header"}, header : Seq(Place)]
      /\ parser'.at = "header" /\ parser'.header = parser.header \o data
      /\ Len(parser'.header) = h + d
      /\ \A k \in 1..(h + d) : parser'.header[k] =
           IF k <= h THEN parser.header[k] ELSE data[k - h]
  <2>1. parser.header \in Seq(Place)
    BY <1>2
  <2>2. /\ parser.header \o data \in Seq(Place) /\ Len(parser.header \o data) = h + d
        /\ \A k \in 1..(h + d) : (parser.header \o data)[k] =
             IF k <= h THEN parser.header[k] ELSE data[k - h]
    BY <1>2, <2>1, ConcatProperties
  <2>3. /\ parser'.at = "header" /\ parser'.header = parser.header \o data
        /\ parser' \in [at : {"header"}, header : Seq(Place)]
    BY <1>1, <1>2, <2>2
  <2> QED BY <2>2, <2>3
<1>4. Fed = h /\ Fed' = h + d /\ Parsed' = Parsed /\ Total' = Total
  BY <1>1, <1>3 DEF Fed, Parsed, Total
<1>5. \A x \in 1..d : data[x] = <<Parsed + 1, h + x>> /\ Stretch[x] = data[x]
  <2>1. ASSUME NEW x \in 1..d PROVE Fed + x <= HeaderSize
    BY <1>1, <1>2, <1>4
  <2> QED BY <1>1, <1>4, <2>1, NextOfChunk
<1>6. TypeOK' /\ BufferBounded' /\ WriterInv' /\ ChunkInv'
  <2>1. TypeOK' /\ ChunkInv'
    BY <1>0, <1>1, <1>3 DEF TypeOK, ChunkInv
  <2>2. BufferBounded'
    BY <1>1, <1>2, <1>3 DEF BufferBounded
  <2>3. WriterInv'
    BY <1>0, <1>1, <1>4 DEF WriterInv, LastWritten
  <2> QED BY <2>1, <2>2, <2>3
<1>7. PacketInv'
  <2>1. ASSUME NEW k \in 1..(h + d) PROVE parser'.header[k] = <<Parsed + 1, k>>
    <3>1. CASE k <= h
      BY <1>0, <1>1, <1>2, <1>3, <3>1 DEF PacketInv
    <3>2. CASE ~(k <= h)
      <4>1. k - h \in 1..d /\ h + (k - h) = k
        BY <1>2, <3>2
      <4> QED BY <1>3, <1>5, <3>2, <4>1
    <3> QED BY <3>1, <3>2
  <2> QED BY <1>0, <1>1, <1>3, <1>4, <2>1 DEF PacketInv, Packet
<1>8. LastFed' = Stretch[d]
  <2>1. CASE d = 0
    <3>1. LastFed' = LastFed
      BY <1>2, <1>4, <2>1 DEF LastFed
    <3>2. Stretch[0] = LastFed
      BY <1>0, Numbers DEF Stretch
    <3> QED BY <2>1, <3>1, <3>2
  <2>2. CASE d # 0
    <3>1. d \in 1..d /\ h + d > 0
      BY <1>2, <2>2
    <3>2. LastFed' = <<Parsed + 1, h + d>>
      BY <1>4, <3>1 DEF LastFed, Before
    <3> QED BY <1>5, <3>1, <3>2
  <2> QED BY <2>1, <2>2
<1>9. ByteInv'
  <2>1. Len(data') = 0 /\ d - d = 0 /\ d \in 0..d
    BY <1>1, <1>2
  <2>2. \A j \in 1..(d - d) : data'[j] = data[j + d]
    BY <2>1
  <2> QED BY <1>1, <1>8, <2>1, <2>2, Takes
<1> QED BY <1>6, <1>7, <1>9 DEF ParserInv

\* A complete header is that of the frame the parser has come to.
LEMMA HeaderPreserves ==
  ASSUME ParserInv, FeedHeader
  PROVE  ParserInv'
<1> DEFINE h == Len(parser.header)
           need == HeaderSize - h
           first == SubSeq(data, 1, need)
           header == parser.header \o first
<1>0. TypeOK /\ BufferBounded /\ WriterInv /\ ChunkInv /\ PacketInv /\ ByteInv
  BY DEF ParserInv
<1>1. /\ input = "feed" /\ parser.at = "header" /\ Len(data) >= need
      /\ UNCHANGED <<output, frames, written, wire, delivered>>
  BY DEF FeedHeader, Feeding, outputVars
<1>2. /\ parser.header \in Seq(Place) /\ data \in Seq(Place)
      /\ Len(data) \in Nat /\ h \in Nat /\ HeaderSize \in Nat \ {0} /\ h < HeaderSize
      /\ need \in 1..Len(data) /\ need \in 0..Len(data) /\ h + need = HeaderSize
  <2>1. parser \in [at : {"header"}, header : Seq(Place)]
    BY <1>0, <1>1, Shapes
  <2>2. parser.header \in Seq(Place) /\ data \in Seq(Place)
    BY <1>0, <2>1 DEF TypeOK
  <2>3. Len(data) \in Nat /\ h \in Nat /\ HeaderSize \in Nat \ {0}
    BY <2>2, FramesAssumption, LenProperties
  <2>4. h < HeaderSize
    BY <1>0, <1>1 DEF BufferBounded
  <2> QED BY <1>1, <2>2, <2>3, <2>4
<1>3. CASE input' = "exited" /\ UNCHANGED <<data, parser>> /\ packets' = <<>>
  <2>1. UNCHANGED <<Total, LastWritten>>
    BY <1>1 DEF Total, LastWritten, Before
  <2>2. TypeOK' /\ BufferBounded' /\ WriterInv'
    BY <1>0, <1>1, <1>3, <2>1 DEF TypeOK, BufferBounded, WriterInv
  <2>3. ChunkInv' /\ PacketInv' /\ ByteInv'
    BY <1>3 DEF ChunkInv, PacketInv, ByteInv
  <2> QED BY <2>2, <2>3 DEF ParserInv
<1>4. CASE /\ Length(header) <= MaxReceive
           /\ data' = SubSeq(data, need + 1, Len(data))
           /\ parser' = [at |-> "body", length |-> Length(header), body |-> <<>>]
           /\ UNCHANGED <<input, packets>>
  <2>1. Fed = h /\ Parsed \in Nat
    BY <1>0, <1>1, Numbers DEF Fed
  <2>2. \A x \in 1..need :
          /\ Parsed < Len(frames)
          /\ data[x] = <<Parsed + 1, h + x>> /\ Stretch[x] = data[x]
    <3>1. ASSUME NEW x \in 1..need PROVE Fed + x <= HeaderSize /\ x \in 1..Len(data)
      BY <1>2, <2>1
    <3> QED BY <1>1, <2>1, <3>1, NextOfChunk
  <2>3. Parsed < Len(frames) /\ Stretch[need] = <<Parsed + 1, HeaderSize>>
    <3>1. need \in 1..need
      BY <1>2
    <3> QED BY <1>2, <2>2, <3>1
  <2>4. /\ first \in Seq(Place) /\ Len(first) = need
        /\ \A k \in 1..need : first[k] = data[k]
        /\ data' \in Seq(Place) /\ Len(data') = Len(data) - need
        /\ \A k \in 1..(Len(data) - need) : data'[k] = data[k + need]
    <3> DEFINE d == need
    <3>1. d \in 0..Len(data)
      BY <1>2
    <3> HIDE DEF d
    <3>2. /\ SubSeq(data, 1, d) \in Seq(Place) /\ Len(SubSeq(data, 1, d)) = d
          /\ \A k \in 1..d : SubSeq(data, 1, d)[k] = data[k]
          /\ SubSeq(data, d + 1, Len(data)) \in Seq(Place)
          /\ Len(SubSeq(data, d + 1, Len(data))) = Len(data) - d
          /\ \A k \in 1..(Len(data) - d) :
               SubSeq(data, d + 1, Len(data))[k] = data[k + d]
      BY <1>2, <3>1, Rest
    <3> QED BY <1>4, <3>2 DEF d
  <2>5. /\ header \in Seq(Place) /\ Len(header) = HeaderSize
        /\ \A k \in 1..HeaderSize : header[k] = <<Parsed + 1, k>>
    <3> HIDE DEF first
    <3>1. /\ header \in Seq(Place) /\ Len(header) = h + Len(first)
          /\ \A k \in 1..(h + Len(first)) :
               header[k] = IF k <= h THEN parser.header[k] ELSE first[k - h]
      BY <1>2, <2>4, ConcatProperties
    <3>2. ASSUME NEW k \in 1..HeaderSize PROVE header[k] = <<Parsed + 1, k>>
      <4> HIDE DEF header
      <4>1. k \in 1..(h + Len(first))
        BY <1>2, <2>4
      <4>2. CASE k <= h
        <5>1. k \in 1..h
          BY <1>2, <4>2
        <5>2. parser.header[k] = <<Parsed + 1, k>>
          BY <1>0, <1>1, <5>1 DEF PacketInv
        <5> QED BY <3>1, <4>1, <4>2, <5>2
      <4>3. CASE ~(k <= h)
        <5>1. k - h \in 1..need /\ h + (k - h) = k
          BY <1>2, <4>3
        <5> QED BY <2>2, <2>4, <3>1, <4>1, <4>3, <5>1
      <4> QED BY <4>2, <4>3
    <3> QED BY <1>2, <2>4, <3>1, <3>2
  <2>6. Length(header) = frames[Parsed + 1] /\ frames[Parsed + 1] \in Nat
    <3> DEFINE i == Parsed + 1
    <3> HIDE DEF header
    <3>1. header[1][1] = i
      BY <1>2, <2>5
    <3>2. /\ Bytes(i, 1, HeaderSize) \in Seq({i} \X Nat)
          /\ Len(Bytes(i, 1, HeaderSize)) = HeaderSize - 1 + 1
          /\ \A k \in 1..(HeaderSize - 1 + 1) :
               Bytes(i, 1, HeaderSize)[k] = <<i, 1 + k - 1>>
      <4>1. 1 \in Nat /\ HeaderSize \in Nat /\ 1 <= HeaderSize + 1
        BY <1>2
      <4> HIDE DEF i
      <4> QED BY ONLY <4>1, BytesSeq
    <3>3. i \in 1..MaxFrames /\ i \in 1..Len(frames)
      BY <1>0, <2>1, <2>3, FramesAssumption DEF TypeOK
    <3>4. Bytes(i, 1, HeaderSize) \in Seq(Place)
      <4>1. {i} \X Nat \subseteq Place
        BY <3>3 DEF Place
      <4> QED BY <3>2, <4>1, SeqMonotonic
    <3>5. header = Bytes(i, 1, HeaderSize)
      <4>1. HeaderSize - 1 + 1 = HeaderSize /\ \A k \in 1..HeaderSize : 1 + k - 1 = k
        BY <1>2
      <4>2. \A k \in 1..HeaderSize : Bytes(i, 1, HeaderSize)[k] = <<i, k>>
        BY <3>2, <4>1
      <4>3. \A k \in 1..Len(header) : header[k] = Bytes(i, 1, HeaderSize)[k]
        BY <2>5, <4>2
      <4> QED BY <2>5, <3>2, <3>4, <4>1, <4>3, SeqEqual
    <3>6. frames[i] \in Nat
      BY <1>0, <3>3, Totals
    <3> QED BY <3>1, <3>5, <3>6 DEF Length
  <2> HIDE DEF header
  <2>7. /\ parser' \in [at : {"body"}, length : Nat, body : Seq(Place)]
        /\ parser'.at = "body" /\ parser'.length = frames[Parsed + 1]
        /\ parser'.body = <<>> /\ Len(parser'.body) = 0
    BY <1>4, <2>6
  <2>8. UNCHANGED <<Total, LastWritten, Parsed>> /\ Fed' = HeaderSize
    <3>1. UNCHANGED <<Total, LastWritten, Parsed>>
      BY <1>1, <1>4 DEF Total, LastWritten, Before, Parsed
    <3>2. Fed' = HeaderSize
      BY <1>2, <2>7 DEF Fed
    <3> QED BY <3>1, <3>2
  <2>9. TypeOK' /\ WriterInv' /\ ChunkInv'
    BY <1>0, <1>1, <1>4, <2>4, <2>7, <2>8 DEF TypeOK, WriterInv, ChunkInv
  <2>10. BufferBounded'
    BY <1>4, <2>6, <2>7, FramesAssumption DEF BufferBounded
  <2>11. PacketInv'
    BY <1>0, <1>1, <1>4, <2>3, <2>6, <2>7, <2>8 DEF PacketInv, Packet
  <2>12. ByteInv'
    <3>1. LastFed' = Stretch[need]
      BY <1>2, <2>3, <2>8 DEF LastFed, Before
    <3> DEFINE d == need
    <3>2. /\ d \in 0..Len(data) /\ LastFed' = Stretch[d] /\ Len(data') = Len(data) - d
          /\ \A j \in 1..(Len(data) - d) : data'[j] = data[j + d]
      BY <1>2, <2>4, <3>1
    <3> HIDE DEF d
    <3> QED BY <1>1, <3>2, Takes
  <2> QED BY <2>9, <2>10, <2>11, <2>12 DEF ParserInv
<1> QED BY <1>3, <1>4 DEF FeedHeader

\* A part of a body is the part of it that the frame has next.
LEMMA BodyPartPreserves ==
  ASSUME ParserInv, FeedBodyPart
  PROVE  ParserInv'
<1> DEFINE d == Len(data)
           c == Len(parser.body)
<1>0. TypeOK /\ BufferBounded /\ WriterInv /\ ChunkInv /\ PacketInv /\ ByteInv
  BY DEF ParserInv
<1>1. /\ input = "feed" /\ input' = "put" /\ parser.at = "body"
      /\ d < parser.length - c /\ data' = <<>>
      /\ parser' = [parser EXCEPT !.body = @ \o data]
      /\ UNCHANGED <<output, frames, written, wire, packets, delivered>>
  BY DEF FeedBodyPart, BodyShort, Feeding, outputVars
<1>2. /\ parser \in [at : {"body"}, length : Nat, body : Seq(Place)]
      /\ parser.body \in Seq(Place) /\ parser.length \in Nat /\ data \in Seq(Place)
      /\ d \in Nat /\ c \in Nat /\ HeaderSize \in Nat \ {0}
  <2>1. parser \in [at : {"body"}, length : Nat, body : Seq(Place)]
    BY <1>0, <1>1, Shapes
  <2>2. parser.body \in Seq(Place) /\ data \in Seq(Place) /\ parser.length \in Nat
    BY <1>0, <2>1 DEF TypeOK
  <2> QED BY <2>1, <2>2, FramesAssumption, LenProperties
<1>3. /\ parser' \in [at : {"body"}, length : Nat, body : Seq(Place)]
      /\ parser'.at = "body" /\ parser'.length = parser.length
      /\ Len(parser'.body) = c + d
      /\ \A k \in 1..(c + d) : parser'.body[k] =
           IF k <= c THEN parser.body[k] ELSE data[k - c]
  <2>1. /\ parser.body \o data \in Seq(Place) /\ Len(parser.body \o data) = c + d
        /\ \A k \in 1..(c + d) : (parser.body \o data)[k] =
             IF k <= c THEN parser.body[k] ELSE data[k - c]
    BY <1>2, ConcatProperties
  <2>2. /\ parser'.at = "body" /\ parser'.body = parser.body \o data
        /\ parser'.length = parser.length
        /\ parser' \in [at : {"body"}, length : Nat, body : Seq(Place)]
    BY <1>1, <1>2, <2>1
  <2> QED BY <2>1, <2>2
<1>4. /\ Fed = HeaderSize + c /\ Fed' = HeaderSize + (c + d)
      /\ Parsed' = Parsed /\ Total' = Total
  BY <1>1, <1>3 DEF Fed, Parsed, Total
<1>5. /\ Parsed \in Nat /\ Parsed < Len(frames) /\ parser.length = frames[Parsed + 1]
      /\ Total[Parsed + 1] = HeaderSize + parser.length
  <2>1. Parsed \in Nat /\ Parsed < Len(frames) /\ parser.length = frames[Parsed + 1]
    BY <1>0, <1>1, Numbers DEF PacketInv
  <2>2. Parsed + 1 \in 1..Len(frames)
    BY <1>0, <2>1, Totals
  <2> QED BY <1>0, <2>1, <2>2, Totals
<1>6. \A x \in 1..d : /\ data[x] = <<Parsed + 1, HeaderSize + (c + x)>>
                       /\ Stretch[x] = data[x]
  <2>1. ASSUME NEW x \in 1..d
        PROVE  Fed + x <= Total[Parsed + 1] /\ Fed + x = HeaderSize + (c + x)
    BY <1>1, <1>2, <1>4, <1>5
  <2> QED BY <1>1, <1>5, <2>1, NextOfChunk
<1>7. TypeOK' /\ BufferBounded' /\ WriterInv' /\ ChunkInv'
  <2>1. Len(parser'.body) < parser'.length /\ parser'.length <= MaxReceive
    <3>1. parser.length <= MaxReceive
      BY <1>0, <1>1 DEF BufferBounded
    <3> QED BY <1>1, <1>2, <1>3, <3>1
  <2>2. TypeOK' /\ ChunkInv'
    BY <1>0, <1>1, <1>3, <2>1 DEF TypeOK, ChunkInv
  <2>3. BufferBounded'
    BY <1>2, <1>3, <2>1, FramesAssumption DEF BufferBounded
  <2>4. WriterInv'
    BY <1>0, <1>1, <1>4 DEF WriterInv, LastWritten
  <2> QED BY <2>2, <2>3, <2>4
<1>8. PacketInv'
  <2>1. ASSUME NEW k \in 1..(c + d)
        PROVE  parser'.body[k] = <<Parsed + 1, HeaderSize + k>>
    <3>1. CASE k <= c
      BY <1>0, <1>1, <1>2, <1>3, <3>1 DEF PacketInv
    <3>2. CASE ~(k <= c)
      <4>1. k - c \in 1..d /\ c + (k - c) = k
        BY <1>2, <3>2
      <4> QED BY <1>3, <1>6, <3>2, <4>1
    <3> QED BY <3>1, <3>2
  <2>2. Len(parser'.body) <= parser'.length
    BY <1>1, <1>2, <1>3
  <2> QED BY <1>0, <1>1, <1>3, <1>4, <1>5, <2>1, <2>2 DEF PacketInv, Packet
<1>9. LastFed' = Stretch[d]
  <2>1. LastFed' = <<Parsed + 1, HeaderSize + (c + d)>>
    BY <1>2, <1>4 DEF LastFed, Before
  <2>2. CASE d = 0
    <3>1. Stretch[0] = LastFed
      BY <1>0, Numbers DEF Stretch
    <3>2. LastFed = <<Parsed + 1, HeaderSize + c>>
      BY <1>2, <1>4 DEF LastFed, Before
    <3>3. c + d = c
      BY <1>2, <2>2
    <3> QED BY <2>1, <2>2, <3>1, <3>2, <3>3
  <2>3. CASE d # 0
    <3>1. d \in 1..d
      BY <1>2, <2>3
    <3> QED BY <1>6, <2>1, <3>1
  <2> QED BY <2>2, <2>3
<1>10. ByteInv'
  <2>1. Len(data') = 0 /\ d - d = 0 /\ d \in 0..d
    BY <1>1, <1>2
  <2>2. \A j \in 1..(d - d) : data'[j] = data[j + d]
    BY <2>1
  <2> QED BY <1>1, <1>9, <2>1, <2>2, Takes
<1> QED BY <1>7, <1>8, <1>10 DEF ParserInv

\* A complete body is the frame's, whole.
LEMMA BodyPreserves ==
  ASSUME ParserInv, FeedBody
  PROVE  ParserInv'
<1> DEFINE c == Len(parser.body)
           d == parser.length - c
           packet == parser.body \o SubSeq(data, 1, d)
<1>0. TypeOK /\ BufferBounded /\ WriterInv /\ ChunkInv /\ PacketInv /\ ByteInv
  BY DEF ParserInv
<1>1. /\ input = "feed" /\ parser.at = "body" /\ ~(Len(data) < d)
      /\ packets' = Append(packets, packet) /\ parser' = NewParser
      /\ data' = SubSeq(data, d + 1, Len(data))
      /\ UNCHANGED <<output, frames, written, wire, input, delivered>>
  BY DEF FeedBody, BodyShort, Feeding, outputVars
<1>2. /\ parser.body \in Seq(Place) /\ parser.length \in Nat /\ data \in Seq(Place)
      /\ Len(data) \in Nat /\ c \in Nat /\ HeaderSize \in Nat \ {0}
      /\ d \in 0..Len(data) /\ c + d = parser.length
  <2>1. parser \in [at : {"body"}, length : Nat, body : Seq(Place)]
    BY <1>0, <1>1, Shapes
  <2>2. parser.body \in Seq(Place) /\ data \in Seq(Place) /\ parser.length \in Nat
    BY <1>0, <2>1 DEF TypeOK
  <2>3. Len(data) \in Nat /\ c \in Nat /\ HeaderSize \in Nat \ {0}
    BY <2>2, FramesAssumption, LenProperties
  <2>4. c <= parser.length
    BY <1>0, <1>1 DEF PacketInv
  <2> QED BY <1>1, <2>2, <2>3, <2>4
<1>3. /\ Parsed \in Nat /\ Parsed < Len(frames) /\ parser.length = frames[Parsed + 1]
      /\ Parsed + 1 \in 1..Len(frames)
      /\ Total[Parsed + 1] = HeaderSize + parser.length
  <2>1. Parsed \in Nat /\ Parsed < Len(frames) /\ parser.length = frames[Parsed + 1]
    BY <1>0, <1>1, Numbers DEF PacketInv
  <2>2. Parsed + 1 \in 1..Len(frames)
    BY <1>0, <2>1, Totals
  <2> QED BY <1>0, <2>1, <2>2, Totals
<1>4. Fed = HeaderSize + c
  BY <1>1 DEF Fed
<1>5. \A x \in 1..d : /\ data[x] = <<Parsed + 1, HeaderSize + (c + x)>>
                       /\ Stretch[x] = data[x]
  <2>1. ASSUME NEW x \in 1..d
        PROVE  /\ Fed + x <= Total[Parsed + 1] /\ Fed + x = HeaderSize + (c + x)
               /\ x \in 1..Len(data)
    BY <1>2, <1>3, <1>4
  <2> QED BY <1>1, <1>3, <2>1, NextOfChunk
<1> HIDE DEF d
<1>6. /\ SubSeq(data, 1, d) \in Seq(Place) /\ Len(SubSeq(data, 1, d)) = d
      /\ \A k \in 1..d : SubSeq(data, 1, d)[k] = data[k]
      /\ data' \in Seq(Place) /\ Len(data') = Len(data) - d
      /\ \A k \in 1..(Len(data) - d) : data'[k] = data[k + d]
  BY <1>1, <1>2, Rest
<1>7. /\ packet \in Seq(Place) /\ Len(packet) = parser.length
      /\ \A k \in 1..parser.length : packet[k] = <<Parsed + 1, HeaderSize + k>>
  <2> DEFINE part == SubSeq(data, 1, d)
  <2>0. /\ part \in Seq(Place) /\ Len(part) = d
        /\ \A k \in 1..d : part[k] = data[k]
    BY <1>6
  <2> HIDE DEF part
  <2>1. /\ parser.body \o part \in Seq(Place) /\ Len(parser.body \o part) = c + d
        /\ \A k \in 1..(c + d) : (parser.body \o part)[k] =
             IF k <= c THEN parser.body[k] ELSE part[k - c]
    BY <1>2, <2>0, ConcatProperties
  <2>2. ASSUME NEW k \in 1..(c + d)
        PROVE  (parser.body \o part)[k] = <<Parsed + 1, HeaderSize + k>>
    <3>1. CASE k <= c
      <4>1. k \in 1..c
        BY <1>2, <3>1
      <4>2. parser.body[k] = <<Parsed + 1, HeaderSize + k>>
        BY <1>0, <1>1, <4>1 DEF PacketInv
      <4> QED BY <2>1, <3>1, <4>2
    <3>2. CASE ~(k <= c)
      <4>1. k - c \in 1..d /\ c + (k - c) = k
        BY <1>2, <3>2
      <4> QED BY <1>5, <2>0, <2>1, <3>2, <4>1
    <3> QED BY <3>1, <3>2
  <2> QED BY <1>2, <2>1, <2>2 DEF part
<1> HIDE DEF packet
<1>8. packet = Packet(Parsed + 1)
  <2> DEFINE i == Parsed + 1
             from == HeaderSize + 1
             to == HeaderSize + parser.length
  <2>1. /\ from \in Nat /\ to \in Nat /\ from <= to + 1
        /\ to - from + 1 = parser.length
        /\ \A k \in 1..parser.length : from + k - 1 = HeaderSize + k
    BY <1>2
  <2>2. i \in 1..MaxFrames
    BY <1>0, <1>3, FramesAssumption DEF TypeOK
  <2>3. Packet(i) = Bytes(i, from, to)
    BY <1>3 DEF Packet
  <2> HIDE DEF i, from, to
  <2>4. /\ Bytes(i, from, to) \in Seq({i} \X Nat)
        /\ Len(Bytes(i, from, to)) = to - from + 1
        /\ \A k \in 1..(to - from + 1) : Bytes(i, from, to)[k] = <<i, from + k - 1>>
    BY ONLY <2>1, BytesSeq
  <2>5. {i} \X Nat \subseteq Place
    BY <2>2 DEF Place
  <2>6. Bytes(i, from, to) \in Seq(Place) /\ Len(Bytes(i, from, to)) = parser.length
    BY <2>1, <2>4, <2>5, SeqMonotonic
  <2>7. \A k \in 1..Len(packet) : packet[k] = Bytes(i, from, to)[k]
    BY <1>7, <2>1, <2>4 DEF i
  <2>8. packet = Bytes(i, from, to)
    BY <1>7, <2>6, <2>7, SeqEqual
  <2> QED BY <2>3, <2>8 DEF i
<1>9. /\ packets' \in Seq(Seq(Place)) /\ Len(packets') = Len(packets) + 1
      /\ \A j \in 1..Len(packets) : packets'[j] = packets[j]
      /\ packets'[Len(packets) + 1] = packet
      /\ Len(packets) \in Nat /\ Len(delivered) \in Nat
  <2>1. packets \in Seq(Seq(Place)) /\ Len(packets) \in Nat /\ Len(delivered) \in Nat
    BY <1>0, Numbers DEF TypeOK
  <2> QED BY <1>1, <1>7, <2>1, AppendProperties
<1>10. /\ parser' \in [at : {"header"}, header : Seq(Place)] /\ parser'.at = "header"
       /\ parser'.header = <<>> /\ Len(parser'.header) = 0
  BY <1>1 DEF NewParser
<1>11. UNCHANGED <<Total, LastWritten>> /\ Parsed' = Parsed + 1 /\ Fed' = 0
  <2>1. UNCHANGED <<Total, LastWritten>>
    BY <1>1 DEF Total, LastWritten, Before
  <2>2. Parsed' = Parsed + 1
    BY <1>1, <1>9 DEF Parsed
  <2>3. Fed' = 0
    BY <1>10 DEF Fed
  <2> QED BY <2>1, <2>2, <2>3
<1>12. TypeOK' /\ BufferBounded' /\ WriterInv' /\ ChunkInv'
  <2>1. TypeOK'
    BY <1>0, <1>1, <1>6, <1>9, <1>10 DEF TypeOK
  <2>2. BufferBounded'
    BY <1>2, <1>10 DEF BufferBounded
  <2>3. WriterInv' /\ ChunkInv'
    BY <1>0, <1>1, <1>11 DEF WriterInv, ChunkInv
  <2> QED BY <2>1, <2>2, <2>3
<1>13. PacketInv'
  <2>1. Parsed' <= Len(frames')
    BY <1>0, <1>1, <1>3, <1>11, Totals
  <2>2. ASSUME NEW j \in 1..Len(packets')
        PROVE  packets'[j] = Packet(Len(delivered) + j)'
    <3>1. CASE j = Len(packets) + 1
      <4>1. Len(delivered) + j = Parsed + 1
        BY <1>9, <3>1 DEF Parsed
      <4> QED BY <1>1, <1>8, <1>9, <3>1, <4>1 DEF Packet
    <3>2. CASE j # Len(packets) + 1
      <4>1. j \in 1..Len(packets)
        BY <1>9, <3>2
      <4>2. packets[j] = Packet(Len(delivered) + j)
        BY <1>0, <1>1, <4>1 DEF PacketInv
      <4> QED BY <1>1, <1>9, <4>1, <4>2 DEF Packet
    <3> QED BY <3>1, <3>2
  <2>3. \A k \in 1..Len(parser'.header) : parser'.header[k] = <<Parsed' + 1, k>>
    BY <1>10
  <2> QED BY <1>1, <1>10, <2>1, <2>2, <2>3 DEF PacketInv
<1>14. LastFed' = Stretch[d]
  <2>1. LastFed' = <<Parsed + 1, Total[Parsed + 1]>>
    <3>1. ((Parsed + 1) + 1) - 1 = Parsed + 1
      BY <1>3
    <3> QED BY <1>11, <3>1 DEF LastFed, Before
  <2>2. CASE d = 0
    <3>1. Stretch[0] = LastFed
      BY <1>0, Numbers DEF Stretch
    <3>2. LastFed = <<Parsed + 1, HeaderSize + c>>
      BY <1>2, <1>4 DEF LastFed, Before
    <3>3. c = parser.length
      BY <1>2, <2>2
    <3> QED BY <1>3, <2>1, <2>2, <3>1, <3>2, <3>3
  <2>3. CASE d # 0
    <3>1. d \in 1..d
      BY <1>2, <2>3
    <3> QED BY <1>2, <1>3, <1>5, <2>1, <3>1
  <2> QED BY <2>2, <2>3
<1>15. ByteInv'
  BY <1>1, <1>2, <1>6, <1>14, Takes
<1> QED BY <1>12, <1>13, <1>15 DEF ParserInv

\* A packet is handed to ERTS, or the next receive begins.
LEMMA PutPreserves ==
  ASSUME ParserInv, PutData
  PROVE  ParserInv'
<1>0. TypeOK /\ BufferBounded /\ WriterInv /\ ChunkInv /\ PacketInv /\ ByteInv
  BY DEF ParserInv
<1>1. /\ input = "put"
      /\ UNCHANGED <<output, frames, written, wire, data, parser>>
      /\ \/ /\ packets # <<>> /\ delivered' = Append(delivered, Head(packets))
            /\ packets' = Tail(packets) /\ input' = "put"
         \/ packets = <<>> /\ input' = "recv" /\ UNCHANGED <<packets, delivered>>
  BY DEF PutData, outputVars
<1>2. /\ packets \in Seq(Seq(Place)) /\ Len(packets) \in Nat
      /\ delivered \in Seq(Seq(Place)) /\ Len(delivered) \in Nat
  BY <1>0, Numbers DEF TypeOK
<1>3. /\ packets' \in Seq(Seq(Place)) /\ Len(packets') \in Nat
      /\ delivered' \in Seq(Seq(Place)) /\ Len(delivered') \in Nat
      /\ Len(delivered') + Len(packets') = Len(delivered) + Len(packets)
  <2>1. CASE packets # <<>>
    <3>1. /\ Head(packets) \in Seq(Place) /\ packets' \in Seq(Seq(Place))
          /\ Len(packets') = Len(packets) - 1
      BY <1>1, <1>2, <2>1, HeadTailProperties
    <3>2. delivered' \in Seq(Seq(Place)) /\ Len(delivered') = Len(delivered) + 1
      <4> DEFINE packet == Head(packets)
      <4>1. packet \in Seq(Place) /\ delivered' = Append(delivered, packet)
        BY <1>1, <2>1, <3>1
      <4> HIDE DEF packet
      <4> QED BY <1>2, <4>1, AppendProperties
    <3>3. Len(packets') \in Nat
      BY <3>1, LenProperties
    <3> QED BY <1>2, <3>1, <3>2, <3>3
  <2>2. CASE packets = <<>>
    BY <1>1, <1>2, <2>2
  <2> QED BY <2>1, <2>2
<1>4. TypeOK' /\ BufferBounded' /\ ChunkInv'
  <2>1. TypeOK' /\ BufferBounded'
    BY <1>0, <1>1, <1>3 DEF TypeOK, BufferBounded
  <2>2. ChunkInv'
    BY <1>0, <1>1 DEF ChunkInv
  <2> QED BY <2>1, <2>2
<1>5. UNCHANGED <<Total, LastWritten, Parsed, LastFed, Ahead, Stretch>>
  <2>1. UNCHANGED <<Total, LastWritten, Parsed, Fed, Ahead>>
    BY <1>1, <1>3 DEF Total, LastWritten, Before, Parsed, Fed, Ahead
  <2>2. LastFed' = LastFed
    BY <2>1 DEF LastFed, Before
  <2> QED BY <1>1, <2>1, <2>2 DEF Stretch
<1>6. WriterInv' /\ ByteInv'
  BY <1>0, <1>1, <1>5 DEF WriterInv, ByteInv
<1>7. PacketInv'
  <2>1. ASSUME NEW j \in 1..Len(packets')
        PROVE  packets'[j] = Packet(Len(delivered) + j)'
    <3>1. CASE packets # <<>>
      <4>1. /\ Len(packets') = Len(packets) - 1
            /\ packets'[j] = packets[j + 1]
        BY <1>1, <1>2, <3>1, HeadTailProperties
      <4>2. j + 1 \in 1..Len(packets) /\ Len(delivered') = Len(delivered) + 1
        BY <1>2, <1>3, <4>1
      <4>4. Len(delivered) + (j + 1) = Len(delivered') + j
        BY <1>2, <4>2
      <4>3. packets[j + 1] = Packet(Len(delivered) + (j + 1))
        BY <1>0, <1>1, <4>2 DEF PacketInv
      <4> QED BY <1>1, <4>1, <4>3, <4>4 DEF Packet
    <3>2. CASE packets = <<>>
      BY <1>0, <1>1, <3>2 DEF PacketInv, Packet
    <3> QED BY <3>1, <3>2
  <2> QED BY <1>0, <1>1, <1>5, <2>1 DEF PacketInv
<1> QED BY <1>4, <1>6, <1>7 DEF ParserInv
------------------------------------------------------------------------------
(* The invariant and what follows from it *)

\* At the start nothing is on its way: the last byte fed and the last one written
\* are those of the imagined frame.
LEMMA InitParser == Init => ParserInv
<1> SUFFICES ASSUME Init PROVE ParserInv
  OBVIOUS
<1>1. /\ output = "ready" /\ frames = <<>> /\ written = 0 /\ wire = <<>>
      /\ input = "recv" /\ data = <<>> /\ packets = <<>> /\ delivered = <<>>
      /\ parser.at = "header" /\ parser.header = <<>>
      /\ parser \in [at : {"header"}, header : Seq(Place)]
  BY DEF Init, NewParser
<1>2. Len(frames) = 0 /\ HeaderSize \in Nat \ {0} /\ MaxFrames \in Nat
  BY <1>1, FramesAssumption
<1>3. TypeOK
  BY <1>1, <1>2 DEF TypeOK
<1>4. Total[0] = 1
  BY <1>3, Totals
<1>5. BufferBounded /\ WriterInv /\ ChunkInv
  BY <1>1, <1>2, <1>4 DEF BufferBounded, WriterInv, ChunkInv, LastWritten
<1>6. Parsed = 0 /\ Fed = 0 /\ Ahead = 0
  BY <1>1 DEF Parsed, Fed, Ahead
<1>7. PacketInv
  BY <1>1, <1>2, <1>6 DEF PacketInv
<1>8. LastFed = <<0, 1>> /\ LastWritten = <<0, 1>> /\ Stretch[0] = <<0, 1>>
  <2>1. LastFed = <<0, 1>>
    BY <1>4, <1>6 DEF LastFed, Before
  <2> QED BY <1>1, <1>6, <2>1 DEF LastWritten, Stretch
<1>9. ByteInv
  <2>1. \A j \in 0..0 : j = 0
    OBVIOUS
  <2> QED BY <1>2, <1>4, <1>6, <1>8, <2>1 DEF ByteInv, Linked
<1> QED BY <1>3, <1>5, <1>7, <1>9 DEF ParserInv

\* Every step keeps every byte in its place.
LEMMA NextPreserves == ParserInv /\ [Next]_vars => ParserInv'
<1> SUFFICES ASSUME ParserInv, [Next]_vars PROVE ParserInv'
  OBVIOUS
<1>1. CASE Tick \/ \E length \in 0..MaxLength : OutputData(length)
  <2>1. CASE output' = "exited" /\ UNCHANGED <<frames, written>>
    BY <1>1, <2>1, SendStarts, Unmoved DEF inputVars
  <2>2. CASE /\ output' = "writing" /\ written' = 0
             /\ \E length \in Nat : frames' = Append(frames, length)
    BY <1>1, <2>2, SendStarts, SendPreserves
  <2> QED BY <1>1, <2>1, <2>2, SendStarts
<1>2. CASE WriteAll
  BY <1>2, WritePreserves
<1>3. CASE \E n \in 1..ReceiveChunk : Receive(n)
  BY <1>3, ReceivePreserves
<1>4. CASE FeedHeaderPart
  BY <1>4, HeaderPartPreserves
<1>5. CASE FeedHeader
  BY <1>5, HeaderPreserves
<1>6. CASE FeedBodyPart
  BY <1>6, BodyPartPreserves
<1>7. CASE FeedBody
  BY <1>7, BodyPreserves
<1>8. CASE PutData
  BY <1>8, PutPreserves
<1>9. CASE SendFails \/ ReceiveFails \/ InputDies
  BY <1>9, Unmoved DEF SendFails, ReceiveFails, InputDies, outputVars, inputVars
<1>10. CASE UNCHANGED vars
  BY <1>10, Unmoved DEF vars, outputVars, inputVars
<1> QED
  BY <1>1, <1>2, <1>3, <1>4, <1>5, <1>6, <1>7, <1>8, <1>9, <1>10 DEF Next

\* However the stream cuts the bytes into chunks, they stay in their places and
\* the parser buffers no more than max_frame (parser_feed, input_loop).
THEOREM BytesInPlace == Spec => []ParserInv
BY InitParser, NextPreserves, PTL DEF Spec

\* stream_send_iodata_start accepts every frame that output_data admits, and the
\* empty one of dist_tick.
THEOREM AdmittedNeverRefused == Spec => []AdmittedFrameIsSent
<1>1. Init => AdmittedFrameIsSent
  BY DEF Init, AdmittedFrameIsSent
<1>2. AdmittedFrameIsSent /\ [Next]_vars => AdmittedFrameIsSent'
  <2> SUFFICES ASSUME AdmittedFrameIsSent, [Next]_vars PROVE AdmittedFrameIsSent'
    OBVIOUS
  <2>1. CASE Tick \/ \E length \in 0..MaxLength : OutputData(length)
    BY <2>1, SendStarts DEF AdmittedFrameIsSent
  <2>2. CASE WriteAll \/ SendFails
    BY <2>2 DEF WriteAll, SendFails, AdmittedFrameIsSent
  <2>3. CASE UNCHANGED output
    BY <2>3 DEF AdmittedFrameIsSent
  <2>4. \/ \E n \in 1..ReceiveChunk : Receive(n)
        \/ FeedHeaderPart \/ FeedHeader \/ FeedBodyPart \/ FeedBody
        \/ PutData \/ ReceiveFails \/ InputDies \/ UNCHANGED vars
        => UNCHANGED output
    BY DEF Receive, FeedHeaderPart, FeedHeader, FeedBodyPart, FeedBody,
           PutData, ReceiveFails, InputDies, outputVars, vars
  <2> QED BY <2>1, <2>2, <2>3, <2>4 DEF Next
<1> QED BY <1>1, <1>2, PTL DEF Spec

\* When the parser has been fed all that was written and the writer is between
\* two frames, input_loop has delivered every frame.
THEOREM NothingHeldBack == Spec => []NoFrameHeldBack
<1>1. ParserInv => NoFrameHeldBack
  <2> SUFFICES ASSUME ParserInv, output = "ready", input = "recv", wire = <<>>
               PROVE  Len(delivered) = Len(frames)
    BY DEF NoFrameHeldBack
  <2>0. TypeOK /\ WriterInv /\ ChunkInv /\ PacketInv /\ ByteInv /\ BufferBounded
    BY DEF ParserInv
  <2>1. data = <<>> /\ packets = <<>> /\ Ahead = 0 /\ Parsed = Len(delivered)
    BY <2>0, Numbers DEF ChunkInv, Ahead, Parsed
  <2>2. /\ Len(frames) \in Nat /\ Parsed \in Nat /\ Parsed <= Len(frames) /\ Fed \in Nat
        /\ HeaderSize \in Nat \ {0}
    BY <2>0, Numbers, Totals DEF PacketInv
  <2>3. LastFed = <<Len(frames), Total[Len(frames)]>>
    BY <2>0, <2>1 DEF ByteInv, WriterInv, Stretch
  <2>4. CASE Fed = 0
    <3>1. LastFed = <<(Parsed + 1) - 1, Total[(Parsed + 1) - 1]>>
      BY <2>4 DEF LastFed, Before
    <3> QED BY <2>1, <2>2, <2>3, <3>1
  <2>5. CASE Fed > 0
    <3>1. LastFed = <<Parsed + 1, Fed>>
      BY <2>5 DEF LastFed, Before
    <3>2. Parsed + 1 = Len(frames) /\ Fed = Total[Parsed + 1]
      BY <2>3, <3>1
    <3>3. /\ Parsed + 1 \in 1..Len(frames)
          /\ Total[Parsed + 1] = HeaderSize + frames[Parsed + 1]
          /\ frames[Parsed + 1] \in Nat
      BY <2>0, <2>2, <3>2, Totals
    <3>4. CASE parser.at = "header"
      <4>1. Fed < HeaderSize
        BY <2>0, <3>4 DEF Fed, BufferBounded
      <4> QED BY <2>2, <3>2, <3>3, <4>1
    <3>5. CASE parser.at = "body"
      <4>1. /\ Len(parser.body) < frames[Parsed + 1] /\ Fed = HeaderSize + Len(parser.body)
            /\ Len(parser.body) \in Nat
        BY <2>0, <3>5, Numbers DEF ChunkInv, PacketInv, Fed
      <4> QED BY <2>2, <3>2, <3>3, <4>1
    <3> QED BY <2>0, <3>4, <3>5, Numbers
  <2> QED BY <2>2, <2>4, <2>5
<1> QED BY <1>1, BytesInPlace, PTL
------------------------------------------------------------------------------
(* The link implements the channel *)

\* The frames handed to the link, as the channel sees them.
Sent == [i \in 1..Len(frames) |-> Packet(i)]

\* A step that leaves the frames alone leaves what was sent alone.
LEMMA SentUnchanged == UNCHANGED frames => UNCHANGED Sent
BY DEF Sent, Packet

\* A new frame is added behind those sent.
LEMMA SentGrows ==
  ASSUME TypeOK, NEW length \in Nat, frames' = Append(frames, length)
  PROVE  Len(Sent') = Len(Sent) + 1 /\ SubSeq(Sent', 1, Len(Sent)) = Sent
<1> DEFINE n == Len(frames)
<1>1. /\ n \in Nat /\ Len(frames') = n + 1 /\ \A i \in 1..n : frames'[i] = frames[i]
  <2>1. frames \in Seq(Nat)
    BY DEF TypeOK
  <2> QED BY <2>1, AppendProperties, LenProperties
<1> HIDE DEF n
<1>2. Sent = [i \in 1..n |-> Packet(i)]
  BY DEF Sent, n
<1>3. DOMAIN Sent' = 1..(n + 1) /\ \A i \in 1..n : Sent'[i] = Sent[i]
  <2>1. Sent' = [i \in 1..(n + 1) |-> Packet(i)']
    BY <1>1 DEF Sent
  <2>2. \A i \in 1..n : Packet(i)' = Packet(i) /\ i \in 1..(n + 1)
    BY <1>1 DEF Packet
  <2> QED BY <1>2, <2>1, <2>2
<1> DEFINE S == {Sent'[i] : i \in 1..(n + 1)}
           more == Sent'
<1>4. more \in [1..(n + 1) -> S] /\ \A i \in 1..n : more[i] = Sent[i] /\ more[i] \in S
  <2>1. \E f : Sent' = [i \in 1..(n + 1) |-> f[i]]
    BY <1>1, <1>3 DEF Sent
  <2>2. \A i \in 1..n : i \in 1..(n + 1)
    BY <1>1
  <2> QED BY <1>3, <2>1, <2>2
<1>5. Sent \in [1..n -> S]
  <2>1. \A i \in 1..n : Sent[i] \in S
    BY <1>4
  <2> QED BY <1>2, <2>1
<1> HIDE DEF S, more
<1>6. more \in Seq(S) /\ Len(more) = n + 1 /\ Sent \in Seq(S) /\ Len(Sent) = n
  <2>1. n + 1 \in Nat
    BY <1>1
  <2>2. more \in Seq(S) /\ Sent \in Seq(S)
    BY <1>1, <1>4, <1>5, <2>1, SeqDef
  <2> QED BY <1>1, <1>4, <1>5, <2>1, <2>2, LenProperties
<1>7. SubSeq(more, 1, n) = Sent
  <2>1. /\ SubSeq(more, 1, n) \in Seq(S) /\ Len(SubSeq(more, 1, n)) = n
        /\ \A k \in 1..n : SubSeq(more, 1, n)[k] = more[k]
    BY <1>1, <1>6, Rest
  <2> QED BY <1>4, <1>6, <2>1, SeqEqual
<1> QED BY <1>6, <1>7 DEF more

\* The packet at the head is the next of those sent.
LEMMA DeliversNext ==
  ASSUME ParserInv, input = "put", packets # <<>>
  PROVE  Len(delivered) < Len(Sent) /\ Head(packets) = Sent[Len(delivered) + 1]
<1>0. TypeOK /\ PacketInv
  BY DEF ParserInv
<1>1. /\ packets \in Seq(Seq(Place)) /\ Len(packets) \in Nat \ {0}
      /\ Len(delivered) \in Nat /\ Len(frames) \in Nat
  BY <1>0, Numbers, Totals, EmptySeq DEF TypeOK
<1>2. Len(delivered) + Len(packets) <= Len(frames)
  BY <1>0 DEF PacketInv, Parsed
<1>3. Len(delivered) + 1 \in 1..Len(frames)
  BY <1>1, <1>2
<1>4. Head(packets) = Packet(Len(delivered) + 1)
  <2>1. 1 \in 1..Len(packets)
    BY <1>1
  <2>2. packets[1] = Packet(Len(delivered) + 1)
    BY <1>0, <2>1 DEF PacketInv
  <2> QED BY <1>1, <2>2
<1>5. Len(Sent) = Len(frames)
  <2> DEFINE n == Len(frames)
             S == {Packet(i) : i \in 1..n}
  <2>1. Sent \in [1..n -> S] /\ n \in Nat
    BY <1>1 DEF Sent
  <2> HIDE DEF n, S
  <2>2. Sent \in Seq(S)
    BY <2>1, SeqDef
  <2>3. Len(Sent) = n
    BY <2>1, <2>2, LenProperties
  <2> QED BY <2>3 DEF n
<1> QED BY <1>1, <1>3, <1>4, <1>5 DEF Sent

\* Each step of the link is a step of the channel: output_data and dist_tick send,
\* dist_ctrl_put_data delivers, and no other step is seen.
THEOREM FramesDelivered == Spec => ImplementsChannel
<1>1. Init => Channel!Init
  <2> SUFFICES ASSUME Init PROVE Sent = <<>> /\ delivered = <<>>
    BY DEF Channel!Init, Sent
  <2>1. frames = <<>> /\ delivered = <<>>
    BY DEF Init
  <2> QED BY <2>1 DEF Sent
<1>2. ParserInv /\ [Next]_vars => [Channel!Next]_<<Sent, delivered>>
  <2> SUFFICES ASSUME ParserInv, [Next]_vars
               PROVE  Channel!Next \/ UNCHANGED <<Sent, delivered>>
    OBVIOUS
  <2>1. CASE Tick \/ \E length \in 0..MaxLength : OutputData(length)
    <3>1. CASE UNCHANGED frames
      BY <2>1, <3>1, SendStarts, SentUnchanged DEF inputVars
    <3>2. CASE \E length \in Nat : frames' = Append(frames, length)
      <4>1. Len(Sent') = Len(Sent) + 1 /\ SubSeq(Sent', 1, Len(Sent)) = Sent
        BY <3>2, SentGrows DEF ParserInv
      <4>2. UNCHANGED delivered
        BY <2>1, SendStarts DEF inputVars
      <4> QED BY <4>1, <4>2 DEF Channel!Next, Channel!Send, Sent
    <3> QED BY <2>1, <3>1, <3>2, SendStarts
  <2>2. CASE PutData
    <3>1. UNCHANGED Sent
      BY <2>2, SentUnchanged DEF PutData, outputVars
    <3>2. CASE packets = <<>>
      BY <2>2, <3>1, <3>2 DEF PutData
    <3>3. CASE packets # <<>>
      <4>1. input = "put" /\ delivered' = Append(delivered, Head(packets))
        BY <2>2, <3>3 DEF PutData
      <4>2. /\ Len(delivered) < Len(Sent)
            /\ delivered' = Append(delivered, Sent[Len(delivered) + 1])
        BY <3>3, <4>1, DeliversNext
      <4> QED BY <3>1, <4>2 DEF Channel!Next, Channel!Deliver, Sent
    <3> QED BY <3>2, <3>3
  <2>3. CASE UNCHANGED <<frames, delivered>>
    BY <2>3, SentUnchanged
  <2>4. \/ WriteAll \/ SendFails \/ \E n \in 1..ReceiveChunk : Receive(n)
        \/ FeedHeaderPart \/ FeedHeader \/ FeedBodyPart \/ FeedBody
        \/ ReceiveFails \/ InputDies \/ UNCHANGED vars
        => UNCHANGED <<frames, delivered>>
    BY DEF WriteAll, SendFails, Receive, FeedHeaderPart, FeedHeader,
       FeedBodyPart,
           FeedBody, ReceiveFails, InputDies, outputVars, inputVars, vars
  <2> QED BY <2>1, <2>2, <2>3, <2>4 DEF Next
<1> QED
  BY <1>1, <1>2, BytesInPlace, PTL DEF Spec, ImplementsChannel, Channel!Spec,
     Sent
==============================================================================
