--------------------------- MODULE SendQueueProofs ---------------------------
(***************************************************************************)
(* Proofs about SendQueue, for any lengths of frames and any bounds: the   *)
(* frames that are written are read whole and in order by the server,      *)
(* those of the server by the client, in whatever pieces they are sent.    *)
(***************************************************************************)
EXTENDS SendQueue, SequenceTheorems, TLAPS

Size(f) == LenBytes + f.len

(***************************************************************************)
(* What was written.                                                       *)
(***************************************************************************)
\* Frames are numbered as they are made, and a frame is queued once.
NumbersInv ==
    /\ \A i \in DOMAIN to_send : to_send[i].frame.id <= made
    /\ \A i, j \in DOMAIN to_send : to_send[i].frame.id = to_send[j].frame.id => i = j
    /\ \A i \in DOMAIN wire : wire[i][1].id <= made

\* Of a frame that still waits, what was written is what its offset says.
WrittenInv ==
    \A i \in DOMAIN wire, j \in DOMAIN to_send :
        wire[i][1] = to_send[j].frame => wire[i][2] <= to_send[j].curr_offset

\* Nothing is written before the handshake has ended.
SilentInv ==
    zstate \notin {"CONNECTED", "FREED"} =>
        wire = <<>> /\ ~ cut /\ \A i \in DOMAIN to_send : to_send[i].curr_offset = 0

\* Unless a frame was put in front of it, only the head is partly written, and the wire
\* ends with the last of its bytes that are out.
EndInv ==
    ~ cut /\ zstate # "FREED" =>
        /\ \A i \in DOMAIN to_send : i > 1 => to_send[i].curr_offset = 0
        /\ IF PartlyWritten(to_send)
           THEN wire # <<>> /\ wire[Len(wire)] = <<Head(to_send).frame, Head(to_send).curr_offset>>
           ELSE wire = <<>> \/ LastByte(wire[Len(wire)])

OutInv == NumbersInv /\ WrittenInv /\ SilentInv /\ EndInv /\ WireIsFramed /\ RequestsKeepOrder

(***************************************************************************)
(* What was read.                                                          *)
(***************************************************************************)
\* The frames of a connection begin at these places of its stream, one behind the other.
Starts(st, frames) ==
    /\ st \in [Nat -> Nat]
    /\ \A k \in 1 .. Len(frames) : st[k + 1] = st[k] + Size(frames[k])
    /\ \A j, k \in 1 .. Len(frames) + 1 : j < k => st[j] < st[k]

\* The stream s is what follows the frames before the n-th, to the end of the last.
Follows(s, frames, n, st) ==
    /\ st[n] + Len(s) = st[Len(frames) + 1]
    /\ \A i \in 1 .. Len(s) : \E k \in n .. Len(frames) :
         /\ st[k] < st[n] + i /\ st[n] + i <= st[k + 1]
         /\ s[i] = <<frames[k], st[n] + i - st[k]>>

read == dispatched \o to_process
rest == input_buffer.data \o s2c

Reading == zstate \in {"ASSOCIATING", "CONNECTED"}

\* What was read is the first frames of the server.
ReadInv ==
    /\ Len(read) <= Len(answers)
    /\ \A i \in DOMAIN read : read[i] = Bytes(answers[i])

\* What was read of the next frame and what the socket still holds are the frames behind
\* those that were read.
RestInv == Reading => \E st : Starts(st, answers) /\ Follows(rest, answers, Len(read) + 1, st)

\* The buffer says how much of its frame it has, and how long that is.
BufferInv ==
    LET b == input_buffer IN
    /\ zstate \in {"NONE", "ASSOCIATING"} => dispatched = <<>> /\ to_process = <<>>
    /\ zstate = "ASSOCIATING" =>
         /\ answers = <<Frame(0, "primer", PrimerLength)>>
         /\ b.len = Size(answers[1]) /\ b.curr_offset = LenBytes + Len(b.data)
         /\ Len(b.data) < b.len
    /\ zstate = "CONNECTED" =>
         /\ b.curr_offset = Len(b.data)
         /\ b.curr_offset >= LenBytes => /\ b.len = answers[Len(read) + 1].len
                                         /\ b.curr_offset < LenBytes + b.len

InInv == ReadInv /\ RestInv /\ BufferInv

-----------------------------------------------------------------------------
(* Bytes.                                                                  *)

\* The bounds and lengths are numbers, and no frame is empty.
LEMMA Sizes ==
    /\ LenBytes = 4 /\ MaxFrames \in Nat /\ MaxServed \in Nat /\ MaxLosses \in Nat
    /\ PrimerLength \in Nat \ {0} /\ Lengths \subseteq Nat \ {0}
    /\ \A f \in Frames : f.id \in Nat /\ f.len \in Nat \ {0} /\ Size(f) = 4 + f.len
  BY BoundsAssumption DEF LenBytes, Frames, Size

\* A function on 1..n is a sequence.
LEMMA FunctionAsSequence ==
    ASSUME NEW S, NEW n \in Nat, NEW f \in [1 .. n -> S]
    PROVE  f \in Seq(S) /\ Len(f) = n
OBVIOUS

\* The bytes of a frame.
LEMMA BytesOf ==
    ASSUME NEW f \in Frames
    PROVE  /\ Bytes(f) \in Streams /\ Len(Bytes(f)) = Size(f) /\ Size(f) \in Nat
           /\ \A i \in 1 .. Size(f) : Bytes(f)[i] = <<f, i>>
<1>1. f.len \in Nat /\ Size(f) = 4 + f.len /\ LenBytes = 4
  BY Sizes
<1>2. Size(f) \in Nat /\ Bytes(f) = [i \in 1 .. Size(f) |-> <<f, i>>]
  BY <1>1 DEF Bytes, Size
<1>3. Bytes(f) \in [1 .. Size(f) -> Frames \X Nat]
  BY <1>2
<1> HIDE DEF Bytes
<1>4. Bytes(f) \in Seq(Frames \X Nat) /\ Len(Bytes(f)) = Size(f)
  BY <1>2, <1>3, FunctionAsSequence, Zenon
<1> QED
  BY <1>2, <1>4 DEF Streams

\* A part of a stream.
LEMMA PartOf ==
    ASSUME NEW S, NEW s \in Seq(S), NEW m \in Nat \ {0}, NEW n \in Nat, n <= Len(s)
    PROVE  /\ SubSeq(s, m, n) \in Seq(S)
           /\ Len(SubSeq(s, m, n)) = IF m <= n THEN n - m + 1 ELSE 0
           /\ \A i \in 1 .. n - m + 1 : SubSeq(s, m, n)[i] = s[m + i - 1]
<1>1. \A i \in m .. n : s[i] \in S
  BY LenProperties
<1> QED
  BY <1>1, SubSeqProperties

\* The rest of the header that send_buffer sends.
LEMMA HeaderBytes ==
    ASSUME NEW b \in Buffers, b.curr_offset < Size(b.frame)
    PROVE  /\ RestOfHeader(b) \in Streams
           /\ Len(RestOfHeader(b)) = IF b.curr_offset < LenBytes THEN LenBytes - b.curr_offset ELSE 0
           /\ \A i \in 1 .. Len(RestOfHeader(b)) :
                 RestOfHeader(b)[i] = <<b.frame, b.curr_offset + i>>
<1> DEFINE f == b.frame
           off == b.curr_offset
           h == Header(f)
<1>1. f \in Frames /\ off \in Nat /\ LenBytes = 4 /\ Size(f) \in Nat /\ Size(f) > 4
  BY Sizes, BytesOf DEF Buffers
<1>2. /\ Bytes(f) \in Streams /\ Len(Bytes(f)) = Size(f)
      /\ \A i \in 1 .. Size(f) : Bytes(f)[i] = <<f, i>>
  BY <1>1, BytesOf
<1>3. h \in Streams /\ Len(h) = 4 /\ \A i \in 1 .. 4 : h[i] = <<f, i>>
  BY <1>1, <1>2, PartOf DEF Streams, Header
<1>4. RestOfHeader(b) = SubSeq(h, off + 1, 4)
  BY <1>1 DEF RestOfHeader
<1> HIDE DEF h, f, off
<1>5. /\ SubSeq(h, off + 1, 4) \in Streams
      /\ Len(SubSeq(h, off + 1, 4)) = IF off < 4 THEN 4 - off ELSE 0
      /\ \A i \in 1 .. 4 - off : SubSeq(h, off + 1, 4)[i] = h[off + i]
  <2>1. /\ SubSeq(h, off + 1, 4) \in Streams
        /\ Len(SubSeq(h, off + 1, 4)) = IF off + 1 <= 4 THEN 4 - (off + 1) + 1 ELSE 0
        /\ \A i \in 1 .. 4 - (off + 1) + 1 : SubSeq(h, off + 1, 4)[i] = h[off + 1 + i - 1]
    BY <1>1, <1>3, PartOf DEF Streams
  <2> QED
    BY <2>1, <1>1
<1> DEFINE r == RestOfHeader(b)
<1> HIDE DEF r
<1>6. r \in Streams /\ Len(r) = IF off < 4 THEN 4 - off ELSE 0
  BY <1>4, <1>5 DEF r
<1>7. ASSUME NEW i \in 1 .. Len(r) PROVE r[i] = <<f, off + i>>
  <2>1. off < 4 /\ i \in 1 .. 4 - off /\ off + i \in 1 .. 4
    BY <1>1, <1>6
  <2> QED
    BY <2>1, <1>3, <1>4, <1>5 DEF r
<1> QED
  BY <1>1, <1>6, <1>7 DEF f, off, r

\* The rest of the payload.
LEMMA PayloadBytes ==
    ASSUME NEW b \in Buffers, NEW off \in Nat, LenBytes <= off, off <= Size(b.frame)
    PROVE  /\ RestOfPayload(b, off) \in Streams
           /\ Len(RestOfPayload(b, off)) = Size(b.frame) - off
           /\ \A i \in 1 .. Len(RestOfPayload(b, off)) :
                 RestOfPayload(b, off)[i] = <<b.frame, off + i>>
<1> DEFINE f == b.frame
           n == f.len
           p == Payload(f)
<1>1. f \in Frames /\ LenBytes = 4 /\ Size(f) = 4 + n /\ n \in Nat \ {0}
  BY Sizes DEF Buffers
<1>2. /\ Bytes(f) \in Streams /\ Len(Bytes(f)) = Size(f)
      /\ \A i \in 1 .. Size(f) : Bytes(f)[i] = <<f, i>>
  BY <1>1, BytesOf
<1>3. p \in Streams /\ Len(p) = n /\ \A i \in 1 .. n : p[i] = <<f, 4 + i>>
  <2>1. p = SubSeq(Bytes(f), 5, 4 + n)
    BY <1>1 DEF Payload
  <2> HIDE DEF p, n, f
  <2>2. /\ SubSeq(Bytes(f), 5, 4 + n) \in Streams
        /\ Len(SubSeq(Bytes(f), 5, 4 + n)) = IF 5 <= 4 + n THEN 4 + n - 5 + 1 ELSE 0
        /\ \A i \in 1 .. 4 + n - 5 + 1 : SubSeq(Bytes(f), 5, 4 + n)[i] = Bytes(f)[5 + i - 1]
    BY <1>1, <1>2, PartOf DEF Streams
  <2> QED
    BY <2>1, <2>2, <1>1, <1>2
<1>4. RestOfPayload(b, off) = SubSeq(p, off - 4 + 1, n)
  BY <1>1 DEF RestOfPayload
<1>5. off <= 4 + n /\ off >= 4
  BY <1>1
<1> HIDE DEF p, n, f
<1>6. /\ SubSeq(p, off - 4 + 1, n) \in Streams
      /\ Len(SubSeq(p, off - 4 + 1, n)) = IF off - 4 + 1 <= n THEN n - (off - 4 + 1) + 1 ELSE 0
      /\ \A i \in 1 .. n - (off - 4 + 1) + 1 : SubSeq(p, off - 4 + 1, n)[i] = p[off - 4 + 1 + i - 1]
  BY <1>1, <1>3, <1>5, PartOf DEF Streams
<1>7. Len(SubSeq(p, off - 4 + 1, n)) = 4 + n - off
  BY <1>1, <1>5, <1>6
<1> DEFINE r == RestOfPayload(b, off)
<1> HIDE DEF r
<1>8. r \in Streams /\ Len(r) = 4 + n - off
  BY <1>4, <1>6, <1>7, Zenon DEF r, Streams
<1>9. ASSUME NEW i \in 1 .. 4 + n - off PROVE r[i] = <<f, off + i>>
  <2>1. PICK j \in 1 .. n : j = off - 4 + 1 + i - 1 /\ 4 + j = off + i
    BY <1>1, <1>5
  <2>2. SubSeq(p, off - 4 + 1, n)[i] = p[off - 4 + 1 + i - 1]
    <3>1. n - (off - 4 + 1) + 1 = 4 + n - off
      BY <1>1, <1>5
    <3> QED
      BY <3>1, <1>6
  <2>3. r[i] = p[j]
    BY <2>1, <2>2, <1>4, Zenon DEF r
  <2> QED
    BY <2>1, <2>3, <1>3, Zenon
<1>10. Len(r) = Size(f) - off /\ \A i \in 1 .. Len(r) : r[i] = <<f, off + i>>
  BY <1>1, <1>8, <1>9
<1> QED
  BY <1>8, <1>10, Zenon DEF f, r

\* How much of the header and of the payload one call of send_buffer can take.
Pieces(b, k1, k2) ==
    /\ k1 \in 0 .. Len(RestOfHeader(b))
    /\ k2 \in 0 .. (IF b.curr_offset + k1 >= LenBytes
                    THEN Len(RestOfPayload(b, b.curr_offset + k1)) ELSE 0)

\* What send_buffer writes is the next bytes of the frame, from its offset on.
LEMMA WrittenBytes ==
    ASSUME NEW b \in Buffers, b.curr_offset < Size(b.frame), NEW k1, NEW k2, Pieces(b, k1, k2)
    PROVE  /\ k1 \in Nat /\ k2 \in Nat /\ b.curr_offset + k1 + k2 <= Size(b.frame)
           /\ Written(b, k1, k2) \in Streams /\ Len(Written(b, k1, k2)) = k1 + k2
           /\ \A i \in 1 .. k1 + k2 : Written(b, k1, k2)[i] = <<b.frame, b.curr_offset + i>>
<1> DEFINE f == b.frame
           off == b.curr_offset
           h == RestOfHeader(b)
           p == RestOfPayload(b, off + k1)
           x == SubSeq(h, 1, k1)
           y == IF off + k1 >= 4 THEN SubSeq(p, 1, k2) ELSE <<>>
<1>1. f \in Frames /\ off \in Nat /\ LenBytes = 4 /\ Size(f) \in Nat /\ Size(f) > 4 /\ off < Size(f)
  BY Sizes, BytesOf DEF Buffers
<1>2. /\ h \in Streams /\ Len(h) = IF off < 4 THEN 4 - off ELSE 0
      /\ \A i \in 1 .. Len(h) : h[i] = <<f, off + i>>
  BY <1>1, HeaderBytes
<1>3. k1 \in Nat /\ k1 <= Len(h) /\ off + k1 \in Nat /\ off + k1 <= Size(f)
  BY <1>1, <1>2 DEF Pieces
<1>4. off + k1 >= 4 => /\ p \in Streams /\ Len(p) = Size(f) - (off + k1)
                       /\ \A i \in 1 .. Len(p) : p[i] = <<f, off + k1 + i>>
  BY <1>1, <1>3, PayloadBytes
<1>5. /\ k2 \in Nat
      /\ off + k1 >= 4 => k2 <= Len(p)
      /\ off + k1 < 4 => k2 = 0
  BY <1>1, <1>3, <1>4 DEF Pieces
<1>6. Written(b, k1, k2) = x \o y
  BY <1>1 DEF Written
<1> HIDE DEF f, off, h, p
<1>7. x \in Streams /\ Len(x) = k1 /\ \A i \in 1 .. k1 : x[i] = <<f, off + i>>
  <2>1. /\ SubSeq(h, 1, k1) \in Streams
        /\ Len(SubSeq(h, 1, k1)) = IF 1 <= k1 THEN k1 - 1 + 1 ELSE 0
        /\ \A i \in 1 .. k1 - 1 + 1 : SubSeq(h, 1, k1)[i] = h[1 + i - 1]
    BY <1>2, <1>3, PartOf DEF Streams
  <2> QED
    BY <2>1, <1>2, <1>3
<1>8. y \in Streams /\ Len(y) = k2 /\ \A i \in 1 .. k2 : y[i] = <<f, off + k1 + i>>
  <2>1. CASE off + k1 >= 4
    <3>1. /\ SubSeq(p, 1, k2) \in Streams
          /\ Len(SubSeq(p, 1, k2)) = IF 1 <= k2 THEN k2 - 1 + 1 ELSE 0
          /\ \A i \in 1 .. k2 - 1 + 1 : SubSeq(p, 1, k2)[i] = p[1 + i - 1]
      BY <1>4, <1>5, <2>1, PartOf DEF Streams
    <3>2. y = SubSeq(p, 1, k2)
      BY <2>1
    <3> HIDE DEF y
    <3> QED
      BY <3>1, <3>2, <1>4, <1>5, <2>1
  <2>2. CASE ~(off + k1 >= 4)
    BY <2>2, <1>1, <1>3, <1>5, EmptySeq DEF Streams
  <2> QED
    BY <2>1, <2>2
<1> HIDE DEF x, y
<1>9. /\ x \o y \in Streams /\ Len(x \o y) = k1 + k2
      /\ \A i \in 1 .. k1 + k2 : (x \o y)[i] = <<f, off + i>>
  <2>1. /\ x \o y \in Streams /\ Len(x \o y) = Len(x) + Len(y)
        /\ \A i \in 1 .. Len(x) + Len(y) : (x \o y)[i] =
               IF i <= Len(x) THEN x[i] ELSE y[i - Len(x)]
    BY <1>7, <1>8, ConcatProperties DEF Streams
  <2>2. ASSUME NEW i \in 1 .. k1 + k2 PROVE (x \o y)[i] = <<f, off + i>>
    <3>1. CASE i <= k1
      BY <2>1, <1>3, <1>5, <1>7, <3>1
    <3>2. CASE ~(i <= k1)
      <4>1. i - k1 \in 1 .. k2 /\ off + k1 + (i - k1) = off + i
        BY <3>2, <1>1, <1>3, <1>5
      <4>2. (x \o y)[i] = y[i - k1]
        BY <2>1, <1>3, <1>5, <1>7, <1>8, <3>2
      <4> QED
        BY <4>1, <4>2, <1>8
    <3> QED
      BY <3>1, <3>2
  <2> QED
    BY <2>1, <2>2, <1>7, <1>8
<1>10. off + k1 + k2 <= Size(f)
  BY <1>1, <1>3, <1>4, <1>5
<1> QED
  BY <1>3, <1>5, <1>6, <1>9, <1>10 DEF f, off

-----------------------------------------------------------------------------
(* Queues.                                                                 *)

\* A frame at the back of a queue.
LEMMA AtBack ==
    ASSUME NEW q \in Seq(Buffers), NEW f \in Frames
    PROVE  /\ QueueBack(q, f) \in Seq(Buffers) /\ Len(QueueBack(q, f)) = Len(q) + 1
           /\ \A i \in 1 .. Len(q) : QueueBack(q, f)[i] = q[i]
           /\ QueueBack(q, f)[Len(q) + 1] = [frame |-> f, curr_offset |-> 0]
<1> DEFINE e == [frame |-> f, curr_offset |-> 0]
<1>1. e \in Buffers
  BY DEF Buffers
<1>2. QueueBack(q, f) = Append(q, e)
  BY DEF QueueBack, Outgoing
<1> HIDE DEF e
<1>3. /\ Append(q, e) \in Seq(Buffers) /\ Len(Append(q, e)) = Len(q) + 1
      /\ \A i \in 1 .. Len(q) : Append(q, e)[i] = q[i]
      /\ Append(q, e)[Len(q) + 1] = e
  BY <1>1
<1> QED
  BY <1>2, <1>3 DEF e

\* A frame in front of a queue.
LEMMA InFront ==
    ASSUME NEW q \in Seq(Buffers), NEW f \in Frames
    PROVE  /\ QueueFront(q, f) \in Seq(Buffers) /\ Len(QueueFront(q, f)) = Len(q) + 1
           /\ QueueFront(q, f)[1] = [frame |-> f, curr_offset |-> 0]
           /\ \A i \in 2 .. Len(q) + 1 : QueueFront(q, f)[i] = q[i - 1]
<1> DEFINE e == [frame |-> f, curr_offset |-> 0]
<1>1. e \in Buffers
  BY DEF Buffers
<1>2. QueueFront(q, f) = <<e>> \o q
  BY DEF QueueFront, Outgoing
<1> HIDE DEF e
<1>3. <<e>> \in Seq(Buffers) /\ Len(<<e>>) = 1 /\ <<e>>[1] = e
  BY <1>1
<1>4. /\ <<e>> \o q \in Seq(Buffers) /\ Len(<<e>> \o q) = 1 + Len(q)
      /\ \A i \in 1 .. 1 + Len(q) : (<<e>> \o q)[i] = IF i <= 1 THEN <<e>>[i] ELSE q[i - 1]
  BY <1>3, ConcatProperties
<1>5. Len(q) \in Nat
  OBVIOUS
<1>6. (<<e>> \o q)[1] = e
  BY <1>3, <1>4, <1>5
<1> QED
  BY <1>2, <1>4, <1>5, <1>6 DEF e

\* The head of a queue.
LEMMA HeadOf ==
    ASSUME NEW S, NEW q \in Seq(S), q # <<>>
    PROVE  /\ Head(q) = q[1] /\ Head(q) \in S /\ Len(q) \in Nat \ {0} /\ 1 \in DOMAIN q
           /\ Tail(q) \in Seq(S) /\ Len(Tail(q)) = Len(q) - 1
           /\ \A i \in 1 .. Len(q) - 1 : Tail(q)[i] = q[i + 1]
<1>1. Len(q) \in Nat \ {0} /\ Head(q) = q[1]
  BY EmptySeq
<1> QED
  BY <1>1, HeadTailProperties

\* Whether the head of a queue is partly written.
LEMMA PartlyHead ==
    ASSUME NEW q \in Seq(Buffers)
    PROVE  /\ PartlyWritten(q) <=> Len(q) > 0 /\ q[1].curr_offset > 0
           /\ Len(q) > 0 => Head(q) = q[1]
<1>1. (q # <<>> <=> Len(q) > 0) /\ (q # <<>> => Head(q) = q[1])
  BY EmptySeq
<1> QED
  BY <1>1 DEF PartlyWritten

\* One turn of the loop of flush_send_queue writes the next bytes of the head, and
\* removes it if these were the last.
LEMMA SendEffect ==
    ASSUME TypeOK, NEW thread \in {"io", "closer"}, SendBuffer(thread)
    PROVE  \E k \in Nat \ {0}, off \in Nat, f \in Frames :
             /\ to_send # <<>> /\ to_send[1] = [frame |-> f, curr_offset |-> off]
             /\ off + k <= Size(f)
             /\ wire' \in Streams /\ Len(wire') = Len(wire) + k
             /\ \A i \in 1 .. Len(wire) : wire'[i] = wire[i]
             /\ \A i \in 1 .. k : wire'[Len(wire) + i] = <<f, off + i>>
             /\ to_send' \in Seq(Buffers)
             /\ \/ /\ off + k = Size(f) /\ Len(to_send') = Len(to_send) - 1
                   /\ \A i \in 1 .. Len(to_send) - 1 : to_send'[i] = to_send[i + 1]
                \/ /\ off + k < Size(f) /\ Len(to_send') = Len(to_send)
                   /\ to_send'[1] = [frame |-> f, curr_offset |-> off + k]
                   /\ \A i \in 2 .. Len(to_send) : to_send'[i] = to_send[i]
<1>0. PICK b : b = Head(to_send)
  OBVIOUS
<1> DEFINE off == b.curr_offset
           f == b.frame
<1>1. to_send # <<>> /\ to_send \in Seq(Buffers) /\ wire \in Streams
  BY DEF SendBuffer, TypeOK
<1>2. /\ b = to_send[1] /\ b \in Buffers /\ Len(to_send) \in Nat \ {0} /\ 1 \in DOMAIN to_send
      /\ Tail(to_send) \in Seq(Buffers) /\ Len(Tail(to_send)) = Len(to_send) - 1
      /\ \A i \in 1 .. Len(to_send) - 1 : Tail(to_send)[i] = to_send[i + 1]
  BY <1>0, <1>1, HeadOf
<1>3. /\ b = [frame |-> f, curr_offset |-> off]
      /\ f \in Frames /\ off \in Nat /\ Size(f) \in Nat /\ off < Size(f)
  BY <1>2, BytesOf DEF TypeOK, Buffers, Size
<1>4. PICK k1, k2 :
        /\ Pieces(b, k1, k2) /\ k1 + k2 > 0
        /\ wire' = wire \o Written(b, k1, k2)
        /\ LET sent == [b EXCEPT !.curr_offset = @ + k1 + k2] IN
           to_send' = IF FullySent(sent) THEN Tail(to_send) ELSE <<sent>> \o Tail(to_send)
  BY <1>0 DEF SendBuffer, Pieces
<1> DEFINE w == Written(b, k1, k2)
<1>5. /\ k1 \in Nat /\ k2 \in Nat /\ off + k1 + k2 <= Size(f)
      /\ w \in Streams /\ Len(w) = k1 + k2
      /\ \A i \in 1 .. k1 + k2 : w[i] = <<f, off + i>>
  <2>1. b \in Buffers /\ off < Size(f) /\ Pieces(b, k1, k2)
    BY <1>2, <1>3, <1>4
  <2>2. /\ k1 \in Nat /\ k2 \in Nat /\ b.curr_offset + k1 + k2 <= Size(b.frame)
        /\ Written(b, k1, k2) \in Streams /\ Len(Written(b, k1, k2)) = k1 + k2
        /\ \A i \in 1 .. k1 + k2 : Written(b, k1, k2)[i] = <<b.frame, b.curr_offset + i>>
    <3> HIDE DEF off, f, w
    <3>1. b.curr_offset < Size(b.frame)
      BY <2>1 DEF off, f
    <3> QED
      BY <2>1, <3>1, WrittenBytes, SMTT(20)
  <2> QED
    BY <2>2
<1>6. PICK k \in Nat \ {0} : k = k1 + k2
  BY <1>4, <1>5
<1> DEFINE sent == [frame |-> f, curr_offset |-> off + k]
<1>7. off + k <= Size(f) /\ off + k \in Nat /\ [b EXCEPT !.curr_offset = @ + k1 + k2] = sent
  BY <1>3, <1>5, <1>6
<1>8. sent \in Buffers /\ (FullySent(sent) <=> off + k = Size(f))
  BY <1>3, <1>7 DEF FullySent, Size, Buffers
<1>9. to_send' = IF FullySent(sent) THEN Tail(to_send) ELSE <<sent>> \o Tail(to_send)
  BY <1>4, <1>7
<1> HIDE DEF sent, w, off, f
<1>10. /\ wire' \in Streams /\ Len(wire') = Len(wire) + k
       /\ \A i \in 1 .. Len(wire) : wire'[i] = wire[i]
       /\ \A i \in 1 .. k : wire'[Len(wire) + i] = <<f, off + i>>
  <2>0. wire' = wire \o w /\ w \in Streams /\ wire \in Streams
    BY <1>1, <1>4, <1>5 DEF w
  <2>a. /\ wire \o w \in Streams /\ Len(wire \o w) = Len(wire) + Len(w) /\ Len(wire) \in Nat
        /\ \A i \in 1 .. Len(wire) + Len(w) : (wire \o w)[i] =
               IF i <= Len(wire) THEN wire[i] ELSE w[i - Len(wire)]
    BY <2>0, ConcatProperties, LenProperties DEF Streams
  <2>1. /\ wire' \in Streams /\ Len(wire') = Len(wire) + Len(w) /\ Len(wire) \in Nat
        /\ \A i \in 1 .. Len(wire) + Len(w) : wire'[i] =
               IF i <= Len(wire) THEN wire[i] ELSE w[i - Len(wire)]
    BY <2>0, <2>a, Zenon
  <2>2. PICK n \in Nat : n = Len(wire)
    BY <2>1
  <2>3. Len(w) = k
    BY <1>5, <1>6
  <2>4. \A i \in 1 .. n : wire'[i] = wire[i]
    BY <2>1, <2>2, <2>3
  <2>5. \A i \in 1 .. k : wire'[n + i] = w[i]
    <3>1. ASSUME NEW i \in 1 .. k PROVE wire'[n + i] = w[i]
      <4>1. PICK h \in 1 .. n + k : h = n + i /\ ~(h <= n) /\ h - n = i
        OBVIOUS
      <4>2. \A j \in 1 .. n + k : wire'[j] = IF j <= n THEN wire[j] ELSE w[j - n]
        BY <2>1, <2>2, <2>3
      <4>3. wire'[h] = w[h - n]
        BY <4>1, <4>2
      <4> QED
        BY <4>1, <4>3, Zenon
    <3> QED
      BY <3>1
  <2> QED
    BY <2>1, <2>2, <2>3, <2>4, <2>5, <1>5, <1>6
<1>11. CASE FullySent(sent)
  <2>1. to_send' = Tail(to_send) /\ off + k = Size(f)
    BY <1>8, <1>9, <1>11
  <2> QED
    BY <2>1, <1>1, <1>2, <1>3, <1>6, <1>7, <1>10
<1>12. CASE ~FullySent(sent)
  <2>1. to_send' = <<sent>> \o Tail(to_send) /\ off + k < Size(f)
    BY <1>3, <1>7, <1>8, <1>9, <1>12
  <2>2. <<sent>> \in Seq(Buffers) /\ Len(<<sent>>) = 1 /\ <<sent>>[1] = sent
    BY <1>8
  <2>3. /\ to_send' \in Seq(Buffers) /\ Len(to_send') = 1 + (Len(to_send) - 1)
        /\ \A i \in 1 .. 1 + (Len(to_send) - 1) : to_send'[i] =
              IF i <= 1 THEN <<sent>>[i] ELSE Tail(to_send)[i - 1]
    BY <2>1, <2>2, <1>2, ConcatProperties
  <2>4. Len(to_send') = Len(to_send) /\ to_send'[1] = sent
    BY <2>2, <2>3, <1>2
  <2>5. ASSUME NEW i \in 2 .. Len(to_send) PROVE to_send'[i] = to_send[i]
    <3>1. to_send'[i] = Tail(to_send)[i - 1] /\ i - 1 \in 1 .. Len(to_send) - 1 /\ (i - 1) + 1 = i
      BY <2>3, <1>2
    <3> QED
      BY <3>1, <1>2
  <2> QED
    BY <2>1, <2>3, <2>4, <2>5, <1>1, <1>2, <1>3, <1>6, <1>7, <1>10 DEF sent
<1> QED
  BY <1>11, <1>12

\* The first k elements of y have gone behind x: d is what x becomes, c what is left of y.
Shifted(S, x, y, k, d, c) ==
    /\ d \in Seq(S) /\ Len(d) = Len(x) + k
    /\ \A i \in 1 .. Len(x) : d[i] = x[i]
    /\ \A i \in 1 .. k : d[Len(x) + i] = y[i]
    /\ c \in Seq(S) /\ Len(c) = Len(y) - k
    /\ \A i \in 1 .. Len(y) - k : c[i] = y[k + i]

\* A stream from which the first bytes are taken: they go behind what there is.
LEMMA TakeFrom ==
    ASSUME NEW S, NEW x \in Seq(S), NEW y \in Seq(S), NEW k \in Nat, k <= Len(y)
    PROVE  Shifted(S, x, y, k, x \o SubSeq(y, 1, k), SubSeq(y, k + 1, Len(y)))
<1>1. PICK n \in Nat, m \in Nat : n = Len(x) /\ m = Len(y)
  BY LenProperties
<1> DEFINE a == SubSeq(y, 1, k)
           c == SubSeq(y, k + 1, m)
<1>2. /\ SubSeq(y, 1, k) \in Seq(S) /\ Len(SubSeq(y, 1, k)) = IF 1 <= k THEN k - 1 + 1 ELSE 0
      /\ \A i \in 1 .. k - 1 + 1 : SubSeq(y, 1, k)[i] = y[1 + i - 1]
  BY <1>1, PartOf
<1>3. /\ SubSeq(y, k + 1, m) \in Seq(S)
      /\ Len(SubSeq(y, k + 1, m)) = IF k + 1 <= m THEN m - (k + 1) + 1 ELSE 0
      /\ \A i \in 1 .. m - (k + 1) + 1 : SubSeq(y, k + 1, m)[i] = y[k + 1 + i - 1]
  BY <1>1, PartOf
<1>4. a \in Seq(S) /\ Len(a) = k /\ \A i \in 1 .. k : a[i] = y[i]
  BY <1>2
<1>5. c \in Seq(S) /\ Len(c) = m - k /\ \A i \in 1 .. m - k : c[i] = y[k + i]
  <2> HIDE DEF c
  <2>1. c \in Seq(S) /\ Len(c) = m - k /\ \A i \in 1 .. m - k : c[i] = y[k + 1 + i - 1]
    BY <1>1, <1>3 DEF c
  <2>2. \A i \in 1 .. m - k : k + 1 + i - 1 = k + i
    BY <1>1
  <2> QED
    BY <2>1, <2>2
<1> HIDE DEF a, c
<1>6. /\ x \o a \in Seq(S) /\ Len(x \o a) = n + k
      /\ \A i \in 1 .. n + k : (x \o a)[i] = IF i <= n THEN x[i] ELSE a[i - n]
  BY <1>1, <1>4, ConcatProperties
<1>7. \A i \in 1 .. n : (x \o a)[i] = x[i]
  BY <1>1, <1>6
<1>8. ASSUME NEW i \in 1 .. k PROVE (x \o a)[n + i] = y[i]
  <2>1. PICK h \in 1 .. n + k : h = n + i /\ ~(h <= n) /\ h - n = i
    BY <1>1
  <2> QED
    BY <2>1, <1>4, <1>6
<1> QED
  BY <1>1, <1>5, <1>6, <1>7, <1>8 DEF Shifted, a, c

\* What is common to both reads of recv_buffer.
Taken(k, d) ==
    /\ k <= Len(s2c) /\ d = input_buffer.data \o Take(k)
    /\ s2c' = SubSeq(s2c, k + 1, Len(s2c))

\* The bytes that a read takes.
LEMMA TakenType ==
    ASSUME TypeOK, NEW k \in Nat, k <= Len(s2c)
    PROVE  input_buffer.data \o Take(k) \in Streams /\ SubSeq(s2c, k + 1, Len(s2c)) \in Streams
  BY TakeFrom DEF Shifted, TypeOK, Take, Streams

\* As many bytes as are asked for, or as there are.
LEMMA AtMostSome ==
    ASSUME TypeOK, NEW n \in Int, NEW k \in AtMost(n) \ {0}
    PROVE  k \in Nat \ {0} /\ k <= n /\ k <= Len(s2c)
<1>1. Len(s2c) \in Nat
  BY DEF TypeOK, Streams
<1> QED
  BY <1>1 DEF AtMost

\* A buffer with k more bytes.
LEMMA Filled ==
    ASSUME TypeOK, NEW k \in Nat, k <= Len(s2c)
    PROVE  Fill(input_buffer, k) = [curr_offset |-> input_buffer.curr_offset + k, len |-> input_buffer.len,
                                    data |-> input_buffer.data \o Take(k)]
<1>1. input_buffer \in [curr_offset : Nat, len : Nat, data : Streams]
  BY DEF TypeOK
<1> DEFINE x == input_buffer.data \o Take(k)
           o == input_buffer.curr_offset + k
<1>2. Fill(input_buffer, k) = [input_buffer EXCEPT !.curr_offset = o, !.data = x]
  BY <1>1 DEF Fill
<1> HIDE DEF x, o
<1> DEFINE r == [input_buffer EXCEPT !.curr_offset = o, !.data = x]
<1>3. o \in Nat /\ x \in Streams
  BY <1>1, TakenType DEF o, x
<1>4. r \in [curr_offset : Nat, len : Nat, data : Streams]
  BY <1>1, <1>3, Zenon
<1>5. r.curr_offset = o /\ r.len = input_buffer.len /\ r.data = x
  BY <1>1
<1> HIDE DEF r
<1>6. r = [curr_offset |-> r.curr_offset, len |-> r.len, data |-> r.data]
  BY <1>4
<1> QED
  BY <1>2, <1>5, <1>6 DEF x, o, r

\* The read of the length, and with the last of its bytes the length is known.
LEMMA LengthRead ==
    ASSUME TypeOK, ReceiveLength
    PROVE  \E k \in Nat \ {0}, d \in Streams, n \in Nat, len \in Nat :
             /\ Taken(k, d) /\ n = input_buffer.curr_offset + k /\ n <= LenBytes
             /\ input_buffer' = [curr_offset |-> n, len |-> len, data |-> d]
             /\ n = LenBytes => LengthIn(d, len)
             /\ UNCHANGED <<zstate, to_process, dispatched>>
<1>1. /\ input_buffer.curr_offset \in Nat /\ input_buffer.len \in Nat /\ input_buffer.curr_offset < 4
      /\ input_buffer = [curr_offset |-> input_buffer.curr_offset, len |-> input_buffer.len,
                         data |-> input_buffer.data]
      /\ LenBytes = 4
  BY Sizes DEF TypeOK, ReceiveLength
<1>2. PICK k \in AtMost(LenBytes - input_buffer.curr_offset) \ {0} :
        LET b == Fill(input_buffer, k) IN
          /\ s2c' = SubSeq(s2c, k + 1, Len(s2c))
          /\ \/ /\ b.curr_offset < LenBytes
                /\ input_buffer' = b
             \/ /\ b.curr_offset = LenBytes
                /\ \E len \in Lengths \cup {PrimerLength} :
                     LengthIn(b.data, len) /\ input_buffer' = [b EXCEPT !.len = len]
  BY DEF ReceiveLength
<1>3. k \in Nat \ {0} /\ k <= 4 - input_buffer.curr_offset /\ k <= Len(s2c)
  BY <1>1, <1>2, AtMostSome
<1>4. PICK n \in Nat : n = input_buffer.curr_offset + k
  BY <1>1, <1>3
<1>5. PICK d \in Streams : d = input_buffer.data \o Take(k)
  BY <1>3, TakenType
<1>6. Fill(input_buffer, k) = [curr_offset |-> n, len |-> input_buffer.len, data |-> d]
  BY <1>3, <1>4, <1>5, Filled, Zenon
<1>7. Taken(k, d) /\ n <= LenBytes
  BY <1>1, <1>2, <1>3, <1>4, <1>5 DEF Taken
<1>8. \E len \in Nat : /\ input_buffer' = [curr_offset |-> n, len |-> len, data |-> d]
                       /\ n = LenBytes => LengthIn(d, len)
  <2>1. CASE n < 4 /\ input_buffer' = Fill(input_buffer, k)
    BY <2>1, <1>1, <1>6
  <2>2. ASSUME NEW len \in Lengths \cup {PrimerLength}, LengthIn(d, len),
               input_buffer' = [Fill(input_buffer, k) EXCEPT !.len = len]
        PROVE  len \in Nat /\ input_buffer' = [curr_offset |-> n, len |-> len, data |-> d]
    BY <2>2, <1>6, Sizes
  <2> QED
    BY <2>1, <2>2, <1>1, <1>2, <1>6
<1>9. UNCHANGED <<zstate, to_process, dispatched>>
  BY DEF ReceiveLength
<1> QED
  BY <1>3, <1>4, <1>5, <1>7, <1>8, <1>9

\* The read of the payload, and with its last byte the buffer is queued or dispatched.
LEMMA PayloadRead ==
    ASSUME TypeOK, ReceivePayload
    PROVE  \E k \in Nat \ {0}, d \in Streams, n \in Nat :
             /\ Taken(k, d) /\ n = input_buffer.curr_offset + k
             /\ input_buffer.curr_offset >= LenBytes
             /\ \/ /\ n < LenBytes + input_buffer.len
                   /\ input_buffer' = [curr_offset |-> n, len |-> input_buffer.len, data |-> d]
                   /\ UNCHANGED <<zstate, to_process, dispatched>>
                \/ /\ n = LenBytes + input_buffer.len
                   /\ input_buffer' = EmptyBuffer /\ zstate' = "CONNECTED"
                   /\ to_process' = IF zstate = "CONNECTED" THEN Append(to_process, d) ELSE to_process
                   /\ dispatched' = IF zstate = "ASSOCIATING" THEN Append(dispatched, d) ELSE dispatched
<1>1. /\ input_buffer.curr_offset \in Nat /\ input_buffer.len \in Nat /\ input_buffer.curr_offset >= 4
      /\ input_buffer = [curr_offset |-> input_buffer.curr_offset, len |-> input_buffer.len,
                         data |-> input_buffer.data]
      /\ LenBytes = 4
  BY Sizes DEF TypeOK, ReceivePayload
<1>2. PICK k \in AtMost(Missing(input_buffer)) \ {0} :
        LET b == Fill(input_buffer, k) IN
          /\ s2c' = SubSeq(s2c, k + 1, Len(s2c))
          /\ input_buffer' = IF Complete(b) THEN EmptyBuffer ELSE b
          /\ to_process' = IF Complete(b) /\ zstate = "CONNECTED"
                           THEN Append(to_process, b.data) ELSE to_process
          /\ dispatched' = IF Complete(b) /\ zstate = "ASSOCIATING"
                           THEN Append(dispatched, b.data) ELSE dispatched
          /\ zstate' = IF Complete(b) THEN "CONNECTED" ELSE zstate
  BY DEF ReceivePayload
<1>3. Missing(input_buffer) \in Int /\ Missing(input_buffer) = input_buffer.len + 4 - input_buffer.curr_offset
  BY <1>1 DEF Missing
<1>4. k \in Nat \ {0} /\ k <= Missing(input_buffer) /\ k <= Len(s2c)
  BY <1>2, <1>3, AtMostSome
<1>5. PICK n \in Nat : n = input_buffer.curr_offset + k
  BY <1>1, <1>4
<1>6. PICK d \in Streams : d = input_buffer.data \o Take(k)
  BY <1>4, TakenType
<1>7. Fill(input_buffer, k) = [curr_offset |-> n, len |-> input_buffer.len, data |-> d]
  BY <1>4, <1>5, <1>6, Filled, Zenon
<1>8. n <= 4 + input_buffer.len /\ (Complete(Fill(input_buffer, k)) <=> n = 4 + input_buffer.len)
  BY <1>1, <1>3, <1>4, <1>5, <1>7 DEF Complete
<1>9. Taken(k, d)
  BY <1>2, <1>4, <1>6 DEF Taken
<1>10. CASE n = 4 + input_buffer.len
  <2>1. /\ input_buffer' = EmptyBuffer /\ zstate' = "CONNECTED"
        /\ to_process' = IF zstate = "CONNECTED" THEN Append(to_process, d) ELSE to_process
        /\ dispatched' = IF zstate = "ASSOCIATING" THEN Append(dispatched, d) ELSE dispatched
    BY <1>10, <1>2, <1>7, <1>8
  <2> QED
    BY <2>1, <1>10, <1>1, <1>4, <1>5, <1>9
<1>11. CASE n < 4 + input_buffer.len
  <2>1. /\ input_buffer' = [curr_offset |-> n, len |-> input_buffer.len, data |-> d]
        /\ UNCHANGED <<zstate, to_process, dispatched>>
    BY <1>11, <1>1, <1>2, <1>7, <1>8
  <2> QED
    BY <2>1, <1>11, <1>1, <1>4, <1>5, <1>9
<1> QED
  BY <1>1, <1>8, <1>10, <1>11

-----------------------------------------------------------------------------
(* Types.                                                                  *)

\* A frame that is made is a frame.
LEMMA FrameType ==
    ASSUME NEW id \in Nat, NEW kind \in Kinds \cup {"primer", "answer"},
           NEW len \in Lengths \cup {PrimerLength}
    PROVE  Frame(id, kind, len) \in Frames /\ Frame(id, kind, len).id = id
           /\ Frame(id, kind, len).kind = kind /\ Frame(id, kind, len).len = len
  BY DEF Frame, Frames

\* A frame that is queued leaves the offsets within their frames.
LEMMA QueuedType ==
    ASSUME NEW q \in Seq(Buffers), NEW f \in Frames, NEW p \in {QueueBack(q, f), QueueFront(q, f)},
           \A i \in DOMAIN q : q[i].curr_offset < LenBytes + q[i].frame.len
    PROVE  p \in Seq(Buffers) /\ \A i \in DOMAIN p : p[i].curr_offset < LenBytes + p[i].frame.len
<1> DEFINE e == [frame |-> f, curr_offset |-> 0]
<1>1. e.curr_offset < LenBytes + e.frame.len
  BY Sizes
<1>2. Len(q) \in Nat /\ DOMAIN q = 1 .. Len(q)
  BY LenProperties
<1> HIDE DEF e
<1>3. CASE p = QueueBack(q, f)
  <2>1. /\ p \in Seq(Buffers) /\ Len(p) = Len(q) + 1 /\ DOMAIN p = 1 .. Len(q) + 1
        /\ \A i \in 1 .. Len(q) : p[i] = q[i]
        /\ p[Len(q) + 1] = e
    BY <1>3, AtBack, LenProperties DEF e
  <2>2. ASSUME NEW i \in DOMAIN p PROVE p[i].curr_offset < LenBytes + p[i].frame.len
    <3>1. i \in 1 .. Len(q) \/ i = Len(q) + 1
      BY <2>1, <1>2
    <3> QED
      BY <3>1, <2>1, <1>1, <1>2
  <2> QED
    BY <2>1, <2>2
<1>4. CASE p = QueueFront(q, f)
  <2>1. /\ p \in Seq(Buffers) /\ Len(p) = Len(q) + 1 /\ DOMAIN p = 1 .. Len(q) + 1
        /\ \A i \in 2 .. Len(q) + 1 : p[i] = q[i - 1]
        /\ p[1] = e
    BY <1>4, InFront, LenProperties DEF e
  <2>2. ASSUME NEW i \in DOMAIN p PROVE p[i].curr_offset < LenBytes + p[i].frame.len
    <3>1. i = 1 \/ (i \in 2 .. Len(q) + 1 /\ i - 1 \in 1 .. Len(q))
      BY <2>1, <1>2
    <3> QED
      BY <3>1, <2>1, <1>1, <1>2
  <2> QED
    BY <2>1, <2>2
<1> QED
  BY <1>3, <1>4

\* What a step of recv_buffer does to the queue of frames: the end of the handshake puts
\* two frames in front, or nothing.
Renews(f, g) ==
    /\ zstate = "ASSOCIATING" /\ zstate' = "CONNECTED"
    /\ f.id = made + 1 /\ g.id = made + 2 /\ f.kind # "request" /\ g.kind # "request"
    /\ to_send' = QueueFront(QueueFront(to_send, f), g)
    /\ made' = made + 2 /\ made + 2 <= MaxFrames
    /\ cut' = (cut \/ PartlyWritten(to_send))

LEMMA ReceiveEffect ==
    ASSUME TypeOK, Receive
    PROVE  \/ \E f \in Frames, g \in Frames : Renews(f, g)
           \/ UNCHANGED <<to_send, made, cut>>
<1>1. made \in Nat
  BY DEF TypeOK
<1>2. ASSUME zstate = "ASSOCIATING", zstate' = "CONNECTED", made + 1 < MaxFrames, made' = made + 2,
             cut' = (cut \/ PartlyWritten(to_send)), NEW len \in Lengths,
             to_send' = QueueFront(QueueFront(to_send, Frame(made + 1, "watches", len)),
                                   Frame(made + 2, "auth", len))
      PROVE  \E f \in Frames, g \in Frames : Renews(f, g)
  <2> DEFINE f == Frame(made + 1, "watches", len)
             g == Frame(made + 2, "auth", len)
  <2>1. f \in Frames /\ f.id = made + 1 /\ f.kind = "watches"
    BY <1>1, FrameType DEF Kinds
  <2>2. g \in Frames /\ g.id = made + 2 /\ g.kind = "auth"
    BY <1>1, FrameType DEF Kinds
  <2>3. made + 2 <= MaxFrames
    BY <1>1, <1>2, Sizes
  <2> HIDE DEF f, g
  <2>4. to_send' = QueueFront(QueueFront(to_send, f), g)
    BY <1>2 DEF f, g
  <2>5. Renews(f, g)
    BY <2>1, <2>2, <2>3, <2>4, <1>2 DEF Renews
  <2> QED
    BY <2>1, <2>2, <2>5
<1> QED
  BY <1>2 DEF Receive

\* The types hold in the initial state.
LEMMA TypeInit == Init => TypeOK
<1> SUFFICES ASSUME Init PROVE TypeOK
  OBVIOUS
<1>1. /\ <<>> \in Seq(Buffers) /\ <<>> \in Seq(Streams) /\ <<>> \in Seq(Frames) /\ <<>> \in Streams
      /\ DOMAIN <<>> = {}
  BY EmptySeq DEF Streams
<1>2. EmptyBuffer \in [curr_offset : Nat, len : Nat, data : Streams]
  BY <1>1 DEF EmptyBuffer
<1>3. 0 \in 0 .. MaxFrames /\ 0 \in 0 .. MaxServed /\ 0 \in 0 .. MaxLosses
  BY Sizes
<1> QED
  BY <1>1, <1>2, <1>3, Zenon DEF Init, TypeOK

\* Every step keeps the types.
LEMMA TypeStep == TypeOK /\ [Next]_vars => TypeOK'
<1> SUFFICES ASSUME TypeOK, [Next]_vars PROVE TypeOK'
  OBVIOUS
<1>0. /\ to_send \in Seq(Buffers) /\ made \in Nat /\ served \in Nat /\ losses \in Nat
      /\ wire \in Streams /\ s2c \in Streams /\ answers \in Seq(Frames)
      /\ to_process \in Seq(Streams) /\ dispatched \in Seq(Streams)
      /\ input_buffer \in [curr_offset : Nat, len : Nat, data : Streams]
      /\ \A i \in DOMAIN to_send : to_send[i].curr_offset < LenBytes + to_send[i].frame.len
  BY DEF TypeOK
<1>e. /\ <<>> \in Seq(Buffers) /\ <<>> \in Seq(Streams) /\ <<>> \in Seq(Frames) /\ <<>> \in Streams
      /\ DOMAIN <<>> = {} /\ EmptyBuffer \in [curr_offset : Nat, len : Nat, data : Streams]
  <2>1. /\ <<>> \in Seq(Buffers) /\ <<>> \in Seq(Streams) /\ <<>> \in Seq(Frames) /\ <<>> \in Streams
        /\ DOMAIN <<>> = {}
    BY EmptySeq DEF Streams
  <2> QED
    BY <2>1 DEF EmptyBuffer
<1>k. \A id \in Nat, kind \in {"request", "auth", "watches", "close", "answer", "primer"},
         len \in Lengths \cup {PrimerLength} : Frame(id, kind, len) \in Frames
  BY FrameType DEF Kinds
<1>1. ASSUME NEW len \in Lengths, QueueRequest(len) PROVE TypeOK'
  <2> DEFINE f == Frame(made + 1, "request", len)
  <2>1. f \in Frames
    BY <1>0, <1>k
  <2> HIDE DEF f
  <2>2. /\ to_send' = QueueBack(to_send, f) /\ accepted' = accepted \cup {f}
        /\ made' = made + 1 /\ made < MaxFrames
        /\ UNCHANGED <<zstate, sendLock, wire, cut, in, losses>>
    BY <1>1 DEF QueueRequest, f
  <2>3. to_send' \in Seq(Buffers) /\ \A i \in DOMAIN to_send' : to_send'[i].curr_offset < LenBytes + to_send'[i].frame.len
    BY <2>1, <2>2, <1>0, QueuedType
  <2>4. made' \in 0 .. MaxFrames
    BY <2>2, <1>0, Sizes
  <2> QED
    BY <2>1, <2>2, <2>3, <2>4, Zenon DEF TypeOK, in
<1>2. ASSUME NEW len \in Lengths, AddAuth(len) PROVE TypeOK'
  <2> DEFINE f == Frame(made + 1, "auth", len)
  <2>1. f \in Frames
    BY <1>0, <1>k
  <2> HIDE DEF f
  <2>2. /\ to_send' = QueueFront(to_send, f) /\ cut' = (cut \/ PartlyWritten(to_send))
        /\ made' = made + 1 /\ made < MaxFrames
        /\ UNCHANGED <<zstate, sendLock, wire, accepted, in, losses>>
    BY <1>2 DEF AddAuth, f
  <2>3. to_send' \in Seq(Buffers) /\ \A i \in DOMAIN to_send' : to_send'[i].curr_offset < LenBytes + to_send'[i].frame.len
    BY <2>1, <2>2, <1>0, QueuedType
  <2>4. made' \in 0 .. MaxFrames
    BY <2>2, <1>0, Sizes
  <2>5. cut' \in BOOLEAN
    BY <2>2
  <2> QED
    BY <2>2, <2>3, <2>4, <2>5, Zenon DEF TypeOK, in
<1>3. ASSUME NEW len \in Lengths, ServerSends(len) PROVE TypeOK'
  <2> DEFINE f == Frame(served + 1, "answer", len)
  <2>1. f \in Frames
    BY <1>0, <1>k
  <2>2. Bytes(f) \in Streams
    BY <2>1, BytesOf
  <2> HIDE DEF f
  <2>3. /\ s2c' = s2c \o Bytes(f) /\ answers' = Append(answers, f)
        /\ served' = served + 1 /\ served < MaxServed
        /\ UNCHANGED <<zstate, out, input_buffer, to_process, dispatched, losses>>
    BY <1>3 DEF ServerSends, f
  <2>4. s2c' \in Streams
    BY <2>2, <2>3, <1>0, ConcatProperties DEF Streams
  <2>5. answers' \in Seq(Frames)
    BY <2>1, <2>3, <1>0
  <2>6. served' \in 0 .. MaxServed
    BY <2>3, <1>0, Sizes
  <2> QED
    BY <2>3, <2>4, <2>5, <2>6, Zenon DEF TypeOK, out
<1>4. ASSUME BeginFlush PROVE TypeOK'
  <2>1. sendLock' \in {"free", "io", "closer"}
    BY <1>4 DEF BeginFlush
  <2> QED
    BY <1>4, <2>1, Zenon DEF BeginFlush, TypeOK, in
<1>5. ASSUME NEW thread \in {"io", "closer"}, SendBuffer(thread) PROVE TypeOK'
  <2>1. PICK k \in Nat \ {0}, off \in Nat, f \in Frames :
             /\ to_send # <<>> /\ to_send[1] = [frame |-> f, curr_offset |-> off]
             /\ off + k <= Size(f)
             /\ wire' \in Streams /\ Len(wire') = Len(wire) + k
             /\ to_send' \in Seq(Buffers)
             /\ \/ /\ off + k = Size(f) /\ Len(to_send') = Len(to_send) - 1
                   /\ \A i \in 1 .. Len(to_send) - 1 : to_send'[i] = to_send[i + 1]
                \/ /\ off + k < Size(f) /\ Len(to_send') = Len(to_send)
                   /\ to_send'[1] = [frame |-> f, curr_offset |-> off + k]
                   /\ \A i \in 2 .. Len(to_send) : to_send'[i] = to_send[i]
    BY <1>5, SendEffect
  <2>2. DOMAIN to_send = 1 .. Len(to_send) /\ Len(to_send) \in Nat \ {0} /\ DOMAIN to_send' = 1 .. Len(to_send')
    BY <2>1, <1>0, EmptySeq, LenProperties
  <2>3. ASSUME NEW i \in DOMAIN to_send' PROVE to_send'[i].curr_offset < LenBytes + to_send'[i].frame.len
    <3>1. \/ /\ i + 1 \in DOMAIN to_send /\ to_send'[i] = to_send[i + 1]
          \/ i \in DOMAIN to_send /\ to_send'[i] = to_send[i]
          \/ to_send'[i] = [frame |-> f, curr_offset |-> off + k] /\ off + k < Size(f)
      <4>1. CASE off + k = Size(f) /\ Len(to_send') = Len(to_send) - 1
        <5>1. \A j \in 1 .. Len(to_send) - 1 : to_send'[j] = to_send[j + 1]
          BY <2>1, <4>1
        <5>2. i \in 1 .. Len(to_send) - 1 /\ i + 1 \in DOMAIN to_send
          BY <2>2, <4>1
        <5> QED
          BY <5>1, <5>2
      <4>2. CASE off + k < Size(f) /\ Len(to_send') = Len(to_send)
        <5>1. /\ to_send'[1] = [frame |-> f, curr_offset |-> off + k]
              /\ \A j \in 2 .. Len(to_send) : to_send'[j] = to_send[j]
          BY <2>1, <4>2
        <5>2. i = 1 \/ (i \in 2 .. Len(to_send) /\ i \in DOMAIN to_send)
          BY <2>2, <4>2
        <5> QED
          BY <5>1, <5>2, <4>2
      <4> QED
        BY <2>1, <4>1, <4>2
    <3> QED
      BY <3>1, <1>0 DEF Size
  <2>4. sendLock' \in {"free", "io", "closer"}
    BY <1>5 DEF SendBuffer
  <2>5. UNCHANGED <<zstate, made, accepted, cut, in, losses>>
    BY <1>5 DEF SendBuffer
  <2> QED
    BY <2>1, <2>3, <2>4, <2>5, Zenon DEF TypeOK, in
<1>6. ASSUME EndFlush PROVE TypeOK'
  <2>1. sendLock' \in {"free", "io", "closer"}
    BY <1>6 DEF EndFlush
  <2> QED
    BY <1>6, <2>1, Zenon DEF EndFlush, TypeOK, in
<1>7. ASSUME Receive PROVE TypeOK'
  <2>1. /\ s2c' \in Streams /\ input_buffer' \in [curr_offset : Nat, len : Nat, data : Streams]
        /\ to_process' \in Seq(Streams) /\ dispatched' \in Seq(Streams)
        /\ zstate' \in {"NONE", "ASSOCIATING", "CONNECTED", "EXPIRED", "FREED"}
    <3>1. CASE ReceiveLength
      <4>1. PICK k \in Nat \ {0}, d \in Streams, n \in Nat, len \in Nat :
               /\ Taken(k, d) /\ input_buffer' = [curr_offset |-> n, len |-> len, data |-> d]
               /\ UNCHANGED <<zstate, to_process, dispatched>>
        BY <3>1, LengthRead
      <4>2. s2c' \in Streams
        BY <4>1, TakenType DEF Taken
      <4> QED
        BY <4>1, <4>2 DEF TypeOK
    <3>2. CASE ReceivePayload
      <4>1. PICK k \in Nat \ {0}, d \in Streams, n \in Nat :
             /\ Taken(k, d)
             /\ \/ /\ input_buffer' = [curr_offset |-> n, len |-> input_buffer.len, data |-> d]
                   /\ UNCHANGED <<zstate, to_process, dispatched>>
                \/ /\ input_buffer' = EmptyBuffer /\ zstate' = "CONNECTED"
                   /\ to_process' = IF zstate = "CONNECTED" THEN Append(to_process, d) ELSE to_process
                   /\ dispatched' = IF zstate = "ASSOCIATING" THEN Append(dispatched, d) ELSE dispatched
        BY <3>2, PayloadRead
      <4>2. s2c' \in Streams
        BY <4>1, TakenType DEF Taken
      <4>3. CASE /\ input_buffer' = [curr_offset |-> n, len |-> input_buffer.len, data |-> d]
                 /\ UNCHANGED <<zstate, to_process, dispatched>>
        BY <4>2, <4>3, <1>0 DEF TypeOK
      <4>4. CASE /\ input_buffer' = EmptyBuffer /\ zstate' = "CONNECTED"
                 /\ to_process' = IF zstate = "CONNECTED" THEN Append(to_process, d) ELSE to_process
                 /\ dispatched' = IF zstate = "ASSOCIATING" THEN Append(dispatched, d) ELSE dispatched
        <5>1. Append(to_process, d) \in Seq(Streams) /\ Append(dispatched, d) \in Seq(Streams)
          BY <1>0
        <5> QED
          BY <4>2, <4>4, <5>1, <1>0, <1>e
      <4> QED
        BY <4>1, <4>3, <4>4
    <3> QED
      BY <3>1, <3>2, <1>7 DEF Receive
  <2>2. /\ to_send' \in Seq(Buffers)
        /\ \A i \in DOMAIN to_send' : to_send'[i].curr_offset < LenBytes + to_send'[i].frame.len
        /\ made' \in 0 .. MaxFrames /\ cut' \in BOOLEAN
    <3>1. ASSUME NEW f \in Frames, NEW g \in Frames, Renews(f, g)
          PROVE  /\ to_send' \in Seq(Buffers)
                 /\ \A i \in DOMAIN to_send' : to_send'[i].curr_offset < LenBytes + to_send'[i].frame.len
                 /\ made' \in 0 .. MaxFrames /\ cut' \in BOOLEAN
      <4> DEFINE q == QueueFront(to_send, f)
      <4>1. q \in Seq(Buffers) /\ \A i \in DOMAIN q : q[i].curr_offset < LenBytes + q[i].frame.len
        BY <1>0, QueuedType
      <4> HIDE DEF q
      <4>2. to_send' = QueueFront(q, g)
        BY <3>1 DEF Renews, q
      <4>3. made' \in 0 .. MaxFrames
        BY <3>1, <1>0, Sizes DEF Renews
      <4>4. cut' \in BOOLEAN
        BY <3>1 DEF Renews
      <4> QED
        BY <4>1, <4>2, <4>3, <4>4, QueuedType
    <3>2. CASE UNCHANGED <<to_send, made, cut>>
      BY <3>2 DEF TypeOK
    <3> QED
      BY <3>1, <3>2, <1>7, ReceiveEffect
  <2>3. UNCHANGED <<sendLock, wire, accepted, served, answers, losses>>
    BY <1>7 DEF Receive
  <2> QED
    BY <2>1, <2>2, <2>3, Zenon DEF TypeOK
<1>8. ASSUME Dispatch PROVE TypeOK'
  <2>1. /\ to_process # <<>> /\ dispatched' = Append(dispatched, Head(to_process))
        /\ to_process' = Tail(to_process)
        /\ UNCHANGED <<zstate, out, input_buffer, s2c, served, answers, losses>>
    BY <1>8 DEF Dispatch
  <2>2. Head(to_process) \in Streams /\ Tail(to_process) \in Seq(Streams)
    BY <2>1, <1>0, HeadOf
  <2>3. dispatched' \in Seq(Streams) /\ to_process' \in Seq(Streams)
    BY <2>1, <2>2, <1>0
  <2> QED
    BY <2>1, <2>3, Zenon DEF TypeOK, out
<1>9. ASSUME Connect PROVE TypeOK'
  <2> DEFINE f == Frame(0, "primer", PrimerLength)
  <2>1. f \in Frames
    BY <1>k
  <2>2. Bytes(f) \in Streams
    BY <2>1, BytesOf
  <2>3. <<f>> \in Seq(Frames)
    BY <2>1
  <2> HIDE DEF f
  <2>4. /\ zstate' = "ASSOCIATING" /\ input_buffer' = PrimerBuffer
        /\ wire' = <<>> /\ cut' = FALSE /\ s2c' = Bytes(f) /\ answers' = <<f>> /\ dispatched' = <<>>
        /\ UNCHANGED <<to_send, sendLock, to_process, made, served, accepted, losses>>
    BY <1>9 DEF Connect, f
  <2>5. PrimerBuffer \in [curr_offset : Nat, len : Nat, data : Streams]
    BY <1>e, Sizes DEF PrimerBuffer
  <2> QED
    BY <2>2, <2>3, <2>4, <2>5, <1>e, Zenon DEF TypeOK
<1>10. ASSUME LoseConnection PROVE TypeOK'
  <2>1. losses' \in 0 .. MaxLosses
    BY <1>10, <1>0, Sizes DEF LoseConnection
  <2>2. zstate' \in {"NONE", "ASSOCIATING", "CONNECTED", "EXPIRED", "FREED"} /\ accepted' \subseteq Frames
    BY <1>10 DEF LoseConnection
  <2>3. /\ sendLock' = "free" /\ to_send' = <<>> /\ to_process' = <<>> /\ input_buffer' = EmptyBuffer
        /\ wire' = <<>> /\ s2c' = <<>> /\ answers' = <<>> /\ dispatched' = <<>> /\ cut' = FALSE
        /\ UNCHANGED <<made, served>>
    BY <1>10 DEF LoseConnection
  <2>4. DOMAIN to_send' = {}
    BY <2>3, <1>e
  <2> QED
    BY <2>1, <2>2, <2>3, <2>4, <1>e, Zenon DEF TypeOK
<1>11. ASSUME Close PROVE TypeOK'
  <2>1. PICK len \in Lengths : to_send' = QueueBack(to_send, Frame(made + 1, "close", len))
    BY <1>11 DEF Close
  <2> DEFINE f == Frame(made + 1, "close", len)
  <2>2. f \in Frames
    BY <1>0, <1>k
  <2> HIDE DEF f
  <2>3. to_send' = QueueBack(to_send, f)
    BY <2>1 DEF f
  <2>4. to_send' \in Seq(Buffers) /\ \A i \in DOMAIN to_send' : to_send'[i].curr_offset < LenBytes + to_send'[i].frame.len
    BY <2>2, <2>3, <1>0, QueuedType
  <2>5. made' \in 0 .. MaxFrames
    BY <1>11, <1>0, Sizes DEF Close
  <2>6. sendLock' = "closer" /\ UNCHANGED <<zstate, wire, accepted, cut, in, losses>>
    BY <1>11 DEF Close
  <2> QED
    BY <2>4, <2>5, <2>6, Zenon DEF TypeOK, in
<1>12. ASSUME CloseReturns PROVE TypeOK'
  <2>1. /\ sendLock' = "free" /\ zstate' = "FREED"
        /\ to_send' = <<>> /\ accepted' = {} /\ input_buffer' = EmptyBuffer
        /\ UNCHANGED <<wire, made, cut, to_process, s2c, served, answers, dispatched, losses>>
    BY <1>12 DEF CloseReturns
  <2>2. DOMAIN to_send' = {}
    BY <2>1, <1>e
  <2> QED
    BY <2>1, <2>2, <1>e, Zenon DEF TypeOK
<1>13. ASSUME UNCHANGED vars PROVE TypeOK'
  BY <1>13, Zenon DEF vars, out, in, TypeOK
<1> QED
  BY <1>1, <1>2, <1>3, <1>4, <1>5, <1>6, <1>7, <1>8, <1>9, <1>10, <1>11, <1>12, <1>13 DEF Next

\* Every variable keeps its type, whatever the lengths of the frames and the bounds:
\* send_buffer and recv_buffer, zookeeper.c:849 and zookeeper.c:891.
THEOREM TypeCorrect == Spec => []TypeOK
  BY TypeInit, TypeStep, PTL DEF Spec

-----------------------------------------------------------------------------
(* What a step does to the frames of the client.                           *)

\* The connection comes up or stays as it is.
ComesUp ==
    /\ zstate' = "FREED" <=> zstate = "FREED"
    /\ zstate' \notin {"CONNECTED", "FREED"} => zstate \notin {"CONNECTED", "FREED"}

FramesKept == UNCHANGED <<to_send, wire, made, cut, accepted>> /\ ComesUp

QueuedBehind(f) ==
    /\ zstate # "FREED" /\ ComesUp /\ f.id = made + 1 /\ made' = made + 1
    /\ to_send' = QueueBack(to_send, f)
    /\ accepted' = IF f.kind = "request" THEN accepted \cup {f} ELSE accepted
    /\ UNCHANGED <<wire, cut>>

\* n frames of the client itself are put in front.
QueuedAhead(n) ==
    /\ zstate # "FREED" /\ ComesUp /\ made' = made + n
    /\ to_send' \in Seq(Buffers) /\ Len(to_send') = n + Len(to_send)
    /\ \A i \in 1 .. n :
         /\ to_send'[i].curr_offset = 0 /\ to_send'[i].frame.kind # "request"
         /\ made < to_send'[i].frame.id /\ to_send'[i].frame.id <= made + n
         /\ \A j \in 1 .. n : to_send'[i].frame.id = to_send'[j].frame.id => i = j
    /\ \A i \in 1 .. Len(to_send) : to_send'[n + i] = to_send[i]
    /\ cut' = (cut \/ PartlyWritten(to_send))
    /\ UNCHANGED <<wire, accepted>>

\* The next k bytes of the head f are written, after the off that were.
BytesSent(k, off, f) ==
    /\ zstate = "CONNECTED" /\ zstate' = zstate
    /\ to_send # <<>> /\ to_send[1] = [frame |-> f, curr_offset |-> off]
    /\ off + k <= Size(f)
    /\ wire' \in Streams /\ Len(wire') = Len(wire) + k
    /\ \A i \in 1 .. Len(wire) : wire'[i] = wire[i]
    /\ \A i \in 1 .. k : wire'[Len(wire) + i] = <<f, off + i>>
    /\ to_send' \in Seq(Buffers)
    /\ \/ /\ off + k = Size(f) /\ Len(to_send') = Len(to_send) - 1
          /\ \A i \in 1 .. Len(to_send) - 1 : to_send'[i] = to_send[i + 1]
       \/ /\ off + k < Size(f) /\ Len(to_send') = Len(to_send)
          /\ to_send'[1] = [frame |-> f, curr_offset |-> off + k]
          /\ \A i \in 2 .. Len(to_send) : to_send'[i] = to_send[i]
    /\ UNCHANGED <<made, cut, accepted>>

FramesCleared ==
    /\ to_send' = <<>> /\ wire' = <<>> /\ accepted' = {} /\ cut' = FALSE
    /\ UNCHANGED made

FramesFreed ==
    /\ zstate' = "FREED" /\ to_send' = <<>>
    /\ UNCHANGED <<wire, made, cut>>

\* The types of the frames that go out.
LEMMA Outgo ==
    ASSUME TypeOK
    PROVE  /\ made \in Nat /\ Len(to_send) \in Nat /\ Len(wire) \in Nat
           /\ DOMAIN to_send = 1 .. Len(to_send) /\ DOMAIN wire = 1 .. Len(wire)
           /\ \A i \in 1 .. Len(to_send) :
                 /\ to_send[i].frame \in Frames /\ to_send[i].curr_offset \in Nat
                 /\ to_send[i].curr_offset < Size(to_send[i].frame)
           /\ \A i \in 1 .. Len(wire) : wire[i] = <<wire[i][1], wire[i][2]>> /\ wire[i][1] \in Frames /\ wire[i][2] \in Nat
           /\ (PartlyWritten(to_send) <=> Len(to_send) > 0 /\ to_send[1].curr_offset > 0)
           /\ (to_send # <<>> <=> Len(to_send) > 0) /\ (to_send # <<>> => Head(to_send) = to_send[1])
<1>1. /\ made \in Nat /\ to_send \in Seq(Buffers) /\ wire \in Seq(Frames \X Nat)
      /\ \A i \in DOMAIN to_send : to_send[i].curr_offset < LenBytes + to_send[i].frame.len
  BY DEF TypeOK, Streams
<1>2. /\ Len(to_send) \in Nat /\ DOMAIN to_send = 1 .. Len(to_send)
      /\ \A i \in 1 .. Len(to_send) : to_send[i] \in Buffers
  BY <1>1, LenProperties, ElementOfSeq
<1>3. /\ Len(wire) \in Nat /\ DOMAIN wire = 1 .. Len(wire)
      /\ \A i \in 1 .. Len(wire) : wire[i] \in Frames \X Nat
  BY <1>1, LenProperties, ElementOfSeq
<1>4. /\ to_send # <<>> <=> Len(to_send) > 0
      /\ to_send # <<>> => Head(to_send) = to_send[1]
  BY <1>1, EmptySeq
<1>5. PartlyWritten(to_send) <=> Len(to_send) > 0 /\ to_send[1].curr_offset > 0
  BY <1>4 DEF PartlyWritten
<1> QED
  BY <1>1, <1>2, <1>3, <1>4, <1>5 DEF Buffers, Size

\* One frame in front.
LEMMA OneAhead ==
    ASSUME TypeOK, NEW f \in Frames, f.id = made + 1, f.kind # "request",
           zstate # "FREED", ComesUp, made' = made + 1, to_send' = QueueFront(to_send, f),
           cut' = (cut \/ PartlyWritten(to_send)), UNCHANGED <<wire, accepted>>
    PROVE  QueuedAhead(1)
<1>1. /\ to_send' \in Seq(Buffers) /\ Len(to_send') = Len(to_send) + 1
      /\ to_send'[1] = [frame |-> f, curr_offset |-> 0]
      /\ \A i \in 2 .. Len(to_send) + 1 : to_send'[i] = to_send[i - 1]
  BY InFront DEF TypeOK
<1>2. PICK m \in Nat, l \in Nat : m = made /\ l = Len(to_send)
  BY Outgo
<1>3. ASSUME NEW i \in 1 .. l PROVE to_send'[1 + i] = to_send[i]
  <2>1. PICK j \in 2 .. l + 1 : j = 1 + i /\ j - 1 = i
    BY <1>2
  <2> QED
    BY <2>1, <1>1, <1>2
<1>4. \A i \in 1 .. 1 : i = 1
  OBVIOUS
<1>5. m < f.id /\ f.id <= m + 1 /\ Len(to_send') = 1 + l
  BY <1>1, <1>2
<1> QED
  BY <1>1, <1>2, <1>3, <1>4, <1>5 DEF QueuedAhead

\* SetWatches and the credentials in front, after the handshake.
LEMMA TwoAhead ==
    ASSUME TypeOK, NEW f \in Frames, NEW g \in Frames, Renews(f, g), UNCHANGED <<wire, accepted>>
    PROVE  QueuedAhead(2)
<1>1. PICK q : q = QueueFront(to_send, f)
  OBVIOUS
<1>2. PICK m \in Nat, l \in Nat : m = made /\ l = Len(to_send)
  BY Outgo
<1>3. /\ q \in Seq(Buffers) /\ Len(q) = l + 1
      /\ q[1] = [frame |-> f, curr_offset |-> 0]
      /\ \A i \in 2 .. l + 1 : q[i] = to_send[i - 1]
  BY <1>1, <1>2, InFront DEF TypeOK
<1>4. to_send' = QueueFront(q, g)
  BY <1>1 DEF Renews
<1>5. /\ to_send' \in Seq(Buffers) /\ Len(to_send') = Len(q) + 1
      /\ to_send'[1] = [frame |-> g, curr_offset |-> 0]
      /\ \A i \in 2 .. Len(q) + 1 : to_send'[i] = q[i - 1]
  BY <1>3, <1>4, InFront
<1>6. to_send'[2] = [frame |-> f, curr_offset |-> 0]
  <2>1. 2 \in 2 .. Len(q) + 1 /\ 2 - 1 = 1
    BY <1>2, <1>3
  <2> QED
    BY <2>1, <1>3, <1>5
<1>7. ASSUME NEW i \in 1 .. l PROVE to_send'[2 + i] = to_send[i]
  <2>1. PICK j \in 2 .. l + 1 + 1 : j = 2 + i /\ j - 1 \in 2 .. l + 1 /\ (j - 1) - 1 = i
    BY <1>2
  <2> QED
    BY <2>1, <1>3, <1>5
<1>8. \A i \in 1 .. 2 : i = 1 \/ i = 2
  OBVIOUS
<1>9. /\ f.id = m + 1 /\ g.id = m + 2 /\ f.kind # "request" /\ g.kind # "request"
      /\ made' = m + 2 /\ cut' = (cut \/ PartlyWritten(to_send))
      /\ zstate # "FREED" /\ ComesUp
  BY <1>2 DEF Renews, ComesUp
<1>10. ASSUME NEW i \in 1 .. 2
       PROVE  /\ to_send'[i].curr_offset = 0 /\ to_send'[i].frame.kind # "request"
              /\ m < to_send'[i].frame.id /\ to_send'[i].frame.id <= m + 2
              /\ \A j \in 1 .. 2 : to_send'[i].frame.id = to_send'[j].frame.id => i = j
  <2>1. m + 1 # m + 2 /\ m < m + 1 /\ m + 1 <= m + 2 /\ m < m + 2 /\ m + 2 <= m + 2
    BY <1>2
  <2> QED
    BY <2>1, <1>5, <1>6, <1>8, <1>9
<1>11. Len(to_send') = 2 + l
  BY <1>2, <1>3, <1>5
<1> QED
  BY <1>2, <1>5, <1>7, <1>9, <1>10, <1>11 DEF QueuedAhead

\* Every step does one of these to the frames.
LEMMA FramesEffect ==
    ASSUME TypeOK, SilentInv, [Next]_vars
    PROVE  \/ FramesKept
           \/ \E f \in Frames : QueuedBehind(f)
           \/ \E n \in {1, 2} : QueuedAhead(n)
           \/ \E k \in Nat \ {0}, off \in Nat, f \in Frames : BytesSent(k, off, f)
           \/ FramesCleared
           \/ FramesFreed
<1> DEFINE Goal == \/ FramesKept
                   \/ \E f \in Frames : QueuedBehind(f)
                   \/ \E n \in {1, 2} : QueuedAhead(n)
                   \/ \E k \in Nat \ {0}, off \in Nat, f \in Frames : BytesSent(k, off, f)
                   \/ FramesCleared
                   \/ FramesFreed
<1>0. made \in Nat
  BY DEF TypeOK
<1>1. ASSUME NEW len \in Lengths, QueueRequest(len) PROVE Goal
  <2> DEFINE f == Frame(made + 1, "request", len)
  <2>1. f \in Frames /\ f.id = made + 1 /\ f.kind = "request"
    BY <1>0, FrameType DEF Kinds
  <2> HIDE DEF f
  <2>2. /\ to_send' = QueueBack(to_send, f) /\ accepted' = accepted \cup {f} /\ made' = made + 1
        /\ zstate # "FREED" /\ UNCHANGED <<zstate, wire, cut>>
    BY <1>1 DEF QueueRequest, f
  <2>3. QueuedBehind(f)
    BY <2>1, <2>2 DEF QueuedBehind, ComesUp
  <2> QED
    BY <2>1, <2>3
<1>2. ASSUME NEW len \in Lengths, AddAuth(len) PROVE Goal
  <2> DEFINE f == Frame(made + 1, "auth", len)
  <2>1. f \in Frames /\ f.id = made + 1 /\ f.kind # "request"
    BY <1>0, FrameType DEF Kinds
  <2> HIDE DEF f
  <2>2. /\ to_send' = QueueFront(to_send, f) /\ made' = made + 1
        /\ cut' = (cut \/ PartlyWritten(to_send))
        /\ zstate # "FREED" /\ UNCHANGED <<wire, accepted>> /\ ComesUp
    BY <1>2 DEF AddAuth, f, ComesUp
  <2>3. QueuedAhead(1)
    BY <2>1, <2>2, OneAhead
  <2> QED
    BY <2>3
<1>3. ASSUME NEW len \in Lengths, ServerSends(len) PROVE Goal
  BY <1>3 DEF ServerSends, out, FramesKept, ComesUp
<1>4. ASSUME BeginFlush PROVE Goal
  BY <1>4 DEF BeginFlush, FramesKept, ComesUp
<1>5. ASSUME NEW thread \in {"io", "closer"}, SendBuffer(thread) PROVE Goal
  <2>1. zstate = "CONNECTED" /\ UNCHANGED <<zstate, made, accepted, cut>>
    BY <1>5 DEF SendBuffer
  <2>2. \E k \in Nat \ {0}, off \in Nat, f \in Frames : BytesSent(k, off, f)
    BY <2>1, <1>5, SendEffect DEF BytesSent
  <2> QED
    BY <2>2
<1>6. ASSUME EndFlush PROVE Goal
  BY <1>6 DEF EndFlush, FramesKept, ComesUp
<1>7. ASSUME Receive PROVE Goal
  <2>1. UNCHANGED <<wire, accepted>>
    BY <1>7 DEF Receive
  <2>2. CASE \E f \in Frames, g \in Frames : Renews(f, g)
    BY <2>1, <2>2, TwoAhead
  <2>3. CASE UNCHANGED <<to_send, made, cut>>
    <3>1. zstate' = zstate \/ zstate' = "CONNECTED"
      BY <1>7 DEF Receive, ReceiveLength, ReceivePayload
    <3>2. zstate \in {"ASSOCIATING", "CONNECTED"}
      BY <1>7 DEF Receive
    <3> QED
      BY <2>1, <2>3, <3>1, <3>2 DEF FramesKept, ComesUp
  <2> QED
    BY <2>2, <2>3, <1>7, ReceiveEffect
<1>8. ASSUME Dispatch PROVE Goal
  BY <1>8 DEF Dispatch, out, FramesKept, ComesUp
<1>9. ASSUME Connect PROVE Goal
  <2>1. wire = <<>> /\ cut = FALSE
    BY <1>9 DEF Connect, SilentInv, TypeOK
  <2> QED
    BY <2>1, <1>9 DEF Connect, FramesKept, ComesUp
<1>10. ASSUME LoseConnection PROVE Goal
  BY <1>10 DEF LoseConnection, FramesCleared
<1>11. ASSUME Close PROVE Goal
  <2>1. PICK len \in Lengths : to_send' = QueueBack(to_send, Frame(made + 1, "close", len))
    BY <1>11 DEF Close
  <2> DEFINE f == Frame(made + 1, "close", len)
  <2>2. f \in Frames /\ f.id = made + 1 /\ f.kind # "request"
    BY <1>0, FrameType DEF Kinds
  <2> HIDE DEF f
  <2>3. /\ to_send' = QueueBack(to_send, f) /\ made' = made + 1
        /\ zstate # "FREED" /\ UNCHANGED <<zstate, wire, cut, accepted>>
    BY <1>11, <2>1 DEF Close, f
  <2>4. QueuedBehind(f)
    BY <2>2, <2>3 DEF QueuedBehind, ComesUp
  <2> QED
    BY <2>2, <2>4
<1>12. ASSUME CloseReturns PROVE Goal
  BY <1>12 DEF CloseReturns, FramesFreed
<1>13. ASSUME UNCHANGED vars PROVE Goal
  BY <1>13 DEF vars, out, FramesKept, ComesUp
<1> QED
  BY <1>1, <1>2, <1>3, <1>4, <1>5, <1>6, <1>7, <1>8, <1>9, <1>10, <1>11, <1>12, <1>13 DEF Next

-----------------------------------------------------------------------------
(* The frames of the client.                                               *)

\* The connection comes up.
LEMMA FramesKeptStep == OutInv /\ FramesKept => OutInv'
  BY DEF OutInv, FramesKept, ComesUp, NumbersInv, WrittenInv, SilentInv, EndInv, WireIsFramed, Framed,
         RequestsKeepOrder, Sent, Waiting, PartlyWritten, LastByte

\* The queues are emptied.
LEMMA FramesClearedStep == TypeOK' /\ FramesCleared => OutInv'
<1> SUFFICES ASSUME TypeOK', FramesCleared PROVE OutInv'
  OBVIOUS
<1>1. to_send' = <<>> /\ wire' = <<>> /\ accepted' = {} /\ cut' = FALSE
  BY DEF FramesCleared
<1>2. DOMAIN to_send' = {} /\ DOMAIN wire' = {}
  BY <1>1
<1>3. Sent' = {} /\ Waiting' = {}
  BY <1>2 DEF Sent, Waiting
<1>4. NumbersInv' /\ WrittenInv' /\ SilentInv'
  BY <1>1, <1>2 DEF NumbersInv, WrittenInv, SilentInv
<1>5. EndInv' /\ WireIsFramed'
  BY <1>1, <1>2 DEF EndInv, WireIsFramed, Framed, PartlyWritten
<1>6. RequestsKeepOrder'
  BY <1>1, <1>3 DEF RequestsKeepOrder
<1> QED
  BY <1>4, <1>5, <1>6 DEF OutInv

\* The handle is freed: what was written stays.
LEMMA FramesFreedStep == OutInv /\ FramesFreed => OutInv'
<1> SUFFICES ASSUME OutInv, FramesFreed PROVE OutInv'
  OBVIOUS
<1>1. to_send' = <<>> /\ zstate' = "FREED" /\ wire' = wire /\ made' = made /\ cut' = cut
  BY DEF FramesFreed
<1>2. DOMAIN to_send' = {}
  BY <1>1
<1>3. NumbersInv' /\ WrittenInv' /\ SilentInv'
  BY <1>1, <1>2 DEF OutInv, NumbersInv, WrittenInv, SilentInv
<1>4. EndInv' /\ RequestsKeepOrder'
  BY <1>1 DEF EndInv, RequestsKeepOrder
<1>5. WireIsFramed'
  BY <1>1 DEF OutInv, WireIsFramed, Framed
<1> QED
  BY <1>3, <1>4, <1>5 DEF OutInv

\* A frame at the back: the last that was made.
LEMMA QueuedBehindStep ==
    ASSUME TypeOK, TypeOK', OutInv, NEW f \in Frames, QueuedBehind(f)
    PROVE  OutInv'
<1>1. PICK m \in Nat, l \in Nat, w \in Nat : m = made /\ l = Len(to_send) /\ w = Len(wire)
  BY Outgo
<1>2. /\ DOMAIN to_send = 1 .. l /\ DOMAIN wire = 1 .. w
      /\ \A i \in 1 .. l : to_send[i].frame \in Frames /\ to_send[i].curr_offset \in Nat
      /\ \A i \in 1 .. w : wire[i][1] \in Frames
      /\ (PartlyWritten(to_send) <=> l > 0 /\ to_send[1].curr_offset > 0)
      /\ to_send # <<>> => Head(to_send) = to_send[1]
  BY <1>1, Outgo
<1>3. /\ to_send' \in Seq(Buffers) /\ Len(to_send') = l + 1 /\ DOMAIN to_send' = 1 .. l + 1
      /\ \A i \in 1 .. l : to_send'[i] = to_send[i]
      /\ to_send'[l + 1] = [frame |-> f, curr_offset |-> 0]
  <2>1. to_send' = QueueBack(to_send, f) /\ to_send \in Seq(Buffers)
    BY DEF QueuedBehind, TypeOK
  <2>2. to_send' \in Seq(Buffers) /\ Len(to_send') = l + 1 /\ \A i \in 1 .. l : to_send'[i] = to_send[i]
    BY <2>1, <1>1, AtBack
  <2>3. to_send'[l + 1] = [frame |-> f, curr_offset |-> 0]
    BY <2>1, <1>1, AtBack
  <2> QED
    BY <2>2, <2>3, LenProperties
<1>4. /\ zstate # "FREED" /\ zstate' # "FREED" /\ made' = m + 1 /\ f.id = m + 1
      /\ wire' = wire /\ cut' = cut
      /\ accepted' = IF f.kind = "request" THEN accepted \cup {f} ELSE accepted
      /\ (zstate' \notin {"CONNECTED", "FREED"} => zstate \notin {"CONNECTED", "FREED"})
  BY <1>1 DEF QueuedBehind, ComesUp
<1>5. /\ \A i \in 1 .. l : to_send[i].frame.id \in Nat /\ to_send[i].frame.id <= m
      /\ \A i \in 1 .. w : wire[i][1].id \in Nat /\ wire[i][1].id <= m
  BY <1>1, <1>2, Sizes DEF OutInv, NumbersInv
<1>6. NumbersInv'
  <2>1. ASSUME NEW i \in 1 .. l + 1 PROVE to_send'[i].frame.id <= m + 1
    <3>1. i \in 1 .. l \/ i = l + 1
      OBVIOUS
    <3> QED
      BY <3>1, <1>3, <1>4, <1>5
  <2>2. ASSUME NEW i \in 1 .. l + 1, NEW j \in 1 .. l + 1, to_send'[i].frame.id = to_send'[j].frame.id
        PROVE  i = j
    <3>1. (i \in 1 .. l \/ i = l + 1) /\ (j \in 1 .. l \/ j = l + 1)
      OBVIOUS
    <3>2. CASE i \in 1 .. l /\ j \in 1 .. l
      BY <2>2, <3>2, <1>2, <1>3 DEF OutInv, NumbersInv
    <3>3. CASE i = l + 1 /\ j \in 1 .. l
      BY <2>2, <3>3, <1>3, <1>4, <1>5
    <3>4. CASE i \in 1 .. l /\ j = l + 1
      BY <2>2, <3>4, <1>3, <1>4, <1>5
    <3> QED
      BY <3>1, <3>2, <3>3, <3>4
  <2>3. \A i \in 1 .. w : wire[i][1].id <= m + 1
    BY <1>5
  <2> QED
    BY <2>1, <2>2, <2>3, <1>2, <1>3, <1>4 DEF NumbersInv
<1>7. WrittenInv'
  <2>1. ASSUME NEW i \in 1 .. w, NEW j \in 1 .. l + 1, wire[i][1] = to_send'[j].frame
        PROVE  wire[i][2] <= to_send'[j].curr_offset
    <3>1. j # l + 1
      BY <2>1, <1>3, <1>4, <1>5
    <3>2. j \in 1 .. l
      BY <3>1
    <3> QED
      BY <3>2, <2>1, <1>2, <1>3 DEF OutInv, WrittenInv
  <2> QED
    BY <2>1, <1>2, <1>3, <1>4 DEF WrittenInv
<1>8. SilentInv'
  BY <1>2, <1>3, <1>4 DEF OutInv, SilentInv
<1>9. EndInv'
  <2>1. PartlyWritten(to_send)' <=> PartlyWritten(to_send)
    <3>1. PartlyWritten(to_send)' <=> to_send'[1].curr_offset > 0
      BY <1>1, <1>3, PartlyHead
    <3>2. CASE l = 0
      BY <3>1, <3>2, <1>2, <1>3
    <3>3. CASE l > 0
      BY <3>1, <3>3, <1>2, <1>3
    <3> QED
      BY <3>2, <3>3, <1>1
  <2>2. PartlyWritten(to_send) => Head(to_send)' = Head(to_send)
    <3>1. Head(to_send)' = to_send'[1]
      BY <1>1, <1>3, PartlyHead
    <3> QED
      BY <3>1, <1>2, <1>3 DEF PartlyWritten
  <2>3. ASSUME ~ cut, NEW i \in 1 .. l + 1, i > 1 PROVE to_send'[i].curr_offset = 0
    <3>1. i \in 1 .. l \/ i = l + 1
      OBVIOUS
    <3>2. \A j \in 1 .. l : j > 1 => to_send[j].curr_offset = 0
      BY <2>3, <1>2, <1>4 DEF OutInv, EndInv
    <3> QED
      BY <3>1, <3>2, <2>3, <1>3
  <2> QED
    BY <2>1, <2>2, <2>3, <1>3, <1>4 DEF OutInv, EndInv, LastByte
<1>10. WireIsFramed'
  BY <1>4 DEF OutInv, WireIsFramed, Framed
<1>11. RequestsKeepOrder'
  <2>0. /\ accepted = {wire[i][1] : i \in Sent} \cup {to_send[i].frame : i \in Waiting}
        /\ \A i, j \in Sent : i < j => wire[i][1].id < wire[j][1].id
        /\ \A i, j \in Waiting : i < j => to_send[i].frame.id < to_send[j].frame.id
        /\ \A i \in Sent, j \in Waiting : wire[i][1].id < to_send[j].frame.id
    BY <1>4 DEF OutInv, RequestsKeepOrder
  <2>1. Sent' = Sent /\ Sent \subseteq 1 .. w /\ Waiting \subseteq 1 .. l
    BY <1>2, <1>4 DEF Sent, LastByte, Waiting
  <2>2. Waiting' = IF f.kind = "request" THEN Waiting \cup {l + 1} ELSE Waiting
    BY <1>2, <1>3 DEF Waiting
  <2>3. ASSUME NEW i \in Waiting
        PROVE  to_send'[i] = to_send[i] /\ i < l + 1 /\ to_send[i].frame.id < f.id
    <3>1. i \in 1 .. l
      BY <2>1
    <3>2. i < l + 1 /\ \A n \in Nat : n <= m => n < m + 1
      BY <3>1
    <3> QED
      BY <3>1, <3>2, <1>3, <1>4, <1>5
  <2>4. ASSUME NEW i \in Sent PROVE wire[i][1].id < f.id
    <3>1. i \in 1 .. w /\ \A n \in Nat : n <= m => n < m + 1
      BY <2>1
    <3> QED
      BY <3>1, <1>4, <1>5
  <2>5. accepted' = {wire'[i][1] : i \in Sent'} \cup {to_send'[i].frame : i \in Waiting'}
    BY <2>0, <2>1, <2>2, <2>3, <1>3, <1>4
  <2>6. ASSUME NEW i \in Waiting', NEW j \in Waiting', i < j
        PROVE  to_send'[i].frame.id < to_send'[j].frame.id
    <3>1. i \in Waiting
      BY <2>1, <2>2, <2>3, <2>6
    <3>2. CASE j \in Waiting
      BY <3>1, <3>2, <2>0, <2>3, <2>6
    <3>3. CASE j = l + 1
      BY <3>1, <3>3, <2>3, <1>3
    <3> QED
      BY <3>2, <3>3, <2>2
  <2>7. \A i \in Sent', j \in Waiting' : wire'[i][1].id < to_send'[j].frame.id
    BY <2>0, <2>1, <2>2, <2>3, <2>4, <1>3, <1>4
  <2>8. \A i, j \in Sent' : i < j => wire'[i][1].id < wire'[j][1].id
    BY <2>0, <2>1, <1>4
  <2> QED
    BY <2>5, <2>6, <2>7, <2>8 DEF RequestsKeepOrder
<1> QED
  BY <1>6, <1>7, <1>8, <1>9, <1>10, <1>11 DEF OutInv

\* Frames of the client itself in front: they are new, and no requests.
LEMMA QueuedAheadStep ==
    ASSUME TypeOK, TypeOK', OutInv, NEW n \in {1, 2}, QueuedAhead(n)
    PROVE  OutInv'
<1>1. PICK m \in Nat, l \in Nat, w \in Nat : m = made /\ l = Len(to_send) /\ w = Len(wire)
  BY Outgo
<1>2. /\ DOMAIN to_send = 1 .. l /\ DOMAIN wire = 1 .. w
      /\ \A i \in 1 .. l : to_send[i].frame \in Frames /\ to_send[i].curr_offset \in Nat
      /\ \A i \in 1 .. w : wire[i][1] \in Frames
      /\ (PartlyWritten(to_send) <=> l > 0 /\ to_send[1].curr_offset > 0)
  BY <1>1, Outgo
<1>3. /\ to_send' \in Seq(Buffers) /\ Len(to_send') = n + l
      /\ \A i \in 1 .. n :
           /\ to_send'[i].curr_offset = 0 /\ to_send'[i].frame.kind # "request"
           /\ m < to_send'[i].frame.id /\ to_send'[i].frame.id <= m + n
           /\ \A j \in 1 .. n : to_send'[i].frame.id = to_send'[j].frame.id => i = j
      /\ \A i \in 1 .. l : to_send'[n + i] = to_send[i]
  BY <1>1 DEF QueuedAhead
<1>a. DOMAIN to_send' = 1 .. n + l
  BY <1>3, LenProperties
<1>b. \A i \in 1 .. n + l : i \in 1 .. n \/ (i - n \in 1 .. l /\ n + (i - n) = i)
  BY <1>1
<1>c. \A i \in 1 .. n + l : i \in 1 .. n \/ (i - n \in 1 .. l /\ to_send'[i] = to_send[i - n])
  BY <1>b, <1>3
<1>4. /\ zstate # "FREED" /\ zstate' # "FREED" /\ made' = m + n
      /\ wire' = wire /\ accepted' = accepted /\ cut' = (cut \/ PartlyWritten(to_send))
      /\ (zstate' \notin {"CONNECTED", "FREED"} => zstate \notin {"CONNECTED", "FREED"})
  BY <1>1 DEF QueuedAhead, ComesUp
<1>5. /\ \A i \in 1 .. l : to_send[i].frame.id \in Nat /\ to_send[i].frame.id <= m
      /\ \A i \in 1 .. w : wire[i][1].id \in Nat /\ wire[i][1].id <= m
  BY <1>1, <1>2, Sizes DEF OutInv, NumbersInv
<1>6. ASSUME NEW i \in 1 .. n + l
      PROVE  to_send'[i].frame.id \in Nat /\ to_send'[i].frame.id <= m + n
  <2>0. to_send'[i] \in Buffers
    BY <1>3, ElementOfSeq
  <2>1. to_send'[i].frame \in Frames
    BY <2>0 DEF Buffers
  <2>2. CASE i \in 1 .. n
    BY <2>1, <2>2, <1>3, Sizes
  <2>3. CASE i - n \in 1 .. l /\ to_send'[i] = to_send[i - n]
    BY <2>3, <1>5
  <2> QED
    BY <2>2, <2>3, <1>c
<1>7. NumbersInv'
  <2>1. ASSUME NEW i \in 1 .. n + l, NEW j \in 1 .. n + l, to_send'[i].frame.id = to_send'[j].frame.id
        PROVE  i = j
    <3>1. CASE i \in 1 .. n /\ j \in 1 .. n
      BY <2>1, <3>1, <1>3
    <3>2. CASE i \in 1 .. n /\ j \notin 1 .. n
      <4>1. j - n \in 1 .. l /\ to_send'[j] = to_send[j - n]
        BY <3>2, <1>c
      <4> QED
        BY <4>1, <3>2, <2>1, <1>3, <1>5, <1>6
    <3>3. CASE i \notin 1 .. n /\ j \in 1 .. n
      <4>1. i - n \in 1 .. l /\ to_send'[i] = to_send[i - n]
        BY <3>3, <1>c
      <4> QED
        BY <4>1, <3>3, <2>1, <1>3, <1>5, <1>6
    <3>4. CASE i \notin 1 .. n /\ j \notin 1 .. n
      <4>1. /\ i - n \in 1 .. l /\ to_send'[i] = to_send[i - n]
            /\ j - n \in 1 .. l /\ to_send'[j] = to_send[j - n]
        BY <3>4, <1>c
      <4>2. i - n = j - n
        BY <4>1, <2>1, <1>2 DEF OutInv, NumbersInv
      <4> QED
        BY <4>2
    <3> QED
      BY <3>1, <3>2, <3>3, <3>4
  <2>2. \A i \in 1 .. w : wire[i][1].id <= m + n
    BY <1>5
  <2> QED
    BY <2>1, <2>2, <1>2, <1>a, <1>4, <1>6 DEF NumbersInv
<1>8. WrittenInv'
  <2>1. ASSUME NEW i \in 1 .. w, NEW j \in 1 .. n + l, wire[i][1] = to_send'[j].frame
        PROVE  wire[i][2] <= to_send'[j].curr_offset
    <3>1. j \notin 1 .. n
      BY <2>1, <1>3, <1>5, <1>6
    <3>2. j - n \in 1 .. l /\ to_send'[j] = to_send[j - n]
      BY <3>1, <1>c
    <3> QED
      BY <3>2, <2>1, <1>2 DEF OutInv, WrittenInv
  <2> QED
    BY <2>1, <1>2, <1>a, <1>4 DEF WrittenInv
<1>9. ASSUME \A i \in 1 .. l : to_send[i].curr_offset = 0
      PROVE  \A i \in 1 .. n + l : to_send'[i].curr_offset = 0
  BY <1>9, <1>3, <1>c
<1>10. SilentInv'
  <2> SUFFICES ASSUME zstate' \notin {"CONNECTED", "FREED"}
               PROVE  wire' = <<>> /\ ~ cut' /\ \A i \in 1 .. n + l : to_send'[i].curr_offset = 0
    BY <1>a DEF SilentInv
  <2>1. wire = <<>> /\ ~ cut /\ \A i \in 1 .. l : to_send[i].curr_offset = 0
    BY <1>2, <1>4 DEF OutInv, SilentInv
  <2>2. ~ PartlyWritten(to_send)
    BY <2>1, <1>2
  <2> QED
    BY <2>1, <2>2, <1>4, <1>9
<1>11. EndInv'
  <2> SUFFICES ASSUME ~ cut' PROVE EndInv'
    BY DEF EndInv
  <2>1. ~ cut /\ ~ PartlyWritten(to_send)
    BY <1>4
  <2>2. /\ \A i \in 1 .. l : i > 1 => to_send[i].curr_offset = 0
        /\ wire = <<>> \/ LastByte(wire[Len(wire)])
    BY <2>1, <1>2, <1>4 DEF OutInv, EndInv
  <2>3. \A i \in 1 .. l : to_send[i].curr_offset = 0
    BY <2>1, <2>2, <1>2
  <2>4. \A i \in 1 .. n + l : to_send'[i].curr_offset = 0
    BY <2>3, <1>9
  <2>5. ~ PartlyWritten(to_send)'
    <3>1. PartlyWritten(to_send)' <=> to_send'[1].curr_offset > 0
      BY <1>1, <1>3, PartlyHead
    <3>2. 1 \in 1 .. n + l
      BY <1>1
    <3> QED
      BY <3>1, <3>2, <2>4
  <2> QED
    BY <2>2, <2>4, <2>5, <1>a, <1>4 DEF EndInv, LastByte
<1>12. WireIsFramed'
  BY <1>4 DEF OutInv, WireIsFramed, Framed
<1>13. RequestsKeepOrder'
  <2>0. /\ accepted = {wire[i][1] : i \in Sent} \cup {to_send[i].frame : i \in Waiting}
        /\ \A i, j \in Sent : i < j => wire[i][1].id < wire[j][1].id
        /\ \A i, j \in Waiting : i < j => to_send[i].frame.id < to_send[j].frame.id
        /\ \A i \in Sent, j \in Waiting : wire[i][1].id < to_send[j].frame.id
    BY <1>4 DEF OutInv, RequestsKeepOrder
  <2>1. Sent' = Sent
    BY <1>4 DEF Sent, LastByte
  <2>2. ASSUME NEW i \in Waiting'
        PROVE  i - n \in Waiting /\ to_send'[i] = to_send[i - n] /\ i \in Int
    <3>1. i \in 1 .. n + l /\ to_send'[i].frame.kind = "request"
      BY <1>a DEF Waiting
    <3>2. i \notin 1 .. n
      BY <3>1, <1>3
    <3> QED
      BY <3>1, <3>2, <1>2, <1>c DEF Waiting
  <2>3. ASSUME NEW i \in Waiting PROVE n + i \in Waiting' /\ to_send'[n + i] = to_send[i]
    <3>1. i \in 1 .. l /\ to_send[i].frame.kind = "request"
      BY <1>2 DEF Waiting
    <3>2. n + i \in 1 .. n + l
      BY <3>1
    <3> QED
      BY <3>1, <3>2, <1>3, <1>a DEF Waiting
  <2>4. {to_send'[i].frame : i \in Waiting'} = {to_send[i].frame : i \in Waiting}
    <3>1. ASSUME NEW i \in Waiting' PROVE \E j \in Waiting : to_send'[i].frame = to_send[j].frame
      BY <2>2
    <3>2. ASSUME NEW i \in Waiting PROVE \E j \in Waiting' : to_send[i].frame = to_send'[j].frame
      BY <2>3
    <3> QED
      BY <3>1, <3>2
  <2>5. accepted' = {wire'[i][1] : i \in Sent'} \cup {to_send'[i].frame : i \in Waiting'}
    BY <2>0, <2>1, <2>4, <1>4
  <2>6. ASSUME NEW i \in Waiting', NEW j \in Waiting', i < j
        PROVE  to_send'[i].frame.id < to_send'[j].frame.id
    <3>1. i - n < j - n
      BY <2>2, <2>6
    <3> QED
      BY <3>1, <2>0, <2>2
  <2>7. \A i \in Sent', j \in Waiting' : wire'[i][1].id < to_send'[j].frame.id
    BY <2>0, <2>1, <2>2, <1>4
  <2>8. \A i, j \in Sent' : i < j => wire'[i][1].id < wire'[j][1].id
    BY <2>0, <2>1, <1>4
  <2> QED
    BY <2>5, <2>6, <2>7, <2>8 DEF RequestsKeepOrder
<1> QED
  BY <1>7, <1>8, <1>10, <1>11, <1>12, <1>13 DEF OutInv

\* More of the head is written, and it leaves the queue with its last byte.
LEMMA BytesSentStep ==
    ASSUME TypeOK, TypeOK', OutInv,
           NEW k \in Nat \ {0}, NEW off \in Nat, NEW f \in Frames, BytesSent(k, off, f)
    PROVE  OutInv'
<1>1. PICK m \in Nat, l \in Nat, w \in Nat : m = made /\ l = Len(to_send) /\ w = Len(wire)
  BY Outgo
<1>2. /\ DOMAIN to_send = 1 .. l /\ DOMAIN wire = 1 .. w
      /\ \A i \in 1 .. l : to_send[i].frame \in Frames /\ to_send[i].curr_offset \in Nat
      /\ \A i \in 1 .. w : wire[i] = <<wire[i][1], wire[i][2]>> /\ wire[i][1] \in Frames /\ wire[i][2] \in Nat
      /\ (PartlyWritten(to_send) <=> l > 0 /\ to_send[1].curr_offset > 0)
      /\ (to_send # <<>> <=> l > 0) /\ (to_send # <<>> => Head(to_send) = to_send[1])
      /\ wire \in Streams
  BY <1>1, Outgo DEF TypeOK
<1>3. /\ zstate = "CONNECTED" /\ zstate' = "CONNECTED"
      /\ l > 0 /\ to_send[1] = [frame |-> f, curr_offset |-> off] /\ off + k <= Size(f)
      /\ made' = m /\ cut' = cut /\ accepted' = accepted
  BY <1>1, <1>2 DEF BytesSent
<1>4. /\ wire' \in Streams /\ Len(wire') = w + k
      /\ \A i \in 1 .. w : wire'[i] = wire[i]
      /\ \A h \in 1 .. k : wire'[w + h] = <<f, off + h>>
  BY <1>1 DEF BytesSent
<1>a. DOMAIN wire' = 1 .. w + k
  BY <1>4, LenProperties DEF Streams
<1>b. \A i \in 1 .. w + k : i \in 1 .. w \/ (i - w \in 1 .. k /\ w + (i - w) = i)
  OBVIOUS
<1>c. \A i \in 1 .. w + k : \/ i \in 1 .. w /\ wire'[i] = wire[i]
                            \/ i - w \in 1 .. k /\ wire'[i] = <<f, off + (i - w)>>
  BY <1>b, <1>4
<1> DEFINE Whole == /\ off + k = Size(f) /\ Len(to_send') = l - 1
                    /\ \A i \in 1 .. l - 1 : to_send'[i] = to_send[i + 1]
           Part == /\ off + k < Size(f) /\ Len(to_send') = l
                   /\ to_send'[1] = [frame |-> f, curr_offset |-> off + k]
                   /\ \A i \in 2 .. l : to_send'[i] = to_send[i]
<1>5. to_send' \in Seq(Buffers) /\ (Whole \/ Part)
  BY <1>1 DEF BytesSent
<1>6. Len(to_send') \in Nat /\ DOMAIN to_send' = 1 .. Len(to_send')
  BY <1>5, LenProperties
<1>7. PICK p \in Nat : p = Len(to_send')
  BY <1>6
<1>8. f.id \in Nat /\ f.id <= m /\ f.len \in Nat /\ Size(f) = 4 + f.len /\ Size(f) \in Nat
  BY <1>1, <1>2, <1>3, Sizes DEF OutInv, NumbersInv
<1>9. ASSUME NEW j \in 1 .. p
      PROVE  \E i \in 1 .. l : /\ to_send'[j].frame = to_send[i].frame
                               /\ to_send[i].curr_offset <= to_send'[j].curr_offset
                               /\ Whole => i = j + 1 /\ to_send'[j] = to_send[i]
                               /\ Part => i = j /\ (i > 1 => to_send'[j] = to_send[i])
  <2>1. CASE Whole
    <3>1. j + 1 \in 1 .. l /\ to_send'[j] = to_send[j + 1] /\ ~ Part
      BY <2>1, <1>7
    <3>2. to_send[j + 1].curr_offset <= to_send[j + 1].curr_offset
      BY <3>1, <1>2
    <3> QED
      BY <3>1, <3>2
  <2>2. CASE Part
    <3>1. j \in 1 .. l /\ ~ Whole /\ (j = 1 \/ j \in 2 .. l)
      BY <2>2, <1>7
    <3>2. CASE j = 1
      <4>1. off <= off + k
        OBVIOUS
      <4> QED
        BY <4>1, <3>1, <3>2, <2>2, <1>3
    <3>3. CASE j \in 2 .. l
      <4>1. to_send'[j] = to_send[j] /\ to_send[j].curr_offset <= to_send[j].curr_offset
        BY <3>1, <3>3, <2>2, <1>2
      <4> QED
        BY <4>1, <3>1
    <3> QED
      BY <3>1, <3>2, <3>3
  <2> QED
    BY <2>1, <2>2, <1>5
<1> HIDE DEF Whole, Part
<1>d. Whole \/ Part
  BY <1>5
<1>10. NumbersInv'
  <2>1. ASSUME NEW j \in 1 .. p PROVE to_send'[j].frame.id <= m
    BY <1>1, <1>2, <1>9 DEF OutInv, NumbersInv
  <2>2. ASSUME NEW i \in 1 .. p, NEW j \in 1 .. p, to_send'[i].frame.id = to_send'[j].frame.id
        PROVE  i = j
    <3>1. PICK x \in 1 .. l : to_send'[i].frame = to_send[x].frame /\ (Whole => x = i + 1) /\ (Part => x = i)
      BY <1>9
    <3>2. PICK y \in 1 .. l : to_send'[j].frame = to_send[y].frame /\ (Whole => y = j + 1) /\ (Part => y = j)
      BY <1>9
    <3>3. x = y
      <4>1. \A u, v \in 1 .. l : to_send[u].frame.id = to_send[v].frame.id => u = v
        BY <1>2 DEF OutInv, NumbersInv
      <4> QED
        BY <4>1, <2>2, <3>1, <3>2
    <3> QED
      BY <3>1, <3>2, <3>3, <1>d
  <2>3. ASSUME NEW i \in 1 .. w + k PROVE wire'[i][1].id <= m
    <3>1. CASE i \in 1 .. w /\ wire'[i] = wire[i]
      BY <3>1, <1>1, <1>2 DEF OutInv, NumbersInv
    <3>2. CASE wire'[i] = <<f, off + (i - w)>>
      BY <3>2, <1>8
    <3> QED
      BY <3>1, <3>2, <1>c
  <2> QED
    BY <2>1, <2>2, <2>3, <1>3, <1>6, <1>7, <1>a DEF NumbersInv
<1>11. WrittenInv'
  <2>1. ASSUME NEW i \in 1 .. w + k, NEW j \in 1 .. p, wire'[i][1] = to_send'[j].frame
        PROVE  wire'[i][2] <= to_send'[j].curr_offset
    <3>1. PICK x \in 1 .. l : /\ to_send'[j].frame = to_send[x].frame
                              /\ to_send[x].curr_offset <= to_send'[j].curr_offset
                              /\ (Whole => x = j + 1) /\ (Part => x = j)
      BY <1>9
    <3>2. CASE i \in 1 .. w /\ wire'[i] = wire[i]
      <4>1. wire[i][2] <= to_send[x].curr_offset
        BY <2>1, <3>1, <3>2, <1>2 DEF OutInv, WrittenInv
      <4>2. wire[i][2] \in Nat /\ to_send[x].curr_offset \in Nat
        BY <3>2, <1>2
      <4>3. to_send'[j] \in Buffers
        BY <1>5, <1>7, ElementOfSeq
      <4>4. to_send'[j].curr_offset \in Nat
        BY <4>3 DEF Buffers
      <4> QED
        BY <4>1, <4>2, <4>4, <3>1, <3>2
    <3>3. CASE i - w \in 1 .. k /\ wire'[i] = <<f, off + (i - w)>>
      <4>1. to_send[x].frame = to_send[1].frame
        BY <2>1, <3>1, <3>3, <1>3
      <4>2. x = 1
        <5>1. \A u, v \in 1 .. l : to_send[u].frame.id = to_send[v].frame.id => u = v
          BY <1>2 DEF OutInv, NumbersInv
        <5>2. 1 \in 1 .. l
          BY <1>3
        <5> QED
          BY <4>1, <5>1, <5>2
      <4>3. Part /\ j = 1
        BY <4>2, <3>1, <1>d
      <4>4. to_send'[j].curr_offset = off + k
        BY <4>3 DEF Part
      <4> QED
        BY <4>4, <3>3
    <3> QED
      BY <3>2, <3>3, <1>c
  <2> QED
    BY <2>1, <1>6, <1>7, <1>a DEF WrittenInv
<1>12. SilentInv'
  BY <1>3 DEF SilentInv
<1>13. wire'[w + k] = <<f, off + k>> /\ wire' # <<>> /\ wire'[Len(wire')] = <<f, off + k>>
  <2>1. w + k > 0 /\ k \in 1 .. k
    OBVIOUS
  <2> QED
    BY <2>1, <1>4, EmptySeq DEF Streams
<1>14. EndInv'
  <2> SUFFICES ASSUME ~ cut PROVE EndInv'
    BY <1>3 DEF EndInv
  <2>1. \A i \in 1 .. l : i > 1 => to_send[i].curr_offset = 0
    BY <1>2, <1>3 DEF OutInv, EndInv
  <2>2. PartlyWritten(to_send)' <=> p > 0 /\ to_send'[1].curr_offset > 0
    BY <1>5, <1>7, PartlyHead
  <2>3. CASE Part
    <3>1. p = l /\ to_send'[1] = [frame |-> f, curr_offset |-> off + k]
      BY <2>3, <1>7 DEF Part
    <3>2. PartlyWritten(to_send)' /\ Head(to_send)' = to_send'[1]
      BY <3>1, <2>2, <1>3, <1>5, <1>7, PartlyHead
    <3>3. ASSUME NEW i \in 1 .. p, i > 1 PROVE to_send'[i].curr_offset = 0
      BY <3>1, <3>3, <2>1, <2>3 DEF Part
    <3> QED
      BY <3>1, <3>2, <3>3, <1>6, <1>7, <1>13 DEF EndInv
  <2>4. CASE Whole
    <3>1. ASSUME NEW i \in 1 .. p PROVE to_send'[i].curr_offset = 0
      <4>1. PICK x \in 1 .. l : x = i + 1 /\ to_send'[i] = to_send[x]
        BY <2>4, <1>9
      <4> QED
        BY <4>1, <2>1
    <3>2. ~ PartlyWritten(to_send)'
      BY <3>1, <2>2
    <3>3. LastByte(wire[Len(wire)])'
      BY <2>4, <1>13 DEF Whole, LastByte, Size
    <3> QED
      BY <3>1, <3>2, <3>3, <1>6, <1>7 DEF EndInv
  <2> QED
    BY <2>3, <2>4, <1>d
<1>15. WireIsFramed'
  <2> SUFFICES ASSUME ~ cut, NEW i \in 1 .. w + k
               PROVE  IF wire'[i][2] = 1
                      THEN i = 1 \/ wire'[i - 1] = <<wire'[i - 1][1], LenBytes + wire'[i - 1][1].len>>
                      ELSE i > 1 /\ wire'[i - 1] = <<wire'[i][1], wire'[i][2] - 1>>
    BY <1>3, <1>a DEF WireIsFramed, Framed
  <2>1. \A j \in 1 .. w : IF wire[j][2] = 1
                          THEN j = 1 \/ wire[j - 1] = <<wire[j - 1][1], LenBytes + wire[j - 1][1].len>>
                          ELSE j > 1 /\ wire[j - 1] = <<wire[j][1], wire[j][2] - 1>>
    BY <1>2 DEF OutInv, WireIsFramed, Framed
  <2>2. CASE i \in 1 .. w
    <3>1. wire'[i] = wire[i] /\ (i = 1 \/ wire'[i - 1] = wire[i - 1])
      BY <2>2, <1>4
    <3>2. CASE i = 1
      BY <3>1, <3>2, <2>1, <2>2
    <3>3. CASE i # 1
      BY <3>1, <3>3, <2>1, <2>2
    <3> QED
      BY <3>2, <3>3
  <2>3. CASE i = w + 1
    <3>1. wire'[i] = <<f, off + 1>>
      BY <2>3, <1>4
    <3>2. CASE w = 0
      <4>1. wire = <<>>
        BY <3>2, <1>1, <1>2, EmptySeq DEF Streams
      <4>2. off = 0
        BY <4>1, <1>2, <1>3 DEF OutInv, EndInv
      <4> QED
        BY <4>2, <3>1, <3>2, <2>3
    <3>3. CASE w > 0
      <4>1. wire # <<>> /\ wire'[i - 1] = wire[w] /\ i > 1 /\ w \in 1 .. w
        BY <3>3, <2>3, <1>1, <1>2, <1>4, EmptySeq, SMTT(30) DEF Streams
      <4>2. CASE off > 0
        <5>1. wire[w] = <<f, off>>
          BY <4>2, <1>1, <1>2, <1>3 DEF OutInv, EndInv
        <5>2. off + 1 # 1 /\ (off + 1) - 1 = off
          BY <4>2
        <5> QED
          BY <5>1, <5>2, <4>1, <3>1
      <4>3. CASE off = 0
        <5>1. LastByte(wire[w])
          BY <4>1, <4>3, <1>1, <1>2, <1>3 DEF OutInv, EndInv
        <5>2. wire[w] = <<wire[w][1], LenBytes + wire[w][1].len>>
          BY <5>1, <4>1, <1>2 DEF LastByte
        <5> QED
          BY <5>2, <4>1, <4>3, <3>1
      <4> QED
        BY <4>2, <4>3
    <3> QED
      BY <3>2, <3>3
  <2>4. CASE i > w + 1
    <3>1. PICK h \in 1 .. k : i = w + h /\ h > 1 /\ h - 1 \in 1 .. k /\ i - 1 = w + (h - 1)
      BY <2>4
    <3>2. wire'[i] = <<f, off + h>> /\ wire'[i - 1] = <<f, off + (h - 1)>>
      BY <3>1, <1>4
    <3>3. off + h # 1 /\ (off + h) - 1 = off + (h - 1) /\ i > 1
      BY <3>1
    <3> QED
      BY <3>2, <3>3
  <2> QED
    BY <2>2, <2>3, <2>4
<1>16. RequestsKeepOrder'
  <2>0. /\ accepted = {wire[i][1] : i \in Sent} \cup {to_send[i].frame : i \in Waiting}
        /\ \A i, j \in Sent : i < j => wire[i][1].id < wire[j][1].id
        /\ \A i, j \in Waiting : i < j => to_send[i].frame.id < to_send[j].frame.id
        /\ \A i \in Sent, j \in Waiting : wire[i][1].id < to_send[j].frame.id
    BY <1>3 DEF OutInv, RequestsKeepOrder
  <2>1. Sent \subseteq 1 .. w /\ Waiting \subseteq 1 .. l /\ (1 \in Waiting <=> f.kind = "request")
    BY <1>2, <1>3 DEF Sent, Waiting
  <2>2. \A i \in Sent : wire'[i] = wire[i]
    BY <2>1, <1>4
  <2>3. ASSUME NEW i \in Sent'
        PROVE  i \in Sent \/ (Whole /\ f.kind = "request" /\ i = w + k)
    <3>1. i \in 1 .. w + k /\ wire'[i][2] = LenBytes + wire'[i][1].len /\ wire'[i][1].kind = "request"
      BY <1>a DEF Sent, LastByte
    <3>2. CASE i \in 1 .. w /\ wire'[i] = wire[i]
      BY <3>1, <3>2, <1>2 DEF Sent, LastByte
    <3>3. CASE i - w \in 1 .. k /\ wire'[i] = <<f, off + (i - w)>>
      <4>1. off + (i - w) = Size(f) /\ f.kind = "request"
        BY <3>1, <3>3, <1>8 DEF Size
      <4>2. i = w + k /\ ~(off + k < Size(f))
        BY <4>1, <3>1, <3>3, <1>3, <1>8
      <4> QED
        BY <4>1, <4>2, <1>d DEF Part
    <3> QED
      BY <3>1, <3>2, <3>3, <1>c
  <2>4. Sent \subseteq Sent'
    <3>1. ASSUME NEW i \in Sent PROVE i \in Sent'
      <4>1. i \in 1 .. w + k /\ wire'[i] = wire[i] /\ LastByte(wire[i]) /\ wire[i][1].kind = "request"
        BY <2>1, <2>2 DEF Sent
      <4> QED
        BY <4>1, <1>a DEF Sent, LastByte
    <3> QED
      BY <3>1
  <2>5. Whole /\ f.kind = "request" => w + k \in Sent'
    BY <1>13, <1>a DEF Sent, LastByte, Whole, Size
  <2>6. ASSUME NEW j \in Waiting'
        PROVE  \E x \in Waiting : /\ to_send'[j].frame = to_send[x].frame
                                  /\ (Whole => x = j + 1) /\ (Part => x = j)
    <3>1. j \in 1 .. p /\ to_send'[j].frame.kind = "request"
      BY <1>6, <1>7 DEF Waiting
    <3>2. PICK x \in 1 .. l : /\ to_send'[j].frame = to_send[x].frame
                              /\ (Whole => x = j + 1) /\ (Part => x = j)
      BY <3>1, <1>9
    <3>3. x \in Waiting
      BY <3>1, <3>2, <1>2 DEF Waiting
    <3> QED
      BY <3>2, <3>3
  <2>7. ASSUME NEW x \in Waiting, Part \/ x # 1
        PROVE  \E j \in Waiting' : to_send'[j].frame = to_send[x].frame
    <3>1. x \in 1 .. l /\ to_send[x].frame.kind = "request"
      BY <1>2 DEF Waiting
    <3>2. CASE Part
      <4>1. x \in 1 .. p
        BY <3>1, <3>2, <1>7 DEF Part
      <4>2. to_send'[x].frame = to_send[x].frame
        BY <4>1, <3>2, <1>9
      <4> QED
        BY <4>1, <4>2, <3>1, <1>6, <1>7 DEF Waiting
    <3>3. CASE Whole /\ x # 1
      <4>1. x - 1 \in 1 .. p /\ (x - 1) + 1 = x
        BY <3>1, <3>3, <1>7 DEF Whole
      <4>2. to_send'[x - 1].frame = to_send[x].frame
        BY <4>1, <3>3, <1>9
      <4> QED
        BY <4>1, <4>2, <3>1, <1>6, <1>7 DEF Waiting
    <3> QED
      BY <2>7, <3>2, <3>3, <1>d
  <2>8. accepted' = {wire'[i][1] : i \in Sent'} \cup {to_send'[i].frame : i \in Waiting'}
    <3>1. ASSUME NEW a \in accepted
          PROVE  (\E i \in Sent' : a = wire'[i][1]) \/ \E j \in Waiting' : a = to_send'[j].frame
      <4>1. CASE \E i \in Sent : a = wire[i][1]
        BY <4>1, <2>2, <2>4
      <4>2. ASSUME NEW x \in Waiting, a = to_send[x].frame
            PROVE  (\E i \in Sent' : a = wire'[i][1]) \/ \E j \in Waiting' : a = to_send'[j].frame
        <5>1. CASE Part \/ x # 1
          BY <5>1, <4>2, <2>7
        <5>2. CASE Whole /\ x = 1
          BY <5>2, <4>2, <2>1, <2>5, <1>3, <1>13
        <5> QED
          BY <5>1, <5>2, <1>d
      <4> QED
        BY <4>1, <4>2, <2>0
    <3>2. ASSUME NEW i \in Sent' PROVE wire'[i][1] \in accepted
      <4>1. CASE i \in Sent
        BY <4>1, <2>0, <2>2
      <4>2. CASE f.kind = "request" /\ i = w + k
        <5>1. wire'[i][1] = f /\ 1 \in Waiting /\ to_send[1].frame = f
          BY <4>2, <2>1, <1>3, <1>13
        <5> QED
          BY <5>1, <2>0
      <4> QED
        BY <4>1, <4>2, <2>3
    <3>3. ASSUME NEW j \in Waiting' PROVE to_send'[j].frame \in accepted
      BY <2>0, <2>6
    <3> QED
      BY <3>1, <3>2, <3>3, <1>3
  <2>9. ASSUME NEW i \in Sent', NEW j \in Sent', i < j
        PROVE  wire'[i][1].id < wire'[j][1].id
    <3>1. i \in Sent
      <4>1. i \in 1 .. w + k /\ j \in 1 .. w + k
        BY <1>a DEF Sent
      <4>2. i # w + k
        BY <4>1, <2>9
      <4> QED
        BY <4>2, <2>3
    <3>2. CASE j \in Sent
      BY <3>1, <3>2, <2>0, <2>2, <2>9
    <3>3. CASE f.kind = "request" /\ j = w + k
      <4>1. wire'[j][1] = f /\ 1 \in Waiting /\ to_send[1].frame = f
        BY <3>3, <2>1, <1>3, <1>13
      <4> QED
        BY <4>1, <3>1, <2>0, <2>2
    <3> QED
      BY <3>2, <3>3, <2>3
  <2>10. ASSUME NEW i \in Waiting', NEW j \in Waiting', i < j
         PROVE  to_send'[i].frame.id < to_send'[j].frame.id
    <3>1. PICK x \in Waiting : to_send'[i].frame = to_send[x].frame /\ (Whole => x = i + 1) /\ (Part => x = i)
      BY <2>6
    <3>2. PICK y \in Waiting : to_send'[j].frame = to_send[y].frame /\ (Whole => y = j + 1) /\ (Part => y = j)
      BY <2>6
    <3>3. i \in Int /\ j \in Int
      BY <1>6 DEF Waiting
    <3>4. x < y
      BY <2>10, <3>1, <3>2, <3>3, <1>d
    <3> QED
      BY <3>1, <3>2, <3>4, <2>0
  <2>11. ASSUME NEW i \in Sent', NEW j \in Waiting'
         PROVE  wire'[i][1].id < to_send'[j].frame.id
    <3>1. PICK y \in Waiting : to_send'[j].frame = to_send[y].frame /\ (Whole => y = j + 1)
      BY <2>6
    <3>2. CASE i \in Sent
      BY <3>1, <3>2, <2>0, <2>2
    <3>3. CASE Whole /\ f.kind = "request" /\ i = w + k
      <4>1. wire'[i][1] = f /\ 1 \in Waiting /\ to_send[1].frame = f
        BY <3>3, <2>1, <1>3, <1>13
      <4>2. j \in Nat \ {0}
        BY <1>6 DEF Waiting
      <4>3. 1 < y
        BY <4>2, <3>1, <3>3
      <4> QED
        BY <4>1, <4>3, <3>1, <2>0
    <3> QED
      BY <3>2, <3>3, <2>3
  <2> QED
    BY <2>8, <2>9, <2>10, <2>11 DEF RequestsKeepOrder
<1> QED
  BY <1>10, <1>11, <1>12, <1>14, <1>15, <1>16 DEF OutInv

\* Nothing is queued or written in the initial state.
LEMMA OutInit == Init => OutInv
<1> SUFFICES ASSUME Init PROVE OutInv
  OBVIOUS
<1>1. to_send = <<>> /\ wire = <<>> /\ accepted = {} /\ cut = FALSE
  BY DEF Init
<1>2. DOMAIN to_send = {} /\ DOMAIN wire = {}
  BY <1>1
<1>3. Sent = {} /\ Waiting = {}
  BY <1>2 DEF Sent, Waiting
<1> QED
  BY <1>1, <1>2, <1>3 DEF OutInv, NumbersInv, WrittenInv, SilentInv, EndInv, WireIsFramed, Framed,
                          PartlyWritten, RequestsKeepOrder

\* Every step keeps what is known of the frames that go out.
LEMMA OutStep == TypeOK /\ TypeOK' /\ OutInv /\ [Next]_vars => OutInv'
<1> SUFFICES ASSUME TypeOK, TypeOK', OutInv, [Next]_vars PROVE OutInv'
  OBVIOUS
<1>1. SilentInv
  BY DEF OutInv
<1> QED
  BY <1>1, FramesEffect, FramesKeptStep, QueuedBehindStep, QueuedAheadStep, BytesSentStep,
     FramesClearedStep, FramesFreedStep

\* What the server reads are whole frames, however the socket cuts the sends up, unless a
\* packet was put in front of a frame that was partly written (send_buffer and
\* flush_send_queue, zookeeper.c:849 and zookeeper.c:2896; send_info_packet,
\* zookeeper.c:1112).
THEOREM FramesStayWhole == Spec => []WireIsFramed
<1>1. Init => TypeOK /\ OutInv
  BY TypeInit, OutInit
<1>2. TypeOK /\ OutInv /\ [Next]_vars => TypeOK' /\ OutInv'
  BY TypeStep, OutStep
<1>3. OutInv => WireIsFramed
  BY DEF OutInv
<1> QED
  BY <1>1, <1>2, <1>3, PTL DEF Spec

\* The requests that were queued since the last error have gone out or wait, each once and
\* in the order they were made: replies can be matched by this order (queue_buffer and
\* flush_send_queue, zookeeper.c:792 and zookeeper.c:2896).
THEOREM OrderIsKept == Spec => []RequestsKeepOrder
<1>1. Init => TypeOK /\ OutInv
  BY TypeInit, OutInit
<1>2. TypeOK /\ OutInv /\ [Next]_vars => TypeOK' /\ OutInv'
  BY TypeStep, OutStep
<1>3. OutInv => RequestsKeepOrder
  BY DEF OutInv
<1> QED
  BY <1>1, <1>2, <1>3, PTL DEF Spec

-----------------------------------------------------------------------------
(* The frames of the server.                                               *)

\* The places where frames begin are in their order.
LEMMA PlacesInOrder ==
    ASSUME NEW frames \in Seq(Frames), NEW st, Starts(st, frames),
           NEW j \in 1 .. Len(frames) + 1, NEW k \in 1 .. Len(frames) + 1
    PROVE  st[j] \in Nat /\ st[k] \in Nat /\ (st[j] < st[k] <=> j < k)
<1>1. PICK l \in Nat : l = Len(frames)
  BY LenProperties
<1>2. j \in Nat /\ k \in Nat /\ st[j] \in Nat /\ st[k] \in Nat
  BY <1>1 DEF Starts
<1>3. (j < k => st[j] < st[k]) /\ (k < j => st[k] < st[j])
  BY DEF Starts
<1>4. j = k => st[j] = st[k]
  OBVIOUS
<1> QED
  BY <1>2, <1>3, <1>4

\* What follows begins with the whole of the next frame.
LEMMA FirstFrame ==
    ASSUME NEW frames \in Seq(Frames), NEW n \in 1 .. Len(frames) + 1, NEW s \in Streams,
           NEW st, Starts(st, frames), Follows(s, frames, n, st)
    PROVE  /\ Len(s) > 0 <=> n <= Len(frames)
           /\ n <= Len(frames) =>
                /\ frames[n] \in Frames /\ Size(frames[n]) \in Nat /\ Size(frames[n]) <= Len(s)
                /\ st[n + 1] = st[n] + Size(frames[n])
                /\ \A i \in 1 .. Size(frames[n]) : s[i] = <<frames[n], i>>
<1>1. PICK l \in Nat, m \in Nat : l = Len(frames) /\ m = Len(s)
  BY LenProperties DEF Streams
<1>2. n \in Nat /\ n <= l + 1 /\ n \in 1 .. l + 1 /\ l + 1 \in 1 .. l + 1
  BY <1>1
<1>3. PICK b \in Nat, e \in Nat : b = st[n] /\ e = st[l + 1] /\ (b < e <=> n < l + 1)
  BY <1>1, <1>2, PlacesInOrder
<1>4. b + m = e
  BY <1>1, <1>3 DEF Follows
<1>5. m > 0 <=> n <= l
  BY <1>1, <1>2, <1>3, <1>4
<1>6. ASSUME n <= l
      PROVE  /\ frames[n] \in Frames /\ Size(frames[n]) \in Nat /\ Size(frames[n]) <= m
             /\ st[n + 1] = st[n] + Size(frames[n])
             /\ \A i \in 1 .. Size(frames[n]) : s[i] = <<frames[n], i>>
  <2>1. n \in 1 .. l /\ n + 1 \in 1 .. l + 1
    BY <1>2, <1>6
  <2>2. frames[n] \in Frames
    BY <2>1, <1>1, ElementOfSeq
  <2>3. Size(frames[n]) \in Nat
    BY <2>2, BytesOf
  <2>4. PICK z \in Nat : z = Size(frames[n])
    BY <2>3
  <2>5. st[n + 1] = b + z
    BY <2>1, <2>4, <1>1, <1>3 DEF Starts
  <2>6. b + z <= e
    <3>1. ~(e < b + z)
      <4>1. st[l + 1] < st[n + 1] <=> l + 1 < n + 1
        BY <2>1, <1>1, <1>2, PlacesInOrder
      <4> QED
        BY <4>1, <2>1, <2>5, <1>3
    <3> QED
      BY <3>1
  <2>7. ASSUME NEW i \in 1 .. z PROVE s[i] = <<frames[n], i>>
    <3>1. i \in 1 .. m
      BY <2>6, <1>4
    <3>2. PICK k \in n .. l : st[k] < b + i /\ b + i <= st[k + 1] /\ s[i] = <<frames[k], b + i - st[k]>>
      BY <3>1, <1>1, <1>3 DEF Follows
    <3>3. k \in 1 .. l + 1
      BY <1>2
    <3>4. st[k] \in Nat /\ (st[k] < st[n + 1] <=> k < n + 1)
      BY <3>3, <2>1, <1>1, PlacesInOrder
    <3>5. k = n
      BY <3>2, <3>4, <2>5, <1>2
    <3>6. b + i - b = i
      OBVIOUS
    <3> QED
      BY <3>2, <3>5, <3>6, <1>3
  <2> QED
    BY <2>2, <2>4, <2>5, <2>6, <2>7, <1>3, <1>4, SMTT(30)
<1> QED
  BY <1>1, <1>5, <1>6

\* The stream s is x and then y.
Joined(s, x, y) ==
    /\ Len(s) = Len(x) + Len(y)
    /\ \A i \in 1 .. Len(x) + Len(y) : s[i] = IF i <= Len(x) THEN x[i] ELSE y[i - Len(x)]

\* The next frame is taken off.
LEMMA NextFrame ==
    ASSUME NEW frames \in Seq(Frames), NEW n \in 1 .. Len(frames), NEW s \in Streams,
           NEW st, Starts(st, frames), Follows(s, frames, n, st),
           NEW x \in Streams, NEW y \in Streams, Joined(s, x, y), Len(x) = Size(frames[n])
    PROVE  x = Bytes(frames[n]) /\ Follows(y, frames, n + 1, st)
<1>1. PICK l \in Nat, m \in Nat, h \in Nat : l = Len(frames) /\ m = Len(y) /\ h = Len(x)
  BY LenProperties DEF Streams
<1>2. n \in Nat /\ n \in 1 .. l /\ n \in 1 .. l + 1 /\ n + 1 \in 1 .. l + 1
  BY <1>1
<1>3. /\ frames[n] \in Frames /\ h = Size(frames[n]) /\ h <= Len(s)
      /\ st[n + 1] = st[n] + h
      /\ \A i \in 1 .. h : s[i] = <<frames[n], i>>
  BY <1>1, <1>2, FirstFrame
<1>4. /\ Len(s) = h + m
      /\ \A i \in 1 .. h + m : s[i] = IF i <= h THEN x[i] ELSE y[i - h]
  BY <1>1 DEF Joined
<1>5. x = Bytes(frames[n])
  <2>1. /\ Bytes(frames[n]) \in Streams /\ Len(Bytes(frames[n])) = h
        /\ \A i \in 1 .. h : Bytes(frames[n])[i] = <<frames[n], i>>
    BY <1>3, BytesOf
  <2>2. ASSUME NEW i \in 1 .. h PROVE x[i] = Bytes(frames[n])[i]
    <3>1. i \in 1 .. h + m /\ i <= h
      BY <1>1
    <3>2. s[i] = x[i]
      BY <3>1, <1>4
    <3> QED
      BY <3>2, <2>1, <1>3
  <2> QED
    BY <2>1, <2>2, <1>1, SeqEqual DEF Streams
<1>6. PICK b \in Nat : b = st[n]
  BY <1>1, <1>2, PlacesInOrder
<1>7. st[n + 1] + m = st[l + 1]
  BY <1>1, <1>3, <1>4, <1>6 DEF Follows
<1>8. PICK c \in Nat : c = st[n + 1] /\ c = b + h
  BY <1>1, <1>3, <1>6
<1>9. ASSUME NEW i \in 1 .. m
      PROVE  \E k \in n + 1 .. l : st[k] < c + i /\ c + i <= st[k + 1] /\ y[i] = <<frames[k], c + i - st[k]>>
  <2>1. PICK j \in 1 .. h + m : j = h + i /\ ~(j <= h) /\ j - h = i
    BY <1>1, SMTT(30)
  <2>2. s[j] = y[i]
    BY <2>1, <1>4
  <2>3. PICK u \in Nat : u = c + i /\ u = b + j
    BY <2>1, <1>8
  <2>4. PICK k \in n .. l : st[k] < b + j /\ b + j <= st[k + 1] /\ s[j] = <<frames[k], b + j - st[k]>>
    BY <2>1, <1>1, <1>4, <1>6 DEF Follows
  <2>6. st[k] \in Nat
    <3>1. k \in 1 .. l + 1
      BY <1>2
    <3> QED
      BY <3>1, <1>1, <1>2, PlacesInOrder
  <2>5. st[k] < u /\ u <= st[k + 1] /\ y[i] = <<frames[k], u - st[k]>>
    <3>1. st[k] < u /\ u <= st[k + 1]
      BY <2>3, <2>4, Zenon
    <3>2. b + j - st[k] = u - st[k]
      BY <2>3, <2>6
    <3>3. s[j] = <<frames[k], u - st[k]>>
      BY <3>2, <2>4, Zenon
    <3> QED
      BY <2>2, <3>1, <3>3, Zenon
  <2>7. st[n + 1] \in Nat /\ st[k + 1] \in Nat /\ (st[n + 1] < st[k + 1] <=> n + 1 < k + 1)
    <3>1. k + 1 \in 1 .. l + 1
      BY <1>2
    <3> QED
      BY <3>1, <1>1, <1>2, PlacesInOrder
  <2>8. c < u
    BY <2>3
  <2>9. k \in n + 1 .. l
    BY <2>5, <2>7, <2>8, <1>2, <1>8
  <2>10. st[k] < c + i /\ c + i <= st[k + 1] /\ y[i] = <<frames[k], c + i - st[k]>>
    <3>1. st[k] < c + i /\ c + i <= st[k + 1]
      BY <2>3, <2>5, Zenon
    <3>2. c + i - st[k] = u - st[k]
      BY <2>3, <2>6
    <3> QED
      BY <2>5, <3>1, <3>2, Zenon
  <2> QED
    BY <2>9, <2>10, Zenon
<1> QED
  BY <1>1, <1>5, <1>7, <1>8, <1>9 DEF Follows

\* The server writes another frame.
LEMMA NewFrame ==
    ASSUME NEW frames \in Seq(Frames), NEW n \in 1 .. Len(frames) + 1, NEW s \in Streams,
           NEW st, Starts(st, frames), Follows(s, frames, n, st),
           NEW f \in Frames, NEW t \in Streams, Joined(t, s, Bytes(f))
    PROVE  \E p : Starts(p, Append(frames, f)) /\ Follows(t, Append(frames, f), n, p)
<1>1. PICK l \in Nat, m \in Nat, z \in Nat : l = Len(frames) /\ m = Len(s) /\ z = Size(f)
  BY BytesOf, LenProperties DEF Streams
<1>2. n \in Nat /\ n \in 1 .. l + 1 /\ l + 1 \in 1 .. l + 1
  BY <1>1
<1>3. PICK g : g = Append(frames, f)
  OBVIOUS
<1>4. /\ g \in Seq(Frames) /\ Len(g) = l + 1 /\ g[l + 1] = f
      /\ \A k \in 1 .. l : g[k] = frames[k]
  BY <1>1, <1>3, AppendProperties
<1>5. PICK b \in Nat, e \in Nat : b = st[n] /\ e = st[l + 1]
  BY <1>1, <1>2, PlacesInOrder
<1>a. b + m = e
  BY <1>1, <1>5 DEF Follows
<1>6. /\ Len(t) = m + z
      /\ \A i \in 1 .. m + z : t[i] = IF i <= m THEN s[i] ELSE Bytes(f)[i - m]
      /\ \A i \in 1 .. z : Bytes(f)[i] = <<f, i>>
      /\ z > 0
  <2>1. Len(Bytes(f)) = z /\ \A i \in 1 .. z : Bytes(f)[i] = <<f, i>>
    BY <1>1, BytesOf
  <2>2. z > 0
    BY <1>1, Sizes
  <2> QED
    BY <2>1, <2>2, <1>1 DEF Joined
<1>7. PICK p : p = [k \in Nat |-> IF k = l + 2 THEN e + z ELSE st[k]]
  OBVIOUS
<1>8. /\ p \in [Nat -> Nat] /\ p[l + 2] = e + z
      /\ \A k \in 1 .. l + 1 : p[k] = st[k]
  <2>0. st \in [Nat -> Nat]
    BY DEF Starts
  <2>1. e + z \in Nat /\ l + 2 \in Nat
    OBVIOUS
  <2>2. p \in [Nat -> Nat] /\ p[l + 2] = e + z
    BY <2>0, <2>1, <1>7
  <2>3. ASSUME NEW k \in 1 .. l + 1 PROVE p[k] = st[k]
    <3>1. k \in Nat /\ k # l + 2
      OBVIOUS
    <3> QED
      BY <3>1, <1>7
  <2> QED
    BY <2>2, <2>3
<1>9. Starts(p, g)
  <2>1. ASSUME NEW k \in 1 .. l + 1 PROVE p[k + 1] = p[k] + Size(g[k])
    <3>1. CASE k \in 1 .. l
      <4>1. k + 1 \in 1 .. l + 1
        BY <3>1
      <4>2. p[k + 1] = st[k + 1] /\ p[k] = st[k] /\ g[k] = frames[k]
        BY <3>1, <4>1, <1>4, <1>8
      <4> QED
        BY <3>1, <4>2, <1>1 DEF Starts
    <3>2. CASE k = l + 1
      <4>1. k + 1 = l + 2
        BY <3>2
      <4> QED
        BY <3>2, <4>1, <1>1, <1>2, <1>4, <1>5, <1>8
    <3> QED
      BY <3>1, <3>2
  <2>2. ASSUME NEW j \in 1 .. l + 2, NEW k \in 1 .. l + 2, j < k PROVE p[j] < p[k]
    <3>0. j \in 1 .. l + 1
      BY <2>2
    <3>1. j \in 1 .. l + 1 /\ p[j] = st[j]
      BY <3>0, <1>8
    <3>2. CASE k \in 1 .. l + 1
      BY <2>2, <3>1, <3>2, <1>1, <1>8 DEF Starts
    <3>3. CASE k = l + 2
      <4>1. st[j] \in Nat /\ ~(e < st[j])
        <5>1. st[j] \in Nat /\ (st[l + 1] < st[j] <=> l + 1 < j)
          BY <3>1, <1>1, <1>2, PlacesInOrder
        <5> QED
          BY <5>1, <3>1, <1>5
      <4>2. p[k] = e + z
        BY <3>3, <1>8
      <4> QED
        BY <3>1, <4>1, <4>2, <1>5, <1>6, SMTT(30)
    <3> QED
      BY <3>2, <3>3
  <2>3. (l + 1) + 1 = l + 2
    OBVIOUS
  <2> QED
    BY <2>1, <2>2, <2>3, <1>4, <1>8 DEF Starts
<1>10. Follows(t, g, n, p)
  <2>0. e + z = b + (m + z)
    BY <1>a
  <2>1. p[n] = b /\ p[l + 2] = b + (m + z)
    BY <2>0, <1>2, <1>5, <1>8
  <2>2. ASSUME NEW i \in 1 .. m + z
        PROVE  \E k \in n .. l + 1 : p[k] < b + i /\ b + i <= p[k + 1] /\ t[i] = <<g[k], b + i - p[k]>>
    <3>1. CASE i \in 1 .. m
      <4>1. PICK k \in n .. l : st[k] < b + i /\ b + i <= st[k + 1] /\ s[i] = <<frames[k], b + i - st[k]>>
        BY <3>1, <1>1, <1>5 DEF Follows
      <4>2. k \in 1 .. l /\ k \in 1 .. l + 1 /\ k + 1 \in 1 .. l + 1 /\ k \in n .. l + 1
        BY <1>2
      <4>3. t[i] = s[i]
        BY <3>1, <1>6
      <4>4. p[k] = st[k] /\ p[k + 1] = st[k + 1] /\ g[k] = frames[k]
        BY <4>2, <1>4, <1>8
      <4>5. p[k] < b + i /\ b + i <= p[k + 1] /\ t[i] = <<g[k], b + i - p[k]>>
        BY <4>1, <4>3, <4>4
      <4> QED
        BY <4>2, <4>5
    <3>2. CASE ~(i \in 1 .. m)
      <4>1. i - m \in 1 .. z /\ ~(i <= m)
        BY <3>2
      <4>2. t[i] = <<f, i - m>>
        BY <4>1, <1>6
      <4>3. p[l + 1] = e /\ g[l + 1] = f /\ l + 1 \in n .. l + 1 /\ (l + 1) + 1 = l + 2
        BY <1>2, <1>4, <1>5, <1>8
      <4>4. e < b + i /\ b + i <= e + z /\ b + i - e = i - m
        BY <4>1, <1>a
      <4>5. p[l + 1] < b + i /\ b + i <= p[(l + 1) + 1] /\ t[i] = <<g[l + 1], b + i - p[l + 1]>>
        BY <4>2, <4>3, <4>4, <1>8
      <4> QED
        BY <4>3, <4>5
    <3> QED
      BY <3>1, <3>2
  <2>3. (l + 1) + 1 = l + 2
    OBVIOUS
  <2> QED
    BY <2>1, <2>2, <2>3, <1>4, <1>6, ZenonT(30) DEF Follows
<1> QED
  BY <1>3, <1>9, <1>10

\* Such a stream is framed.
LEMMA FollowsFramed ==
    ASSUME NEW frames \in Seq(Frames), NEW n \in 1 .. Len(frames) + 1, NEW s \in Streams,
           NEW st, Starts(st, frames), Follows(s, frames, n, st)
    PROVE  Framed(s)
<1>1. PICK l \in Nat, m \in Nat : l = Len(frames) /\ m = Len(s) /\ DOMAIN s = 1 .. m
  BY LenProperties DEF Streams
<1>2. n \in Nat /\ n \in 1 .. l + 1
  BY <1>1
<1>3. PICK b \in Nat : b = st[n]
  BY <1>1, <1>2, PlacesInOrder
<1>4. ASSUME NEW i \in 1 .. m
      PROVE  \E k \in n .. l, x \in Nat, y \in Nat, z \in Nat :
               /\ x = st[k] /\ y = st[k + 1] /\ z = Size(frames[k]) /\ y = x + z
               /\ x < b + i /\ b + i <= y /\ s[i] = <<frames[k], b + i - x>>
               /\ \A j \in 1 .. l + 1 : st[j] \in Nat /\ (x < st[j] <=> k < j) /\ (y < st[j] <=> k + 1 < j)
                                                      /\ (st[j] < y <=> j < k + 1)
  <2>1. PICK k \in n .. l : st[k] < b + i /\ b + i <= st[k + 1] /\ s[i] = <<frames[k], b + i - st[k]>>
    BY <1>1, <1>3 DEF Follows
  <2>2. k \in 1 .. l /\ k \in 1 .. l + 1 /\ k + 1 \in 1 .. l + 1
    BY <1>2
  <2>3. \A j \in 1 .. l + 1 : /\ st[j] \in Nat /\ (st[k] < st[j] <=> k < j)
                              /\ (st[k + 1] < st[j] <=> k + 1 < j) /\ (st[j] < st[k + 1] <=> j < k + 1)
    BY <2>2, <1>1, PlacesInOrder
  <2>4. frames[k] \in Frames /\ Size(frames[k]) \in Nat
    BY <2>2, <1>1, BytesOf, ElementOfSeq
  <2>5. st[k + 1] = st[k] + Size(frames[k]) /\ st[k] \in Nat /\ st[k + 1] \in Nat
    BY <2>2, <2>3, <1>1 DEF Starts
  <2> QED
    BY <2>1, <2>3, <2>4, <2>5
<1>5. ASSUME NEW i \in 1 .. m
      PROVE  IF s[i][2] = 1
             THEN i = 1 \/ s[i - 1] = <<s[i - 1][1], LenBytes + s[i - 1][1].len>>
             ELSE i > 1 /\ s[i - 1] = <<s[i][1], s[i][2] - 1>>
  <2>1. PICK k \in n .. l, x \in Nat, y \in Nat, z \in Nat :
               /\ x = st[k] /\ y = st[k + 1] /\ z = Size(frames[k]) /\ y = x + z
               /\ x < b + i /\ b + i <= y /\ s[i] = <<frames[k], b + i - x>>
               /\ \A j \in 1 .. l + 1 : st[j] \in Nat /\ (x < st[j] <=> k < j) /\ (y < st[j] <=> k + 1 < j)
                                                      /\ (st[j] < y <=> j < k + 1)
    BY <1>4
  <2>2. CASE i = 1
    <3>1. x < st[n] <=> k < n
      BY <2>1, <1>2
    <3>2. ~(x < b)
      BY <3>1, <1>2, <1>3
    <3>3. b + i - x = 1
      BY <3>2, <2>1, <2>2, SMTT(30)
    <3> QED
      BY <3>3, <2>1, <2>2
  <2>3. CASE i > 1
    <3>1. PICK h \in 1 .. m : h = i - 1
      BY <2>3
    <3>2. PICK r \in n .. l, u \in Nat, v \in Nat, w \in Nat :
               /\ u = st[r] /\ v = st[r + 1] /\ w = Size(frames[r]) /\ v = u + w
               /\ u < b + h /\ b + h <= v /\ s[h] = <<frames[r], b + h - u>>
               /\ \A j \in 1 .. l + 1 : st[j] \in Nat /\ (u < st[j] <=> r < j) /\ (v < st[j] <=> r + 1 < j)
                                                      /\ (st[j] < v <=> j < r + 1)
      BY <1>4
    <3>a. /\ h = i - 1 /\ y = x + z /\ x < b + i /\ b + i <= y
          /\ v = u + w /\ u < b + h /\ b + h <= v
      BY <2>1, <3>1, <3>2
    <3>3. r \in 1 .. l + 1 /\ r + 1 \in 1 .. l + 1 /\ k \in 1 .. l + 1 /\ k + 1 \in 1 .. l + 1
      BY <1>2
    <3>4. (u < y <=> r < k + 1) /\ (v < x <=> r + 1 < k) /\ (x < v <=> k < r + 1)
      BY <2>1, <3>2, <3>3
    <3>5. r < k + 1
      BY <3>a, <3>4
    <3>6. CASE b + i - x = 1
      <4>1. ~(v < x) /\ ~(x < u)
        BY <3>a, <3>6
      <4>2. v = x \/ x < v
        BY <4>1
      <4>3. x < v => r = k
        BY <3>4, <3>5
      <4>4. r = k => u = x
        BY <2>1, <3>2
      <4>5. x # u
        BY <3>a, <3>6
      <4>6. v = x
        BY <4>2, <4>3, <4>4, <4>5
      <4>7. b + h - u = w
        BY <4>6, <3>a, <3>6
      <4>8. s[h] = <<frames[r], LenBytes + frames[r].len>>
        BY <4>7, <3>2 DEF Size
      <4>9. s[h] = <<s[h][1], LenBytes + s[h][1].len>> /\ s[i][2] = 1
        BY <4>8, <3>6, <2>1
      <4> QED
        BY <4>9, <3>1, <2>3
    <3>7. CASE b + i - x # 1
      <4>1. x < b + h
        BY <3>a, <3>7
      <4>2. x < v
        BY <4>1, <3>a
      <4>3. r = k
        BY <4>2, <3>4, <3>5
      <4>4. u = x
        BY <4>3, <2>1, <3>2
      <4>5. b + h - u = (b + i - x) - 1
        BY <4>4, <3>1
      <4>6. s[h] = <<frames[k], (b + i - x) - 1>>
        BY <4>3, <4>5, <3>2, Zenon
      <4>7. s[i][1] = frames[k] /\ s[i][2] = b + i - x
        BY <2>1
      <4>8. s[h] = <<s[i][1], s[i][2] - 1>> /\ s[i][2] # 1
        BY <4>6, <4>7, <3>7, Zenon
      <4> QED
        BY <4>8, <3>1, <2>3
    <3> QED
      BY <3>6, <3>7
  <2> QED
    BY <2>2, <2>3
<1> QED
  BY <1>1, <1>5 DEF Framed

-----------------------------------------------------------------------------
(* What a step does to the frames of the server.                           *)

\* The stream of two parts.
LEMMA JoinedParts ==
    ASSUME NEW x \in Streams, NEW y \in Streams
    PROVE  x \o y \in Streams /\ Joined(x \o y, x, y)
  BY ConcatProperties DEF Streams, Joined

\* A stream is determined by its parts.
LEMMA JoinedOnce ==
    ASSUME NEW s \in Streams, NEW t \in Streams, NEW x \in Streams, NEW y \in Streams,
           Joined(s, x, y), Joined(t, x, y)
    PROVE  s = t
<1>1. PICK n \in Nat : n = Len(x) + Len(y)
  BY LenProperties DEF Streams
<1>2. Len(s) = n /\ Len(t) = n /\ \A i \in 1 .. n : s[i] = t[i]
  BY <1>1 DEF Joined
<1> QED
  BY <1>2, SeqEqual DEF Streams

\* The types of what comes in.
LEMMA Income ==
    ASSUME TypeOK
    PROVE  /\ rest \in Streams /\ Joined(rest, input_buffer.data, s2c)
           /\ input_buffer.data \in Streams /\ s2c \in Streams /\ answers \in Seq(Frames)
           /\ read \in Seq(Streams) /\ DOMAIN read = 1 .. Len(read)
           /\ Len(read) \in Nat /\ Len(answers) \in Nat /\ Len(rest) \in Nat /\ Len(input_buffer.data) \in Nat
           /\ input_buffer.curr_offset \in Nat /\ input_buffer.len \in Nat
<1>1. /\ input_buffer.data \in Streams /\ s2c \in Streams /\ answers \in Seq(Frames)
      /\ to_process \in Seq(Streams) /\ dispatched \in Seq(Streams)
      /\ input_buffer.curr_offset \in Nat /\ input_buffer.len \in Nat
  BY DEF TypeOK
<1>2. rest \in Streams /\ Joined(rest, input_buffer.data, s2c)
  BY <1>1, JoinedParts DEF rest
<1>3. read \in Seq(Streams)
  BY <1>1, ConcatProperties DEF read
<1> QED
  BY <1>1, <1>2, <1>3, LenProperties DEF Streams

\* The bytes that are taken from the socket are still ahead of what it holds.
LEMMA BytesMoved ==
    ASSUME TypeOK, NEW k \in Nat, NEW d, Taken(k, d)
    PROVE  /\ d \in Streams /\ s2c' \in Streams /\ Len(d) = Len(input_buffer.data) + k
           /\ Joined(rest, d, s2c') /\ d \o s2c' = rest
<1>1. PICK x \in Streams, y \in Streams : x = input_buffer.data /\ y = s2c
  BY Income
<1>2. PICK l \in Nat, m \in Nat : l = Len(x) /\ m = Len(y)
  BY LenProperties DEF Streams
<1>3. d = x \o SubSeq(y, 1, k) /\ s2c' = SubSeq(y, k + 1, m)
  BY <1>1, <1>2 DEF Taken, Take
<1>a. k <= m
  BY <1>1, <1>2 DEF Taken
<1>4. PICK c : c = s2c'
  OBVIOUS
<1>5. /\ d \in Streams /\ Len(d) = l + k
      /\ \A i \in 1 .. l : d[i] = x[i]
      /\ \A i \in 1 .. k : d[l + i] = y[i]
      /\ c \in Streams /\ Len(c) = m - k
      /\ \A i \in 1 .. m - k : c[i] = y[k + i]
  <2>1. PICK S : S = Frames \X Nat
    OBVIOUS
  <2>2. x \in Seq(S) /\ y \in Seq(S) /\ k <= Len(y)
    BY <2>1, <1>2, <1>a, Zenon DEF Streams
  <2>3. Shifted(S, x, y, k, x \o SubSeq(y, 1, k), SubSeq(y, k + 1, Len(y)))
    BY <2>2, TakeFrom, Zenon
  <2>4. Shifted(S, x, y, k, d, c)
    BY <2>3, <1>2, <1>3, <1>4, Zenon
  <2> QED
    BY <2>1, <2>4, <1>2 DEF Shifted, Streams
<1>6. /\ rest \in Streams /\ Len(rest) = l + m
      /\ \A i \in 1 .. l + m : rest[i] = IF i <= l THEN x[i] ELSE y[i - l]
  BY <1>1, <1>2, Income DEF Joined
<1>7. ASSUME NEW i \in 1 .. l + m
      PROVE  rest[i] = IF i <= l + k THEN d[i] ELSE c[i - (l + k)]
  <2>1. CASE i <= l
    <3>1. i \in 1 .. l /\ i <= l + k
      BY <2>1
    <3> QED
      BY <3>1, <2>1, <1>5, <1>6
  <2>2. CASE ~(i <= l) /\ i <= l + k
    <3>1. PICK h \in 1 .. k : h = i - l /\ l + h = i
      BY <2>2
    <3>2. rest[i] = y[h]
      BY <3>1, <2>2, <1>6
    <3>3. d[l + h] = y[h]
      BY <1>5
    <3> QED
      BY <3>1, <3>2, <3>3, <2>2
  <2>3. CASE ~(i <= l + k)
    <3>1. PICK h \in 1 .. m - k : h = i - (l + k) /\ k + h = i - l /\ ~(i <= l)
      BY <2>3, <1>a
    <3>2. rest[i] = y[i - l]
      BY <3>1, <1>6
    <3>3. c[h] = y[k + h]
      BY <1>5
    <3> QED
      BY <3>1, <3>2, <3>3, <2>3
  <2> QED
    BY <2>1, <2>2, <2>3
<1>8. Joined(rest, d, c)
  <2>1. Len(d) + Len(c) = l + m
    BY <1>a, <1>5
  <2> QED
    BY <2>1, <1>5, <1>6, <1>7 DEF Joined
<1>9. d \o c = rest
  <2>1. PICK t : t = d \o c
    OBVIOUS
  <2>2. t \in Streams /\ Joined(t, d, c)
    BY <2>1, <1>5, JoinedParts
  <2>3. t = rest
    BY <2>2, <1>5, <1>6, <1>8, JoinedOnce
  <2> QED
    BY <2>1, <2>3
<1> QED
  BY <1>1, <1>2, <1>4, <1>5, <1>8, <1>9

\* What is known of the frames while they are read.
LEMMA Ahead ==
    ASSUME TypeOK, InInv, Reading, NEW n \in Nat, n = Len(read) + 1
    PROVE  \E st : /\ Starts(st, answers) /\ Follows(rest, answers, n, st)
                   /\ n \in 1 .. Len(answers) + 1
                   /\ Len(rest) > 0 <=> n <= Len(answers)
                   /\ n <= Len(answers) =>
                        /\ answers[n] \in Frames /\ Size(answers[n]) \in Nat /\ Size(answers[n]) <= Len(rest)
                        /\ \A i \in 1 .. Size(answers[n]) : rest[i] = <<answers[n], i>>
<1>1. PICK st : Starts(st, answers) /\ Follows(rest, answers, n, st)
  BY DEF InInv, RestInv
<1>2. answers \in Seq(Frames) /\ rest \in Streams /\ Len(read) \in Nat /\ Len(answers) \in Nat
  BY Income
<1>3. n \in 1 .. Len(answers) + 1
  BY <1>2 DEF InInv, ReadInv
<1> QED
  BY <1>1, <1>2, <1>3, FirstFrame

\* What was read is what the server wrote.
LEMMA InIsFramed == TypeOK /\ InInv => InputIsFramed
<1> SUFFICES ASSUME TypeOK, InInv PROVE InputIsFramed
  OBVIOUS
<1>1. ReadInv
  BY DEF InInv
<1>2. ASSUME Reading
      PROVE  /\ rest # <<>> => Len(read) < Len(answers) /\ rest[1] = <<answers[Len(read) + 1], 1>>
             /\ Framed(rest)
  <2>1. PICK n \in Nat : n = Len(read) + 1
    BY Income
  <2>2. PICK st : /\ Starts(st, answers) /\ Follows(rest, answers, n, st)
                  /\ n \in 1 .. Len(answers) + 1
                  /\ Len(rest) > 0 <=> n <= Len(answers)
                  /\ n <= Len(answers) =>
                       /\ answers[n] \in Frames /\ Size(answers[n]) \in Nat /\ Size(answers[n]) <= Len(rest)
                       /\ \A i \in 1 .. Size(answers[n]) : rest[i] = <<answers[n], i>>
    BY <2>1, <1>2, Ahead
  <2>3. answers \in Seq(Frames) /\ rest \in Streams /\ Len(read) \in Nat /\ Len(answers) \in Nat
    BY Income
  <2>4. Framed(rest)
    BY <2>2, <2>3, FollowsFramed
  <2>5. ASSUME rest # <<>> PROVE Len(read) < Len(answers) /\ rest[1] = <<answers[n], 1>>
    <3>1. n <= Len(answers)
      BY <2>2, <2>3, <2>5, EmptySeq DEF Streams
    <3>2. 1 \in 1 .. Size(answers[n])
      BY <3>1, <2>2, Sizes
    <3> QED
      BY <3>1, <3>2, <2>1, <2>2, <2>3
  <2> QED
    BY <2>1, <2>4, <2>5
<1> QED
  BY <1>1, <1>2 DEF InputIsFramed, ReadInv, Reading, read, rest

\* Nothing is read.
LEMMA InKeptStep == InInv /\ UNCHANGED <<zstate, in>> => InInv'
  BY DEF in, InInv, ReadInv, RestInv, BufferInv, Reading, read, rest

\* The read of the length takes the length of the next frame.
LEMMA LengthStep ==
    ASSUME TypeOK, TypeOK', InInv, ReceiveLength, Reading, UNCHANGED answers
    PROVE  InInv'
<1>1. PICK k \in Nat \ {0}, d \in Streams, n \in Nat, len \in Nat :
        /\ Taken(k, d) /\ n = input_buffer.curr_offset + k /\ n <= LenBytes
        /\ input_buffer' = [curr_offset |-> n, len |-> len, data |-> d]
        /\ n = LenBytes => LengthIn(d, len)
        /\ UNCHANGED <<zstate, to_process, dispatched>>
  BY LengthRead
<1>2. input_buffer.curr_offset \in Nat /\ input_buffer.curr_offset < 4 /\ n <= 4 /\ LenBytes = 4
  BY <1>1, Income, Sizes
<1>3. zstate = "CONNECTED" /\ zstate' = "CONNECTED" /\ input_buffer.curr_offset = Len(input_buffer.data)
  <2>1. zstate # "ASSOCIATING"
    <3>1. zstate = "ASSOCIATING" => input_buffer.curr_offset = LenBytes + Len(input_buffer.data)
      BY DEF InInv, BufferInv
    <3> QED
      BY <3>1, <1>2, Income
  <2>2. zstate = "CONNECTED"
    BY <2>1 DEF Reading
  <2> QED
    BY <2>2, <1>1 DEF InInv, BufferInv
<1>4. /\ s2c' \in Streams /\ Len(d) = n /\ d \o s2c' = rest /\ Joined(rest, d, s2c')
  BY <1>1, <1>3, BytesMoved
<1>5. read' = read
  BY <1>1 DEF read
<1>6. rest' = rest
  <2>1. input_buffer'.data = d
    BY <1>1
  <2> QED
    BY <2>1, <1>4, Zenon DEF rest
<1>7. ReadInv' /\ RestInv'
  BY <1>3, <1>5, <1>6 DEF InInv, ReadInv, RestInv, Reading
<1>8. ASSUME n >= 4 PROVE len = answers[Len(read) + 1].len /\ n < 4 + len
  <2>1. PICK h \in Nat : h = Len(read) + 1
    BY Income
  <2>2. PICK st : /\ h \in 1 .. Len(answers) + 1
                  /\ Len(rest) > 0 <=> h <= Len(answers)
                  /\ h <= Len(answers) =>
                       /\ answers[h] \in Frames /\ Size(answers[h]) \in Nat /\ Size(answers[h]) <= Len(rest)
                       /\ \A i \in 1 .. Size(answers[h]) : rest[i] = <<answers[h], i>>
    BY <2>1, Ahead
  <2>3. n = 4 /\ Len(d) = 4 /\ LengthIn(d, len)
    BY <1>1, <1>2, <1>4, <1>8
  <2>4. Len(rest) > 0 /\ \A i \in 1 .. 4 : rest[i] = d[i]
    <3>1. Len(s2c') \in Nat
      BY <1>4, LenProperties DEF Streams
    <3>2. /\ Len(rest) = 4 + Len(s2c')
          /\ \A i \in 1 .. 4 + Len(s2c') : rest[i] = IF i <= 4 THEN d[i] ELSE (s2c')[i - 4]
      BY <2>3, <1>4 DEF Joined
    <3> QED
      BY <3>1, <3>2
  <2>5. PICK f \in Frames : f = answers[h] /\ \A i \in 1 .. Size(f) : rest[i] = <<f, i>>
    BY <2>2, <2>4
  <2>6. f.len \in Nat /\ f.len > 0 /\ Size(f) = 4 + f.len
    BY Sizes
  <2>7. \A i \in 1 .. 4 : d[i] = <<f, i>>
    BY <2>4, <2>5, <2>6
  <2>8. d = Header(f)
    <3>1. /\ Bytes(f) \in Streams /\ Len(Bytes(f)) = Size(f)
          /\ \A i \in 1 .. Size(f) : Bytes(f)[i] = <<f, i>>
      BY BytesOf
    <3>2. Header(f) \in Streams /\ Len(Header(f)) = 4 /\ \A i \in 1 .. 4 : Header(f)[i] = <<f, i>>
      BY <3>1, <2>6, <1>2, PartOf, SMTT(30) DEF Streams, Header
    <3> QED
      BY <3>2, <2>3, <2>7, SeqEqual DEF Streams
  <2>9. d[1][1] = f
    BY <2>7
  <2>10. len = f.len
    BY <2>3, <2>8, <2>9, Zenon DEF LengthIn
  <2> QED
    BY <2>1, <2>5, <2>6, <2>10, <1>2
<1>9. BufferInv'
  BY <1>1, <1>2, <1>3, <1>4, <1>5, <1>8 DEF BufferInv
<1> QED
  BY <1>7, <1>9 DEF InInv

\* The read of a payload takes no more than the next frame, and hands it over whole.
LEMMA PayloadStep ==
    ASSUME TypeOK, TypeOK', InInv, ReceivePayload, Reading, to_process = <<>>, UNCHANGED answers
    PROVE  InInv'
<1>1. PICK k \in Nat \ {0}, d \in Streams, n \in Nat :
        /\ Taken(k, d) /\ n = input_buffer.curr_offset + k
        /\ input_buffer.curr_offset >= LenBytes
        /\ \/ /\ n < LenBytes + input_buffer.len
              /\ input_buffer' = [curr_offset |-> n, len |-> input_buffer.len, data |-> d]
              /\ UNCHANGED <<zstate, to_process, dispatched>>
           \/ /\ n = LenBytes + input_buffer.len
              /\ input_buffer' = EmptyBuffer /\ zstate' = "CONNECTED"
              /\ to_process' = IF zstate = "CONNECTED" THEN Append(to_process, d) ELSE to_process
              /\ dispatched' = IF zstate = "ASSOCIATING" THEN Append(dispatched, d) ELSE dispatched
  BY PayloadRead
<1>2. /\ input_buffer.curr_offset \in Nat /\ input_buffer.len \in Nat /\ Len(input_buffer.data) \in Nat
      /\ LenBytes = 4 /\ input_buffer.curr_offset >= 4
  BY <1>1, Income, Sizes
<1>3. /\ s2c' \in Streams /\ Len(d) = Len(input_buffer.data) + k
      /\ d \o s2c' = rest /\ Joined(rest, d, s2c')
  BY <1>1, BytesMoved
<1>4. PICK h \in Nat : h = Len(read) + 1
  BY Income
<1>5. /\ zstate = "ASSOCIATING" =>
           /\ dispatched = <<>> /\ answers = <<Frame(0, "primer", PrimerLength)>>
           /\ input_buffer.len = Size(answers[1]) /\ n = 4 + Len(d)
      /\ zstate = "CONNECTED" => n = Len(d) /\ input_buffer.len = answers[h].len
  <2>1. n = input_buffer.curr_offset + k /\ Len(d) = Len(input_buffer.data) + k
    BY <1>1, <1>3
  <2>2. CASE zstate = "ASSOCIATING"
    <3>1. /\ dispatched = <<>> /\ answers = <<Frame(0, "primer", PrimerLength)>>
          /\ input_buffer.len = Size(answers[1])
          /\ input_buffer.curr_offset = LenBytes + Len(input_buffer.data)
      BY <2>2, Zenon DEF InInv, BufferInv
    <3>2. n = 4 + Len(d)
      BY <2>1, <3>1, <1>2
    <3> QED
      BY <2>2, <3>1, <3>2
  <2>3. CASE zstate = "CONNECTED"
    <3>1. /\ input_buffer.curr_offset = Len(input_buffer.data)
          /\ input_buffer.len = answers[Len(read) + 1].len
      BY <2>3, <1>1 DEF InInv, BufferInv
    <3>2. n = Len(d)
      BY <2>1, <3>1
    <3>3. input_buffer.len = answers[h].len
      BY <3>1, <1>4
    <3> QED
      BY <2>3, <3>2, <3>3
  <2> QED
    BY <2>2, <2>3
<1>6. CASE /\ n < 4 + input_buffer.len
           /\ input_buffer' = [curr_offset |-> n, len |-> input_buffer.len, data |-> d]
           /\ UNCHANGED <<zstate, to_process, dispatched>>
  <2>1. read' = read
    BY <1>6 DEF read
  <2>2. rest' = rest
    <3>1. input_buffer'.data = d
      BY <1>6
    <3> QED
      BY <3>1, <1>3, Zenon DEF rest
  <2>3. ReadInv' /\ RestInv'
    BY <1>6, <2>1, <2>2 DEF InInv, ReadInv, RestInv, Reading
  <2>4. Len(d) \in Nat
    BY <1>2, <1>3
  <2>5. BufferInv'
    BY <1>2, <1>4, <1>5, <1>6, <2>1, <2>4 DEF InInv, BufferInv
  <2> QED
    BY <2>3, <2>5 DEF InInv
<1>7. CASE /\ n = 4 + input_buffer.len
           /\ input_buffer' = EmptyBuffer /\ zstate' = "CONNECTED"
           /\ to_process' = IF zstate = "CONNECTED" THEN Append(to_process, d) ELSE to_process
           /\ dispatched' = IF zstate = "ASSOCIATING" THEN Append(dispatched, d) ELSE dispatched
  <2>1. PICK a \in Seq(Frames), l \in Nat, s \in Streams, y \in Streams, q \in Seq(Streams) :
          a = answers /\ l = Len(a) /\ s = rest /\ y = s2c' /\ q = dispatched
    <3>1. dispatched \in Seq(Streams)
      BY DEF TypeOK
    <3> QED
      BY <3>1, <1>3, Income
  <2>2. PICK st : /\ Starts(st, a) /\ Follows(s, a, h, st)
                  /\ h \in 1 .. l + 1
                  /\ Len(s) > 0 <=> h <= l
                  /\ h <= l => a[h] \in Frames /\ Size(a[h]) \in Nat
    BY <2>1, <1>4, Ahead
  <2>3. read = q /\ h = Len(q) + 1 /\ Len(q) \in Nat
    <3>1. read = q
      BY <2>1 DEF read
    <3> QED
      BY <3>1, <1>4, Income
  <2>4. h <= l
    <3>1. Len(s) = Len(d) + Len(y) /\ Len(d) > 0
      BY <2>1, <1>2, <1>3 DEF Joined
    <3>2. Len(y) \in Nat /\ Len(d) \in Nat
      BY LenProperties DEF Streams
    <3> QED
      BY <3>1, <3>2, <2>2
  <2>5. Len(d) = Size(a[h])
    <3>1. CASE zstate = "ASSOCIATING"
      <4>1. Len(q) = 0 /\ h = 1
        BY <3>1, <2>1, <2>3, <1>5, EmptySeq
      <4> QED
        BY <4>1, <3>1, <2>1, <2>2, <2>4, <1>5, <1>7
    <3>2. CASE zstate = "CONNECTED"
      BY <3>2, <2>1, <1>2, <1>5, <1>7 DEF Size
    <3> QED
      BY <3>1, <3>2 DEF Reading
  <2>6. d = Bytes(a[h]) /\ Follows(y, a, h + 1, st)
    <3>1. h \in 1 .. Len(a) /\ Joined(s, d, y)
      BY <2>1, <2>2, <2>4, <1>3
    <3> QED
      BY <3>1, <2>2, <2>5, NextFrame
  <2>7. /\ read' \in Seq(Streams) /\ Len(read') = h /\ DOMAIN read' = 1 .. h
        /\ \A i \in 1 .. Len(q) : read'[i] = q[i]
        /\ read'[h] = d
    <3>1. read' = Append(q, d)
      <4>1. CASE zstate = "CONNECTED"
        <5>1. dispatched' = q /\ to_process' = Append(<<>>, d)
          BY <4>1, <2>1, <1>7
        <5> QED
          BY <5>1 DEF read
      <4>2. CASE zstate = "ASSOCIATING"
        <5>1. dispatched' = Append(q, d) /\ to_process' = <<>>
          BY <4>2, <2>1, <1>7
        <5> QED
          BY <5>1 DEF read
      <4> QED
        BY <4>1, <4>2 DEF Reading
    <3> QED
      BY <3>1, <2>3, AppendProperties
  <2>8. rest' = y
    <3>1. input_buffer'.data = <<>>
      BY <1>7 DEF EmptyBuffer
    <3> QED
      BY <3>1, <2>1 DEF rest
  <2>9. ReadInv'
    <3>1. \A i \in 1 .. Len(q) : q[i] = Bytes(a[i])
      BY <2>1, <2>3, Income DEF InInv, ReadInv
    <3>2. ASSUME NEW i \in 1 .. h PROVE read'[i] = Bytes(a[i])
      <4>1. i \in 1 .. Len(q) \/ i = h
        BY <2>3
      <4> QED
        BY <4>1, <3>1, <2>6, <2>7
    <3>3. answers' = a
      BY <2>1
    <3> QED
      BY <3>2, <3>3, <2>1, <2>4, <2>7 DEF ReadInv
  <2>10. RestInv'
    BY <2>1, <2>2, <2>6, <2>7, <2>8 DEF RestInv
  <2>11. BufferInv'
    <3>1. /\ zstate' = "CONNECTED" /\ input_buffer'.curr_offset = 0
          /\ Len(input_buffer'.data) = 0
      BY <1>7, EmptySeq DEF EmptyBuffer
    <3> QED
      BY <3>1, Sizes DEF BufferInv
  <2> QED
    BY <2>9, <2>10, <2>11 DEF InInv
<1> QED
  BY <1>1, <1>2, <1>6, <1>7

\* What was received is dispatched in its order.
LEMMA DispatchStep ==
    ASSUME TypeOK, InInv, Dispatch
    PROVE  InInv'
<1>1. PICK p \in Seq(Streams), q \in Seq(Streams) : p = to_process /\ q = dispatched
  BY DEF TypeOK
<1>2. /\ p # <<>> /\ dispatched' = Append(q, Head(p)) /\ to_process' = Tail(p)
      /\ UNCHANGED <<zstate, out, input_buffer, s2c, served, answers, losses>>
  BY <1>1 DEF Dispatch
<1>3. /\ Head(p) = p[1] /\ Head(p) \in Streams /\ Len(p) \in Nat \ {0} /\ Len(q) \in Nat
      /\ Tail(p) \in Seq(Streams) /\ Len(Tail(p)) = Len(p) - 1
      /\ \A i \in 1 .. Len(p) - 1 : Tail(p)[i] = p[i + 1]
  BY <1>2, HeadOf, LenProperties
<1>4. PICK r : r = Append(q, Head(p))
  OBVIOUS
<1>5. /\ r \in Seq(Streams) /\ Len(r) = Len(q) + 1 /\ r[Len(q) + 1] = p[1]
      /\ \A i \in 1 .. Len(q) : r[i] = q[i]
  BY <1>3, <1>4, AppendProperties
<1>6. r \o Tail(p) = q \o p
  <2>1. PICK t : t = Tail(p)
    OBVIOUS
  <2>2. PICK m \in Nat, n \in Nat : m = Len(p) /\ n = Len(q)
    BY <1>3
  <2>3. /\ r \o t \in Seq(Streams) /\ Len(r \o t) = n + m
        /\ \A i \in 1 .. n + m : (r \o t)[i] = IF i <= n + 1 THEN r[i] ELSE t[i - (n + 1)]
    <3>1. Len(r) + Len(t) = n + m /\ Len(r) = n + 1
      BY <2>1, <2>2, <1>3, <1>5
    <3>2. r \in Seq(Streams) /\ t \in Seq(Streams)
      BY <2>1, <1>3, <1>5, Zenon
    <3>3. /\ r \o t \in Seq(Streams) /\ Len(r \o t) = Len(r) + Len(t)
          /\ \A i \in 1 .. Len(r) + Len(t) : (r \o t)[i] = IF i <= Len(r) THEN r[i] ELSE t[i - Len(r)]
      BY <3>2, ConcatProperties
    <3> QED
      BY <3>1, <3>3, Zenon
  <2>4. /\ q \o p \in Seq(Streams) /\ Len(q \o p) = n + m
        /\ \A i \in 1 .. n + m : (q \o p)[i] = IF i <= n THEN q[i] ELSE p[i - n]
    BY <2>2, ConcatProperties
  <2>5. ASSUME NEW i \in 1 .. n + m PROVE (r \o t)[i] = (q \o p)[i]
    <3>1. CASE i <= n
      <4>1. i \in 1 .. n /\ i <= n + 1
        BY <3>1
      <4> QED
        BY <4>1, <3>1, <2>2, <2>3, <2>4, <1>5
    <3>2. CASE i = n + 1
      <4>1. i <= n + 1 /\ ~(i <= n) /\ i - n = 1
        BY <3>2
      <4>2. (r \o t)[i] = r[i] /\ (q \o p)[i] = p[1]
        BY <4>1, <2>3, <2>4
      <4>3. r[n + 1] = p[1]
        BY <2>2, <1>5
      <4> QED
        BY <4>2, <4>3, <3>2
    <3>3. CASE i > n + 1
      <4>1. PICK j \in 1 .. m - 1 : j = i - (n + 1) /\ j + 1 = i - n /\ ~(i <= n + 1) /\ ~(i <= n)
        BY <3>3
      <4>2. (r \o t)[i] = t[j] /\ (q \o p)[i] = p[j + 1]
        BY <4>1, <2>3, <2>4
      <4>3. t[j] = p[j + 1]
        BY <2>1, <2>2, <1>3
      <4> QED
        BY <4>2, <4>3
    <3>4. i <= n \/ i = n + 1 \/ i > n + 1
      OBVIOUS
    <3> QED
      BY <3>1, <3>2, <3>3, <3>4, Zenon
  <2>6. r \o t = q \o p
    BY <2>3, <2>4, <2>5, SeqEqual
  <2> QED
    BY <2>1, <2>6
<1>7. read' = read
  BY <1>1, <1>2, <1>4, <1>6, Zenon DEF read
<1>8. rest' = rest /\ answers' = answers /\ zstate' = zstate /\ input_buffer' = input_buffer
  BY <1>2 DEF rest
<1>9. zstate \notin {"NONE", "ASSOCIATING"}
  BY <1>1, <1>2 DEF InInv, BufferInv
<1>10. ReadInv' /\ RestInv'
  BY <1>7, <1>8 DEF InInv, ReadInv, RestInv, Reading
<1>11. BufferInv'
  BY <1>7, <1>8, <1>9 DEF InInv, BufferInv
<1> QED
  BY <1>10, <1>11 DEF InInv

\* The connect response is the first frame of a connection.
LEMMA ConnectStep ==
    ASSUME TypeOK, TypeOK', InInv, Connect
    PROVE  InInv'
<1>1. PICK f \in Frames : f = Frame(0, "primer", PrimerLength) /\ f.len = PrimerLength
  BY FrameType
<1>2. /\ zstate' = "ASSOCIATING" /\ input_buffer' = PrimerBuffer
      /\ s2c' = Bytes(f) /\ answers' = <<f>> /\ dispatched' = <<>> /\ to_process' = <<>>
  BY <1>1 DEF Connect, InInv, BufferInv
<1>3. PICK t \in Streams, z \in Nat : t = Bytes(f) /\ z = Size(f)
  BY BytesOf
<1>4. Len(t) = z /\ z > 0 /\ \A i \in 1 .. z : t[i] = <<f, i>>
  BY <1>3, BytesOf, Sizes
<1>5. read' = <<>> /\ Len(read') = 0 /\ DOMAIN read' = {}
  <2>1. read' = <<>>
    BY <1>2 DEF read
  <2> QED
    BY <2>1
<1>6. rest' = t
  <2>1. input_buffer'.data = <<>> /\ s2c' = t
    BY <1>2, <1>3 DEF PrimerBuffer
  <2> QED
    BY <2>1 DEF rest
<1>7. PICK a \in Seq(Frames) : a = <<f>> /\ Len(a) = 1 /\ a[1] = f
  <2>1. <<f>> \in Seq(Frames) /\ Len(<<f>>) = 1 /\ <<f>>[1] = f
    OBVIOUS
  <2> QED
    BY <2>1, Zenon
<1>8. answers' = a
  BY <1>2, <1>7
<1>9. PICK st : st = [k \in Nat |-> IF k = 2 THEN z ELSE 0]
  OBVIOUS
<1>10. st \in [Nat -> Nat] /\ st[1] = 0 /\ st[2] = z
  BY <1>9
<1>11. Starts(st, a)
  <2>1. \A k \in 1 .. 1 : st[k + 1] = st[k] + Size(a[k])
    BY <1>3, <1>7, <1>10
  <2>2. ASSUME NEW j \in 1 .. 2, NEW k \in 1 .. 2, j < k PROVE st[j] < st[k]
    <3>1. j = 1 /\ k = 2
      BY <2>2
    <3> QED
      BY <3>1, <1>4, <1>10
  <2> QED
    BY <2>1, <2>2, <1>7, <1>10 DEF Starts
<1>12. Follows(t, a, 1, st)
  <2>1. st[1] + Len(t) = st[1 + 1]
    BY <1>4, <1>10
  <2>2. ASSUME NEW i \in 1 .. z
        PROVE  st[1] < st[1] + i /\ st[1] + i <= st[1 + 1] /\ t[i] = <<a[1], st[1] + i - st[1]>>
    <3>1. st[1] < st[1] + i /\ st[1] + i <= st[1 + 1] /\ st[1] + i - st[1] = i
      BY <1>10
    <3> QED
      BY <3>1, <1>4, <1>7
  <2>3. 1 \in 1 .. 1
    OBVIOUS
  <2> QED
    BY <2>1, <2>2, <2>3, <1>4, <1>7 DEF Follows
<1>13. ReadInv'
  BY <1>5, <1>7, <1>8 DEF ReadInv
<1>14. RestInv'
  BY <1>5, <1>6, <1>8, <1>11, <1>12 DEF RestInv
<1>15. BufferInv'
  <2>1. /\ input_buffer'.len = LenBytes + PrimerLength /\ input_buffer'.curr_offset = LenBytes
        /\ Len(input_buffer'.data) = 0
    BY <1>2, EmptySeq DEF PrimerBuffer
  <2>2. Size(f) = LenBytes + PrimerLength
    BY <1>1 DEF Size
  <2>3. 0 < LenBytes + PrimerLength /\ LenBytes = LenBytes + 0
    BY Sizes
  <2> QED
    BY <2>1, <2>2, <2>3, <1>1, <1>2, <1>7 DEF BufferInv
<1> QED
  BY <1>13, <1>14, <1>15 DEF InInv

\* The server writes a frame behind all that it has written.
LEMMA ServerStep ==
    ASSUME TypeOK, TypeOK', InInv, NEW len \in Lengths, ServerSends(len)
    PROVE  InInv'
<1>1. PICK f \in Frames : f = Frame(served + 1, "answer", len)
  <2>1. served + 1 \in Nat
    BY DEF TypeOK
  <2> QED
    BY <2>1, FrameType
<1>2. /\ zstate = "CONNECTED" /\ zstate' = "CONNECTED"
      /\ s2c' = s2c \o Bytes(f) /\ answers' = Append(answers, f)
      /\ UNCHANGED <<input_buffer, to_process, dispatched>>
  BY <1>1 DEF ServerSends
<1>3. PICK a \in Seq(Frames), l \in Nat, s \in Streams, x \in Streams, y \in Streams, c \in Streams,
           t \in Streams, z \in Nat :
        /\ a = answers /\ l = Len(a) /\ s = rest /\ x = input_buffer.data /\ y = s2c
        /\ c = s2c' /\ t = Bytes(f) /\ z = Len(t)
  <2>1. s2c' \in Streams
    BY DEF TypeOK
  <2>2. Bytes(f) \in Streams /\ Len(Bytes(f)) \in Nat
    BY BytesOf
  <2> QED
    BY <2>1, <2>2, Income
<1>4. PICK r \in Streams : r = rest'
  <2>1. input_buffer'.data \in Streams /\ s2c' \in Streams
    BY DEF TypeOK
  <2> QED
    BY <2>1, JoinedParts DEF rest
<1>5. PICK h \in Nat : h = Len(read) + 1
  BY Income
<1>6. read' = read
  BY <1>2 DEF read
<1>7. Joined(s, x, y) /\ Joined(c, y, t) /\ Joined(r, x, c)
  <2>1. Joined(s, x, y)
    BY <1>3, Income
  <2>2. c = y \o t
    BY <1>2, <1>3
  <2>3. r = x \o c
    BY <1>2, <1>3, <1>4, Zenon DEF rest
  <2> QED
    BY <2>1, <2>2, <2>3, JoinedParts
<1>8. Joined(r, s, t)
  <2>1. PICK u \in Nat, v \in Nat : u = Len(x) /\ v = Len(y)
    BY LenProperties DEF Streams
  <2>2. /\ Len(s) = u + v
        /\ \A i \in 1 .. u + v : s[i] = IF i <= u THEN x[i] ELSE y[i - u]
        /\ Len(c) = v + z
        /\ \A i \in 1 .. v + z : c[i] = IF i <= v THEN y[i] ELSE t[i - v]
    BY <2>1, <1>3, <1>7 DEF Joined
  <2>3. /\ Len(r) = u + (v + z)
        /\ \A i \in 1 .. u + (v + z) : r[i] = IF i <= u THEN x[i] ELSE c[i - u]
    BY <2>1, <2>2, <1>7 DEF Joined
  <2>4. ASSUME NEW i \in 1 .. u + v + z PROVE r[i] = IF i <= u + v THEN s[i] ELSE t[i - (u + v)]
    <3>0. i \in 1 .. u + (v + z)
      OBVIOUS
    <3>1. CASE i <= u
      <4>1. i \in 1 .. u + v /\ i <= u + v
        BY <3>1
      <4> QED
        BY <4>1, <3>0, <3>1, <2>2, <2>3
    <3>2. CASE ~(i <= u) /\ i <= u + v
      <4>1. PICK j \in 1 .. v + z : j = i - u /\ j <= v
        BY <3>2
      <4>2. i \in 1 .. u + v
        BY <3>2
      <4>3. r[i] = c[j] /\ s[i] = y[j]
        BY <4>1, <4>2, <3>0, <3>2, <2>2, <2>3
      <4>4. c[j] = y[j]
        BY <4>1, <2>2
      <4> QED
        BY <4>3, <4>4, <3>2
    <3>3. CASE ~(i <= u + v)
      <4>1. PICK j \in 1 .. v + z : j = i - u /\ ~(j <= v) /\ j - v = i - (u + v) /\ ~(i <= u)
        BY <3>3
      <4>2. r[i] = c[j]
        BY <4>1, <3>0, <2>3
      <4>3. c[j] = t[j - v]
        BY <4>1, <2>2
      <4> QED
        BY <4>1, <4>2, <4>3, <3>3
    <3> QED
      BY <3>1, <3>2, <3>3
  <2>5. Len(r) = Len(s) + z /\ Len(s) = u + v
    BY <2>2, <2>3
  <2> QED
    BY <2>4, <2>5, <1>3 DEF Joined
<1>9. PICK st : /\ Starts(st, a) /\ Follows(s, a, h, st)
                /\ h \in 1 .. l + 1
                /\ Len(s) > 0 <=> h <= l
  BY <1>2, <1>3, <1>5, Ahead DEF Reading
<1>10. PICK g : g = Append(a, f)
  OBVIOUS
<1>11. \E p : Starts(p, g) /\ Follows(r, g, h, p)
  <2>1. Joined(r, s, Bytes(f)) /\ h \in 1 .. Len(a) + 1
    BY <1>3, <1>8, <1>9
  <2> QED
    BY <2>1, <1>9, <1>10, NewFrame
<1>12. /\ answers' = g /\ Len(g) = l + 1
       /\ \A i \in 1 .. l : g[i] = a[i]
  BY <1>2, <1>3, <1>10, AppendProperties
<1>13. ReadInv'
  <2>1. Len(read) <= l /\ \A i \in 1 .. Len(read) : read[i] = Bytes(a[i])
    BY <1>3, Income DEF InInv, ReadInv
  <2>2. DOMAIN read = 1 .. Len(read) /\ Len(read) \in Nat
    BY Income
  <2>3. \A i \in 1 .. Len(read) : read[i] = Bytes(g[i])
    BY <2>1, <2>2, <1>12
  <2> QED
    BY <2>1, <2>2, <2>3, <1>6, <1>12 DEF ReadInv
<1>14. RestInv'
  BY <1>4, <1>5, <1>6, <1>11, <1>12 DEF RestInv
<1>15. BufferInv'
  <2>1. /\ input_buffer.curr_offset = Len(x)
        /\ input_buffer.curr_offset >= LenBytes =>
             input_buffer.len = a[h].len /\ input_buffer.curr_offset < LenBytes + input_buffer.len
    BY <1>2, <1>3, <1>5 DEF InInv, BufferInv
  <2>2. ASSUME input_buffer.curr_offset >= LenBytes PROVE a[h] = g[h]
    <3>1. Len(s) > 0
      <4>1. Len(s) = Len(x) + Len(y) /\ Len(x) \in Nat /\ Len(y) \in Nat
        BY <1>7, LenProperties DEF Joined, Streams
      <4> QED
        BY <4>1, <2>1, <2>2, Sizes
    <3>2. h \in 1 .. l
      BY <3>1, <1>9
    <3> QED
      BY <3>2, <1>12
  <2> QED
    BY <2>1, <2>2, <1>2, <1>3, <1>5, <1>6, <1>12 DEF BufferInv
<1> QED
  BY <1>13, <1>14, <1>15 DEF InInv

\* The streams begin empty.
LEMMA InInit == Init => InInv
<1> SUFFICES ASSUME Init PROVE InInv
  OBVIOUS
<1>1. /\ zstate = "NONE" /\ dispatched = <<>> /\ to_process = <<>> /\ answers = <<>>
  BY DEF Init
<1>2. Len(read) = 0 /\ DOMAIN read = {} /\ Len(answers) = 0
  <2>1. read = <<>>
    BY <1>1 DEF read
  <2> QED
    BY <2>1, <1>1
<1> QED
  BY <1>1, <1>2 DEF InInv, ReadInv, RestInv, BufferInv, Reading

\* Every step keeps what is known of the frames that come in.
LEMMA InStep == TypeOK /\ TypeOK' /\ InInv /\ [Next]_vars => InInv'
<1> SUFFICES ASSUME TypeOK, TypeOK', InInv, [Next]_vars PROVE InInv'
  OBVIOUS
<1>1. ASSUME NEW len \in Lengths, QueueRequest(len) \/ AddAuth(len) PROVE InInv'
  BY <1>1, InKeptStep DEF QueueRequest, AddAuth
<1>2. ASSUME NEW len \in Lengths, ServerSends(len) PROVE InInv'
  BY <1>2, ServerStep
<1>3. CASE BeginFlush \/ EndFlush \/ SendBuffer("io") \/ SendBuffer("closer") \/ Close
  BY <1>3, InKeptStep DEF BeginFlush, EndFlush, SendBuffer, Close
<1>4. CASE Receive
  <2>1. Reading /\ to_process = <<>> /\ UNCHANGED answers /\ (ReceiveLength \/ ReceivePayload)
    BY <1>4 DEF Receive, Reading
  <2> QED
    BY <2>1, LengthStep, PayloadStep
<1>5. CASE Dispatch
  BY <1>5, DispatchStep
<1>6. CASE Connect
  BY <1>6, ConnectStep
<1>7. CASE LoseConnection
  <2>1. /\ zstate' \in {"NONE", "EXPIRED"}
        /\ dispatched' = <<>> /\ to_process' = <<>> /\ answers' = <<>>
    BY <1>7 DEF LoseConnection
  <2>2. read' = <<>>
    BY <2>1 DEF read
  <2>3. Len(read') = 0 /\ DOMAIN read' = {} /\ Len(answers') = 0
    BY <2>1, <2>2
  <2> QED
    BY <2>1, <2>3 DEF InInv, ReadInv, RestInv, BufferInv, Reading
<1>8. CASE CloseReturns
  <2>1. zstate' = "FREED" /\ UNCHANGED <<dispatched, to_process, answers>>
    BY <1>8 DEF CloseReturns
  <2> QED
    BY <2>1 DEF InInv, ReadInv, RestInv, BufferInv, Reading, read
<1>9. CASE UNCHANGED vars
  BY <1>9, InKeptStep DEF vars
<1> QED
  BY <1>1, <1>2, <1>3, <1>4, <1>5, <1>6, <1>7, <1>8, <1>9 DEF Next

\* What the client reads is what the server wrote, frame by frame, however the bytes
\* arrive: no byte is lost, read twice or taken into another frame (recv_buffer,
\* zookeeper.c:891; check_events, zookeeper.c:1422; zookeeper_process, zookeeper.c:2079).
THEOREM InputStaysWhole == Spec => []InputIsFramed
<1>1. Init => TypeOK /\ InInv
  BY TypeInit, InInit
<1>2. TypeOK /\ InInv /\ [Next]_vars => TypeOK' /\ InInv'
  BY TypeStep, InStep
<1>3. TypeOK /\ InInv => InputIsFramed
  BY InIsFramed
<1> QED
  BY <1>1, <1>2, <1>3, PTL DEF Spec
=============================================================================
