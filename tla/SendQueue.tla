------------------------------ MODULE SendQueue ------------------------------
(***************************************************************************)
(* The two byte streams of a connection: frames of to_send written by      *)
(* send_buffer in as many pieces as the socket takes, and the bytes of     *)
(* the server put together again by recv_buffer.  A frame is four bytes    *)
(* that hold its length and then its payload.  A byte is its frame and its *)
(* place in it, <<f, i>>, so that one can see where a stream went wrong.   *)
(***************************************************************************)
EXTENDS Naturals, Sequences

CONSTANTS
    Lengths,        \* payload lengths of ordinary frames
    PrimerLength,   \* payload length of the connect response
    MaxFrames,      \* bound: frames put on to_send
    MaxServed,      \* bound: frames the server sends
    MaxLosses       \* bound: connections that are lost

ASSUME BoundsAssumption ==
    /\ Lengths \subseteq Nat \ {0}
    /\ PrimerLength \in Nat \ {0}
    /\ {MaxFrames, MaxServed, MaxLosses} \subseteq Nat

LenBytes == 4

Kinds == {"request", "auth", "watches", "close"}

VARIABLES
    zstate,         \* zh->state: "NONE" (no session), "ASSOCIATING", "CONNECTED", "EXPIRED", "FREED"
    to_send,        \* the queue: [frame, curr_offset]
    sendLock,       \* who flushes under the lock of to_send: "free", "io", "closer"
    input_buffer,   \* [curr_offset, len, data], len = 0 where it is not known yet
    to_process,     \* received and not dispatched
    wire,           \* all that was written on this connection
    s2c,            \* what the server wrote and the client has not read
    made,           \* frames made so far
    served,         \* frames of the server so far
    losses,         \* connections lost so far
    accepted,       \* history: requests queued since the last clean-up, numbered as they were made
    answers,        \* history: frames the server wrote on this connection
    dispatched,     \* history: buffers dispatched on this connection
    cut             \* history: on this connection a frame was put in front of a partly written one

out == <<to_send, sendLock, wire, made, accepted, cut>>
in == <<input_buffer, to_process, s2c, served, answers, dispatched>>
vars == <<zstate, out, in, losses>>

Frame(id, kind, len) == [id |-> id, kind |-> kind, len |-> len]
Bytes(f) == [i \in 1 .. (LenBytes + f.len) |-> <<f, i>>]
Header(f) == SubSeq(Bytes(f), 1, LenBytes)
Payload(f) == SubSeq(Bytes(f), LenBytes + 1, LenBytes + f.len)

\* allocate_buffer for a frame that is to be sent, and the buffers that are read into.
Outgoing(f) == [frame |-> f, curr_offset |-> 0]
EmptyBuffer == [curr_offset |-> 0, len |-> 0, data |-> <<>>]
PrimerBuffer == [curr_offset |-> LenBytes, len |-> LenBytes + PrimerLength, data |-> <<>>]

Init ==
    /\ zstate = "NONE"
    /\ to_send = <<>> /\ sendLock = "free" /\ wire = <<>>
    /\ input_buffer = EmptyBuffer /\ to_process = <<>> /\ s2c = <<>>
    /\ made = 0 /\ served = 0 /\ losses = 0
    /\ accepted = {} /\ answers = <<>> /\ dispatched = <<>> /\ cut = FALSE

(***************************************************************************)
(* queue_buffer, at the back or in front.                                  *)
(***************************************************************************)
QueueFront(q, f) == <<Outgoing(f)>> \o q

\* Every frame is put in front.
QueueAhead(q, f) == QueueFront(q, f)

QueueBack(q, f) == Append(q, Outgoing(f))

PartlyWritten(q) == q # <<>> /\ Head(q).curr_offset > 0

\* zoo_awget and its like, under zh_lock: whatever the state of the connection.
QueueRequest(len) ==
    /\ zstate \notin {"EXPIRED", "FREED"} /\ sendLock = "free" /\ made < MaxFrames
    /\ LET f == Frame(made + 1, "request", len) IN
         /\ to_send' = QueueBack(to_send, f)
         /\ accepted' = accepted \cup {f}
    /\ made' = made + 1
    /\ UNCHANGED <<zstate, sendLock, wire, cut, in, losses>>

\* zoo_add_auth puts its packet in front of everything, whatever the head has sent already.
AddAuth(len) ==
    /\ zstate \in {"ASSOCIATING", "CONNECTED"} /\ sendLock = "free" /\ made < MaxFrames
    /\ to_send' = QueueFront(to_send, Frame(made + 1, "auth", len))
    /\ cut' = (cut \/ PartlyWritten(to_send))
    /\ made' = made + 1
    /\ UNCHANGED <<zstate, sendLock, wire, accepted, in, losses>>

(***************************************************************************)
(* send_buffer: one send for what is missing of the length and, once that  *)
(* is out, one for the rest of the payload; each may take less.            *)
(***************************************************************************)
RestOfHeader(b) == SubSeq(Header(b.frame), b.curr_offset + 1, LenBytes)

\* What is left of the payload is counted, and taken from its start.
PayloadFromStart(b, off) == SubSeq(Payload(b.frame), 1, b.frame.len - (off - LenBytes))

RestOfPayload(b, off) == SubSeq(Payload(b.frame), off - LenBytes + 1, b.frame.len)

Written(b, k1, k2) ==
    LET off == b.curr_offset + k1 IN
    SubSeq(RestOfHeader(b), 1, k1)
      \o (IF off >= LenBytes THEN SubSeq(RestOfPayload(b, off), 1, k2) ELSE <<>>)

FullySent(b) == b.curr_offset = LenBytes + b.frame.len

\* One pass of the loop of flush_send_queue; a buffer that is out is removed.
SendBuffer(thread) ==
    /\ sendLock = thread /\ zstate = "CONNECTED" /\ to_send # <<>>
    /\ LET b == Head(to_send) IN
       \E k1 \in 0 .. Len(RestOfHeader(b)) :
       \E k2 \in 0 .. (IF b.curr_offset + k1 >= LenBytes
                       THEN Len(RestOfPayload(b, b.curr_offset + k1)) ELSE 0) :
         LET sent == [b EXCEPT !.curr_offset = @ + k1 + k2] IN
         /\ k1 + k2 > 0
         /\ wire' = wire \o Written(b, k1, k2)
         /\ to_send' = IF FullySent(sent) THEN Tail(to_send) ELSE <<sent>> \o Tail(to_send)
         \* without a timeout a send that is not complete ends the loop
         /\ sendLock' = IF thread = "io" /\ ~ FullySent(sent) THEN "free" ELSE thread
    /\ UNCHANGED <<zstate, made, accepted, cut, in, losses>>

\* check_events: the socket is writable and there is something to send.
BeginFlush ==
    /\ zstate = "CONNECTED" /\ sendLock = "free" /\ to_send # <<>> /\ to_process = <<>>
    /\ sendLock' = "io"
    /\ UNCHANGED <<zstate, to_send, wire, made, accepted, cut, in, losses>>

\* The queue is empty, or the socket takes nothing more.
EndFlush ==
    /\ sendLock = "io"
    /\ sendLock' = "free"
    /\ UNCHANGED <<zstate, to_send, wire, made, accepted, cut, in, losses>>

(***************************************************************************)
(* recv_buffer: what is missing of the length, and once it is known as     *)
(* much of the payload as there is.                                        *)
(***************************************************************************)
\* The length that four bytes stand for; bytes that are no header stand for any.
LengthIn(data, len) ==
    IF data = Header(data[1][1]) THEN len = data[1][1].len ELSE len \in Lengths

Take(k) == SubSeq(s2c, 1, k)

AtMost(n) == 0 .. (IF n < Len(s2c) THEN n ELSE Len(s2c))

Fill(b, k) == [b EXCEPT !.curr_offset = @ + k, !.data = @ \o Take(k)]

\* The read of the length, and the read of the payload that follows in the same call.
ReceiveLength ==
    /\ input_buffer.curr_offset < LenBytes
    /\ \E k \in AtMost(LenBytes - input_buffer.curr_offset) \ {0} :
       LET b == Fill(input_buffer, k) IN
         /\ s2c' = SubSeq(s2c, k + 1, Len(s2c))
         /\ \/ /\ b.curr_offset < LenBytes
               /\ input_buffer' = b
            \/ /\ b.curr_offset = LenBytes
               /\ \E len \in Lengths \cup {PrimerLength} :
                    LengthIn(b.data, len) /\ input_buffer' = [b EXCEPT !.len = len]
    /\ UNCHANGED <<zstate, to_process, dispatched>>

Missing(b) == b.len - (b.curr_offset - LenBytes)

\* The four bytes of the length are counted as payload.
CompleteTooSoon(b) == b.curr_offset >= b.len

Complete(b) == b.curr_offset = b.len + LenBytes

\* check_events: a complete buffer is queued for dispatch; the connect response ends the
\* handshake and puts SetWatches, and before it the credentials, in front of the queue.
ReceivePayload ==
    /\ input_buffer.curr_offset >= LenBytes
    /\ \E k \in AtMost(Missing(input_buffer)) \ {0} :
       LET b == Fill(input_buffer, k) IN
         /\ s2c' = SubSeq(s2c, k + 1, Len(s2c))
         /\ input_buffer' = IF Complete(b) THEN EmptyBuffer ELSE b
         /\ to_process' = IF Complete(b) /\ zstate = "CONNECTED"
                          THEN Append(to_process, b.data) ELSE to_process
         /\ dispatched' = IF Complete(b) /\ zstate = "ASSOCIATING"
                          THEN Append(dispatched, b.data) ELSE dispatched
         /\ zstate' = IF Complete(b) THEN "CONNECTED" ELSE zstate

Receive ==
    /\ zstate \in {"ASSOCIATING", "CONNECTED"} /\ sendLock = "free" /\ to_process = <<>>
    /\ ReceiveLength \/ ReceivePayload
    /\ LET ready == zstate = "ASSOCIATING" /\ zstate' = "CONNECTED" IN
       \/ ready /\ made + 1 < MaxFrames
          /\ \E len \in Lengths :
               to_send' = QueueFront(QueueFront(to_send, Frame(made + 1, "watches", len)),
                                     Frame(made + 2, "auth", len))
          /\ made' = made + 2
          /\ cut' = (cut \/ PartlyWritten(to_send))
       \/ UNCHANGED <<to_send, made, cut>>       \* no watches, no credentials
    /\ UNCHANGED <<sendLock, wire, accepted, served, answers, losses>>

\* zookeeper_process takes what was received from to_process.
Dispatch ==
    /\ to_process # <<>>
    /\ dispatched' = Append(dispatched, Head(to_process))
    /\ to_process' = Tail(to_process)
    /\ UNCHANGED <<zstate, out, input_buffer, s2c, served, answers, losses>>

(***************************************************************************)
(* The connection.                                                         *)
(***************************************************************************)
\* prime_connection: the handshake is written at once and is not a frame of to_send.
Connect ==
    /\ zstate = "NONE"
    /\ zstate' = "ASSOCIATING"
    /\ input_buffer' = PrimerBuffer
    /\ wire' = <<>> /\ cut' = FALSE
    /\ s2c' = Bytes(Frame(0, "primer", PrimerLength))
    /\ answers' = <<Frame(0, "primer", PrimerLength)>>
    /\ dispatched' = <<>>
    /\ UNCHANGED <<to_send, sendLock, to_process, made, served, accepted, losses>>

\* handle_error and cleanup_bufs, whichever call failed: the queues are emptied, a frame
\* that is partly read or written is dropped with them.  A handshake that returns another
\* session ends the handle's.
LoseConnection ==
    /\ zstate \notin {"EXPIRED", "FREED"} /\ sendLock # "closer"
    /\ losses < MaxLosses
    /\ losses' = losses + 1
    /\ \/ zstate' = "NONE"
       \/ zstate = "ASSOCIATING" /\ zstate' = "EXPIRED"
    /\ sendLock' = "free"
    /\ to_send' = <<>> /\ accepted' = {} /\ to_process' = <<>>
    /\ input_buffer' = EmptyBuffer
    /\ wire' = <<>> /\ s2c' = <<>> /\ answers' = <<>> /\ dispatched' = <<>> /\ cut' = FALSE
    /\ UNCHANGED <<made, served>>

\* zookeeper_close, after both threads have ended: the close request is flushed with a
\* timeout, so an incomplete send is tried again until it has passed.
Close ==
    /\ zstate = "CONNECTED" /\ sendLock = "free" /\ to_process = <<>> /\ made < MaxFrames
    /\ \E len \in Lengths : to_send' = QueueBack(to_send, Frame(made + 1, "close", len))
    /\ made' = made + 1
    /\ sendLock' = "closer"
    /\ UNCHANGED <<zstate, wire, accepted, cut, in, losses>>

\* The queue is empty, the timeout has passed or the send failed, or there is nothing to
\* flush for want of a connection: destroy.
CloseReturns ==
    /\ \/ sendLock = "closer"
       \/ sendLock = "free" /\ to_process = <<>> /\ zstate \in {"NONE", "ASSOCIATING", "EXPIRED"}
    /\ sendLock' = "free"
    /\ zstate' = "FREED"
    /\ to_send' = <<>> /\ accepted' = {} /\ input_buffer' = EmptyBuffer
    /\ UNCHANGED <<wire, made, cut, to_process, s2c, served, answers, dispatched, losses>>

\* The server: whole frames, in any number of pieces.
ServerSends(len) ==
    /\ zstate = "CONNECTED" /\ served < MaxServed
    /\ LET f == Frame(served + 1, "answer", len) IN
         /\ s2c' = s2c \o Bytes(f)
         /\ answers' = Append(answers, f)
    /\ served' = served + 1
    /\ UNCHANGED <<zstate, out, input_buffer, to_process, dispatched, losses>>

Next ==
    \/ \E len \in Lengths : QueueRequest(len) \/ AddAuth(len) \/ ServerSends(len)
    \/ BeginFlush \/ SendBuffer("io") \/ EndFlush
    \/ Receive \/ Dispatch
    \/ Connect \/ LoseConnection
    \/ Close \/ SendBuffer("closer") \/ CloseReturns

Spec == Init /\ [][Next]_vars

-----------------------------------------------------------------------------
(***************************************************************************)
(* Properties.                                                             *)
(***************************************************************************)

Frames == [id : Nat, kind : Kinds \cup {"primer", "answer"}, len : Lengths \cup {PrimerLength}]
Buffers == [frame : Frames, curr_offset : Nat]
Streams == Seq(Frames \X Nat)

\* Every variable has its type: the offset of a buffer stays within its frame.
TypeOK ==
    /\ zstate \in {"NONE", "ASSOCIATING", "CONNECTED", "EXPIRED", "FREED"}
    /\ sendLock \in {"free", "io", "closer"}
    /\ to_send \in Seq(Buffers)
    /\ \A i \in DOMAIN to_send : to_send[i].curr_offset < LenBytes + to_send[i].frame.len
    /\ wire \in Streams /\ s2c \in Streams
    /\ input_buffer \in [curr_offset : Nat, len : Nat, data : Streams]
    /\ to_process \in Seq(Streams) /\ dispatched \in Seq(Streams) /\ answers \in Seq(Frames)
    /\ accepted \subseteq Frames
    /\ made \in 0 .. MaxFrames /\ served \in 0 .. MaxServed /\ losses \in 0 .. MaxLosses
    /\ cut \in BOOLEAN

\* A byte is the first of its frame and follows a whole one, or follows its predecessor.
Framed(stream) ==
    \A i \in DOMAIN stream :
        LET f == stream[i][1]  n == stream[i][2] IN
        IF n = 1 THEN i = 1 \/ stream[i - 1] = <<stream[i - 1][1], LenBytes + stream[i - 1][1].len>>
                 ELSE i > 1 /\ stream[i - 1] = <<f, n - 1>>

\* What the server can read is whole frames one after the other, however the socket cut
\* the sends up, across lost connections and the flush of zookeeper_close: send_buffer
\* resumes where it stopped and never on another connection.  Excused is a packet that
\* zoo_add_auth put in front of a frame that was partly written.
WireIsFramed == ~ cut => Framed(wire)

LastByte(byte) == byte[2] = LenBytes + byte[1].len

\* The places of the last bytes of requests, and of the requests that wait.
Sent == {i \in DOMAIN wire : LastByte(wire[i]) /\ wire[i][1].kind = "request"}
Waiting == {i \in DOMAIN to_send : to_send[i].frame.kind = "request"}

\* The requests that were queued since the last error are those that went out and then
\* those that wait, in the order they were made: frames put in front and partial sends
\* neither drop, repeat nor swap one (replies are matched to requests by this order alone).
RequestsKeepOrder ==
    zstate # "FREED" =>
        /\ accepted = {wire[i][1] : i \in Sent} \cup {to_send[i].frame : i \in Waiting}
        /\ \A i, j \in Sent : i < j => wire[i][1].id < wire[j][1].id
        /\ \A i, j \in Waiting : i < j => to_send[i].frame.id < to_send[j].frame.id
        /\ \A i \in Sent, j \in Waiting : wire[i][1].id < to_send[j].frame.id

\* What recv_buffer hands over is what the server wrote, frame by frame, beginning with the
\* connect response whose length is not read: no byte is dropped, or taken into another frame.
InputIsFramed ==
    LET read == dispatched \o to_process IN
    /\ Len(read) <= Len(answers)
    /\ \A i \in DOMAIN read : read[i] = Bytes(answers[i])
    /\ LET rest == input_buffer.data \o s2c IN
         zstate \in {"ASSOCIATING", "CONNECTED"} =>
           /\ rest # <<>> => Len(read) < Len(answers) /\ rest[1] = <<answers[Len(read) + 1], 1>>
           /\ Framed(rest)
=============================================================================
