----------------------- MODULE RequestPipelineProofs -----------------------
(***************************************************************************)
(* Theorems about RequestPipeline, for every number of application         *)
(* threads, server addresses, requests and faults.                         *)
(***************************************************************************)
EXTENDS RequestPipeline, SequenceTheorems, FiniteSetTheorems, TLAPS

(* Where the IO thread is determines whether it has a socket; with a       *)
(* socket, or while an error is handled, connect_index is below NAddrs.    *)
SocketInv ==
    /\ ioPc \in {"ping", "read"} => sock # "none"
    /\ ioPc \in {"cleanup", "free", "done"} => sock = "none"
    /\ sock # "none" \/ ioPc \in {"close", "cleanup", "free"} => connect_index < NAddrs

TypeInv == TypeOK /\ SocketInv

-----------------------------------------------------------------------------
(* The lists.                                                              *)

\* Moving the head of b to the end of a does not change a \o b.
LEMMA MoveHead ==
    ASSUME NEW S, NEW a \in Seq(S), NEW b \in Seq(S), b # <<>>
    PROVE  Append(a, Head(b)) \o Tail(b) = a \o b
<1> DEFINE l == Append(a, Head(b)) \o Tail(b)
<1>1. l \in Seq(S) /\ a \o b \in Seq(S)
  OBVIOUS
<1>2. Len(l) = Len(a \o b)
  OBVIOUS
<1>3. ASSUME NEW i \in 1..Len(l) PROVE l[i] = (a \o b)[i]
  OBVIOUS
<1> QED BY <1>1, <1>2, <1>3

\* An element appended to the second list is appended to the concatenation.
LEMMA AppendRight ==
    ASSUME NEW S, NEW a \in Seq(S), NEW b \in Seq(S), NEW e \in S
    PROVE  a \o Append(b, e) = Append(a \o b, e)
  OBVIOUS

\* The head of the first list is the head of the concatenation.
LEMMA TailLeft ==
    ASSUME NEW S, NEW a \in Seq(S), NEW b \in Seq(S), a # <<>>
    PROVE  /\ Tail(a) \o b = Tail(a \o b)
           /\ Head(a \o b) = Head(a)
           /\ a \o b # <<>>
  OBVIOUS

\* The empty list is neutral.
LEMMA EmptyConcat ==
    ASSUME NEW S, NEW b \in Seq(S)
    PROVE  <<>> \o b = b /\ b \o <<>> = b
  OBVIOUS

-----------------------------------------------------------------------------
(* Type correctness.                                                       *)

\* What the IO thread queues for the completion thread has the right type.
LEMMA EntryTypes ==
    /\ \A n \in Nat, c \in Codes : ReplyEntry(n, c) \in Entry
    /\ \A s \in States : SessionEntry(s) \in Entry
    /\ WatchEntry \in Entry
  BY DEF ReplyEntry, SessionEntry, WatchEntry, Entry, Codes

\* Queueing an entry keeps the type of the queue.
LEMMA QueueType ==
    ASSUME completions \in Seq(Entry), NEW e \in Entry, QueueCompletion(e)
    PROVE  completions' \in Seq(Entry)
  BY DEF QueueCompletion

\* The lists of frames and of requests are taken apart at their heads.
LEMMA FrameList ==
    ASSUME NEW s \in Seq(Frame), s # <<>>
    PROVE  Head(s) \in Frame /\ Tail(s) \in Seq(Frame)
  BY HeadTailProperties

LEMMA RequestList ==
    ASSUME NEW s \in Seq(Request), s # <<>>
    PROVE  Head(s) \in Request /\ Tail(s) \in Seq(Request)
  BY HeadTailProperties

\* Flushing cuts the send queue in two lists of frames.
LEMMA FlushTypes ==
    ASSUME NEW s \in Seq(Frame), NEW k \in 1..Len(s)
    PROVE  SubSeq(s, 1, k) \in Seq(Frame) /\ SubSeq(s, k + 1, Len(s)) \in Seq(Frame)
<1>1. Len(s) \in Nat /\ \A i \in 1..Len(s) : s[i] \in Frame
  BY LenProperties, ElementOfSeq
<1>2. SubSeq(s, 1, k) \in Seq(Frame)
  BY <1>1, SubSeqProperties
<1>3. SubSeq(s, k + 1, Len(s)) \in Seq(Frame)
  BY <1>1, SubSeqProperties
<1> QED
  BY <1>2, <1>3

\* A new request keeps the types of the lists it is put on.
LEMMA AddRequestTypes ==
    ASSUME QueueTypeOK, NEW r \in Request, AddRequest(r)
    PROVE  /\ sent_requests' \in Seq(Request) /\ issued' \in Seq(Issue)
           /\ to_send' \in Seq(Frame)
<1>1. [kind |-> r.kind, by |-> r.by] \in Issue /\ [xid |-> r.xid, n |-> r.n] \in Frame
  BY DEF Request, Issue, Frame
<1> QED
  BY <1>1 DEF AddRequest, QueueTypeOK

\* An answer keeps the types of the completions and of the synchronous results.
LEMMA DeliverTypes ==
    ASSUME QueueTypeOK, CallerTypeOK, NEW r \in Request, NEW c \in Codes, Deliver(r, c)
    PROVE  completions' \in Seq(Entry) /\ sc' \in [Callers -> {"none"} \cup Codes]
<1>1. ReplyEntry(r.n, c) \in Entry
  BY EntryTypes DEF Request
<1>2. completions' \in Seq(Entry)
  <2>1. CASE r.kind = "async"
    BY <1>1, <2>1, QueueType DEF Deliver, QueueTypeOK
  <2>2. CASE r.kind # "async"
    BY <2>2 DEF Deliver, QueueTypeOK
  <2> QED
    BY <2>1, <2>2
<1>3. sc' \in [Callers -> {"none"} \cup Codes]
  BY DEF Deliver, CallerTypeOK
<1> QED
  BY <1>2, <1>3

\* The types hold in the initial state ...
LEMMA TypeInit == Init => TypeInv
<1> SUFFICES ASSUME Init PROVE TypeInv
  OBVIOUS
<1> USE BoundsAssumption DEF Init
<1>1. HandleTypeOK /\ SocketInv
  BY DEF HandleTypeOK, SocketInv, States
<1>5. NetTypeOK
  BY EmptySeq DEF NetTypeOK
<1>2. QueueTypeOK
  BY EmptySeq DEF QueueTypeOK
<1>3. IOTypeOK
  BY DEF IOTypeOK, NoError, Codes
<1>4. CallerTypeOK
  <2>1. pc \in [Callers -> {"idle", "checked", "wake", "waiting"}]
    OBVIOUS
  <2>2. NoCall \in [kind : {"sync", "async"}, xid : Int]
    BY DEF NoCall
  <2>3. call \in [Callers -> [kind : {"sync", "async"}, xid : Int]]
    BY <2>2
  <2>4. sc \in [Callers -> {"none"} \cup Codes]
    OBVIOUS
  <2> QED
    BY <2>1, <2>3, <2>4 DEF CallerTypeOK
<1> QED
  BY <1>1, <1>2, <1>3, <1>4, <1>5 DEF TypeInv, TypeOK

\* ... and every step keeps them.
LEMMA TypeStep == TypeInv /\ [Next]_vars => TypeInv'
<1> SUFFICES ASSUME TypeInv, [Next]_vars PROVE TypeInv'
  OBVIOUS
<1> USE BoundsAssumption DEF zhVars, netVars, queueVars, ioVars, callerVars, countVars
<1>0. HandleTypeOK /\ NetTypeOK /\ QueueTypeOK /\ IOTypeOK /\ CallerTypeOK /\ SocketInv
  BY DEF TypeInv, TypeOK
<1>1. ASSUME NEW c \in Callers, NEW kind \in {"sync", "async"}, StartCall(c, kind) PROVE TypeInv'
  <2>1. HandleTypeOK' /\ IOTypeOK' /\ SocketInv'
    BY <1>0, <1>1 DEF StartCall, HandleTypeOK, IOTypeOK, SocketInv
  <2>2. NetTypeOK'
    BY <1>0, <1>1 DEF StartCall, NetTypeOK
  <2>3. QueueTypeOK'
    BY <1>0, <1>1 DEF StartCall, QueueTypeOK
  <2>4. CallerTypeOK'
    BY <1>0, <1>1 DEF StartCall, CallerTypeOK
  <2> QED
    BY <2>1, <2>2, <2>3, <2>4 DEF TypeInv, TypeOK
<1>2. ASSUME NEW c \in Callers, Enqueue(c) PROVE TypeInv'
  <2>1. HandleTypeOK' /\ IOTypeOK' /\ SocketInv'
    BY <1>0, <1>2 DEF Enqueue, AddRequest, HandleTypeOK, IOTypeOK, SocketInv
  <2>2. NetTypeOK'
    BY <1>0, <1>2 DEF Enqueue, AddRequest, NetTypeOK
  <2>3. QueueTypeOK'
    <3> DEFINE r == [xid |-> call[c].xid, n |-> Len(issued) + 1, kind |-> call[c].kind, by |-> c]
    <3>1. r \in Request
      BY <1>0, <1>2, LenProperties DEF QueueTypeOK, CallerTypeOK, Request
    <3>2. AddRequest(r)
      BY <1>2 DEF Enqueue
    <3> HIDE DEF r
    <3> QED
      BY <1>0, <1>2, <3>1, <3>2, AddRequestTypes DEF Enqueue, QueueTypeOK
  <2>4. CallerTypeOK'
    BY <1>0, <1>2 DEF Enqueue, AddRequest, CallerTypeOK
  <2> QED
    BY <2>1, <2>2, <2>3, <2>4 DEF TypeInv, TypeOK
<1>3. ASSUME NEW c \in Callers, WakeIO(c) PROVE TypeInv'
  <2>1. HandleTypeOK' /\ IOTypeOK' /\ SocketInv'
    BY <1>0, <1>3 DEF WakeIO, WritePipe, Waits, Returns, HandleTypeOK, IOTypeOK, SocketInv
  <2>2. NetTypeOK'
    BY <1>0, <1>3 DEF WakeIO, WritePipe, Waits, Returns, NetTypeOK
  <2>3. QueueTypeOK'
    BY <1>0, <1>3 DEF WakeIO, WritePipe, Waits, Returns, QueueTypeOK
  <2>4. CallerTypeOK'
    <3>1. CASE call[c].kind = "sync"
      BY <1>0, <1>3, <3>1 DEF WakeIO, WritePipe, Waits, CallerTypeOK
    <3>2. CASE call[c].kind # "sync"
      BY <1>0, <1>3, <3>2 DEF WakeIO, WritePipe, Returns, CallerTypeOK, NoCall
    <3> QED
      BY <3>1, <3>2
  <2> QED
    BY <2>1, <2>2, <2>3, <2>4 DEF TypeInv, TypeOK
<1>4. ASSUME NEW c \in Callers, SyncReturn(c) PROVE TypeInv'
  <2>1. HandleTypeOK' /\ IOTypeOK' /\ SocketInv'
    BY <1>0, <1>4 DEF SyncReturn, Returns, HandleTypeOK, IOTypeOK, SocketInv
  <2>2. NetTypeOK'
    BY <1>0, <1>4 DEF SyncReturn, Returns, NetTypeOK
  <2>3. QueueTypeOK'
    BY <1>0, <1>4 DEF SyncReturn, Returns, QueueTypeOK
  <2>4. CallerTypeOK'
    BY <1>0, <1>4 DEF SyncReturn, Returns, CallerTypeOK, NoCall
  <2> QED
    BY <2>1, <2>2, <2>3, <2>4 DEF TypeInv, TypeOK
<1>5. ASSUME RunCallback PROVE TypeInv'
  <2>1. HandleTypeOK' /\ IOTypeOK' /\ SocketInv'
    BY <1>0, <1>5 DEF RunCallback, HandleTypeOK, IOTypeOK, SocketInv
  <2>2. NetTypeOK'
    BY <1>0, <1>5 DEF RunCallback, NetTypeOK
  <2>3. QueueTypeOK'
    BY <1>0, <1>5 DEF RunCallback, QueueTypeOK
  <2>4. CallerTypeOK'
    BY <1>0, <1>5 DEF RunCallback, CallerTypeOK
  <2> QED
    BY <2>1, <2>2, <2>3, <2>4 DEF TypeInv, TypeOK
<1>6. ASSUME CallbackReturns PROVE TypeInv'
  <2>1. HandleTypeOK' /\ IOTypeOK' /\ SocketInv'
    BY <1>0, <1>6 DEF CallbackReturns, HandleTypeOK, IOTypeOK, SocketInv
  <2>2. NetTypeOK'
    BY <1>0, <1>6 DEF CallbackReturns, NetTypeOK
  <2>3. QueueTypeOK'
    BY <1>0, <1>6 DEF CallbackReturns, QueueTypeOK
  <2>4. CallerTypeOK'
    BY <1>0, <1>6 DEF CallbackReturns, CallerTypeOK
  <2> QED
    BY <2>1, <2>2, <2>3, <2>4 DEF TypeInv, TypeOK
<1>7. ASSUME WrapAddress PROVE TypeInv'
  <2>1. HandleTypeOK' /\ IOTypeOK' /\ SocketInv'
    BY <1>0, <1>7 DEF WrapAddress, TopOfLoop, HandleTypeOK, IOTypeOK, SocketInv
  <2>2. NetTypeOK'
    BY <1>0, <1>7 DEF WrapAddress, TopOfLoop, NetTypeOK
  <2>3. QueueTypeOK'
    BY <1>0, <1>7 DEF WrapAddress, TopOfLoop, QueueTypeOK
  <2>4. CallerTypeOK'
    BY <1>0, <1>7 DEF WrapAddress, TopOfLoop, CallerTypeOK
  <2> QED
    BY <2>1, <2>2, <2>3, <2>4 DEF TypeInv, TypeOK
<1>8. ASSUME ConnectStart PROVE TypeInv'
  <2>1. HandleTypeOK' /\ IOTypeOK' /\ SocketInv'
    BY <1>0, <1>8 DEF ConnectStart, Connecting, HandleTypeOK, IOTypeOK, SocketInv, PastLastAddress, AskInterest, States
  <2>2. NetTypeOK'
    BY <1>0, <1>8 DEF ConnectStart, Connecting, NetTypeOK
  <2>3. QueueTypeOK'
    BY <1>0, <1>8 DEF ConnectStart, Connecting, QueueTypeOK
  <2>4. CallerTypeOK'
    BY <1>0, <1>8 DEF ConnectStart, Connecting, CallerTypeOK
  <2> QED
    BY <2>1, <2>2, <2>3, <2>4 DEF TypeInv, TypeOK
<1>9. ASSUME ConnectNow PROVE TypeInv'
  <2>1. HandleTypeOK' /\ IOTypeOK' /\ SocketInv'
    BY <1>0, <1>9 DEF ConnectNow, Connecting, HandleTypeOK, IOTypeOK, SocketInv, PastLastAddress, AskInterest, States
  <2>2. NetTypeOK'
    BY <1>0, <1>9 DEF ConnectNow, Connecting, NetTypeOK
  <2>3. QueueTypeOK'
    BY <1>0, <1>9 DEF ConnectNow, Connecting, QueueTypeOK
  <2>4. CallerTypeOK'
    BY <1>0, <1>9 DEF ConnectNow, Connecting, CallerTypeOK
  <2> QED
    BY <2>1, <2>2, <2>3, <2>4 DEF TypeInv, TypeOK
<1>10. ASSUME ConnectRefused PROVE TypeInv'
  <2>1. HandleTypeOK' /\ IOTypeOK' /\ SocketInv'
    BY <1>0, <1>10 DEF ConnectRefused, Connecting, Fault, HandleTypeOK, IOTypeOK, SocketInv, PastLastAddress, Fail, Codes, Failures
  <2>2. NetTypeOK'
    BY <1>0, <1>10 DEF ConnectRefused, Connecting, Fault, NetTypeOK
  <2>3. QueueTypeOK'
    BY <1>0, <1>10 DEF ConnectRefused, Connecting, Fault, QueueTypeOK
  <2>4. CallerTypeOK'
    BY <1>0, <1>10 DEF ConnectRefused, Connecting, Fault, CallerTypeOK
  <2> QED
    BY <2>1, <2>2, <2>3, <2>4 DEF TypeInv, TypeOK
<1>11. ASSUME ReceiveTimeout PROVE TypeInv'
  <2>1. HandleTypeOK' /\ IOTypeOK' /\ SocketInv'
    BY <1>0, <1>11 DEF ReceiveTimeout, HandleTypeOK, IOTypeOK, SocketInv, Fail, Codes, Failures
  <2>2. NetTypeOK'
    BY <1>0, <1>11 DEF ReceiveTimeout, NetTypeOK
  <2>3. QueueTypeOK'
    BY <1>0, <1>11 DEF ReceiveTimeout, QueueTypeOK
  <2>4. CallerTypeOK'
    BY <1>0, <1>11 DEF ReceiveTimeout, CallerTypeOK
  <2> QED
    BY <2>1, <2>2, <2>3, <2>4 DEF TypeInv, TypeOK
<1>12. ASSUME DecidePing PROVE TypeInv'
  <2>1. HandleTypeOK' /\ IOTypeOK' /\ SocketInv'
    BY <1>0, <1>12 DEF DecidePing, HandleTypeOK, IOTypeOK, SocketInv
  <2>2. NetTypeOK'
    BY <1>0, <1>12 DEF DecidePing, NetTypeOK
  <2>3. QueueTypeOK'
    BY <1>0, <1>12 DEF DecidePing, QueueTypeOK
  <2>4. CallerTypeOK'
    BY <1>0, <1>12 DEF DecidePing, CallerTypeOK
  <2> QED
    BY <2>1, <2>2, <2>3, <2>4 DEF TypeInv, TypeOK
<1>13. ASSUME SendPing PROVE TypeInv'
  <2>1. HandleTypeOK' /\ IOTypeOK' /\ SocketInv'
    BY <1>0, <1>13 DEF SendPing, AddRequest, HandleTypeOK, IOTypeOK, SocketInv, AskInterest
  <2>2. NetTypeOK'
    BY <1>0, <1>13 DEF SendPing, AddRequest, NetTypeOK
  <2>3. QueueTypeOK'
    <3> DEFINE r == [xid |-> PING_XID, n |-> Len(issued) + 1, kind |-> "ping", by |-> IO]
    <3>1. r \in Request
      BY <1>0, <1>13, LenProperties DEF QueueTypeOK, Request, PING_XID
    <3>2. AddRequest(r)
      BY <1>13 DEF SendPing
    <3> HIDE DEF r
    <3> QED
      BY <1>0, <1>13, <3>1, <3>2, AddRequestTypes DEF SendPing, QueueTypeOK
  <2>4. CallerTypeOK'
    BY <1>0, <1>13 DEF SendPing, AddRequest, CallerTypeOK
  <2> QED
    BY <2>1, <2>2, <2>3, <2>4 DEF TypeInv, TypeOK
<1>14. ASSUME Interest PROVE TypeInv'
  <2>1. HandleTypeOK' /\ IOTypeOK' /\ SocketInv'
    BY <1>0, <1>14 DEF Interest, HandleTypeOK, IOTypeOK, SocketInv, AskInterest
  <2>2. NetTypeOK'
    BY <1>0, <1>14 DEF Interest, NetTypeOK
  <2>3. QueueTypeOK'
    BY <1>0, <1>14 DEF Interest, QueueTypeOK
  <2>4. CallerTypeOK'
    BY <1>0, <1>14 DEF Interest, CallerTypeOK
  <2> QED
    BY <2>1, <2>2, <2>3, <2>4 DEF TypeInv, TypeOK
<1>15. ASSUME ProcessNothing PROVE TypeInv'
  <2>1. HandleTypeOK' /\ IOTypeOK' /\ SocketInv'
    BY <1>0, <1>15 DEF ProcessNothing, HandleTypeOK, IOTypeOK, SocketInv, TopOfLoop
  <2>2. NetTypeOK'
    BY <1>0, <1>15 DEF ProcessNothing, NetTypeOK
  <2>3. QueueTypeOK'
    BY <1>0, <1>15 DEF ProcessNothing, QueueTypeOK
  <2>4. CallerTypeOK'
    BY <1>0, <1>15 DEF ProcessNothing, CallerTypeOK
  <2> QED
    BY <2>1, <2>2, <2>3, <2>4 DEF TypeInv, TypeOK
<1>16. ASSUME HandshakeFails PROVE TypeInv'
  <2>1. HandleTypeOK' /\ IOTypeOK' /\ SocketInv'
    BY <1>0, <1>16 DEF HandshakeFails, HandleTypeOK, IOTypeOK, SocketInv, handshakeDue, revents, Fail, Codes, Failures
  <2>2. NetTypeOK'
    BY <1>0, <1>16 DEF HandshakeFails, NetTypeOK
  <2>3. QueueTypeOK'
    BY <1>0, <1>16 DEF HandshakeFails, QueueTypeOK
  <2>4. CallerTypeOK'
    BY <1>0, <1>16 DEF HandshakeFails, CallerTypeOK
  <2> QED
    BY <2>1, <2>2, <2>3, <2>4 DEF TypeInv, TypeOK
<1>17. ASSUME PrimeConnection PROVE TypeInv'
  <2>1. HandleTypeOK' /\ IOTypeOK' /\ SocketInv'
    BY <1>0, <1>17 DEF PrimeConnection, HandleTypeOK, IOTypeOK, SocketInv, TopOfLoop, States
  <2>2. NetTypeOK'
    BY <1>0, <1>17 DEF PrimeConnection, NetTypeOK
  <2>3. QueueTypeOK'
    BY <1>0, <1>17 DEF PrimeConnection, QueueTypeOK
  <2>4. CallerTypeOK'
    BY <1>0, <1>17 DEF PrimeConnection, CallerTypeOK
  <2> QED
    BY <2>1, <2>2, <2>3, <2>4 DEF TypeInv, TypeOK
<1>18. ASSUME FlushSendQueue PROVE TypeInv'
  <2>0. \A k \in 1..Len(to_send) : SubSeq(to_send, 1, k) \in Seq(Frame)
                                    /\ SubSeq(to_send, k + 1, Len(to_send)) \in Seq(Frame)
    BY <1>0, FlushTypes DEF QueueTypeOK
  <2>1. HandleTypeOK' /\ IOTypeOK' /\ SocketInv'
    BY <1>0, <1>18 DEF FlushSendQueue, HandleTypeOK, IOTypeOK, SocketInv, AfterFlush, revents, Fail, Codes, Failures
  <2>2. NetTypeOK'
    <3>1. c2s' \in Seq(Frame)
      <4>1. \A k \in 1..Len(to_send) : c2s \o SubSeq(to_send, 1, k) \in Seq(Frame)
        BY <1>0, <2>0, ConcatProperties DEF NetTypeOK
      <4>2. c2s' = c2s \/ \E k \in 1..Len(to_send) : c2s' = c2s \o SubSeq(to_send, 1, k)
        BY <1>18 DEF FlushSendQueue
      <4> QED
        BY <1>0, <4>1, <4>2 DEF NetTypeOK
    <3> QED
      BY <1>0, <1>18, <3>1 DEF FlushSendQueue, NetTypeOK
  <2>3. QueueTypeOK'
    BY <1>0, <1>18, <2>0 DEF FlushSendQueue, QueueTypeOK
  <2>4. CallerTypeOK'
    BY <1>0, <1>18 DEF FlushSendQueue, CallerTypeOK
  <2> QED
    BY <2>1, <2>2, <2>3, <2>4 DEF TypeInv, TypeOK
<1>19. ASSUME ReadError PROVE TypeInv'
  <2>1. HandleTypeOK' /\ IOTypeOK' /\ SocketInv'
    BY <1>0, <1>19 DEF ReadError, HandleTypeOK, IOTypeOK, SocketInv, Fail, Codes, Failures
  <2>2. NetTypeOK'
    BY <1>0, <1>19 DEF ReadError, NetTypeOK
  <2>3. QueueTypeOK'
    BY <1>0, <1>19 DEF ReadError, QueueTypeOK
  <2>4. CallerTypeOK'
    BY <1>0, <1>19 DEF ReadError, CallerTypeOK
  <2> QED
    BY <2>1, <2>2, <2>3, <2>4 DEF TypeInv, TypeOK
<1>20. ASSUME ReadPrimerAccepted PROVE TypeInv'
  <2>1. HandleTypeOK' /\ IOTypeOK' /\ SocketInv'
    BY <1>0, <1>20 DEF ReadPrimerAccepted, HandleTypeOK, IOTypeOK, SocketInv, TopOfLoop, States
  <2>2. NetTypeOK'
    BY <1>0, <1>20 DEF ReadPrimerAccepted, NetTypeOK
  <2>3. QueueTypeOK'
    BY <1>0, <1>20 DEF ReadPrimerAccepted, QueueTypeOK, QueueCompletion, SessionEntry, Entry, Frame, SET_WATCHES_XID, States
  <2>4. CallerTypeOK'
    BY <1>0, <1>20 DEF ReadPrimerAccepted, CallerTypeOK
  <2> QED
    BY <2>1, <2>2, <2>3, <2>4 DEF TypeInv, TypeOK
<1>21. ASSUME ReadPrimerExpired PROVE TypeInv'
  <2>1. HandleTypeOK' /\ IOTypeOK' /\ SocketInv'
    BY <1>0, <1>21 DEF ReadPrimerExpired, HandleTypeOK, IOTypeOK, SocketInv, Fail, States, Codes, Failures
  <2>2. NetTypeOK'
    BY <1>0, <1>21 DEF ReadPrimerExpired, NetTypeOK
  <2>3. QueueTypeOK'
    BY <1>0, <1>21 DEF ReadPrimerExpired, QueueTypeOK
  <2>4. CallerTypeOK'
    BY <1>0, <1>21 DEF ReadPrimerExpired, CallerTypeOK
  <2> QED
    BY <2>1, <2>2, <2>3, <2>4 DEF TypeInv, TypeOK
<1>22. ASSUME ReadWatchEvent PROVE TypeInv'
  <2>1. HandleTypeOK' /\ IOTypeOK' /\ SocketInv'
    BY <1>0, <1>22 DEF ReadWatchEvent, ReadFrame, HandleTypeOK, IOTypeOK, SocketInv, TopOfLoop
  <2>2. NetTypeOK'
    BY <1>0, <1>22, FrameList DEF ReadWatchEvent, ReadFrame, NetTypeOK
  <2>3. QueueTypeOK'
    BY <1>0, <1>22, EntryTypes, QueueType DEF ReadWatchEvent, ReadFrame, QueueTypeOK
  <2>4. CallerTypeOK'
    BY <1>0, <1>22 DEF ReadWatchEvent, ReadFrame, CallerTypeOK
  <2> QED
    BY <2>1, <2>2, <2>3, <2>4 DEF TypeInv, TypeOK
<1>23. ASSUME ReadSetWatches PROVE TypeInv'
  <2>1. HandleTypeOK' /\ IOTypeOK' /\ SocketInv'
    BY <1>0, <1>23 DEF ReadSetWatches, ReadFrame, HandleTypeOK, IOTypeOK, SocketInv, TopOfLoop
  <2>2. NetTypeOK'
    BY <1>0, <1>23, FrameList DEF ReadSetWatches, ReadFrame, NetTypeOK
  <2>3. QueueTypeOK'
    BY <1>0, <1>23 DEF ReadSetWatches, ReadFrame, QueueTypeOK
  <2>4. CallerTypeOK'
    BY <1>0, <1>23 DEF ReadSetWatches, ReadFrame, CallerTypeOK
  <2> QED
    BY <2>1, <2>2, <2>3, <2>4 DEF TypeInv, TypeOK
<1>24. ASSUME ReadReply PROVE TypeInv'
  <2>1. HandleTypeOK' /\ IOTypeOK' /\ SocketInv'
    BY <1>0, <1>24 DEF ReadReply, ReadFrame, HandleTypeOK, IOTypeOK, SocketInv, Fail, TopOfLoop, Codes, Failures
  <2>2. NetTypeOK'
    BY <1>0, <1>24, FrameList DEF ReadReply, ReadFrame, NetTypeOK
  <2>3. QueueTypeOK'
    <3>1. Head(sent_requests) \in Request /\ Tail(sent_requests) \in Seq(Request)
      BY <1>0, <1>24, RequestList DEF ReadReply, QueueTypeOK
    <3> QED
      BY <1>0, <1>24, <3>1, DeliverTypes DEF ReadReply, ReadFrame, QueueTypeOK, Codes
  <2>4. CallerTypeOK'
    <3>1. Head(sent_requests) \in Request /\ Tail(sent_requests) \in Seq(Request)
      BY <1>0, <1>24, RequestList DEF ReadReply, QueueTypeOK
    <3> QED
      BY <1>0, <1>24, <3>1, DeliverTypes DEF ReadReply, ReadFrame, CallerTypeOK, QueueTypeOK, Codes
  <2> QED
    BY <2>1, <2>2, <2>3, <2>4 DEF TypeInv, TypeOK
<1>25. ASSUME HandleErrorClose PROVE TypeInv'
  <2>1. HandleTypeOK' /\ IOTypeOK' /\ SocketInv'
    BY <1>0, <1>25 DEF HandleErrorClose, HandleTypeOK, IOTypeOK, SocketInv
  <2>2. NetTypeOK'
    BY <1>0, <1>25, EmptySeq DEF HandleErrorClose, NetTypeOK
  <2>3. QueueTypeOK'
    <3>1. completions' \in Seq(Entry)
      <4>1. SessionEntry(zstate) \in Entry /\ SessionEntry("CONNECTING") \in Entry
        BY <1>0, EntryTypes DEF HandleTypeOK, States
      <4> QED
        BY <1>0, <1>25, <4>1, QueueType DEF HandleErrorClose, ErrorEvent, QueueTypeOK
    <3> QED
      BY <1>0, <1>25, <3>1 DEF HandleErrorClose, QueueTypeOK
  <2>4. CallerTypeOK'
    BY <1>0, <1>25 DEF HandleErrorClose, CallerTypeOK
  <2> QED
    BY <2>1, <2>2, <2>3, <2>4 DEF TypeInv, TypeOK
<1>26. ASSUME CleanupBufs PROVE TypeInv'
  <2>1. HandleTypeOK' /\ IOTypeOK' /\ SocketInv'
    BY <1>0, <1>26 DEF CleanupBufs, HandleTypeOK, IOTypeOK, SocketInv
  <2>2. NetTypeOK'
    BY <1>0, <1>26 DEF CleanupBufs, NetTypeOK
  <2>3. QueueTypeOK'
    BY <1>0, <1>26 DEF CleanupBufs, QueueTypeOK, FreeSendQueue
  <2>4. CallerTypeOK'
    BY <1>0, <1>26 DEF CleanupBufs, CallerTypeOK
  <2> QED
    BY <2>1, <2>2, <2>3, <2>4 DEF TypeInv, TypeOK
<1>27. ASSUME FreeCompletion PROVE TypeInv'
  <2>1. HandleTypeOK' /\ IOTypeOK' /\ SocketInv'
    BY <1>0, <1>27 DEF FreeCompletion, HandleTypeOK, IOTypeOK, SocketInv
  <2>2. NetTypeOK'
    BY <1>0, <1>27 DEF FreeCompletion, NetTypeOK
  <2>3. QueueTypeOK'
    <3>1. Head(tmp_list) \in Request /\ Tail(tmp_list) \in Seq(Request) /\ err.rc \in Codes
      BY <1>0, <1>27, RequestList DEF FreeCompletion, QueueTypeOK, IOTypeOK
    <3> QED
      BY <1>0, <1>27, <3>1, DeliverTypes DEF FreeCompletion, QueueTypeOK
  <2>4. CallerTypeOK'
    <3>1. Head(tmp_list) \in Request /\ Tail(tmp_list) \in Seq(Request) /\ err.rc \in Codes
      BY <1>0, <1>27, RequestList DEF FreeCompletion, QueueTypeOK, IOTypeOK
    <3> QED
      BY <1>0, <1>27, <3>1, DeliverTypes DEF FreeCompletion, CallerTypeOK
  <2> QED
    BY <2>1, <2>2, <2>3, <2>4 DEF TypeInv, TypeOK
<1>28. ASSUME HandleErrorReset PROVE TypeInv'
  <2>1. HandleTypeOK' /\ IOTypeOK' /\ SocketInv'
    BY <1>0, <1>28 DEF HandleErrorReset, NextAddress, HandleTypeOK, IOTypeOK, SocketInv, NetTypeOK, NoError, States, Codes
  <2>2. NetTypeOK'
    BY <1>0, <1>28 DEF HandleErrorReset, NextAddress, NetTypeOK
  <2>3. QueueTypeOK'
    BY <1>0, <1>28 DEF HandleErrorReset, NextAddress, QueueTypeOK
  <2>4. CallerTypeOK'
    BY <1>0, <1>28 DEF HandleErrorReset, NextAddress, CallerTypeOK
  <2> QED
    BY <2>1, <2>2, <2>3, <2>4 DEF TypeInv, TypeOK
<1>29. ASSUME LinkEstablished PROVE TypeInv'
  <2>1. HandleTypeOK' /\ IOTypeOK' /\ SocketInv'
    BY <1>0, <1>29 DEF LinkEstablished, clientVars, HandleTypeOK, IOTypeOK, SocketInv
  <2>2. NetTypeOK'
    BY <1>0, <1>29 DEF LinkEstablished, clientVars, NetTypeOK
  <2>3. QueueTypeOK'
    BY <1>0, <1>29 DEF LinkEstablished, clientVars, QueueTypeOK
  <2>4. CallerTypeOK'
    BY <1>0, <1>29 DEF LinkEstablished, clientVars, CallerTypeOK
  <2> QED
    BY <2>1, <2>2, <2>3, <2>4 DEF TypeInv, TypeOK
<1>30. ASSUME LinkFails PROVE TypeInv'
  <2>1. HandleTypeOK' /\ IOTypeOK' /\ SocketInv'
    BY <1>0, <1>30 DEF LinkFails, clientVars, Fault, HandleTypeOK, IOTypeOK, SocketInv
  <2>2. NetTypeOK'
    BY <1>0, <1>30 DEF LinkFails, clientVars, Fault, NetTypeOK
  <2>3. QueueTypeOK'
    BY <1>0, <1>30 DEF LinkFails, clientVars, Fault, QueueTypeOK
  <2>4. CallerTypeOK'
    BY <1>0, <1>30 DEF LinkFails, clientVars, Fault, CallerTypeOK
  <2> QED
    BY <2>1, <2>2, <2>3, <2>4 DEF TypeInv, TypeOK
<1>31. ASSUME TimePasses PROVE TypeInv'
  <2>1. HandleTypeOK' /\ IOTypeOK' /\ SocketInv'
    BY <1>0, <1>31 DEF TimePasses, clientVars, HandleTypeOK, IOTypeOK, SocketInv
  <2>2. NetTypeOK'
    BY <1>0, <1>31 DEF TimePasses, clientVars, NetTypeOK
  <2>3. QueueTypeOK'
    BY <1>0, <1>31 DEF TimePasses, clientVars, QueueTypeOK
  <2>4. CallerTypeOK'
    BY <1>0, <1>31 DEF TimePasses, clientVars, CallerTypeOK
  <2> QED
    BY <2>1, <2>2, <2>3, <2>4 DEF TypeInv, TypeOK
<1>32. ASSUME ServerAcceptsSession PROVE TypeInv'
  <2>1. HandleTypeOK' /\ IOTypeOK' /\ SocketInv'
    BY <1>0, <1>32 DEF ServerAcceptsSession, clientVars, HandleTypeOK, IOTypeOK, SocketInv
  <2>2. NetTypeOK'
    BY <1>0, <1>32 DEF ServerAcceptsSession, clientVars, NetTypeOK
  <2>3. QueueTypeOK'
    BY <1>0, <1>32 DEF ServerAcceptsSession, clientVars, QueueTypeOK
  <2>4. CallerTypeOK'
    BY <1>0, <1>32 DEF ServerAcceptsSession, clientVars, CallerTypeOK
  <2> QED
    BY <2>1, <2>2, <2>3, <2>4 DEF TypeInv, TypeOK
<1>33. ASSUME ServerExpiresSession PROVE TypeInv'
  <2>1. HandleTypeOK' /\ IOTypeOK' /\ SocketInv'
    BY <1>0, <1>33 DEF ServerExpiresSession, clientVars, Fault, HandleTypeOK, IOTypeOK, SocketInv
  <2>2. NetTypeOK'
    BY <1>0, <1>33 DEF ServerExpiresSession, clientVars, Fault, NetTypeOK
  <2>3. QueueTypeOK'
    BY <1>0, <1>33 DEF ServerExpiresSession, clientVars, Fault, QueueTypeOK
  <2>4. CallerTypeOK'
    BY <1>0, <1>33 DEF ServerExpiresSession, clientVars, Fault, CallerTypeOK
  <2> QED
    BY <2>1, <2>2, <2>3, <2>4 DEF TypeInv, TypeOK
<1>34. ASSUME ServerReplies PROVE TypeInv'
  <2>1. HandleTypeOK' /\ IOTypeOK' /\ SocketInv'
    BY <1>0, <1>34 DEF ServerReplies, clientVars, HandleTypeOK, IOTypeOK, SocketInv
  <2>2. NetTypeOK'
    <3>1. Head(c2s) \in Frame /\ Tail(c2s) \in Seq(Frame) /\ Head(c2s).n \in Nat
      BY <1>0, <1>34, FrameList DEF ServerReplies, NetTypeOK, Frame
    <3> QED
      <4>1. c2s' \in Seq(Frame) /\ s2c' \in Seq(Frame)
        BY <1>0, <1>34, <3>1, AppendProperties DEF ServerReplies, NetTypeOK
      <4>2. executed' \subseteq Nat
        BY <1>0, <1>34, <3>1 DEF ServerReplies, NetTypeOK
      <4> QED
        BY <1>0, <1>34, <4>1, <4>2 DEF ServerReplies, clientVars, NetTypeOK
  <2>3. QueueTypeOK'
    BY <1>0, <1>34 DEF ServerReplies, clientVars, QueueTypeOK
  <2>4. CallerTypeOK'
    BY <1>0, <1>34 DEF ServerReplies, clientVars, CallerTypeOK
  <2> QED
    BY <2>1, <2>2, <2>3, <2>4 DEF TypeInv, TypeOK
<1>35. ASSUME ServerMisreplies PROVE TypeInv'
  <2>1. HandleTypeOK' /\ IOTypeOK' /\ SocketInv'
    BY <1>0, <1>35 DEF ServerMisreplies, clientVars, Fault, HandleTypeOK, IOTypeOK, SocketInv
  <2>2. NetTypeOK'
    <3>1. Head(c2s) \in Frame /\ Tail(c2s) \in Seq(Frame)
      BY <1>0, <1>35, FrameList DEF ServerMisreplies, NetTypeOK
    <3>2. [Head(c2s) EXCEPT !.xid = NO_XID] \in Frame
      BY <3>1 DEF Frame, NO_XID
    <3> QED
      BY <1>0, <1>35, <3>1, <3>2 DEF ServerMisreplies, clientVars, NetTypeOK
  <2>3. QueueTypeOK'
    BY <1>0, <1>35 DEF ServerMisreplies, clientVars, Fault, QueueTypeOK
  <2>4. CallerTypeOK'
    BY <1>0, <1>35 DEF ServerMisreplies, clientVars, Fault, CallerTypeOK
  <2> QED
    BY <2>1, <2>2, <2>3, <2>4 DEF TypeInv, TypeOK
<1>36. ASSUME ServerNotifies PROVE TypeInv'
  <2>1. HandleTypeOK' /\ IOTypeOK' /\ SocketInv'
    BY <1>0, <1>36 DEF ServerNotifies, clientVars, HandleTypeOK, IOTypeOK, SocketInv
  <2>2. NetTypeOK'
    BY <1>0, <1>36 DEF ServerNotifies, clientVars, NetTypeOK, Frame, WATCHER_EVENT_XID
  <2>3. QueueTypeOK'
    BY <1>0, <1>36 DEF ServerNotifies, clientVars, QueueTypeOK
  <2>4. CallerTypeOK'
    BY <1>0, <1>36 DEF ServerNotifies, clientVars, CallerTypeOK
  <2> QED
    BY <2>1, <2>2, <2>3, <2>4 DEF TypeInv, TypeOK
<1>37. ASSUME UNCHANGED vars PROVE TypeInv'
  BY <1>0, <1>37 DEF vars, TypeInv, TypeOK, HandleTypeOK, NetTypeOK, QueueTypeOK, IOTypeOK,
     CallerTypeOK, SocketInv
<1> QED
  BY <1>1, <1>2, <1>3, <1>4, <1>5, <1>6, <1>7, <1>8, <1>9, <1>10, <1>11, <1>12, <1>13, <1>14, <1>15, <1>16, <1>17, <1>18, <1>19, <1>20, <1>21, <1>22, <1>23, <1>24, <1>25, <1>26, <1>27, <1>28, <1>29, <1>30, <1>31, <1>32, <1>33, <1>34, <1>35, <1>36, <1>37
     DEF Next, CallerStep, do_completion, do_io, zookeeper_interest, zookeeper_process,
         handle_error, Environment

\* Every variable keeps its type and connect_index names an address whenever
\* there is a socket (do_io, zookeeper_interest, handle_error).
THEOREM TypeCorrect == Spec => [](TypeOK /\ AddressInRange)
<1>1. Spec => []TypeInv
  BY TypeInit, TypeStep, PTL DEF Spec
<1>2. TypeInv => TypeOK /\ AddressInRange
  BY DEF TypeInv, SocketInv, AddressInRange
<1> QED
  BY <1>1, <1>2, PTL
-----------------------------------------------------------------------------
(* The connection and the session.                                         *)

\* What is known of the state of the session from the connection: frames
\* travel only on a connection whose handshake was answered, the handshake is
\* under way only while ASSOCIATING, and an error is handled with its code.
SessionInv ==
    /\ sock = "none" => primer = "none" /\ c2s = <<>> /\ s2c = <<>>
    /\ primer # "none" => zstate = "ASSOCIATING"
    /\ c2s # <<>> => zstate = "CONNECTED"
    /\ s2c # <<>> => zstate = "CONNECTED" \/ primer = "accepted"
    /\ sock = "none" /\ ~reported => zstate # "CONNECTED"
    /\ ioPc \in {"close", "cleanup", "free"} => err.rc \in Failures

\* The session starts without a connection.
LEMMA SessionInit == Init => SessionInv
  BY DEF Init, SessionInv, reported

\* Every step keeps what is known of the session.
LEMMA SessionStep == TypeInv /\ SessionInv /\ [Next]_vars => SessionInv'
<1> SUFFICES ASSUME TypeInv, SessionInv, [Next]_vars PROVE SessionInv'
  OBVIOUS
<1> USE DEF zhVars, netVars, queueVars, ioVars, callerVars, countVars
<1>0. /\ SocketInv /\ err \in [rc : Codes, next : {"interest", "poll"}]
      /\ c2s \in Seq(Frame) /\ s2c \in Seq(Frame)
  BY DEF TypeInv, TypeOK, NetTypeOK, IOTypeOK
<1>1. ASSUME NEW c \in Callers, NEW kind \in {"sync", "async"}, StartCall(c, kind) PROVE SessionInv'
  BY <1>0, <1>1 DEF StartCall, SessionInv, SocketInv, reported
<1>2. ASSUME NEW c \in Callers, Enqueue(c) PROVE SessionInv'
  BY <1>0, <1>2 DEF Enqueue, AddRequest, SessionInv, SocketInv, reported
<1>3. ASSUME NEW c \in Callers, WakeIO(c) PROVE SessionInv'
  BY <1>0, <1>3 DEF WakeIO, WritePipe, Waits, Returns, SessionInv, SocketInv, reported
<1>4. ASSUME NEW c \in Callers, SyncReturn(c) PROVE SessionInv'
  BY <1>0, <1>4 DEF SyncReturn, Returns, SessionInv, SocketInv, reported
<1>5. ASSUME RunCallback PROVE SessionInv'
  BY <1>0, <1>5 DEF RunCallback, SessionInv, SocketInv, reported
<1>6. ASSUME CallbackReturns PROVE SessionInv'
  BY <1>0, <1>6 DEF CallbackReturns, SessionInv, SocketInv, reported
<1>7. ASSUME WrapAddress PROVE SessionInv'
  BY <1>0, <1>7 DEF WrapAddress, SessionInv, SocketInv, reported
<1>8. ASSUME ConnectStart PROVE SessionInv'
  BY <1>0, <1>8 DEF ConnectStart, Connecting, AskInterest, SessionInv, SocketInv, reported
<1>9. ASSUME ConnectNow PROVE SessionInv'
  BY <1>0, <1>9 DEF ConnectNow, Connecting, AskInterest, SessionInv, SocketInv, reported
<1>10. ASSUME ConnectRefused PROVE SessionInv'
  BY <1>0, <1>10 DEF ConnectRefused, Connecting, Fail, Failures, SessionInv, SocketInv, reported
<1>11. ASSUME ReceiveTimeout PROVE SessionInv'
  BY <1>0, <1>11 DEF ReceiveTimeout, Fail, Failures, SessionInv, SocketInv, reported
<1>12. ASSUME DecidePing PROVE SessionInv'
  BY <1>0, <1>12 DEF DecidePing, SessionInv, SocketInv, reported
<1>13. ASSUME SendPing PROVE SessionInv'
  BY <1>0, <1>13 DEF SendPing, AddRequest, AskInterest, SessionInv, SocketInv, reported
<1>14. ASSUME Interest PROVE SessionInv'
  BY <1>0, <1>14 DEF Interest, AskInterest, SessionInv, SocketInv, reported
<1>15. ASSUME ProcessNothing PROVE SessionInv'
  BY <1>0, <1>15 DEF ProcessNothing, TopOfLoop, SessionInv, SocketInv, reported
<1>16. ASSUME HandshakeFails PROVE SessionInv'
  BY <1>0, <1>16 DEF HandshakeFails, handshakeDue, Fail, Failures, SessionInv, SocketInv, reported
<1>17. ASSUME PrimeConnection PROVE SessionInv'
  BY <1>0, <1>17 DEF PrimeConnection, handshakeDue, TopOfLoop, revents, SessionInv, SocketInv, reported
<1>18. ASSUME FlushSendQueue PROVE SessionInv'
  BY <1>0, <1>18 DEF FlushSendQueue, AfterFlush, Fail, Failures, SessionInv, SocketInv, reported
<1>19. ASSUME ReadError PROVE SessionInv'
  BY <1>0, <1>19 DEF ReadError, Fail, Failures, SessionInv, SocketInv, reported
<1>20. ASSUME ReadPrimerAccepted PROVE SessionInv'
  BY <1>0, <1>20 DEF ReadPrimerAccepted, TopOfLoop, SessionInv, SocketInv, reported
<1>21. ASSUME ReadPrimerExpired PROVE SessionInv'
  BY <1>0, <1>21 DEF ReadPrimerExpired, Fail, Failures, SessionInv, SocketInv, reported
<1>22. ASSUME ReadWatchEvent PROVE SessionInv'
  BY <1>0, <1>22 DEF ReadWatchEvent, ReadFrame, TopOfLoop, SessionInv, SocketInv, reported
<1>23. ASSUME ReadSetWatches PROVE SessionInv'
  BY <1>0, <1>23 DEF ReadSetWatches, ReadFrame, TopOfLoop, SessionInv, SocketInv, reported
<1>24. ASSUME ReadReply PROVE SessionInv'
  BY <1>0, <1>24 DEF ReadReply, ReadFrame, Fail, TopOfLoop, Failures, SessionInv, SocketInv, reported
<1>25. ASSUME HandleErrorClose PROVE SessionInv'
  BY <1>0, <1>25 DEF HandleErrorClose, SessionInv, SocketInv, reported
<1>26. ASSUME CleanupBufs PROVE SessionInv'
  BY <1>0, <1>26 DEF CleanupBufs, SessionInv, SocketInv, reported
<1>27. ASSUME FreeCompletion PROVE SessionInv'
  BY <1>0, <1>27 DEF FreeCompletion, SessionInv, SocketInv, reported
<1>28. ASSUME HandleErrorReset PROVE SessionInv'
  BY <1>0, <1>28 DEF HandleErrorReset, SessionInv, SocketInv, reported
<1>29. ASSUME LinkEstablished PROVE SessionInv'
  BY <1>0, <1>29 DEF LinkEstablished, clientVars, SessionInv, SocketInv, reported
<1>30. ASSUME LinkFails PROVE SessionInv'
  BY <1>0, <1>30 DEF LinkFails, clientVars, SessionInv, SocketInv, reported
<1>31. ASSUME TimePasses PROVE SessionInv'
  BY <1>0, <1>31 DEF TimePasses, clientVars, SessionInv, SocketInv, reported
<1>32. ASSUME ServerAcceptsSession PROVE SessionInv'
  BY <1>0, <1>32 DEF ServerAcceptsSession, clientVars, SessionInv, SocketInv, reported
<1>33. ASSUME ServerExpiresSession PROVE SessionInv'
  BY <1>0, <1>33 DEF ServerExpiresSession, clientVars, SessionInv, SocketInv, reported
<1>34. ASSUME ServerReplies PROVE SessionInv'
  BY <1>0, <1>34 DEF ServerReplies, clientVars, SessionInv, SocketInv, reported
<1>35. ASSUME ServerMisreplies PROVE SessionInv'
  BY <1>0, <1>35 DEF ServerMisreplies, clientVars, SessionInv, SocketInv, reported
<1>36. ASSUME ServerNotifies PROVE SessionInv'
  BY <1>0, <1>36 DEF ServerNotifies, clientVars, SessionInv, SocketInv, reported
<1>37. ASSUME UNCHANGED vars PROVE SessionInv'
  BY <1>0, <1>37 DEF vars, SessionInv, SocketInv, reported
<1> QED
  BY <1>1, <1>2, <1>3, <1>4, <1>5, <1>6, <1>7, <1>8, <1>9, <1>10, <1>11, <1>12, <1>13, <1>14, <1>15, <1>16, <1>17, <1>18, <1>19, <1>20, <1>21, <1>22, <1>23, <1>24, <1>25, <1>26, <1>27, <1>28, <1>29, <1>30, <1>31, <1>32, <1>33, <1>34, <1>35, <1>36, <1>37
     DEF Next, CallerStep, do_completion, do_io, zookeeper_interest, zookeeper_process,
         handle_error, Environment

(* The sleep of the IO thread.                                             *)

\* NoLostWakeup is inductive: to_send grows with its caller about to write to
\* the pipe, or with interest in writing, and poll() is entered with interest
\* in writing if there is something to send.
LEMMA WakeInit == Init => NoLostWakeup
  BY DEF Init, NoLostWakeup

\* No step puts the IO thread to sleep on a request.
LEMMA WakeStep == TypeInv /\ NoLostWakeup /\ [Next]_vars => NoLostWakeup'
<1> SUFFICES ASSUME TypeInv, NoLostWakeup, [Next]_vars PROVE NoLostWakeup'
  OBVIOUS
<1> USE DEF zhVars, netVars, queueVars, ioVars, callerVars, countVars
<1>0. /\ SocketInv /\ to_send \in Seq(Frame) /\ pc \in [Callers -> {"idle", "checked", "wake", "waiting"}]
  BY DEF TypeInv, TypeOK, QueueTypeOK, CallerTypeOK
<1>1. ASSUME NEW c \in Callers, NEW kind \in {"sync", "async"}, StartCall(c, kind) PROVE NoLostWakeup'
  BY <1>0, <1>1 DEF StartCall, NoLostWakeup, SocketInv
<1>2. ASSUME NEW c \in Callers, Enqueue(c) PROVE NoLostWakeup'
  BY <1>0, <1>2 DEF Enqueue, AddRequest, NoLostWakeup, SocketInv
<1>3. ASSUME NEW c \in Callers, WakeIO(c) PROVE NoLostWakeup'
  BY <1>0, <1>3 DEF WakeIO, WritePipe, Waits, Returns, NoLostWakeup, SocketInv
<1>4. ASSUME NEW c \in Callers, SyncReturn(c) PROVE NoLostWakeup'
  BY <1>0, <1>4 DEF SyncReturn, Returns, NoLostWakeup, SocketInv
<1>5. ASSUME RunCallback PROVE NoLostWakeup'
  BY <1>0, <1>5 DEF RunCallback, NoLostWakeup, SocketInv
<1>6. ASSUME CallbackReturns PROVE NoLostWakeup'
  BY <1>0, <1>6 DEF CallbackReturns, NoLostWakeup, SocketInv
<1>7. ASSUME WrapAddress PROVE NoLostWakeup'
  BY <1>0, <1>7 DEF WrapAddress, NoLostWakeup, SocketInv
<1>8. ASSUME ConnectStart PROVE NoLostWakeup'
  BY <1>0, <1>8 DEF ConnectStart, Connecting, AskInterest, NoLostWakeup, SocketInv
<1>9. ASSUME ConnectNow PROVE NoLostWakeup'
  BY <1>0, <1>9 DEF ConnectNow, Connecting, AskInterest, NoLostWakeup, SocketInv
<1>10. ASSUME ConnectRefused PROVE NoLostWakeup'
  BY <1>0, <1>10 DEF ConnectRefused, Connecting, Fail, NoLostWakeup, SocketInv
<1>11. ASSUME ReceiveTimeout PROVE NoLostWakeup'
  BY <1>0, <1>11 DEF ReceiveTimeout, Fail, NoLostWakeup, SocketInv
<1>12. ASSUME DecidePing PROVE NoLostWakeup'
  BY <1>0, <1>12 DEF DecidePing, NoLostWakeup, SocketInv
<1>13. ASSUME SendPing PROVE NoLostWakeup'
  BY <1>0, <1>13 DEF SendPing, AddRequest, AskInterest, NoLostWakeup, SocketInv
<1>14. ASSUME Interest PROVE NoLostWakeup'
  BY <1>0, <1>14 DEF Interest, AskInterest, NoLostWakeup, SocketInv
<1>15. ASSUME ProcessNothing PROVE NoLostWakeup'
  BY <1>0, <1>15 DEF ProcessNothing, TopOfLoop, NoLostWakeup, SocketInv
<1>16. ASSUME HandshakeFails PROVE NoLostWakeup'
  BY <1>0, <1>16 DEF HandshakeFails, handshakeDue, Fail, NoLostWakeup, SocketInv
<1>17. ASSUME PrimeConnection PROVE NoLostWakeup'
  BY <1>0, <1>17 DEF PrimeConnection, handshakeDue, TopOfLoop, NoLostWakeup, SocketInv
<1>18. ASSUME FlushSendQueue PROVE NoLostWakeup'
  BY <1>0, <1>18 DEF FlushSendQueue, AfterFlush, Fail, NoLostWakeup, SocketInv
<1>19. ASSUME ReadError PROVE NoLostWakeup'
  BY <1>0, <1>19 DEF ReadError, Fail, NoLostWakeup, SocketInv
<1>20. ASSUME ReadPrimerAccepted PROVE NoLostWakeup'
  BY <1>0, <1>20 DEF ReadPrimerAccepted, TopOfLoop, NoLostWakeup, SocketInv
<1>21. ASSUME ReadPrimerExpired PROVE NoLostWakeup'
  BY <1>0, <1>21 DEF ReadPrimerExpired, Fail, NoLostWakeup, SocketInv
<1>22. ASSUME ReadWatchEvent PROVE NoLostWakeup'
  BY <1>0, <1>22 DEF ReadWatchEvent, ReadFrame, TopOfLoop, NoLostWakeup, SocketInv
<1>23. ASSUME ReadSetWatches PROVE NoLostWakeup'
  BY <1>0, <1>23 DEF ReadSetWatches, ReadFrame, TopOfLoop, NoLostWakeup, SocketInv
<1>24. ASSUME ReadReply PROVE NoLostWakeup'
  BY <1>0, <1>24 DEF ReadReply, ReadFrame, Fail, TopOfLoop, NoLostWakeup, SocketInv
<1>25. ASSUME HandleErrorClose PROVE NoLostWakeup'
  BY <1>0, <1>25 DEF HandleErrorClose, NoLostWakeup, SocketInv
<1>26. ASSUME CleanupBufs PROVE NoLostWakeup'
  BY <1>0, <1>26 DEF CleanupBufs, NoLostWakeup, SocketInv
<1>27. ASSUME FreeCompletion PROVE NoLostWakeup'
  BY <1>0, <1>27 DEF FreeCompletion, NoLostWakeup, SocketInv
<1>28. ASSUME HandleErrorReset PROVE NoLostWakeup'
  BY <1>0, <1>28 DEF HandleErrorReset, NoLostWakeup, SocketInv
<1>29. ASSUME LinkEstablished PROVE NoLostWakeup'
  BY <1>0, <1>29 DEF LinkEstablished, clientVars, NoLostWakeup, SocketInv
<1>30. ASSUME LinkFails PROVE NoLostWakeup'
  BY <1>0, <1>30 DEF LinkFails, clientVars, NoLostWakeup, SocketInv
<1>31. ASSUME TimePasses PROVE NoLostWakeup'
  BY <1>0, <1>31 DEF TimePasses, clientVars, NoLostWakeup, SocketInv
<1>32. ASSUME ServerAcceptsSession PROVE NoLostWakeup'
  BY <1>0, <1>32 DEF ServerAcceptsSession, clientVars, NoLostWakeup, SocketInv
<1>33. ASSUME ServerExpiresSession PROVE NoLostWakeup'
  BY <1>0, <1>33 DEF ServerExpiresSession, clientVars, NoLostWakeup, SocketInv
<1>34. ASSUME ServerReplies PROVE NoLostWakeup'
  BY <1>0, <1>34 DEF ServerReplies, clientVars, NoLostWakeup, SocketInv
<1>35. ASSUME ServerMisreplies PROVE NoLostWakeup'
  BY <1>0, <1>35 DEF ServerMisreplies, clientVars, NoLostWakeup, SocketInv
<1>36. ASSUME ServerNotifies PROVE NoLostWakeup'
  BY <1>0, <1>36 DEF ServerNotifies, clientVars, NoLostWakeup, SocketInv
<1>37. ASSUME UNCHANGED vars PROVE NoLostWakeup'
  BY <1>0, <1>37 DEF vars, NoLostWakeup, SocketInv
<1> QED
  BY <1>1, <1>2, <1>3, <1>4, <1>5, <1>6, <1>7, <1>8, <1>9, <1>10, <1>11, <1>12, <1>13, <1>14, <1>15, <1>16, <1>17, <1>18, <1>19, <1>20, <1>21, <1>22, <1>23, <1>24, <1>25, <1>26, <1>27, <1>28, <1>29, <1>30, <1>31, <1>32, <1>33, <1>34, <1>35, <1>36, <1>37
     DEF Next, CallerStep, do_completion, do_io, zookeeper_interest, zookeeper_process,
         handle_error, Environment

\* While the IO thread sleeps in poll() without interest in writing, a request
\* that can be sent has a byte in the self-pipe, or its caller is about to
\* write one (adaptor_send_queue, wakeup_io_thread, zookeeper_interest), for
\* any number of callers.
THEOREM NoSleepOnRequests == Spec => []NoLostWakeup
<1>1. Init => TypeInv /\ NoLostWakeup
  BY TypeInit, WakeInit
<1>2. TypeInv /\ NoLostWakeup /\ [Next]_vars => (TypeInv /\ NoLostWakeup)'
  BY TypeStep, WakeStep
<1> QED
  BY <1>1, <1>2, PTL DEF Spec
-----------------------------------------------------------------------------
(* The lists, the session and the callers.  Every step does one of four    *)
(* things to the lists outstanding and log, to the state told to the       *)
(* callbacks and to the callers; the order of the callbacks, what they     *)
(* tell, the waiting of synchronous callers and the refinement of          *)
(* RequestLedger follow from that.                                         *)

\* free_completions' list is empty outside the critical section.
TmpListInv == ioPc # "free" => tmp_list = <<>>

\* A caller starts a call, has written to the pipe, or returns.
CallersMove ==
    \/ UNCHANGED <<pc, call, sc>>
    \/ \E c \in Callers : \/ \E kind \in {"sync", "async"} : StartCall(c, kind)
                          \/ WakeIO(c)
                          \/ SyncReturn(c)

ListsKept == UNCHANGED <<outstanding, log, issued, told>> /\ CallersMove

\* A request is accepted: a caller's, or a ping.
ListsAccept(r) ==
    /\ r \in Request /\ r.n = Len(issued) + 1
    /\ outstanding' = Append(outstanding, r)
    /\ issued' = Append(issued, [kind |-> r.kind, by |-> r.by])
    /\ \/ r.kind = "ping" /\ UNCHANGED pc
       \/ /\ r.by \in Callers /\ pc[r.by] = "checked" /\ r.kind = call[r.by].kind
          /\ pc' = [pc EXCEPT ![r.by] = "wake"]
    /\ UNCHANGED <<log, told, call, sc>>

\* The oldest request is answered: with an entry if it is asynchronous, in
\* the sync_completion of its caller if it is synchronous.  Whether it
\* succeeds depends on the session; success is a reply that matches.
ListsAnswer(c) ==
    /\ outstanding # <<>>
    /\ outstanding' = Tail(outstanding)
    /\ (c = "ZOK") <=> (told = "CONNECTED")
    /\ c = "ZOK" => ReadReply /\ Matches(Head(sent_requests), Head(s2c))
    /\ log' = IF Head(outstanding).kind = "async"
              THEN Append(log, ReplyEntry(Head(outstanding).n, c)) ELSE log
    /\ sc' = IF Head(outstanding).kind = "sync"
             THEN [sc EXCEPT ![Head(outstanding).by] = c] ELSE sc
    /\ UNCHANGED <<issued, told, pc, call>>

\* The states of the session follow each other as the ledger says.
Follows(s) == \/ s = "CONNECTED" /\ told = "CONNECTING"
              \/ s = "CONNECTING" /\ told = "CONNECTED"
              \/ s = "EXPIRED_SESSION" /\ told = "CONNECTING"

\* The completion thread is told of the session or of a watch.
ListsTell(e) ==
    /\ e \in Entry /\ e.kind # "reply"
    /\ log' = Append(log, e)
    /\ \/ e = WatchEntry /\ told = "CONNECTED" /\ UNCHANGED told
       \/ \E s \in States : e = SessionEntry(s) /\ Follows(s) /\ told' = s
    /\ UNCHANGED <<outstanding, issued, pc, call, sc>>

ListsStep ==
    \/ ListsKept
    \/ \E r \in Request : ListsAccept(r)
    \/ \E c \in Codes : ListsAnswer(c)
    \/ \E e \in Entry : ListsTell(e)

\* Queueing for the completion thread appends to log.
LEMMA LogGrows ==
    ASSUME TypeInv, NEW e \in Entry, QueueCompletion(e), UNCHANGED called
    PROVE  log' = Append(log, e)
  BY AppendRight DEF TypeInv, TypeOK, QueueTypeOK, QueueCompletion, log

\* The end of a request is one more entry if it is asynchronous, and none otherwise.
LEMMA DeliverEffect ==
    ASSUME TypeInv, NEW r \in Request, NEW c \in Codes, Deliver(r, c), UNCHANGED called
    PROVE  log' = IF r.kind = "async" THEN Append(log, ReplyEntry(r.n, c)) ELSE log
<1>1. CASE r.kind = "async"
  <2>1. ReplyEntry(r.n, c) \in Entry
    BY EntryTypes DEF Request
  <2> QED
    BY <1>1, <2>1, LogGrows DEF Deliver
<1>2. CASE r.kind # "async"
  BY <1>2 DEF Deliver, log
<1> QED
  BY <1>1, <1>2

\* It is empty in the initial state.
LEMMA TmpListInit == Init => TmpListInv
  BY DEF Init, TmpListInv

\* Every step does one of the four things, and leaves free_completions' list empty
\* outside the critical section.
LEMMA ListsEffect ==
    TypeInv /\ SessionInv /\ TmpListInv /\ [Next]_vars => ListsStep /\ TmpListInv'
<1> SUFFICES ASSUME TypeInv, SessionInv, TmpListInv, [Next]_vars PROVE ListsStep /\ TmpListInv'
  OBVIOUS
<1> USE DEF zhVars, netVars, queueVars, ioVars, callerVars, countVars
<1>0. /\ TypeOK /\ CallerTypeOK /\ SocketInv /\ SessionInv
      /\ tmp_list \in Seq(Request) /\ sent_requests \in Seq(Request)
      /\ completions \in Seq(Entry) /\ called \in Seq(Entry) /\ Len(issued) \in Nat
  BY LenProperties DEF TypeInv, TypeOK, QueueTypeOK
<1>1. ASSUME NEW c \in Callers, NEW kind \in {"sync", "async"}, StartCall(c, kind) PROVE ListsStep /\ TmpListInv'
  <2>1. UNCHANGED <<outstanding, log, issued, told>> /\ TmpListInv'
    BY <1>1 DEF StartCall, TmpListInv, log, outstanding, told, reported
  <2> QED
    BY <1>1, <2>1 DEF ListsStep, ListsKept, CallersMove
<1>2. ASSUME NEW c \in Callers, WakeIO(c) PROVE ListsStep /\ TmpListInv'
  <2>1. UNCHANGED <<outstanding, log, issued, told>> /\ TmpListInv'
    BY <1>2 DEF WakeIO, Waits, Returns, TmpListInv, log, outstanding, told, reported
  <2> QED
    BY <1>2, <2>1 DEF ListsStep, ListsKept, CallersMove
<1>3. ASSUME NEW c \in Callers, SyncReturn(c) PROVE ListsStep /\ TmpListInv'
  <2>1. UNCHANGED <<outstanding, log, issued, told>> /\ TmpListInv'
    BY <1>3 DEF SyncReturn, Returns, TmpListInv, log, outstanding, told, reported
  <2> QED
    BY <1>3, <2>1 DEF ListsStep, ListsKept, CallersMove
<1>4. ASSUME CallbackReturns PROVE ListsStep /\ TmpListInv'
  BY <1>0, <1>4 DEF CallbackReturns, ListsStep, ListsKept, CallersMove, TmpListInv,
     SessionInv, SocketInv, log, outstanding, told, reported
<1>5. ASSUME WrapAddress PROVE ListsStep /\ TmpListInv'
  BY <1>0, <1>5 DEF WrapAddress, ListsStep, ListsKept, CallersMove, TmpListInv,
     SessionInv, SocketInv, log, outstanding, told, reported
<1>6. ASSUME ConnectStart PROVE ListsStep /\ TmpListInv'
  BY <1>0, <1>6 DEF ConnectStart, Connecting, ListsStep, ListsKept, CallersMove, TmpListInv,
     SessionInv, SocketInv, log, outstanding, told, reported
<1>7. ASSUME ConnectNow PROVE ListsStep /\ TmpListInv'
  BY <1>0, <1>7 DEF ConnectNow, Connecting, ListsStep, ListsKept, CallersMove, TmpListInv,
     SessionInv, SocketInv, log, outstanding, told, reported
<1>8. ASSUME ConnectRefused PROVE ListsStep /\ TmpListInv'
  BY <1>0, <1>8 DEF ConnectRefused, Connecting, Fail, ListsStep, ListsKept, CallersMove, TmpListInv,
     SessionInv, SocketInv, log, outstanding, told, reported
<1>9. ASSUME ReceiveTimeout PROVE ListsStep /\ TmpListInv'
  BY <1>0, <1>9 DEF ReceiveTimeout, Fail, ListsStep, ListsKept, CallersMove, TmpListInv,
     SessionInv, SocketInv, log, outstanding, told, reported
<1>10. ASSUME DecidePing PROVE ListsStep /\ TmpListInv'
  BY <1>0, <1>10 DEF DecidePing, ListsStep, ListsKept, CallersMove, TmpListInv,
     SessionInv, SocketInv, log, outstanding, told, reported
<1>11. ASSUME Interest PROVE ListsStep /\ TmpListInv'
  BY <1>0, <1>11 DEF Interest, ListsStep, ListsKept, CallersMove, TmpListInv,
     SessionInv, SocketInv, log, outstanding, told, reported
<1>12. ASSUME ProcessNothing PROVE ListsStep /\ TmpListInv'
  BY <1>0, <1>12 DEF ProcessNothing, TopOfLoop, ListsStep, ListsKept, CallersMove, TmpListInv,
     SessionInv, SocketInv, log, outstanding, told, reported
<1>13. ASSUME HandshakeFails PROVE ListsStep /\ TmpListInv'
  BY <1>0, <1>13 DEF HandshakeFails, Fail, ListsStep, ListsKept, CallersMove, TmpListInv,
     SessionInv, SocketInv, log, outstanding, told, reported
<1>14. ASSUME PrimeConnection PROVE ListsStep /\ TmpListInv'
  BY <1>0, <1>14 DEF PrimeConnection, handshakeDue, TopOfLoop, ListsStep, ListsKept, CallersMove, TmpListInv,
     SessionInv, SocketInv, log, outstanding, told, reported
<1>15. ASSUME FlushSendQueue PROVE ListsStep /\ TmpListInv'
  BY <1>0, <1>15 DEF FlushSendQueue, AfterFlush, Fail, ListsStep, ListsKept, CallersMove, TmpListInv,
     SessionInv, SocketInv, log, outstanding, told, reported
<1>16. ASSUME ReadError PROVE ListsStep /\ TmpListInv'
  BY <1>0, <1>16 DEF ReadError, Fail, ListsStep, ListsKept, CallersMove, TmpListInv,
     SessionInv, SocketInv, log, outstanding, told, reported
<1>17. ASSUME ReadPrimerExpired PROVE ListsStep /\ TmpListInv'
  BY <1>0, <1>17 DEF ReadPrimerExpired, Fail, ListsStep, ListsKept, CallersMove, TmpListInv,
     SessionInv, SocketInv, log, outstanding, told, reported
<1>18. ASSUME ReadSetWatches PROVE ListsStep /\ TmpListInv'
  BY <1>0, <1>18 DEF ReadSetWatches, ReadFrame, TopOfLoop, ListsStep, ListsKept, CallersMove, TmpListInv,
     SessionInv, SocketInv, log, outstanding, told, reported
<1>19. ASSUME HandleErrorReset PROVE ListsStep /\ TmpListInv'
  <2>1. err.next \in {"interest", "poll"}
    BY <1>0 DEF TypeOK, IOTypeOK
  <2>2. UNCHANGED told /\ TmpListInv'
    BY <1>19, <2>1 DEF HandleErrorReset, TmpListInv, told, reported, is_unrecoverable
  <2>3. UNCHANGED <<outstanding, log, issued, pc, call, sc>>
    BY <1>19 DEF HandleErrorReset, log, outstanding
  <2> QED
    BY <2>2, <2>3 DEF ListsStep, ListsKept, CallersMove
<1>20. ASSUME LinkEstablished PROVE ListsStep /\ TmpListInv'
  BY <1>0, <1>20 DEF LinkEstablished, clientVars, ListsStep, ListsKept, CallersMove, TmpListInv,
     SessionInv, SocketInv, log, outstanding, told, reported
<1>21. ASSUME LinkFails PROVE ListsStep /\ TmpListInv'
  BY <1>0, <1>21 DEF LinkFails, clientVars, ListsStep, ListsKept, CallersMove, TmpListInv,
     SessionInv, SocketInv, log, outstanding, told, reported
<1>22. ASSUME TimePasses PROVE ListsStep /\ TmpListInv'
  BY <1>0, <1>22 DEF TimePasses, clientVars, ListsStep, ListsKept, CallersMove, TmpListInv,
     SessionInv, SocketInv, log, outstanding, told, reported
<1>23. ASSUME ServerAcceptsSession PROVE ListsStep /\ TmpListInv'
  BY <1>0, <1>23 DEF ServerAcceptsSession, clientVars, ListsStep, ListsKept, CallersMove, TmpListInv,
     SessionInv, SocketInv, log, outstanding, told, reported
<1>24. ASSUME ServerExpiresSession PROVE ListsStep /\ TmpListInv'
  BY <1>0, <1>24 DEF ServerExpiresSession, clientVars, ListsStep, ListsKept, CallersMove, TmpListInv,
     SessionInv, SocketInv, log, outstanding, told, reported
<1>25. ASSUME ServerReplies PROVE ListsStep /\ TmpListInv'
  BY <1>0, <1>25 DEF ServerReplies, clientVars, ListsStep, ListsKept, CallersMove, TmpListInv,
     SessionInv, SocketInv, log, outstanding, told, reported
<1>26. ASSUME ServerMisreplies PROVE ListsStep /\ TmpListInv'
  BY <1>0, <1>26 DEF ServerMisreplies, clientVars, ListsStep, ListsKept, CallersMove, TmpListInv,
     SessionInv, SocketInv, log, outstanding, told, reported
<1>27. ASSUME ServerNotifies PROVE ListsStep /\ TmpListInv'
  BY <1>0, <1>27 DEF ServerNotifies, clientVars, ListsStep, ListsKept, CallersMove, TmpListInv,
     SessionInv, SocketInv, log, outstanding, told, reported
<1>28. ASSUME NEW c \in Callers, Enqueue(c) PROVE ListsStep /\ TmpListInv'
  <2> DEFINE r == [xid |-> call[c].xid, n |-> Len(issued) + 1, kind |-> call[c].kind, by |-> c]
  <2>1. r \in Request
    BY <1>0, <1>28 DEF CallerTypeOK, Request
  <2>2. outstanding' = Append(outstanding, r) /\ TmpListInv'
    <3>1. sent_requests' = Append(sent_requests, r) /\ UNCHANGED <<tmp_list, ioPc>>
      BY <1>28 DEF Enqueue, AddRequest
    <3> HIDE DEF r
    <3> QED
      BY <1>0, <2>1, <3>1, AppendRight DEF outstanding, TmpListInv
  <2>3. UNCHANGED <<log, told, call, sc>>
    BY <1>28 DEF Enqueue, AddRequest, log, told, reported
  <2>4. r.n = Len(issued) + 1 /\ issued' = Append(issued, [kind |-> r.kind, by |-> r.by])
    BY <1>28 DEF Enqueue, AddRequest
  <2>5. /\ r.by \in Callers /\ pc[r.by] = "checked" /\ r.kind = call[r.by].kind
        /\ pc' = [pc EXCEPT ![r.by] = "wake"]
    BY <1>28 DEF Enqueue
  <2> HIDE DEF r
  <2> QED
    BY <2>1, <2>2, <2>3, <2>4, <2>5 DEF ListsStep, ListsAccept
<1>29. ASSUME SendPing PROVE ListsStep /\ TmpListInv'
  <2> DEFINE r == [xid |-> PING_XID, n |-> Len(issued) + 1, kind |-> "ping", by |-> IO]
  <2>1. r \in Request
    BY <1>0, <1>29 DEF Request, PING_XID
  <2>2. outstanding' = Append(outstanding, r) /\ TmpListInv'
    BY <1>0, <1>29, <2>1, AppendRight DEF SendPing, AddRequest, outstanding, TmpListInv
  <2>3. r.kind = "ping" /\ UNCHANGED <<log, told, pc, call, sc>>
    BY <1>29 DEF SendPing, AddRequest, log, told, reported
  <2>4. r.n = Len(issued) + 1 /\ issued' = Append(issued, [kind |-> r.kind, by |-> r.by])
    BY <1>29 DEF SendPing, AddRequest
  <2> HIDE DEF r
  <2> QED
    BY <2>1, <2>2, <2>3, <2>4 DEF ListsStep, ListsAccept
<1>30. ASSUME RunCallback PROVE ListsStep /\ TmpListInv'
  <2>1. UNCHANGED log
    BY <1>0, <1>30, MoveHead DEF RunCallback, log
  <2>2. UNCHANGED <<outstanding, issued, told, pc, call, sc>> /\ TmpListInv'
    BY <1>30 DEF RunCallback, TmpListInv, outstanding, told, reported
  <2> QED
    BY <2>1, <2>2 DEF ListsStep, ListsKept, CallersMove
<1>31. ASSUME ReadPrimerAccepted PROVE ListsStep /\ TmpListInv'
  <2>1. SessionEntry("CONNECTED") \in Entry /\ SessionEntry("CONNECTED").kind # "reply"
    BY EntryTypes DEF States, SessionEntry
  <2>2. log' = Append(log, SessionEntry("CONNECTED"))
    BY <1>31, <2>1, LogGrows DEF ReadPrimerAccepted
  <2>3. told = "CONNECTING" /\ told' = "CONNECTED"
    BY <1>0, <1>31 DEF ReadPrimerAccepted, TopOfLoop, SessionInv, told, reported
  <2>4. UNCHANGED <<outstanding, issued, pc, call, sc>> /\ TmpListInv'
    BY <1>31 DEF ReadPrimerAccepted, TmpListInv, TopOfLoop, outstanding
  <2> QED
    BY <2>1, <2>2, <2>3, <2>4 DEF ListsStep, ListsTell, Follows, States
<1>32. ASSUME ReadWatchEvent PROVE ListsStep /\ TmpListInv'
  <2>1. WatchEntry \in Entry /\ WatchEntry.kind # "reply"
    BY EntryTypes DEF WatchEntry
  <2>2. log' = Append(log, WatchEntry)
    BY <1>32, <2>1, LogGrows DEF ReadWatchEvent, ReadFrame
  <2>3. told = "CONNECTED" /\ UNCHANGED told
    BY <1>0, <1>32 DEF ReadWatchEvent, ReadFrame, TopOfLoop, SessionInv, told, reported
  <2>4. UNCHANGED <<outstanding, issued, pc, call, sc>> /\ TmpListInv'
    BY <1>32 DEF ReadWatchEvent, ReadFrame, TmpListInv, TopOfLoop, outstanding
  <2> QED
    BY <2>1, <2>2, <2>3, <2>4 DEF ListsStep, ListsTell
<1>33. ASSUME ReadReply PROVE ListsStep /\ TmpListInv'
  <2> DEFINE r == Head(sent_requests)
  <2>1. r \in Request /\ tmp_list = <<>> /\ tmp_list' = <<>> /\ TmpListInv'
    BY <1>0, <1>33, RequestList DEF ReadReply, ReadFrame, TmpListInv
  <2>2. outstanding = sent_requests /\ outstanding # <<>>
    BY <1>0, <1>33, <2>1, EmptyConcat DEF ReadReply, outstanding
  <2>3. CASE ~Matches(r, Head(s2c))
    BY <1>0, <1>33, <2>3, <2>1 DEF ReadReply, ReadFrame, Fail, ListsStep, ListsKept, CallersMove, log,
       outstanding, told, reported
  <2>4. CASE Matches(r, Head(s2c))
    <3>1. Deliver(r, "ZOK") /\ sent_requests' = Tail(sent_requests) /\ UNCHANGED <<called, issued>>
      BY <1>33, <2>4 DEF ReadReply, ReadFrame
    <3>2. outstanding' = Tail(outstanding)
      BY <1>0, <2>1, <2>2, <3>1, RequestList, EmptyConcat DEF outstanding
    <3>3. log' = IF r.kind = "async" THEN Append(log, ReplyEntry(r.n, "ZOK")) ELSE log
      BY <2>1, <3>1, DeliverEffect DEF Codes
    <3>4. told = "CONNECTED" /\ UNCHANGED <<told, pc, call>>
      BY <1>0, <1>33, <2>4 DEF ReadReply, ReadFrame, TopOfLoop, SessionInv, told, reported
    <3>5. Head(outstanding) = r /\ sc' = IF r.kind = "sync" THEN [sc EXCEPT ![r.by] = "ZOK"] ELSE sc
      BY <2>2, <3>1 DEF Deliver
    <3> QED
      BY <1>33, <2>1, <2>2, <2>4, <3>1, <3>2, <3>3, <3>4, <3>5 DEF ListsStep, ListsAnswer, Codes
  <2> QED
    BY <2>1, <2>3, <2>4
<1>34. ASSUME HandleErrorClose PROVE ListsStep /\ TmpListInv'
  <2>0. zstate \in States /\ "CONNECTING" \in States /\ "EXPIRED_SESSION" \in States
    BY <1>0 DEF TypeOK, HandleTypeOK, States
  <2>1. \A s \in States : SessionEntry(s) \in Entry /\ SessionEntry(s).kind # "reply"
    BY EntryTypes DEF SessionEntry
  <2>2. ~reported /\ reported'
    BY <1>34 DEF HandleErrorClose, reported
  <2>3. UNCHANGED <<outstanding, issued, pc, call, sc, called>> /\ TmpListInv' /\ zstate' = zstate
    BY <1>34 DEF HandleErrorClose, TmpListInv, outstanding
  <2>4. CASE is_unrecoverable
    <3>1. told = "CONNECTING" /\ told' = "EXPIRED_SESSION"
      BY <2>2, <2>3, <2>4 DEF is_unrecoverable, told
    <3>2. log' = Append(log, SessionEntry("EXPIRED_SESSION"))
      BY <1>34, <2>0, <2>1, <2>3, <2>4, LogGrows DEF HandleErrorClose, ErrorEvent, is_unrecoverable
    <3> QED
      BY <2>0, <2>1, <2>3, <3>1, <3>2 DEF ListsStep, ListsTell, Follows
  <2>5. CASE zstate = "CONNECTED"
    <3>1. told = "CONNECTED" /\ told' = "CONNECTING"
      BY <2>2, <2>3, <2>5 DEF told
    <3>2. log' = Append(log, SessionEntry("CONNECTING"))
      BY <1>34, <2>0, <2>1, <2>3, <2>5, LogGrows DEF HandleErrorClose, ErrorEvent, is_unrecoverable
    <3> QED
      BY <2>0, <2>1, <2>3, <3>1, <3>2 DEF ListsStep, ListsTell, Follows
  <2>6. CASE ~is_unrecoverable /\ zstate # "CONNECTED"
    <3>1. UNCHANGED told
      BY <2>2, <2>3, <2>6 DEF told, is_unrecoverable
    <3>2. UNCHANGED log
      BY <1>34, <2>3, <2>6 DEF HandleErrorClose, ErrorEvent, log
    <3> QED
      BY <2>3, <3>1, <3>2 DEF ListsStep, ListsKept, CallersMove
  <2> QED
    BY <2>4, <2>5, <2>6
<1>35. ASSUME CleanupBufs PROVE ListsStep /\ TmpListInv'
  <2>1. outstanding' = outstanding
    BY <1>0, <1>35, EmptyConcat DEF CleanupBufs, outstanding, TmpListInv
  <2>2. UNCHANGED <<log, issued, told, pc, call, sc>> /\ TmpListInv'
    BY <1>35 DEF CleanupBufs, TmpListInv, log, told, reported
  <2> QED
    BY <2>1, <2>2 DEF ListsStep, ListsKept, CallersMove
<1>36. ASSUME FreeCompletion PROVE ListsStep /\ TmpListInv'
  <2> DEFINE r == Head(tmp_list)
  <2>1. r \in Request /\ err.rc \in Codes
    BY <1>0, <1>36, RequestList DEF FreeCompletion, TypeOK, IOTypeOK
  <2>2. outstanding # <<>> /\ outstanding' = Tail(outstanding) /\ Head(outstanding) = r
    BY <1>0, <1>36, TailLeft DEF FreeCompletion, outstanding
  <2>3. log' = IF r.kind = "async" THEN Append(log, ReplyEntry(r.n, err.rc)) ELSE log
    BY <1>36, <2>1, DeliverEffect DEF FreeCompletion
  <2>4. told # "CONNECTED" /\ err.rc # "ZOK" /\ UNCHANGED <<told, issued, pc, call>> /\ TmpListInv'
    BY <1>0, <1>36 DEF FreeCompletion, SessionInv, Failures, TmpListInv, told, reported
  <2>5. sc' = IF r.kind = "sync" THEN [sc EXCEPT ![r.by] = err.rc] ELSE sc
    BY <1>36 DEF FreeCompletion, Deliver
  <2> QED
    BY <2>1, <2>2, <2>3, <2>4, <2>5 DEF ListsStep, ListsAnswer
<1>37. ASSUME UNCHANGED vars PROVE ListsStep /\ TmpListInv'
  BY <1>0, <1>37 DEF vars, ListsStep, ListsKept, CallersMove, TmpListInv,
     SessionInv, SocketInv, log, outstanding, told, reported
<1> QED
  BY <1>1, <1>2, <1>3, <1>4, <1>5, <1>6, <1>7, <1>8, <1>9, <1>10, <1>11, <1>12, <1>13, <1>14, <1>15, <1>16, <1>17, <1>18, <1>19, <1>20, <1>21, <1>22, <1>23, <1>24, <1>25, <1>26, <1>27, <1>28, <1>29, <1>30, <1>31, <1>32, <1>33, <1>34, <1>35, <1>36, <1>37
     DEF Next, CallerStep, do_completion, do_io, zookeeper_interest, zookeeper_process,
         handle_error, Environment
-----------------------------------------------------------------------------
(* The invariant on the lists: outstanding holds the latest requests in    *)
(* order, log has answers only to older ones, in order, and to every older *)
(* asynchronous one.                                                       *)

\* The number of requests answered so far.
answered == Len(issued) - Len(outstanding)

WindowInv ==
    /\ Len(outstanding) <= Len(issued)
    /\ \A i \in 1..Len(outstanding) :
          /\ outstanding[i].n = answered + i
          /\ outstanding[i].kind = issued[answered + i].kind

RepliesInv ==
    \A i \in 1..Len(log) : log[i].kind = "reply" => log[i].n \in 1..answered

OrderInv ==
    \A i, j \in 1..Len(log) :
        i < j /\ log[i].kind = "reply" /\ log[j].kind = "reply" => log[i].n < log[j].n

RepliedInv ==
    \A n \in 1..answered :
        issued[n].kind = "async" =>
            \E i \in 1..Len(log) : log[i].kind = "reply" /\ log[i].n = n

ListsInv == WindowInv /\ RepliesInv /\ OrderInv /\ RepliedInv

\* The types of the lists and of their lengths.
LEMMA ListTypes ==
    ASSUME TypeInv
    PROVE  /\ outstanding \in Seq(Request) /\ log \in Seq(Entry) /\ issued \in Seq(Issue)
           /\ Len(outstanding) \in Nat /\ Len(log) \in Nat /\ Len(issued) \in Nat
           /\ answered \in Int
<1>1. outstanding \in Seq(Request) /\ log \in Seq(Entry) /\ issued \in Seq(Issue)
  BY ConcatProperties DEF TypeInv, TypeOK, QueueTypeOK, outstanding, log
<1> QED
  BY <1>1, LenProperties DEF answered

\* The last number of a range, and the others.
LEMMA SplitRange == \A m \in Nat : \A k \in 1..(m + 1) : k = m + 1 \/ k \in 1..m
OBVIOUS

\* The invariant on the lists holds in the initial state ...
LEMMA ListsInit == Init => ListsInv
<1> SUFFICES ASSUME Init PROVE ListsInv
  OBVIOUS
<1>1. outstanding = <<>> /\ log = <<>> /\ issued = <<>>
  BY DEF Init, outstanding, log
<1> QED
  BY <1>1 DEF ListsInv, WindowInv, RepliesInv, OrderInv, RepliedInv, answered

\* ... and each of the four things keeps it.
LEMMA ListsPreserved == TypeInv /\ TypeInv' /\ ListsInv /\ ListsStep => ListsInv'
<1> SUFFICES ASSUME TypeInv, TypeInv', ListsInv, ListsStep PROVE ListsInv'
  OBVIOUS
<1> USE DEF ListsInv
<1>0. /\ outstanding \in Seq(Request) /\ log \in Seq(Entry) /\ issued \in Seq(Issue)
      /\ Len(outstanding) \in Nat /\ Len(log) \in Nat /\ Len(issued) \in Nat
      /\ answered \in Nat /\ answered = Len(issued) - Len(outstanding)
      /\ \A i \in 1..Len(log) : log[i].n \in Nat
  <2>1. \A i \in 1..Len(log) : log[i] \in Entry
    BY ListTypes, ElementOfSeq
  <2> QED
    BY <2>1, ListTypes DEF answered, WindowInv, Entry
<1>1. CASE ListsKept
  BY <1>1 DEF ListsKept, WindowInv, RepliesInv, OrderInv, RepliedInv, answered
<1>2. ASSUME NEW r \in Request, ListsAccept(r) PROVE ListsInv'
  <2> DEFINE a == [kind |-> r.kind, by |-> r.by]
  <2>1. /\ Len(outstanding') = Len(outstanding) + 1 /\ Len(issued') = Len(issued) + 1
        /\ \A i \in 1..Len(outstanding) : outstanding'[i] = outstanding[i]
        /\ outstanding'[Len(outstanding) + 1] = r
        /\ \A i \in 1..Len(issued) : issued'[i] = issued[i]
        /\ issued'[Len(issued) + 1].kind = r.kind
    <3>1. a \in Issue /\ a.kind = r.kind
      BY DEF Request, Issue
    <3> HIDE DEF a
    <3> QED
      BY <1>0, <1>2, <3>1, AppendProperties DEF ListsAccept, a
  <2>2. answered' = answered /\ log' = log /\ r.n = Len(issued) + 1
    BY <1>0, <1>2, <2>1 DEF ListsAccept, answered
  <2>3. WindowInv'
    <3>1. Len(outstanding') <= Len(issued')
      BY <1>0, <2>1 DEF WindowInv
    <3>2. ASSUME NEW i \in 1..Len(outstanding')
          PROVE  outstanding'[i].n = answered + i
                 /\ outstanding'[i].kind = issued'[answered + i].kind
      <4>1. CASE i = Len(outstanding) + 1
        <5>1. answered + i = Len(issued) + 1
          BY <1>0, <4>1
        <5>2. outstanding'[i] = r
          BY <2>1, <4>1
        <5>3. issued'[answered + i].kind = r.kind
          BY <2>1, <5>1
        <5>4. r.n = answered + i
          BY <2>2, <5>1
        <5> QED
          BY <5>2, <5>3, <5>4
      <4>2. CASE i \in 1..Len(outstanding)
        <5>1. outstanding'[i] = outstanding[i]
          BY <2>1, <4>2
        <5>2. answered + i \in 1..Len(issued)
          BY <1>0, <4>2
        <5>3. issued'[answered + i] = issued[answered + i]
          BY <2>1, <5>2
        <5> QED
          BY <4>2, <5>1, <5>3 DEF WindowInv
      <4> QED
        BY <1>0, <2>1, <3>2, <4>1, <4>2
    <3> QED
      BY <2>2, <3>1, <3>2 DEF WindowInv
  <2>4. RepliesInv' /\ OrderInv'
    BY <2>2 DEF RepliesInv, OrderInv
  <2>5. RepliedInv'
    <3>1. \A n \in 1..answered : issued'[n] = issued[n]
      BY <1>0, <2>1
    <3> QED
      BY <2>2, <3>1 DEF RepliedInv
  <2> QED
    BY <2>3, <2>4, <2>5
<1>3. ASSUME NEW c \in Codes, ListsAnswer(c) PROVE ListsInv'
  <2> DEFINE r == Head(outstanding)
  <2>1. /\ Len(outstanding') = Len(outstanding) - 1 /\ Len(outstanding) >= 1
        /\ \A i \in 1..Len(outstanding') : outstanding'[i] = outstanding[i + 1]
        /\ r = outstanding[1] /\ r \in Request /\ issued' = issued
    BY <1>0, <1>3, HeadTailProperties, EmptySeq DEF ListsAnswer
  <2>2. /\ answered' = answered + 1
        /\ r.n = answered + 1 /\ r.kind = issued[answered + 1].kind
    BY <1>0, <2>1 DEF WindowInv, answered
  <2>3. WindowInv'
    <3>1. Len(outstanding') <= Len(issued')
      BY <1>0, <2>1 DEF WindowInv
    <3>2. ASSUME NEW i \in 1..Len(outstanding')
          PROVE  outstanding'[i].n = answered' + i
                 /\ outstanding'[i].kind = issued'[answered' + i].kind
      <4>1. outstanding'[i] = outstanding[i + 1] /\ i + 1 \in 1..Len(outstanding)
        BY <1>0, <2>1
      <4>2. answered + (i + 1) = answered' + i
        BY <1>0, <2>2
      <4> QED
        BY <2>1, <4>1, <4>2 DEF WindowInv
    <3> QED
      BY <3>1, <3>2 DEF WindowInv
  <2> HIDE DEF r
  <2>4. CASE r.kind = "async"
    <3> DEFINE e == ReplyEntry(r.n, c)
    <3>1. e \in Entry /\ e.kind = "reply" /\ e.n = answered + 1
      <4>1. r.n \in Nat /\ r.n = answered + 1
        BY <1>0, <2>2
      <4> QED
        BY <1>3, <4>1, EntryTypes DEF ReplyEntry
    <3>2. log' = Append(log, e)
      BY <1>3, <2>4 DEF ListsAnswer, r
    <3>3. /\ Len(log') = Len(log) + 1 /\ log'[Len(log) + 1] = e
          /\ \A i \in 1..Len(log) : log'[i] = log[i]
      BY <1>0, <3>1, <3>2, AppendProperties
    <3> HIDE DEF e
    <3>4. RepliesInv'
      <4> SUFFICES ASSUME NEW i \in 1..Len(log'), log'[i].kind = "reply"
                   PROVE  log'[i].n \in 1..(answered + 1)
        BY <2>2 DEF RepliesInv
      <4>1. CASE i = Len(log) + 1
        BY <1>0, <3>1, <3>3, <4>1
      <4>2. CASE i \in 1..Len(log)
        <5>1. log'[i] = log[i]
          BY <3>3, <4>2
        <5>2. log[i].n \in 1..answered
          BY <4>2, <5>1 DEF RepliesInv
        <5> QED
          BY <1>0, <5>1, <5>2
      <4> QED
        BY <1>0, <3>3, <4>1, <4>2
    <3>5. OrderInv'
      <4> SUFFICES ASSUME NEW i \in 1..Len(log'), NEW j \in 1..Len(log'), i < j,
                          log'[i].kind = "reply", log'[j].kind = "reply"
                   PROVE  log'[i].n < log'[j].n
        BY DEF OrderInv
      <4>1. i \in 1..Len(log) /\ log'[i] = log[i]
        BY <1>0, <3>3
      <4>2. log[i].n \in 1..answered
        BY <4>1 DEF RepliesInv
      <4>3. CASE j = Len(log) + 1
        BY <1>0, <3>1, <3>3, <4>1, <4>2, <4>3
      <4>4. CASE j \in 1..Len(log)
        <5>1. log'[j] = log[j]
          BY <3>3, <4>4
        <5>2. log[i].n < log[j].n
          BY <4>1, <4>4, <5>1 DEF OrderInv
        <5> QED
          BY <4>1, <5>1, <5>2
      <4>5. j = Len(log) + 1 \/ j \in 1..Len(log)
        BY <1>0, <3>3, SplitRange
      <4> QED
        BY <4>3, <4>4, <4>5
    <3>6. RepliedInv'
      <4> SUFFICES ASSUME NEW n \in 1..(answered + 1), issued[n].kind = "async"
                   PROVE  \E i \in 1..Len(log') : log'[i].kind = "reply" /\ log'[i].n = n
        BY <2>1, <2>2 DEF RepliedInv
      <4>1. CASE n = answered + 1
        <5>1. Len(log) + 1 \in 1..Len(log')
          BY <1>0, <3>3, SMTT(30)
        <5> QED
          <6>1. log'[Len(log) + 1].kind = "reply" /\ log'[Len(log) + 1].n = n
            BY <3>1, <3>3, <4>1
          <6> QED
            BY <5>1, <6>1
      <4>2. CASE n \in 1..answered
        <5>1. PICK i \in 1..Len(log) : log[i].kind = "reply" /\ log[i].n = n
          BY <4>2 DEF RepliedInv
        <5>2. i \in 1..Len(log') /\ log'[i] = log[i]
          BY <1>0, <3>3
        <5> QED
          BY <5>1, <5>2
      <4> QED
        BY <1>0, <4>1, <4>2
    <3> QED
      BY <2>3, <3>4, <3>5, <3>6
  <2>5. CASE r.kind # "async"
    <3>1. log' = log
      BY <1>3, <2>5 DEF ListsAnswer, r
    <3>2. RepliesInv' /\ OrderInv'
      BY <1>0, <2>2, <3>1 DEF RepliesInv, OrderInv
    <3>3. RepliedInv'
      <4> SUFFICES ASSUME NEW n \in 1..(answered + 1), issued[n].kind = "async"
                   PROVE  \E i \in 1..Len(log) : log[i].kind = "reply" /\ log[i].n = n
        BY <2>1, <2>2, <3>1 DEF RepliedInv
      <4>1. n # answered + 1
        BY <2>2, <2>5
      <4> QED
        <5>1. n \in 1..answered
          BY <1>0, <4>1, SplitRange
        <5> QED
          BY <5>1 DEF RepliedInv
    <3> QED
      BY <2>3, <3>2, <3>3
  <2> QED
    BY <2>4, <2>5
<1>4. ASSUME NEW e \in Entry, ListsTell(e) PROVE ListsInv'
  <2>1. /\ Len(log') = Len(log) + 1 /\ log'[Len(log) + 1] = e /\ e.kind # "reply"
        /\ \A i \in 1..Len(log) : log'[i] = log[i]
        /\ issued' = issued /\ outstanding' = outstanding /\ answered' = answered
    BY <1>0, <1>4, AppendProperties DEF ListsTell, answered
  <2>6. \A i \in 1..Len(log') : log'[i].kind = "reply" => i \in 1..Len(log) /\ log'[i] = log[i]
    <3> SUFFICES ASSUME NEW i \in 1..Len(log'), log'[i].kind = "reply"
                 PROVE  i \in 1..Len(log) /\ log'[i] = log[i]
      OBVIOUS
    <3>1. i # Len(log) + 1
      BY <2>1
    <3> QED
      BY <1>0, <2>1, <3>1
  <2>2. RepliesInv'
    BY <2>1, <2>6 DEF RepliesInv
  <2>3. OrderInv'
    <3> SUFFICES ASSUME NEW i \in 1..Len(log'), NEW j \in 1..Len(log'), i < j,
                        log'[i].kind = "reply", log'[j].kind = "reply"
                 PROVE  log'[i].n < log'[j].n
      BY DEF OrderInv
    <3>1. i \in 1..Len(log) /\ j \in 1..Len(log) /\ log'[i] = log[i] /\ log'[j] = log[j]
      BY <2>6
    <3>2. log[i].n < log[j].n
      BY <3>1 DEF OrderInv
    <3> QED
      BY <3>1, <3>2
  <2>4. RepliedInv'
    <3> SUFFICES ASSUME NEW n \in 1..answered, issued[n].kind = "async"
                 PROVE  \E i \in 1..Len(log') : log'[i].kind = "reply" /\ log'[i].n = n
      BY <2>1 DEF RepliedInv
    <3>1. PICK i \in 1..Len(log) : log[i].kind = "reply" /\ log[i].n = n
      BY DEF RepliedInv
    <3>2. i \in 1..Len(log') /\ log'[i] = log[i]
      BY <1>0, <2>1
    <3> QED
      BY <3>1, <3>2
  <2>5. WindowInv'
    BY <2>1 DEF WindowInv
  <2> QED
    BY <2>2, <2>3, <2>4, <2>5
<1> QED
  BY <1>1, <1>2, <1>3, <1>4 DEF ListsStep

\* It has the two properties as its consequences.
LEMMA ListsImply == TypeInv /\ ListsInv => CallbacksInOrder /\ RequestsAccountedFor
<1> SUFFICES ASSUME TypeInv, ListsInv PROVE CallbacksInOrder /\ RequestsAccountedFor
  OBVIOUS
<1> USE DEF ListsInv, WindowInv, RepliesInv, OrderInv, RepliedInv, answered
<1>0. /\ DOMAIN log = 1..Len(log) /\ DOMAIN outstanding = 1..Len(outstanding)
      /\ DOMAIN issued = 1..Len(issued)
      /\ Len(outstanding) \in Nat /\ Len(log) \in Nat /\ Len(issued) \in Nat
  BY ListTypes, LenProperties
<1>1. CallbacksInOrder
  BY <1>0 DEF CallbacksInOrder
<1>2. ASSUME NEW n \in DOMAIN issued, issued[n].kind = "async"
      PROVE  (\E i \in DOMAIN log : log[i].kind = "reply" /\ log[i].n = n)
             # (\E i \in DOMAIN outstanding : outstanding[i].n = n)
  <2>1. CASE n <= answered
    <3>1. \E i \in DOMAIN log : log[i].kind = "reply" /\ log[i].n = n
      BY <1>0, <1>2, <2>1
    <3>2. ~ \E i \in DOMAIN outstanding : outstanding[i].n = n
      BY <1>0, <1>2, <2>1
    <3> QED
      BY <3>1, <3>2
  <2>2. CASE n > answered
    <3>1. ~ \E i \in DOMAIN log : log[i].kind = "reply" /\ log[i].n = n
      BY <1>0, <1>2, <2>2
    <3>2. n - answered \in DOMAIN outstanding /\ outstanding[n - answered].n = n
      BY <1>0, <1>2, <2>2
    <3> QED
      BY <3>1, <3>2
  <2> QED
    BY <1>0, <1>2, <2>1, <2>2
<1> QED
  BY <1>1, <1>2 DEF RequestsAccountedFor

\* The invariants on types, session and lists hold in every reachable state.
LEMMA SpecListsInv == Spec => [](TypeInv /\ SessionInv /\ TmpListInv /\ ListsInv)
<1>1. Init => TypeInv /\ SessionInv /\ TmpListInv /\ ListsInv
  BY TypeInit, SessionInit, TmpListInit, ListsInit
<1>2. TypeInv /\ SessionInv /\ TmpListInv /\ ListsInv /\ [Next]_vars
      => (TypeInv /\ SessionInv /\ TmpListInv /\ ListsInv)'
  BY TypeStep, SessionStep, ListsEffect, ListsPreserved
<1> QED
  BY <1>1, <1>2, PTL DEF Spec

\* Callbacks run in the order in which their requests were put on
\* sent_requests, at most one for each request, whatever interleaving of
\* callers, IO thread, completion thread and connection errors.
THEOREM CallbackOrder == Spec => []CallbacksInOrder
  BY SpecListsInv, ListsImply, PTL

\* Every accepted asynchronous request is still outstanding or has its one
\* answer with the completion thread: no path through zookeeper_process or
\* handle_error drops or doubles one.
THEOREM NoRequestLost == Spec => []RequestsAccountedFor
  BY SpecListsInv, ListsImply, PTL
-----------------------------------------------------------------------------
(* What the callbacks tell of the session.                                 *)

\* The state last told to the callbacks is the one of the last session event.
AgreeInv ==
    /\ CallbacksAgreeWithSession
    /\ told = "CONNECTED" <=> ConnectedAt(Len(log) + 1)

\* Nothing has been told in the initial state.
LEMMA AgreeInit == Init => AgreeInv
<1> SUFFICES ASSUME Init PROVE AgreeInv
  OBVIOUS
<1>1. log = <<>> /\ told = "CONNECTING"
  BY DEF Init, log, told, reported
<1> QED
  BY <1>1 DEF AgreeInv, CallbacksAgreeWithSession, ConnectedAt

\* An entry that is appended changes nothing before it, and decides what is
\* said of the session after it if it is a session event.
LEMMA ConnectedAppended ==
    ASSUME log \in Seq(Entry), NEW e \in Entry, log' = Append(log, e)
    PROVE  /\ Len(log') = Len(log) + 1 /\ Len(log) \in Nat
           /\ log'[Len(log) + 1] = e /\ \A i \in 1..Len(log) : log'[i] = log[i]
           /\ \A i \in 1..(Len(log) + 1) : ConnectedAt(i)' <=> ConnectedAt(i)
           /\ e.kind = "session" => (ConnectedAt(Len(log) + 1)' <=> e = SessionEntry("CONNECTED"))
           /\ e.kind # "session" => (ConnectedAt(Len(log) + 1)' <=> ConnectedAt(Len(log) + 1))
<1>0. PICK n \in Nat : n = Len(log)
  BY LenProperties
<1>1. /\ Len(log') = n + 1 /\ n \in Nat
      /\ log'[n + 1] = e /\ \A i \in 1..n : log'[i] = log[i]
  BY <1>0, AppendProperties
<1>2. ASSUME NEW i \in 1..(n + 1) PROVE ConnectedAt(i)' <=> ConnectedAt(i)
  <2>1. \A j \in 1..(i - 1) : log'[j] = log[j] /\ \A k \in (j + 1)..(i - 1) : log'[k] = log[k]
    BY <1>1
  <2> QED
    BY <2>1 DEF ConnectedAt
<1>3. (n + 1 + 1) - 1 = n + 1 /\ (n + 1) - 1 = n
  BY <1>1
<1>4. ASSUME e.kind = "session"
      PROVE  ConnectedAt(n + 1 + 1)' <=> e = SessionEntry("CONNECTED")
  <2>1. ASSUME ConnectedAt(n + 1 + 1)' PROVE e = SessionEntry("CONNECTED")
    <3>1. PICK j \in 1..(n + 1) : /\ log'[j] = SessionEntry("CONNECTED")
                                  /\ \A k \in (j + 1)..(n + 1) : log'[k].kind # "session"
      BY <1>3, <2>1 DEF ConnectedAt
    <3>2. j = n + 1
      <4>1. CASE j # n + 1
        <5>1. n + 1 \in (j + 1)..(n + 1)
          BY <1>1, <4>1
        <5> QED
          BY <1>1, <1>4, <3>1, <5>1
      <4> QED
        BY <4>1
    <3> QED
      BY <1>1, <3>1, <3>2
  <2>2. ASSUME e = SessionEntry("CONNECTED") PROVE ConnectedAt(n + 1 + 1)'
    <3>1. n + 1 \in 1..(n + 1) /\ ((n + 1) + 1)..(n + 1) = {}
      BY <1>1
    <3> QED
      BY <1>1, <1>3, <2>2, <3>1 DEF ConnectedAt
  <2> QED
    BY <2>1, <2>2
<1>5. ASSUME e.kind # "session"
      PROVE  ConnectedAt(n + 1 + 1)' <=> ConnectedAt(n + 1)
  <2>1. ASSUME ConnectedAt(n + 1 + 1)' PROVE ConnectedAt(n + 1)
    <3>1. PICK j \in 1..(n + 1) : /\ log'[j] = SessionEntry("CONNECTED")
                                  /\ \A k \in (j + 1)..(n + 1) : log'[k].kind # "session"
      BY <1>3, <2>1 DEF ConnectedAt
    <3>2. j # n + 1
      BY <1>1, <1>5, <3>1 DEF SessionEntry
    <3>3. j \in 1..n /\ (\A k \in (j + 1)..n : k \in (j + 1)..(n + 1) /\ k \in 1..n)
      BY <1>1, <3>1, <3>2
    <3>4. log[j] = SessionEntry("CONNECTED") /\ \A k \in (j + 1)..n : log[k].kind # "session"
      BY <1>1, <3>1, <3>3
    <3> QED
      BY <1>3, <3>3, <3>4 DEF ConnectedAt
  <2>2. ASSUME ConnectedAt(n + 1) PROVE ConnectedAt(n + 1 + 1)'
    <3>1. PICK j \in 1..n : /\ log[j] = SessionEntry("CONNECTED")
                            /\ \A k \in (j + 1)..n : log[k].kind # "session"
      BY <1>3, <2>2 DEF ConnectedAt
    <3>2. j \in 1..(n + 1) /\ \A k \in (j + 1)..(n + 1) : k = n + 1 \/ k \in (j + 1)..n
      BY <1>1
    <3>3. \A k \in (j + 1)..n : k \in 1..n
      BY <1>1
    <3>4. log'[j] = SessionEntry("CONNECTED")
      BY <1>1, <3>1
    <3>5. ASSUME NEW k \in (j + 1)..(n + 1) PROVE log'[k].kind # "session"
      <4>1. CASE k = n + 1
        BY <1>1, <1>5, <4>1
      <4>2. CASE k \in (j + 1)..n
        BY <1>1, <3>1, <3>3, <4>2
      <4> QED
        BY <3>2, <4>1, <4>2
    <3> QED
      BY <1>3, <3>2, <3>4, <3>5 DEF ConnectedAt
  <2> QED
    BY <2>1, <2>2
<1> QED
  BY <1>0, <1>1, <1>2, <1>4, <1>5

\* What the completion thread is told agrees with the session it was told of.
LEMMA AgreeAppended ==
    ASSUME TypeInv, AgreeInv, NEW e \in Entry, log' = Append(log, e),
           \/ e.kind # "session" /\ UNCHANGED told /\ (e.what = "ZOK" <=> told = "CONNECTED")
           \/ \E s \in States : e = SessionEntry(s) /\ told' = s
    PROVE  AgreeInv'
<1>0. PICK n \in Nat : n = Len(log)
  BY ListTypes
<1>1. /\ Len(log') = n + 1 /\ n \in Nat
      /\ log'[n + 1] = e /\ \A i \in 1..n : log'[i] = log[i]
      /\ \A i \in 1..(n + 1) : ConnectedAt(i)' <=> ConnectedAt(i)
      /\ e.kind = "session" => (ConnectedAt(Len(log) + 1)' <=> e = SessionEntry("CONNECTED"))
      /\ e.kind # "session" => (ConnectedAt(Len(log) + 1)' <=> ConnectedAt(n + 1))
  BY <1>0, ConnectedAppended, ListTypes
<1>2. /\ \A i \in 1..n : log[i].kind # "session" => (log[i].what = "ZOK" <=> ConnectedAt(i))
      /\ told = "CONNECTED" <=> ConnectedAt(n + 1)
      /\ DOMAIN log' = 1..(n + 1)
  <2>1. log' \in Seq(Entry) /\ log \in Seq(Entry)
    BY ListTypes, AppendProperties
  <2>2. DOMAIN log' = 1..Len(log') /\ DOMAIN log = 1..n
    BY <1>0, <2>1, LenProperties
  <2> QED
    BY <1>0, <1>1, <2>2 DEF AgreeInv, CallbacksAgreeWithSession
<1>3. CallbacksAgreeWithSession'
  <2> SUFFICES ASSUME NEW i \in 1..(n + 1), log'[i].kind # "session"
               PROVE  log'[i].what = "ZOK" <=> ConnectedAt(i)'
    BY <1>2 DEF CallbacksAgreeWithSession
  <2>1. CASE i = n + 1
    <3>1. e.kind # "session"
      BY <1>1, <2>1
    <3>2. e.what = "ZOK" <=> told = "CONNECTED"
      BY <3>1 DEF SessionEntry
    <3> QED
      BY <1>1, <1>2, <2>1, <3>2
  <2>2. CASE i \in 1..n
    BY <1>1, <1>2, <2>2
  <2> QED
    BY <1>1, <2>1, <2>2
<1>4. told' = "CONNECTED" <=> ConnectedAt(Len(log) + 1)'
  <2>1. CASE e.kind # "session"
    BY <1>1, <1>2, <2>1 DEF SessionEntry
  <2>2. CASE \E s \in States : e = SessionEntry(s) /\ told' = s
    BY <1>1, <2>2 DEF SessionEntry
  <2> QED
    BY <2>1, <2>2
<1> QED
  BY <1>3, <1>4 DEF AgreeInv

\* The entries of each of the four things agree with the state that was told.
LEMMA AgreePreserved == TypeInv /\ AgreeInv /\ ListsStep => AgreeInv'
<1> SUFFICES ASSUME TypeInv, AgreeInv, ListsStep PROVE AgreeInv'
  OBVIOUS
<1>1. CASE ListsKept \/ \E r \in Request : ListsAccept(r)
  <2>1. UNCHANGED <<log, told>>
    BY <1>1 DEF ListsKept, ListsAccept
  <2> QED
    BY <2>1 DEF AgreeInv, CallbacksAgreeWithSession, ConnectedAt
<1>2. ASSUME NEW c \in Codes, ListsAnswer(c) PROVE AgreeInv'
  <2> DEFINE e == ReplyEntry(Head(outstanding).n, c)
  <2>1. CASE Head(outstanding).kind = "async"
    <3>1. Head(outstanding) \in Request
      BY <1>2, ListTypes, RequestList DEF ListsAnswer
    <3>2. e \in Entry /\ e.kind # "session" /\ e.what = c
      BY <3>1, EntryTypes DEF ReplyEntry, Request
    <3>3. log' = Append(log, e) /\ UNCHANGED told /\ (c = "ZOK" <=> told = "CONNECTED")
      BY <1>2, <2>1 DEF ListsAnswer
    <3> HIDE DEF e
    <3> QED
      BY <3>2, <3>3, AgreeAppended
  <2>2. CASE Head(outstanding).kind # "async"
    <3>1. UNCHANGED <<log, told>>
      BY <1>2, <2>2 DEF ListsAnswer
    <3> QED
      BY <3>1 DEF AgreeInv, CallbacksAgreeWithSession, ConnectedAt
  <2> QED
    BY <2>1, <2>2
<1>3. ASSUME NEW e \in Entry, ListsTell(e) PROVE AgreeInv'
  <2>1. log' = Append(log, e)
    BY <1>3 DEF ListsTell
  <2>2. CASE e = WatchEntry /\ told = "CONNECTED" /\ UNCHANGED told
    BY <2>1, <2>2, AgreeAppended DEF WatchEntry
  <2>3. CASE \E s \in States : e = SessionEntry(s) /\ told' = s
    BY <2>1, <2>3, AgreeAppended
  <2> QED
    BY <1>3, <2>2, <2>3 DEF ListsTell
<1> QED
  BY <1>1, <1>2, <1>3 DEF ListsStep

\* The callbacks tell one consistent story of the session: answers of the
\* server and watch events while it was last reported CONNECTED, failures
\* only after its loss was reported, although the connection is lost in the
\* IO thread and the callbacks run in another (handle_error, free_completions).
THEOREM CallbacksTellOneStory == Spec => []CallbacksAgreeWithSession
<1>1. Init => AgreeInv
  BY AgreeInit
<1>2. TypeInv /\ SessionInv /\ TmpListInv /\ AgreeInv /\ [Next]_vars => AgreeInv'
  BY ListsEffect, AgreePreserved
<1>3. AgreeInv => CallbacksAgreeWithSession
  BY DEF AgreeInv
<1> QED
  BY <1>1, <1>2, <1>3, SpecListsInv, PTL DEF Spec

-----------------------------------------------------------------------------
(* Synchronous callers.                                                    *)

IsFor(r, c) == r.kind = "sync" /\ r.by = c

\* The caller has a request on the lists and its sync_completion is open.
Awaited(c) == pc[c] \in {"wake", "waiting"} /\ call[c].kind = "sync" /\ sc[c] = "none"

SyncInv ==
    \A c \in Callers :
        /\ pc[c] \in {"idle", "checked"} => sc[c] = "none"
        /\ pc[c] = "waiting" => call[c].kind = "sync"
        /\ Awaited(c) <=> \E i \in 1..Len(outstanding) : IsFor(outstanding[i], c)
        /\ \A i, j \in 1..Len(outstanding) :
              IsFor(outstanding[i], c) /\ IsFor(outstanding[j], c) => i = j

\* No caller waits in the initial state.
LEMMA SyncInit == Init => SyncInv
<1> SUFFICES ASSUME Init PROVE SyncInv
  OBVIOUS
<1>1. outstanding = <<>>
  BY DEF Init, outstanding
<1>2. \A c \in Callers : pc[c] = "idle" /\ sc[c] = "none"
  BY DEF Init
<1> QED
  BY <1>1, <1>2 DEF SyncInv, Awaited

\* A caller that starts, goes to sleep or returns opens and closes nothing.
LEMMA SyncMoves ==
    ASSUME CallerTypeOK, SyncInv, CallersMove, NEW c \in Callers
    PROVE  /\ pc'[c] \in {"idle", "checked"} => sc'[c] = "none"
           /\ pc'[c] = "waiting" => call'[c].kind = "sync"
           /\ Awaited(c)' <=> Awaited(c)
<1> USE DEF Awaited
<1>0. /\ pc \in [Callers -> {"idle", "checked", "wake", "waiting"}]
      /\ call \in [Callers -> [kind : {"sync", "async"}, xid : Int]]
      /\ sc \in [Callers -> {"none"} \cup Codes]
      /\ pc[c] \in {"idle", "checked"} => sc[c] = "none"
      /\ pc[c] = "waiting" => call[c].kind = "sync"
  BY DEF CallerTypeOK, SyncInv
<1>1. CASE UNCHANGED <<pc, call, sc>>
  BY <1>0, <1>1
<1>2. ASSUME NEW d \in Callers, NEW kind \in {"sync", "async"}, StartCall(d, kind)
      PROVE  /\ pc'[c] \in {"idle", "checked"} => sc'[c] = "none"
             /\ pc'[c] = "waiting" => call'[c].kind = "sync"
             /\ Awaited(c)' <=> Awaited(c)
  BY <1>0, <1>2 DEF StartCall
<1>3. ASSUME NEW d \in Callers, WakeIO(d)
      PROVE  /\ pc'[c] \in {"idle", "checked"} => sc'[c] = "none"
             /\ pc'[c] = "waiting" => call'[c].kind = "sync"
             /\ Awaited(c)' <=> Awaited(c)
  <2>1. CASE call[d].kind = "sync"
    BY <1>0, <1>3, <2>1 DEF WakeIO, Waits
  <2>2. CASE call[d].kind # "sync"
    BY <1>0, <1>3, <2>2 DEF WakeIO, Returns, NoCall
  <2> QED
    BY <2>1, <2>2
<1>4. ASSUME NEW d \in Callers, SyncReturn(d)
      PROVE  /\ pc'[c] \in {"idle", "checked"} => sc'[c] = "none"
             /\ pc'[c] = "waiting" => call'[c].kind = "sync"
             /\ Awaited(c)' <=> Awaited(c)
  BY <1>0, <1>4 DEF SyncReturn, Complete, Returns, NoCall
<1> QED
  BY <1>1, <1>2, <1>3, <1>4 DEF CallersMove

\* Each of the four things keeps callers and requests together.
LEMMA SyncPreserved == TypeInv /\ SyncInv /\ ListsStep => SyncInv'
<1> SUFFICES ASSUME TypeInv, SyncInv, ListsStep, NEW c \in Callers
             PROVE  /\ pc'[c] \in {"idle", "checked"} => sc'[c] = "none"
                    /\ pc'[c] = "waiting" => call'[c].kind = "sync"
                    /\ Awaited(c)' <=> \E i \in 1..Len(outstanding') : IsFor(outstanding'[i], c)
                    /\ \A i, j \in 1..Len(outstanding') :
                          IsFor(outstanding'[i], c) /\ IsFor(outstanding'[j], c) => i = j
  BY DEF SyncInv
<1> DEFINE Goal == /\ pc'[c] \in {"idle", "checked"} => sc'[c] = "none"
                   /\ pc'[c] = "waiting" => call'[c].kind = "sync"
                   /\ Awaited(c)' <=> \E i \in 1..Len(outstanding') : IsFor(outstanding'[i], c)
                   /\ \A i, j \in 1..Len(outstanding') :
                         IsFor(outstanding'[i], c) /\ IsFor(outstanding'[j], c) => i = j
           o == outstanding
           n == Len(outstanding)
<1>0. /\ pc \in [Callers -> {"idle", "checked", "wake", "waiting"}]
      /\ call \in [Callers -> [kind : {"sync", "async"}, xid : Int]]
      /\ sc \in [Callers -> {"none"} \cup Codes]
      /\ pc[c] \in {"idle", "checked"} => sc[c] = "none"
      /\ pc[c] = "waiting" => call[c].kind = "sync"
      /\ Awaited(c) <=> \E i \in 1..n : IsFor(o[i], c)
      /\ \A i, j \in 1..n : IsFor(o[i], c) /\ IsFor(o[j], c) => i = j
      /\ o \in Seq(Request) /\ n \in Nat
  BY ListTypes DEF TypeInv, TypeOK, CallerTypeOK, SyncInv
<1>1. CASE ListsKept
  <2>1. UNCHANGED outstanding /\ CallersMove
    BY <1>1 DEF ListsKept
  <2> QED
    BY <1>0, <2>1, SyncMoves DEF TypeInv, TypeOK
<1>2. ASSUME NEW r \in Request, ListsAccept(r) PROVE Goal
  <2>1. /\ Len(outstanding') = n + 1 /\ outstanding'[n + 1] = r
        /\ \A i \in 1..n : outstanding'[i] = o[i]
    BY <1>0, <1>2, AppendProperties DEF ListsAccept
  <2>2. UNCHANGED <<call, sc>>
    BY <1>2 DEF ListsAccept
  <2> HIDE DEF o, n
  <2>3. CASE IsFor(r, c)
    <3>1. /\ pc[c] = "checked" /\ call[c].kind = "sync" /\ pc'[c] = "wake"
      BY <1>0, <1>2, <2>3 DEF ListsAccept, IsFor
    <3>2. ~Awaited(c) /\ Awaited(c)'
      BY <1>0, <2>2, <3>1 DEF Awaited
    <3>3. \A i \in 1..(n + 1) : IsFor(outstanding'[i], c) => i = n + 1
      <4>1. \A i \in 1..n : ~IsFor(outstanding'[i], c)
        BY <1>0, <2>1, <3>2
      <4> QED
        BY <1>0, <4>1, SplitRange
    <3>4. n + 1 \in 1..(n + 1) /\ IsFor(outstanding'[n + 1], c)
      BY <1>0, <2>1, <2>3
    <3> QED
      BY <2>1, <3>1, <3>2, <3>3, <3>4
  <2>4. CASE ~IsFor(r, c)
    <3>1. /\ pc'[c] \in {"idle", "checked"} => sc'[c] = "none"
          /\ pc'[c] = "waiting" => call'[c].kind = "sync"
          /\ Awaited(c)' <=> Awaited(c)
      <4>1. CASE UNCHANGED pc
        BY <1>0, <2>2, <4>1 DEF Awaited
      <4>2. CASE /\ r.by \in Callers /\ pc[r.by] = "checked" /\ r.kind = call[r.by].kind
                 /\ pc' = [pc EXCEPT ![r.by] = "wake"]
        BY <1>0, <2>2, <2>4, <4>2 DEF Awaited, IsFor
      <4> QED
        BY <1>2, <4>1, <4>2 DEF ListsAccept
    <3>2. \A i \in 1..(n + 1) : IsFor(outstanding'[i], c) => i \in 1..n /\ IsFor(o[i], c)
      BY <1>0, <2>1, <2>4
    <3>3. \A i \in 1..n : i \in 1..(n + 1) /\ outstanding'[i] = o[i]
      BY <1>0, <2>1
    <3>4. \A i, j \in 1..(n + 1) : IsFor(outstanding'[i], c) /\ IsFor(outstanding'[j], c) => i = j
      BY <1>0, <3>2
    <3>5. (\E i \in 1..(n + 1) : IsFor(outstanding'[i], c)) <=> \E i \in 1..n : IsFor(o[i], c)
      BY <3>2, <3>3
    <3> QED
      BY <1>0, <2>1, <3>1, <3>4, <3>5
  <2> QED
    BY <2>3, <2>4
<1>3. ASSUME NEW code \in Codes, ListsAnswer(code) PROVE Goal
  <2> DEFINE h == Head(outstanding)
  <2>1. /\ Len(outstanding') = n - 1 /\ n >= 1 /\ h = o[1] /\ h \in Request
        /\ \A i \in 1..(n - 1) : outstanding'[i] = o[i + 1]
    BY <1>0, <1>3, HeadTailProperties, EmptySeq DEF ListsAnswer
  <2>2. /\ UNCHANGED <<pc, call>> /\ code # "none"
        /\ sc' = IF h.kind = "sync" THEN [sc EXCEPT ![h.by] = code] ELSE sc
    BY <1>3 DEF ListsAnswer, Codes, Failures
  <2> HIDE DEF o, n, h
  <2>3. CASE IsFor(h, c)
    <3>1. Awaited(c) /\ ~ \E i \in 1..(n - 1) : IsFor(outstanding'[i], c)
      <4>1. 1 \in 1..n /\ \A i \in 1..(n - 1) : i + 1 \in 1..n /\ i + 1 # 1
        BY <1>0, <2>1
      <4> QED
        BY <1>0, <2>1, <2>3, <4>1
    <3>2. sc'[c] = code /\ pc[c] \notin {"idle", "checked"}
      BY <1>0, <2>2, <2>3, <3>1 DEF IsFor, Awaited
    <3>3. ~Awaited(c)'
      BY <2>2, <3>2 DEF Awaited
    <3> QED
      BY <1>0, <2>1, <2>2, <3>1, <3>2, <3>3
  <2>4. CASE ~IsFor(h, c)
    <3>1. sc'[c] = sc[c]
      BY <1>0, <2>2, <2>4 DEF IsFor
    <3>2. Awaited(c)' <=> Awaited(c)
      BY <2>2, <3>1 DEF Awaited
    <3>3. \A i \in 1..(n - 1) : i + 1 \in 1..n /\ outstanding'[i] = o[i + 1]
      BY <1>0, <2>1
    <3>4. \A i \in 1..n : IsFor(o[i], c) =>
             i - 1 \in 1..(n - 1) /\ outstanding'[i - 1] = o[i]
      <4> SUFFICES ASSUME NEW i \in 1..n, IsFor(o[i], c)
                   PROVE  i - 1 \in 1..(n - 1) /\ outstanding'[i - 1] = o[i]
        OBVIOUS
      <4>1. i # 1
        BY <2>1, <2>4
      <4>2. i - 1 \in 1..(n - 1) /\ (i - 1) + 1 = i
        BY <1>0, <4>1
      <4> QED
        BY <2>1, <4>2
    <3>5. (\E i \in 1..(n - 1) : IsFor(outstanding'[i], c)) <=> \E i \in 1..n : IsFor(o[i], c)
      BY <3>3, <3>4
    <3>6. \A i, j \in 1..(n - 1) : IsFor(outstanding'[i], c) /\ IsFor(outstanding'[j], c) => i = j
      <4> SUFFICES ASSUME NEW i \in 1..(n - 1), NEW j \in 1..(n - 1),
                          IsFor(outstanding'[i], c), IsFor(outstanding'[j], c)
                   PROVE  i = j
        OBVIOUS
      <4>1. i + 1 = j + 1
        BY <1>0, <3>3
      <4> QED
        BY <1>0, <4>1
    <3> QED
      BY <1>0, <2>1, <2>2, <3>1, <3>2, <3>5, <3>6
  <2> QED
    BY <2>3, <2>4
<1>4. ASSUME NEW e \in Entry, ListsTell(e) PROVE Goal
  <2>1. UNCHANGED <<outstanding, pc, call, sc>>
    BY <1>4 DEF ListsTell
  <2> QED
    BY <1>0, <2>1 DEF Awaited
<1> QED
  BY <1>1, <1>2, <1>3, <1>4 DEF ListsStep

\* One request at most, and one exactly if the caller is awaited, is what
\* SyncCallersWait counts.
LEMMA SyncImplies == TypeInv /\ SyncInv => SyncCallersWait
<1> SUFFICES ASSUME TypeInv, SyncInv, NEW c \in Callers
             PROVE  Cardinality({i \in DOMAIN outstanding :
                                    outstanding[i].kind = "sync" /\ outstanding[i].by = c})
                    = IF pc[c] \in {"wake", "waiting"} /\ call[c].kind = "sync" /\ sc[c] = "none"
                      THEN 1 ELSE 0
  BY DEF SyncCallersWait
<1> DEFINE mine == {i \in DOMAIN outstanding : IsFor(outstanding[i], c)}
<1>1. DOMAIN outstanding = 1..Len(outstanding)
  BY ListTypes, LenProperties
<1>2. CASE Awaited(c)
  <2>1. PICK i \in 1..Len(outstanding) : IsFor(outstanding[i], c)
    BY <1>2 DEF SyncInv
  <2>2. mine = {i}
    BY <1>1, <2>1 DEF SyncInv
  <2>3. Cardinality(mine) = 1
    BY <2>2, FS_Singleton
  <2> QED
    BY <1>2, <2>3 DEF Awaited, IsFor
<1>3. CASE ~Awaited(c)
  <2>1. mine = {}
    BY <1>1, <1>3 DEF SyncInv
  <2>2. Cardinality(mine) = 0
    BY <2>1, FS_EmptySet
  <2> QED
    BY <1>3, <2>2 DEF Awaited, IsFor
<1> QED
  BY <1>2, <1>3

\* A synchronous caller is blocked exactly while one request of its own is
\* outstanding: its sync_completion is neither written after the caller has
\* returned nor waited for in vain (wait_sync_completion, free_completions,
\* zookeeper_process), whatever threads, errors and reconnections do.
THEOREM SyncCallersServed == Spec => []SyncCallersWait
<1>1. Init => SyncInv
  BY SyncInit
<1>2. TypeInv /\ SessionInv /\ TmpListInv /\ SyncInv /\ [Next]_vars => SyncInv'
  BY ListsEffect, SyncPreserved
<1> QED
  BY <1>1, <1>2, SyncImplies, SpecListsInv, PTL DEF Spec

-----------------------------------------------------------------------------
(* The refinement of RequestLedger.                                        *)

\* The requests that are open in the ledger are the latest ones.
open == {outstanding[i].n : i \in DOMAIN outstanding}

\* A list numbered from a on has the numbers after a.
LEMMA NumberedFrom ==
    ASSUME NEW o \in Seq(Request), NEW a \in Nat, \A i \in 1..Len(o) : o[i].n = a + i
    PROVE  {o[i].n : i \in DOMAIN o} = (a + 1)..(a + Len(o))
<1> DEFINE n == Len(o)
<1>1. DOMAIN o = 1..n /\ n \in Nat /\ \A i \in 1..n : o[i].n = a + i
  BY LenProperties
<1> HIDE DEF n
<1>2. \A i \in 1..n : a + i \in (a + 1)..(a + n)
  BY <1>1
<1>3. ASSUME NEW m \in (a + 1)..(a + n)
      PROVE  \E i \in 1..n : o[i].n = m
  <2>1. m - a \in 1..n /\ a + (m - a) = m
    BY <1>1
  <2> QED
    BY <1>1, <2>1
<1>4. {o[i].n : i \in DOMAIN o} \subseteq (a + 1)..(a + n)
  BY <1>1, <1>2
<1>5. (a + 1)..(a + n) \subseteq {o[i].n : i \in DOMAIN o}
  BY <1>1, <1>3
<1> QED
  BY <1>4, <1>5 DEF n

\* The initial state is the ledger's.
LEMMA LedgerInit == Init => Ledger!Init
<1> SUFFICES ASSUME Init PROVE Ledger!Init
  OBVIOUS
<1>1. outstanding = <<>> /\ log = <<>> /\ issued = <<>> /\ told = "CONNECTING"
  BY DEF Init, outstanding, log, told, reported
<1> QED
  BY <1>1 DEF Ledger!Init

\* Every step of the threads is a step of the ledger or none.
LEMMA LedgerStep ==
    TypeInv /\ TypeInv' /\ ListsInv /\ ListsInv' /\ ListsStep => [Ledger!Next]_(Ledger!vars)
<1> SUFFICES ASSUME TypeInv, TypeInv', ListsInv, ListsInv', ListsStep
             PROVE  Ledger!Next \/ UNCHANGED <<issued, open, log, told>>
  BY DEF Ledger!vars, open
<1>0. /\ Len(issued) \in Nat /\ Len(outstanding) \in Nat /\ answered \in Nat
      /\ answered = Len(issued) - Len(outstanding)
      /\ open = (answered + 1)..Len(issued)
      /\ open' = (answered' + 1)..Len(issued')
  <2>1. /\ Len(issued) \in Nat /\ Len(outstanding) \in Nat /\ answered \in Nat
        /\ answered = Len(issued) - Len(outstanding) /\ outstanding \in Seq(Request)
    BY ListTypes DEF ListsInv, WindowInv, answered
  <2>2. open = (answered + 1)..(answered + Len(outstanding))
    BY <2>1, NumberedFrom DEF ListsInv, WindowInv, open
  <2>3. /\ Len(issued') \in Nat /\ Len(outstanding') \in Nat /\ answered' \in Nat
        /\ answered' = Len(issued') - Len(outstanding') /\ outstanding' \in Seq(Request)
    <3>1. outstanding' \in Seq(Request) /\ issued' \in Seq(Issue)
      BY ConcatProperties DEF TypeInv, TypeOK, QueueTypeOK, outstanding
    <3>2. answered' = Len(issued') - Len(outstanding')
      BY DEF answered
    <3>3. Len(issued') \in Nat /\ Len(outstanding') \in Nat /\ Len(outstanding') <= Len(issued')
      BY <3>1, LenProperties DEF ListsInv, WindowInv
    <3> HIDE DEF answered
    <3> QED
      BY <3>1, <3>2, <3>3
  <2>4. open' = (answered' + 1)..(answered' + Len(outstanding'))
    BY <2>3, NumberedFrom DEF ListsInv, WindowInv, open
  <2>5. /\ answered + Len(outstanding) = Len(issued)
        /\ answered' + Len(outstanding') = Len(issued')
    BY <2>1, <2>3
  <2> QED
    BY <2>1, <2>2, <2>4, <2>5
<1>1. CASE ListsKept
  BY <1>1 DEF ListsKept, open
<1>2. ASSUME NEW r \in Request, ListsAccept(r) PROVE Ledger!Next
  <2>1. /\ issued' = Append(issued, [kind |-> r.kind, by |-> r.by])
        /\ r.kind \in {"sync", "async", "ping"} /\ r.by \in Callers \cup {IO}
        /\ UNCHANGED <<log, told>>
    BY <1>2 DEF ListsAccept, Request
  <2>2. Len(issued') = Len(issued) + 1 /\ Len(outstanding') = Len(outstanding) + 1
    BY <1>2, ListTypes, AppendProperties DEF ListsAccept, Request, Issue
  <2>3. answered' = answered
    BY <1>0, <2>2 DEF answered
  <2>4. open' = open \cup {Len(issued) + 1}
    BY <1>0, <2>2, <2>3
  <2>5. Ledger!Accept(r.kind, r.by)
    BY <2>1, <2>4 DEF Ledger!Accept, open
  <2> QED
    BY <2>1, <2>5 DEF Ledger!Next
<1>3. ASSUME NEW c \in Codes, ListsAnswer(c) PROVE Ledger!Next
  <2> DEFINE r == Head(outstanding)
  <2>0. PICK n \in Nat : n = answered + 1
    BY <1>0
  <2>1. /\ r = outstanding[1] /\ r \in Request /\ issued' = issued
        /\ Len(outstanding) >= 1 /\ Len(outstanding') = Len(outstanding) - 1
    BY <1>3, ListTypes, HeadTailProperties, EmptySeq DEF ListsAnswer
  <2>2. /\ r.n = n /\ r.kind = issued[n].kind /\ answered' = answered + 1
    BY <1>0, <2>0, <2>1 DEF ListsInv, WindowInv, answered
  <2>3. n \in open /\ (\A m \in open : n <= m) /\ open' = open \ {n}
    BY <1>0, <2>0, <2>1, <2>2
  <2>4. UNCHANGED told
    BY <1>3 DEF ListsAnswer
  <2>5. CASE r.kind = "async"
    <3>1. log' = Append(log, [kind |-> "reply", n |-> n, what |-> c])
      BY <1>3, <2>2, <2>5 DEF ListsAnswer, ReplyEntry
    <3>2. Ledger!Allowed(c)
      BY <1>3 DEF ListsAnswer, Ledger!Allowed
    <3> HIDE DEF r
    <3>3. Ledger!AnswerAsync(n, c)
      BY <2>1, <2>2, <2>3, <2>4, <2>5, <3>1, <3>2 DEF Ledger!AnswerAsync, open
    <3> QED
      BY <2>3, <3>3 DEF Ledger!Next, open
  <2>6. CASE r.kind # "async"
    <3>1. UNCHANGED log
      BY <1>3, <2>6 DEF ListsAnswer
    <3> HIDE DEF r
    <3>2. Ledger!AnswerOther(n)
      BY <2>1, <2>2, <2>3, <2>4, <2>6, <3>1 DEF Ledger!AnswerOther, open
    <3>3. \E m \in open : Ledger!AnswerOther(m)
      BY <2>3, <3>2
    <3> QED
      BY <3>3 DEF Ledger!Next, open
  <2> QED
    BY <2>5, <2>6
<1>4. ASSUME NEW e \in Entry, ListsTell(e) PROVE Ledger!Next
  <2>1. log' = Append(log, e) /\ UNCHANGED <<issued, open>>
    BY <1>4 DEF ListsTell, open
  <2>2. CASE e = WatchEntry /\ told = "CONNECTED" /\ UNCHANGED told
    <3>1. Ledger!Notify
      BY <2>1, <2>2 DEF Ledger!Notify, WatchEntry, open
    <3> QED
      BY <3>1 DEF Ledger!Next
  <2>3. ASSUME NEW s \in States, e = SessionEntry(s), Follows(s), told' = s PROVE Ledger!Next
    <3>1. Ledger!SessionChange(s)
      BY <2>1, <2>3 DEF Ledger!SessionChange, SessionEntry, Follows, open
    <3>2. s \in {"CONNECTED", "CONNECTING", "EXPIRED_SESSION"}
      BY <2>3 DEF Follows
    <3> QED
      BY <3>1, <3>2 DEF Ledger!Next
  <2> QED
    BY <1>4, <2>2, <2>3 DEF ListsTell
<1> QED
  BY <1>1, <1>2, <1>3, <1>4 DEF ListsStep

\* The IO thread, the completion thread and the callers, with their queues,
\* connections and errors, implement RequestLedger: every step of theirs is
\* one entry in the ledger, or shows nothing to a caller.
THEOREM ThreadsImplementLedger == Spec => LedgerSpec
<1>1. Init => Ledger!Init
  BY LedgerInit
<1>2. /\ TypeInv /\ SessionInv /\ TmpListInv /\ ListsInv /\ TypeInv' /\ ListsInv'
      /\ [Next]_vars
      => [Ledger!Next]_(Ledger!vars)
  BY ListsEffect, LedgerStep
<1> QED
  BY <1>1, <1>2, SpecListsInv, PTL DEF Spec, LedgerSpec, Ledger!Spec

-----------------------------------------------------------------------------
(* Frames.                                                                 *)

\* The frames of requests and replies have a number, those of SetWatches and
\* of watch events have none.
Sound == {f \in Frame : f.n = 0 <=> f.xid \in {WATCHER_EVENT_XID, SET_WATCHES_XID}}

\* Replies with the xid of their request: it was carried out.
Truthful(done) == {f \in Sound : f.n # 0 /\ f.xid # NO_XID => f.n \in done}

\* A request never has the xid of a misreply.
Sendable == {r \in Request : r.xid # NO_XID}

FramesInv ==
    /\ \A c \in Callers : call[c].xid \in Nat
    /\ sent_requests \in Seq(Sendable)
    /\ to_send \in Seq(Sound) /\ c2s \in Seq(Sound)
    /\ s2c \in Seq(Truthful(executed))

\* A list is taken apart at its head.
LEMMA Unlisted ==
    ASSUME NEW S, NEW s \in Seq(S), s # <<>>
    PROVE  Head(s) \in S /\ Tail(s) \in Seq(S)
  BY HeadTailProperties

\* A list is cut in two.
LEMMA Cut ==
    ASSUME NEW S, NEW s \in Seq(S), NEW k \in 1..Len(s)
    PROVE  /\ SubSeq(s, 1, k) \in Seq(S) /\ SubSeq(s, k + 1, Len(s)) \in Seq(S)
           /\ SubSeq(s, 1, k) \o SubSeq(s, k + 1, Len(s)) = s
<1> DEFINE p == SubSeq(s, 1, k)
           q == SubSeq(s, k + 1, Len(s))
           n == Len(s)
<1>1. n \in Nat /\ k \in 1..n /\ \A i \in 1..n : s[i] \in S
  BY LenProperties, ElementOfSeq
<1>2. /\ p \in Seq(S) /\ Len(p) = k /\ \A i \in 1..k : p[i] = s[i]
  <2>1. \A i \in 1..k : s[i] \in S
    BY <1>1
  <2>2. p \in Seq(S) /\ Len(p) = (IF 1 <= k THEN k - 1 + 1 ELSE 0)
        /\ \A i \in 1..(k - 1 + 1) : p[i] = s[1 + i - 1]
    BY <1>1, <2>1, SubSeqProperties
  <2> HIDE DEF p, n
  <2>3. k - 1 + 1 = k /\ 1 <= k /\ \A i \in 1..k : 1 + i - 1 = i
    BY <1>1
  <2> QED
    BY <2>2, <2>3
<1>3. /\ q \in Seq(S) /\ Len(q) = n - k /\ \A i \in 1..(n - k) : q[i] = s[k + i]
  <2>1. \A i \in (k + 1)..n : s[i] \in S
    BY <1>1
  <2>2. q \in Seq(S) /\ Len(q) = (IF k + 1 <= n THEN n - (k + 1) + 1 ELSE 0)
        /\ \A i \in 1..(n - (k + 1) + 1) : q[i] = s[k + 1 + i - 1]
    BY <1>1, <2>1, SubSeqProperties
  <2> HIDE DEF q, n
  <2>3. /\ n - (k + 1) + 1 = n - k /\ \A i \in 1..(n - k) : k + 1 + i - 1 = k + i
    BY <1>1
  <2>4. Len(q) = n - k
    <3>1. CASE k + 1 <= n
      BY <2>2, <2>3, <3>1
    <3>2. CASE ~(k + 1 <= n)
      BY <1>1, <2>2, <3>2
    <3> QED
      BY <3>1, <3>2
  <2> QED
    BY <2>2, <2>3, <2>4
<1>0. Len(s) = n
  OBVIOUS
<1> HIDE DEF p, q, n
<1>4. p \o q \in Seq(S) /\ Len(p \o q) = n
  <2>1. p \o q \in Seq(S) /\ Len(p \o q) = Len(p) + Len(q)
    BY <1>2, <1>3, ConcatProperties
  <2> QED
    BY <1>1, <1>2, <1>3, <2>1
<1>5. ASSUME NEW i \in 1..n PROVE (p \o q)[i] = s[i]
  <2>0. (p \o q)[i] = IF i <= k THEN p[i] ELSE q[i - k]
    <3>1. \A j \in 1..(Len(p) + Len(q)) : (p \o q)[j] = IF j <= Len(p) THEN p[j] ELSE q[j - Len(p)]
      BY <1>2, <1>3, ConcatProperties
    <3>2. i \in 1..(Len(p) + Len(q))
      BY <1>1, <1>2, <1>3
    <3> QED
      BY <1>2, <3>1, <3>2
  <2>1. CASE i <= k
    BY <1>1, <1>2, <2>0, <2>1
  <2>2. CASE i > k
    <3>1. i - k \in 1..(n - k) /\ k + (i - k) = i
      BY <1>1, <2>2
    <3>2. q[i - k] = s[i]
      BY <1>3, <3>1
    <3> QED
      BY <1>1, <2>0, <2>2, <3>2
  <2>3. i \in Int /\ k \in Int
    BY <1>1
  <2>4. i <= k \/ i > k
    BY <2>3
  <2> QED
    BY <2>1, <2>2, <2>4
<1>6. p \o q = s
  BY <1>0, <1>4, <1>5
<1> QED
  BY <1>2, <1>3, <1>6 DEF p, q

\* More requests carried out: the replies stay truthful.
LEMMA TruthfulGrows ==
    ASSUME NEW d, NEW e, d \subseteq e, NEW s \in Seq(Truthful(d))
    PROVE  s \in Seq(Truthful(e))
<1>1. Truthful(d) \subseteq Truthful(e)
  BY DEF Truthful
<1> QED
  BY <1>1, SeqMonotonic

\* A new request keeps the lists sound.
LEMMA AddSound ==
    ASSUME NEW r \in Sendable, r.n # 0, r.xid \notin {WATCHER_EVENT_XID, SET_WATCHES_XID},
           AddRequest(r), sent_requests \in Seq(Sendable), to_send \in Seq(Sound)
    PROVE  sent_requests' \in Seq(Sendable) /\ to_send' \in Seq(Sound)
<1>1. [xid |-> r.xid, n |-> r.n] \in Sound
  BY DEF Sendable, Request, Sound, Frame
<1> QED
  BY <1>1, AppendProperties DEF AddRequest

\* There are no frames in the initial state.
LEMMA FramesInit == Init => FramesInv
<1> SUFFICES ASSUME Init PROVE FramesInv
  OBVIOUS
<1>1. \A S : <<>> \in Seq(S)
  BY EmptySeq
<1>2. \A c \in Callers : call[c].xid \in Nat
  BY DEF Init, NoCall
<1> QED
  BY <1>1, <1>2 DEF Init, FramesInv

\* Every step keeps the frames sound, and what is carried out stays so.
LEMMA FramesStep == TypeInv /\ FramesInv /\ [Next]_vars => FramesInv' /\ executed \subseteq executed'
<1> SUFFICES ASSUME TypeInv, FramesInv, [Next]_vars PROVE FramesInv' /\ executed \subseteq executed'
  OBVIOUS
<1> USE DEF zhVars, netVars, queueVars, ioVars, callerVars, countVars
<1>0. CallerTypeOK /\ FramesInv /\ Len(issued) \in Nat
  BY LenProperties DEF TypeInv, TypeOK, QueueTypeOK
<1>1. ASSUME NEW c \in Callers, NEW kind \in {"sync", "async"}, StartCall(c, kind) PROVE FramesInv' /\ executed \subseteq executed'
  <2>1. nextXid \in Nat /\ \A d \in Callers : call[d].xid \in Nat
    BY <1>0 DEF CallerTypeOK, FramesInv
  <2>2. \A d \in Callers : call'[d].xid \in Nat
    <3>1. call' = [call EXCEPT ![c] = [kind |-> kind, xid |-> nextXid]]
      BY <1>1 DEF StartCall
    <3>2. call \in [Callers -> [kind : {"sync", "async"}, xid : Int]]
      BY <1>0 DEF CallerTypeOK
    <3> QED
      BY <2>1, <3>1, <3>2
  <2> QED
    BY <1>1, <2>2 DEF StartCall, FramesInv
<1>2. ASSUME NEW c \in Callers, Enqueue(c) PROVE FramesInv' /\ executed \subseteq executed'
  <2> DEFINE r == [xid |-> call[c].xid, n |-> Len(issued) + 1, kind |-> call[c].kind, by |-> c]
  <2>1. r \in Request /\ r.xid \in Nat /\ r.n # 0
    BY <1>0 DEF CallerTypeOK, Request, FramesInv
  <2>2. r \in Sendable /\ r.xid \notin {WATCHER_EVENT_XID, SET_WATCHES_XID}
    BY <2>1 DEF Sendable, NO_XID, WATCHER_EVENT_XID, SET_WATCHES_XID
  <2>3. AddRequest(r) /\ UNCHANGED <<call, c2s, s2c, executed>>
    BY <1>2 DEF Enqueue
  <2> HIDE DEF r
  <2> QED
    BY <2>1, <2>2, <2>3, AddSound DEF FramesInv
<1>3. ASSUME NEW c \in Callers, WakeIO(c) PROVE FramesInv' /\ executed \subseteq executed'
  <2>1. \A d \in Callers : call'[d].xid \in Nat
    <3>1. CASE call[c].kind = "sync"
      BY <1>0, <1>3, <3>1 DEF WakeIO, Waits, FramesInv
    <3>2. CASE call[c].kind # "sync"
      <4>1. call' = [call EXCEPT ![c] = NoCall] /\ NoCall.xid \in Nat
        BY <1>3, <3>2 DEF WakeIO, Returns, NoCall
      <4>2. call \in [Callers -> [kind : {"sync", "async"}, xid : Int]]
        BY <1>0 DEF CallerTypeOK
      <4> QED
        BY <4>1, <4>2 DEF FramesInv
    <3> QED
      BY <3>1, <3>2
  <2> QED
    BY <1>3, <2>1 DEF WakeIO, FramesInv
<1>4. ASSUME NEW c \in Callers, SyncReturn(c) PROVE FramesInv' /\ executed \subseteq executed'
  BY <1>0, <1>4 DEF SyncReturn, Returns, NoCall, CallerTypeOK, FramesInv
<1>5. ASSUME RunCallback PROVE FramesInv' /\ executed \subseteq executed'
  BY <1>0, <1>5 DEF RunCallback, FramesInv
<1>6. ASSUME CallbackReturns PROVE FramesInv' /\ executed \subseteq executed'
  BY <1>0, <1>6 DEF CallbackReturns, FramesInv
<1>7. ASSUME WrapAddress PROVE FramesInv' /\ executed \subseteq executed'
  BY <1>0, <1>7 DEF WrapAddress, FramesInv
<1>8. ASSUME ConnectStart PROVE FramesInv' /\ executed \subseteq executed'
  BY <1>0, <1>8 DEF ConnectStart, Connecting, AskInterest, FramesInv
<1>9. ASSUME ConnectNow PROVE FramesInv' /\ executed \subseteq executed'
  BY <1>0, <1>9 DEF ConnectNow, Connecting, AskInterest, FramesInv
<1>10. ASSUME ConnectRefused PROVE FramesInv' /\ executed \subseteq executed'
  BY <1>0, <1>10 DEF ConnectRefused, Connecting, Fail, FramesInv
<1>11. ASSUME ReceiveTimeout PROVE FramesInv' /\ executed \subseteq executed'
  BY <1>0, <1>11 DEF ReceiveTimeout, Fail, FramesInv
<1>12. ASSUME DecidePing PROVE FramesInv' /\ executed \subseteq executed'
  BY <1>0, <1>12 DEF DecidePing, FramesInv
<1>13. ASSUME SendPing PROVE FramesInv' /\ executed \subseteq executed'
  <2> DEFINE r == [xid |-> PING_XID, n |-> Len(issued) + 1, kind |-> "ping", by |-> IO]
  <2>1. r \in Request /\ r.n # 0
    BY <1>0 DEF Request, PING_XID
  <2>2. r \in Sendable /\ r.xid \notin {WATCHER_EVENT_XID, SET_WATCHES_XID}
    BY <2>1 DEF Sendable, NO_XID, PING_XID, WATCHER_EVENT_XID, SET_WATCHES_XID
  <2>3. AddRequest(r) /\ UNCHANGED <<call, c2s, s2c, executed>>
    BY <1>13 DEF SendPing
  <2> HIDE DEF r
  <2> QED
    BY <2>1, <2>2, <2>3, AddSound DEF FramesInv
<1>14. ASSUME Interest PROVE FramesInv' /\ executed \subseteq executed'
  BY <1>0, <1>14 DEF Interest, AskInterest, FramesInv
<1>15. ASSUME ProcessNothing PROVE FramesInv' /\ executed \subseteq executed'
  BY <1>0, <1>15 DEF ProcessNothing, TopOfLoop, FramesInv
<1>16. ASSUME HandshakeFails PROVE FramesInv' /\ executed \subseteq executed'
  BY <1>0, <1>16 DEF HandshakeFails, handshakeDue, Fail, FramesInv
<1>17. ASSUME PrimeConnection PROVE FramesInv' /\ executed \subseteq executed'
  BY <1>0, <1>17 DEF PrimeConnection, handshakeDue, TopOfLoop, FramesInv
<1>18. ASSUME FlushSendQueue PROVE FramesInv' /\ executed \subseteq executed'
  <2>1. \A k \in 1..Len(to_send) : /\ c2s \o SubSeq(to_send, 1, k) \in Seq(Sound)
                                    /\ SubSeq(to_send, k + 1, Len(to_send)) \in Seq(Sound)
    BY Cut, ConcatProperties DEF FramesInv
  <2>2. c2s' \in Seq(Sound) /\ to_send' \in Seq(Sound)
    <3>1. c2s \in Seq(Sound) /\ to_send \in Seq(Sound)
      BY DEF FramesInv
    <3> QED
      BY <1>18, <2>1, <3>1 DEF FlushSendQueue
  <2>3. UNCHANGED <<call, sent_requests, s2c, executed>>
    BY <1>18 DEF FlushSendQueue
  <2> QED
    BY <2>2, <2>3 DEF FramesInv
<1>19. ASSUME ReadError PROVE FramesInv' /\ executed \subseteq executed'
  BY <1>0, <1>19 DEF ReadError, Fail, FramesInv
<1>20. ASSUME ReadPrimerAccepted PROVE FramesInv' /\ executed \subseteq executed'
  <2>1. [xid |-> SET_WATCHES_XID, n |-> 0] \in Sound
    BY DEF Sound, Frame, SET_WATCHES_XID
  <2>2. <<[xid |-> SET_WATCHES_XID, n |-> 0]>> \in Seq(Sound)
    BY <2>1
  <2>3. to_send' \in Seq(Sound)
    BY <1>20, <2>2, ConcatProperties DEF ReadPrimerAccepted, FramesInv
  <2>4. UNCHANGED <<call, sent_requests, c2s, s2c, executed>>
    BY <1>20 DEF ReadPrimerAccepted
  <2> QED
    BY <2>3, <2>4 DEF FramesInv
<1>21. ASSUME ReadPrimerExpired PROVE FramesInv' /\ executed \subseteq executed'
  BY <1>0, <1>21 DEF ReadPrimerExpired, Fail, FramesInv
<1>22. ASSUME ReadWatchEvent PROVE FramesInv' /\ executed \subseteq executed'
  <2>1. s2c' \in Seq(Truthful(executed))
    BY <1>22, Unlisted DEF ReadWatchEvent, ReadFrame, FramesInv
  <2>2. UNCHANGED <<call, sent_requests, to_send, c2s, executed>>
    BY <1>22 DEF ReadWatchEvent, ReadFrame
  <2> QED
    BY <2>1, <2>2 DEF FramesInv
<1>23. ASSUME ReadSetWatches PROVE FramesInv' /\ executed \subseteq executed'
  <2>1. s2c' \in Seq(Truthful(executed))
    BY <1>23, Unlisted DEF ReadSetWatches, ReadFrame, FramesInv
  <2>2. UNCHANGED <<call, sent_requests, to_send, c2s, executed>>
    BY <1>23 DEF ReadSetWatches, ReadFrame
  <2> QED
    BY <2>1, <2>2 DEF FramesInv
<1>24. ASSUME ReadReply PROVE FramesInv' /\ executed \subseteq executed'
  <2>1. s2c' \in Seq(Truthful(executed))
    BY <1>24, Unlisted DEF ReadReply, ReadFrame, FramesInv
  <2>2. sent_requests' \in Seq(Sendable)
    <3>1. Tail(sent_requests) \in Seq(Sendable)
      BY <1>24, Unlisted DEF ReadReply, FramesInv
    <3> QED
      BY <1>24, <3>1 DEF ReadReply, FramesInv
  <2>3. UNCHANGED <<call, to_send, c2s, executed>>
    BY <1>24 DEF ReadReply, ReadFrame
  <2> QED
    BY <2>1, <2>2, <2>3 DEF FramesInv
<1>25. ASSUME HandleErrorClose PROVE FramesInv' /\ executed \subseteq executed'
  <2>1. c2s' = <<>> /\ s2c' = <<>> /\ \A S : <<>> \in Seq(S)
    BY <1>25, EmptySeq DEF HandleErrorClose
  <2>2. UNCHANGED <<call, sent_requests, to_send, executed>>
    BY <1>25 DEF HandleErrorClose
  <2> QED
    BY <2>1, <2>2 DEF FramesInv
<1>26. ASSUME CleanupBufs PROVE FramesInv' /\ executed \subseteq executed'
  <2>1. to_send' = <<>> /\ sent_requests' = <<>> /\ \A S : <<>> \in Seq(S)
    BY <1>26, EmptySeq DEF CleanupBufs, FreeSendQueue
  <2>2. UNCHANGED <<call, c2s, s2c, executed>>
    BY <1>26 DEF CleanupBufs
  <2> QED
    BY <2>1, <2>2 DEF FramesInv
<1>27. ASSUME FreeCompletion PROVE FramesInv' /\ executed \subseteq executed'
  BY <1>0, <1>27 DEF FreeCompletion, FramesInv
<1>28. ASSUME HandleErrorReset PROVE FramesInv' /\ executed \subseteq executed'
  BY <1>0, <1>28 DEF HandleErrorReset, FramesInv
<1>29. ASSUME LinkEstablished PROVE FramesInv' /\ executed \subseteq executed'
  BY <1>0, <1>29 DEF LinkEstablished, clientVars, FramesInv
<1>30. ASSUME LinkFails PROVE FramesInv' /\ executed \subseteq executed'
  BY <1>0, <1>30 DEF LinkFails, clientVars, FramesInv
<1>31. ASSUME TimePasses PROVE FramesInv' /\ executed \subseteq executed'
  BY <1>0, <1>31 DEF TimePasses, clientVars, FramesInv
<1>32. ASSUME ServerAcceptsSession PROVE FramesInv' /\ executed \subseteq executed'
  BY <1>0, <1>32 DEF ServerAcceptsSession, clientVars, FramesInv
<1>33. ASSUME ServerExpiresSession PROVE FramesInv' /\ executed \subseteq executed'
  BY <1>0, <1>33 DEF ServerExpiresSession, clientVars, FramesInv
<1>34. ASSUME ServerReplies PROVE FramesInv' /\ executed \subseteq executed'
  <2> DEFINE f == Head(c2s)
  <2>1. f \in Sound /\ Tail(c2s) \in Seq(Sound)
    BY <1>34, Unlisted DEF ServerReplies, FramesInv
  <2>2. c2s' = Tail(c2s) /\ s2c' = Append(s2c, f) /\ executed' = executed \cup {f.n}
    BY <1>34 DEF ServerReplies
  <2> HIDE DEF f
  <2>3. f \in Truthful(executed') /\ executed \subseteq executed'
    BY <2>1, <2>2 DEF Truthful
  <2>4. s2c \in Seq(Truthful(executed'))
    BY <2>3, TruthfulGrows DEF FramesInv
  <2>5. s2c' \in Seq(Truthful(executed'))
    BY <2>2, <2>3, <2>4, AppendProperties
  <2>6. UNCHANGED <<call, sent_requests, to_send>>
    BY <1>34 DEF ServerReplies, clientVars
  <2> QED
    BY <2>1, <2>2, <2>3, <2>5, <2>6 DEF FramesInv
<1>35. ASSUME ServerMisreplies PROVE FramesInv' /\ executed \subseteq executed'
  <2> DEFINE f == Head(c2s)
             g == [f EXCEPT !.xid = NO_XID]
  <2>1. f \in Sound /\ Tail(c2s) \in Seq(Sound) /\ f.n # 0
    BY <1>35, Unlisted DEF ServerMisreplies, FramesInv
  <2>2. g \in Truthful(executed)
    BY <2>1 DEF Truthful, Sound, Frame, NO_XID, WATCHER_EVENT_XID, SET_WATCHES_XID
  <2>3. c2s' = Tail(c2s) /\ s2c' = Append(s2c, g)
    BY <1>35 DEF ServerMisreplies
  <2> HIDE DEF g
  <2>4. s2c' \in Seq(Truthful(executed))
    BY <2>2, <2>3, AppendProperties DEF FramesInv
  <2>5. UNCHANGED <<call, sent_requests, to_send, executed>>
    BY <1>35 DEF ServerMisreplies, clientVars
  <2> QED
    BY <2>1, <2>3, <2>4, <2>5 DEF FramesInv
<1>36. ASSUME ServerNotifies PROVE FramesInv' /\ executed \subseteq executed'
  <2>1. [xid |-> WATCHER_EVENT_XID, n |-> 0] \in Truthful(executed)
    BY DEF Truthful, Sound, Frame, WATCHER_EVENT_XID
  <2>2. s2c' \in Seq(Truthful(executed))
    BY <1>36, <2>1, AppendProperties DEF ServerNotifies, FramesInv
  <2>3. UNCHANGED <<call, sent_requests, to_send, c2s, executed>>
    BY <1>36 DEF ServerNotifies, clientVars
  <2> QED
    BY <2>2, <2>3 DEF FramesInv
<1>37. ASSUME UNCHANGED vars PROVE FramesInv' /\ executed \subseteq executed'
  BY <1>0, <1>37 DEF vars, FramesInv
<1> QED
  BY <1>1, <1>2, <1>3, <1>4, <1>5, <1>6, <1>7, <1>8, <1>9, <1>10, <1>11, <1>12, <1>13, <1>14, <1>15, <1>16, <1>17, <1>18, <1>19, <1>20, <1>21, <1>22, <1>23, <1>24, <1>25, <1>26, <1>27, <1>28, <1>29, <1>30, <1>31, <1>32, <1>33, <1>34, <1>35, <1>36, <1>37
     DEF Next, CallerStep, do_completion, do_io, zookeeper_interest, zookeeper_process,
         handle_error, Environment
-----------------------------------------------------------------------------
(* Numbers on the wire.                                                    *)

\* g has the numbers of f, in order if f has them in order.
Renumbers(f, g) == Numbers(g) = Numbers(f) /\ (Ascending(f) => Ascending(g))

\* Only the numbers count.
LEMMA SameNumbers ==
    ASSUME NEW f, NEW g, DOMAIN g = DOMAIN f, \A i \in DOMAIN f : g[i].n = f[i].n
    PROVE  Renumbers(f, g)
<1>1. Numbers(g) = Numbers(f)
  BY DEF Numbers
<1>2. Ascending(f) => Ascending(g)
  BY DEF Ascending
<1> QED
  BY <1>1, <1>2 DEF Renumbers

\* A frame without a number may be anywhere.
LEMMA Unnumbered ==
    ASSUME NEW S, NEW a \in Seq(S), NEW b \in Seq(S), NEW z \in S, z.n = 0
    PROVE  Renumbers(a \o b, Append(a, z) \o b)
<1> DEFINE f == a \o b
           g == Append(a, z) \o b
           k == Len(a)
           m == Len(b)
<1>1. k \in Nat /\ m \in Nat
  BY LenProperties
<1>2. /\ DOMAIN f = 1..(k + m) /\ DOMAIN g = 1..(k + m + 1)
      /\ \A i \in 1..k : f[i] = g[i]
      /\ g[k + 1] = z
      /\ \A i \in (k + 1)..(k + m) : f[i] = g[i + 1]
  OBVIOUS
<1> HIDE DEF f, g, k, m
<1>3. \A i \in DOMAIN f : (i \in DOMAIN g /\ g[i] = f[i]) \/ (i + 1 \in DOMAIN g /\ g[i + 1] = f[i])
  <2> SUFFICES ASSUME NEW i \in 1..(k + m)
               PROVE  \/ i \in 1..(k + m + 1) /\ g[i] = f[i]
                      \/ i + 1 \in 1..(k + m + 1) /\ g[i + 1] = f[i]
    BY <1>2
  <2>1. i \in 1..(k + m + 1) /\ i + 1 \in 1..(k + m + 1)
    BY <1>1
  <2>2. i \in 1..k \/ i \in (k + 1)..(k + m)
    BY <1>1
  <2> QED
    BY <1>2, <2>1, <2>2
<1>4. ASSUME NEW i \in DOMAIN g, i # k + 1
      PROVE  \/ i \in 1..k /\ i \in DOMAIN f /\ g[i] = f[i]
             \/ i > k + 1 /\ i - 1 \in DOMAIN f /\ g[i] = f[i - 1]
  <2>1. \/ i \in 1..k /\ i \in 1..(k + m)
        \/ i > k + 1 /\ i - 1 \in (k + 1)..(k + m) /\ (i - 1) + 1 = i
    BY <1>1, <1>2, <1>4
  <2>2. (k + 1)..(k + m) \subseteq 1..(k + m)
    BY <1>1
  <2> QED
    BY <1>2, <2>1, <2>2
<1>5. Numbers(g) = Numbers(f)
  <2>1. Numbers(g) \subseteq Numbers(f)
    BY <1>2, <1>4 DEF Numbers
  <2>2. Numbers(f) \subseteq Numbers(g)
    BY <1>3 DEF Numbers
  <2> QED
    BY <2>1, <2>2
<1>6. ASSUME Ascending(f), NEW i \in DOMAIN g, NEW j \in DOMAIN g, i < j, g[i].n # 0, g[j].n # 0
      PROVE  g[i].n < g[j].n
  <2>1. i # k + 1 /\ j # k + 1
    BY <1>2, <1>6
  <2>2. i \in Int /\ j \in Int
    BY <1>2
  <2>3. \E h \in DOMAIN f, l \in DOMAIN f : h < l /\ f[h] = g[i] /\ f[l] = g[j]
    <3>1. CASE i \in 1..k /\ i \in DOMAIN f /\ g[i] = f[i]
      <4>1. CASE j \in 1..k /\ j \in DOMAIN f /\ g[j] = f[j]
        BY <1>6, <3>1, <4>1
      <4>2. CASE j > k + 1 /\ j - 1 \in DOMAIN f /\ g[j] = f[j - 1]
        <5>1. i < j - 1
          BY <1>1, <2>2, <3>1, <4>2
        <5> QED
          BY <3>1, <4>2, <5>1
      <4> QED
        BY <1>4, <2>1, <4>1, <4>2
    <3>2. CASE i > k + 1 /\ i - 1 \in DOMAIN f /\ g[i] = f[i - 1]
      <4>1. i - 1 < j - 1 /\ j \notin 1..k
        BY <1>1, <1>6, <2>2, <3>2
      <4>2. j - 1 \in DOMAIN f /\ g[j] = f[j - 1]
        BY <1>4, <2>1, <4>1
      <4> QED
        BY <3>2, <4>1, <4>2
    <3> QED
      BY <1>4, <2>1, <3>1, <3>2
  <2> QED
    BY <1>6, <2>3 DEF Ascending
<1> QED
  BY <1>5, <1>6 DEF Renumbers, Ascending, f, g

\* A frame with a higher number goes behind the others.
LEMMA NumberAppended ==
    ASSUME NEW S, NEW f \in Seq(S), NEW e \in S, e.n \in Nat \ {0}, Ascending(f),
           \A n \in Numbers(f) : n < e.n
    PROVE  Numbers(Append(f, e)) = Numbers(f) \cup {e.n} /\ Ascending(Append(f, e))
<1> DEFINE g == Append(f, e)
           m == Len(f)
<1>1. m \in Nat
  BY LenProperties
<1>2. DOMAIN f = 1..m /\ DOMAIN g = 1..(m + 1) /\ g[m + 1] = e /\ \A i \in 1..m : g[i] = f[i]
  OBVIOUS
<1> HIDE DEF g, m
<1>3. \A i \in DOMAIN g : i = m + 1 \/ i \in DOMAIN f
  BY <1>1, <1>2
<1>4. m + 1 \in DOMAIN g /\ DOMAIN f \subseteq DOMAIN g
  BY <1>1, <1>2
<1>5. Numbers(g) = Numbers(f) \cup {e.n}
  <2>1. Numbers(g) \subseteq Numbers(f) \cup {e.n}
    BY <1>2, <1>3 DEF Numbers
  <2>2. Numbers(f) \cup {e.n} \subseteq Numbers(g)
    BY <1>2, <1>4 DEF Numbers
  <2> QED
    BY <2>1, <2>2
<1>6. ASSUME NEW i \in DOMAIN g, NEW j \in DOMAIN g, i < j, g[i].n # 0, g[j].n # 0
      PROVE  g[i].n < g[j].n
  <2>1. i \in 1..m
    BY <1>1, <1>2, <1>6
  <2>2. CASE j = m + 1
    <3>1. f[i].n \in Numbers(f)
      BY <1>2, <1>6, <2>1 DEF Numbers
    <3> QED
      BY <1>2, <2>1, <2>2, <3>1
  <2>3. CASE j \in 1..m
    BY <1>2, <1>6, <2>1, <2>3 DEF Ascending
  <2> QED
    BY <1>2, <1>3, <2>2, <2>3
<1> QED
  BY <1>5, <1>6 DEF Ascending, g

\* The first frame is taken off: its number is the least.
LEMMA NumberTaken ==
    ASSUME NEW S, NEW f \in Seq(S), f # <<>>, Ascending(f), \A i \in DOMAIN f : f[i].n \in Nat
    PROVE  /\ Ascending(Tail(f))
           /\ Numbers(Tail(f)) = Numbers(f) \ {Head(f).n}
           /\ Head(f).n # 0 => Head(f).n \in Numbers(f) /\ \A n \in Numbers(f) : Head(f).n <= n
<1> DEFINE t == Tail(f)
           h == Head(f)
           m == Len(f)
<1>1. m \in Nat /\ m >= 1
  BY LenProperties, EmptySeq
<1>2. DOMAIN f = 1..m /\ DOMAIN t = 1..(m - 1) /\ h = f[1] /\ \A i \in 1..(m - 1) : t[i] = f[i + 1]
  OBVIOUS
<1>3. \A i \in DOMAIN f : f[i].n \in Nat
  OBVIOUS
<1> HIDE DEF t, h, m
<1>4. \A i \in DOMAIN t : i + 1 \in DOMAIN f /\ i + 1 > 1 /\ t[i] = f[i + 1]
  BY <1>1, <1>2
<1>5. 1 \in DOMAIN f /\ \A i \in DOMAIN f : i = 1 \/ (i > 1 /\ i - 1 \in DOMAIN t /\ f[i] = t[i - 1])
  <2>1. \A i \in 1..m : i = 1 \/ (i > 1 /\ i - 1 \in 1..(m - 1) /\ (i - 1) + 1 = i)
    BY <1>1
  <2> QED
    BY <1>1, <1>2, <2>1
<1>6. Ascending(t)
  <2> SUFFICES ASSUME NEW i \in DOMAIN t, NEW j \in DOMAIN t, i < j, t[i].n # 0, t[j].n # 0
               PROVE  t[i].n < t[j].n
    BY DEF Ascending
  <2>1. i + 1 < j + 1
    BY <1>2
  <2> QED
    BY <1>4, <2>1 DEF Ascending
<1>7. \A i \in DOMAIN f : i > 1 /\ h.n # 0 /\ f[i].n # 0 => h.n < f[i].n
  BY <1>2, <1>5 DEF Ascending
<1>8. Numbers(t) = Numbers(f) \ {h.n}
  <2>1. ASSUME NEW x \in Numbers(t) PROVE x \in Numbers(f) \ {h.n}
    <3>1. PICK i \in DOMAIN t : x = t[i].n /\ x # 0
      BY <2>1 DEF Numbers
    <3>2. i + 1 \in DOMAIN f /\ i + 1 > 1 /\ x = f[i + 1].n
      BY <1>4, <3>1
    <3>3. x # h.n
      BY <1>3, <1>5, <1>7, <1>2, <3>1, <3>2
    <3> QED
      BY <3>1, <3>2, <3>3 DEF Numbers
  <2>2. ASSUME NEW x \in Numbers(f), x # h.n PROVE x \in Numbers(t)
    <3>1. PICK i \in DOMAIN f : x = f[i].n /\ x # 0
      BY <2>2 DEF Numbers
    <3>2. i - 1 \in DOMAIN t /\ x = t[i - 1].n
      BY <1>2, <1>5, <2>2, <3>1
    <3> QED
      BY <3>1, <3>2 DEF Numbers
  <2> QED
    BY <2>1, <2>2
<1>9. ASSUME h.n # 0 PROVE h.n \in Numbers(f) /\ \A n \in Numbers(f) : h.n <= n
  <2>1. h.n \in Numbers(f)
    BY <1>2, <1>5, <1>9 DEF Numbers
  <2>2. ASSUME NEW n \in Numbers(f) PROVE h.n <= n
    <3>1. PICK i \in DOMAIN f : n = f[i].n /\ n # 0
      BY <2>2 DEF Numbers
    <3>2. h.n \in Nat /\ n \in Nat
      BY <1>2, <1>3, <1>5, <3>1
    <3>3. CASE i = 1
      BY <1>2, <3>1, <3>2, <3>3
    <3>4. CASE i > 1
      <4>1. h.n < n
        BY <1>7, <1>9, <3>1, <3>4
      <4> QED
        BY <3>2, <4>1
    <3> QED
      BY <1>5, <3>3, <3>4
  <2> QED
    BY <2>1, <2>2
<1> QED
  BY <1>6, <1>8, <1>9 DEF t, h

-----------------------------------------------------------------------------
(* The wire and the requests.                                              *)

\* The lists are in step: no error is being handled.
settled == ioPc \notin {"close", "cleanup", "free"}

\* The wire carries the requests that are not answered, in their order; it is
\* empty while the requests of the connection that was lost are failed.
WireInv ==
    /\ ioPc = "free" => wire = <<>> /\ sent_requests = <<>>
    /\ settled => Numbers(wire) = (answered + 1)..Len(issued) /\ Ascending(wire)

\* The types of the wire and its parts.
LEMMA WireType ==
    ASSUME TypeInv
    PROVE  /\ wire \in Seq(Frame) /\ s2c \in Seq(Frame) /\ c2s \in Seq(Frame)
           /\ to_send \in Seq(Frame) /\ s2c \o c2s \in Seq(Frame)
<1>1. s2c \in Seq(Frame) /\ c2s \in Seq(Frame) /\ to_send \in Seq(Frame)
  BY DEF TypeInv, TypeOK, NetTypeOK, QueueTypeOK
<1> QED
  BY <1>1, ConcatProperties DEF wire

\* The counters of the lists.
LEMMA Window ==
    ASSUME TypeInv, ListsInv
    PROVE  \E a \in Nat, m \in Nat, k \in Nat :
              a = answered /\ m = Len(issued) /\ k = Len(outstanding) /\ a = m - k /\ a <= m
<1>1. PICK m \in Nat, k \in Nat : m = Len(issued) /\ k = Len(outstanding)
  BY ListTypes
<1>2. k <= m /\ answered = m - k
  BY <1>1 DEF answered, ListsInv, WindowInv
<1>3. PICK a \in Nat : a = m - k
  BY <1>1, <1>2
<1>4. a <= m /\ a = answered
  BY <1>1, <1>2, <1>3
<1> QED
  BY <1>1, <1>3, <1>4

\* The wire is empty in the initial state.
LEMMA WireInit == Init => WireInv
<1> SUFFICES ASSUME Init PROVE WireInv
  OBVIOUS
<1>1. wire = <<>> /\ outstanding = <<>> /\ issued = <<>> /\ ioPc = "interest"
  BY DEF Init, wire, outstanding
<1>2. Numbers(<<>>) = {} /\ Ascending(<<>>)
  BY DEF Numbers, Ascending
<1>3. answered = 0 /\ Len(issued) = 0
  BY <1>1 DEF answered
<1> QED
  BY <1>1, <1>2, <1>3 DEF WireInv

\* The wire stays, or gets or loses a frame without number.
LEMMA WireKept ==
    ASSUME WireInv, UNCHANGED <<outstanding, issued>>, settled' => settled,
           Renumbers(wire, wire'),
           ioPc' = "free" => ioPc = "free" /\ UNCHANGED <<wire, sent_requests>>
    PROVE  WireInv'
<1>1. answered' = answered
  BY DEF answered
<1> QED
  BY <1>1 DEF WireInv, Renumbers

\* The wire does not change.
LEMMA WireStutter ==
    ASSUME WireInv, UNCHANGED <<wire, sent_requests, outstanding, issued>>,
           settled' => settled, ioPc' = "free" => ioPc = "free"
    PROVE  WireInv'
<1>1. Renumbers(wire, wire')
  BY DEF Renumbers
<1> QED
  BY <1>1, WireKept

\* A new request is the last one on the wire.
LEMMA WireAdds ==
    ASSUME TypeInv, ListsInv, WireInv, NEW r \in Request, r.n = Len(issued) + 1, AddRequest(r),
           UNCHANGED <<s2c, c2s, tmp_list>>, settled' => settled, ioPc' # "free"
    PROVE  WireInv'
<1> DEFINE f == [xid |-> r.xid, n |-> r.n]
<1>1. f \in Frame
  BY DEF Request, Frame
<1>2. wire' = Append(wire, f)
  <2>1. to_send' = Append(to_send, f)
    BY DEF AddRequest
  <2>2. wire' = s2c \o c2s \o Append(to_send, f)
    BY <2>1 DEF wire
  <2> HIDE DEF f
  <2>3. s2c \o c2s \o Append(to_send, f) = Append(s2c \o c2s \o to_send, f)
    BY <1>1, WireType, AppendRight
  <2> QED
    BY <2>2, <2>3 DEF wire
<1>3. PICK a \in Nat, m \in Nat : a = answered /\ m = Len(issued) /\ a <= m
  BY Window
<1>4. answered' = a
  <2>1. issued' = Append(issued, [kind |-> r.kind, by |-> r.by]) /\ issued \in Seq(Issue)
    BY ListTypes DEF AddRequest
  <2>0. tmp_list \in Seq(Request) /\ sent_requests \in Seq(Request)
    BY DEF TypeInv, TypeOK, QueueTypeOK
  <2>2. outstanding' = Append(outstanding, r)
    BY <2>0, AppendRight DEF AddRequest, outstanding
  <2>3. PICK k \in Nat : k = Len(outstanding)
    BY ListTypes
  <2>4. Len(outstanding') = k + 1 /\ Len(issued') = m + 1
    BY <1>3, <2>1, <2>2, <2>3, ListTypes, AppendProperties DEF Request, Issue
  <2>5. answered' = (m + 1) - (k + 1) /\ a = m - k
    BY <1>3, <2>3, <2>4 DEF answered
  <2> QED
    BY <1>3, <2>3, <2>5
<1>5. Len(issued') = m + 1
  BY <1>3, ListTypes DEF AddRequest
<1>6. ASSUME settled PROVE Numbers(wire') = (a + 1)..(m + 1) /\ Ascending(wire')
  <2>1. Numbers(wire) = (a + 1)..m /\ Ascending(wire)
    BY <1>3, <1>6 DEF WireInv
  <2>2. f.n = m + 1 /\ f.n \in Nat \ {0}
    BY <1>3
  <2> HIDE DEF f
  <2>3. \A n \in Numbers(wire) : n < f.n
    BY <1>3, <2>1, <2>2
  <2>4. Numbers(Append(wire, f)) = Numbers(wire) \cup {f.n} /\ Ascending(Append(wire, f))
    BY <1>1, <2>1, <2>2, <2>3, WireType, NumberAppended
  <2>5. ((a + 1)..m) \cup {m + 1} = (a + 1)..(m + 1)
    BY <1>3
  <2> QED
    BY <1>2, <2>1, <2>2, <2>4, <2>5
<1> QED
  BY <1>4, <1>5, <1>6 DEF WireInv

\* The frame that is read is the first on the wire.
LEMMA WireTaken ==
    ASSUME TypeInv, s2c # <<>>, s2c' = Tail(s2c), UNCHANGED <<c2s, to_send>>
    PROVE  wire # <<>> /\ Head(wire) = Head(s2c) /\ wire' = Tail(wire)
<1>1. /\ Tail(s2c) \o c2s = Tail(s2c \o c2s) /\ Head(s2c \o c2s) = Head(s2c)
      /\ s2c \o c2s # <<>>
  BY WireType, TailLeft
<1>2. /\ Tail(s2c \o c2s) \o to_send = Tail(s2c \o c2s \o to_send)
      /\ Head(s2c \o c2s \o to_send) = Head(s2c \o c2s) /\ s2c \o c2s \o to_send # <<>>
  BY <1>1, WireType, TailLeft
<1>3. wire' = Tail(s2c) \o c2s \o to_send
  BY DEF wire
<1> QED
  BY <1>1, <1>2, <1>3 DEF wire

\* What taking it does to the numbers.
LEMMA WireTakenNumbers ==
    ASSUME TypeInv, Ascending(wire), s2c # <<>>, s2c' = Tail(s2c), UNCHANGED <<c2s, to_send>>
    PROVE  /\ Ascending(wire') /\ Numbers(wire') = Numbers(wire) \ {Head(s2c).n}
           /\ Head(s2c).n # 0 => /\ Head(s2c).n \in Numbers(wire)
                                 /\ \A n \in Numbers(wire) : Head(s2c).n <= n
<1>1. wire # <<>> /\ Head(wire) = Head(s2c) /\ wire' = Tail(wire)
  BY WireTaken
<1>2. wire \in Seq(Frame) /\ \A i \in DOMAIN wire : wire[i].n \in Nat
  <2>1. wire \in Seq(Frame) /\ DOMAIN wire = 1..Len(wire)
    BY WireType, LenProperties
  <2>2. \A i \in 1..Len(wire) : wire[i] \in Frame
    BY <2>1, ElementOfSeq
  <2> QED
    BY <2>1, <2>2 DEF Frame
<1> QED
  BY <1>1, <1>2, NumberTaken

\* An event that is read leaves the numbers as they are.
LEMMA WireUnnumberedRead ==
    ASSUME TypeInv, FramesInv, WireInv, ReadFrame, TopOfLoop, UNCHANGED sent_requests,
           Head(s2c).xid \in {WATCHER_EVENT_XID, SET_WATCHES_XID}
    PROVE  WireInv'
<1>1. s2c # <<>> /\ s2c' = Tail(s2c) /\ UNCHANGED <<c2s, to_send, outstanding, issued>> /\ ioPc = "read"
  BY DEF ReadFrame, outstanding
<1>2. Head(s2c).n = 0
  BY <1>1, Unlisted DEF FramesInv, Truthful, Sound
<1>3. settled /\ Ascending(wire) /\ 0 \notin Numbers(wire)
  BY <1>1 DEF settled, WireInv, Numbers
<1>4. Renumbers(wire, wire')
  BY <1>1, <1>2, <1>3, WireTakenNumbers DEF Renumbers
<1>5. ioPc' # "free"
  BY DEF TopOfLoop
<1> QED
  BY <1>1, <1>3, <1>4, <1>5, WireKept

\* A reply that is taken for the answer to the oldest request is the reply to it.
LEMMA OldestAnswered ==
    ASSUME TypeInv, FramesInv, WireInv, TmpListInv, ListsInv, ReadReply
    PROVE  /\ Head(s2c).n = answered + 1 /\ outstanding = sent_requests /\ outstanding # <<>>
           /\ Head(outstanding).n = answered + 1
<1>1. ioPc = "read" /\ s2c # <<>> /\ s2c' = Tail(s2c) /\ UNCHANGED <<c2s, to_send>> /\ sent_requests # <<>>
      /\ Head(s2c).xid \notin {WATCHER_EVENT_XID, SET_WATCHES_XID}
  BY DEF ReadReply, ReadFrame
<1>2. outstanding = sent_requests
  BY <1>1, EmptyConcat DEF TmpListInv, outstanding, TypeInv, TypeOK, QueueTypeOK
<1>3. Head(s2c).n # 0 /\ Head(s2c).n \in Nat
  <2>1. Head(s2c) \in Sound
    BY <1>1, Unlisted DEF FramesInv, Truthful
  <2> QED
    BY <1>1, <2>1 DEF Sound, Frame
<1>4. Numbers(wire) = (answered + 1)..Len(issued) /\ Ascending(wire)
  BY <1>1 DEF WireInv, settled
<1>5. Head(s2c).n \in Numbers(wire) /\ \A n \in Numbers(wire) : Head(s2c).n <= n
  BY <1>1, <1>3, <1>4, WireTakenNumbers
<1>6. PICK a \in Nat, m \in Nat, k \in Nat, h \in Nat :
         a = answered /\ m = Len(issued) /\ k = Len(outstanding) /\ a = m - k /\ h = Head(s2c).n
  BY <1>3, Window
<1>7. k >= 1
  BY <1>1, <1>2, <1>6, ListTypes, EmptySeq
<1>8. h = a + 1
  <2>1. a + 1 \in (a + 1)..m
    BY <1>6, <1>7
  <2>2. h \in (a + 1)..m /\ h <= a + 1
    BY <1>4, <1>5, <1>6, <2>1
  <2> QED
    BY <1>6, <2>2
<1>9. Head(outstanding).n = a + 1
  <2>1. Head(outstanding) = outstanding[1]
    BY <1>1, <1>2
  <2>2. 1 \in 1..k
    BY <1>6, <1>7
  <2> QED
    BY <1>6, <2>1, <2>2 DEF ListsInv, WindowInv
<1> QED
  BY <1>1, <1>2, <1>6, <1>8, <1>9

\* A frame put in front of the send queue is behind those that are sent.
LEMMA Prefixed ==
    ASSUME NEW S, NEW a \in Seq(S), NEW b \in Seq(S), NEW z \in S
    PROVE  a \o (<<z>> \o b) = Append(a, z) \o b
<1>1. <<z>> \in Seq(S)
  OBVIOUS
<1>2. a \o (<<z>> \o b) = (a \o <<z>>) \o b
  BY <1>1
<1>3. a \o <<z>> = Append(a, z)
  OBVIOUS
<1> QED
  BY <1>2, <1>3, Zenon

\* Only the number of a frame counts.
LEMMA FrameReplaced ==
    ASSUME NEW a \in Seq(Frame), NEW b \in Seq(Frame), NEW c \in Seq(Frame),
           NEW h \in Frame, NEW g \in Frame, g.n = h.n
    PROVE  Renumbers((Append(a, h) \o b) \o c, (Append(a, g) \o b) \o c)
<1> DEFINE u == Append(a, h)
           v == Append(a, g)
           k == Len(a)
<1>1. /\ u \in Seq(Frame) /\ v \in Seq(Frame) /\ Len(u) = k + 1 /\ Len(v) = k + 1 /\ k \in Nat
      /\ u[k + 1] = h /\ v[k + 1] = g /\ \A i \in 1..k : u[i] = v[i]
  OBVIOUS
<1> HIDE DEF u, v, k
<1>2. \A i \in 1..(k + 1) : u[i].n = v[i].n
  <2>1. \A i \in 1..(k + 1) : i = k + 1 \/ i \in 1..k
    BY <1>1
  <2> QED
    BY <1>1, <2>1
<1>3. b \o c \in Seq(Frame) /\ (u \o b) \o c = u \o (b \o c) /\ (v \o b) \o c = v \o (b \o c)
  <2>1. b \o c \in Seq(Frame)
    BY ConcatProperties
  <2>2. (u \o b) \o c = u \o (b \o c)
    BY <1>1
  <2>3. (v \o b) \o c = v \o (b \o c)
    BY <1>1
  <2> QED
    BY <2>1, <2>2, <2>3
<1>4. PICK d \in Seq(Frame) : d = b \o c
  BY <1>3
<1>5. /\ DOMAIN (u \o d) = DOMAIN (v \o d)
      /\ \A i \in DOMAIN (u \o d) : (v \o d)[i].n = (u \o d)[i].n
  <2>1. PICK m \in Nat, n \in Nat : m = Len(d) /\ n = k + 1 /\ n = Len(u) /\ n = Len(v)
    BY <1>1, <1>4, LenProperties
  <2>2. ASSUME NEW w \in Seq(Frame), Len(w) = n
        PROVE  /\ DOMAIN (w \o d) = 1..(n + m)
               /\ \A i \in 1..(n + m) : (w \o d)[i] = IF i <= n THEN w[i] ELSE d[i - n]
    <3>1. /\ w \o d \in Seq(Frame) /\ Len(w \o d) = Len(w) + Len(d)
          /\ \A i \in 1..(Len(w) + Len(d)) :
                (w \o d)[i] = IF i <= Len(w) THEN w[i] ELSE d[i - Len(w)]
      BY <1>4, ConcatProperties
    <3>2. DOMAIN (w \o d) = 1..Len(w \o d)
      BY <3>1, LenProperties
    <3> QED
      BY <2>1, <2>2, <3>1, <3>2
  <2>3. DOMAIN (u \o d) = 1..(n + m) /\ DOMAIN (v \o d) = 1..(n + m)
    BY <1>1, <2>1, <2>2
  <2>4. ASSUME NEW i \in 1..(n + m) PROVE (v \o d)[i].n = (u \o d)[i].n
    <3>1. /\ (u \o d)[i] = IF i <= n THEN u[i] ELSE d[i - n]
          /\ (v \o d)[i] = IF i <= n THEN v[i] ELSE d[i - n]
      BY <1>1, <2>1, <2>2
    <3>2. i <= n => i \in 1..(k + 1)
      BY <2>1
    <3> QED
      BY <1>2, <3>1, <3>2
  <2> QED
    BY <2>3, <2>4
<1>6. Renumbers(u \o d, v \o d)
  BY <1>5, SameNumbers
<1> QED
  BY <1>3, <1>4, <1>6 DEF u, v

\* Every step keeps the wire in step with the requests.
LEMMA WireStep == TypeInv /\ SessionInv /\ TmpListInv /\ TmpListInv' /\ ListsInv /\ FramesInv /\ WireInv /\ [Next]_vars => WireInv'
<1> SUFFICES ASSUME TypeInv, SessionInv, TmpListInv, TmpListInv', ListsInv, FramesInv, WireInv, [Next]_vars PROVE WireInv'
  OBVIOUS
<1> USE DEF zhVars, netVars, queueVars, ioVars, callerVars, countVars
<1>0. /\ TypeInv /\ SessionInv /\ SocketInv /\ TmpListInv /\ TmpListInv' /\ ListsInv
      /\ FramesInv /\ WireInv /\ CallerTypeOK /\ Len(issued) \in Nat
  BY LenProperties DEF TypeInv, TypeOK, QueueTypeOK
<1>1. ASSUME NEW c \in Callers, NEW kind \in {"sync", "async"}, StartCall(c, kind) PROVE WireInv'
  <2>1. UNCHANGED <<wire, sent_requests, outstanding, issued>>
    BY <1>1 DEF StartCall, wire, outstanding
  <2>2. (settled' => settled) /\ (ioPc' = "free" => ioPc = "free")
    BY <1>0, <1>1 DEF StartCall, settled
  <2> QED
    BY <1>0, <2>1, <2>2, WireStutter
<1>2. ASSUME NEW c \in Callers, Enqueue(c) PROVE WireInv'
  <2> DEFINE r == [xid |-> call[c].xid, n |-> Len(issued) + 1, kind |-> call[c].kind, by |-> c]
  <2>1. r \in Request /\ r.n = Len(issued) + 1
    BY <1>0 DEF CallerTypeOK, Request
  <2>2. AddRequest(r) /\ UNCHANGED <<s2c, c2s, tmp_list, ioPc>> /\ ioPc # "free"
    BY <1>2 DEF Enqueue, ioInCritical
  <2> HIDE DEF r
  <2> QED
    BY <1>0, <2>1, <2>2, WireAdds DEF settled
<1>3. ASSUME NEW c \in Callers, WakeIO(c) PROVE WireInv'
  <2>1. UNCHANGED <<wire, sent_requests, outstanding, issued>>
    BY <1>3 DEF WakeIO, WritePipe, Waits, Returns, wire, outstanding
  <2>2. (settled' => settled) /\ (ioPc' = "free" => ioPc = "free")
    BY <1>0, <1>3 DEF WakeIO, WritePipe, Waits, Returns, settled
  <2> QED
    BY <1>0, <2>1, <2>2, WireStutter
<1>4. ASSUME NEW c \in Callers, SyncReturn(c) PROVE WireInv'
  <2>1. UNCHANGED <<wire, sent_requests, outstanding, issued>>
    BY <1>4 DEF SyncReturn, Returns, wire, outstanding
  <2>2. (settled' => settled) /\ (ioPc' = "free" => ioPc = "free")
    BY <1>0, <1>4 DEF SyncReturn, Returns, settled
  <2> QED
    BY <1>0, <2>1, <2>2, WireStutter
<1>5. ASSUME RunCallback PROVE WireInv'
  <2>1. UNCHANGED <<wire, sent_requests, outstanding, issued>>
    BY <1>5 DEF RunCallback, wire, outstanding
  <2>2. (settled' => settled) /\ (ioPc' = "free" => ioPc = "free")
    BY <1>0, <1>5 DEF RunCallback, settled
  <2> QED
    BY <1>0, <2>1, <2>2, WireStutter
<1>6. ASSUME CallbackReturns PROVE WireInv'
  <2>1. UNCHANGED <<wire, sent_requests, outstanding, issued>>
    BY <1>6 DEF CallbackReturns, wire, outstanding
  <2>2. (settled' => settled) /\ (ioPc' = "free" => ioPc = "free")
    BY <1>0, <1>6 DEF CallbackReturns, settled
  <2> QED
    BY <1>0, <2>1, <2>2, WireStutter
<1>7. ASSUME WrapAddress PROVE WireInv'
  <2>1. UNCHANGED <<wire, sent_requests, outstanding, issued>>
    BY <1>7 DEF WrapAddress, wire, outstanding
  <2>2. (settled' => settled) /\ (ioPc' = "free" => ioPc = "free")
    BY <1>0, <1>7 DEF WrapAddress, settled
  <2> QED
    BY <1>0, <2>1, <2>2, WireStutter
<1>8. ASSUME ConnectStart PROVE WireInv'
  <2>1. UNCHANGED <<wire, sent_requests, outstanding, issued>>
    BY <1>8 DEF ConnectStart, Connecting, AskInterest, wire, outstanding
  <2>2. (settled' => settled) /\ (ioPc' = "free" => ioPc = "free")
    BY <1>0, <1>8 DEF ConnectStart, Connecting, AskInterest, settled
  <2> QED
    BY <1>0, <2>1, <2>2, WireStutter
<1>9. ASSUME ConnectNow PROVE WireInv'
  <2>1. UNCHANGED <<wire, sent_requests, outstanding, issued>>
    BY <1>9 DEF ConnectNow, Connecting, AskInterest, wire, outstanding
  <2>2. (settled' => settled) /\ (ioPc' = "free" => ioPc = "free")
    BY <1>0, <1>9 DEF ConnectNow, Connecting, AskInterest, settled
  <2> QED
    BY <1>0, <2>1, <2>2, WireStutter
<1>10. ASSUME ConnectRefused PROVE WireInv'
  <2>1. UNCHANGED <<wire, sent_requests, outstanding, issued>>
    BY <1>10 DEF ConnectRefused, Connecting, Fail, wire, outstanding
  <2>2. (settled' => settled) /\ (ioPc' = "free" => ioPc = "free")
    BY <1>0, <1>10 DEF ConnectRefused, Connecting, Fail, settled
  <2> QED
    BY <1>0, <2>1, <2>2, WireStutter
<1>11. ASSUME ReceiveTimeout PROVE WireInv'
  <2>1. UNCHANGED <<wire, sent_requests, outstanding, issued>>
    BY <1>11 DEF ReceiveTimeout, Fail, wire, outstanding
  <2>2. (settled' => settled) /\ (ioPc' = "free" => ioPc = "free")
    BY <1>0, <1>11 DEF ReceiveTimeout, Fail, settled
  <2> QED
    BY <1>0, <2>1, <2>2, WireStutter
<1>12. ASSUME DecidePing PROVE WireInv'
  <2>1. UNCHANGED <<wire, sent_requests, outstanding, issued>>
    BY <1>12 DEF DecidePing, wire, outstanding
  <2>2. (settled' => settled) /\ (ioPc' = "free" => ioPc = "free")
    BY <1>0, <1>12 DEF DecidePing, settled
  <2> QED
    BY <1>0, <2>1, <2>2, WireStutter
<1>13. ASSUME SendPing PROVE WireInv'
  <2> DEFINE r == [xid |-> PING_XID, n |-> Len(issued) + 1, kind |-> "ping", by |-> IO]
  <2>1. r \in Request /\ r.n = Len(issued) + 1
    BY <1>0 DEF Request, PING_XID
  <2>2. AddRequest(r) /\ UNCHANGED <<s2c, c2s, tmp_list>> /\ ioPc = "ping" /\ ioPc' = "poll"
    BY <1>13 DEF SendPing
  <2> HIDE DEF r
  <2> QED
    BY <1>0, <2>1, <2>2, WireAdds DEF settled
<1>14. ASSUME Interest PROVE WireInv'
  <2>1. UNCHANGED <<wire, sent_requests, outstanding, issued>>
    BY <1>14 DEF Interest, AskInterest, wire, outstanding
  <2>2. (settled' => settled) /\ (ioPc' = "free" => ioPc = "free")
    BY <1>0, <1>14 DEF Interest, AskInterest, settled
  <2> QED
    BY <1>0, <2>1, <2>2, WireStutter
<1>15. ASSUME ProcessNothing PROVE WireInv'
  <2>1. UNCHANGED <<wire, sent_requests, outstanding, issued>>
    BY <1>15 DEF ProcessNothing, TopOfLoop, wire, outstanding
  <2>2. (settled' => settled) /\ (ioPc' = "free" => ioPc = "free")
    BY <1>0, <1>15 DEF ProcessNothing, TopOfLoop, settled
  <2> QED
    BY <1>0, <2>1, <2>2, WireStutter
<1>16. ASSUME HandshakeFails PROVE WireInv'
  <2>1. UNCHANGED <<wire, sent_requests, outstanding, issued>>
    BY <1>16 DEF HandshakeFails, handshakeDue, Fail, wire, outstanding
  <2>2. (settled' => settled) /\ (ioPc' = "free" => ioPc = "free")
    BY <1>0, <1>16 DEF HandshakeFails, handshakeDue, Fail, settled
  <2> QED
    BY <1>0, <2>1, <2>2, WireStutter
<1>17. ASSUME PrimeConnection PROVE WireInv'
  <2>1. UNCHANGED <<wire, sent_requests, outstanding, issued>>
    BY <1>17 DEF PrimeConnection, handshakeDue, TopOfLoop, wire, outstanding
  <2>2. (settled' => settled) /\ (ioPc' = "free" => ioPc = "free")
    BY <1>0, <1>17 DEF PrimeConnection, handshakeDue, TopOfLoop, settled
  <2> QED
    BY <1>0, <2>1, <2>2, WireStutter
<1>18. ASSUME FlushSendQueue PROVE WireInv'
  <2>1. UNCHANGED <<s2c, sent_requests, outstanding, issued>>
    BY <1>18 DEF FlushSendQueue, outstanding
  <2>2. (settled' => settled) /\ (ioPc' = "free" => ioPc = "free")
    BY <1>18 DEF FlushSendQueue, AfterFlush, Fail, settled
  <2>3. ASSUME NEW k \in 1..Len(to_send), c2s' = c2s \o SubSeq(to_send, 1, k),
               to_send' = SubSeq(to_send, k + 1, Len(to_send))
        PROVE  UNCHANGED wire
    <3> DEFINE p == SubSeq(to_send, 1, k)
               q == SubSeq(to_send, k + 1, Len(to_send))
    <3>0. p \o q = to_send
      BY Cut, WireType
    <3>1. p \in Seq(Frame) /\ q \in Seq(Frame)
      BY Cut, WireType
    <3>2. wire' = (s2c \o (c2s \o p)) \o q
      BY <2>1, <2>3 DEF wire
    <3> HIDE DEF p, q
    <3>3. s2c \o (c2s \o p) = (s2c \o c2s) \o p
      <4>1. s2c \in Seq(Frame) /\ c2s \in Seq(Frame)
        BY WireType
      <4> QED
        BY <3>1, <4>1, SMTT(30)
    <3>4. ((s2c \o c2s) \o p) \o q = (s2c \o c2s) \o (p \o q)
      <4>1. PICK l \in Seq(Frame) : l = s2c \o c2s
        BY WireType
      <4>2. (l \o p) \o q = l \o (p \o q)
        BY <3>1, SMTT(30)
      <4> QED
        BY <4>1, <4>2, Zenon
    <3> QED
      BY <3>0, <3>2, <3>3, <3>4 DEF wire
  <2>4. CASE UNCHANGED <<c2s, to_send>>
    BY <1>0, <2>1, <2>2, <2>4, WireStutter DEF wire
  <2>5. UNCHANGED wire
    BY <1>18, <2>1, <2>3, <2>4 DEF FlushSendQueue, wire
  <2> QED
    BY <1>0, <2>1, <2>2, <2>5, WireStutter
<1>19. ASSUME ReadError PROVE WireInv'
  <2>1. UNCHANGED <<wire, sent_requests, outstanding, issued>>
    BY <1>19 DEF ReadError, Fail, wire, outstanding
  <2>2. (settled' => settled) /\ (ioPc' = "free" => ioPc = "free")
    BY <1>0, <1>19 DEF ReadError, Fail, settled
  <2> QED
    BY <1>0, <2>1, <2>2, WireStutter
<1>20. ASSUME ReadPrimerAccepted PROVE WireInv'
  <2> DEFINE z == [xid |-> SET_WATCHES_XID, n |-> 0]
  <2>1. z \in Frame /\ z.n = 0
    BY DEF Frame, SET_WATCHES_XID
  <2>2. to_send' = <<z>> \o to_send /\ UNCHANGED <<s2c, c2s, outstanding, issued>>
    BY <1>20 DEF ReadPrimerAccepted, outstanding
  <2> HIDE DEF z
  <2>3. wire' = Append(s2c \o c2s, z) \o to_send
    <3>1. wire' = (s2c \o c2s) \o (<<z>> \o to_send)
      BY <2>2 DEF wire
    <3>2. (s2c \o c2s) \o (<<z>> \o to_send) = Append(s2c \o c2s, z) \o to_send
      <4>1. PICK l \in Seq(Frame), t \in Seq(Frame) : l = s2c \o c2s /\ t = to_send
        BY WireType
      <4>2. l \o (<<z>> \o t) = Append(l, z) \o t
        BY <2>1, Prefixed
      <4> QED
        BY <4>1, <4>2
    <3> QED
      BY <3>1, <3>2
  <2>4. Renumbers(wire, wire')
    BY <2>1, <2>3, WireType, Unnumbered DEF wire
  <2>5. settled /\ ioPc' # "free"
    BY <1>20 DEF ReadPrimerAccepted, TopOfLoop, settled
  <2> QED
    BY <1>0, <2>2, <2>4, <2>5, WireKept
<1>21. ASSUME ReadPrimerExpired PROVE WireInv'
  <2>1. UNCHANGED <<wire, sent_requests, outstanding, issued>>
    BY <1>21 DEF ReadPrimerExpired, Fail, wire, outstanding
  <2>2. (settled' => settled) /\ (ioPc' = "free" => ioPc = "free")
    BY <1>0, <1>21 DEF ReadPrimerExpired, Fail, settled
  <2> QED
    BY <1>0, <2>1, <2>2, WireStutter
<1>22. ASSUME ReadWatchEvent PROVE WireInv'
  BY <1>0, <1>22, WireUnnumberedRead DEF ReadWatchEvent
<1>23. ASSUME ReadSetWatches PROVE WireInv'
  BY <1>0, <1>23, WireUnnumberedRead DEF ReadSetWatches
<1>24. ASSUME ReadReply PROVE WireInv'
  <2>0. ReadFrame
    BY <1>24 DEF ReadReply
  <2>1. CASE ioPc' = "close"
    BY <2>1 DEF WireInv, settled
  <2>2. CASE ioPc' # "close"
    <3>1. sent_requests' = Tail(sent_requests) /\ ioPc' = "interest"
      BY <1>24, <2>2 DEF ReadReply, Fail, TopOfLoop
    <3>2. /\ s2c # <<>> /\ s2c' = Tail(s2c) /\ UNCHANGED <<c2s, to_send, issued, tmp_list>>
          /\ ioPc = "read"
      BY <2>0 DEF ReadFrame
    <3>3. /\ Head(s2c).n = answered + 1 /\ outstanding = sent_requests /\ outstanding # <<>>
      BY <1>0, <1>24, OldestAnswered
    <3>4. outstanding' = Tail(outstanding)
      <4>1. tmp_list = <<>> /\ tmp_list' = <<>>
        BY <1>0, <3>2 DEF TmpListInv
      <4>2. outstanding' = <<>> \o Tail(sent_requests)
        BY <3>1, <4>1 DEF outstanding
      <4>3. sent_requests \in Seq(Request) /\ Tail(sent_requests) \in Seq(Request)
        BY <3>3, RequestList DEF TypeInv, TypeOK, QueueTypeOK
      <4>4. <<>> \o Tail(sent_requests) = Tail(sent_requests)
        BY <4>3, EmptyConcat
      <4> QED
        BY <3>3, <4>2, <4>4
    <3>5. PICK a \in Nat, m \in Nat, k \in Nat :
             a = answered /\ m = Len(issued) /\ k = Len(outstanding) /\ a = m - k
      BY Window
    <3>6. Len(outstanding') = k - 1
      BY <3>3, <3>4, <3>5, ListTypes
    <3>7. answered' = m - (k - 1)
      BY <3>2, <3>5, <3>6 DEF answered
    <3>8. Numbers(wire) = (a + 1)..m /\ Ascending(wire)
      BY <1>0, <3>2, <3>5 DEF WireInv, settled
    <3>9. Numbers(wire') = ((a + 1)..m) \ {a + 1} /\ Ascending(wire')
      BY <3>2, <3>3, <3>5, <3>8, WireTakenNumbers
    <3>10. ((a + 1)..m) \ {a + 1} = ((m - (k - 1)) + 1)..m
      BY <3>5
    <3> QED
      BY <3>1, <3>2, <3>5, <3>7, <3>9, <3>10 DEF WireInv
  <2> QED
    BY <2>1, <2>2
<1>25. ASSUME HandleErrorClose PROVE WireInv'
  BY <1>25 DEF HandleErrorClose, WireInv, settled
<1>26. ASSUME CleanupBufs PROVE WireInv'
  <2>1. c2s = <<>> /\ s2c = <<>>
    BY <1>0, <1>26 DEF CleanupBufs, SessionInv, SocketInv
  <2>2. wire' = <<>> \o <<>> \o <<>> /\ sent_requests' = <<>> /\ ioPc' = "free"
    BY <1>26, <2>1 DEF CleanupBufs, FreeSendQueue, wire
  <2>3. <<>> \o <<>> = <<>>
    BY EmptySeq, EmptyConcat
  <2> QED
    BY <2>2, <2>3 DEF WireInv, settled
<1>27. ASSUME FreeCompletion PROVE WireInv'
  <2>1. UNCHANGED <<wire, sent_requests, ioPc>> /\ ioPc = "free"
    BY <1>27 DEF FreeCompletion, wire
  <2> QED
    BY <1>0, <2>1 DEF WireInv, settled
<1>28. ASSUME HandleErrorReset PROVE WireInv'
  <2>1. UNCHANGED <<wire, sent_requests, outstanding, issued>> /\ ioPc = "free" /\ tmp_list = <<>>
    BY <1>28 DEF HandleErrorReset, wire, outstanding
  <2>2. ioPc' # "free"
    BY <1>28 DEF HandleErrorReset, TypeInv, TypeOK, IOTypeOK
  <2>3. wire = <<>> /\ sent_requests = <<>>
    BY <1>0, <2>1 DEF WireInv
  <2>4. outstanding = <<>>
    BY <2>1, <2>3, EmptySeq, EmptyConcat DEF outstanding
  <2>5. PICK m \in Nat : m = Len(issued) /\ m = answered
    BY <2>4, ListTypes, EmptySeq DEF answered
  <2>6. answered' = m /\ Len(issued') = m
    BY <2>1, <2>5 DEF answered
  <2>7. Numbers(<<>>) = {} /\ Ascending(<<>>) /\ (m + 1)..m = {}
    BY <2>5 DEF Numbers, Ascending
  <2> QED
    BY <2>1, <2>2, <2>3, <2>6, <2>7 DEF WireInv
<1>29. ASSUME LinkEstablished PROVE WireInv'
  <2>1. UNCHANGED <<wire, sent_requests, outstanding, issued>>
    BY <1>29 DEF LinkEstablished, clientVars, wire, outstanding
  <2>2. (settled' => settled) /\ (ioPc' = "free" => ioPc = "free")
    BY <1>0, <1>29 DEF LinkEstablished, clientVars, settled
  <2> QED
    BY <1>0, <2>1, <2>2, WireStutter
<1>30. ASSUME LinkFails PROVE WireInv'
  <2>1. UNCHANGED <<wire, sent_requests, outstanding, issued>>
    BY <1>30 DEF LinkFails, clientVars, wire, outstanding
  <2>2. (settled' => settled) /\ (ioPc' = "free" => ioPc = "free")
    BY <1>0, <1>30 DEF LinkFails, clientVars, settled
  <2> QED
    BY <1>0, <2>1, <2>2, WireStutter
<1>31. ASSUME TimePasses PROVE WireInv'
  <2>1. UNCHANGED <<wire, sent_requests, outstanding, issued>>
    BY <1>31 DEF TimePasses, clientVars, wire, outstanding
  <2>2. (settled' => settled) /\ (ioPc' = "free" => ioPc = "free")
    BY <1>0, <1>31 DEF TimePasses, clientVars, settled
  <2> QED
    BY <1>0, <2>1, <2>2, WireStutter
<1>32. ASSUME ServerAcceptsSession PROVE WireInv'
  <2>1. UNCHANGED <<wire, sent_requests, outstanding, issued>>
    BY <1>32 DEF ServerAcceptsSession, clientVars, wire, outstanding
  <2>2. (settled' => settled) /\ (ioPc' = "free" => ioPc = "free")
    BY <1>0, <1>32 DEF ServerAcceptsSession, clientVars, settled
  <2> QED
    BY <1>0, <2>1, <2>2, WireStutter
<1>33. ASSUME ServerExpiresSession PROVE WireInv'
  <2>1. UNCHANGED <<wire, sent_requests, outstanding, issued>>
    BY <1>33 DEF ServerExpiresSession, clientVars, wire, outstanding
  <2>2. (settled' => settled) /\ (ioPc' = "free" => ioPc = "free")
    BY <1>0, <1>33 DEF ServerExpiresSession, clientVars, settled
  <2> QED
    BY <1>0, <2>1, <2>2, WireStutter
<1>34. ASSUME ServerReplies PROVE WireInv'
  <2>1. /\ c2s # <<>> /\ c2s' = Tail(c2s) /\ s2c' = Append(s2c, Head(c2s))
        /\ UNCHANGED <<to_send, sent_requests, outstanding, issued, ioPc>>
    BY <1>34 DEF ServerReplies, clientVars, outstanding
  <2>2. Append(s2c, Head(c2s)) \o Tail(c2s) = s2c \o c2s
    BY <2>1, WireType, MoveHead
  <2>3. UNCHANGED wire
    BY <2>1, <2>2 DEF wire
  <2> QED
    BY <1>0, <2>1, <2>3, WireStutter DEF settled
<1>35. ASSUME ServerMisreplies PROVE WireInv'
  <2> DEFINE h == Head(c2s)
             g == [h EXCEPT !.xid = NO_XID]
  <2>1. /\ c2s # <<>> /\ c2s' = Tail(c2s) /\ s2c' = Append(s2c, g) /\ sock = "up"
        /\ UNCHANGED <<to_send, sent_requests, outstanding, issued, ioPc>>
    BY <1>35 DEF ServerMisreplies, clientVars, outstanding
  <2>0. h \in Frame /\ Tail(c2s) \in Seq(Frame)
    BY <2>1, WireType, FrameList
  <2>2. h \in Frame /\ g \in Frame /\ g.n = h.n /\ Tail(c2s) \in Seq(Frame)
    BY <2>0 DEF Frame, NO_XID
  <2>3. Append(s2c, h) \o Tail(c2s) = s2c \o c2s
    BY <2>1, WireType, MoveHead
  <2> HIDE DEF h, g
  <2>4. Renumbers((Append(s2c, h) \o Tail(c2s)) \o to_send, (Append(s2c, g) \o Tail(c2s)) \o to_send)
    BY <2>2, WireType, FrameReplaced
  <2>5. wire' = (Append(s2c, g) \o Tail(c2s)) \o to_send
    BY <2>1 DEF wire
  <2>6. Renumbers(wire, wire')
    BY <2>3, <2>4, <2>5 DEF wire
  <2>7. ioPc # "free"
    BY <1>0, <2>1 DEF SocketInv
  <2> QED
    BY <1>0, <2>1, <2>6, <2>7, WireKept DEF settled
<1>36. ASSUME ServerNotifies PROVE WireInv'
  <2> DEFINE z == [xid |-> WATCHER_EVENT_XID, n |-> 0]
  <2>1. z \in Frame /\ z.n = 0
    BY DEF Frame, WATCHER_EVENT_XID
  <2>2. /\ s2c' = Append(s2c, z) /\ sock = "up"
        /\ UNCHANGED <<c2s, to_send, sent_requests, outstanding, issued, ioPc>>
    BY <1>36 DEF ServerNotifies, clientVars, outstanding
  <2> HIDE DEF z
  <2>3. wire = s2c \o (c2s \o to_send) /\ c2s \o to_send \in Seq(Frame)
    BY WireType, ConcatAssociative, ConcatProperties DEF wire
  <2>4. wire' = Append(s2c, z) \o (c2s \o to_send)
    <3>1. Append(s2c, z) \in Seq(Frame)
      BY <2>1, WireType, AppendProperties
    <3>2. (Append(s2c, z) \o c2s) \o to_send = Append(s2c, z) \o (c2s \o to_send)
      BY <3>1, WireType
    <3> QED
      BY <2>2, <3>2 DEF wire
  <2>5. Renumbers(wire, wire')
    BY <2>1, <2>3, <2>4, WireType, Unnumbered
  <2>6. ioPc # "free"
    BY <1>0, <2>2 DEF SocketInv
  <2> QED
    BY <1>0, <2>2, <2>5, <2>6, WireKept DEF settled
<1>37. ASSUME UNCHANGED vars PROVE WireInv'
  <2>1. UNCHANGED <<wire, sent_requests, outstanding, issued>>
    BY <1>37 DEF vars, wire, outstanding
  <2>2. (settled' => settled) /\ (ioPc' = "free" => ioPc = "free")
    BY <1>0, <1>37 DEF vars, settled
  <2> QED
    BY <1>0, <2>1, <2>2, WireStutter
<1> QED
  BY <1>1, <1>2, <1>3, <1>4, <1>5, <1>6, <1>7, <1>8, <1>9, <1>10, <1>11, <1>12, <1>13, <1>14, <1>15, <1>16, <1>17, <1>18, <1>19, <1>20, <1>21, <1>22, <1>23, <1>24, <1>25, <1>26, <1>27, <1>28, <1>29, <1>30, <1>31, <1>32, <1>33, <1>34, <1>35, <1>36, <1>37
     DEF Next, CallerStep, do_completion, do_io, zookeeper_interest, zookeeper_process,
         handle_error, Environment

\* What WireMatchesSent says follows.
LEMMA WireImplies == TypeInv /\ TmpListInv /\ ListsInv /\ WireInv => WireMatchesSent
<1> SUFFICES ASSUME TypeInv, TmpListInv, ListsInv, WireInv, ioPc \notin {"close", "cleanup"}
             PROVE  /\ Numbers(wire) = Numbers(sent_requests)
                    /\ Ascending(wire) /\ Ascending(sent_requests)
  BY DEF WireMatchesSent
<1>1. CASE ioPc = "free"
  BY <1>1 DEF WireInv, Numbers, Ascending
<1>2. CASE ioPc # "free"
  <2>1. Numbers(wire) = (answered + 1)..Len(issued) /\ Ascending(wire)
    BY <1>2 DEF WireInv, settled
  <2>2. outstanding = sent_requests
    BY <1>2, EmptyConcat DEF TmpListInv, outstanding, TypeInv, TypeOK, QueueTypeOK
  <2>3. PICK a \in Nat, m \in Nat, k \in Nat :
           a = answered /\ m = Len(issued) /\ k = Len(outstanding) /\ a = m - k
    BY Window
  <2>4. \A i \in 1..k : sent_requests[i].n = a + i
    BY <2>2, <2>3 DEF ListsInv, WindowInv
  <2>5. {sent_requests[i].n : i \in DOMAIN sent_requests} = (a + 1)..(a + k)
    BY <2>2, <2>3, <2>4, ListTypes, NumberedFrom
  <2>6. ((a + 1)..(a + k)) \ {0} = (a + 1)..m
    BY <2>3
  <2>7. Numbers(sent_requests) = (a + 1)..m
    BY <2>5, <2>6 DEF Numbers
  <2>8. DOMAIN sent_requests = 1..k
    BY <2>2, <2>3, ListTypes, LenProperties
  <2>9. \A i, j \in 1..k : i < j => a + i < a + j
    BY <2>3
  <2>10. Ascending(sent_requests)
    BY <2>4, <2>8, <2>9 DEF Ascending
  <2> QED
    BY <2>1, <2>3, <2>7, <2>10
<1> QED
  BY <1>1, <1>2

\* The invariants on frames and wire hold in every reachable state.
LEMMA SpecWireInv ==
    Spec => [](TypeInv /\ SessionInv /\ TmpListInv /\ ListsInv /\ FramesInv /\ WireInv)
<1>1. Init => FramesInv /\ WireInv
  BY FramesInit, WireInit
<1>2. TypeInv /\ SessionInv /\ TmpListInv /\ TmpListInv' /\ ListsInv /\ FramesInv /\ WireInv /\ [Next]_vars
      => FramesInv' /\ WireInv'
  BY FramesStep, WireStep
<1> QED
  BY <1>1, <1>2, SpecListsInv, PTL DEF Spec

\* The requests that are waiting and the frames that are on the wire are the
\* same, in the same order, through errors and reconnections and while
\* callers queue: zookeeper_process may take the next reply for the answer to
\* the head of sent_requests.
THEOREM RepliesMatchRequests == Spec => []WireMatchesSent
  BY SpecWireInv, WireImplies, PTL

\* A success that is reported is a reply with the xid of the oldest request,
\* which the server has carried out.
LEMMA SuccessStep ==
    /\ TypeInv /\ TypeInv' /\ SessionInv /\ TmpListInv /\ ListsInv /\ FramesInv /\ WireInv
    /\ SuccessWasExecuted /\ [Next]_vars
    => SuccessWasExecuted'
<1> SUFFICES ASSUME TypeInv, TypeInv', SessionInv, TmpListInv, ListsInv, FramesInv, WireInv,
                    SuccessWasExecuted, [Next]_vars
             PROVE  SuccessWasExecuted'
  OBVIOUS
<1>1. ListsStep /\ executed \subseteq executed'
  BY ListsEffect, FramesStep
<1>2. ASSUME NEW e \in Entry, log' = Append(log, e),
             e.kind = "reply" /\ e.what = "ZOK" => e.n \in executed
      PROVE  SuccessWasExecuted'
  <2>1. PICK m \in Nat : m = Len(log) /\ DOMAIN log = 1..m
    BY ListTypes, LenProperties
  <2>2. DOMAIN log' = 1..(m + 1) /\ log'[m + 1] = e /\ \A i \in 1..m : log'[i] = log[i]
    BY <1>2, <2>1, ListTypes, AppendProperties
  <2>3. \A i \in 1..(m + 1) : i = m + 1 \/ i \in 1..m
    BY <2>1, SplitRange
  <2>4. \A i \in DOMAIN log' :
           log'[i].kind = "reply" /\ log'[i].what = "ZOK" => log'[i].n \in executed
    BY <1>2, <2>1, <2>2, <2>3 DEF SuccessWasExecuted
  <2> QED
    BY <1>1, <2>4 DEF SuccessWasExecuted
<1>3. CASE UNCHANGED log
  BY <1>1, <1>3 DEF SuccessWasExecuted
<1>4. ASSUME NEW c \in Codes, ListsAnswer(c) PROVE SuccessWasExecuted'
  <2>1. CASE UNCHANGED log
    BY <1>3, <2>1
  <2>2. CASE ~UNCHANGED log
    <3> DEFINE e == ReplyEntry(Head(outstanding).n, c)
    <3>1. log' = Append(log, e) /\ outstanding # <<>>
      BY <1>4, <2>2 DEF ListsAnswer
    <3>2. e \in Entry /\ e.what = c /\ e.n = Head(outstanding).n
      <4>1. Head(outstanding) \in Request
        BY <3>1, ListTypes, RequestList
      <4> QED
        BY <4>1, EntryTypes DEF ReplyEntry, Request
    <3>3. ASSUME c = "ZOK" PROVE Head(outstanding).n \in executed
      <4>1. ReadReply /\ Matches(Head(sent_requests), Head(s2c))
        BY <1>4, <3>3 DEF ListsAnswer
      <4>2. Head(s2c).n = answered + 1 /\ Head(outstanding).n = answered + 1 /\ outstanding = sent_requests
        BY <4>1, OldestAnswered
      <4>3. Head(s2c) \in Truthful(executed) /\ Head(sent_requests) \in Sendable
        BY <4>1, Unlisted DEF FramesInv, ReadReply, ReadFrame
      <4>4. Head(s2c).xid # NO_XID
        BY <4>1, <4>3 DEF Matches, Sendable
      <4>5. Head(s2c).n # 0
        BY <4>1, <4>3 DEF Truthful, Sound, ReadReply
      <4> QED
        BY <4>2, <4>3, <4>4, <4>5 DEF Truthful
    <3> HIDE DEF e
    <3> QED
      BY <1>2, <3>1, <3>2, <3>3
  <2> QED
    BY <2>1, <2>2
<1>5. ASSUME NEW e \in Entry, ListsTell(e) PROVE SuccessWasExecuted'
  BY <1>2, <1>5 DEF ListsTell
<1> QED
  BY <1>1, <1>3, <1>4, <1>5 DEF ListsStep, ListsKept, ListsAccept

\* No callback reports a success the server does not know of: a reply is
\* never taken for the answer to another request, whatever the server answers
\* and whichever request the connection was lost with.
THEOREM SuccessIsReal == Spec => []SuccessWasExecuted
<1>1. Init => SuccessWasExecuted
  BY DEF Init, SuccessWasExecuted, log
<1>2. TypeInv /\ TypeInv' /\ SessionInv /\ TmpListInv /\ ListsInv /\ FramesInv /\ WireInv
      /\ SuccessWasExecuted /\ [Next]_vars => SuccessWasExecuted'
  BY SuccessStep
<1> QED
  BY <1>1, <1>2, SpecWireInv, PTL DEF Spec
=============================================================================
