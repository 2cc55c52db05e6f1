--------------------------- MODULE KeepAliveProofs ---------------------------
(***************************************************************************)
(* Proofs about KeepAlive, for all timeouts, delays, lags and numbers of   *)
(* requests that satisfy its assumptions: a server that answers promptly   *)
(* is never given up, and the handle does not believe in a dead            *)
(* connection for longer than the session timeout and a few rounds.        *)
(***************************************************************************)
EXTENDS KeepAlive, SequenceTheorems, TLAPS

InDialog == zstate \in {"ASSOCIATING", "CONNECTED"}

\* The server has written something that is not an event.
HasAnswer == s2c # <<>> /\ s2c # <<"event">>

\* How many answers can be read.
Answers == Len(s2c) - (IF s2c # <<>> /\ s2c[1] = "event" THEN 1 ELSE 0)

(***************************************************************************)
(* What waits where: the replies that are due, by the state of the handle. *)
(***************************************************************************)
RoundInv ==
    /\ zstate = "EXPIRED" <=> phase = "ended"
    /\ zstate \in {"CONNECTING", "ASSOCIATING", "CONNECTED"} => connect_index < AddrsCount
    /\ zstate = "CONNECTED" /\ phase = "poll" /\ wantWrite => to_send > 0
    /\ zstate = "CONNECTING" /\ link = "up" => phase = "poll" /\ wantWrite /\ idle_recv <= lag

DueInv ==
    /\ ~ InDialog => unanswered = <<>> /\ s2c = <<>>
    /\ unanswered # <<>> => link = "up"
    /\ \A i, j \in DOMAIN unanswered : i < j => unanswered[j] <= unanswered[i]
    /\ zstate # "CONNECTED" => sent_requests = to_send
    /\ zstate = "ASSOCIATING" =>
         /\ s2c = <<>> \/ (s2c = <<"primer">> /\ unanswered = <<>>)
         /\ Len(unanswered) <= 1
         /\ link = "up" => unanswered # <<>> \/ s2c # <<>>
    /\ zstate = "CONNECTED" =>
         /\ \A i \in DOMAIN s2c : s2c[i] = "answer" \/ (i = 1 /\ s2c[i] = "event")
         /\ to_send + Len(unanswered) + Answers <= sent_requests
         /\ link = "up" => to_send + Len(unanswered) + Answers = sent_requests

(***************************************************************************)
(* How old the last receive is.  Nothing is heard for a third of the       *)
(* timeout at most before something is sent, and what is sent is answered. *)
(***************************************************************************)
Quiet == zstate = "CONNECTED" /\ link = "up" /\ unanswered = <<>>

\* With nothing to wait for, the server spoke last.
LastWordInv ==
    /\ InDialog /\ link = "up" => heard <= idle_send
    /\ Quiet /\ ~ HasAnswer => idle_recv <= idle_send

ReceiveInv ==
    /\ zstate \in {"CONNECTING", "ASSOCIATING", "CONNECTED"} =>
         /\ phase = "interest" => idle_recv <= ReceiveWithin + lag
         /\ phase = "poll" => idle_recv + tv <= ReceiveWithin + lag
    /\ InDialog /\ link = "up" /\ unanswered # <<>> /\ s2c = <<>> =>
         idle_recv <= SendAfter + 2 * MaxLag + unanswered[1]
    /\ InDialog /\ link = "up" /\ s2c # <<>> =>
         /\ phase = "interest" => idle_recv <= SendAfter + 2 * MaxLag + MaxDelay + lag
         /\ phase = "poll" => idle_recv <= SendAfter + 3 * MaxLag + MaxDelay + lag
    /\ Quiet /\ s2c = <<>> =>
         /\ phase = "interest" => idle_recv <= SendAfter + lag
         /\ phase = "poll" /\ ~ wantWrite => idle_recv + tv <= SendAfter + lag
         /\ phase = "poll" /\ wantWrite => idle_recv <= SendAfter + MaxLag + lag

(***************************************************************************)
(* How old the last message is that the server heard, at the time when     *)
(* everything has been read that it wrote: one message for every round.    *)
(***************************************************************************)
Rounds(n) == n * MaxLag

UntilRead == MaxLag - lag + Rounds(IF phase = "poll" THEN Len(s2c) - 1 ELSE Len(s2c))

HeardInv ==
    /\ InDialog /\ link = "up" => \A i \in DOMAIN unanswered : heard <= unanswered[i]
    /\ InDialog /\ HasAnswer => heard + UntilRead <= MaxDelay + Rounds(MaxRequests + 2)
    /\ InDialog /\ s2c # <<>> => heard + UntilRead <= SendAfter + 2 * MaxLag
    /\ Quiet =>
         /\ phase = "interest" => heard <= SendAfter + lag
         /\ phase = "poll" /\ ~ wantWrite => heard <= SendAfter + lag
         /\ phase = "poll" /\ ~ wantWrite /\ s2c = <<>> => heard + tv <= SendAfter + lag
         /\ phase = "poll" /\ wantWrite /\ s2c = <<>> => heard <= SendAfter + MaxLag + lag
    /\ zstate = "CONNECTED" /\ link # "up" /\ s2c = <<>> =>
         heard <= idle_recv + SendAfter + 2 * MaxLag

WaitInv == RoundInv /\ DueInv
AgeInv == LastWordInv /\ ReceiveInv /\ HeardInv

-----------------------------------------------------------------------------
(* Arithmetic.                                                             *)

\* What the assumptions say of a timeout t, whose third is a ping's and two thirds the
\* limit of zookeeper_interest.
LEMMA Margins ==
    ASSUME NEW t \in Timeouts
    PROVE  /\ t \in Nat /\ t <= LongAgo /\ LongAgo \in Nat
           /\ t \div 3 \in Nat /\ (t * 2) \div 3 \in Nat
           /\ t \div 3 + (t * 2) \div 3 <= t
           /\ (t \div 3) + MaxDelay + 4 * MaxLag < (t * 2) \div 3
           /\ MaxDelay + Rounds(MaxRequests + 1) <= t \div 3
<1>1. PICK m \in Timeouts : \A u \in Timeouts : u <= m
  BY TimeAssumption
<1> DEFINE longest == CHOOSE m2 \in Timeouts : \A u \in Timeouts : u <= m2
<1>2. longest \in Timeouts /\ \A u \in Timeouts : u <= longest
  BY <1>1
<1>3. t \in Nat /\ longest \in Nat
  BY <1>2, TimeAssumption
<1>4. LongAgo = 2 * longest
  BY DEF LongAgo
<1> HIDE DEF longest
<1>5. t <= LongAgo /\ LongAgo \in Nat
  BY <1>2, <1>3, <1>4
<1>6. t \div 3 \in Nat /\ (t * 2) \div 3 \in Nat /\ t \div 3 + (t * 2) \div 3 <= t
  BY <1>3
<1>7. MaxDelay + Rounds(MaxRequests + 1) <= t \div 3
  BY MarginAssumption DEF Rounds
<1> QED
  BY <1>3, <1>5, <1>6, <1>7, MarginAssumption

\* One more message takes one more round.
LEMMA RoundsOf ==
    ASSUME NEW n \in Nat
    PROVE  /\ Rounds(n) \in Nat
           /\ Rounds(0) = 0
           /\ Rounds(n + 1) = Rounds(n) + MaxLag
           /\ \A m \in Nat : m <= n => Rounds(m) <= Rounds(n)
<1>1. MaxLag \in Nat
  BY TimeAssumption
<1>2. \A m, d \in Nat : (m + d) * MaxLag = m * MaxLag + d * MaxLag /\ d * MaxLag \in Nat
  BY <1>1
<1>3. ASSUME NEW m \in Nat, m <= n PROVE Rounds(m) <= Rounds(n)
  <2>1. n - m \in Nat /\ n = m + (n - m)
    BY <1>3
  <2>2. n * MaxLag = m * MaxLag + (n - m) * MaxLag /\ (n - m) * MaxLag \in Nat
    BY <2>1, <1>2
  <2>3. m * MaxLag \in Nat
    BY <1>2
  <2> QED
    BY <2>2, <2>3 DEF Rounds
<1>4. Rounds(n) \in Nat /\ Rounds(0) = 0 /\ Rounds(n + 1) = Rounds(n) + MaxLag
  BY <1>1, <1>2 DEF Rounds
<1> QED
  BY <1>3, <1>4

\* An age grows by one at most, and two ages keep their order.
LEMMA Aging ==
    ASSUME NEW a \in 0 .. LongAgo, NEW b \in 0 .. LongAgo, LongAgo \in Nat
    PROVE  /\ Older(a) \in 0 .. LongAgo /\ Older(a) <= a + 1
           /\ a <= b => Older(a) <= Older(b)
           /\ \A d \in Nat : a <= b + d => Older(a) <= Older(b) + d
  BY DEF Older, Smaller
\* The parts of the timeout of a poll.
LEMMA PollTime ==
    ASSUME NEW a \in Nat, NEW b \in Nat
    PROVE  /\ Ago(a, b) \in Nat /\ Ago(a, b) <= a /\ (b < a => Ago(a, b) + b = a)
           /\ Smaller(a, b) \in Nat /\ Smaller(a, b) <= a /\ Smaller(a, b) <= b
  BY DEF Ago, Smaller

-----------------------------------------------------------------------------
(* Queues.                                                                 *)

\* What is left of a queue when its head is taken.
LEMMA TailOf ==
    ASSUME NEW S, NEW q \in Seq(S), q # <<>>
    PROVE  /\ Head(q) = q[1] /\ q[1] \in S
           /\ Tail(q) \in Seq(S) /\ Len(Tail(q)) = Len(q) - 1
           /\ Len(q) \in Nat \ {0} /\ (Tail(q) = <<>> <=> Len(q) = 1)
           /\ \A i \in DOMAIN Tail(q) :
                i \in Nat \ {0} /\ i + 1 \in DOMAIN q /\ Tail(q)[i] = q[i + 1]
<1>1. Len(q) \in Nat \ {0} /\ Head(q) = q[1] /\ q[1] \in S
  OBVIOUS
<1>2. Tail(q) \in Seq(S) /\ Len(Tail(q)) = Len(q) - 1
  OBVIOUS
<1>3. \A i \in 1 .. (Len(q) - 1) : Tail(q)[i] = q[i + 1]
  OBVIOUS
<1>4. Tail(q) = <<>> <=> Len(q) = 1
  <2>1. Tail(q) = <<>> <=> Len(Tail(q)) = 0
    BY <1>2, EmptySeq, Zenon
  <2>2. Len(Tail(q)) = 0 <=> Len(q) = 1
    BY <1>1, <1>2
  <2> QED
    BY <2>1, <2>2
<1>5. DOMAIN Tail(q) = 1 .. (Len(q) - 1) /\ DOMAIN q = 1 .. Len(q)
  BY <1>1, <1>2
<1> QED
  BY <1>1, <1>2, <1>3, <1>4, <1>5

\* The ages of what is unanswered.
LEMMA AgesOf ==
    ASSUME NEW q \in Seq(0 .. MaxDelay)
    PROVE  /\ Len(q) \in Nat /\ DOMAIN q = 1 .. Len(q) /\ (q # <<>> => 1 \in DOMAIN q)
           /\ \A i \in DOMAIN q : i \in Nat /\ q[i] \in Nat /\ q[i] <= MaxDelay
<1>1. Len(q) \in Nat /\ DOMAIN q = 1 .. Len(q)
  OBVIOUS
<1>2. q # <<>> => Len(q) # 0
  BY EmptySeq
<1> DEFINE S == 0 .. MaxDelay
<1>3. \A i \in DOMAIN q : q[i] \in S
  <2>1. q \in Seq(S)
    OBVIOUS
  <2> HIDE DEF S
  <2> QED
    BY <2>1
<1>4. MaxDelay \in Nat
  BY TimeAssumption
<1> QED
  BY <1>1, <1>2, <1>3, <1>4

\* A queue with one message more.
LEMMA AppendTo ==
    ASSUME NEW S, NEW q \in Seq(S), NEW e \in S
    PROVE  /\ Append(q, e) \in Seq(S) /\ Append(q, e) # <<>>
           /\ Len(Append(q, e)) = Len(q) + 1
           /\ DOMAIN Append(q, e) = 1 .. (Len(q) + 1) /\ DOMAIN q = 1 .. Len(q)
           /\ Append(q, e)[Len(q) + 1] = e
           /\ \A i \in DOMAIN q : Append(q, e)[i] = q[i]
  OBVIOUS

\* What is flushed joins what is unanswered, with age 0.
LEMMA FlushedTo ==
    ASSUME NEW S, 0 \in S, NEW q \in Seq(S), NEW n \in Nat
    PROVE  LET r == q \o [i \in 1 .. n |-> 0] IN
           /\ r \in Seq(S) /\ Len(r) = Len(q) + n
           /\ DOMAIN r = 1 .. (Len(q) + n) /\ DOMAIN q = 1 .. Len(q)
           /\ \A i \in DOMAIN q : r[i] = q[i]
           /\ \A i \in DOMAIN r \ DOMAIN q : r[i] = 0
<1> DEFINE z == [i \in 1 .. n |-> 0]
<1>1. z \in Seq(S) /\ Len(z) = n /\ \A i \in 1 .. n : z[i] = 0
  OBVIOUS
<1> HIDE DEF z
<1>2. q \o z \in Seq(S) /\ Len(q \o z) = Len(q) + n
  BY <1>1
<1>3. \A i \in 1 .. (Len(q) + n) : (q \o z)[i] = IF i <= Len(q) THEN q[i] ELSE z[i - Len(q)]
  BY <1>1
<1>4. \A i \in DOMAIN q : (q \o z)[i] = q[i]
  BY <1>3
<1>5. \A i \in DOMAIN (q \o z) \ DOMAIN q : (q \o z)[i] = 0
  BY <1>1, <1>2, <1>3
<1> QED
  BY <1>2, <1>4, <1>5 DEF z

-----------------------------------------------------------------------------
(* Types, and what waits where.                                            *)

TypeInv == TypeOK /\ WaitInv

\* Nothing waits in the initial state.
LEMMA TypeInit == Init => TypeInv
<1> SUFFICES ASSUME Init PROVE TypeInv
  OBVIOUS
<1>1. recv_timeout \in Timeouts /\ LongAgo \in Nat
  BY Margins DEF Init
<1>2. TypeOK
  <2>1. unanswered \in Seq(0 .. MaxDelay) /\ s2c \in Seq({"primer", "answer", "event"})
    BY DEF Init
  <2>2. wantWrite \in BOOLEAN /\ pipe \in BOOLEAN
    BY Zenon DEF Init
  <2> QED
    BY <1>1, <2>1, <2>2, TimeAssumption DEF Init, TypeOK
<1>3. WaitInv
  BY DEF Init, WaitInv, RoundInv, DueInv, InDialog
<1> QED
  BY <1>2, <1>3 DEF TypeInv

\* However a connection is left, nothing waits any more.
LEMMA Left ==
    ASSUME TypeInv, zstate # "EXPIRED", NEW state \in {"NONE", "EXPIRED"}, HandleError(state),
           zstate = "NONE" => connect_index < AddrsCount,
           UNCHANGED clock, tv' \in 0 .. LongAgo, wantWrite' \in BOOLEAN, pipe' \in BOOLEAN,
           phase' \in {"interest", "poll", "ended"}, lag' \in 0 .. MaxLag,
           UNCHANGED session, state = "EXPIRED" <=> phase' = "ended"
    PROVE  TypeInv'
<1>1. TypeOK'
  <2>1. unanswered' \in Seq(0 .. MaxDelay) /\ s2c' \in Seq({"primer", "answer", "event"})
    BY DEF HandleError
  <2>2. connect_index' \in 0 .. AddrsCount
    <3>1. connect_index \in 0 .. AddrsCount /\ connect_index < AddrsCount
      BY DEF TypeInv, TypeOK, WaitInv, RoundInv
    <3> QED
      BY <3>1, TimeAssumption DEF HandleError
  <2>3. /\ zstate' \in {"NONE", "EXPIRED"} /\ recv_timeout' \in Timeouts
        /\ to_send' = 0 /\ sent_requests' = 0 /\ link' = "up"
    BY DEF HandleError, TypeInv, TypeOK
  <2>4. /\ {idle_recv', idle_send', heard'} \subseteq 0 .. LongAgo
        /\ session' \in {"none", "live", "gone"} /\ MaxRequests \in Nat
    BY TimeAssumption DEF clock, TypeInv, TypeOK
  <2>5. to_send' \in 0 .. MaxRequests /\ sent_requests' \in 0 .. MaxRequests
    BY <2>3, <2>4
  <2> QED
    BY <2>1, <2>2, <2>3, <2>4, <2>5 DEF TypeOK
<1>2. WaitInv'
  BY DEF WaitInv, RoundInv, DueInv, InDialog, HandleError
<1> QED
  BY <1>1, <1>2 DEF TypeInv

\* What waits is counted in sent_requests.
LEMMA Counted ==
    ASSUME TypeInv
    PROVE  /\ Answers \in Nat /\ Len(unanswered) \in Nat /\ Len(s2c) \in Nat
           /\ to_send \in 0 .. MaxRequests /\ sent_requests \in 0 .. MaxRequests
           /\ MaxRequests \in Nat
           /\ to_send <= sent_requests
           /\ s2c # <<>> => Len(s2c) >= 1
<1>1. /\ unanswered \in Seq(0 .. MaxDelay) /\ s2c \in Seq({"primer", "answer", "event"})
      /\ to_send \in 0 .. MaxRequests /\ sent_requests \in 0 .. MaxRequests
      /\ zstate \in {"NONE", "CONNECTING", "ASSOCIATING", "CONNECTED", "EXPIRED"}
  BY DEF TypeInv, TypeOK
<1>2. Len(unanswered) \in Nat /\ Len(s2c) \in Nat /\ (s2c # <<>> => Len(s2c) >= 1)
  <2>1. s2c = <<>> <=> Len(s2c) = 0
    BY <1>1, EmptySeq, Zenon
  <2> QED
    BY <1>1, <2>1
<1>3. Answers \in Nat
  BY <1>2 DEF Answers
<1>4. CASE zstate = "CONNECTED"
  <2>1. to_send + Len(unanswered) + Answers <= sent_requests
    BY <1>4 DEF TypeInv, WaitInv, DueInv
  <2> QED
    BY <1>1, <1>2, <1>3, <2>1, TimeAssumption
<1>5. CASE zstate # "CONNECTED"
  <2>1. to_send = sent_requests
    BY <1>5 DEF TypeInv, WaitInv, DueInv
  <2> QED
    BY <1>1, <1>2, <1>3, <2>1, TimeAssumption
<1> QED
  BY <1>4, <1>5

\* A step that counts what it queues, and no more, changes nothing of what is due.
LEMMA DueKept ==
    ASSUME TypeInv, UNCHANGED <<zstate, link, unanswered, s2c>>,
           NEW n \in Nat, to_send' = to_send + n, sent_requests' = sent_requests + n
    PROVE  DueInv'
<1>1. Answers' = Answers
  BY DEF Answers
<1>2. /\ to_send + n + Len(unanswered) + Answers <= sent_requests + n
         <=> to_send + Len(unanswered) + Answers <= sent_requests
      /\ to_send + n + Len(unanswered) + Answers = sent_requests + n
         <=> to_send + Len(unanswered) + Answers = sent_requests
      /\ to_send + n = sent_requests + n <=> to_send = sent_requests
  <2> DEFINE a == Answers
             u == Len(unanswered)
  <2>1. a \in Nat /\ u \in Nat /\ to_send \in Nat /\ sent_requests \in Nat
    BY Counted
  <2> HIDE DEF a, u
  <2>2. /\ to_send + n + u + a <= sent_requests + n <=> to_send + u + a <= sent_requests
        /\ to_send + n + u + a = sent_requests + n <=> to_send + u + a = sent_requests
        /\ to_send + n = sent_requests + n <=> to_send = sent_requests
    BY <2>1
  <2> QED
    BY <2>2 DEF a, u
<1> QED
  BY <1>1, <1>2, Zenon DEF TypeInv, WaitInv, DueInv, InDialog

\* After the handshake the answer to it is due, if the server is reached.
LEMMA DuePrimed ==
    ASSUME TypeInv, ~ InDialog, Prime, link' \in {"up", "lost", "stuck"},
           UNCHANGED <<to_send, sent_requests, s2c>>
    PROVE  DueInv' /\ unanswered' \in Seq(0 .. MaxDelay)
<1>1. 0 \in 0 .. MaxDelay
  BY TimeAssumption
<1>2. /\ <<0>> \in Seq(0 .. MaxDelay) /\ <<>> \in Seq(0 .. MaxDelay) /\ <<0>> # <<>>
      /\ Len(<<0>>) = 1 /\ Len(<< >>) = 0 /\ DOMAIN <<0>> = {1}
  BY <1>1
<1>3. unanswered = <<>> /\ s2c = <<>> /\ sent_requests = to_send
  BY DEF TypeInv, WaitInv, DueInv, InDialog
<1>4. /\ zstate' = "ASSOCIATING" /\ s2c' = <<>> /\ sent_requests' = to_send'
      /\ unanswered' = IF link' = "up" THEN <<0>> ELSE <<>>
  BY <1>3 DEF Prime
<1>5. \A i, j \in DOMAIN unanswered' : i < j => unanswered'[j] <= unanswered'[i]
  BY <1>2, <1>4
<1>6. Len(unanswered') <= 1
  BY <1>2, <1>4
<1> QED
  BY <1>2, <1>4, <1>5, <1>6 DEF DueInv, InDialog

\* The steps of the client, but for Process.
LEMMA ClientSteps ==
    ASSUME TypeInv,
           WaitABit \/ Connect \/ ConnectRefused \/ ReceiveTimeout \/ Interest \/ ConnectFinished
             \/ SessionExpired \/ SocketError \/ Request
    PROVE  TypeInv'
<1> USE TimeAssumption
<1>a. /\ SendAfter \in 0 .. LongAgo /\ LongAgo \in Nat
      /\ ReceiveWithin \in Nat /\ MaxLag \in Nat
  <2>1. recv_timeout \in Timeouts
    BY DEF TypeInv, TypeOK
  <2>2. /\ SendAfter \in Nat /\ ReceiveWithin \in Nat /\ recv_timeout \in Nat /\ LongAgo \in Nat
        /\ SendAfter + ReceiveWithin <= recv_timeout /\ recv_timeout <= LongAgo
    BY <2>1, Margins, Zenon DEF SendAfter, ReceiveWithin
  <2> QED
    BY <2>2
<1>b. wantWrite' \in BOOLEAN /\ pipe' \in BOOLEAN
  <2>1. wantWrite \in BOOLEAN /\ pipe \in BOOLEAN
    BY DEF TypeInv, TypeOK
  <2>2. (to_send' > 0 \/ zstate = "CONNECTING") \in BOOLEAN /\ (to_send > 0) \in BOOLEAN
    OBVIOUS
  <2> QED
    BY <2>1, <2>2, Zenon
       DEF WaitABit, Connect, ConnectRefused, ReceiveTimeout, Interest, ConnectFinished,
           SessionExpired, SocketError, Request, StartPoll, NextRound, loop, Prime
<1>1. CASE WaitABit
  <2>1. TypeOK'
    BY <1>1, <1>a, <1>b DEF TypeInv, TypeOK, WaitABit, StartPoll, server
  <2>2. WaitInv'
    BY <1>1 DEF TypeInv, WaitInv, RoundInv, DueInv, InDialog, Answers, WaitABit, StartPoll, server
  <2> QED
    BY <2>1, <2>2 DEF TypeInv
<1>2. CASE Connect
  <2>1. DueInv' /\ unanswered' \in Seq(0 .. MaxDelay)
    <3>1. CASE zstate' = "CONNECTING"
      BY <1>2, <3>1 DEF TypeInv, TypeOK, WaitInv, DueInv, InDialog, Connect, Prime
    <3>2. CASE zstate' # "CONNECTING"
      BY <1>2, <3>2, DuePrimed DEF Connect, Prime, InDialog
    <3> QED
      BY <3>1, <3>2
  <2>2. /\ zstate' \in {"CONNECTING", "ASSOCIATING"} /\ link' \in {"up", "stuck", "lost"}
        /\ heard' \in {0, heard} /\ session' \in {session, "gone"}
        /\ tv' = SendAfter /\ phase' = "poll" /\ lag' = 0
        /\ idle_recv' = 0 /\ idle_send' = 0
        /\ UNCHANGED <<connect_index, recv_timeout, to_send, sent_requests, s2c>>
    BY <1>2 DEF Connect, Prime, StartPoll
  <2>4. TypeOK'
    <3>1. /\ {idle_recv', idle_send', heard'} \subseteq 0 .. LongAgo
          /\ tv' \in 0 .. LongAgo /\ lag' \in 0 .. MaxLag
      BY <1>a, <1>b, <2>2, SMTT(30) DEF TypeInv, TypeOK
    <3>2. wantWrite' \in BOOLEAN /\ pipe' \in BOOLEAN
      BY <1>b
    <3>3. session' \in {"none", "live", "gone"}
      BY <2>2 DEF TypeInv, TypeOK
    <3> QED
      BY <2>1, <2>2, <3>1, <3>2, <3>3 DEF TypeInv, TypeOK
  <2>3. RoundInv'
    BY <1>2, <1>a DEF TypeInv, TypeOK, WaitInv, RoundInv, Connect, Prime, StartPoll
  <2> QED
    BY <2>1, <2>3, <2>4 DEF TypeInv, WaitInv
<1>3. CASE ConnectRefused
  BY <1>3, <1>a, <1>b, Left DEF ConnectRefused, StartPoll, TypeInv, TypeOK, clock, WaitInv, RoundInv
<1>4. CASE ReceiveTimeout
  BY <1>4, <1>a, <1>b, Left DEF ReceiveTimeout, HasSocket, StartPoll, TypeInv, TypeOK
<1>5. CASE SessionExpired
  BY <1>5, <1>a, Left
     DEF SessionExpired, StartPoll, TypeInv, TypeOK, PollReturns, Readable, WaitInv, RoundInv, DueInv,
         InDialog
<1>6. CASE SocketError
  BY <1>6, <1>a, Left DEF SocketError, NextRound, StartPoll, TypeInv, TypeOK
<1>7. CASE Interest
  <2>1. DueInv'
    <3>1. CASE PingDue
      BY <1>7, <3>1, DueKept DEF Interest, server
    <3>2. CASE ~ PingDue
      BY <1>7, <3>2, DueKept, Counted DEF Interest, server
    <3> QED
      BY <3>1, <3>2
  <2>2. to_send' \in 0 .. MaxRequests /\ sent_requests' \in 0 .. MaxRequests
    BY <1>7, Counted DEF Interest, PingDue
  <2>3. tv' \in 0 .. LongAgo
    <3>1. idle_recv \in Nat /\ idle_send \in Nat /\ SendAfter \in Nat
      BY <1>a DEF TypeInv, TypeOK
    <3>2. PICK a \in Nat, b \in Nat : b <= SendAfter /\ tv' = Smaller(a, b)
      <4>1. /\ Ago(ReceiveWithin, idle_recv) \in Nat
            /\ Ago(SendAfter, idle_send) \in Nat /\ Ago(SendAfter, idle_send) <= SendAfter
        BY <3>1, <1>a, PollTime
      <4>2. SendAfter <= SendAfter
        BY <3>1
      <4> QED
        BY <1>7, <3>1, <4>1, <4>2, Zenon DEF Interest, StartPoll
    <3>3. tv' \in Nat /\ tv' <= b
      BY <3>2, PollTime
    <3> QED
      BY <1>a, <3>2, <3>3
  <2>4. TypeOK'
    BY <1>7, <1>a, <1>b, <2>2, <2>3, SMTT(30) DEF TypeInv, TypeOK, Interest, StartPoll, clock, server
  <2>5. RoundInv'
    BY <1>7 DEF TypeInv, TypeOK, WaitInv, RoundInv, Interest, HasSocket, PingDue, StartPoll,
                clock, server
  <2> QED
    BY <2>1, <2>4, <2>5 DEF TypeInv, WaitInv
<1>8. CASE ConnectFinished
  <2>1. DueInv' /\ unanswered' \in Seq(0 .. MaxDelay)
    BY <1>8, DuePrimed DEF TypeInv, TypeOK, ConnectFinished, InDialog
  <2>2. TypeOK'
    BY <1>8, <1>a, <1>b, <2>1 DEF TypeInv, TypeOK, ConnectFinished, PollReturns, Prime, NextRound
  <2>3. RoundInv'
    BY <1>8 DEF TypeInv, WaitInv, RoundInv, ConnectFinished, PollReturns, Prime, NextRound
  <2> QED
    BY <2>1, <2>2, <2>3 DEF TypeInv, WaitInv
<1>9. CASE Request
  <2>1. DueInv'
    BY <1>9, DueKept DEF Request, server
  <2>2. to_send' \in 0 .. MaxRequests /\ sent_requests' \in 0 .. MaxRequests
    BY <1>9, Counted DEF Request
  <2>3. TypeOK'
    BY <1>9, <1>a, <1>b, <2>2 DEF TypeInv, TypeOK, Request, clock, loop, server
  <2>4. RoundInv'
    BY <1>9, Counted DEF TypeInv, TypeOK, WaitInv, RoundInv, Request, clock, loop, server
  <2> QED
    BY <2>1, <2>3, <2>4 DEF TypeInv, WaitInv
<1> QED
  BY <1>1, <1>2, <1>3, <1>4, <1>5, <1>6, <1>7, <1>8, <1>9

\* The message that is read: after the first one there are only answers.
LEMMA ReadOne ==
    ASSUME TypeInv, zstate = "CONNECTED", s2c # <<>>, s2c' = Tail(s2c)
    PROVE  /\ Head(s2c) \in {"answer", "event"}
           /\ s2c' \in Seq({"primer", "answer", "event"}) /\ Len(s2c') = Len(s2c) - 1
           /\ \A i \in DOMAIN s2c' : s2c'[i] = "answer"
           /\ Answers' = Answers - (IF Head(s2c) = "answer" THEN 1 ELSE 0)
           /\ Head(s2c) = "answer" => Answers >= 1
           /\ s2c' # <<>> => HasAnswer /\ HasAnswer'
<1>1. s2c \in Seq({"primer", "answer", "event"})
  BY DEF TypeInv, TypeOK
<1>2. /\ Head(s2c) = s2c[1] /\ s2c' \in Seq({"primer", "answer", "event"})
      /\ Len(s2c') = Len(s2c) - 1 /\ Len(s2c) \in Nat \ {0}
      /\ s2c' = <<>> <=> Len(s2c) = 1
      /\ \A i \in DOMAIN s2c' : i \in Nat \ {0} /\ i + 1 \in DOMAIN s2c /\ s2c'[i] = s2c[i + 1]
  BY <1>1, TailOf
<1>3. \A i \in DOMAIN s2c : s2c[i] = "answer" \/ (i = 1 /\ s2c[i] = "event")
  BY DEF TypeInv, WaitInv, DueInv
<1>4. 1 \in DOMAIN s2c
  BY <1>1, <1>2
<1>5. \A i \in DOMAIN s2c' : s2c'[i] = "answer"
  BY <1>2, <1>3
<1>6. s2c' # <<>> => 1 \in DOMAIN s2c' /\ Len(s2c) >= 2
  BY <1>2
<1>7. Answers' = Len(s2c')
  <2>1. ~ (s2c' # <<>> /\ s2c'[1] = "event")
    BY <1>5, <1>6
  <2>2. Answers' = Len(s2c') - 0
    BY <2>1, Zenon DEF Answers
  <2> QED
    BY <1>2, <2>2
<1>8. /\ s2c[1] = "answer" \/ s2c[1] = "event"
      /\ Answers = Len(s2c) - (IF s2c[1] = "event" THEN 1 ELSE 0)
  BY <1>3, <1>4 DEF Answers
<1>9. s2c' # <<>> => HasAnswer /\ HasAnswer'
  <2> SUFFICES ASSUME s2c' # <<>> PROVE HasAnswer /\ HasAnswer'
    OBVIOUS
  <2>1. Len(<<"event">>) = 1 /\ <<"event">>[1] = "event"
    OBVIOUS
  <2>2. s2c # <<"event">>
    BY <1>6, <2>1
  <2>3. s2c'[1] = "answer"
    BY <1>5, <1>6
  <2>4. s2c' # <<"event">>
    BY <2>1, <2>3
  <2> QED
    BY <2>2, <2>4 DEF HasAnswer
<1>10. /\ Answers' = Answers - (IF Head(s2c) = "answer" THEN 1 ELSE 0)
       /\ Head(s2c) = "answer" => Answers >= 1
  <2>1. /\ Len(s2c) \in Nat \ {0} /\ Answers' = Len(s2c) - 1
        /\ Answers = Len(s2c) - (IF s2c[1] = "event" THEN 1 ELSE 0) /\ Head(s2c) = s2c[1]
    BY <1>2, <1>7, <1>8
  <2>2. CASE s2c[1] = "answer"
    BY <2>1, <2>2
  <2>3. CASE s2c[1] = "event"
    BY <2>1, <2>3
  <2> QED
    BY <1>8, <2>2, <2>3
<1> QED
  BY <1>2, <1>5, <1>8, <1>9, <1>10

\* What Process does: it sends what waits, or cannot, and reads one message, or none.
Flushed ==
    /\ zstate = "CONNECTED" /\ wantWrite /\ link # "stuck" /\ to_send > 0
    /\ to_send' = 0 /\ idle_send' = 0
    /\ IF link = "up"
       THEN /\ heard' = 0 /\ unanswered' # <<>>
            /\ Len(unanswered') = Len(unanswered) + to_send
            /\ \A i \in DOMAIN unanswered : i \in DOMAIN unanswered' /\ unanswered'[i] = unanswered[i]
            /\ \A i \in DOMAIN unanswered' \ DOMAIN unanswered : unanswered'[i] = 0
            /\ DOMAIN unanswered' = 1 .. Len(unanswered')
       ELSE heard' = heard /\ unanswered' = <<>>

NothingFlushed ==
    /\ zstate = "CONNECTED" => ~ wantWrite \/ link # "up"
    /\ UNCHANGED <<to_send, idle_send, heard, unanswered>>

NothingRead ==
    s2c = <<>> /\ UNCHANGED <<zstate, recv_timeout, idle_recv, sent_requests, s2c, session>>

PrimerRead ==
    /\ zstate = "ASSOCIATING" /\ s2c = <<"primer">> /\ unanswered = <<>>
    /\ zstate' = "CONNECTED" /\ s2c' = <<>> /\ recv_timeout' \in Timeouts
    /\ idle_recv' = 0 /\ session' = "live" /\ UNCHANGED sent_requests

MessageRead ==
    /\ zstate = "CONNECTED" /\ s2c # <<>> /\ s2c' = Tail(s2c)
    /\ sent_requests' = sent_requests - (IF Head(s2c) = "answer" THEN 1 ELSE 0)
    /\ idle_recv' = 0 /\ UNCHANGED <<zstate, recv_timeout, session>>

\* What a round of Process leaves: it flushes what is queued, and reads one message or none.
LEMMA ProcessEffect ==
    ASSUME TypeInv, Process
    PROVE  /\ phase = "poll" /\ phase' = "interest" /\ pipe' = FALSE
           /\ UNCHANGED <<connect_index, link, tv, wantWrite, lag>>
           /\ Flushed \/ NothingFlushed
           /\ NothingRead \/ PrimerRead \/ MessageRead
           /\ unanswered' \in Seq(0 .. MaxDelay)
<1>1. /\ phase = "poll" /\ phase' = "interest" /\ pipe' = FALSE
      /\ UNCHANGED <<connect_index, link, tv, wantWrite, lag>>
  BY Zenon DEF Process, PollReturns, NextRound
<1>2. unanswered \in Seq(0 .. MaxDelay) /\ 0 \in 0 .. MaxDelay /\ to_send \in Nat
  BY TimeAssumption DEF TypeInv, TypeOK
<1>3. (Flushed \/ NothingFlushed) /\ unanswered' \in Seq(0 .. MaxDelay)
  <2>1. CASE Writable /\ to_send > 0 /\ zstate = "CONNECTED"
    <3>1. /\ to_send' = 0 /\ idle_send' = 0 /\ heard' = IF link = "up" THEN 0 ELSE heard
          /\ unanswered' = IF link = "up" THEN unanswered \o [i \in 1 .. to_send |-> 0] ELSE <<>>
      BY <2>1 DEF Process, Flush, FlushedClock
    <3>2. CASE link = "up"
      <4>1. unanswered' = unanswered \o [i \in 1 .. to_send |-> 0]
        BY <3>1, <3>2
      <4>2. /\ unanswered' \in Seq(0 .. MaxDelay)
            /\ Len(unanswered') = Len(unanswered) + to_send
            /\ DOMAIN unanswered' = 1 .. (Len(unanswered) + to_send)
            /\ DOMAIN unanswered = 1 .. Len(unanswered)
            /\ \A i \in DOMAIN unanswered : unanswered'[i] = unanswered[i]
            /\ \A i \in DOMAIN unanswered' \ DOMAIN unanswered : unanswered'[i] = 0
        BY <1>2, <4>1, FlushedTo
      <4>3. Len(unanswered) \in Nat /\ unanswered' # <<>>
        BY <1>2, <2>1, <4>2
      <4>4. \A i \in DOMAIN unanswered : i \in DOMAIN unanswered'
        BY <1>2, <4>2, <4>3
      <4>5. DOMAIN unanswered' = 1 .. Len(unanswered')
        BY <4>2
      <4>6. Flushed
        BY <2>1, <3>1, <3>2, <4>2, <4>3, <4>4, <4>5, Zenon DEF Flushed, Writable
      <4> QED
        BY <4>2, <4>6
    <3>3. CASE link # "up"
      BY <2>1, <3>1, <3>3 DEF Flushed, Writable
    <3> QED
      BY <3>2, <3>3
  <2>2. CASE ~ (Writable /\ to_send > 0 /\ zstate = "CONNECTED")
    <3>1. UNCHANGED <<to_send, idle_send, heard, unanswered>>
      BY <2>2 DEF Process, Flush
    <3>2. zstate = "CONNECTED" /\ wantWrite => to_send > 0
      BY <1>1 DEF TypeInv, WaitInv, RoundInv
    <3> QED
      BY <1>2, <2>2, <3>1, <3>2 DEF NothingFlushed, Writable
  <2> QED
    BY <2>1, <2>2
<1>4. NothingRead \/ PrimerRead \/ MessageRead
  <2>1. CASE ~ Readable
    BY <2>1 DEF Process, ReceiveOne, NothingRead, Readable
  <2>2. CASE Readable /\ zstate = "ASSOCIATING"
    <3>1. s2c = <<"primer">> /\ unanswered = <<>> /\ Head(s2c) = "primer" /\ Tail(s2c) = <<>>
      <4>1. s2c = <<"primer">> /\ unanswered = <<>>
        BY <2>2 DEF TypeInv, WaitInv, DueInv, Readable
      <4> QED
        BY <4>1
    <3> QED
      BY <2>2, <3>1 DEF Process, ReceiveOne, PrimerRead
  <2>3. CASE Readable /\ zstate = "CONNECTED"
    <3>1. Head(s2c) # "primer"
      <4> DEFINE t == Tail(s2c)
      <4>1. s2c \in Seq({"primer", "answer", "event"}) /\ s2c # <<>>
        BY <2>3 DEF TypeInv, TypeOK, Readable
      <4>2. Head(s2c) = s2c[1] /\ 1 \in DOMAIN s2c
        BY <4>1
      <4> QED
        BY <2>3, <4>2 DEF TypeInv, WaitInv, DueInv
    <3> QED
      BY <2>3, <3>1 DEF Process, ReceiveOne, MessageRead, Readable
  <2>4. zstate \in {"ASSOCIATING", "CONNECTED"} \/ ~ Readable
    BY DEF TypeInv, WaitInv, DueInv, InDialog, Readable
  <2> QED
    BY <2>1, <2>2, <2>3, <2>4
<1> QED
  BY <1>1, <1>3, <1>4

\* A round of Process keeps the types, and what is counted and due.
LEMMA ProcessStep ==
    ASSUME TypeInv, Process
    PROVE  TypeInv'
<1>1. /\ phase = "poll" /\ phase' = "interest" /\ pipe' = FALSE
      /\ UNCHANGED <<connect_index, link, tv, wantWrite, lag>>
      /\ Flushed \/ NothingFlushed
      /\ NothingRead \/ PrimerRead \/ MessageRead
      /\ unanswered' \in Seq(0 .. MaxDelay)
  BY ProcessEffect
<1>2. /\ Answers \in Nat /\ Len(unanswered) \in Nat
      /\ to_send \in 0 .. MaxRequests /\ sent_requests \in 0 .. MaxRequests
      /\ to_send <= sent_requests /\ MaxRequests \in Nat
  BY Counted
<1>3. \A i, j \in DOMAIN unanswered' : i < j => unanswered'[j] <= unanswered'[i]
  <2>1. \A i \in DOMAIN unanswered' : unanswered'[i] \in Nat /\ i \in Nat
    <3>1. unanswered' \in Seq(0 .. MaxDelay)
      BY <1>1
    <3> QED
      BY <3>1, AgesOf
  <2>2. \A i, j \in DOMAIN unanswered : i < j => unanswered[j] <= unanswered[i]
    BY DEF TypeInv, WaitInv, DueInv
  <2>3. CASE Flushed /\ link = "up"
    <3> SUFFICES ASSUME NEW i \in DOMAIN unanswered', NEW j \in DOMAIN unanswered', i < j
                 PROVE  unanswered'[j] <= unanswered'[i]
      OBVIOUS
    <3>1. DOMAIN unanswered = 1 .. Len(unanswered)
      BY DEF TypeInv, TypeOK
    <3>2. CASE j \in DOMAIN unanswered
      <4>1. i \in DOMAIN unanswered
        BY <1>2, <2>1, <3>1, <3>2
      <4> QED
        BY <2>2, <2>3, <3>2, <4>1 DEF Flushed
    <3>3. CASE j \notin DOMAIN unanswered
      BY <2>1, <2>3, <3>3 DEF Flushed
    <3> QED
      BY <3>2, <3>3
  <2>4. CASE Flushed /\ link # "up"
    BY <2>4 DEF Flushed
  <2>5. CASE NothingFlushed
    BY <2>2, <2>5 DEF NothingFlushed
  <2> QED
    BY <1>1, <2>3, <2>4, <2>5
<1>4. DueInv' /\ sent_requests' \in 0 .. MaxRequests /\ to_send' \in 0 .. MaxRequests
  <2>1. unanswered' # <<>> => link' = "up"
    BY <1>1 DEF TypeInv, WaitInv, DueInv, Flushed, NothingFlushed
  <2>2. CASE NothingRead
    <3>1. Answers' = Answers
      BY <2>2 DEF NothingRead, Answers
    <3>2. CASE Flushed
      <4>1. /\ zstate = "CONNECTED" /\ zstate' = "CONNECTED" /\ sent_requests' = sent_requests
            /\ to_send' = 0 /\ s2c' = s2c
            /\ link = "up" => Len(unanswered') = Len(unanswered) + to_send
            /\ link # "up" => unanswered' = <<>>
        BY <2>2, <3>2 DEF NothingRead, Flushed
      <4>2. /\ to_send' + Len(unanswered') + Answers' <= sent_requests'
            /\ link = "up" => to_send' + Len(unanswered') + Answers' = sent_requests'
        BY <1>2, <3>1, <4>1 DEF TypeInv, WaitInv, DueInv
      <4> QED
        BY <1>1, <1>2, <1>3, <2>1, <4>1, <4>2 DEF TypeInv, WaitInv, DueInv, InDialog
    <3>3. CASE NothingFlushed
      <4>1. UNCHANGED <<zstate, link, unanswered, s2c, to_send, sent_requests>>
        BY <1>1, <2>2, <3>3 DEF NothingRead, NothingFlushed
      <4> QED
        BY <1>2, <4>1, DueKept
    <3> QED
      BY <1>1, <3>2, <3>3
  <2>3. CASE PrimerRead
    <3>1. zstate' = "CONNECTED" /\ s2c' = <<>> /\ sent_requests' = sent_requests
      BY <2>3 DEF PrimerRead
    <3>2. unanswered' = <<>> /\ to_send' = to_send /\ to_send = sent_requests
      BY <1>1, <2>3 DEF PrimerRead, Flushed, NothingFlushed, TypeInv, WaitInv, DueInv
    <3>3. Answers' = 0 /\ Len(unanswered') = 0
      BY <3>1, <3>2 DEF Answers
    <3>4. \A i \in DOMAIN s2c' : s2c'[i] = "answer"
      BY <3>1
    <3> QED
      BY <1>2, <1>3, <2>1, <3>1, <3>2, <3>3, <3>4 DEF DueInv, InDialog
  <2>4. CASE MessageRead
    <3>1. /\ zstate = "CONNECTED" /\ zstate' = "CONNECTED"
          /\ sent_requests' = sent_requests - (IF Head(s2c) = "answer" THEN 1 ELSE 0)
      BY <2>4 DEF MessageRead
    <3>2. /\ Answers' = Answers - (IF Head(s2c) = "answer" THEN 1 ELSE 0)
          /\ Head(s2c) = "answer" => Answers >= 1
          /\ \A i \in DOMAIN s2c' : s2c'[i] = "answer"
      BY <2>4, ReadOne DEF MessageRead
    <3>3. /\ to_send + Len(unanswered) + Answers <= sent_requests
          /\ link = "up" => to_send + Len(unanswered) + Answers = sent_requests
      BY <3>1 DEF TypeInv, WaitInv, DueInv
    <3>4. /\ to_send' \in Nat /\ Len(unanswered') \in Nat
          /\ to_send' + Len(unanswered') <= to_send + Len(unanswered)
          /\ link = "up" => to_send' + Len(unanswered') = to_send + Len(unanswered)
      BY <1>1, <1>2 DEF Flushed, NothingFlushed
    <3>5. /\ to_send' + Len(unanswered') + Answers' <= sent_requests'
          /\ link' = "up" => to_send' + Len(unanswered') + Answers' = sent_requests'
          /\ to_send' \in 0 .. MaxRequests /\ sent_requests' \in 0 .. MaxRequests
      BY <1>1, <1>2, <3>1, <3>2, <3>3, <3>4
    <3> QED
      BY <1>3, <2>1, <3>1, <3>2, <3>5 DEF DueInv, InDialog
  <2> QED
    BY <1>1, <2>2, <2>3, <2>4
<1>5. s2c' \in Seq({"primer", "answer", "event"})
  <2>1. CASE MessageRead
    BY <2>1, ReadOne DEF MessageRead
  <2>2. CASE NothingRead \/ PrimerRead
    BY <2>2 DEF NothingRead, PrimerRead, TypeInv, TypeOK
  <2> QED
    BY <1>1, <2>1, <2>2
<1>6. wantWrite' \in BOOLEAN /\ pipe' \in BOOLEAN
  BY <1>1, Zenon DEF TypeInv, TypeOK
<1>7. /\ zstate' \in {zstate, "CONNECTED"} /\ recv_timeout' \in Timeouts
      /\ idle_recv' \in {0, idle_recv} /\ session' \in {session, "live"}
      /\ idle_send' \in {0, idle_send} /\ heard' \in {0, heard}
  <2>1. idle_send' \in {0, idle_send} /\ heard' \in {0, heard}
    BY <1>1 DEF Flushed, NothingFlushed
  <2>2. idle_recv' \in {0, idle_recv} /\ zstate' \in {zstate, "CONNECTED"} /\ session' \in {session, "live"}
    BY <1>1 DEF NothingRead, PrimerRead, MessageRead
  <2>3. recv_timeout' \in Timeouts
    BY <1>1 DEF NothingRead, PrimerRead, MessageRead, TypeInv, TypeOK
  <2> QED
    BY <2>1, <2>2, <2>3
<1>8. TypeOK'
  <2>1. LongAgo \in Nat
    BY Margins DEF TypeInv, TypeOK
  <2>2. /\ idle_recv' \in 0 .. LongAgo /\ idle_send' \in 0 .. LongAgo /\ heard' \in 0 .. LongAgo
        /\ tv' \in 0 .. LongAgo /\ lag' \in 0 .. MaxLag /\ connect_index' \in 0 .. AddrsCount
    BY <1>1, <1>7, <2>1, SMTT(30) DEF TypeInv, TypeOK
  <2>3. /\ zstate' \in {"NONE", "CONNECTING", "ASSOCIATING", "CONNECTED", "EXPIRED"}
        /\ phase' = "interest" /\ link' \in {"up", "lost", "stuck"}
        /\ session' \in {"none", "live", "gone"}
    BY <1>1, <1>7 DEF TypeInv, TypeOK
  <2> QED
    BY <1>1, <1>4, <1>5, <1>6, <1>7, <2>2, <2>3 DEF TypeOK
<1>9. RoundInv'
  <2>1. zstate' = zstate \/ (zstate = "ASSOCIATING" /\ zstate' = "CONNECTED")
    BY <1>1 DEF NothingRead, PrimerRead, MessageRead
  <2>2. ~ (zstate = "CONNECTING" /\ link = "up")
    BY DEF Process, Writable, TypeInv, WaitInv, RoundInv
  <2> QED
    BY <1>1, <2>1, <2>2 DEF TypeInv, WaitInv, RoundInv
<1> QED
  BY <1>4, <1>8, <1>9 DEF TypeInv, WaitInv

\* The steps of the server, the network and time.
LEMMA ServerSteps ==
    ASSUME TypeInv, ServerAnswers \/ ServerSendsEvent \/ LinkFails \/ Tick
    PROVE  TypeInv'
<1>1. /\ unanswered \in Seq(0 .. MaxDelay) /\ s2c \in Seq({"primer", "answer", "event"})
      /\ LongAgo \in Nat
  BY Margins DEF TypeInv, TypeOK
<1>2. wantWrite' \in BOOLEAN /\ pipe' \in BOOLEAN
  <2>1. wantWrite \in BOOLEAN /\ pipe \in BOOLEAN
    BY DEF TypeInv, TypeOK
  <2> QED
    BY <2>1, Zenon DEF ServerAnswers, ServerSendsEvent, LinkFails, Tick, loop
<1>3. CASE ServerAnswers
  <2> DEFINE e == IF zstate = "ASSOCIATING" THEN "primer" ELSE "answer"
  <2>1. /\ unanswered # <<>> /\ unanswered' = Tail(unanswered) /\ s2c' = Append(s2c, e)
        /\ UNCHANGED <<client, clock, loop, link, session, pipe>>
    BY <1>3 DEF ServerAnswers
  <2>2. e \in {"primer", "answer", "event"}
    OBVIOUS
  <2> HIDE DEF e
  <2>3. /\ unanswered' \in Seq(0 .. MaxDelay) /\ Len(unanswered') = Len(unanswered) - 1
        /\ Len(unanswered) \in Nat \ {0} /\ (unanswered' = <<>> <=> Len(unanswered) = 1)
        /\ \A i \in DOMAIN unanswered' :
             i \in Nat \ {0} /\ i + 1 \in DOMAIN unanswered /\ unanswered'[i] = unanswered[i + 1]
    BY <1>1, <2>1, TailOf
  <2>4. /\ s2c' \in Seq({"primer", "answer", "event"}) /\ s2c' # <<>>
        /\ Len(s2c') = Len(s2c) + 1
        /\ DOMAIN s2c' = 1 .. (Len(s2c) + 1) /\ DOMAIN s2c = 1 .. Len(s2c)
        /\ s2c'[Len(s2c) + 1] = e
        /\ \A i \in DOMAIN s2c : s2c'[i] = s2c[i]
    BY <1>1, <2>1, <2>2, AppendTo
  <2>5. TypeOK'
    BY <1>2, <2>1, <2>3, <2>4 DEF TypeInv, TypeOK, client, clock, loop
  <2>6. RoundInv'
    BY <2>1 DEF TypeInv, WaitInv, RoundInv, client, clock, loop
  <2>7. InDialog /\ link = "up"
    BY <2>1 DEF TypeInv, WaitInv, DueInv
  <2>8. \A i, j \in DOMAIN unanswered' : i < j => unanswered'[j] <= unanswered'[i]
    BY <2>3 DEF TypeInv, WaitInv, DueInv
  <2>9. CASE zstate = "ASSOCIATING"
    <3>1. s2c = <<>> /\ Len(unanswered) = 1 /\ e = "primer"
      BY <2>1, <2>3, <2>9 DEF TypeInv, WaitInv, DueInv, e
    <3>2. s2c' = <<"primer">> /\ unanswered' = <<>>
      BY <2>1, <2>3, <3>1
    <3> QED
      BY <2>1, <2>3, <2>5, <2>6, <2>7, <2>8, <2>9, <3>2
         DEF TypeInv, WaitInv, DueInv, InDialog, client
  <2>10. CASE zstate = "CONNECTED"
    <3>1. e = "answer"
      BY <2>10 DEF e
    <3>2. \A i \in DOMAIN s2c' : s2c'[i] = "answer" \/ (i = 1 /\ s2c'[i] = "event")
      BY <2>4, <2>10, <3>1, Counted DEF TypeInv, WaitInv, DueInv
    <3>3. Answers' = Answers + 1
      <4>1. CASE s2c = <<>>
        <5>1. Len(s2c) = 0 /\ s2c'[1] = "answer"
          BY <2>4, <3>1, <4>1
        <5> QED
          BY <2>4, <4>1, <5>1 DEF Answers
      <4>2. CASE s2c # <<>>
        <5>1. 1 \in DOMAIN s2c /\ s2c'[1] = s2c[1] /\ Len(s2c) \in Nat
          BY <1>1, <2>4, <4>2
        <5> QED
          BY <2>4, <4>2, <5>1 DEF Answers
      <4> QED
        BY <4>1, <4>2
    <3>4. to_send' + Len(unanswered') + Answers' = to_send + Len(unanswered) + Answers
      BY <2>1, <2>3, <3>3, Counted DEF client
    <3> QED
      BY <2>1, <2>5, <2>6, <2>7, <2>8, <2>10, <3>2, <3>4
         DEF TypeInv, WaitInv, DueInv, InDialog, client
  <2> QED
    BY <2>5, <2>6, <2>7, <2>9, <2>10 DEF TypeInv, WaitInv, InDialog
<1>4. CASE ServerSendsEvent
  <2>1. /\ link = "up" /\ zstate = "CONNECTED" /\ s2c = <<>> /\ s2c' = <<"event">>
        /\ UNCHANGED <<client, clock, loop, link, unanswered, session, pipe>>
    BY <1>4 DEF ServerSendsEvent
  <2>2. /\ <<"event">> \in Seq({"primer", "answer", "event"}) /\ Len(<<"event">>) = 1
        /\ <<"event">>[1] = "event" /\ DOMAIN <<"event">> = {1} /\ <<"event">> # <<>>
    OBVIOUS
  <2>3. TypeOK'
    BY <1>2, <2>1, <2>2 DEF TypeInv, TypeOK, client, clock, loop
  <2>4. Answers' = 0 /\ Answers = 0
    BY <2>1, <2>2 DEF Answers
  <2>5. WaitInv'
    BY <2>1, <2>2, <2>4 DEF TypeInv, WaitInv, RoundInv, DueInv, InDialog, client, clock, loop
  <2> QED
    BY <2>3, <2>5 DEF TypeInv
<1>5. CASE LinkFails
  <2>1. /\ zstate \in {"ASSOCIATING", "CONNECTED"} /\ link' \in {"lost", "stuck"}
        /\ unanswered' = <<>>
        /\ UNCHANGED <<client, clock, loop, s2c, session, pipe>>
    BY <1>5 DEF LinkFails
  <2>2. Answers' = Answers /\ Answers \in Nat /\ Len(unanswered) \in Nat /\ Len(<<>>) = 0
    BY <2>1, Counted DEF Answers
  <2>3. TypeOK'
    BY <1>2, <2>1 DEF TypeInv, TypeOK, client, clock, loop
  <2>4. RoundInv'
    BY <2>1 DEF TypeInv, WaitInv, RoundInv, client, clock, loop
  <2>5. zstate = "CONNECTED" => to_send' + Len(unanswered') + Answers' <= sent_requests'
    BY <2>1, <2>2, Counted DEF TypeInv, WaitInv, DueInv, client
  <2>6. DueInv'
    BY <2>1, <2>2, <2>5 DEF TypeInv, WaitInv, DueInv, InDialog, client
  <2> QED
    BY <2>3, <2>4, <2>6 DEF TypeInv, WaitInv
<1>6. CASE Tick
  <2>1. /\ phase # "ended"
        /\ unanswered # <<>> => Head(unanswered) < MaxDelay
        /\ unanswered' = [i \in DOMAIN unanswered |-> unanswered[i] + 1]
        /\ UNCHANGED <<client, wantWrite, phase, link, s2c, session, pipe>>
        /\ idle_recv' = Older(idle_recv) /\ idle_send' = Older(idle_send)
        /\ heard' = Older(heard)
    BY <1>6 DEF Tick
  <2>2. tv' \in 0 .. LongAgo /\ lag' \in 0 .. MaxLag
    <3>1. CASE Waiting
      <4>1. tv' = tv - 1 /\ lag' = lag /\ tv # 0
        BY <1>6, <3>1 DEF Tick, Waiting, PollReturns
      <4> QED
        BY <1>1, <4>1 DEF TypeInv, TypeOK
    <3>2. CASE ~ Waiting
      BY <1>6, <3>2, TimeAssumption, SMTT(30) DEF Tick, TypeInv, TypeOK
    <3> QED
      BY <3>1, <3>2
  <2>3. idle_recv' \in 0 .. LongAgo /\ idle_send' \in 0 .. LongAgo /\ heard' \in 0 .. LongAgo
    BY <1>1, <2>1, Aging DEF TypeInv, TypeOK
  <2>4. /\ unanswered' \in Seq(0 .. MaxDelay) /\ Len(unanswered') = Len(unanswered)
        /\ DOMAIN unanswered' = DOMAIN unanswered
        /\ \A i \in DOMAIN unanswered : unanswered'[i] = unanswered[i] + 1
    <3>1. \A i \in DOMAIN unanswered : unanswered[i] + 1 \in 0 .. MaxDelay
      <4>1. \A i \in DOMAIN unanswered : i # 1 => unanswered[i] <= unanswered[1]
        BY <1>1, AgesOf DEF TypeInv, WaitInv, DueInv
      <4>2. unanswered # <<>> => unanswered[1] < MaxDelay
        BY <1>1, <2>1, TailOf
      <4>3. \A i \in DOMAIN unanswered : unanswered # <<>> /\ 1 \in DOMAIN unanswered
        BY <1>1
      <4> SUFFICES ASSUME NEW i \in DOMAIN unanswered PROVE unanswered[i] + 1 \in 0 .. MaxDelay
        OBVIOUS
      <4>4. unanswered[i] \in Nat /\ unanswered[1] \in Nat /\ MaxDelay \in Nat
        BY <1>1, <4>3, AgesOf, TimeAssumption
      <4>5. unanswered[i] <= unanswered[1] /\ unanswered[1] < MaxDelay
        BY <4>1, <4>2, <4>3, <4>4
      <4> QED
        BY <4>4, <4>5
    <3>2. DOMAIN unanswered = 1 .. Len(unanswered) /\ Len(unanswered) \in Nat
      BY <1>1
    <3> QED
      BY <2>1, <3>1, <3>2
  <2>5. TypeOK'
    BY <1>2, <2>1, <2>2, <2>3, <2>4 DEF TypeInv, TypeOK, client
  <2>6. RoundInv'
    <3>1. zstate = "CONNECTING" /\ link = "up" => lag' = lag + 1 /\ idle_recv' <= idle_recv + 1
      BY <1>1, <1>6, <2>1, Aging
         DEF Tick, Waiting, PollReturns, Writable, TypeInv, TypeOK, WaitInv, RoundInv
    <3>2. idle_recv \in Nat /\ lag \in Nat /\ idle_recv' \in Nat
      BY <1>1, <2>3 DEF TypeInv, TypeOK
    <3> QED
      BY <2>1, <3>1, <3>2 DEF TypeInv, WaitInv, RoundInv, client
  <2>7. unanswered' # <<>> <=> unanswered # <<>>
    BY <1>1, <2>4, EmptySeq
  <2>8. \A i, j \in DOMAIN unanswered' : i < j => unanswered'[j] <= unanswered'[i]
    <3> SUFFICES ASSUME NEW i \in DOMAIN unanswered', NEW j \in DOMAIN unanswered', i < j
                 PROVE  unanswered'[j] <= unanswered'[i]
      OBVIOUS
    <3>1. i \in DOMAIN unanswered /\ j \in DOMAIN unanswered
      BY <2>4
    <3>2. unanswered[j] <= unanswered[i] /\ unanswered[i] \in Nat /\ unanswered[j] \in Nat
      BY <1>1, <3>1, AgesOf DEF TypeInv, WaitInv, DueInv
    <3> QED
      BY <2>4, <3>1, <3>2
  <2>9. Answers' = Answers /\ UNCHANGED <<zstate, link, s2c, to_send, sent_requests>>
    BY <2>1 DEF Answers, client
  <2>10. DueInv'
    BY <2>4, <2>7, <2>8, <2>9, Zenon DEF TypeInv, WaitInv, DueInv, InDialog
  <2> QED
    BY <2>5, <2>6, <2>10 DEF TypeInv, WaitInv
<1> QED
  BY <1>3, <1>4, <1>5, <1>6

\* Every step keeps the types, and what is counted and due.
LEMMA TypeStep ==
    ASSUME TypeInv, [Next]_vars
    PROVE  TypeInv'
<1>1. CASE UNCHANGED vars
  BY <1>1 DEF vars, client, clock, loop, server, TypeInv, TypeOK, WaitInv, RoundInv, DueInv, InDialog,
              Answers
<1>2. CASE Next
  BY <1>2, ClientSteps, ProcessStep, ServerSteps DEF Next, IoThread
<1> QED
  BY <1>1, <1>2

\* Every variable keeps its type: no age, poll timeout or queue leaves its bounds, and
\* sent_requests does not fall below the answers that come (zookeeper_interest,
\* zookeeper_process).
THEOREM TypeCorrect == Spec => []TypeOK
<1>1. TypeInv => TypeOK
  BY DEF TypeInv
<1> QED
  BY <1>1, TypeInit, TypeStep, PTL DEF Spec

-----------------------------------------------------------------------------
(* Ages.                                                                   *)

\* The ages are numbers, and the age of the last word is one of them.
LEMMA Ages ==
    ASSUME TypeInv
    PROVE  /\ idle_recv \in 0 .. LongAgo /\ idle_send \in 0 .. LongAgo /\ heard \in 0 .. LongAgo
           /\ LongAgo \in Nat /\ tv \in Nat /\ lag \in Nat /\ lag <= MaxLag
           /\ MaxLag \in Nat /\ MaxDelay \in Nat
           /\ recv_timeout \in Nat /\ SendAfter \in Nat /\ ReceiveWithin \in Nat
           /\ SendAfter + ReceiveWithin <= recv_timeout
           /\ SendAfter + MaxDelay + 4 * MaxLag < ReceiveWithin
           /\ Rounds(MaxRequests + 1) \in Nat
           /\ MaxDelay + Rounds(MaxRequests + 1) <= SendAfter
           /\ Rounds(MaxRequests + 2) = Rounds(MaxRequests + 1) + MaxLag
           /\ MaxLag <= Rounds(MaxRequests + 1)
<1>1. recv_timeout \in Timeouts
  BY DEF TypeInv, TypeOK
<1>2. /\ recv_timeout \in Nat /\ LongAgo \in Nat
      /\ SendAfter \in Nat /\ ReceiveWithin \in Nat
      /\ SendAfter + ReceiveWithin <= recv_timeout
      /\ SendAfter + MaxDelay + 4 * MaxLag < ReceiveWithin
      /\ MaxDelay + Rounds(MaxRequests + 1) <= SendAfter
  BY <1>1, Margins, Zenon DEF SendAfter, ReceiveWithin
<1>3. /\ Rounds(MaxRequests + 1) \in Nat
      /\ Rounds(MaxRequests + 2) = Rounds(MaxRequests + 1) + MaxLag
      /\ MaxLag <= Rounds(MaxRequests + 1)
  <2>1. MaxRequests \in Nat /\ MaxRequests + 1 \in Nat /\ MaxRequests + 2 = (MaxRequests + 1) + 1
    BY TimeAssumption
  <2>2. Rounds(1) = MaxLag
    BY TimeAssumption DEF Rounds
  <2>3. 1 <= MaxRequests + 1
    BY <2>1
  <2> QED
    BY <2>1, <2>2, <2>3, RoundsOf
<1>4. /\ idle_recv \in 0 .. LongAgo /\ idle_send \in 0 .. LongAgo /\ heard \in 0 .. LongAgo
      /\ tv \in Nat /\ lag \in Nat /\ lag <= MaxLag /\ MaxLag \in Nat /\ MaxDelay \in Nat
  BY TimeAssumption DEF TypeInv, TypeOK
<1> QED
  BY <1>2, <1>3, <1>4

\* The rounds that reading takes, by the phase.
LEMMA ReadingTakes ==
    ASSUME TypeInv, s2c # <<>>, phase # "ended"
    PROVE  /\ Rounds(Len(s2c) - 1) \in Nat /\ Rounds(Len(s2c)) = Rounds(Len(s2c) - 1) + MaxLag
           /\ UntilRead = MaxLag - lag + Rounds(Len(s2c) - 1) + (IF phase = "poll" THEN 0 ELSE MaxLag)
           /\ HasAnswer => Rounds(Len(s2c) - 1) + MaxLag <= Rounds(MaxRequests + 1)
<1>1. Len(s2c) \in Nat /\ Len(s2c) - 1 \in Nat /\ Len(s2c) = (Len(s2c) - 1) + 1
  BY Counted
<1>2. Rounds(Len(s2c) - 1) \in Nat /\ Rounds(Len(s2c)) = Rounds(Len(s2c) - 1) + MaxLag
  BY <1>1, RoundsOf
<1>3. UntilRead = MaxLag - lag + Rounds(Len(s2c) - 1) + (IF phase = "poll" THEN 0 ELSE MaxLag)
  <2>1. MaxLag \in Nat /\ lag \in Nat
    BY Ages
  <2>2. CASE phase = "poll"
    BY <1>2, <2>1, <2>2 DEF UntilRead
  <2>3. CASE phase # "poll"
    BY <1>2, <2>1, <2>3 DEF UntilRead
  <2> QED
    BY <2>2, <2>3
<1>4. Len(s2c) <= MaxRequests + 1
  <2>1. InDialog
    BY DEF TypeInv, WaitInv, DueInv
  <2>2. CASE zstate = "ASSOCIATING"
    <3>1. s2c = <<"primer">>
      BY <2>2 DEF TypeInv, WaitInv, DueInv
    <3>2. Len(s2c) = 1
      BY <3>1
    <3> QED
      BY <3>2, Counted
  <2>3. CASE zstate = "CONNECTED"
    BY <2>3, Counted DEF TypeInv, WaitInv, DueInv, Answers
  <2> QED
    BY <2>1, <2>2, <2>3 DEF InDialog
<1>5. Rounds(Len(s2c)) <= Rounds(MaxRequests + 1)
  BY <1>1, <1>4, RoundsOf, TimeAssumption
<1> QED
  BY <1>2, <1>3, <1>5

\* There is no connection in the initial state, so nothing is said of ages.
LEMMA AgeInit == Init => AgeInv
  BY DEF Init, AgeInv, LastWordInv, ReceiveInv, HeardInv, InDialog, Quiet

\* A connection that is left, or a pause: nothing is said of ages.
LEMMA AgeLeft ==
    ASSUME zstate' \in {"NONE", "EXPIRED"}
    PROVE  AgeInv'
  BY DEF AgeInv, LastWordInv, ReceiveInv, HeardInv, InDialog, Quiet

\* A step that changes nothing these are about.
LEMMA AgeKept ==
    ASSUME AgeInv, UNCHANGED <<zstate, recv_timeout, clock, loop, server>>
    PROVE  AgeInv'
<1>1. SendAfter' = SendAfter /\ ReceiveWithin' = ReceiveWithin /\ UntilRead' = UntilRead
  BY DEF clock, loop, server, SendAfter, ReceiveWithin, UntilRead
<1> QED
  BY <1>1 DEF AgeInv, LastWordInv, ReceiveInv, HeardInv, InDialog, Quiet, HasAnswer, clock, loop, server

\* A new connection has age 0.
LEMMA AgeConnect ==
    ASSUME TypeInv, AgeInv, Connect \/ ConnectFinished
    PROVE  AgeInv'
<1>1. /\ <<0>>[1] = 0 /\ DOMAIN <<0>> = {1} /\ <<0>> # <<>>
  OBVIOUS
<1>2. SendAfter' = SendAfter /\ ReceiveWithin' = ReceiveWithin
  BY DEF Connect, ConnectFinished, SendAfter, ReceiveWithin
<1>3. zstate' \in {"CONNECTING", "ASSOCIATING"} /\ s2c' = <<>> /\ phase' # "ended"
  BY DEF Connect, ConnectFinished, Prime, StartPoll, NextRound, TypeInv, WaitInv, DueInv, InDialog
<1>4. zstate' = "ASSOCIATING" /\ link' = "up" => heard' = 0 /\ unanswered' = <<0>>
  BY DEF Connect, ConnectFinished, Prime
<1>5. CASE Connect
  <2>1. idle_recv' = 0 /\ idle_send' = 0 /\ tv' = SendAfter /\ lag' = 0 /\ phase' = "poll"
    BY <1>5 DEF Connect, StartPoll
  <2>2. LastWordInv'
    BY <1>3, <1>4, <2>1 DEF LastWordInv, InDialog, Quiet
  <2>3. ReceiveInv'
    <3>1. idle_recv' + tv' <= ReceiveWithin' + lag'
      BY <1>2, <2>1, Ages
    <3>2. zstate' = "ASSOCIATING" /\ link' = "up" =>
            idle_recv' <= SendAfter' + 2 * MaxLag + unanswered'[1]
      <4>1. 0 <= SendAfter + 2 * MaxLag + 0
        BY Ages
      <4> QED
        BY <1>1, <1>2, <1>4, <2>1, <4>1
    <3> QED
      BY <1>3, <2>1, <3>1, <3>2 DEF ReceiveInv, InDialog, Quiet
  <2>4. HeardInv'
    BY <1>1, <1>3, <1>4 DEF HeardInv, InDialog, Quiet, HasAnswer
  <2> QED
    BY <2>2, <2>3, <2>4 DEF AgeInv
<1>6. CASE ConnectFinished
  <2>1. /\ zstate = "CONNECTING" /\ phase = "poll" /\ phase' = "interest"
        /\ UNCHANGED <<idle_recv, idle_send, lag, link>>
    BY <1>6 DEF ConnectFinished, PollReturns, NextRound
  <2>2. idle_recv + tv <= ReceiveWithin + lag /\ (link = "up" => idle_recv <= lag)
    BY <2>1 DEF AgeInv, ReceiveInv, TypeInv, WaitInv, RoundInv
  <2>3. LastWordInv'
    <3>1. 0 <= idle_send
      BY Ages
    <3> QED
      BY <1>3, <1>4, <2>1, <3>1 DEF LastWordInv, InDialog, Quiet
  <2>4. ReceiveInv'
    <3>1. idle_recv' <= ReceiveWithin' + lag'
      BY <1>2, <2>1, <2>2, Ages
    <3>2. zstate' = "ASSOCIATING" /\ link' = "up" =>
            idle_recv' <= SendAfter' + 2 * MaxLag + unanswered'[1]
      <4>1. link = "up" => idle_recv <= SendAfter + 2 * MaxLag + 0
        BY <2>2, Ages
      <4> QED
        BY <1>1, <1>2, <1>4, <2>1, <4>1
    <3> QED
      BY <1>3, <2>1, <3>1, <3>2 DEF ReceiveInv, InDialog, Quiet
  <2>5. HeardInv'
    BY <1>1, <1>3, <1>4 DEF HeardInv, InDialog, Quiet, HasAnswer
  <2> QED
    BY <2>3, <2>4, <2>5 DEF AgeInv
<1> QED
  BY <1>5, <1>6

\* The poll ends in time for the next ping and for the limit of the receive.
LEMMA AgeInterest ==
    ASSUME TypeInv, AgeInv, Interest
    PROVE  AgeInv'
<1>1. /\ phase = "interest" /\ phase' = "poll" /\ lag' = 0 /\ idle_recv < ReceiveWithin
      /\ UNCHANGED <<zstate, recv_timeout, clock, server>>
      /\ zstate \in {"CONNECTING", "ASSOCIATING", "CONNECTED"}
  BY Zenon DEF Interest, HasSocket, StartPoll
<1>2. /\ UNCHANGED <<idle_recv, idle_send, heard, link, unanswered, s2c>>
      /\ SendAfter' = SendAfter /\ ReceiveWithin' = ReceiveWithin
  BY <1>1 DEF clock, server, SendAfter, ReceiveWithin
<1>3. /\ idle_recv \in Nat /\ idle_send \in Nat /\ heard \in Nat /\ lag \in Nat /\ MaxLag \in Nat
      /\ SendAfter \in Nat /\ ReceiveWithin \in Nat /\ MaxDelay \in Nat /\ lag <= MaxLag
      /\ to_send \in Nat /\ sent_requests \in Nat
  BY Ages, Counted
<1>4. PICK n \in Nat :
        /\ tv' = Smaller(Ago(ReceiveWithin, idle_recv), n)
        /\ zstate = "CONNECTED" /\ ~ PingDue => n = Ago(SendAfter, idle_send)
  <2>1. Ago(SendAfter, idle_send) \in Nat
    BY <1>3, PollTime
  <2> QED
    BY <1>3, <2>1, Zenon DEF Interest, StartPoll
<1> DEFINE t == Smaller(Ago(ReceiveWithin, idle_recv), n)
<1>5. tv' = t /\ t \in Nat /\ idle_recv + t <= ReceiveWithin /\ t <= n
  <2> DEFINE a == Ago(ReceiveWithin, idle_recv)
  <2>1. a \in Nat /\ a + idle_recv = ReceiveWithin
    BY <1>1, <1>3, PollTime
  <2>2. tv' = t
    BY <1>4
  <2> HIDE DEF a
  <2>3. Smaller(a, n) \in Nat /\ Smaller(a, n) <= a /\ Smaller(a, n) <= n
    BY <2>1, PollTime
  <2>4. idle_recv + Smaller(a, n) <= ReceiveWithin
    BY <1>3, <2>1, <2>3
  <2> QED
    BY <2>2, <2>3, <2>4 DEF a
<1> HIDE DEF t
<1>6. ASSUME Quiet, ~ wantWrite'
      PROVE  IF s2c = <<>> THEN idle_recv + t <= SendAfter /\ heard + t <= SendAfter
                           ELSE heard <= SendAfter
  <2>1. to_send' = 0 /\ ~ PingDue /\ to_send = 0
    <3>1. wantWrite' = (to_send' > 0 \/ zstate = "CONNECTING")
      BY Zenon DEF Interest, StartPoll
    <3>2. ~ (to_send' > 0)
      BY <1>6, <3>1, Zenon
    <3>3. to_send' = to_send + (IF PingDue THEN 1 ELSE 0)
      BY Zenon DEF Interest
    <3>4. ~ PingDue
      <4> SUFFICES ASSUME PingDue PROVE FALSE
        OBVIOUS
      <4>1. to_send' = to_send + 1
        BY <3>3, Zenon
      <4> QED
        BY <1>3, <3>2, <4>1
    <3>5. to_send' = to_send + 0
      BY <3>3, <3>4, Zenon
    <3> QED
      BY <1>3, <3>2, <3>4, <3>5
  <2>2. zstate = "CONNECTED" /\ link = "up" /\ unanswered = <<>>
    BY <1>6 DEF Quiet
  <2>3. heard <= idle_send /\ (~ HasAnswer => idle_recv <= idle_send)
    BY <1>6, <2>2 DEF AgeInv, LastWordInv, InDialog
  <2>4. sent_requests = 0 => idle_send < SendAfter /\ t <= SendAfter - idle_send
    <3>1. SUFFICES ASSUME sent_requests = 0 PROVE idle_send < SendAfter /\ t <= SendAfter - idle_send
      OBVIOUS
    <3>2. idle_send < SendAfter
      BY <1>3, <2>1, <2>2, <3>1 DEF PingDue
    <3>3. n + idle_send = SendAfter /\ t <= n
      BY <1>3, <1>4, <1>5, <2>1, <2>2, <3>2, PollTime
    <3> QED
      BY <1>3, <1>4, <1>5, <3>2, <3>3
  <2>5. Len(unanswered) = 0 /\ to_send + Len(unanswered) + Answers = sent_requests
    BY <2>2 DEF TypeInv, WaitInv, DueInv
  <2>6. Answers = sent_requests
    BY <2>1, <2>5, Counted
  <2>7. CASE s2c = <<>>
    <3>1. ~ HasAnswer /\ Answers = 0
      BY <2>7 DEF HasAnswer, Answers
    <3>2. heard <= idle_send /\ idle_recv <= idle_send /\ idle_send < SendAfter
          /\ t <= SendAfter - idle_send /\ t \in Nat
      BY <1>5, <2>3, <2>4, <2>6, <3>1, Zenon
    <3>3. idle_recv + t <= SendAfter /\ heard + t <= SendAfter
      BY <1>3, <3>2
    <3> QED
      BY <2>7, <3>3
  <2>8. CASE s2c = <<"event">>
    <3>1. s2c # <<>> /\ Answers = 0
      BY <2>8 DEF Answers
    <3> QED
      BY <1>3, <1>5, <2>3, <2>4, <2>6, <3>1
  <2>9. CASE HasAnswer
    <3>1. s2c # <<>> /\ heard + UntilRead <= MaxDelay + Rounds(MaxRequests + 2)
      BY <2>2, <2>9 DEF AgeInv, HeardInv, InDialog, HasAnswer
    <3> DEFINE r == Rounds(Len(s2c) - 1)
               b == Rounds(MaxRequests + 1)
    <3>2. UntilRead = MaxLag - lag + r + MaxLag /\ r \in Nat
      BY <1>1, <3>1, ReadingTakes
    <3>3. /\ b \in Nat /\ Rounds(MaxRequests + 2) = b + MaxLag
          /\ MaxDelay + b <= SendAfter
      BY Ages
    <3> HIDE DEF r, b
    <3>4. heard <= SendAfter
      BY <1>3, <3>1, <3>2, <3>3
    <3> QED
      BY <3>1, <3>4
  <2> QED
    BY <2>7, <2>8, <2>9 DEF HasAnswer
<1>7. LastWordInv'
  BY <1>1, <1>2 DEF AgeInv, LastWordInv, InDialog, Quiet, HasAnswer
<1>8. ReceiveInv'
  <2>1. idle_recv' + tv' <= ReceiveWithin' + lag'
    <3>1. idle_recv + t <= ReceiveWithin + 0
      BY <1>3, <1>5
    <3> QED
      BY <1>1, <1>2, <1>5, <3>1
  <2>2. (InDialog /\ link = "up" /\ unanswered # <<>> /\ s2c = <<>> =>
           idle_recv <= SendAfter + 2 * MaxLag + unanswered[1])'
    BY <1>1, <1>2 DEF AgeInv, ReceiveInv, InDialog
  <2>3. (InDialog /\ link = "up" /\ s2c # <<>> => idle_recv <= SendAfter + 3 * MaxLag + MaxDelay + lag)'
    <3>1. InDialog /\ link = "up" /\ s2c # <<>> => idle_recv <= SendAfter + 2 * MaxLag + MaxDelay + lag
      BY <1>1 DEF AgeInv, ReceiveInv
    <3>2. InDialog /\ link = "up" /\ s2c # <<>> => idle_recv <= SendAfter + 3 * MaxLag + MaxDelay + 0
      BY <1>3, <3>1
    <3> QED
      BY <1>1, <1>2, <3>2 DEF InDialog
  <2>4. (Quiet /\ s2c = <<>> => (~ wantWrite => idle_recv + tv <= SendAfter + lag))'
    <3>1. Quiet /\ ~ wantWrite' /\ s2c = <<>> => idle_recv + t <= SendAfter + 0
      BY <1>3, <1>6
    <3> QED
      BY <1>1, <1>2, <1>5, <3>1 DEF Quiet
  <2>5. (Quiet /\ s2c = <<>> => idle_recv <= SendAfter + MaxLag + lag)'
    <3>1. Quiet /\ s2c = <<>> => idle_recv <= SendAfter + lag
      BY <1>1 DEF AgeInv, ReceiveInv
    <3> QED
      BY <1>1, <1>2, <1>3, <3>1 DEF Quiet
  <2> QED
    BY <1>1, <2>1, <2>2, <2>3, <2>4, <2>5 DEF ReceiveInv
<1>9. HeardInv'
  <2>1. s2c # <<>> => UntilRead' = UntilRead - (MaxLag - lag) /\ UntilRead' \in Nat
    <3> SUFFICES ASSUME s2c # <<>> PROVE UntilRead' = UntilRead - (MaxLag - lag) /\ UntilRead' \in Nat
      OBVIOUS
    <3>1. /\ Rounds(Len(s2c) - 1) \in Nat
          /\ UntilRead = MaxLag - lag + Rounds(Len(s2c) - 1) + MaxLag
      BY <1>1, ReadingTakes
    <3>2. UntilRead' = MaxLag - 0 + Rounds(Len(s2c) - 1)
      BY <1>1, <1>2, Zenon DEF UntilRead
    <3> QED
      BY <1>3, <3>1, <3>2
  <2>2. s2c # <<>> => heard + UntilRead' <= heard + UntilRead
    BY <1>3, <2>1, ReadingTakes, <1>1
  <2>3. \A b \in Nat : s2c # <<>> /\ heard + UntilRead <= b => heard + UntilRead' <= b
    BY <1>1, <1>3, <2>1, <2>2, ReadingTakes
  <2>4. MaxDelay + Rounds(MaxRequests + 2) \in Nat /\ SendAfter + 2 * MaxLag \in Nat
    BY <1>3, Ages
  <2>5. (InDialog /\ HasAnswer => heard + UntilRead <= MaxDelay + Rounds(MaxRequests + 2))'
    BY <1>1, <1>2, <2>3, <2>4 DEF AgeInv, HeardInv, InDialog, HasAnswer
  <2>6. (InDialog /\ s2c # <<>> => heard + UntilRead <= SendAfter + 2 * MaxLag)'
    BY <1>1, <1>2, <2>3, <2>4 DEF AgeInv, HeardInv, InDialog
  <2>7. (Quiet => (~ wantWrite => heard <= SendAfter + lag))'
    <3>1. Quiet /\ ~ wantWrite' => heard <= SendAfter + 0
      <4>1. heard + t <= SendAfter => heard <= SendAfter + 0
        BY <1>3, <1>5
      <4>2. heard <= SendAfter => heard <= SendAfter + 0
        BY <1>3
      <4> QED
        BY <1>6, <4>1, <4>2, Zenon
    <3> QED
      BY <1>1, <1>2, <3>1 DEF Quiet
  <2>8. (Quiet => (~ wantWrite /\ s2c = <<>> => heard + tv <= SendAfter + lag))'
    <3>1. Quiet /\ ~ wantWrite' /\ s2c = <<>> => heard + t <= SendAfter + 0
      BY <1>3, <1>6
    <3> QED
      BY <1>1, <1>2, <1>5, <3>1 DEF Quiet
  <2>9. (Quiet => (s2c = <<>> => heard <= SendAfter + MaxLag + lag))'
    <3>1. Quiet => heard <= SendAfter + lag
      BY <1>1 DEF AgeInv, HeardInv
    <3> QED
      BY <1>1, <1>2, <1>3, <3>1 DEF Quiet
  <2>10. (zstate = "CONNECTED" /\ link # "up" /\ s2c = <<>> => heard <= idle_recv + SendAfter + 2 * MaxLag)'
    BY <1>1, <1>2 DEF AgeInv, HeardInv
  <2>11. (InDialog /\ link = "up" => \A i \in DOMAIN unanswered : heard <= unanswered[i])'
    BY <1>1, <1>2 DEF AgeInv, HeardInv, InDialog
  <2> QED
    BY <1>1, <2>5, <2>6, <2>7, <2>8, <2>9, <2>10, <2>11 DEF HeardInv
<1> QED
  BY <1>7, <1>8, <1>9 DEF AgeInv

\* The server answers, sends an event, or is lost.
LEMMA AgeServer ==
    ASSUME TypeInv, AgeInv, ServerAnswers \/ ServerSendsEvent \/ LinkFails
    PROVE  AgeInv'
<1>1. /\ UNCHANGED <<zstate, recv_timeout, idle_recv, idle_send, heard, tv, wantWrite, phase, lag>>
      /\ UntilRead' = MaxLag - lag + Rounds(IF phase = "poll" THEN Len(s2c') - 1 ELSE Len(s2c'))
  BY DEF ServerAnswers, ServerSendsEvent, LinkFails, client, clock, loop, UntilRead
<1>2. SendAfter' = SendAfter /\ ReceiveWithin' = ReceiveWithin
  BY <1>1 DEF SendAfter, ReceiveWithin
<1>3. InDialog /\ link = "up"
  BY DEF ServerAnswers, ServerSendsEvent, LinkFails, TypeInv, WaitInv, DueInv, InDialog
<1>4. InDialog' /\ phase \in {"interest", "poll"}
  BY <1>1, <1>3 DEF InDialog, TypeInv, TypeOK, WaitInv, RoundInv
<1>5. unanswered \in Seq(0 .. MaxDelay) /\ s2c \in Seq({"primer", "answer", "event"})
  BY DEF TypeInv, TypeOK
<1>6. /\ idle_recv \in Nat /\ idle_send \in Nat /\ heard \in Nat /\ tv \in Nat /\ lag \in Nat
      /\ MaxLag \in Nat /\ SendAfter \in Nat /\ ReceiveWithin \in Nat /\ MaxDelay \in Nat
      /\ lag <= MaxLag /\ MaxDelay <= SendAfter
  BY Ages
<1>7. unanswered # <<>> => unanswered[1] \in Nat /\ heard <= unanswered[1] /\ unanswered[1] <= MaxDelay
  BY <1>3, <1>5, AgesOf DEF AgeInv, HeardInv
<1>8. (zstate \in {"CONNECTING", "ASSOCIATING", "CONNECTED"} =>
         /\ phase = "interest" => idle_recv <= ReceiveWithin + lag
         /\ phase = "poll" => idle_recv + tv <= ReceiveWithin + lag)'
  BY <1>1, <1>2 DEF AgeInv, ReceiveInv
<1>9. ASSUME s2c = <<>>
      PROVE  IF phase = "poll" THEN idle_recv <= SendAfter + 3 * MaxLag + MaxDelay + lag
             ELSE idle_recv <= SendAfter + 2 * MaxLag + MaxDelay + lag
  <2>1. CASE unanswered # <<>>
    <3>1. idle_recv <= SendAfter + 2 * MaxLag + unanswered[1]
      BY <1>3, <1>9, <2>1 DEF AgeInv, ReceiveInv
    <3> QED
      BY <1>6, <1>7, <2>1, <3>1
  <2>2. CASE unanswered = <<>>
    <3>1. Quiet
      BY <1>3, <1>9, <2>2 DEF TypeInv, WaitInv, DueInv, InDialog, Quiet
    <3>2. /\ phase = "interest" => idle_recv <= SendAfter + lag
          /\ phase = "poll" /\ ~ wantWrite => idle_recv + tv <= SendAfter + lag
          /\ phase = "poll" /\ wantWrite => idle_recv <= SendAfter + MaxLag + lag
      BY <1>9, <3>1 DEF AgeInv, ReceiveInv
    <3> QED
      BY <1>4, <1>6, <3>2
  <2> QED
    BY <2>1, <2>2
<1>10. ASSUME s2c = <<>>
       PROVE  IF phase = "poll" THEN heard <= SendAfter + MaxLag + lag ELSE heard <= SendAfter + lag
  <2>1. CASE unanswered # <<>>
    BY <1>6, <1>7, <2>1
  <2>2. CASE unanswered = <<>>
    <3>1. Quiet
      BY <1>3, <1>10, <2>2 DEF TypeInv, WaitInv, DueInv, InDialog, Quiet
    <3>2. /\ phase = "interest" => heard <= SendAfter + lag
          /\ phase = "poll" /\ ~ wantWrite => heard <= SendAfter + lag
          /\ phase = "poll" /\ wantWrite => heard <= SendAfter + MaxLag + lag
      BY <1>10, <3>1 DEF AgeInv, HeardInv
    <3> QED
      BY <1>4, <1>6, <3>2
  <2> QED
    BY <2>1, <2>2
<1>11. CASE ServerAnswers
  <2> DEFINE e == IF zstate = "ASSOCIATING" THEN "primer" ELSE "answer"
  <2>1. /\ unanswered # <<>> /\ unanswered' = Tail(unanswered) /\ s2c' = Append(s2c, e)
        /\ UNCHANGED link
    BY <1>11 DEF ServerAnswers
  <2>2. e \in {"primer", "answer", "event"} /\ e # "event"
    OBVIOUS
  <2> HIDE DEF e
  <2>3. \A i \in DOMAIN unanswered' : i + 1 \in DOMAIN unanswered /\ unanswered'[i] = unanswered[i + 1]
    BY <1>5, <2>1, TailOf
  <2>4. /\ s2c' # <<>> /\ Len(s2c') = Len(s2c) + 1 /\ s2c'[Len(s2c) + 1] = e /\ Len(s2c) \in Nat
    BY <1>5, <2>1, <2>2, AppendTo
  <2>5. s2c' # <<"event">>
    <3>1. <<"event">>[1] = "event" /\ Len(<<"event">>) = 1
      OBVIOUS
    <3> QED
      BY <2>2, <2>4, <3>1
  <2>6. LastWordInv'
    BY <1>1, <1>3, <2>4, <2>5 DEF AgeInv, LastWordInv, InDialog, Quiet, HasAnswer
  <2>7. IF phase = "poll" THEN idle_recv <= SendAfter + 3 * MaxLag + MaxDelay + lag
        ELSE idle_recv <= SendAfter + 2 * MaxLag + MaxDelay + lag
    BY <1>3, <1>4, <1>9 DEF AgeInv, ReceiveInv
  <2>8. ReceiveInv'
    BY <1>1, <1>2, <1>8, <2>4, <2>7 DEF ReceiveInv
  <2>9. (InDialog /\ link = "up" => \A i \in DOMAIN unanswered : heard <= unanswered[i])'
    BY <1>1, <1>3, <2>3 DEF AgeInv, HeardInv
  <2>10. Rounds(Len(s2c)) \in Nat /\ Rounds(Len(s2c) + 1) = Rounds(Len(s2c)) + MaxLag
         /\ Rounds(Len(s2c)) + MaxLag <= Rounds(MaxRequests + 1)
    <3>1. Len(s2c) <= MaxRequests
      <4>1. CASE zstate = "ASSOCIATING"
        <5>1. s2c = <<>> /\ MaxRequests \in Nat
          BY <2>1, <4>1, TimeAssumption DEF TypeInv, WaitInv, DueInv
        <5> QED
          BY <5>1
      <4>2. CASE zstate = "CONNECTED"
        <5>1. /\ to_send + Len(unanswered) + Answers <= sent_requests
              /\ Len(unanswered) >= 1
          BY <1>5, <2>1, <4>2, TailOf DEF TypeInv, WaitInv, DueInv
        <5>2. Len(s2c) <= Answers + 1
          BY <2>4 DEF Answers
        <5> QED
          BY <2>4, <5>1, <5>2, Counted
      <4> QED
        BY <1>3, <4>1, <4>2 DEF InDialog
    <3>2. MaxRequests \in Nat /\ MaxRequests + 1 \in Nat /\ Len(s2c) + 1 \in Nat
      BY <2>4, TimeAssumption
    <3>3. Len(s2c) + 1 <= MaxRequests + 1
      BY <2>4, <3>1, <3>2
    <3>4. Rounds(Len(s2c) + 1) <= Rounds(MaxRequests + 1)
      BY <3>2, <3>3, RoundsOf
    <3> QED
      BY <2>4, <3>4, RoundsOf
  <2>11. UntilRead' = MaxLag - lag + Rounds(Len(s2c)) + (IF phase = "poll" THEN 0 ELSE MaxLag)
    <3>1. Len(s2c') - 1 = Len(s2c)
      BY <2>4
    <3>2. CASE phase = "poll"
      <4>1. UntilRead' = MaxLag - lag + Rounds(Len(s2c))
        BY <1>1, <3>1, <3>2
      <4> QED
        BY <1>6, <2>10, <3>2, <4>1
    <3>3. CASE phase # "poll"
      <4>1. UntilRead' = MaxLag - lag + Rounds(Len(s2c) + 1)
        BY <1>1, <2>4, <3>3
      <4> QED
        BY <1>6, <2>10, <3>3, <4>1
    <3> QED
      BY <3>2, <3>3
  <2> DEFINE until == MaxLag - lag + Rounds(Len(s2c)) + (IF phase = "poll" THEN 0 ELSE MaxLag)
  <2>12. /\ heard + until <= MaxDelay + Rounds(MaxRequests + 2)
         /\ heard + until <= SendAfter + 2 * MaxLag
    <3> DEFINE r == Rounds(Len(s2c))
               b == Rounds(MaxRequests + 1)
    <3>1. /\ r \in Nat /\ b \in Nat /\ r + MaxLag <= b /\ Rounds(MaxRequests + 2) = b + MaxLag
          /\ MaxDelay + b <= SendAfter
      BY <2>10, Ages
    <3>2. heard <= MaxDelay
      BY <1>6, <1>7, <2>1
    <3> HIDE DEF r, b
    <3>3. /\ heard + (MaxLag - lag + r + 0) <= MaxDelay + (b + MaxLag)
          /\ heard + (MaxLag - lag + r + MaxLag) <= MaxDelay + (b + MaxLag)
          /\ heard + (MaxLag - lag + r + 0) <= SendAfter + 2 * MaxLag
          /\ heard + (MaxLag - lag + r + MaxLag) <= SendAfter + 2 * MaxLag
      BY <1>6, <3>1, <3>2
    <3> QED
      BY <3>1, <3>3 DEF r
  <2>13. UntilRead' = until
    BY <2>11
  <2> HIDE DEF until
  <2>14. heard <= SendAfter + lag
    BY <1>6, <1>7, <2>1
  <2>15. HeardInv'
    BY <1>1, <1>2, <1>3, <2>1, <2>4, <2>9, <2>12, <2>13, <2>14 DEF HeardInv
  <2> QED
    BY <2>6, <2>8, <2>15 DEF AgeInv
<1>12. CASE ServerSendsEvent
  <2>1. s2c = <<>> /\ s2c' = <<"event">> /\ UNCHANGED <<link, unanswered>>
    BY <1>12 DEF ServerSendsEvent
  <2>2. <<"event">> # <<>> /\ Len(<<"event">>) = 1
    OBVIOUS
  <2>3. ~ HasAnswer' /\ ~ HasAnswer
    BY <2>1 DEF HasAnswer
  <2>4. LastWordInv'
    BY <1>1, <2>1, <2>3 DEF AgeInv, LastWordInv, InDialog, Quiet
  <2>5. ReceiveInv'
    BY <1>1, <1>2, <1>8, <1>9, <2>1, <2>2 DEF ReceiveInv
  <2>6. (InDialog /\ link = "up" => \A i \in DOMAIN unanswered : heard <= unanswered[i])'
    BY <1>1, <1>3, <2>1 DEF AgeInv, HeardInv
  <2>7. Rounds(0) = 0 /\ Rounds(1) = MaxLag
    BY <1>6 DEF Rounds
  <2>8. UntilRead' = MaxLag - lag + (IF phase = "poll" THEN 0 ELSE MaxLag)
    <3>1. Len(s2c') = 1 /\ Len(s2c') - 1 = 0
      BY <2>1, <2>2
    <3> QED
      BY <1>1, <2>7, <3>1
  <2> DEFINE until == MaxLag - lag + (IF phase = "poll" THEN 0 ELSE MaxLag)
  <2>9. heard + until <= SendAfter + 2 * MaxLag
    <3>1. CASE phase = "poll"
      BY <1>6, <1>10, <2>1, <3>1
    <3>2. CASE phase # "poll"
      BY <1>6, <1>10, <2>1, <3>2
    <3> QED
      BY <3>1, <3>2
  <2>10. UntilRead' = until
    BY <2>8
  <2> HIDE DEF until
  <2>11. (Quiet =>
            /\ phase = "interest" => heard <= SendAfter + lag
            /\ phase = "poll" /\ ~ wantWrite => heard <= SendAfter + lag)'
    BY <1>1, <1>2, <2>1 DEF AgeInv, HeardInv, Quiet
  <2>12. HeardInv'
    BY <1>1, <1>2, <1>3, <2>1, <2>2, <2>3, <2>6, <2>9, <2>10, <2>11 DEF HeardInv
  <2> QED
    BY <2>4, <2>5, <2>12 DEF AgeInv
<1>13. CASE LinkFails
  <2>1. link' # "up" /\ UNCHANGED s2c
    BY <1>13 DEF LinkFails
  <2>2. LastWordInv'
    BY <2>1 DEF LastWordInv, Quiet
  <2>3. ReceiveInv'
    BY <1>8, <2>1 DEF ReceiveInv, Quiet
  <2>4. UntilRead' = UntilRead
    BY <1>1, <2>1 DEF UntilRead
  <2>5. s2c = <<>> => heard <= idle_recv + SendAfter + 2 * MaxLag
    BY <1>6, <1>10
  <2>6. HeardInv'
    BY <1>1, <1>2, <1>3, <2>1, <2>4, <2>5 DEF AgeInv, HeardInv, HasAnswer, Quiet
  <2> QED
    BY <2>2, <2>3, <2>6 DEF AgeInv
<1> QED
  BY <1>11, <1>12, <1>13

\* A tick: every age grows by one, and so does what the poll or the round has used up.
LEMMA AgeTick ==
    ASSUME TypeInv, AgeInv, Tick
    PROVE  AgeInv'
<1> DEFINE x == Older(idle_recv)
           y == Older(idle_send)
           g == Older(heard)
<1>1. /\ idle_recv' = x /\ idle_send' = y /\ heard' = g
      /\ unanswered' = [i \in DOMAIN unanswered |-> unanswered[i] + 1]
      /\ UNCHANGED <<zstate, recv_timeout, wantWrite, phase, link, s2c>>
      /\ phase # "ended"
  BY DEF Tick, client
<1>2. SendAfter' = SendAfter /\ ReceiveWithin' = ReceiveWithin
  BY <1>1 DEF SendAfter, ReceiveWithin
<1>3. /\ idle_recv \in Nat /\ idle_send \in Nat /\ heard \in Nat /\ tv \in Nat /\ lag \in Nat
      /\ MaxLag \in Nat /\ SendAfter \in Nat /\ ReceiveWithin \in Nat /\ MaxDelay \in Nat
      /\ lag <= MaxLag
  BY Ages
<1>4. /\ x \in Nat /\ y \in Nat /\ g \in Nat
      /\ x <= idle_recv + 1 /\ g <= heard + 1
      /\ heard <= idle_send => g <= y
      /\ idle_recv <= idle_send => x <= y
      /\ heard <= idle_recv + (SendAfter + 2 * MaxLag) => g <= x + (SendAfter + 2 * MaxLag)
  <2>1. SendAfter + 2 * MaxLag \in Nat
    BY <1>3
  <2>2. LongAgo \in Nat /\ idle_recv \in 0 .. LongAgo /\ idle_send \in 0 .. LongAgo /\ heard \in 0 .. LongAgo
    BY Ages
  <2>3. x \in 0 .. LongAgo /\ x <= idle_recv + 1
    BY <2>2, Aging
  <2>4. y \in 0 .. LongAgo
    BY <2>2, Aging
  <2>5. g \in 0 .. LongAgo /\ g <= heard + 1
    BY <2>2, Aging
  <2>6. (heard <= idle_send => g <= y) /\ (idle_recv <= idle_send => x <= y)
    BY <2>2, Aging
  <2>7. heard <= idle_recv + (SendAfter + 2 * MaxLag) => g <= x + (SendAfter + 2 * MaxLag)
    BY <2>1, <2>2, Aging
  <2> HIDE DEF x, y, g
  <2> QED
    BY <2>3, <2>4, <2>5, <2>6, <2>7
<1> HIDE DEF x, y, g
<1>5. /\ DOMAIN unanswered' = DOMAIN unanswered
      /\ \A i \in DOMAIN unanswered : unanswered'[i] = unanswered[i] + 1
      /\ unanswered' = <<>> <=> unanswered = <<>>
      /\ unanswered # <<>> => 1 \in DOMAIN unanswered
      /\ \A i \in DOMAIN unanswered : unanswered[i] \in Nat
  <2>1. unanswered \in Seq(0 .. MaxDelay)
    BY DEF TypeInv, TypeOK
  <2>2. DOMAIN unanswered' = DOMAIN unanswered /\ \A i \in DOMAIN unanswered : unanswered'[i] = unanswered[i] + 1
    BY <1>1
  <2>3. unanswered # <<>> => 1 \in DOMAIN unanswered
    BY <2>1, AgesOf
  <2>4. unanswered' = <<>> <=> unanswered = <<>>
    <3>1. unanswered = <<>> => unanswered' = <<>>
      BY <1>1
    <3>2. unanswered' = <<>> => 1 \notin DOMAIN unanswered
      BY <2>2
    <3> QED
      BY <2>3, <3>1, <3>2
  <2> QED
    BY <2>1, <2>2, <2>3, <2>4, AgesOf
<1>6. LastWordInv'
  BY <1>1, <1>4, <1>5 DEF AgeInv, LastWordInv, InDialog, Quiet, HasAnswer
<1>7. (InDialog /\ link = "up" => \A i \in DOMAIN unanswered : heard <= unanswered[i])'
  <2> SUFFICES ASSUME InDialog, link = "up", NEW i \in DOMAIN unanswered
               PROVE  g <= unanswered[i] + 1
    BY <1>1, <1>5 DEF InDialog
  <2>1. heard <= unanswered[i]
    BY DEF AgeInv, HeardInv
  <2> QED
    BY <1>3, <1>4, <1>5, <2>1
<1>8. (InDialog /\ link = "up" /\ unanswered # <<>> /\ s2c = <<>> =>
         idle_recv <= SendAfter + 2 * MaxLag + unanswered[1])'
  <2> SUFFICES ASSUME InDialog, link = "up", unanswered # <<>>, s2c = <<>>
               PROVE  x <= SendAfter + 2 * MaxLag + (unanswered[1] + 1)
    BY <1>1, <1>2, <1>5 DEF InDialog
  <2>1. idle_recv <= SendAfter + 2 * MaxLag + unanswered[1]
    BY DEF AgeInv, ReceiveInv
  <2> QED
    BY <1>3, <1>4, <1>5, <2>1
<1>9. (zstate = "CONNECTED" /\ link # "up" /\ s2c = <<>> => heard <= idle_recv + SendAfter + 2 * MaxLag)'
  <2> SUFFICES ASSUME zstate = "CONNECTED", link # "up", s2c = <<>>
               PROVE  g <= x + SendAfter + 2 * MaxLag
    BY <1>1, <1>2
  <2>1. heard <= idle_recv + SendAfter + 2 * MaxLag
    BY DEF AgeInv, HeardInv
  <2> QED
    BY <1>3, <1>4, <2>1
<1>10. CASE Waiting
  <2>1. /\ phase = "poll" /\ s2c = <<>> /\ tv # 0 /\ ~ (wantWrite /\ link # "stuck")
        /\ tv' = tv - 1 /\ lag' = lag
    BY <1>10 DEF Tick, Waiting, PollReturns, Readable, Writable
  <2>2. (zstate \in {"CONNECTING", "ASSOCIATING", "CONNECTED"} => idle_recv + tv <= ReceiveWithin + lag)'
    <3> SUFFICES ASSUME zstate \in {"CONNECTING", "ASSOCIATING", "CONNECTED"}
                 PROVE  x + (tv - 1) <= ReceiveWithin + lag
      BY <1>1, <1>2, <2>1
    <3>1. idle_recv + tv <= ReceiveWithin + lag
      BY <2>1 DEF AgeInv, ReceiveInv
    <3> QED
      BY <1>3, <1>4, <2>1, <3>1
  <2>3. ASSUME Quiet PROVE /\ ~ wantWrite /\ x + (tv - 1) <= SendAfter + lag
                           /\ g + (tv - 1) <= SendAfter + lag /\ g <= SendAfter + lag
    <3>1. ~ wantWrite
      BY <2>1, <2>3 DEF Quiet
    <3>2. idle_recv + tv <= SendAfter + lag /\ heard + tv <= SendAfter + lag
      BY <2>1, <2>3, <3>1 DEF AgeInv, ReceiveInv, HeardInv
    <3> QED
      BY <1>3, <1>4, <2>1, <3>1, <3>2
  <2>4. Quiet' => Quiet
    BY <1>1, <1>5 DEF Quiet
  <2>5. ReceiveInv'
    BY <1>1, <1>2, <1>8, <2>1, <2>2, <2>3, <2>4 DEF ReceiveInv
  <2>6. HeardInv'
    BY <1>1, <1>2, <1>7, <1>9, <2>1, <2>3, <2>4 DEF HeardInv, HasAnswer
  <2> QED
    BY <1>6, <2>5, <2>6 DEF AgeInv
<1>11. CASE ~ Waiting
  <2>1. tv' = tv /\ lag' = lag + 1 /\ lag < MaxLag
    BY <1>11 DEF Tick
  <2>2. \A b \in Nat : /\ idle_recv <= b + lag => x <= b + (lag + 1)
                       /\ heard <= b + lag => g <= b + (lag + 1)
                       /\ idle_recv + tv <= b + lag => x + tv <= b + (lag + 1)
                       /\ heard + tv <= b + lag => g + tv <= b + (lag + 1)
    BY <1>3, <1>4
  <2>3. /\ SendAfter + 2 * MaxLag + MaxDelay \in Nat /\ SendAfter + 3 * MaxLag + MaxDelay \in Nat
        /\ SendAfter + MaxLag \in Nat /\ SendAfter \in Nat /\ ReceiveWithin \in Nat
    BY <1>3
  <2>4. Quiet' => Quiet
    BY <1>1, <1>5 DEF Quiet
  <2>5. InDialog' => InDialog
    BY <1>1 DEF InDialog
  <2>6. (zstate \in {"CONNECTING", "ASSOCIATING", "CONNECTED"} =>
         /\ phase = "interest" => idle_recv <= ReceiveWithin + lag
         /\ phase = "poll" => idle_recv + tv <= ReceiveWithin + lag)'
    BY <1>1, <1>2, <2>1, <2>2, <2>3 DEF AgeInv, ReceiveInv
  <2>7. (InDialog /\ link = "up" /\ s2c # <<>> =>
         /\ phase = "interest" => idle_recv <= SendAfter + 2 * MaxLag + MaxDelay + lag
         /\ phase = "poll" => idle_recv <= SendAfter + 3 * MaxLag + MaxDelay + lag)'
    BY <1>1, <1>2, <2>1, <2>2, <2>3, <2>5 DEF AgeInv, ReceiveInv
  <2>8. (Quiet /\ s2c = <<>> =>
         /\ phase = "interest" => idle_recv <= SendAfter + lag
         /\ phase = "poll" /\ ~ wantWrite => idle_recv + tv <= SendAfter + lag
         /\ phase = "poll" /\ wantWrite => idle_recv <= SendAfter + MaxLag + lag)'
    BY <1>1, <1>2, <2>1, <2>2, <2>3, <2>4 DEF AgeInv, ReceiveInv
  <2>9. ReceiveInv'
    BY <1>8, <2>6, <2>7, <2>8 DEF ReceiveInv
  <2>10. (Quiet =>
         /\ phase = "interest" => heard <= SendAfter + lag
         /\ phase = "poll" /\ ~ wantWrite => heard <= SendAfter + lag
         /\ phase = "poll" /\ ~ wantWrite /\ s2c = <<>> => heard + tv <= SendAfter + lag
         /\ phase = "poll" /\ wantWrite /\ s2c = <<>> => heard <= SendAfter + MaxLag + lag)'
    BY <1>1, <1>2, <2>1, <2>2, <2>3, <2>4 DEF AgeInv, HeardInv
  <2> DEFINE until == UntilRead - 1
  <2>11. s2c # <<>> => UntilRead' = until /\ UntilRead \in Nat
    <3> SUFFICES ASSUME s2c # <<>> PROVE UntilRead' = until /\ UntilRead \in Nat
      OBVIOUS
    <3> DEFINE r == Rounds(IF phase = "poll" THEN Len(s2c) - 1 ELSE Len(s2c))
    <3>1. r \in Nat
      BY <1>1, <1>3, ReadingTakes
    <3>2. UntilRead = MaxLag - lag + r
      BY DEF UntilRead
    <3>3. UntilRead' = MaxLag - (lag + 1) + r
      BY <1>1, <2>1, Zenon DEF UntilRead
    <3> HIDE DEF r
    <3> QED
      BY <1>3, <3>1, <3>2, <3>3
  <2>12. \A b \in Nat : s2c # <<>> /\ heard + UntilRead <= b => g + until <= b
    BY <1>3, <1>4, <2>11
  <2> HIDE DEF until
  <2>13. MaxDelay + Rounds(MaxRequests + 2) \in Nat /\ SendAfter + 2 * MaxLag \in Nat
    BY <1>3, Ages
  <2>14. (/\ InDialog /\ HasAnswer => heard + UntilRead <= MaxDelay + Rounds(MaxRequests + 2)
          /\ InDialog /\ s2c # <<>> => heard + UntilRead <= SendAfter + 2 * MaxLag)'
    <3>1. /\ InDialog /\ HasAnswer => s2c # <<>> /\ heard + UntilRead <= MaxDelay + Rounds(MaxRequests + 2)
          /\ InDialog /\ s2c # <<>> => heard + UntilRead <= SendAfter + 2 * MaxLag
      BY DEF AgeInv, HeardInv, HasAnswer
    <3>2. /\ InDialog /\ HasAnswer => g + until <= MaxDelay + Rounds(MaxRequests + 2)
          /\ InDialog /\ s2c # <<>> => g + until <= SendAfter + 2 * MaxLag
      BY <2>12, <2>13, <3>1
    <3> QED
      BY <1>1, <1>2, <2>11, <3>2 DEF InDialog, HasAnswer
  <2>15. HeardInv'
    BY <1>7, <1>9, <2>10, <2>14 DEF HeardInv
  <2> QED
    BY <1>6, <2>9, <2>15 DEF AgeInv
<1> QED
  BY <1>10, <1>11

\* A round ends: what was sent is heard by a server that is reached, and what was read is news.
LEMMA AgeProcess ==
    ASSUME TypeInv, AgeInv, Process
    PROVE  AgeInv'
<1>1. /\ phase = "poll" /\ phase' = "interest" /\ UNCHANGED <<link, lag>>
      /\ Flushed \/ NothingFlushed
      /\ NothingRead \/ PrimerRead \/ MessageRead
      /\ unanswered' \in Seq(0 .. MaxDelay)
  BY ProcessEffect
<1>2. /\ idle_recv \in Nat /\ idle_send \in Nat /\ heard \in Nat /\ tv \in Nat /\ lag \in Nat
      /\ MaxLag \in Nat /\ SendAfter \in Nat /\ ReceiveWithin \in Nat /\ MaxDelay \in Nat
      /\ lag <= MaxLag
  BY Ages
<1>3. recv_timeout' \in Timeouts
  BY <1>1 DEF NothingRead, PrimerRead, MessageRead, TypeInv, TypeOK
<1>4. /\ SendAfter' \in Nat /\ ReceiveWithin' \in Nat
      /\ MaxDelay + Rounds(MaxRequests + 1) <= SendAfter'
  BY <1>3, Margins, Zenon DEF SendAfter, ReceiveWithin
<1>5. NothingRead \/ MessageRead => SendAfter' = SendAfter /\ ReceiveWithin' = ReceiveWithin
  BY DEF NothingRead, MessageRead, SendAfter, ReceiveWithin
<1>6. /\ \A i \in DOMAIN unanswered' : unanswered'[i] \in Nat
      /\ unanswered' # <<>> => 1 \in DOMAIN unanswered'
  BY <1>1, AgesOf
<1>7. InDialog' => InDialog
  BY <1>1 DEF NothingRead, PrimerRead, MessageRead, InDialog
<1>8. /\ heard' = heard \/ (heard' = 0 /\ link = "up")
      /\ Quiet' => NothingFlushed
  BY <1>1 DEF Flushed, NothingFlushed, Quiet
<1>9. MessageRead \/ PrimerRead => idle_recv' = 0
  BY DEF MessageRead, PrimerRead
\* Nothing was flushed though the server is reached: there was nothing.
<1>10. ASSUME Quiet', zstate = "CONNECTED" PROVE Quiet /\ ~ wantWrite /\ heard' = heard
  BY <1>1, <1>8, <1>10 DEF Quiet, NothingFlushed
<1>11. LastWordInv'
  <2>1. ASSUME InDialog', link = "up" PROVE heard' <= idle_send'
    <3>1. heard <= idle_send
      BY <1>7, <2>1 DEF AgeInv, LastWordInv
    <3> QED
      BY <1>1, <2>1, <3>1 DEF Flushed, NothingFlushed
  <2>2. ASSUME Quiet', ~ HasAnswer' PROVE idle_recv' <= idle_send'
    <3>1. idle_send' = idle_send /\ unanswered' = unanswered
      BY <1>8, <2>2 DEF NothingFlushed
    <3>2. CASE NothingRead
      BY <1>1, <2>2, <3>1, <3>2 DEF AgeInv, LastWordInv, NothingRead, Quiet, HasAnswer
    <3>3. CASE ~ NothingRead
      BY <1>1, <1>2, <1>9, <3>1, <3>3
    <3> QED
      BY <3>2, <3>3
  <2> QED
    BY <1>1, <2>1, <2>2 DEF LastWordInv
<1>12. ReceiveInv'
  <2>1. CASE NothingRead
    <3>1. /\ UNCHANGED <<zstate, idle_recv, s2c>> /\ s2c = <<>>
          /\ SendAfter' = SendAfter /\ ReceiveWithin' = ReceiveWithin
      BY <1>5, <2>1 DEF NothingRead
    <3>2. zstate \in {"CONNECTING", "ASSOCIATING", "CONNECTED"} => idle_recv <= ReceiveWithin + lag
      <4>1. zstate \in {"CONNECTING", "ASSOCIATING", "CONNECTED"} =>
              idle_recv + tv <= ReceiveWithin + lag
        BY <1>1 DEF AgeInv, ReceiveInv
      <4> QED
        BY <1>2, <4>1
    <3>3. ASSUME InDialog, link = "up", unanswered' # <<>>
          PROVE  idle_recv <= SendAfter + 2 * MaxLag + unanswered'[1]
      <4>1. CASE unanswered # <<>>
        <5>1. 1 \in DOMAIN unanswered
          BY <4>1, AgesOf DEF TypeInv, TypeOK
        <5>2. unanswered'[1] = unanswered[1]
          BY <1>1, <3>3, <5>1 DEF Flushed, NothingFlushed
        <5> QED
          BY <3>1, <3>3, <4>1, <5>2 DEF AgeInv, ReceiveInv
      <4>2. CASE unanswered = <<>>
        <5>1. Flushed
          BY <1>1, <3>3, <4>2 DEF NothingFlushed
        <5>2. wantWrite /\ Quiet
          BY <3>3, <4>2, <5>1 DEF Flushed, Quiet
        <5>3. idle_recv <= SendAfter + MaxLag + lag
          BY <1>1, <3>1, <5>2 DEF AgeInv, ReceiveInv
        <5> DEFINE a == unanswered'[1]
        <5>4. a \in Nat
          BY <1>6, <3>3
        <5> HIDE DEF a
        <5>5. idle_recv <= SendAfter + 2 * MaxLag + a
          BY <1>2, <5>3, <5>4
        <5> QED
          BY <5>5 DEF a
      <4> QED
        BY <4>1, <4>2
    <3>4. ASSUME Quiet' PROVE idle_recv <= SendAfter + lag
      <4>1. Quiet /\ ~ wantWrite
        BY <1>10, <3>1, <3>4 DEF Quiet
      <4>2. idle_recv + tv <= SendAfter + lag
        BY <1>1, <3>1, <4>1 DEF AgeInv, ReceiveInv
      <4> QED
        BY <1>2, <4>2
    <3> QED
      BY <1>1, <1>7, <3>1, <3>2, <3>3, <3>4 DEF ReceiveInv
  <2>2. CASE MessageRead \/ PrimerRead
    <3>1. idle_recv' = 0
      BY <1>9, <2>2
    <3> DEFINE send == SendAfter'
               receive == ReceiveWithin'
               a == unanswered'[1]
    <3>2. send \in Nat /\ receive \in Nat /\ (unanswered' # <<>> => a \in Nat)
      BY <1>4, <1>6
    <3> HIDE DEF send, receive, a
    <3>3. /\ 0 <= receive + lag /\ (unanswered' # <<>> => 0 <= send + 2 * MaxLag + a)
          /\ 0 <= send + 2 * MaxLag + MaxDelay + lag /\ 0 <= send + lag
      BY <1>2, <3>2
    <3> QED
      BY <1>1, <3>1, <3>3 DEF ReceiveInv, send, receive, a
  <2> QED
    BY <1>1, <2>1, <2>2
<1>13. HeardInv'
  <2>1. ASSUME InDialog', link = "up", NEW i \in DOMAIN unanswered' PROVE heard' <= unanswered'[i]
    <3>1. CASE Flushed
      BY <1>6, <2>1, <3>1 DEF Flushed
    <3>2. CASE NothingFlushed
      BY <1>7, <2>1, <3>2 DEF NothingFlushed, AgeInv, HeardInv
    <3> QED
      BY <1>1, <3>1, <3>2
  <2>2. ASSUME s2c' # <<>>, InDialog'
        PROVE  /\ MessageRead /\ HasAnswer /\ SendAfter' = SendAfter
               /\ UntilRead' = UntilRead /\ UntilRead \in Nat
    <3>1. MessageRead
      BY <1>1, <2>2 DEF NothingRead, PrimerRead
    <3>2. Len(s2c') = Len(s2c) - 1 /\ HasAnswer /\ s2c # <<>>
      BY <2>2, <3>1, ReadOne DEF MessageRead
    <3>3. UntilRead' = UntilRead
      BY <1>1, <3>2 DEF UntilRead
    <3> DEFINE r == Rounds(Len(s2c) - 1)
    <3>4. r \in Nat /\ UntilRead = MaxLag - lag + r + 0
      BY <1>1, <3>2, ReadingTakes
    <3> HIDE DEF r
    <3>5. UntilRead \in Nat
      BY <1>2, <3>4
    <3>6. SendAfter' = SendAfter
      BY <1>5, <3>1
    <3> QED
      BY <3>1, <3>2, <3>3, <3>5, <3>6
  <2>3. ASSUME s2c' # <<>>, InDialog'
        PROVE  /\ heard' + UntilRead' <= MaxDelay + Rounds(MaxRequests + 2)
               /\ heard' + UntilRead' <= SendAfter' + 2 * MaxLag
    <3>1. /\ heard + UntilRead <= MaxDelay + Rounds(MaxRequests + 2)
          /\ heard + UntilRead <= SendAfter + 2 * MaxLag
      BY <1>7, <2>2, <2>3 DEF AgeInv, HeardInv, HasAnswer
    <3>2. /\ 0 + UntilRead <= MaxDelay + Rounds(MaxRequests + 2)
          /\ 0 + UntilRead <= SendAfter + 2 * MaxLag
      BY <1>2, <2>2, <2>3, <3>1, Ages
    <3> QED
      BY <1>8, <2>2, <2>3, <3>1, <3>2
  \* After the handshake the answer to it is the last that was heard.
  <2>4. ASSUME PrimerRead PROVE heard <= SendAfter' + lag
    <3>1. <<"primer">> # <<>> /\ Len(<<"primer">>) = 1 /\ <<"primer">>[1] = "primer"
          /\ <<"event">>[1] = "event"
      OBVIOUS
    <3>2. s2c = <<"primer">> /\ s2c # <<>> /\ Len(s2c) - 1 = 0 /\ InDialog
      BY <2>4, <3>1 DEF PrimerRead, InDialog
    <3>3. s2c # <<"event">>
      BY <3>1, <3>2
    <3>4. heard + UntilRead <= MaxDelay + Rounds(MaxRequests + 2)
      BY <3>2, <3>3 DEF AgeInv, HeardInv, HasAnswer
    <3> DEFINE r == Rounds(Len(s2c) - 1)
               b == Rounds(MaxRequests + 1)
               send == SendAfter'
    <3>5. r \in Nat /\ UntilRead = MaxLag - lag + r + 0
      BY <1>1, <3>2, ReadingTakes
    <3>6. b \in Nat /\ Rounds(MaxRequests + 2) = b + MaxLag /\ MaxDelay + b <= send /\ send \in Nat
      BY <1>4, Ages
    <3> HIDE DEF r, b, send
    <3>7. heard <= send + lag
      BY <1>2, <3>4, <3>5, <3>6
    <3> QED
      BY <3>7 DEF send
  <2>5. ASSUME Quiet' PROVE heard' <= SendAfter' + lag'
    <3>1. CASE PrimerRead
      BY <1>1, <1>8, <2>4, <2>5, <3>1 DEF NothingFlushed
    <3>2. CASE NothingRead \/ MessageRead
      <4>1. zstate = "CONNECTED" /\ SendAfter' = SendAfter
        BY <1>5, <2>5, <3>2 DEF NothingRead, MessageRead, Quiet
      <4>2. Quiet /\ ~ wantWrite /\ heard' = heard
        BY <1>10, <2>5, <4>1
      <4>3. heard <= SendAfter + lag
        BY <1>1, <4>2 DEF AgeInv, HeardInv
      <4> QED
        BY <1>1, <4>1, <4>2, <4>3
    <3> QED
      BY <1>1, <3>1, <3>2
  <2>6. ASSUME zstate' = "CONNECTED", link # "up", s2c' = <<>>
        PROVE  heard' <= idle_recv' + SendAfter' + 2 * MaxLag
    <3>1. heard' = heard
      BY <1>8, <2>6
    <3>2. CASE NothingRead
      BY <1>5, <2>6, <3>1, <3>2 DEF NothingRead, AgeInv, HeardInv
    <3>3. CASE PrimerRead
      <4> DEFINE send == SendAfter'
      <4>1. heard <= send + lag /\ send \in Nat
        BY <1>4, <2>4, <3>3
      <4> HIDE DEF send
      <4>2. heard <= 0 + send + 2 * MaxLag
        BY <1>2, <4>1
      <4> QED
        BY <1>9, <3>1, <3>3, <4>2 DEF send
    <3>4. CASE MessageRead
      <4>1. s2c # <<>> /\ InDialog
        BY <3>4 DEF MessageRead, InDialog
      <4> DEFINE r == Rounds(Len(s2c) - 1)
      <4>2. r \in Nat /\ UntilRead = MaxLag - lag + r + 0
        BY <1>1, <4>1, ReadingTakes
      <4>3. heard + UntilRead <= SendAfter + 2 * MaxLag
        BY <4>1 DEF AgeInv, HeardInv
      <4> HIDE DEF r
      <4>4. heard <= 0 + SendAfter + 2 * MaxLag
        BY <1>2, <4>2, <4>3
      <4> QED
        BY <1>5, <1>9, <3>1, <3>4, <4>4
    <3> QED
      BY <1>1, <3>2, <3>3, <3>4
  <2>7. HasAnswer' => s2c' # <<>>
    BY DEF HasAnswer
  <2> QED
    BY <1>1, <2>1, <2>3, <2>5, <2>6, <2>7 DEF HeardInv
<1> QED
  BY <1>11, <1>12, <1>13 DEF AgeInv

\* Every step keeps the ages within the margins.
LEMMA AgeStep ==
    ASSUME TypeInv, AgeInv, [Next]_vars
    PROVE  AgeInv'
<1>1. CASE UNCHANGED vars
  BY <1>1, AgeKept DEF vars, client
<1>2. CASE WaitABit \/ ConnectRefused \/ ReceiveTimeout \/ SessionExpired \/ SocketError
  <2>1. zstate' \in {"NONE", "EXPIRED"}
    BY <1>2 DEF WaitABit, ConnectRefused, ReceiveTimeout, SessionExpired, SocketError, HandleError
  <2> QED
    BY <2>1, AgeLeft
<1>3. CASE Request
  BY <1>3, AgeKept DEF Request
<1>4. CASE Connect \/ ConnectFinished
  BY <1>4, AgeConnect
<1>5. CASE Interest
  BY <1>5, AgeInterest
<1>6. CASE ServerAnswers \/ ServerSendsEvent \/ LinkFails
  BY <1>6, AgeServer
<1>7. CASE Tick
  BY <1>7, AgeTick
<1>8. CASE Process
  BY <1>8, AgeProcess
<1> QED
  BY <1>1, <1>2, <1>3, <1>4, <1>5, <1>6, <1>7, <1>8 DEF Next, IoThread

\* The inductive invariant.
LEMMA InvInductive == Spec => [](TypeInv /\ AgeInv)
<1>1. Init => TypeInv /\ AgeInv
  BY TypeInit, AgeInit
<1>2. TypeInv /\ AgeInv /\ [Next]_vars => (TypeInv /\ AgeInv)'
  BY TypeStep, AgeStep
<1> QED
  BY <1>1, <1>2, PTL DEF Spec

\* Whichever timeouts are granted and whatever the application asks, a server that is reached
\* and answers within MaxDelay is not given up: zookeeper_interest sends its pings early
\* enough, and sent_requests never holds back the one that is needed.
THEOREM PromptServer == Spec => []PromptServerIsKept
<1>1. TypeInv /\ AgeInv => PromptServerIsKept
  <2> SUFFICES ASSUME TypeInv, AgeInv, InDialog, link = "up" PROVE idle_recv < ReceiveWithin
    BY DEF PromptServerIsKept, InDialog
  <2>1. /\ idle_recv \in Nat /\ tv \in Nat /\ lag \in Nat /\ lag <= MaxLag
        /\ MaxLag \in Nat /\ MaxDelay \in Nat /\ SendAfter \in Nat /\ ReceiveWithin \in Nat
        /\ SendAfter + MaxDelay + 4 * MaxLag < ReceiveWithin
    BY Ages
  <2>2. phase \in {"interest", "poll"}
    BY DEF TypeInv, TypeOK, WaitInv, RoundInv, InDialog
  <2>3. CASE s2c # <<>>
    <3>1. /\ phase = "interest" => idle_recv <= SendAfter + 2 * MaxLag + MaxDelay + lag
          /\ phase = "poll" => idle_recv <= SendAfter + 3 * MaxLag + MaxDelay + lag
      BY <2>3 DEF AgeInv, ReceiveInv
    <3> QED
      BY <2>1, <2>2, <3>1
  <2>4. CASE s2c = <<>> /\ unanswered # <<>>
    <3>1. idle_recv <= SendAfter + 2 * MaxLag + unanswered[1]
      BY <2>4 DEF AgeInv, ReceiveInv
    <3>2. unanswered[1] \in Nat /\ unanswered[1] <= MaxDelay
      BY <2>4, AgesOf DEF TypeInv, TypeOK
    <3> QED
      BY <2>1, <3>1, <3>2
  <2>5. CASE s2c = <<>> /\ unanswered = <<>>
    <3>1. Quiet
      BY <2>5 DEF TypeInv, WaitInv, DueInv, InDialog, Quiet
    <3>2. /\ phase = "interest" => idle_recv <= SendAfter + lag
          /\ phase = "poll" /\ ~ wantWrite => idle_recv + tv <= SendAfter + lag
          /\ phase = "poll" /\ wantWrite => idle_recv <= SendAfter + MaxLag + lag
      BY <2>5, <3>1 DEF AgeInv, ReceiveInv
    <3> QED
      BY <2>1, <2>2, <3>2
  <2> QED
    BY <2>3, <2>4, <2>5
<1> QED
  BY <1>1, InvInductive, PTL

\* The handle leaves a connection on which the server does not hear it when the session
\* timeout and three rounds have passed, although answers that wait and requests that are
\* made hold the receive timeout and the pings back (zookeeper_interest, zookeeper_process).
THEOREM LeftInTime == Spec => []ConnectedWithinSession
<1>1. TypeInv /\ AgeInv => ConnectedWithinSession
  <2> SUFFICES ASSUME TypeInv, AgeInv, zstate = "CONNECTED" PROVE heard <= recv_timeout + 3 * MaxLag
    BY DEF ConnectedWithinSession, Slack
  <2>1. /\ idle_recv \in Nat /\ tv \in Nat /\ lag \in Nat /\ lag <= MaxLag /\ heard \in Nat
        /\ MaxLag \in Nat /\ MaxDelay \in Nat /\ SendAfter \in Nat /\ ReceiveWithin \in Nat
        /\ recv_timeout \in Nat
        /\ SendAfter + ReceiveWithin <= recv_timeout /\ MaxDelay <= SendAfter
    BY Ages
  <2>2. phase \in {"interest", "poll"} /\ InDialog
    BY DEF TypeInv, TypeOK, WaitInv, RoundInv, InDialog
  <2>3. CASE s2c # <<>>
    <3> DEFINE r == Rounds(Len(s2c) - 1)
    <3>1. heard + UntilRead <= SendAfter + 2 * MaxLag
      BY <2>2, <2>3 DEF AgeInv, HeardInv
    <3>2. r \in Nat /\ (UntilRead = MaxLag - lag + r + 0 \/ UntilRead = MaxLag - lag + r + MaxLag)
      BY <2>2, <2>3, ReadingTakes
    <3> HIDE DEF r
    <3> QED
      BY <2>1, <3>1, <3>2
  <2>4. CASE s2c = <<>> /\ link # "up"
    <3>1. heard <= idle_recv + SendAfter + 2 * MaxLag
      BY <2>4 DEF AgeInv, HeardInv
    <3>2. idle_recv <= ReceiveWithin + lag
      <4>1. idle_recv <= ReceiveWithin + lag \/ idle_recv + tv <= ReceiveWithin + lag
        BY <2>2 DEF AgeInv, ReceiveInv
      <4> QED
        BY <2>1, <4>1
    <3> QED
      BY <2>1, <3>1, <3>2
  <2>5. CASE link = "up" /\ unanswered # <<>>
    <3>1. heard <= unanswered[1] /\ unanswered[1] \in Nat /\ unanswered[1] <= MaxDelay
      BY <2>2, <2>5, AgesOf DEF TypeInv, TypeOK, AgeInv, HeardInv
    <3> QED
      BY <2>1, <3>1
  <2>6. CASE link = "up" /\ unanswered = <<>> /\ s2c = <<>>
    <3>1. Quiet
      BY <2>6 DEF Quiet
    <3>2. /\ phase = "interest" => heard <= SendAfter + lag
          /\ phase = "poll" /\ ~ wantWrite => heard <= SendAfter + lag
          /\ phase = "poll" /\ wantWrite => heard <= SendAfter + MaxLag + lag
      BY <2>6, <3>1 DEF AgeInv, HeardInv
    <3> QED
      BY <2>1, <2>2, <3>2
  <2> QED
    BY <2>3, <2>4, <2>5, <2>6
<1> QED
  BY <1>1, InvInductive, PTL
=============================================================================
