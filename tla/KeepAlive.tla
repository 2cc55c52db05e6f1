------------------------------ MODULE KeepAlive ------------------------------
(***************************************************************************)
(* The clock of a handle: zookeeper_interest decides from the time since   *)
(* the last receive and the last send whether the server is given up, when *)
(* a ping is due and for how long do_io polls.  Time is counted in ticks   *)
(* and kept as ages; a server that is reached answers within MaxDelay, and *)
(* one round of the IO thread takes at most MaxLag besides its poll.       *)
(***************************************************************************)
EXTENDS Naturals, Sequences

CONSTANTS
    Timeouts,       \* session timeouts that are asked for or granted, in ticks
    AddrsCount,     \* zh->addrs_count
    MaxDelay,       \* bound: ticks a server takes to answer
    MaxLag,         \* bound: ticks a round of the IO thread loses outside poll
    MaxRequests     \* bound: requests outstanding at a time

\* Timeouts are ints: one of them is the longest.
ASSUME TimeAssumption ==
    /\ Timeouts \subseteq Nat \ {0}
    /\ \E t \in Timeouts : \A u \in Timeouts : u <= t
    /\ {AddrsCount, MaxRequests} \subseteq Nat \ {0}
    /\ {MaxDelay, MaxLag} \subseteq Nat

\* A server is prompt and the rounds of the IO thread are short for the timeouts in use: a
\* ping that is late by two rounds is answered, and the answer read two rounds later, in
\* two thirds of the timeout; and the answers of a full queue, one for every round, can all
\* be read in one third.
ASSUME MarginAssumption ==
    \A t \in Timeouts :
        /\ (t \div 3) + MaxDelay + 4 * MaxLag < (t * 2) \div 3
        /\ MaxDelay + (MaxRequests + 1) * MaxLag <= t \div 3

VARIABLES
    zstate,         \* "NONE" (fd = -1), "CONNECTING", "ASSOCIATING", "CONNECTED", "EXPIRED"
    connect_index,
    recv_timeout,   \* asked for, and from the connect response on the one that was granted
    idle_recv,      \* now - last_recv
    idle_send,      \* now - last_send
    to_send,        \* how many frames wait
    sent_requests,  \* how many completions wait, those of pings included
    tv,             \* what is left of the poll timeout
    wantWrite,      \* the interest has ZOOKEEPER_WRITE
    pipe,           \* the IO thread was woken
    phase,          \* "interest", "poll", "ended"
    lag,            \* ticks lost in this round
    link,           \* "up", "lost" (what is written vanishes), "stuck" (nothing can be written)
    unanswered,     \* ages of what the server has not answered, the oldest first
    s2c,            \* "primer", "answer", "event": what can be read
    heard,          \* age of what the server heard last of this session
    session         \* "none", "live", "gone": the session at the server

client == <<zstate, connect_index, recv_timeout, to_send, sent_requests>>
clock == <<idle_recv, idle_send, heard>>
loop == <<tv, wantWrite, phase, lag>>
server == <<link, unanswered, s2c, session>>
vars == <<client, clock, loop, server, pipe>>

Smaller(a, b) == IF a < b THEN a ELSE b
Ago(limit, age) == IF age < limit THEN limit - age ELSE 0     \* get_timeval: not below 0

\* Ages are not told apart beyond what any comparison looks at.
LongAgo == 2 * (CHOOSE t \in Timeouts : \A u \in Timeouts : u <= t)
Older(age) == Smaller(age + 1, LongAgo)

SendAfter == recv_timeout \div 3

\* The server is only given up when the whole timeout has passed.
WholeTimeout == recv_timeout

ReceiveWithin == (recv_timeout * 2) \div 3

Init ==
    /\ zstate = "NONE" /\ connect_index = 0
    /\ recv_timeout \in Timeouts
    /\ to_send = 0 /\ sent_requests = 0
    /\ idle_recv = 0 /\ idle_send = 0 /\ heard = 0
    /\ tv = 0 /\ wantWrite = FALSE /\ phase = "interest" /\ lag = 0
    /\ link = "up" /\ unanswered = <<>> /\ s2c = <<>> /\ session = "none"
    /\ pipe = FALSE

\* handle_error: on to the next address with empty queues.
HandleError(state) ==
    /\ zstate' = state
    /\ connect_index' = connect_index + 1
    /\ to_send' = 0 /\ sent_requests' = 0
    /\ link' = "up" /\ unanswered' = <<>> /\ s2c' = <<>>
    /\ UNCHANGED recv_timeout

\* Any zoo_a* call: queued and counted at once, the IO thread is woken.
Request ==
    /\ phase # "ended" /\ sent_requests < MaxRequests
    /\ to_send' = to_send + 1 /\ sent_requests' = sent_requests + 1
    /\ pipe' = TRUE
    /\ UNCHANGED <<zstate, connect_index, recv_timeout, clock, loop, server>>

(***************************************************************************)
(* zookeeper_interest.                                                     *)
(***************************************************************************)
StartPoll(timeout, write) ==
    /\ tv' = timeout /\ wantWrite' = write
    /\ phase' = "poll" /\ lag' = 0

\* All addresses were tried: a pause.
WaitABit ==
    /\ phase = "interest" /\ zstate = "NONE" /\ connect_index = AddrsCount
    /\ connect_index' = 0
    /\ idle_recv' = 0 /\ idle_send' = 0
    /\ StartPoll(SendAfter, FALSE)
    /\ UNCHANGED <<zstate, recv_timeout, to_send, sent_requests, heard, server, pipe>>

\* prime_connection: the server learns of the client, and may have ended its session.
Prime ==
    /\ zstate' = "ASSOCIATING"
    /\ IF link' = "up"
       THEN /\ unanswered' = <<0>> /\ heard' = 0
            /\ session' = IF session = "live" /\ heard >= recv_timeout THEN "gone" ELSE session
       ELSE UNCHANGED <<unanswered, heard, session>>

\* connect() is under way, has succeeded, or is refused.
Connect ==
    /\ phase = "interest" /\ zstate = "NONE" /\ connect_index < AddrsCount
    /\ \/ /\ link' \in {"up", "stuck"}
          /\ zstate' = "CONNECTING"
          /\ StartPoll(SendAfter, TRUE)
          /\ UNCHANGED <<unanswered, heard, session>>
       \/ /\ link' \in {"up", "lost"}
          /\ Prime
          /\ StartPoll(SendAfter, to_send > 0)
    /\ idle_recv' = 0 /\ idle_send' = 0
    /\ UNCHANGED <<connect_index, recv_timeout, to_send, sent_requests, s2c, pipe>>

ConnectRefused ==
    /\ phase = "interest" /\ zstate = "NONE" /\ connect_index < AddrsCount
    /\ HandleError("NONE")
    /\ StartPoll(0, FALSE)
    /\ UNCHANGED <<clock, session, pipe>>

HasSocket == phase = "interest" /\ zstate \in {"CONNECTING", "ASSOCIATING", "CONNECTED"}

ReceiveTimeout ==
    /\ HasSocket /\ idle_recv >= ReceiveWithin
    /\ HandleError("NONE")
    /\ StartPoll(0, FALSE)
    /\ UNCHANGED <<clock, session, pipe>>

\* The ping is forgotten: the poll still wakes up in time for it.
NeverPing == FALSE

\* Nothing was sent for a third of the timeout, and no answer is awaited.
PingDue == zstate = "CONNECTED" /\ idle_send >= SendAfter /\ sent_requests = 0

\* With an answer awaited no ping is sent, and the timeout of the poll is then 0.
Interest ==
    /\ HasSocket /\ idle_recv < ReceiveWithin
    /\ to_send' = to_send + (IF PingDue THEN 1 ELSE 0)
    /\ sent_requests' = sent_requests + (IF PingDue THEN 1 ELSE 0)
    /\ pipe' = (pipe \/ PingDue)
    /\ LET send_to == IF zstate = "CONNECTED" /\ ~ PingDue
                      THEN Ago(SendAfter, idle_send) ELSE SendAfter IN
         StartPoll(Smaller(Ago(ReceiveWithin, idle_recv), send_to),
                   to_send' > 0 \/ zstate = "CONNECTING")
    /\ UNCHANGED <<zstate, connect_index, recv_timeout, clock, server>>

(***************************************************************************)
(* poll and zookeeper_process.                                             *)
(***************************************************************************)
Readable == s2c # <<>>
Writable == wantWrite /\ link # "stuck"
PollReturns == phase = "poll" /\ (tv = 0 \/ pipe \/ Readable \/ Writable)

NextRound == phase' = "interest" /\ pipe' = FALSE /\ UNCHANGED <<tv, wantWrite, lag>>

\* The connection is there: the handshake, and nothing else in this round.
ConnectFinished ==
    /\ PollReturns /\ zstate = "CONNECTING" /\ Writable
    /\ link' = link /\ Prime
    /\ NextRound
    /\ UNCHANGED <<connect_index, recv_timeout, to_send, sent_requests,
                   idle_recv, idle_send, s2c>>

\* flush_send_queue: only in state CONNECTED; the server hears what reaches it.
FlushedClock == idle_send' = 0 /\ heard' = (IF link = "up" THEN 0 ELSE heard)

Flush ==
    IF Writable /\ to_send > 0 /\ zstate = "CONNECTED"
    THEN /\ to_send' = 0
         /\ FlushedClock
         /\ unanswered' = IF link = "up" THEN unanswered \o [i \in 1 .. to_send |-> 0] ELSE <<>>
    ELSE UNCHANGED <<to_send, idle_send, heard, unanswered>>

\* last_recv is set whether or not there was anything to read.
ReceiveOrNot ==
    /\ idle_recv' = 0
    /\ IF Readable
       THEN /\ zstate' = "CONNECTED" /\ session' = "live" /\ s2c' = Tail(s2c)
            /\ sent_requests' = sent_requests - (IF Head(s2c) = "answer" THEN 1 ELSE 0)
            /\ recv_timeout' \in (IF Head(s2c) = "primer" THEN Timeouts ELSE {recv_timeout})
       ELSE UNCHANGED <<zstate, recv_timeout, sent_requests, s2c, session>>

\* recv_buffer and what follows it for one message of the server.
ReceiveOne ==
    CASE ~ Readable -> UNCHANGED <<zstate, recv_timeout, idle_recv, sent_requests, s2c, session>>
      [] Readable /\ Head(s2c) = "primer" ->
           /\ zstate' = "CONNECTED" /\ session' = "live" /\ recv_timeout' \in Timeouts
           /\ idle_recv' = 0 /\ s2c' = Tail(s2c) /\ UNCHANGED sent_requests
      [] OTHER ->
           /\ sent_requests' = sent_requests - (IF Head(s2c) = "answer" THEN 1 ELSE 0)
           /\ idle_recv' = 0 /\ s2c' = Tail(s2c) /\ UNCHANGED <<zstate, recv_timeout, session>>

Process ==
    /\ PollReturns /\ ~ (zstate = "CONNECTING" /\ Writable)
    /\ ~ (session = "gone" /\ Readable)
    /\ Flush /\ ReceiveOne
    /\ NextRound
    /\ UNCHANGED <<connect_index, link>>

\* The connect response names another session.
SessionExpired ==
    /\ PollReturns /\ session = "gone" /\ Readable
    /\ HandleError("EXPIRED")
    /\ phase' = "ended" /\ pipe' = FALSE
    /\ UNCHANGED <<clock, session, tv, wantWrite, lag>>

\* A send, a recv or the connect fails: the server has closed the connection.
SocketError ==
    /\ PollReturns /\ zstate \in {"CONNECTING", "ASSOCIATING", "CONNECTED"} /\ link = "up"
    /\ HandleError("NONE")
    /\ NextRound
    /\ UNCHANGED <<clock, session>>

(***************************************************************************)
(* The server, the network and time.                                       *)
(***************************************************************************)
ServerAnswers ==
    /\ unanswered # <<>>
    /\ unanswered' = Tail(unanswered)
    /\ s2c' = Append(s2c, IF zstate = "ASSOCIATING" THEN "primer" ELSE "answer")
    /\ UNCHANGED <<client, clock, loop, link, session, pipe>>

ServerSendsEvent ==
    /\ link = "up" /\ zstate = "CONNECTED" /\ s2c = <<>>
    /\ s2c' = <<"event">>
    /\ UNCHANGED <<client, clock, loop, link, unanswered, session, pipe>>

LinkFails ==
    /\ link = "up" /\ zstate \in {"ASSOCIATING", "CONNECTED"}
    /\ link' \in {"lost", "stuck"}
    /\ unanswered' = <<>>
    /\ UNCHANGED <<client, clock, loop, s2c, session, pipe>>

Waiting == phase = "poll" /\ ~ PollReturns

Tick ==
    /\ phase # "ended"
    /\ unanswered # <<>> => Head(unanswered) < MaxDelay
    /\ IF Waiting THEN tv' = tv - 1 /\ lag' = lag
       ELSE lag < MaxLag /\ lag' = lag + 1 /\ tv' = tv
    /\ idle_recv' = Older(idle_recv)
    /\ idle_send' = Older(idle_send)
    /\ heard' = Older(heard)
    /\ unanswered' = [i \in DOMAIN unanswered |-> unanswered[i] + 1]
    /\ UNCHANGED <<client, wantWrite, phase, link, s2c, session, pipe>>

IoThread ==
    \/ WaitABit \/ Connect \/ ConnectRefused \/ ReceiveTimeout \/ Interest
    \/ ConnectFinished \/ Process \/ SessionExpired

Next ==
    \/ IoThread \/ SocketError
    \/ Request
    \/ ServerAnswers \/ ServerSendsEvent \/ LinkFails
    \/ Tick

Spec == Init /\ [][Next]_vars

\* The IO thread goes round, and time passes: a round takes none of itself, so that only
\* strong fairness lets it pass while the thread spins.
FairSpec == Spec /\ WF_vars(IoThread) /\ SF_vars(Tick)

-----------------------------------------------------------------------------
(***************************************************************************)
(* Properties.                                                             *)
(***************************************************************************)

\* Every variable has its type: ages and the poll timeout stay within the longest timeout.
TypeOK ==
    /\ zstate \in {"NONE", "CONNECTING", "ASSOCIATING", "CONNECTED", "EXPIRED"}
    /\ connect_index \in 0 .. AddrsCount
    /\ recv_timeout \in Timeouts
    /\ {idle_recv, idle_send, heard} \subseteq 0 .. LongAgo
    /\ to_send \in 0 .. MaxRequests /\ sent_requests \in 0 .. MaxRequests
    /\ tv \in 0 .. LongAgo /\ wantWrite \in BOOLEAN /\ pipe \in BOOLEAN
    /\ phase \in {"interest", "poll", "ended"} /\ lag \in 0 .. MaxLag
    /\ link \in {"up", "lost", "stuck"} /\ session \in {"none", "live", "gone"}
    /\ unanswered \in Seq(0 .. MaxDelay) /\ s2c \in Seq({"primer", "answer", "event"})

\* A third for the ping and two for its answer leave no margin: what is lost comes on top.
Slack == 3 * MaxLag

\* A handle believes in its connection hardly longer than the server keeps the session of
\* a client it does not hear: whatever fails, and whoever talks meanwhile, the dead
\* connection is left when the session timeout has passed and what the rounds lost.
ConnectedWithinSession == zstate = "CONNECTED" => heard <= recv_timeout + Slack

\* A server that is reached and answers within MaxDelay is never given up, whichever
\* timeout it granted and however idle the application is.
PromptServerIsKept ==
    zstate \in {"ASSOCIATING", "CONNECTED"} /\ link = "up" => idle_recv < ReceiveWithin

\* A dead connection is left in the end, however long the application waits for an answer.
DeadLinkIsLeft ==
    (zstate = "CONNECTED" /\ link # "up") ~> (zstate # "CONNECTED")
=============================================================================
