-------------------------- MODULE RequestPipeline --------------------------
(***************************************************************************)
(* The request path of the multi-threaded ZooKeeper C client that          *)
(* ruby-zookeeper binds: src/zk/src/c/src/zookeeper.c and mt_adaptor.c.    *)
(*                                                                         *)
(* Callers (application threads, and the completion thread while it runs a *)
(* callback) put a request on sent_requests and its bytes on to_send in    *)
(* one critical section.  The IO thread runs do_io: zookeeper_interest,    *)
(* poll, zookeeper_process.  It sends to_send, matches every reply with    *)
(* the head of sent_requests, wakes the caller of a synchronous request,   *)
(* and hands an asynchronous one to the completion thread through          *)
(* completions_to_process.  Any error goes through handle_error, which     *)
(* fails whatever is outstanding and lets the loop reconnect.              *)
(*                                                                         *)
(* One client handle and one connection at a time.  The network and the    *)
(* server are external: they may refuse, reset, go silent, answer with a   *)
(* wrong xid or expire the session, at most MaxFaults times in all.        *)
(***************************************************************************)
EXTENDS Integers, Sequences, FiniteSets

CONSTANTS
    App,            \* application threads
    Completion,     \* the completion thread
    IO,             \* the IO thread
    NAddrs,         \* addrs_count, the servers of the host list
    MaxRequests,    \* bound on API calls
    MaxFaults,      \* bound on faults of the network and the server
    MaxChatter      \* bound on pings and on watch events

ASSUME ThreadsAssumption == Completion \notin App /\ IO \notin App /\ IO # Completion
ASSUME BoundsAssumption ==
    /\ NAddrs \in Nat \ {0}
    /\ MaxRequests \in Nat /\ MaxFaults \in Nat /\ MaxChatter \in Nat

Callers == App \cup {Completion}

\* Reserved xids (zk_adaptor.h:29-32); NO_XID stands for an xid of no request.
WATCHER_EVENT_XID == -1
PING_XID          == -2
SET_WATCHES_XID   == -8
NO_XID            == -16

States   == {"NOTCONNECTED", "CONNECTING", "ASSOCIATING", "CONNECTED", "EXPIRED_SESSION"}
Failures == {"ZCONNECTIONLOSS", "ZOPERATIONTIMEOUT", "ZSESSIONEXPIRED",
             "ZRUNTIMEINCONSISTENCY"}

\* "ZOK" stands for any err the server itself put in a reply.
Codes == {"ZOK"} \cup Failures

VARIABLES
    zstate,         \* zh->state
    session,        \* zh->client_id.client_id # 0
    connect_index,  \* zh->connect_index
    sock,           \* the socket of zh->fd, "none" when it is closed
    overdue,        \* recv_to <= 0: nothing received for 2/3 of recv_timeout
    to_send,        \* zh->to_send, frames not yet written
    sent_requests,  \* zh->sent_requests, requests waiting for their reply
    tmp_list,       \* free_completions' private copy of sent_requests
    completions,    \* zh->completions_to_process
    called,         \* history: what the completion thread has handed to callbacks
    issued,         \* history: every request in the order of sent_requests
    primer,         \* the handshake in flight
    c2s, s2c,       \* frames in flight to and from the server
    executed,       \* the requests the server has carried out and answered
    pipe,           \* the self-pipe that interrupts poll() is readable
    ioPc, interest, err,            \* do_io: where it is, poll events, error being handled
    pc, call, sc, inCallback,       \* the callers
    nextXid, faults, chatter        \* counters

zhVars     == <<zstate, session, connect_index>>
netVars    == <<sock, primer, c2s, s2c, executed, overdue>>
queueVars  == <<to_send, sent_requests, tmp_list, completions, issued>>
ioVars     == <<ioPc, interest, err>>
callerVars == <<pc, call, inCallback, called>>
countVars  == <<nextXid, faults, chatter>>
vars == <<zhVars, netVars, queueVars, ioVars, callerVars, sc, pipe, countVars>>

is_unrecoverable == zstate = "EXPIRED_SESSION"

\* The IO thread is inside cleanup_bufs and holds zh_lock.
ioInCritical == ioPc = "free"

Request == [xid : Int, n : Nat, kind : {"sync", "async", "ping"}, by : Callers \cup {IO}]
Issue   == [kind : {"sync", "async", "ping"}, by : Callers \cup {IO}]
Frame   == [xid : Int, n : Nat]
Entry   == [kind : {"session", "watch", "reply"}, n : Nat, what : States \cup Codes]

SessionEntry(s)  == [kind |-> "session", n |-> 0, what |-> s]
WatchEntry       == [kind |-> "watch", n |-> 0, what |-> "ZOK"]
ReplyEntry(n, c) == [kind |-> "reply", n |-> n, what |-> c]

NoCall  == [kind |-> "async", xid |-> 0]
NoError == [rc |-> "ZOK", next |-> "interest"]

Init ==
    /\ zstate = "NOTCONNECTED" /\ session \in BOOLEAN /\ connect_index = 0
    /\ sock = "none" /\ primer = "none" /\ c2s = <<>> /\ s2c = <<>>
    /\ executed = {} /\ overdue = FALSE
    /\ to_send = <<>> /\ sent_requests = <<>> /\ tmp_list = <<>>
    /\ completions = <<>> /\ issued = <<>> /\ called = <<>>
    /\ ioPc = "interest" /\ interest = {}
    /\ err = NoError
    /\ pc = [c \in Callers |-> "idle"]
    /\ call = [c \in Callers |-> NoCall]
    /\ sc = [c \in Callers |-> "none"]
    /\ inCallback = FALSE /\ pipe = FALSE
    /\ nextXid = 1 /\ faults = 0 /\ chatter = 0

\* What the completion thread has been and will be handed, oldest first.
log == called \o completions

\* Requests whose answer is still due, oldest first.
outstanding == tmp_list \o sent_requests

\* queue_completion(&completions_to_process, e, 0).
QueueFront(e)      == completions' = <<e>> \o completions       \* faulty variant: add_to_front
QueueCompletion(e) == completions' = Append(completions, e)

\* The end of a request: wake its synchronous caller, queue its asynchronous
\* completion, drop a ping.
DeliverSyncOnly(r, code) ==                 \* faulty variant: callCompletion is 0
    /\ sc' = IF r.kind = "sync" THEN [sc EXCEPT ![r.by] = code] ELSE sc
    /\ UNCHANGED completions
Deliver(r, code) ==
    /\ sc' = IF r.kind = "sync" THEN [sc EXCEPT ![r.by] = code] ELSE sc
    /\ IF r.kind = "async" THEN QueueCompletion(ReplyEntry(r.n, code))
                           ELSE UNCHANGED completions

-----------------------------------------------------------------------------
(* The callers: zoo_aget and its kind, and their synchronous wrappers.     *)

\* get_xid() and the test of is_unrecoverable, both before enter_critical.
\* A handle that is unrecoverable answers ZINVALIDSTATE and nothing changes.
StartCall(c, kind) ==
    /\ pc[c] = "idle"
    /\ c = Completion => inCallback
    /\ nextXid <= MaxRequests
    /\ ~is_unrecoverable
    /\ nextXid' = nextXid + 1
    /\ call' = [call EXCEPT ![c] = [kind |-> kind, xid |-> nextXid]]
    /\ pc' = [pc EXCEPT ![c] = "checked"]
    /\ UNCHANGED <<zhVars, netVars, queueVars, ioVars, inCallback, called, sc, pipe, faults,
                   chatter>>

\* add_completion and queue_buffer_bytes, as one critical section.
AddRequest(r) ==
    /\ sent_requests' = Append(sent_requests, r)
    /\ issued' = Append(issued, [kind |-> r.kind, by |-> r.by])
    /\ to_send' = Append(to_send, [xid |-> r.xid, n |-> r.n])

Enqueue(c) ==
    /\ pc[c] = "checked"
    /\ ~ioInCritical
    /\ AddRequest([xid |-> call[c].xid, n |-> Len(issued) + 1, kind |-> call[c].kind, by |-> c])
    /\ pc' = [pc EXCEPT ![c] = "wake"]
    /\ UNCHANGED <<zhVars, netVars, tmp_list, completions, ioVars, call, inCallback, called,
                   sc, pipe, countVars>>

\* adaptor_send_queue: wakeup_io_thread writes to the self-pipe, unless it is full.
WriteForSync(c) == pipe' = (pipe \/ call[c].kind = "sync")  \* faulty variant: asynchronous calls only queue
WritePipe(c)    == pipe' = TRUE

Waits(c)   == pc' = [pc EXCEPT ![c] = "waiting"] /\ UNCHANGED <<call, sc>>
Returns(c) == /\ pc' = [pc EXCEPT ![c] = "idle"]
              /\ call' = [call EXCEPT ![c] = NoCall]
              /\ sc' = [sc EXCEPT ![c] = "none"]

\* A synchronous caller then waits for its reply.
WakeIO(c) ==
    /\ pc[c] = "wake"
    /\ WritePipe(c)
    /\ IF call[c].kind = "sync" THEN Waits(c) ELSE Returns(c)
    /\ UNCHANGED <<zhVars, netVars, queueVars, ioVars, inCallback, called, countVars>>

\* wait_sync_completion returns once sc->complete is set.
WokenUp(c)  == TRUE                             \* faulty variant: the wait is not in a loop
Complete(c) == sc[c] # "none"

SyncReturn(c) ==
    /\ pc[c] = "waiting"
    /\ Complete(c)
    /\ Returns(c)
    /\ UNCHANGED <<zhVars, netVars, queueVars, ioVars, inCallback, called, pipe, countVars>>

-----------------------------------------------------------------------------
(* The completion thread: do_completion and process_completions.           *)

\* The head of completions_to_process goes to the user's function.
RunCallback ==
    /\ ~inCallback
    /\ completions # <<>>
    /\ called' = Append(called, Head(completions))
    /\ completions' = Tail(completions)
    /\ inCallback' = TRUE
    /\ UNCHANGED <<zhVars, netVars, to_send, sent_requests, tmp_list, issued, ioVars, pc, call,
                   sc, pipe, countVars>>

CallbackReturns ==
    /\ inCallback
    /\ pc[Completion] = "idle"
    /\ inCallback' = FALSE
    /\ UNCHANGED <<zhVars, netVars, queueVars, ioVars, pc, call, called, sc, pipe, countVars>>

-----------------------------------------------------------------------------
(* The IO thread: zookeeper_interest.                                      *)

\* Enter handle_error(zh, rc); control then goes to next.
Fail(rc, next) == ioPc' = "close" /\ err' = [rc |-> rc, next |-> next] /\ interest' = {}

\* Return from zookeeper_process to the top of the loop in do_io.
TopOfLoop == ioPc' = "interest" /\ interest' = {}

\* The tail of zookeeper_interest: always READ, WRITE when there is something to write.
AskInterest(state, queue) ==
    interest' = IF queue # <<>> \/ state = "CONNECTING" THEN {"READ", "WRITE"} ELSE {"READ"}

PastLastAddress == connect_index = NAddrs

\* Past the last address: start over at the first, after a pause in poll().
WrapAddress ==
    /\ ioPc = "interest" /\ sock = "none" /\ PastLastAddress
    /\ connect_index' = 0
    /\ interest' = {}
    /\ ioPc' = "poll"
    /\ UNCHANGED <<zstate, session, netVars, queueVars, err, callerVars, sc, pipe, countVars>>

Connecting ==
    /\ ioPc = "interest" /\ sock = "none" /\ ~PastLastAddress
    /\ UNCHANGED <<session, connect_index, c2s, s2c, executed, queueVars, callerVars, sc, pipe,
                   nextXid, chatter>>

\* connect() is in progress.
ConnectStart ==
    /\ Connecting
    /\ sock' = "connecting" /\ zstate' = "CONNECTING" /\ overdue' = FALSE
    /\ AskInterest("CONNECTING", to_send)
    /\ ioPc' = "poll"
    /\ UNCHANGED <<primer, err, faults>>

\* connect() succeeds at once: prime_connection sends the handshake.
ConnectNow ==
    /\ Connecting
    /\ sock' = "up" /\ zstate' = "ASSOCIATING" /\ primer' = "asked" /\ overdue' = FALSE
    /\ AskInterest("ASSOCIATING", to_send)
    /\ ioPc' = "poll"
    /\ UNCHANGED <<err, faults>>

\* connect() fails at once.
ConnectRefused ==
    /\ Connecting
    /\ faults < MaxFaults /\ faults' = faults + 1
    /\ Fail("ZCONNECTIONLOSS", "poll")
    /\ UNCHANGED <<zstate, sock, primer, overdue>>

OverdueConnected == overdue /\ zstate = "CONNECTED"     \* faulty variant: the handshake has no timeout
ReceiveOverdue   == overdue

\* Nothing received for 2/3 of recv_timeout: give the connection up.
ReceiveTimeout ==
    /\ ioPc = "interest" /\ sock # "none" /\ ReceiveOverdue
    /\ Fail("ZOPERATIONTIMEOUT", "poll")
    /\ UNCHANGED <<zhVars, netVars, queueVars, callerVars, sc, pipe, countVars>>

\* Nothing sent for 1/3 of recv_timeout and nothing outstanding: decide to ping.
DecidePing ==
    /\ ioPc = "interest" /\ sock # "none" /\ ~ReceiveOverdue
    /\ zstate = "CONNECTED" /\ sent_requests = <<>>
    /\ chatter < MaxChatter /\ chatter' = chatter + 1
    /\ ioPc' = "ping"
    /\ UNCHANGED <<zhVars, netVars, queueVars, interest, err, callerVars, sc, pipe, nextXid,
                   faults>>

\* send_ping; a caller may have queued a request since DecidePing.
SendPing ==
    /\ ioPc = "ping"
    /\ AddRequest([xid |-> PING_XID, n |-> Len(issued) + 1, kind |-> "ping", by |-> IO])
    /\ pipe' = TRUE
    /\ AskInterest(zstate, to_send')
    /\ ioPc' = "poll"
    /\ UNCHANGED <<zhVars, netVars, tmp_list, completions, err, callerVars, sc, countVars>>

Interest ==
    /\ ioPc = "interest" /\ sock # "none" /\ ~ReceiveOverdue
    /\ AskInterest(zstate, to_send)
    /\ ioPc' = "poll"
    /\ UNCHANGED <<zhVars, netVars, queueVars, err, callerVars, sc, pipe, countVars>>

\* What the kernel reports of the socket: a dead one is readable and hung up.
readable == s2c # <<>> \/ primer \in {"accepted", "expired"} \/ sock \in {"reset", "refused"}
writable == sock \in {"up", "reset", "refused"}
hungUp   == sock \in {"reset", "refused"}

\* poll() returns with what is ready, or at its timeout with nothing.
revents ==
    IF sock = "none" THEN {}
    ELSE (IF readable THEN {"READ"} ELSE {}) \cup
         (IF hungUp \/ (writable /\ "WRITE" \in interest) THEN {"WRITE"} ELSE {})

-----------------------------------------------------------------------------
(* The IO thread: zookeeper_process and check_events.  The self-pipe is    *)
(* drained before the events are dispatched.  Only this thread consumes    *)
(* what makes the socket ready, so poll() and the dispatch are one step.   *)

\* No socket, or no event: back to zookeeper_interest.
ProcessNothing ==
    /\ ioPc = "poll" /\ revents = {}
    /\ pipe' = FALSE
    /\ TopOfLoop
    /\ UNCHANGED <<zhVars, netVars, queueVars, err, callerVars, sc, countVars>>

handshakeDue == "WRITE" \in revents /\ zstate = "CONNECTING"

\* A connect() in progress ended: SO_ERROR is set, or the handshake cannot be sent ...
HandshakeFails ==
    /\ ioPc = "poll" /\ handshakeDue /\ hungUp
    /\ pipe' = FALSE
    /\ Fail("ZCONNECTIONLOSS", "interest")
    /\ UNCHANGED <<zhVars, netVars, queueVars, callerVars, sc, countVars>>

\* ... or prime_connection sends it.
PrimeConnection ==
    /\ ioPc = "poll" /\ handshakeDue /\ ~hungUp
    /\ pipe' = FALSE
    /\ zstate' = "ASSOCIATING"
    /\ primer' = "asked"
    /\ TopOfLoop
    /\ UNCHANGED <<session, connect_index, sock, c2s, s2c, executed, overdue, queueVars,
                   err, callerVars, sc, countVars>>

AfterFlush == interest' = {} /\ ioPc' = IF "READ" \in revents THEN "read" ELSE "interest"

\* flush_send_queue(zh, 0) moves frames to the socket only when connected, as
\* many as the socket takes.
FlushSendQueue ==
    /\ ioPc = "poll" /\ revents # {} /\ ~handshakeDue
    /\ pipe' = FALSE
    /\ LET flushing == "WRITE" \in revents /\ to_send # <<>> /\ zstate = "CONNECTED" IN
       \/ /\ flushing /\ sock # "reset"
          /\ \E k \in 1..Len(to_send) :
                /\ c2s' = c2s \o SubSeq(to_send, 1, k)
                /\ to_send' = SubSeq(to_send, k + 1, Len(to_send))
          /\ AfterFlush
          /\ UNCHANGED err
       \/ /\ flushing /\ sock = "reset"
          /\ Fail("ZCONNECTIONLOSS", "interest")
          /\ UNCHANGED <<c2s, to_send>>
       \/ /\ ~flushing
          /\ AfterFlush
          /\ UNCHANGED <<c2s, to_send, err>>
    /\ UNCHANGED <<zhVars, sock, primer, s2c, executed, overdue, sent_requests, tmp_list,
                   completions, issued, callerVars, sc, countVars>>

ReadError ==
    /\ ioPc = "read" /\ hungUp
    /\ Fail("ZCONNECTIONLOSS", "interest")
    /\ UNCHANGED <<zhVars, netVars, queueVars, callerVars, sc, pipe, countVars>>

\* The answer to the handshake: the session is established.  send_set_watches
\* goes ahead of whatever the callers have queued.
ReadPrimerAccepted ==
    /\ ioPc = "read" /\ primer = "accepted"
    /\ zstate' = "CONNECTED" /\ session' = TRUE
    /\ to_send' = <<[xid |-> SET_WATCHES_XID, n |-> 0]>> \o to_send
    /\ QueueCompletion(SessionEntry("CONNECTED"))
    /\ primer' = "none" /\ overdue' = FALSE
    /\ TopOfLoop
    /\ UNCHANGED <<connect_index, sock, c2s, s2c, executed, sent_requests, tmp_list, issued,
                   err, callerVars, sc, pipe, countVars>>

\* The server answers with another session id than ours.
ReadPrimerExpired ==
    /\ ioPc = "read" /\ primer = "expired"
    /\ zstate' = "EXPIRED_SESSION"
    /\ primer' = "none" /\ overdue' = FALSE
    /\ Fail("ZSESSIONEXPIRED", "interest")
    /\ UNCHANGED <<session, connect_index, sock, c2s, s2c, executed, queueVars,
                   callerVars, sc, pipe, countVars>>

\* One frame is received and dispatched.
ReadFrame ==
    /\ ioPc = "read" /\ primer = "none" /\ s2c # <<>>
    /\ s2c' = Tail(s2c)
    /\ overdue' = FALSE
    /\ UNCHANGED <<zhVars, sock, primer, c2s, executed, to_send, tmp_list, issued,
                   callerVars, pipe, countVars>>

\* A watch event is handed to the completion thread.
ReadWatchEvent ==
    /\ ReadFrame
    /\ Head(s2c).xid = WATCHER_EVENT_XID
    /\ QueueCompletion(WatchEntry)
    /\ TopOfLoop
    /\ UNCHANGED <<sent_requests, sc, err>>

\* The answer to SetWatches is ignored.
ReadSetWatches ==
    /\ ReadFrame
    /\ Head(s2c).xid = SET_WATCHES_XID
    /\ TopOfLoop
    /\ UNCHANGED <<sent_requests, completions, sc, err>>

\* The test of zookeeper_process: does a reply answer the oldest request?
MatchesAny(request, reply) == TRUE              \* faulty variant: xids are not compared
Matches(request, reply) == request.xid = reply.xid

\* A reply: the oldest request leaves sent_requests if it is the one answered.
\* assert(cptr) lets no reply pass when there is none (WireMatchesSent).
ReadReply ==
    /\ ReadFrame
    /\ sent_requests # <<>>
    /\ Head(s2c).xid \notin {WATCHER_EVENT_XID, SET_WATCHES_XID}
    /\ LET r == Head(sent_requests) IN
       \/ /\ ~Matches(r, Head(s2c))
          /\ Fail("ZRUNTIMEINCONSISTENCY", "interest")
          /\ UNCHANGED <<sent_requests, completions, sc>>
       \/ /\ Matches(r, Head(s2c))
          /\ sent_requests' = Tail(sent_requests)
          /\ Deliver(r, "ZOK")
          /\ TopOfLoop
          /\ UNCHANGED err

-----------------------------------------------------------------------------
(* The IO thread: handle_error.                                            *)

\* The session event: the loss of the session, or of an established connection.
ErrorEventIfExpired ==                          \* faulty variant: silent about a lost connection
    IF is_unrecoverable THEN QueueCompletion(SessionEntry(zstate)) ELSE UNCHANGED completions
ErrorEvent ==
    CASE is_unrecoverable     -> QueueCompletion(SessionEntry(zstate))
      [] zstate = "CONNECTED" -> QueueCompletion(SessionEntry("CONNECTING"))
      [] OTHER                -> UNCHANGED completions

\* close(fd) and the session event.  The server may still carry out what was
\* in flight; nothing that is answered depends on it.
HandleErrorClose ==
    /\ ioPc = "close"
    /\ ErrorEvent
    /\ sock' = "none" /\ primer' = "none" /\ c2s' = <<>> /\ s2c' = <<>> /\ overdue' = FALSE
    /\ ioPc' = "cleanup"
    /\ UNCHANGED <<zhVars, executed, to_send, sent_requests, tmp_list, issued, interest, err, callerVars,
                   sc, pipe, countVars>>

KeepSendQueue == UNCHANGED to_send              \* faulty variant: to_send survives the connection
FreeSendQueue == to_send' = <<>>

\* cleanup_bufs enters the critical section, drops to_send and detaches sent_requests.
CleanupBufs ==
    /\ ioPc = "cleanup"
    /\ FreeSendQueue
    /\ tmp_list' = sent_requests
    /\ sent_requests' = <<>>
    /\ ioPc' = "free"
    /\ UNCHANGED <<zhVars, netVars, completions, issued, interest, err, callerVars, sc, pipe,
                   countVars>>

\* free_completions: the next detached request fails with err.rc.  A ping is dropped.
FreeCompletion ==
    /\ ioPc = "free" /\ tmp_list # <<>>
    /\ tmp_list' = Tail(tmp_list)
    /\ Deliver(Head(tmp_list), err.rc)
    /\ UNCHANGED <<zhVars, netVars, to_send, sent_requests, issued, ioVars, callerVars, pipe,
                   countVars>>

SkipAddress == connect_index' = connect_index + 2    \* faulty variant: the caller moves on as well
NextAddress == connect_index' = connect_index + 1

\* The critical section is left, fd = -1, the next address is up; an
\* unrecoverable handle ends do_io.
HandleErrorReset ==
    /\ ioPc = "free" /\ tmp_list = <<>>
    /\ NextAddress
    /\ zstate' = IF is_unrecoverable THEN zstate ELSE "NOTCONNECTED"
    /\ ioPc' = IF is_unrecoverable THEN "done" ELSE err.next
    /\ err' = NoError
    /\ UNCHANGED <<session, netVars, queueVars, interest, callerVars, sc, pipe, countVars>>

-----------------------------------------------------------------------------
(* The network and the server, external.                                   *)

clientVars == <<zhVars, queueVars, ioVars, callerVars, sc, pipe, nextXid>>

Fault == faults < MaxFaults /\ faults' = faults + 1

LinkEstablished ==
    /\ sock = "connecting" /\ sock' = "up"
    /\ UNCHANGED <<clientVars, primer, c2s, s2c, executed, overdue, faults, chatter>>

\* The connection is refused, is reset, or delivers nothing more.
LinkFails ==
    /\ Fault
    /\ \/ sock = "connecting" /\ sock' = "refused"
       \/ sock = "up" /\ sock' = "reset"
       \/ sock \in {"connecting", "up"} /\ sock' = "silent"
    /\ UNCHANGED <<clientVars, primer, c2s, s2c, executed, overdue, chatter>>

\* Time passes without a byte.  A live link that is too slow is a silent one.
TimePasses ==
    /\ sock = "silent" /\ ~overdue /\ overdue' = TRUE
    /\ UNCHANGED <<clientVars, sock, primer, c2s, s2c, executed, faults, chatter>>

ServerAcceptsSession ==
    /\ sock = "up" /\ primer = "asked" /\ primer' = "accepted"
    /\ UNCHANGED <<clientVars, sock, c2s, s2c, executed, overdue, faults, chatter>>

ServerExpiresSession ==
    /\ sock = "up" /\ primer = "asked" /\ session /\ primer' = "expired"
    /\ Fault
    /\ UNCHANGED <<clientVars, sock, c2s, s2c, executed, overdue, chatter>>

\* The server answers in the order of the requests.
ServerReplies ==
    /\ sock = "up" /\ c2s # <<>>
    /\ c2s' = Tail(c2s)
    /\ s2c' = Append(s2c, Head(c2s))
    /\ executed' = executed \cup {Head(c2s).n}
    /\ UNCHANGED <<clientVars, sock, primer, overdue, faults, chatter>>

\* A reply whose xid is not the one of the request it stands for, which was not carried out.
ServerMisreplies ==
    /\ sock = "up" /\ c2s # <<>> /\ Head(c2s).n # 0
    /\ Fault
    /\ c2s' = Tail(c2s)
    /\ s2c' = Append(s2c, [Head(c2s) EXCEPT !.xid = NO_XID])
    /\ UNCHANGED <<clientVars, sock, primer, executed, overdue, chatter>>

\* A watch event, once the session is established on this connection.
ServerNotifies ==
    /\ sock = "up" /\ (zstate = "CONNECTED" \/ primer = "accepted")
    /\ chatter < MaxChatter /\ chatter' = chatter + 1
    /\ s2c' = Append(s2c, [xid |-> WATCHER_EVENT_XID, n |-> 0])
    /\ UNCHANGED <<clientVars, sock, primer, c2s, executed, overdue, faults>>

-----------------------------------------------------------------------------
CallerStep(c) == Enqueue(c) \/ WakeIO(c) \/ SyncReturn(c)

zookeeper_interest ==
    WrapAddress \/ ConnectStart \/ ConnectNow \/ ConnectRefused \/ ReceiveTimeout
    \/ DecidePing \/ SendPing \/ Interest

zookeeper_process ==
    ProcessNothing \/ HandshakeFails \/ PrimeConnection \/ FlushSendQueue
    \/ ReadError \/ ReadPrimerAccepted \/ ReadPrimerExpired
    \/ ReadWatchEvent \/ ReadSetWatches \/ ReadReply

handle_error ==
    HandleErrorClose \/ CleanupBufs \/ FreeCompletion \/ HandleErrorReset

do_io == zookeeper_interest \/ zookeeper_process \/ handle_error

do_completion == RunCallback \/ CallbackReturns

Environment ==
    LinkEstablished \/ LinkFails \/ TimePasses \/ ServerAcceptsSession \/ ServerExpiresSession
    \/ ServerReplies \/ ServerMisreplies \/ ServerNotifies

Next ==
    \/ \E c \in Callers : (\E kind \in {"sync", "async"} : StartCall(c, kind)) \/ CallerStep(c)
    \/ do_completion
    \/ do_io
    \/ Environment

Spec == Init /\ [][Next]_vars

\* Every thread is scheduled and callbacks return; a connection attempt ends,
\* a live server answers, and time passes on a silent link.  Nothing obliges
\* an application to call, a link to fail or the IO thread to ping.
Fairness ==
    /\ \A c \in Callers : WF_vars(CallerStep(c))
    /\ WF_vars(do_completion)
    /\ WF_vars(do_io)
    /\ WF_vars(LinkEstablished)
    /\ WF_vars(ServerAcceptsSession \/ ServerExpiresSession)
    /\ WF_vars(ServerReplies)
    /\ WF_vars(TimePasses)

FairSpec == Spec /\ Fairness

-----------------------------------------------------------------------------
(* What must hold.                                                         *)

HandleTypeOK ==
    zstate \in States /\ session \in BOOLEAN /\ connect_index \in 0..NAddrs

NetTypeOK ==
    /\ sock \in {"none", "connecting", "up", "reset", "refused", "silent"}
    /\ primer \in {"none", "asked", "accepted", "expired"} /\ overdue \in BOOLEAN
    /\ c2s \in Seq(Frame) /\ s2c \in Seq(Frame) /\ executed \subseteq Nat

QueueTypeOK ==
    /\ to_send \in Seq(Frame)
    /\ sent_requests \in Seq(Request) /\ tmp_list \in Seq(Request)
    /\ completions \in Seq(Entry) /\ called \in Seq(Entry)
    /\ issued \in Seq(Issue)

IOTypeOK ==
    /\ ioPc \in {"interest", "ping", "poll", "read", "close", "cleanup", "free", "done"}
    /\ interest \subseteq {"READ", "WRITE"}
    /\ err \in [rc : Codes, next : {"interest", "poll"}]

CallerTypeOK ==
    /\ pc \in [Callers -> {"idle", "checked", "wake", "waiting"}]
    /\ call \in [Callers -> [kind : {"sync", "async"}, xid : Int]]
    /\ sc \in [Callers -> {"none"} \cup Codes]
    /\ inCallback \in BOOLEAN /\ pipe \in BOOLEAN
    /\ nextXid \in Nat /\ faults \in Nat /\ chatter \in Nat

TypeOK == HandleTypeOK /\ NetTypeOK /\ QueueTypeOK /\ IOTypeOK /\ CallerTypeOK

\* Asynchronous requests get their callbacks in the order they were put on
\* sent_requests and no request gets two, whether it was answered or failed
\* (zookeeper_process, free_completions, process_completions).
CallbacksInOrder ==
    \A i, j \in DOMAIN log :
        i < j /\ log[i].kind = "reply" /\ log[j].kind = "reply" => log[i].n < log[j].n

\* No accepted asynchronous request is lost or kept after its answer: it is
\* on one of the request lists, or its answer is with the completion thread,
\* never both and never neither.
RequestsAccountedFor ==
    \A n \in DOMAIN issued :
        issued[n].kind = "async" =>
            (\E i \in DOMAIN log : log[i].kind = "reply" /\ log[i].n = n)
            # (\E i \in DOMAIN outstanding : outstanding[i].n = n)

\* A synchronous caller is blocked exactly while one request of its own is
\* outstanding, so that the sync_completion on its stack is neither abandoned
\* while the IO thread may write it nor waited for in vain.
SyncCallersWait ==
    \A c \in Callers :
        Cardinality({i \in DOMAIN outstanding :
                        outstanding[i].kind = "sync" /\ outstanding[i].by = c})
        = IF pc[c] \in {"wake", "waiting"} /\ call[c].kind = "sync" /\ sc[c] = "none"
          THEN 1 ELSE 0

\* The frames that are answered, on their way, and still to be sent, as the
\* replies will come.  SetWatches and watch events have number 0.
wire == s2c \o c2s \o to_send

Numbers(list) == {list[i].n : i \in DOMAIN list} \ {0}
Ascending(frames) ==
    \A i, j \in DOMAIN frames :
        i < j /\ frames[i].n # 0 /\ frames[j].n # 0 => frames[i].n < frames[j].n

\* Every request of sent_requests has one frame on the wire and no other
\* request has one, and the frames have the order of the requests: the reply
\* that comes next is for the head of sent_requests (assert(cptr) and "the
\* requests are going to come back in order" in zookeeper_process), on the
\* first connection and after every reconnection.  From an error to its
\* cleanup_bufs the lists are out of step.
WireMatchesSent ==
    ioPc \notin {"close", "cleanup"} =>
        /\ Numbers(wire) = Numbers(sent_requests)
        /\ Ascending(wire) /\ Ascending(sent_requests)

\* A request reported as successful was carried out by the server: a reply is
\* never taken for the answer to another request.
SuccessWasExecuted ==
    \A i \in DOMAIN log : log[i].kind = "reply" /\ log[i].what = "ZOK" => log[i].n \in executed

\* The session event that precedes position i of log last is CONNECTED.
ConnectedAt(i) ==
    \E j \in 1..(i - 1) : /\ log[j] = SessionEntry("CONNECTED")
                          /\ \A k \in (j + 1)..(i - 1) : log[k].kind # "session"

\* The callbacks tell one consistent story: an answer of the server and a watch event
\* come while the session was last reported CONNECTED, and a failed request only after the
\* loss of the connection or of the session was reported (handle_error queues
\* the session event before it fails the requests).
CallbacksAgreeWithSession ==
    \A i \in DOMAIN log :
        log[i].kind # "session" => (log[i].what = "ZOK" <=> ConnectedAt(i))

\* While the IO thread sleeps in poll() without interest in writing, a request
\* on to_send has a byte in the self-pipe, or its caller is about to write
\* one: no request waits for the poll timeout to be sent.
NoLostWakeup ==
    ioPc = "poll" /\ "WRITE" \notin interest /\ zstate = "CONNECTED" /\ sock # "none"
    /\ (\E i \in DOMAIN to_send : to_send[i].n # 0)
        => pipe \/ \E c \in Callers : pc[c] = "wake"

\* While there is a socket, connect_index names an address of the host list
\* (format_current_endpoint_info and the LOG calls index addrs with it).
AddressInRange == sock # "none" => connect_index < NAddrs

\* The abstract specification this module implements, and the state of the
\* session as the callbacks were last told.
reported == ioPc \in {"cleanup", "free", "done"}
told == CASE zstate = "CONNECTED" /\ ~reported      -> "CONNECTED"
          [] zstate = "EXPIRED_SESSION" /\ reported -> "EXPIRED_SESSION"
          [] OTHER                                  -> "CONNECTING"

Ledger == INSTANCE RequestLedger WITH
    Callers <- Callers \cup {IO}, Codes <- Codes, accepted <- issued,
    open <- {outstanding[i].n : i \in DOMAIN outstanding}, log <- log, told <- told

\* Threads, queues, connections and errors together implement the ledger.
LedgerSpec == Ledger!Spec

\* Every synchronous call returns, and every asynchronous request gets its
\* callback, unless the session expires: whatever the network does, the
\* request is answered, or the connection is given up and the request fails.
RequestsAnswered ==
    \A n \in 1..(MaxRequests + MaxChatter) :
        n \in DOMAIN issued /\ issued[n].kind = "async" ~>
            is_unrecoverable \/ \E i \in DOMAIN called : called[i].kind = "reply" /\ called[i].n = n

SyncCallsReturn ==
    \A c \in Callers : pc[c] = "waiting" ~> pc[c] # "waiting" \/ is_unrecoverable

\* The IO thread never gives up: the handle is connected again and again, or
\* its session has expired.
Reconnects == []<>(zstate \in {"CONNECTED", "EXPIRED_SESSION"})

\* What zookeeper.h:402 says of a completion: it is called at the end of the
\* call, and also as a result of connection loss or timeout.  For a
\* synchronous call this means that it returns, expired session or not.
SyncCallsAlwaysReturn == \A c \in Callers : pc[c] = "waiting" ~> pc[c] # "waiting"
=============================================================================
