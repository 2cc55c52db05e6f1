--------------------------- MODULE Authentication ---------------------------
(***************************************************************************)
(* The credentials of a handle: zoo_add_auth puts them on the list auth_h  *)
(* and sends the last one if connected, the IO thread sends the list again *)
(* on a new connection, and a reply to any of them calls the completions   *)
(* of all.  zookeeper.c 208-325, 990-1152 and 3006-3043.                   *)
(*                                                                         *)
(* A credential stands for one call of zoo_add_auth.  Frames are whole; a  *)
(* request stands for everything else on the send queue.                   *)
(***************************************************************************)
EXTENDS Integers, Sequences, FiniteSets, SequencesExt

CONSTANTS
    Callers,            \* threads that call zoo_add_auth
    Credentials,
    Rejected,           \* those that the server rejects
    CallbackCalls,      \* whether completions call the API
    MaxRequests,        \* bound on requests
    MaxFaults           \* bound on lost connections

ASSUME RejectedAssumption == Rejected \subseteq Credentials
ASSUME CallbackAssumption == CallbackCalls \in BOOLEAN
ASSUME BoundsAssumption   == MaxRequests \in Nat /\ MaxFaults \in Nat

VARIABLES
    state,              \* zh->state
    link,               \* whether the server has accepted the connection
    auth_h,             \* the list of credentials
    pending,            \* those whose completion is not yet taken
    to_send, wire,      \* frames queued, and on their way
    replies,            \* results of credentials on their way back
    server,             \* external: the credentials this connection has
    pc, adding,         \* where each caller is in zoo_add_auth, and with what
    ioPc,               \* where the IO thread is
    callbacks, reason,  \* the completions on a_list, and what to call them with
    called,             \* history: what each completion was called with
    skipped,            \* history: the credentials left out on this connection
    overtaken,          \* history: those of them left out by send_last_auth_info
    told,               \* history: the watcher was told ZOO_AUTH_FAILED_STATE
    requests, faults

listVars   == <<auth_h, pending>>
wireVars   == <<wire, replies, server>>
callerVars == <<pc, adding>>
ioVars     == <<ioPc, callbacks, reason>>
leftVars   == <<skipped, overtaken>>
histVars   == <<called, leftVars, told>>
vars == <<state, link, listVars, to_send, wireVars, callerVars, ioVars, histVars, requests, faults>>

Nobody == "none"

Init ==
    /\ state = "CONNECTING" /\ link = FALSE
    /\ auth_h = <<>> /\ pending = {}
    /\ to_send = <<>> /\ wire = <<>> /\ replies = <<>> /\ server = {}
    /\ pc = [t \in Callers |-> "idle"] /\ adding = [t \in Callers |-> Nobody]
    /\ ioPc = "loop" /\ callbacks = {} /\ reason = "none"
    /\ called = [c \in Credentials |-> <<>>] /\ told = FALSE
    /\ skipped = {} /\ overtaken = {}
    /\ requests = 0 /\ faults = 0

is_unrecoverable == state = "AUTH_FAILED"

Auth(c)    == [type |-> "auth", cred |-> c]
IsAuth(f, c) == f.type = "auth" /\ f.cred = c

\* At the server, or on the way to it.
Sent == server \cup {c \in Credentials : \E i \in DOMAIN (wire \o to_send) : IsAuth((wire \o to_send)[i], c)}

\* The IO thread holds zh_lock.
inCritical == ioPc = "failing"

-----------------------------------------------------------------------------
(* zoo_add_auth.                                                           *)

Started == ToSet(auth_h) \cup {adding[t] : t \in Callers}

AddAuth(t, c) ==
    /\ pc[t] = "idle" /\ c \notin Started /\ ~is_unrecoverable
    /\ pc' = [pc EXCEPT ![t] = "append"] /\ adding' = [adding EXCEPT ![t] = c]
    /\ UNCHANGED <<state, link, listVars, to_send, wireVars, ioVars, histVars, requests, faults>>

add_last_auth(t) ==
    /\ pc[t] = "append"
    /\ auth_h' = Append(auth_h, adding[t])
    /\ pending' = pending \cup {adding[t]}
    /\ pc' = [pc EXCEPT ![t] = "test"]
    /\ UNCHANGED <<state, link, to_send, wireVars, adding, ioVars, histVars, requests, faults>>

TestStateVars == <<state, link, listVars, to_send, wireVars, adding, ioVars, histVars, requests, faults>>

LeaveIt(t) ==               \* faulty variant: left for the next connection in any case
    /\ pc[t] = "test"
    /\ pc' = [pc EXCEPT ![t] = "idle"]
    /\ UNCHANGED TestStateVars

\* zh->state == ZOO_CONNECTED_STATE, without a lock.
TestState(t) ==
    /\ pc[t] = "test"
    /\ pc' = [pc EXCEPT ![t] = IF state \in {"CONNECTED", "ASSOCIATING"} THEN "send" ELSE "idle"]
    /\ UNCHANGED TestStateVars

\* Each packet goes to the front, so that the last one queued is the first.
QueueBack(frames, packets)   == frames \o packets   \* faulty variant: credentials wait their turn
queue_front(frames, packets) == Reverse(packets) \o frames

send_info_packets(frames, creds) == queue_front(frames, [i \in DOMAIN creds |-> Auth(creds[i])])

\* Another thread may have put its credential behind; then the one of this
\* thread is left out.
send_last_auth_info(t) ==
    /\ pc[t] = "send"
    /\ to_send' = send_info_packets(to_send, <<Last(auth_h)>>)
    /\ pc' = [pc EXCEPT ![t] = "idle"]
    /\ skipped' = IF adding[t] = Last(auth_h) THEN skipped \ {adding[t]}
                  ELSE skipped \cup ({adding[t]} \ Sent)
    /\ overtaken' = IF adding[t] = Last(auth_h) THEN overtaken \ {adding[t]}
                    ELSE overtaken \cup ({adding[t]} \ Sent)
    /\ UNCHANGED <<state, link, listVars, wireVars, adding, ioVars, called, told, requests,
                   faults>>

\* A request of a caller; it counts on the credentials of the calls of
\* zoo_add_auth that have returned.
RequestFrame ==
    [type |-> "request",
     after |-> {c \in ToSet(auth_h) : \A t \in Callers : pc[t] = "idle" \/ adding[t] # c}]

Request(t) ==
    /\ pc[t] = "idle" /\ ~inCritical /\ ~is_unrecoverable
    /\ requests < MaxRequests /\ requests' = requests + 1
    /\ to_send' = Append(to_send, RequestFrame)
    /\ UNCHANGED <<state, link, listVars, wireVars, callerVars, ioVars, histVars, faults>>

-----------------------------------------------------------------------------
(* The IO thread.                                                          *)

prime_connection ==
    /\ ioPc = "loop" /\ state = "CONNECTING"
    /\ state' = "ASSOCIATING"
    /\ UNCHANGED <<link, listVars, to_send, wireVars, callerVars, ioVars, histVars, requests, faults>>

Connected ==
    /\ ioPc = "loop" /\ state = "ASSOCIATING"
    /\ link' = TRUE /\ state' = "CONNECTED"
    /\ wire' = <<>> /\ replies' = <<>> /\ server' = {}
    /\ skipped' = {} /\ overtaken' = {}
    /\ ioPc' = "sendAuth"
    /\ UNCHANGED <<listVars, to_send, callerVars, callbacks, reason, called, told, requests,
                   faults>>

\* Every element with a successor is sent.
send_auth_info ==
    /\ ioPc = "sendAuth"
    /\ IF auth_h = <<>>
         THEN UNCHANGED <<to_send, leftVars>>
         ELSE /\ to_send' = send_info_packets(to_send, Front(auth_h))
              /\ skipped' = {Last(auth_h)} \ Sent /\ overtaken' = {}
    /\ ioPc' = "loop"
    /\ UNCHANGED <<state, link, listVars, wireVars, callerVars, callbacks, reason, called, told,
                   requests, faults>>

flush_send_queue ==
    /\ ioPc = "loop" /\ link /\ to_send # <<>>
    /\ wire' = Append(wire, Head(to_send))
    /\ to_send' = Tail(to_send)
    /\ UNCHANGED <<state, link, listVars, replies, server, callerVars, ioVars, histVars, requests,
                   faults>>

KeepPending == UNCHANGED pending            \* faulty variant: completions are not taken off the list
TakePending == pending' = {}

\* Take the completions off the list, to call them with rc, in its order.
get_auth_completions(rc) ==
    /\ callbacks' = pending
    /\ TakePending
    /\ reason' = rc

\* auth_completion_func: whatever credential the reply is for.
auth_completion_func ==
    /\ ioPc = "loop" /\ link /\ replies # <<>>
    /\ replies' = Tail(replies)
    /\ state' = IF Head(replies) # "ZOK" THEN "AUTH_FAILED" ELSE state
    /\ get_auth_completions(Head(replies))
    /\ ioPc' = "callbacks"
    /\ UNCHANGED <<link, auth_h, to_send, wire, server, callerVars, histVars, requests, faults>>

\* A completion runs in the IO thread.  If it calls the API while zh_lock is
\* held, the thread waits for itself: the mutex is not recursive.  What it may
\* queue otherwise is no different from the request of a caller.
CallCompletion ==
    /\ ioPc \in {"callbacks", "failing"}
    /\ \E i \in DOMAIN auth_h :
          /\ auth_h[i] \in callbacks /\ \A j \in 1..(i - 1) : auth_h[j] \notin callbacks
          /\ called' = [called EXCEPT ![auth_h[i]] = Append(@, reason)]
          /\ callbacks' = callbacks \ {auth_h[i]}
    /\ ioPc' = IF CallbackCalls /\ inCritical /\ ~is_unrecoverable THEN "waitsForItself" ELSE ioPc
    /\ UNCHANGED <<state, link, listVars, to_send, wireVars, callerVars, reason, leftVars, told,
                   requests, faults>>

CarryOn     == ioPc' = "loop"               \* faulty variant: a failed credential is not an error
AfterReply  == ioPc' = IF is_unrecoverable THEN "error" ELSE "loop"

CompletionsCalled ==
    /\ ioPc = "callbacks" /\ callbacks = {}
    /\ AfterReply
    /\ UNCHANGED <<state, link, listVars, to_send, wireVars, callerVars, callbacks, reason, histVars,
                   requests, faults>>

\* Also before there is a connection, if the server refuses it.
ConnectionLost ==
    /\ ioPc = "loop"
    /\ faults < MaxFaults /\ faults' = faults + 1
    /\ ioPc' = "error"
    /\ UNCHANGED <<state, link, listVars, to_send, wireVars, callerVars, callbacks, reason, histVars,
                   requests>>

\* handle_error: close the socket and report the state ...
HandleErrorClose ==
    /\ ioPc = "error"
    /\ link' = FALSE
    /\ told' = (told \/ is_unrecoverable)
    /\ wire' = <<>> /\ replies' = <<>> /\ server' = {}
    /\ ioPc' = "cleanup"
    /\ UNCHANGED <<state, listVars, to_send, callerVars, callbacks, reason, called, leftVars, requests,
                   faults>>

\* ... cleanup_bufs and free_completions, which hold zh_lock ...
CleanupBufs ==
    /\ ioPc = "cleanup"
    /\ to_send' = <<>>
    /\ get_auth_completions(IF is_unrecoverable THEN "ZAUTHFAILED" ELSE "ZCONNECTIONLOSS")
    /\ ioPc' = "failing"
    /\ UNCHANGED <<state, link, auth_h, wireVars, callerVars, histVars, requests, faults>>

StartOver  == state' = "CONNECTING"         \* faulty variant: the state is reset in any case
ResetState == state' = IF is_unrecoverable THEN state ELSE "CONNECTING"

\* ... and a state to start over from, unless there is none.
HandleErrorReset ==
    /\ ioPc = "failing" /\ callbacks = {}
    /\ ResetState
    /\ ioPc' = IF is_unrecoverable THEN "done" ELSE "loop"
    /\ UNCHANGED <<link, listVars, to_send, wireVars, callerVars, callbacks, reason, histVars,
                   requests, faults>>

-----------------------------------------------------------------------------
\* External: the server checks a credential and answers, or executes a
\* request.  It drops the connection of a client it rejects, which the client
\* does itself on the reply.
ServerStep ==
    /\ link /\ wire # <<>>
    /\ wire' = Tail(wire)
    /\ LET f == Head(wire)
       IN  IF f.type = "request" THEN UNCHANGED <<replies, server>>
           ELSE IF f.cred \in Rejected
             THEN replies' = Append(replies, "ZAUTHFAILED") /\ UNCHANGED server
             ELSE replies' = Append(replies, "ZOK") /\ server' = server \cup {f.cred}
    /\ UNCHANGED <<state, link, listVars, to_send, callerVars, ioVars, histVars, requests, faults>>

handle_error == HandleErrorClose \/ CleanupBufs \/ HandleErrorReset

IOStep ==
    \/ prime_connection \/ Connected \/ send_auth_info \/ flush_send_queue
    \/ auth_completion_func \/ CallCompletion \/ CompletionsCalled \/ handle_error

zoo_add_auth(t) == add_last_auth(t) \/ TestState(t) \/ send_last_auth_info(t)

Next ==
    \/ \E t \in Callers : (\E c \in Credentials : AddAuth(t, c)) \/ zoo_add_auth(t) \/ Request(t)
    \/ IOStep \/ ConnectionLost \/ ServerStep

Spec == Init /\ [][Next]_vars

\* The threads are scheduled and a live server answers; nobody has to add
\* credentials and the connection need not break.
FairSpec ==
    /\ Spec
    /\ \A t \in Callers : WF_vars(zoo_add_auth(t))
    /\ WF_vars(IOStep)
    /\ WF_vars(ServerStep)

-----------------------------------------------------------------------------
(* What must hold.                                                         *)

Codes  == {"ZOK", "ZAUTHFAILED", "ZCONNECTIONLOSS"}
Frames == [type : {"auth"}, cred : Credentials] \cup [type : {"request"}, after : SUBSET Credentials]

TypeOK ==
    /\ state \in {"CONNECTING", "ASSOCIATING", "CONNECTED", "AUTH_FAILED"}
    /\ link \in BOOLEAN /\ told \in BOOLEAN
    /\ auth_h \in Seq(Credentials)
    /\ pending \subseteq ToSet(auth_h) /\ callbacks \subseteq ToSet(auth_h)
    /\ to_send \in Seq(Frames) /\ wire \in Seq(Frames) /\ replies \in Seq(Codes)
    /\ server \subseteq Credentials /\ skipped \subseteq Credentials /\ overtaken \subseteq skipped
    /\ \A t \in Callers : pc[t] \in {"idle", "append", "test", "send"}
    /\ \A t \in Callers : pc[t] # "idle" => adding[t] \in Credentials
    /\ ioPc \in {"loop", "sendAuth", "callbacks", "error", "cleanup", "failing", "done",
                 "waitsForItself"}
    /\ \A c \in Credentials : ToSet(called[c]) \subseteq Codes
    /\ reason \in Codes \cup {"none"}

\* A completion is called once at most: what is still to be called, by the
\* next reply or error or by the one that is being handled, was not called
\* yet, and they do not both get hold of it.
CompletionsCalledOnce ==
    /\ \A c \in Credentials : Len(called[c]) <= 1
    /\ \A c \in pending \cup callbacks : called[c] = <<>>
    /\ pending \cap callbacks = {}

Ahead(c, i, frames) == \E j \in 1..(i - 1) : IsAuth(frames[j], c)

\* The credentials that the request in frames[i] counts on, and that are neither
\* at the server nor in front of it.
Missing(i, frames) == {c \in frames[i].after : c \notin server /\ ~Ahead(c, i, frames)}

\* A request that was made after zoo_add_auth returned reaches the server
\* behind the credential, also over a reconnection, except for two kinds: the
\* credential that was the last on the list when the connection came up, which
\* send_auth_info leaves out, and one that another thread has overtaken in
\* send_last_auth_info.  The code should send those too (zookeeper.c:1120,
\* zookeeper.h:878); OneIsMissing says how far it goes wrong.
RequestsCarryCredentials ==
    link /\ ioPc \in {"loop", "callbacks"} =>
        LET frames == wire \o to_send
        IN  \A i \in DOMAIN frames :
                frames[i].type = "request" => Missing(i, frames) \subseteq skipped \cup Rejected

\* But for those overtaken, at most one credential is missing on a connection,
\* after any number of reconnections: all requests on their way miss the same
\* one, or none.
OneIsMissing ==
    link /\ ioPc \in {"loop", "callbacks"} =>
        LET frames     == wire \o to_send
            ofRequests == {i \in DOMAIN frames : frames[i].type = "request"}
            lacks(i)   == Missing(i, frames) \ (Rejected \cup overtaken)
        IN  \A i, j \in ofRequests : \A c \in lacks(i), d \in lacks(j) : c = d

\* "zhandle state is either ZOO_SESSION_EXPIRED_STATE or ZOO_AUTH_FAILED_STATE"
\* (zookeeper.h:900): a handle never recovers from a rejected credential.
AuthFailureIsFinal == [][is_unrecoverable => is_unrecoverable']_vars

\* "the server connection is dropped - the watcher is called with the
\* ZOO_AUTH_FAILED_STATE value" (zookeeper.h:884).
AuthFailureIsReported == is_unrecoverable ~> told /\ ~link

\* The completion of every credential is called in the end, unless it was left
\* out on the connection, or another was rejected meanwhile.
CompletionsAreCalled ==
    \A c \in Credentials : c \in pending ~> c \notin pending \/ c \in skipped \/ is_unrecoverable

\* The IO thread never waits for a lock it holds itself.
NoSelfDeadlock == ioPc # "waitsForItself"
=============================================================================
