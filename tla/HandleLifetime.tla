--------------------------- MODULE HandleLifetime ---------------------------
(***************************************************************************)
(* The life of a zhandle_t in the multi-threaded client: zookeeper_init    *)
(* starts the IO and the completion thread behind a barrier, the three     *)
(* threads share the handle by counting references (api_prolog and         *)
(* api_epilog), and zookeeper_close destroys it once nobody uses it.       *)
(* mt_adaptor.c, and zookeeper_close, destroy and the API brackets of      *)
(* zookeeper.c.                                                            *)
(*                                                                         *)
(* The handle is closed once: by the application, or by the completion     *)
(* thread from within a callback, if it is among Closers.  The request path *)
(* is abstracted to how many asynchronous requests are outstanding and     *)
(* whether a synchronous one is; but a call takes its steps on the handle  *)
(* one by one, because it holds no reference.  A thread about to use a     *)
(* handle that is already freed is stuck: what it does is undefined.       *)
(***************************************************************************)
EXTENDS Integers, Sequences, FiniteSets

CONSTANTS
    App,            \* the thread that calls zookeeper_init, and the API
    IO,             \* the IO thread
    Completion,     \* the completion thread
    Closers,        \* the threads that may call zookeeper_close
    MaxCalls,       \* bound on API calls
    MaxEvents,      \* bound on the session's changes
    MaxMisreplies   \* bound on replies with a wrong xid

Threads == {App, IO, Completion}

ASSUME ThreadsAssumption == App # IO /\ IO # Completion /\ App # Completion
ASSUME ClosersAssumption == Closers \subseteq {App, Completion}
ASSUME BoundsAssumption  == MaxCalls \in Nat /\ MaxEvents \in Nat /\ MaxMisreplies \in Nat

VARIABLES
    ref_counter, close_requested,   \* of the handle
    state,                          \* zh->state
    freed,                          \* the handle has been given to free()
    threadsToWait,                  \* the start-up barrier
    pc,                             \* where each thread is
    returnTo,                       \* where its zookeeper_close goes when it is done
    nested,                         \* whether an api_epilog made that call
    asleep,                         \* the completion thread is in pthread_cond_wait
    synchronous,                    \* the call the application is in is a synchronous one
    sent,                           \* asynchronous requests outstanding
    waiting,                        \* a synchronous request is outstanding
    completions,                    \* zh->completions_to_process
    closeRc,                        \* what zookeeper_close returned to the user
    flushRc,                        \* the outcome of sending the close request
    leaked,                         \* history: api_prologs whose api_epilog was skipped
    calls, events                   \* counters

handleVars  == <<ref_counter, close_requested, state, freed>>
closeVars   == <<returnTo, nested, closeRc, flushRc>>
requestVars == <<synchronous, sent, waiting, completions, asleep>>
countVars   == <<leaked, calls, events>>
vars == <<handleVars, threadsToWait, pc, closeVars, requestVars, countVars>>

Init ==
    /\ ref_counter = 0 /\ close_requested = FALSE /\ state = "CONNECTING" /\ freed = FALSE
    /\ threadsToWait = 2
    /\ pc = [t \in Threads |-> IF t = App THEN "init" ELSE "unborn"]
    /\ returnTo = [t \in Threads |-> "none"] /\ nested = [t \in Threads |-> FALSE]
    /\ asleep = FALSE /\ synchronous = FALSE
    /\ sent = 0 /\ waiting = FALSE /\ completions = <<>>
    /\ closeRc = "none" /\ flushRc = "none"
    /\ leaked = 0 /\ calls = 0 /\ events = 0

is_unrecoverable == state = "EXPIRED_SESSION"

Go(t, where) == pc' = [pc EXCEPT ![t] = where]

\* A thread at from takes its next step on the handle.
At(t, from) == pc[t] = from /\ ~freed

api_prolog == ref_counter' = ref_counter + 1

\* Call zookeeper_close from api_epilog; close_requested is set already.
CloseFromEpilog(t, after) ==
    /\ Go(t, "test")
    /\ returnTo' = [returnTo EXCEPT ![t] = after]
    /\ nested' = [nested EXCEPT ![t] = TRUE]

CountDown(t, after) ==                      \* faulty variant: the last user does not close
    ref_counter' = ref_counter - 1 /\ Go(t, after) /\ UNCHANGED <<returnTo, nested>>
api_epilog(t, after) ==
    /\ ref_counter' = ref_counter - 1
    /\ IF ref_counter = 1 /\ close_requested
         THEN CloseFromEpilog(t, after)
         ELSE Go(t, after) /\ UNCHANGED <<returnTo, nested>>

-----------------------------------------------------------------------------
(* Start-up: start_threads, and the first lines of do_io and do_completion. *)

StartThreads ==
    /\ At(App, "init")
    /\ api_prolog
    /\ Go(App, "createIO")
    /\ UNCHANGED <<close_requested, state, freed, threadsToWait, closeVars, requestVars,
                   countVars>>

Create(t, from, to) ==
    /\ At(App, from)
    /\ pc' = [pc EXCEPT ![App] = to, ![t] = "prolog"]
    /\ UNCHANGED <<handleVars, threadsToWait, closeVars, requestVars, countVars>>

CreateIO         == Create(IO, "createIO", "createCompletion")
CreateCompletion == Create(Completion, "createCompletion", "barrier")

ThreadProlog(t) ==
    /\ At(t, "prolog")
    /\ api_prolog
    /\ Go(t, "notify")
    /\ UNCHANGED <<close_requested, state, freed, threadsToWait, closeVars, requestVars,
                   countVars>>

notify_thread_ready(t) ==
    /\ At(t, "notify")
    /\ threadsToWait' = threadsToWait - 1
    /\ Go(t, "barrier")
    /\ UNCHANGED <<handleVars, closeVars, requestVars, countVars>>

OneArrived    == threadsToWait <= 1         \* faulty variant: the barrier counts one thread
BarrierOpened == threadsToWait <= 0

\* The end of notify_thread_ready, and wait_for_others.
PassBarrier(t) ==
    /\ At(t, "barrier")
    /\ BarrierOpened
    /\ Go(t, IF t = App THEN "initEpilog" ELSE "loop")
    /\ UNCHANGED <<handleVars, threadsToWait, closeVars, requestVars, countVars>>

\* start_threads is done and zookeeper_init returns the handle.
InitReturns ==
    /\ At(App, "initEpilog")
    /\ api_epilog(App, "ready")
    /\ UNCHANGED <<close_requested, state, freed, threadsToWait, closeRc, flushRc, requestVars,
                   countVars>>

-----------------------------------------------------------------------------
(* The API calls of the application, and the asynchronous ones of a        *)
(* callback.  Calling anything after zookeeper_close is undefined behaviour *)
(* (zookeeper.h:322), but a call may be in progress when it comes.         *)

MayCall == calls < MaxCalls /\ calls' = calls + 1 /\ ~close_requested /\ ~is_unrecoverable

InCall == {"enqueue", "send", "wakeup", "flush"}

\* The call has passed the test of is_unrecoverable.
StartCall(t) ==
    /\ At(t, IF t = App THEN "ready" ELSE "inCallback")
    /\ MayCall
    /\ IF t = App THEN synchronous' \in BOOLEAN ELSE UNCHANGED synchronous
    /\ Go(t, "enqueue")
    /\ UNCHANGED <<handleVars, threadsToWait, closeVars, sent, waiting, completions, asleep, leaked,
                   events>>

\* The critical section that queues the request and its completion.
Enqueue(t) ==
    /\ At(t, "enqueue")
    /\ IF t = App /\ synchronous THEN waiting' = TRUE /\ UNCHANGED sent
                                 ELSE sent' = sent + 1 /\ UNCHANGED waiting
    /\ Go(t, "send")
    /\ UNCHANGED <<handleVars, threadsToWait, closeVars, synchronous, completions, asleep,
                   countVars>>

\* adaptor_send_queue leaves the sending to the IO thread, unless the handle
\* is being closed ...
SendQueue(t) ==
    /\ At(t, "send")
    /\ Go(t, IF close_requested THEN "flush" ELSE "wakeup")
    /\ UNCHANGED <<handleVars, threadsToWait, closeVars, requestVars, countVars>>

\* ... and writes to its pipe, or to the socket.
WriteOut(t) ==
    /\ At(t, "wakeup") \/ At(t, "flush")
    /\ Go(t, CASE t # App                -> "inCallback"
               [] t = App /\ synchronous -> "waiting"
               [] OTHER                  -> "ready")
    /\ UNCHANGED <<handleVars, threadsToWait, closeVars, requestVars, countVars>>

\* wait_sync_completion returns; it touches only the caller's own memory.
SyncReturn ==
    /\ pc[App] = "waiting" /\ ~waiting
    /\ synchronous' = FALSE
    /\ Go(App, "ready")
    /\ UNCHANGED <<handleVars, threadsToWait, closeVars, sent, waiting, completions, asleep,
                   countVars>>

-----------------------------------------------------------------------------
(* zookeeper_close, adaptor_finish and destroy, in whatever thread.        *)

\* The call of the user: close_requested = 1.
Close(t) ==
    /\ At(t, IF t = App THEN "ready" ELSE "inCallback")
    /\ ~close_requested
    /\ close_requested' = TRUE
    /\ Go(t, "test")
    /\ returnTo' = [returnTo EXCEPT ![t] = IF t = App THEN "closed" ELSE "inCallback"]
    /\ UNCHANGED <<ref_counter, state, freed, threadsToWait, nested, closeRc, flushRc,
                   requestVars, countVars>>

InUseByOthers == ref_counter > 1            \* faulty variant: one reference is taken for its own
InUse         == ref_counter # 0

\* inc_ref_counter(zh, 0) != 0: leave the destruction to the last user.
TestReferences(t) ==
    /\ At(t, "test")
    /\ Go(t, IF InUse THEN "finish" ELSE "destroy")
    /\ UNCHANGED <<handleVars, threadsToWait, closeVars, requestVars, countVars>>

NoProlog     == UNCHANGED ref_counter       \* faulty variant: adaptor_finish holds no reference
FinishProlog == api_prolog

\* adaptor_finish holds a reference of its own ...
Finish(t) ==
    /\ At(t, "finish")
    /\ FinishProlog
    /\ Go(t, "joinIO")
    /\ UNCHANGED <<close_requested, state, freed, threadsToWait, closeVars, requestVars,
                   countVars>>

NoBroadcast == UNCHANGED asleep             \* faulty variant: close wakes nobody
Broadcast   == asleep' = FALSE

\* ... joins the IO thread, or detaches it if it is the caller, and wakes the
\* completion thread, unless that is the caller ...
JoinIO(t) ==
    /\ At(t, "joinIO")
    /\ t # IO => pc[IO] = "exited"
    /\ IF t = Completion THEN UNCHANGED asleep ELSE Broadcast
    /\ Go(t, "joinCompletion")
    /\ UNCHANGED <<handleVars, threadsToWait, closeVars, synchronous, sent, waiting, completions,
                   countVars>>

\* ... joins or detaches the completion thread ...
JoinCompletion(t) ==
    /\ At(t, "joinCompletion")
    /\ t # Completion => pc[Completion] = "exited"
    /\ Go(t, "finishEpilog")
    /\ UNCHANGED <<handleVars, threadsToWait, closeVars, requestVars, countVars>>

\* The result of the call the user made, not of one by the last api_epilog.
Report(t, rc) ==
    closeRc' = IF returnTo[t] \in {"closed", "inCallback"} THEN rc ELSE closeRc

\* ... and gives its reference up.  zookeeper_close returns ZOK whatever the
\* zookeeper_close within api_epilog returned.
FinishEpilog(t) ==
    /\ At(t, "finishEpilog")
    /\ api_epilog(t, returnTo[t])
    /\ IF ref_counter = 1 THEN UNCHANGED closeRc ELSE Report(t, "ZOK")
    /\ UNCHANGED <<close_requested, state, freed, threadsToWait, flushRc, requestVars, countVars>>

LeaveWaiting == UNCHANGED waiting           \* faulty variant: cleanup_bufs leaves synchronous calls alone
WakeWaiting  == waiting' = FALSE

\* cleanup_bufs: all that is outstanding ends; asynchronous requests are
\* queued, behind extra, for the completion thread.
CleanupBufs(extra) ==
    /\ WakeWaiting
    /\ sent' = 0
    /\ completions' = completions \o extra \o [i \in 1..sent |-> "request"]

\* What flush_send_queue returns to a zookeeper_close that waits for it.
FlushResults == {"ZOK", "ZOPERATIONTIMEOUT", "ZCONNECTIONLOSS", "ZSYSTEMERROR"}

\* zookeeper_close with no reference left: send the close request if
\* connected, then destroy() ...
Destroy(t) ==
    /\ At(t, "destroy")
    /\ \E rc \in FlushResults :
          flushRc' = IF state = "CONNECTED" THEN rc ELSE "none"
    /\ CleanupBufs(<<>>)
    /\ asleep' = FALSE
    /\ Go(t, "free")
    /\ UNCHANGED <<handleVars, threadsToWait, returnTo, nested, closeRc, synchronous, countVars>>

\* ... adaptor_destroy() and free().
Free(t) ==
    /\ At(t, "free")
    /\ freed' = TRUE
    /\ Go(t, returnTo[t])
    /\ Report(t, IF nested[t] \/ flushRc = "none" THEN "ZOK" ELSE flushRc)
    /\ UNCHANGED <<ref_counter, close_requested, state, threadsToWait, returnTo, nested, flushRc,
                   requestVars, countVars>>

-----------------------------------------------------------------------------
(* The IO thread: the loop of do_io.  zookeeper_interest and               *)
(* zookeeper_process bracket what they do with api_prolog and api_epilog.  *)

IOLoop ==
    /\ At(IO, "loop")
    /\ IF close_requested THEN Go(IO, "lastEpilog") /\ UNCHANGED ref_counter
                          ELSE Go(IO, "call") /\ api_prolog
    /\ UNCHANGED <<close_requested, state, freed, threadsToWait, closeVars, requestVars,
                   countVars>>

AnyReply == sent >= 0                       \* faulty variant: a reply nobody asked for is delivered
ReplyDue == sent > 0

\* Nothing to do, or a reply: a synchronous caller is woken, an asynchronous
\* completion is queued.
IOWork ==
    /\ At(IO, "call")
    /\ \/ UNCHANGED requestVars
       \/ /\ state = "CONNECTED" /\ waiting
          /\ waiting' = FALSE
          /\ UNCHANGED <<sent, completions, asleep>>
       \/ /\ state = "CONNECTED" /\ ReplyDue
          /\ sent' = sent - 1
          /\ completions' = Append(completions, "request") /\ asleep' = FALSE
          /\ UNCHANGED waiting
    /\ Go(IO, "epilog")
    /\ UNCHANGED <<handleVars, threadsToWait, closeVars, synchronous, countVars>>

\* The session changes, which queues a session event; handle_error ends
\* everything that is outstanding.
IOSession ==
    /\ At(IO, "call")
    /\ events < MaxEvents /\ events' = events + 1
    /\ \/ /\ state = "CONNECTING" /\ state' = "CONNECTED"
          /\ completions' = Append(completions, "event")
          /\ UNCHANGED <<sent, waiting>>
       \/ /\ \/ state = "CONNECTED" /\ state' = "CONNECTING"
             \/ state = "CONNECTING" /\ state' = "EXPIRED_SESSION"
          /\ CleanupBufs(<<"event">>)
    /\ asleep' = FALSE
    /\ Go(IO, "epilog")
    /\ UNCHANGED <<ref_counter, close_requested, freed, threadsToWait, closeVars, synchronous,
                   leaked, calls>>

\* A reply with a wrong xid: zookeeper_process returns without api_epilog.
IOMisreply ==
    /\ At(IO, "call")
    /\ leaked < MaxMisreplies /\ leaked' = leaked + 1
    /\ state = "CONNECTED" /\ (waiting \/ sent > 0)
    /\ state' = "CONNECTING"
    /\ CleanupBufs(<<"event">>)
    /\ asleep' = FALSE
    /\ Go(IO, "loop")
    /\ UNCHANGED <<ref_counter, close_requested, freed, threadsToWait, closeVars, synchronous,
                   calls, events>>

IOEpilog ==
    /\ At(IO, "epilog")
    /\ api_epilog(IO, IF is_unrecoverable THEN "lastEpilog" ELSE "loop")
    /\ UNCHANGED <<close_requested, state, freed, threadsToWait, closeRc, flushRc, requestVars,
                   countVars>>

\* The end of do_io and of do_completion.
LastEpilog(t) ==
    /\ At(t, "lastEpilog")
    /\ api_epilog(t, "exited")
    /\ UNCHANGED <<close_requested, state, freed, threadsToWait, closeRc, flushRc, requestVars,
                   countVars>>

-----------------------------------------------------------------------------
(* The completion thread: do_completion and process_completions.           *)

CompletionStep ==
    UNCHANGED <<handleVars, threadsToWait, closeVars, synchronous, sent, waiting, countVars>>

CompletionLoop ==
    /\ At(Completion, "loop")
    /\ Go(Completion, IF close_requested THEN "lastEpilog" ELSE "check")
    /\ UNCHANGED <<completions, asleep>>
    /\ CompletionStep

\* The condition is tested and the wait begins under the lock of the list.
CheckCompletions ==
    /\ At(Completion, "check") /\ ~asleep
    /\ IF completions = <<>> /\ ~close_requested
         THEN asleep' = TRUE /\ UNCHANGED pc
         ELSE UNCHANGED asleep /\ Go(Completion, "callbacks")
    /\ UNCHANGED completions
    /\ CompletionStep

RunCallback ==
    /\ At(Completion, "callbacks")
    /\ IF completions = <<>>
         THEN Go(Completion, "loop") /\ UNCHANGED completions
         ELSE Go(Completion, "inCallback") /\ completions' = Tail(completions)
    /\ UNCHANGED asleep
    /\ CompletionStep

CallbackReturns ==
    /\ At(Completion, "inCallback")
    /\ Go(Completion, "callbacks")
    /\ UNCHANGED <<completions, asleep>>
    /\ CompletionStep

-----------------------------------------------------------------------------
start_threads == StartThreads \/ CreateIO \/ CreateCompletion

CallSteps(t) == Enqueue(t) \/ SendQueue(t) \/ WriteOut(t)

StartUp(t) == ThreadProlog(t) \/ notify_thread_ready(t) \/ PassBarrier(t)

adaptor_finish(t) == Finish(t) \/ JoinIO(t) \/ JoinCompletion(t) \/ FinishEpilog(t)

zookeeper_close(t) == TestReferences(t) \/ adaptor_finish(t) \/ Destroy(t) \/ Free(t)

do_io == IOLoop \/ IOWork \/ IOSession \/ IOMisreply \/ IOEpilog \/ LastEpilog(IO)

do_completion ==
    CompletionLoop \/ CheckCompletions \/ RunCallback \/ CallbackReturns \/ LastEpilog(Completion)

Next ==
    \/ start_threads \/ InitReturns
    \/ \E t \in Threads : StartUp(t) \/ zookeeper_close(t)
    \/ \E t \in {App, Completion} : StartCall(t) \/ CallSteps(t)
    \/ \E t \in Closers : Close(t)
    \/ SyncReturn
    \/ do_io \/ do_completion

Spec == Init /\ [][Next]_vars

\* Every thread is scheduled, poll() in do_io has a timeout and callbacks
\* return.  Nobody has to call the API or zookeeper_close, but a call goes on.
Fairness ==
    /\ WF_vars(start_threads \/ InitReturns \/ CallSteps(App) \/ SyncReturn)
    /\ \A t \in Threads : WF_vars(StartUp(t) \/ zookeeper_close(t))
    /\ WF_vars(do_io)
    /\ WF_vars(do_completion \/ CallSteps(Completion))

FairSpec == Spec /\ Fairness

-----------------------------------------------------------------------------
(* What must hold.                                                         *)

InClose == {"test", "finish", "joinIO", "joinCompletion", "finishEpilog", "destroy", "free"}
InApp   == {"init", "createIO", "createCompletion", "barrier", "initEpilog", "ready", "waiting",
            "closed"}
InStart == {"unborn", "prolog", "notify", "barrier"}
InIO    == {"loop", "call", "epilog", "lastEpilog", "exited"}
InCompletion == {"loop", "check", "callbacks", "inCallback", "lastEpilog", "exited"}

PcTypeOK ==
    /\ DOMAIN pc = Threads
    /\ pc[App] \in InApp \cup InCall \cup InClose
    /\ pc[IO] \in InStart \cup InIO \cup InClose
    /\ pc[Completion] \in InStart \cup InCompletion \cup InCall \cup InClose

ReturnTypeOK ==
    /\ DOMAIN returnTo = Threads
    /\ returnTo[App] \in {"none", "ready", "closed"}
    /\ returnTo[IO] \in {"none", "loop", "lastEpilog", "exited"}
    /\ returnTo[Completion] \in {"none", "inCallback", "exited"}
    /\ nested \in [Threads -> BOOLEAN]

TypeOK ==
    /\ ref_counter \in Nat /\ close_requested \in BOOLEAN /\ freed \in BOOLEAN
    /\ state \in {"CONNECTING", "CONNECTED", "EXPIRED_SESSION"}
    /\ threadsToWait \in 0..2
    /\ PcTypeOK /\ ReturnTypeOK
    /\ asleep \in BOOLEAN /\ synchronous \in BOOLEAN /\ sent \in Nat /\ waiting \in BOOLEAN
    /\ completions \in Seq({"event", "request"})
    /\ closeRc \in {"none"} \cup FlushResults
    /\ flushRc \in {"none"} \cup FlushResults
    /\ leaked \in Nat /\ calls \in Nat /\ events \in Nat

One(b) == IF b THEN 1 ELSE 0

\* The reference a thread holds throughout its own code, the one of
\* adaptor_finish, and the one of the API function the IO thread is in.
HoldsOwn(t) ==
    \/ t = App /\ pc[t] \in {"createIO", "createCompletion", "barrier", "initEpilog"}
    \/ /\ t # App
       /\ \/ pc[t] \in {"notify", "barrier", "loop", "call", "epilog", "check", "callbacks",
                        "inCallback", "lastEpilog"} \cup InCall
          \/ pc[t] \in InClose /\ returnTo[t] # "exited"
HoldsFinish(t) == pc[t] \in {"joinIO", "joinCompletion", "finishEpilog"}
HoldsCall      == pc[IO] \in {"call", "epilog"}

References(t) == One(HoldsOwn(t)) + One(HoldsFinish(t))

\* ref_counter is the number of references held, and those that the missing
\* api_epilog of zookeeper_process left behind.
RefCounterAgrees ==
    ref_counter = References(App) + References(IO) + References(Completion)
                  + One(HoldsCall) + leaked

\* The handle is destroyed only after both threads have left their loops and
\* given their references up: no mutex or list they use goes away under them.
DestroyedAfterThreads ==
    (freed \/ \E t \in Threads : pc[t] \in {"destroy", "free"}) =>
        \A t \in {IO, Completion} : pc[t] = "exited" \/ pc[t] \in InClose

\* When zookeeper_init returns, both threads hold the handle: a
\* zookeeper_close that comes at once does not find the counter at zero and
\* destroy the handle before they have started.
InitReturnsHeldHandle ==
    pc[App] \in {"ready", "waiting"} \cup InCall /\ ~close_requested =>
        HoldsOwn(Completion) /\ (HoldsOwn(IO) \/ is_unrecoverable)

\* Places from which a thread does not go on to the handle.
AtRest == {"ready", "waiting", "exited", "closed"}

\* A handle that the application did not close itself, but a callback, is
\* freed by its last user, after the threads of the client and every
\* zookeeper_close and adaptor_finish are done with it; only a call the
\* application is in may still go on to it.  (NoUseAfterFree is about that
\* call, and about the zookeeper_close of the application.)
ClosedByApp == returnTo[App] = "closed"

FreedByLastUser ==
    freed /\ ~ClosedByApp =>
        \A t \in Threads : pc[t] \in AtRest \/ (t = App /\ pc[t] \in InCall)

\* No thread uses the handle after it is freed: the reference counter is to
\* "defer the destruction of zhandle till right before top-level API call
\* returns to the caller" (zk_adaptor.h:198), and adaptor_finish holds a
\* reference to "make sure zh doesn't get destroyed until after we're done
\* here" (mt_adaptor.c:200).  The code fails this: an asynchronous call holds
\* no reference, and zookeeper_close sets close_requested before it has one.
NoUseAfterFree == freed => \A t \in Threads : pc[t] \in AtRest

\* zookeeper_close comes back, in whatever thread it was called: each join is
\* answered, because each thread notices close_requested and leaves.  (A
\* caller that lost the race for the handle is excused.)
CloseReturns == close_requested ~> closeRc # "none" \/ freed

\* "Regardless of the error code returned, the zhandle will be destroyed and
\* all resources freed" (zookeeper.h:326), whoever closes it and whichever
\* thread is the last, unless zookeeper_process skipped an api_epilog.
ClosedHandleIsFreed == close_requested ~> freed \/ leaked > 0

NotDestroyed == ~freed /\ \A t \in Threads : pc[t] # "free"

\* A synchronous call that waits when a callback closes the handle returns:
\* destroy fails its request.  (One that queues its request after that, in
\* the moment before the handle is freed, is left behind, and so is one on a
\* handle that is never destroyed.)
SyncCallReturnsOnClose ==
    pc[App] = "waiting" /\ close_requested /\ NotDestroyed ~> pc[App] # "waiting" \/ leaked > 0
=============================================================================
