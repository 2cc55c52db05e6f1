------------------------ MODULE HandleLifetimeProofs ------------------------
(***************************************************************************)
(* Theorems about HandleLifetime, for every bound: the reference counter   *)
(* is exact, zookeeper_init returns a handle both threads hold, the handle *)
(* is destroyed only after both have let it go, and a handle closed from a *)
(* callback is freed by its last user.                                     *)
(*                                                                         *)
(* Each lemma XPreserved shows that every step preserves one part of the   *)
(* inductive invariant HandleInv; its steps are the actions, in the order  *)
(* of HandleLifetime.                                                      *)
(***************************************************************************)
EXTENDS HandleLifetime, SequenceTheorems, TLAPS

\* TypeOK, but for the counters that other parts of the invariant bound.
DataTypeOK ==
    /\ close_requested \in BOOLEAN /\ freed \in BOOLEAN
    /\ state \in {"CONNECTING", "CONNECTED", "EXPIRED_SESSION"}
    /\ asleep \in BOOLEAN /\ synchronous \in BOOLEAN /\ sent \in Nat /\ waiting \in BOOLEAN
    /\ completions \in Seq({"event", "request"})
    /\ closeRc \in {"none"} \cup FlushResults
    /\ flushRc \in {"none"} \cup FlushResults
    /\ leaked \in Nat /\ calls \in Nat /\ events \in Nat

PlacesOK == PcTypeOK /\ ReturnTypeOK

\* A thread is unborn until it is created.
UnbornInv ==
    /\ pc[App] \in {"init", "createIO"} => pc[IO] = "unborn"
    /\ pc[App] \in {"init", "createIO", "createCompletion"} => pc[Completion] = "unborn"

\* t has been counted by the barrier; t is past it.
Arrived(t) == pc[t] \notin {"unborn", "prolog", "notify"}
Past(t)    == pc[t] \notin InStart \cup {"init", "createIO", "createCompletion"}

\* The barrier counts the threads that are not there yet, and opens at zero.
BarrierInv ==
    /\ threadsToWait = One(~Arrived(IO)) + One(~Arrived(Completion))
    /\ \A t \in Threads : Past(t) => threadsToWait = 0
    /\ close_requested => threadsToWait = 0

\* zookeeper_close runs only after it was called, and the threads leave
\* their loops only then, or when the session has expired.
CloseInv ==
    /\ \A t \in Threads : pc[t] \in InClose => close_requested /\ returnTo[t] # "none"
    /\ ~close_requested =>
          /\ pc[App] # "closed"
          /\ pc[Completion] \notin {"lastEpilog", "exited"}
          /\ pc[IO] \in {"lastEpilog", "exited"} => is_unrecoverable
    /\ pc[App] \in {"init", "createIO", "createCompletion", "barrier", "initEpilog"} =>
          returnTo[App] = "none"

\* Thread t has given its reference up for good.
LetGo(t) == pc[t] = "exited" \/ (pc[t] \in InClose /\ returnTo[t] = "exited")

\* Once a thread found the counter at zero, both threads have let go.
DestroyInv ==
    (freed \/ \E t \in Threads : pc[t] \in {"destroy", "free"}) => LetGo(IO) /\ LetGo(Completion)

HandleInv ==
    DataTypeOK /\ PlacesOK /\ UnbornInv /\ RefCounterAgrees /\ BarrierInv /\ CloseInv /\ DestroyInv

\* Thread t runs zookeeper_close without a reference of its own.
Orphan(t) == pc[t] \in InClose /\ ~HoldsOwn(t)

\* A thread that is done with the handle, or whose call the reference counter
\* does not know of.
Quiet(t) == pc[t] \in AtRest \/ (t = App /\ pc[t] \in InCall)

\* A handle that the application did not close has one orphan at most, the
\* thread that gave up the last reference; it alone destroys the handle.
LastUserInv ==
    /\ \A t \in Threads : Orphan(t) =>
          /\ ref_counter = 0 /\ pc[t] \in {"test", "destroy", "free"}
          /\ \A u \in Threads : u # t => Quiet(u)
    /\ \A t \in Threads : pc[t] \in {"destroy", "free"} => Orphan(t)
    /\ freed => \A t \in Threads : Quiet(t)

OrphanInv == ~ClosedByApp => LastUserInv

-----------------------------------------------------------------------------
\* Every thread stays within its own code.
LEMMA PlacesPreserved ==
    ASSUME PlacesOK, CloseInv, [Next]_vars
    PROVE  PlacesOK'
<1> USE ThreadsAssumption, ClosersAssumption DEF Threads, At, Go, PlacesOK, PcTypeOK,
        ReturnTypeOK, CloseInv, InClose, InCall, InApp, InStart, InIO, InCompletion, handleVars,
        closeVars, requestVars, countVars
<1>1. CASE StartThreads
  BY <1>1 DEF StartThreads, api_prolog
<1>2. CASE CreateIO
  BY <1>2 DEF CreateIO, Create
<1>3. CASE CreateCompletion
  BY <1>3 DEF CreateCompletion, Create
<1>4. ASSUME NEW t \in Threads, ThreadProlog(t) PROVE PlacesOK'
  BY <1>4 DEF ThreadProlog, api_prolog
<1>5. ASSUME NEW t \in Threads, notify_thread_ready(t) PROVE PlacesOK'
  BY <1>5 DEF notify_thread_ready
<1>6. ASSUME NEW t \in Threads, PassBarrier(t) PROVE PlacesOK'
  BY <1>6 DEF PassBarrier, BarrierOpened
<1>7. CASE InitReturns
  <2>1. CASE ref_counter = 1 /\ close_requested
    BY <1>7, <2>1 DEF InitReturns, api_epilog, CloseFromEpilog
  <2>2. CASE ~(ref_counter = 1 /\ close_requested)
    BY <1>7, <2>2 DEF InitReturns, api_epilog
  <2> QED
    BY <2>1, <2>2
<1>8. ASSUME NEW t \in {App, Completion}, StartCall(t) PROVE PlacesOK'
  BY <1>8 DEF StartCall, MayCall
<1>9. ASSUME NEW t \in {App, Completion}, Enqueue(t) PROVE PlacesOK'
  BY <1>9 DEF Enqueue
<1>9a. ASSUME NEW t \in {App, Completion}, SendQueue(t) PROVE PlacesOK'
  BY <1>9a DEF SendQueue
<1>9b. ASSUME NEW t \in {App, Completion}, WriteOut(t) PROVE PlacesOK'
  BY <1>9b DEF WriteOut
<1>10. CASE SyncReturn
  BY <1>10 DEF SyncReturn
<1>11. ASSUME NEW t \in Closers, Close(t) PROVE PlacesOK'
  BY <1>11 DEF Close
<1>12. ASSUME NEW t \in Threads, TestReferences(t) PROVE PlacesOK'
  BY <1>12 DEF TestReferences, InUse
<1>13. ASSUME NEW t \in Threads, Finish(t) PROVE PlacesOK'
  BY <1>13 DEF Finish, FinishProlog, api_prolog
<1>14. ASSUME NEW t \in Threads, JoinIO(t) PROVE PlacesOK'
  BY <1>14 DEF JoinIO, Broadcast
<1>15. ASSUME NEW t \in Threads, JoinCompletion(t) PROVE PlacesOK'
  BY <1>15 DEF JoinCompletion
<1>16. ASSUME NEW t \in Threads, FinishEpilog(t) PROVE PlacesOK'
  <2>1. CASE t = App
    BY <1>16, <2>1 DEF FinishEpilog, api_epilog, CloseFromEpilog, Report
  <2>2. CASE t = IO
    BY <1>16, <2>2, ZenonT(40) DEF FinishEpilog, api_epilog, CloseFromEpilog, Report
  <2>3. CASE t = Completion
    BY <1>16, <2>3 DEF FinishEpilog, api_epilog, CloseFromEpilog, Report
  <2> QED
    BY <2>1, <2>2, <2>3
<1>17. ASSUME NEW t \in Threads, Destroy(t) PROVE PlacesOK'
  BY <1>17 DEF Destroy, CleanupBufs, WakeWaiting
<1>18. ASSUME NEW t \in Threads, Free(t) PROVE PlacesOK'
  <2>1. CASE t = App
    BY <1>18, <2>1 DEF Free, Report
  <2>2. CASE t = IO
    BY <1>18, <2>2 DEF Free, Report
  <2>3. CASE t = Completion
    BY <1>18, <2>3 DEF Free, Report
  <2> QED
    BY <2>1, <2>2, <2>3
<1>19. CASE IOLoop
  BY <1>19 DEF IOLoop, api_prolog
<1>20. CASE IOWork
  BY <1>20 DEF IOWork, ReplyDue
<1>21. CASE IOSession
  BY <1>21 DEF IOSession, CleanupBufs, WakeWaiting
<1>22. CASE IOMisreply
  BY <1>22 DEF IOMisreply, CleanupBufs, WakeWaiting
<1>23. CASE IOEpilog
  BY <1>23, ZenonT(40) DEF IOEpilog, api_epilog, CloseFromEpilog
<1>24. ASSUME NEW t \in Threads, LastEpilog(t) PROVE PlacesOK'
  BY <1>24, ZenonT(40) DEF LastEpilog, api_epilog, CloseFromEpilog
<1>25. CASE CompletionLoop
  BY <1>25 DEF CompletionLoop, CompletionStep
<1>26. CASE CheckCompletions
  BY <1>26 DEF CheckCompletions, CompletionStep
<1>27. CASE RunCallback
  BY <1>27 DEF RunCallback, CompletionStep
<1>28. CASE CallbackReturns
  BY <1>28 DEF CallbackReturns, CompletionStep
<1>29. CASE UNCHANGED vars
  BY <1>29 DEF vars
<1> QED
  BY <1>1, <1>2, <1>3, <1>4, <1>5, <1>6, <1>7, <1>8, <1>9, <1>9a, <1>9b, <1>10,
     <1>11, <1>12, <1>13, <1>14, <1>15, <1>16, <1>17, <1>18, <1>19, <1>20, <1>21, <1>22,
     <1>23, <1>24, <1>25, <1>26, <1>27, <1>28, <1>29
     DEF Next, start_threads, CallSteps, StartUp, zookeeper_close, adaptor_finish, do_io,
         do_completion

\* Only start_threads brings a thread to life.
LEMMA UnbornPreserved ==
    ASSUME PlacesOK, UnbornInv, CloseInv, [Next]_vars
    PROVE  UnbornInv'
<1> USE ThreadsAssumption, ClosersAssumption DEF Threads, At, Go, PlacesOK, PcTypeOK,
        ReturnTypeOK, UnbornInv, CloseInv, InClose, InCall, InApp, InStart, InIO, InCompletion,
        handleVars, closeVars, requestVars, countVars
<1>1. CASE StartThreads
  BY <1>1 DEF StartThreads, api_prolog
<1>2. CASE CreateIO
  BY <1>2 DEF CreateIO, Create
<1>3. CASE CreateCompletion
  BY <1>3 DEF CreateCompletion, Create
<1>4. ASSUME NEW t \in Threads, ThreadProlog(t) PROVE UnbornInv'
  BY <1>4 DEF ThreadProlog, api_prolog
<1>5. ASSUME NEW t \in Threads, notify_thread_ready(t) PROVE UnbornInv'
  BY <1>5 DEF notify_thread_ready
<1>6. ASSUME NEW t \in Threads, PassBarrier(t) PROVE UnbornInv'
  BY <1>6 DEF PassBarrier, BarrierOpened
<1>7. CASE InitReturns
  BY <1>7 DEF InitReturns, api_epilog, CloseFromEpilog
<1>8. ASSUME NEW t \in {App, Completion}, StartCall(t) PROVE UnbornInv'
  BY <1>8 DEF StartCall, MayCall
<1>9. ASSUME NEW t \in {App, Completion}, Enqueue(t) PROVE UnbornInv'
  BY <1>9 DEF Enqueue
<1>9a. ASSUME NEW t \in {App, Completion}, SendQueue(t) PROVE UnbornInv'
  BY <1>9a DEF SendQueue
<1>9b. ASSUME NEW t \in {App, Completion}, WriteOut(t) PROVE UnbornInv'
  BY <1>9b DEF WriteOut
<1>10. CASE SyncReturn
  BY <1>10 DEF SyncReturn
<1>11. ASSUME NEW t \in Closers, Close(t) PROVE UnbornInv'
  BY <1>11 DEF Close
<1>12. ASSUME NEW t \in Threads, TestReferences(t) PROVE UnbornInv'
  BY <1>12 DEF TestReferences, InUse
<1>13. ASSUME NEW t \in Threads, Finish(t) PROVE UnbornInv'
  BY <1>13 DEF Finish, FinishProlog, api_prolog
<1>14. ASSUME NEW t \in Threads, JoinIO(t) PROVE UnbornInv'
  BY <1>14 DEF JoinIO, Broadcast
<1>15. ASSUME NEW t \in Threads, JoinCompletion(t) PROVE UnbornInv'
  BY <1>15 DEF JoinCompletion
<1>16. ASSUME NEW t \in Threads, FinishEpilog(t) PROVE UnbornInv'
  <2>1. CASE t = App
    BY <1>16, <2>1 DEF FinishEpilog, api_epilog, CloseFromEpilog, Report
  <2>2. CASE t = IO
    BY <1>16, <2>2 DEF FinishEpilog, api_epilog, CloseFromEpilog, Report
  <2>3. CASE t = Completion
    BY <1>16, <2>3 DEF FinishEpilog, api_epilog, CloseFromEpilog, Report
  <2> QED
    BY <2>1, <2>2, <2>3
<1>17. ASSUME NEW t \in Threads, Destroy(t) PROVE UnbornInv'
  BY <1>17 DEF Destroy, CleanupBufs, WakeWaiting
<1>18. ASSUME NEW t \in Threads, Free(t) PROVE UnbornInv'
  <2>1. CASE t = App
    BY <1>18, <2>1 DEF Free, Report
  <2>2. CASE t = IO
    BY <1>18, <2>2 DEF Free, Report
  <2>3. CASE t = Completion
    BY <1>18, <2>3 DEF Free, Report
  <2> QED
    BY <2>1, <2>2, <2>3
<1>19. CASE IOLoop
  BY <1>19 DEF IOLoop, api_prolog
<1>20. CASE IOWork
  BY <1>20 DEF IOWork, ReplyDue
<1>21. CASE IOSession
  BY <1>21 DEF IOSession, CleanupBufs, WakeWaiting
<1>22. CASE IOMisreply
  BY <1>22 DEF IOMisreply, CleanupBufs, WakeWaiting
<1>23. CASE IOEpilog
  BY <1>23 DEF IOEpilog, api_epilog, CloseFromEpilog
<1>24. ASSUME NEW t \in Threads, LastEpilog(t) PROVE UnbornInv'
  BY <1>24 DEF LastEpilog, api_epilog, CloseFromEpilog
<1>25. CASE CompletionLoop
  BY <1>25 DEF CompletionLoop, CompletionStep
<1>26. CASE CheckCompletions
  BY <1>26 DEF CheckCompletions, CompletionStep
<1>27. CASE RunCallback
  BY <1>27 DEF RunCallback, CompletionStep
<1>28. CASE CallbackReturns
  BY <1>28 DEF CallbackReturns, CompletionStep
<1>29. CASE UNCHANGED vars
  BY <1>29 DEF vars
<1> QED
  BY <1>1, <1>2, <1>3, <1>4, <1>5, <1>6, <1>7, <1>8, <1>9, <1>9a, <1>9b, <1>10,
     <1>11, <1>12, <1>13, <1>14, <1>15, <1>16, <1>17, <1>18, <1>19, <1>20, <1>21, <1>22,
     <1>23, <1>24, <1>25, <1>26, <1>27, <1>28, <1>29
     DEF Next, start_threads, CallSteps, StartUp, zookeeper_close, adaptor_finish, do_io,
         do_completion

\* A reference is counted when it is taken and when it is given up.
LEMMA ReferencesPreserved ==
    ASSUME PlacesOK, UnbornInv, CloseInv, leaked \in Nat, RefCounterAgrees, [Next]_vars
    PROVE  RefCounterAgrees'
<1> USE ThreadsAssumption, ClosersAssumption DEF Threads, At, Go, PlacesOK, PcTypeOK,
        ReturnTypeOK, UnbornInv, CloseInv, RefCounterAgrees, References, HoldsOwn,
        HoldsFinish, HoldsCall, One, InClose, InCall, InApp, InStart, InIO, InCompletion,
        handleVars, closeVars, requestVars, countVars
<1>1. CASE StartThreads
  BY <1>1 DEF StartThreads, api_prolog
<1>2. CASE CreateIO
  BY <1>2 DEF CreateIO, Create
<1>3. CASE CreateCompletion
  BY <1>3 DEF CreateCompletion, Create
<1>4. ASSUME NEW t \in Threads, ThreadProlog(t) PROVE RefCounterAgrees'
  BY <1>4 DEF ThreadProlog, api_prolog
<1>5. ASSUME NEW t \in Threads, notify_thread_ready(t) PROVE RefCounterAgrees'
  BY <1>5 DEF notify_thread_ready
<1>6. ASSUME NEW t \in Threads, PassBarrier(t) PROVE RefCounterAgrees'
  BY <1>6 DEF PassBarrier, BarrierOpened
<1>7. CASE InitReturns
  BY <1>7 DEF InitReturns, api_epilog, CloseFromEpilog
<1>8. ASSUME NEW t \in {App, Completion}, StartCall(t) PROVE RefCounterAgrees'
  BY <1>8 DEF StartCall, MayCall
<1>9. ASSUME NEW t \in {App, Completion}, Enqueue(t) PROVE RefCounterAgrees'
  BY <1>9 DEF Enqueue
<1>9a. ASSUME NEW t \in {App, Completion}, SendQueue(t) PROVE RefCounterAgrees'
  BY <1>9a DEF SendQueue
<1>9b. ASSUME NEW t \in {App, Completion}, WriteOut(t) PROVE RefCounterAgrees'
  BY <1>9b DEF WriteOut
<1>10. CASE SyncReturn
  BY <1>10 DEF SyncReturn
<1>11. ASSUME NEW t \in Closers, Close(t) PROVE RefCounterAgrees'
  BY <1>11 DEF Close
<1>12. ASSUME NEW t \in Threads, TestReferences(t) PROVE RefCounterAgrees'
  BY <1>12 DEF TestReferences, InUse
<1>13. ASSUME NEW t \in Threads, Finish(t) PROVE RefCounterAgrees'
  BY <1>13 DEF Finish, FinishProlog, api_prolog
<1>14. ASSUME NEW t \in Threads, JoinIO(t) PROVE RefCounterAgrees'
  BY <1>14 DEF JoinIO, Broadcast
<1>15. ASSUME NEW t \in Threads, JoinCompletion(t) PROVE RefCounterAgrees'
  BY <1>15 DEF JoinCompletion
<1>16. ASSUME NEW t \in Threads, FinishEpilog(t) PROVE RefCounterAgrees'
  <2>1. CASE t = App
    BY <1>16, <2>1 DEF FinishEpilog, api_epilog, CloseFromEpilog, Report
  <2>2. CASE t = IO
    BY <1>16, <2>2 DEF FinishEpilog, api_epilog, CloseFromEpilog, Report
  <2>3. CASE t = Completion
    <3>1. ref_counter' = ref_counter - 1 /\ pc[t] = "finishEpilog"
      BY <1>16 DEF FinishEpilog, api_epilog
    <3>2. pc' = [pc EXCEPT ![t] = pc'[t]] /\ pc'[t] \in {"test", returnTo[t]}
      BY <1>16, <2>3 DEF FinishEpilog, api_epilog, CloseFromEpilog
    <3>3. leaked' = leaked /\ \A u \in Threads : returnTo'[u] = returnTo[u]
      BY <1>16, <2>3 DEF FinishEpilog, api_epilog, CloseFromEpilog
    <3>4. returnTo[t] \in {"inCallback", "exited"}
      BY <2>3, <3>1
    <3> QED
      BY <2>3, <3>1, <3>2, <3>3, <3>4
  <2> QED
    BY <2>1, <2>2, <2>3
<1>17. ASSUME NEW t \in Threads, Destroy(t) PROVE RefCounterAgrees'
  BY <1>17 DEF Destroy, CleanupBufs, WakeWaiting
<1>18. ASSUME NEW t \in Threads, Free(t) PROVE RefCounterAgrees'
  <2>1. CASE t = App
    BY <1>18, <2>1 DEF Free, Report
  <2>2. CASE t = IO
    BY <1>18, <2>2 DEF Free, Report
  <2>3. CASE t = Completion
    BY <1>18, <2>3 DEF Free, Report
  <2> QED
    BY <2>1, <2>2, <2>3
<1>19. CASE IOLoop
  BY <1>19 DEF IOLoop, api_prolog
<1>20. CASE IOWork
  BY <1>20 DEF IOWork, ReplyDue
<1>21. CASE IOSession
  BY <1>21 DEF IOSession, CleanupBufs, WakeWaiting
<1>22. CASE IOMisreply
  BY <1>22 DEF IOMisreply, CleanupBufs, WakeWaiting
<1>23. CASE IOEpilog
  BY <1>23 DEF IOEpilog, api_epilog, CloseFromEpilog
<1>24. ASSUME NEW t \in Threads, LastEpilog(t) PROVE RefCounterAgrees'
  BY <1>24 DEF LastEpilog, api_epilog, CloseFromEpilog
<1>25. CASE CompletionLoop
  BY <1>25 DEF CompletionLoop, CompletionStep
<1>26. CASE CheckCompletions
  BY <1>26 DEF CheckCompletions, CompletionStep
<1>27. CASE RunCallback
  BY <1>27 DEF RunCallback, CompletionStep
<1>28. CASE CallbackReturns
  BY <1>28 DEF CallbackReturns, CompletionStep
<1>29. CASE UNCHANGED vars
  BY <1>29 DEF vars
<1> QED
  BY <1>1, <1>2, <1>3, <1>4, <1>5, <1>6, <1>7, <1>8, <1>9, <1>9a, <1>9b, <1>10,
     <1>11, <1>12, <1>13, <1>14, <1>15, <1>16, <1>17, <1>18, <1>19, <1>20, <1>21, <1>22,
     <1>23, <1>24, <1>25, <1>26, <1>27, <1>28, <1>29
     DEF Next, start_threads, CallSteps, StartUp, zookeeper_close, adaptor_finish, do_io,
         do_completion

\* A thread passes the barrier only after both have arrived.
LEMMA BarrierPreserved ==
    ASSUME PlacesOK, UnbornInv, CloseInv, BarrierInv, [Next]_vars
    PROVE  BarrierInv'
<1> USE ThreadsAssumption, ClosersAssumption DEF Threads, At, Go, PlacesOK, PcTypeOK,
        ReturnTypeOK, UnbornInv, CloseInv, BarrierInv, Arrived, Past, One, InClose, InCall, InApp,
        InStart, InIO, InCompletion, handleVars, closeVars, requestVars, countVars
<1>1. CASE StartThreads
  BY <1>1 DEF StartThreads, api_prolog
<1>2. CASE CreateIO
  BY <1>2 DEF CreateIO, Create
<1>3. CASE CreateCompletion
  BY <1>3 DEF CreateCompletion, Create
<1>4. ASSUME NEW t \in Threads, ThreadProlog(t) PROVE BarrierInv'
  BY <1>4 DEF ThreadProlog, api_prolog
<1>5. ASSUME NEW t \in Threads, notify_thread_ready(t) PROVE BarrierInv'
  BY <1>5 DEF notify_thread_ready
<1>6. ASSUME NEW t \in Threads, PassBarrier(t) PROVE BarrierInv'
  BY <1>6 DEF PassBarrier, BarrierOpened
<1>7. CASE InitReturns
  BY <1>7 DEF InitReturns, api_epilog, CloseFromEpilog
<1>8. ASSUME NEW t \in {App, Completion}, StartCall(t) PROVE BarrierInv'
  BY <1>8 DEF StartCall, MayCall
<1>9. ASSUME NEW t \in {App, Completion}, Enqueue(t) PROVE BarrierInv'
  BY <1>9 DEF Enqueue
<1>9a. ASSUME NEW t \in {App, Completion}, SendQueue(t) PROVE BarrierInv'
  BY <1>9a DEF SendQueue
<1>9b. ASSUME NEW t \in {App, Completion}, WriteOut(t) PROVE BarrierInv'
  BY <1>9b DEF WriteOut
<1>10. CASE SyncReturn
  BY <1>10 DEF SyncReturn
<1>11. ASSUME NEW t \in Closers, Close(t) PROVE BarrierInv'
  BY <1>11 DEF Close
<1>12. ASSUME NEW t \in Threads, TestReferences(t) PROVE BarrierInv'
  BY <1>12 DEF TestReferences, InUse
<1>13. ASSUME NEW t \in Threads, Finish(t) PROVE BarrierInv'
  BY <1>13 DEF Finish, FinishProlog, api_prolog
<1>14. ASSUME NEW t \in Threads, JoinIO(t) PROVE BarrierInv'
  BY <1>14 DEF JoinIO, Broadcast
<1>15. ASSUME NEW t \in Threads, JoinCompletion(t) PROVE BarrierInv'
  BY <1>15 DEF JoinCompletion
<1>16. ASSUME NEW t \in Threads, FinishEpilog(t) PROVE BarrierInv'
  <2>1. CASE t = App
    BY <1>16, <2>1 DEF FinishEpilog, api_epilog, CloseFromEpilog, Report
  <2>2. CASE t = IO
    BY <1>16, <2>2 DEF FinishEpilog, api_epilog, CloseFromEpilog, Report
  <2>3. CASE t = Completion
    BY <1>16, <2>3 DEF FinishEpilog, api_epilog, CloseFromEpilog, Report
  <2> QED
    BY <2>1, <2>2, <2>3
<1>17. ASSUME NEW t \in Threads, Destroy(t) PROVE BarrierInv'
  BY <1>17 DEF Destroy, CleanupBufs, WakeWaiting
<1>18. ASSUME NEW t \in Threads, Free(t) PROVE BarrierInv'
  <2>1. CASE t = App
    BY <1>18, <2>1 DEF Free, Report
  <2>2. CASE t = IO
    BY <1>18, <2>2 DEF Free, Report
  <2>3. CASE t = Completion
    BY <1>18, <2>3 DEF Free, Report
  <2> QED
    BY <2>1, <2>2, <2>3
<1>19. CASE IOLoop
  BY <1>19 DEF IOLoop, api_prolog
<1>20. CASE IOWork
  BY <1>20 DEF IOWork, ReplyDue
<1>21. CASE IOSession
  BY <1>21 DEF IOSession, CleanupBufs, WakeWaiting
<1>22. CASE IOMisreply
  BY <1>22 DEF IOMisreply, CleanupBufs, WakeWaiting
<1>23. CASE IOEpilog
  BY <1>23 DEF IOEpilog, api_epilog, CloseFromEpilog
<1>24. ASSUME NEW t \in Threads, LastEpilog(t) PROVE BarrierInv'
  BY <1>24 DEF LastEpilog, api_epilog, CloseFromEpilog
<1>25. CASE CompletionLoop
  BY <1>25 DEF CompletionLoop, CompletionStep
<1>26. CASE CheckCompletions
  BY <1>26 DEF CheckCompletions, CompletionStep
<1>27. CASE RunCallback
  BY <1>27 DEF RunCallback, CompletionStep
<1>28. CASE CallbackReturns
  BY <1>28 DEF CallbackReturns, CompletionStep
<1>29. CASE UNCHANGED vars
  BY <1>29 DEF vars
<1> QED
  BY <1>1, <1>2, <1>3, <1>4, <1>5, <1>6, <1>7, <1>8, <1>9, <1>9a, <1>9b, <1>10,
     <1>11, <1>12, <1>13, <1>14, <1>15, <1>16, <1>17, <1>18, <1>19, <1>20, <1>21, <1>22,
     <1>23, <1>24, <1>25, <1>26, <1>27, <1>28, <1>29
     DEF Next, start_threads, CallSteps, StartUp, zookeeper_close, adaptor_finish, do_io,
         do_completion

\* A thread is in zookeeper_close only after the user's call.
LEMMA ClosePreserved ==
    ASSUME PlacesOK, CloseInv, [Next]_vars
    PROVE  CloseInv'
<1> USE ThreadsAssumption, ClosersAssumption DEF Threads, At, Go, PlacesOK, PcTypeOK,
        ReturnTypeOK, CloseInv, is_unrecoverable, InClose, InCall, InApp, InStart, InIO,
        InCompletion, handleVars, closeVars, requestVars, countVars
<1>1. CASE StartThreads
  BY <1>1 DEF StartThreads, api_prolog
<1>2. CASE CreateIO
  BY <1>2 DEF CreateIO, Create
<1>3. CASE CreateCompletion
  BY <1>3 DEF CreateCompletion, Create
<1>4. ASSUME NEW t \in Threads, ThreadProlog(t) PROVE CloseInv'
  BY <1>4 DEF ThreadProlog, api_prolog
<1>5. ASSUME NEW t \in Threads, notify_thread_ready(t) PROVE CloseInv'
  BY <1>5 DEF notify_thread_ready
<1>6. ASSUME NEW t \in Threads, PassBarrier(t) PROVE CloseInv'
  BY <1>6 DEF PassBarrier, BarrierOpened
<1>7. CASE InitReturns
  BY <1>7 DEF InitReturns, api_epilog, CloseFromEpilog
<1>8. ASSUME NEW t \in {App, Completion}, StartCall(t) PROVE CloseInv'
  BY <1>8 DEF StartCall, MayCall
<1>9. ASSUME NEW t \in {App, Completion}, Enqueue(t) PROVE CloseInv'
  BY <1>9 DEF Enqueue
<1>9a. ASSUME NEW t \in {App, Completion}, SendQueue(t) PROVE CloseInv'
  BY <1>9a DEF SendQueue
<1>9b. ASSUME NEW t \in {App, Completion}, WriteOut(t) PROVE CloseInv'
  BY <1>9b DEF WriteOut
<1>10. CASE SyncReturn
  BY <1>10 DEF SyncReturn
<1>11. ASSUME NEW t \in Closers, Close(t) PROVE CloseInv'
  BY <1>11 DEF Close
<1>12. ASSUME NEW t \in Threads, TestReferences(t) PROVE CloseInv'
  BY <1>12 DEF TestReferences, InUse
<1>13. ASSUME NEW t \in Threads, Finish(t) PROVE CloseInv'
  BY <1>13 DEF Finish, FinishProlog, api_prolog
<1>14. ASSUME NEW t \in Threads, JoinIO(t) PROVE CloseInv'
  BY <1>14 DEF JoinIO, Broadcast
<1>15. ASSUME NEW t \in Threads, JoinCompletion(t) PROVE CloseInv'
  BY <1>15 DEF JoinCompletion
<1>16. ASSUME NEW t \in Threads, FinishEpilog(t) PROVE CloseInv'
  <2>1. CASE t = App
    BY <1>16, <2>1 DEF FinishEpilog, api_epilog, CloseFromEpilog, Report
  <2>2. CASE t = IO
    BY <1>16, <2>2 DEF FinishEpilog, api_epilog, CloseFromEpilog, Report
  <2>3. CASE t = Completion
    BY <1>16, <2>3 DEF FinishEpilog, api_epilog, CloseFromEpilog, Report
  <2> QED
    BY <2>1, <2>2, <2>3
<1>17. ASSUME NEW t \in Threads, Destroy(t) PROVE CloseInv'
  BY <1>17 DEF Destroy, CleanupBufs, WakeWaiting
<1>18. ASSUME NEW t \in Threads, Free(t) PROVE CloseInv'
  <2>1. CASE t = App
    BY <1>18, <2>1 DEF Free, Report
  <2>2. CASE t = IO
    BY <1>18, <2>2 DEF Free, Report
  <2>3. CASE t = Completion
    BY <1>18, <2>3 DEF Free, Report
  <2> QED
    BY <2>1, <2>2, <2>3
<1>19. CASE IOLoop
  BY <1>19 DEF IOLoop, api_prolog
<1>20. CASE IOWork
  BY <1>20 DEF IOWork, ReplyDue
<1>21. CASE IOSession
  BY <1>21 DEF IOSession, CleanupBufs, WakeWaiting
<1>22. CASE IOMisreply
  BY <1>22 DEF IOMisreply, CleanupBufs, WakeWaiting
<1>23. CASE IOEpilog
  BY <1>23 DEF IOEpilog, api_epilog, CloseFromEpilog
<1>24. ASSUME NEW t \in Threads, LastEpilog(t) PROVE CloseInv'
  BY <1>24 DEF LastEpilog, api_epilog, CloseFromEpilog
<1>25. CASE CompletionLoop
  BY <1>25 DEF CompletionLoop, CompletionStep
<1>26. CASE CheckCompletions
  BY <1>26 DEF CheckCompletions, CompletionStep
<1>27. CASE RunCallback
  BY <1>27 DEF RunCallback, CompletionStep
<1>28. CASE CallbackReturns
  BY <1>28 DEF CallbackReturns, CompletionStep
<1>29. CASE UNCHANGED vars
  BY <1>29 DEF vars
<1> QED
  BY <1>1, <1>2, <1>3, <1>4, <1>5, <1>6, <1>7, <1>8, <1>9, <1>9a, <1>9b, <1>10,
     <1>11, <1>12, <1>13, <1>14, <1>15, <1>16, <1>17, <1>18, <1>19, <1>20, <1>21, <1>22,
     <1>23, <1>24, <1>25, <1>26, <1>27, <1>28, <1>29
     DEF Next, start_threads, CallSteps, StartUp, zookeeper_close, adaptor_finish, do_io,
         do_completion

\* The counter is zero only after both threads have let go.
LEMMA DestroyPreserved ==
    ASSUME PlacesOK, UnbornInv, CloseInv, BarrierInv, leaked \in Nat,
           RefCounterAgrees, DestroyInv, [Next]_vars
    PROVE  DestroyInv'
<1> USE ThreadsAssumption, ClosersAssumption DEF Threads, At, Go, PlacesOK, PcTypeOK,
        ReturnTypeOK, UnbornInv, CloseInv, BarrierInv, Arrived, Past, RefCounterAgrees,
        References, HoldsOwn, HoldsFinish, HoldsCall, One, DestroyInv, LetGo, InClose, InCall,
        InApp, InStart, InIO, InCompletion, handleVars, closeVars, requestVars, countVars
<1>1. CASE StartThreads
  BY <1>1 DEF StartThreads, api_prolog
<1>2. CASE CreateIO
  BY <1>2 DEF CreateIO, Create
<1>3. CASE CreateCompletion
  BY <1>3 DEF CreateCompletion, Create
<1>4. ASSUME NEW t \in Threads, ThreadProlog(t) PROVE DestroyInv'
  BY <1>4 DEF ThreadProlog, api_prolog
<1>5. ASSUME NEW t \in Threads, notify_thread_ready(t) PROVE DestroyInv'
  BY <1>5 DEF notify_thread_ready
<1>6. ASSUME NEW t \in Threads, PassBarrier(t) PROVE DestroyInv'
  BY <1>6 DEF PassBarrier, BarrierOpened
<1>7. CASE InitReturns
  BY <1>7 DEF InitReturns, api_epilog, CloseFromEpilog
<1>8. ASSUME NEW t \in {App, Completion}, StartCall(t) PROVE DestroyInv'
  BY <1>8 DEF StartCall, MayCall
<1>9. ASSUME NEW t \in {App, Completion}, Enqueue(t) PROVE DestroyInv'
  BY <1>9 DEF Enqueue
<1>9a. ASSUME NEW t \in {App, Completion}, SendQueue(t) PROVE DestroyInv'
  BY <1>9a DEF SendQueue
<1>9b. ASSUME NEW t \in {App, Completion}, WriteOut(t) PROVE DestroyInv'
  BY <1>9b DEF WriteOut
<1>10. CASE SyncReturn
  BY <1>10 DEF SyncReturn
<1>11. ASSUME NEW t \in Closers, Close(t) PROVE DestroyInv'
  BY <1>11 DEF Close
<1>12. ASSUME NEW t \in Threads, TestReferences(t) PROVE DestroyInv'
  BY <1>12 DEF TestReferences, InUse
<1>13. ASSUME NEW t \in Threads, Finish(t) PROVE DestroyInv'
  BY <1>13 DEF Finish, FinishProlog, api_prolog
<1>14. ASSUME NEW t \in Threads, JoinIO(t) PROVE DestroyInv'
  BY <1>14 DEF JoinIO, Broadcast
<1>15. ASSUME NEW t \in Threads, JoinCompletion(t) PROVE DestroyInv'
  BY <1>15 DEF JoinCompletion
<1>16. ASSUME NEW t \in Threads, FinishEpilog(t) PROVE DestroyInv'
  <2>1. CASE t = App
    BY <1>16, <2>1 DEF FinishEpilog, api_epilog, CloseFromEpilog, Report
  <2>2. CASE t = IO
    BY <1>16, <2>2 DEF FinishEpilog, api_epilog, CloseFromEpilog, Report
  <2>3. CASE t = Completion
    BY <1>16, <2>3 DEF FinishEpilog, api_epilog, CloseFromEpilog, Report
  <2> QED
    BY <2>1, <2>2, <2>3
<1>17. ASSUME NEW t \in Threads, Destroy(t) PROVE DestroyInv'
  BY <1>17 DEF Destroy, CleanupBufs, WakeWaiting
<1>18. ASSUME NEW t \in Threads, Free(t) PROVE DestroyInv'
  <2>1. CASE t = App
    BY <1>18, <2>1 DEF Free, Report
  <2>2. CASE t = IO
    BY <1>18, <2>2 DEF Free, Report
  <2>3. CASE t = Completion
    BY <1>18, <2>3 DEF Free, Report
  <2> QED
    BY <2>1, <2>2, <2>3
<1>19. CASE IOLoop
  BY <1>19 DEF IOLoop, api_prolog
<1>20. CASE IOWork
  BY <1>20 DEF IOWork, ReplyDue
<1>21. CASE IOSession
  BY <1>21 DEF IOSession, CleanupBufs, WakeWaiting
<1>22. CASE IOMisreply
  BY <1>22 DEF IOMisreply, CleanupBufs, WakeWaiting
<1>23. CASE IOEpilog
  BY <1>23 DEF IOEpilog, api_epilog, CloseFromEpilog
<1>24. ASSUME NEW t \in Threads, LastEpilog(t) PROVE DestroyInv'
  BY <1>24 DEF LastEpilog, api_epilog, CloseFromEpilog
<1>25. CASE CompletionLoop
  BY <1>25 DEF CompletionLoop, CompletionStep
<1>26. CASE CheckCompletions
  BY <1>26 DEF CheckCompletions, CompletionStep
<1>27. CASE RunCallback
  BY <1>27 DEF RunCallback, CompletionStep
<1>28. CASE CallbackReturns
  BY <1>28 DEF CallbackReturns, CompletionStep
<1>29. CASE UNCHANGED vars
  BY <1>29 DEF vars
<1> QED
  BY <1>1, <1>2, <1>3, <1>4, <1>5, <1>6, <1>7, <1>8, <1>9, <1>9a, <1>9b, <1>10,
     <1>11, <1>12, <1>13, <1>14, <1>15, <1>16, <1>17, <1>18, <1>19, <1>20, <1>21, <1>22,
     <1>23, <1>24, <1>25, <1>26, <1>27, <1>28, <1>29
     DEF Next, start_threads, CallSteps, StartUp, zookeeper_close, adaptor_finish, do_io,
         do_completion

\* The orphan is alone with the handle, and its steps destroy it.
LEMMA LastUserPreserved ==
    ASSUME PlacesOK, UnbornInv, CloseInv, BarrierInv, leaked \in Nat, RefCounterAgrees,
           LastUserInv, [Next]_vars, ~ClosedByApp'
    PROVE  LastUserInv'
<1> USE ThreadsAssumption, ClosersAssumption DEF Threads, At, Go, PlacesOK, PcTypeOK,
        ReturnTypeOK, UnbornInv, CloseInv, BarrierInv, Arrived, Past, RefCounterAgrees,
        References, HoldsOwn, HoldsFinish, HoldsCall, One, LastUserInv, Orphan, AtRest,
        Quiet, ClosedByApp, InClose, InCall, InApp, InStart, InIO, InCompletion,
        handleVars, closeVars, requestVars, countVars
<1>1. CASE StartThreads
  BY <1>1 DEF StartThreads, api_prolog
<1>2. CASE CreateIO
  BY <1>2 DEF CreateIO, Create
<1>3. CASE CreateCompletion
  BY <1>3 DEF CreateCompletion, Create
<1>4. ASSUME NEW t \in Threads, ThreadProlog(t) PROVE LastUserInv'
  BY <1>4 DEF ThreadProlog, api_prolog
<1>5. ASSUME NEW t \in Threads, notify_thread_ready(t) PROVE LastUserInv'
  BY <1>5 DEF notify_thread_ready
<1>6. ASSUME NEW t \in Threads, PassBarrier(t) PROVE LastUserInv'
  BY <1>6 DEF PassBarrier, BarrierOpened
<1>7. CASE InitReturns
  BY <1>7 DEF InitReturns, api_epilog, CloseFromEpilog
<1>8. ASSUME NEW t \in {App, Completion}, StartCall(t) PROVE LastUserInv'
  BY <1>8 DEF StartCall, MayCall
<1>9. ASSUME NEW t \in {App, Completion}, Enqueue(t) PROVE LastUserInv'
  BY <1>9 DEF Enqueue
<1>9a. ASSUME NEW t \in {App, Completion}, SendQueue(t) PROVE LastUserInv'
  BY <1>9a DEF SendQueue
<1>9b. ASSUME NEW t \in {App, Completion}, WriteOut(t) PROVE LastUserInv'
  BY <1>9b DEF WriteOut
<1>10. CASE SyncReturn
  BY <1>10 DEF SyncReturn
<1>11. ASSUME NEW t \in Closers, Close(t) PROVE LastUserInv'
  BY <1>11 DEF Close
<1>12. ASSUME NEW t \in Threads, TestReferences(t) PROVE LastUserInv'
  <2>1. pc[t] = "test" /\ ~freed /\ UNCHANGED <<ref_counter, freed, returnTo>>
    BY <1>12 DEF TestReferences
  <2>2. CASE Orphan(t)
    <3> HIDE DEF RefCounterAgrees, BarrierInv, UnbornInv
    <3>1. pc' = [pc EXCEPT ![t] = "destroy"] /\ ref_counter = 0
      BY <1>12, <2>2 DEF TestReferences, InUse
    <3>2. \A u \in Threads : u # t => Quiet(u)'
      BY <2>2, <3>1
    <3>3. pc'[t] = "destroy" /\ Orphan(t)'
      BY <2>1, <2>2, <3>1
    <3> QED
      BY <2>1, <3>1, <3>2, <3>3
  <2>3. CASE ~Orphan(t)
    <3>1. HoldsOwn(t)
      BY <2>1, <2>3
    <3>2. ref_counter # 0
      BY <3>1
    <3> HIDE DEF RefCounterAgrees, BarrierInv, UnbornInv
    <3>3. pc' = [pc EXCEPT ![t] = "finish"]
      BY <1>12, <3>2 DEF TestReferences, InUse
    <3>4. \A u \in Threads : ~Orphan(u)
      BY <2>1, <2>3
    <3>5. \A u \in Threads : Orphan(u)' => Orphan(u)
      BY <2>1, <3>1, <3>3
    <3> QED
      BY <2>1, <3>3, <3>4, <3>5
  <2> QED
    BY <2>2, <2>3
<1>13. ASSUME NEW t \in Threads, Finish(t) PROVE LastUserInv'
  BY <1>13 DEF Finish, FinishProlog, api_prolog
<1>14. ASSUME NEW t \in Threads, JoinIO(t) PROVE LastUserInv'
  BY <1>14, SMTT(30) DEF JoinIO, Broadcast
<1>15. ASSUME NEW t \in Threads, JoinCompletion(t) PROVE LastUserInv'
  BY <1>15, SMTT(30) DEF JoinCompletion
<1>16. ASSUME NEW t \in Threads, FinishEpilog(t) PROVE LastUserInv'
  <2>1. CASE t = App
    BY <1>16, <2>1 DEF FinishEpilog, api_epilog, CloseFromEpilog, Report
  <2>2. CASE t = IO
    BY <1>16, <2>2 DEF FinishEpilog, api_epilog, CloseFromEpilog, Report
  <2>3. CASE t = Completion
    BY <1>16, <2>3, SMTT(30) DEF FinishEpilog, api_epilog, CloseFromEpilog, Report
  <2> QED
    BY <2>1, <2>2, <2>3
<1>17. ASSUME NEW t \in Threads, Destroy(t) PROVE LastUserInv'
  BY <1>17, SMTT(30) DEF Destroy, CleanupBufs, WakeWaiting
<1>18. ASSUME NEW t \in Threads, Free(t) PROVE LastUserInv'
  <2>1. CASE t = App
    BY <1>18, <2>1, SMTT(30) DEF Free, Report
  <2>2. CASE t = IO
    BY <1>18, <2>2 DEF Free, Report
  <2>3. CASE t = Completion
    BY <1>18, <2>3 DEF Free, Report
  <2> QED
    BY <2>1, <2>2, <2>3
<1>19. CASE IOLoop
  BY <1>19 DEF IOLoop, api_prolog
<1>20. CASE IOWork
  BY <1>20 DEF IOWork, ReplyDue
<1>21. CASE IOSession
  BY <1>21 DEF IOSession, CleanupBufs, WakeWaiting
<1>22. CASE IOMisreply
  BY <1>22 DEF IOMisreply, CleanupBufs, WakeWaiting
<1>23. CASE IOEpilog
  BY <1>23 DEF IOEpilog, api_epilog, CloseFromEpilog
<1>24. ASSUME NEW t \in Threads, LastEpilog(t) PROVE LastUserInv'
  BY <1>24 DEF LastEpilog, api_epilog, CloseFromEpilog
<1>25. CASE CompletionLoop
  BY <1>25 DEF CompletionLoop, CompletionStep
<1>26. CASE CheckCompletions
  BY <1>26 DEF CheckCompletions, CompletionStep
<1>27. CASE RunCallback
  BY <1>27 DEF RunCallback, CompletionStep
<1>28. CASE CallbackReturns
  BY <1>28 DEF CallbackReturns, CompletionStep
<1>29. CASE UNCHANGED vars
  BY <1>29 DEF vars
<1> QED
  BY <1>1, <1>2, <1>3, <1>4, <1>5, <1>6, <1>7, <1>8, <1>9, <1>9a, <1>9b, <1>10,
     <1>11, <1>12, <1>13, <1>14, <1>15, <1>16, <1>17, <1>18, <1>19, <1>20, <1>21, <1>22,
     <1>23, <1>24, <1>25, <1>26, <1>27, <1>28, <1>29
     DEF Next, start_threads, CallSteps, StartUp, zookeeper_close, adaptor_finish, do_io,
         do_completion

\* A zookeeper_close of the application stays its own.
LEMMA AppCloseStays ==
    ASSUME PlacesOK, CloseInv, ClosedByApp, [Next]_vars
    PROVE  ClosedByApp'
<1> USE ThreadsAssumption, ClosersAssumption DEF Threads, ClosedByApp, PlacesOK, ReturnTypeOK
<1>1. CASE UNCHANGED returnTo
  BY <1>1
<1>2. CASE InitReturns
  BY <1>2 DEF InitReturns, At, CloseInv
<1>3. ASSUME NEW t \in Closers, Close(t) PROVE ClosedByApp'
  BY <1>3 DEF Close
<1>4. ASSUME NEW t \in Threads, FinishEpilog(t) PROVE ClosedByApp'
  BY <1>4 DEF FinishEpilog, api_epilog, CloseFromEpilog
<1>5. ASSUME NEW t \in {IO, Completion}, LastEpilog(t) PROVE ClosedByApp'
  BY <1>5 DEF LastEpilog, api_epilog, CloseFromEpilog
<1>6. CASE IOEpilog
  BY <1>6 DEF IOEpilog, api_epilog, CloseFromEpilog
<1>7. CASE start_threads
  BY <1>1, <1>7 DEF start_threads, StartThreads, CreateIO, CreateCompletion, Create, closeVars
<1>8. ASSUME NEW t \in Threads, StartUp(t) PROVE ClosedByApp'
  BY <1>1, <1>8 DEF StartUp, ThreadProlog, notify_thread_ready, PassBarrier, closeVars
<1>9. ASSUME NEW t \in Threads, zookeeper_close(t), ~FinishEpilog(t) PROVE ClosedByApp'
  BY <1>1, <1>9 DEF zookeeper_close, adaptor_finish, TestReferences, Finish, JoinIO,
                    JoinCompletion, Destroy, Free, closeVars
<1>10. ASSUME NEW t \in {App, Completion}, StartCall(t) \/ CallSteps(t) PROVE ClosedByApp'
  BY <1>1, <1>10 DEF StartCall, CallSteps, Enqueue, SendQueue, WriteOut, closeVars
<1>11. CASE SyncReturn \/ IOLoop \/ IOWork \/ IOSession \/ IOMisreply
  BY <1>1, <1>11 DEF SyncReturn, IOLoop, IOWork, IOSession, IOMisreply, closeVars
<1>12. CASE CompletionLoop \/ CheckCompletions \/ RunCallback \/ CallbackReturns
  BY <1>1, <1>12 DEF CompletionLoop, CheckCompletions, RunCallback, CallbackReturns,
                     CompletionStep, closeVars
<1>13. CASE UNCHANGED vars
  BY <1>1, <1>13 DEF vars, closeVars
<1> QED
  BY <1>2, <1>3, <1>4, <1>5, <1>6, <1>7, <1>8, <1>9, <1>10, <1>11, <1>12, <1>13
     DEF Next, do_io, do_completion

\* Without one, the last user alone destroys the handle.
LEMMA OrphanPreserved ==
    ASSUME PlacesOK, UnbornInv, CloseInv, BarrierInv, leaked \in Nat, RefCounterAgrees,
           OrphanInv, [Next]_vars
    PROVE  OrphanInv'
<1>1. ClosedByApp => ClosedByApp'
  BY AppCloseStays
<1>2. ~ClosedByApp' => LastUserInv
  BY <1>1 DEF OrphanInv
<1>3. ~ClosedByApp' => LastUserInv'
  BY <1>2, LastUserPreserved
<1> QED
  BY <1>3 DEF OrphanInv

-----------------------------------------------------------------------------
(* The data and the queue of completions.                                  *)

\* What cleanup_bufs and session events append leaves the queue a sequence.
LEMMA CleanupTypes ==
    ASSUME DataTypeOK, NEW extra \in Seq({"event", "request"}), CleanupBufs(extra)
    PROVE  /\ completions' \in Seq({"event", "request"})
           /\ sent' = 0 /\ waiting' = FALSE
<1> DEFINE S == Seq({"event", "request"})
<1>1. [i \in 1..sent |-> "request"] \in S
  BY SMT DEF DataTypeOK
<1>2. completions \o extra \in S
  BY ConcatProperties DEF DataTypeOK
<1>3. (completions \o extra) \o [i \in 1..sent |-> "request"] \in S
  BY <1>1, <1>2, ConcatProperties
<1> QED
  BY <1>3 DEF CleanupBufs, WakeWaiting

\* The data keep their types.
LEMMA DataPreserved ==
    DataTypeOK /\ PlacesOK /\ [Next]_vars => DataTypeOK'
<1> SUFFICES ASSUME DataTypeOK, PlacesOK, [Next]_vars PROVE DataTypeOK'
  OBVIOUS
<1> USE DEF handleVars, closeVars, requestVars, countVars
<1>1. CASE StartThreads \/ CreateIO \/ CreateCompletion \/ InitReturns
  BY <1>1 DEF DataTypeOK, StartThreads, CreateIO, CreateCompletion, Create, InitReturns
<1>2. ASSUME NEW t \in Threads, StartUp(t) PROVE DataTypeOK'
  BY <1>2 DEF DataTypeOK, StartUp, ThreadProlog, notify_thread_ready, PassBarrier
<1>3. ASSUME NEW t \in {App, Completion}, StartCall(t) PROVE DataTypeOK'
  BY <1>3 DEF DataTypeOK, StartCall, MayCall
<1>4. ASSUME NEW t \in {App, Completion}, CallSteps(t) PROVE DataTypeOK'
  <2>1. CASE Enqueue(t)
    <3>1. sent' \in Nat
      BY <2>1 DEF DataTypeOK, Enqueue
    <3>2. waiting' \in BOOLEAN
      BY <2>1 DEF DataTypeOK, Enqueue
    <3> QED
      BY <2>1, <3>1, <3>2 DEF DataTypeOK, Enqueue
  <2>2. CASE SendQueue(t) \/ WriteOut(t)
    BY <2>2 DEF DataTypeOK, SendQueue, WriteOut
  <2> QED
    BY <1>4, <2>1, <2>2 DEF CallSteps
<1>4a. CASE SyncReturn
  BY <1>4a DEF DataTypeOK, SyncReturn
<1>4b. ASSUME NEW t \in Closers, Close(t) PROVE DataTypeOK'
  BY <1>4b DEF DataTypeOK, Close
<1>5. ASSUME NEW t \in Threads, zookeeper_close(t) PROVE DataTypeOK'
  <2>1. CASE TestReferences(t) \/ Finish(t) \/ JoinIO(t) \/ JoinCompletion(t)
    BY <2>1 DEF DataTypeOK, TestReferences, Finish, JoinIO, JoinCompletion, Broadcast
  <2>2. CASE FinishEpilog(t)
    BY <2>2 DEF DataTypeOK, FinishEpilog, Report, FlushResults
  <2>3. CASE Destroy(t)
    <3>1. <<>> \in Seq({"event", "request"})
      OBVIOUS
    <3>2. completions' \in Seq({"event", "request"}) /\ sent' = 0 /\ waiting' = FALSE
      BY <2>3, <3>1, CleanupTypes DEF Destroy
    <3> QED
      BY <2>3, <3>2 DEF DataTypeOK, Destroy
  <2>4. CASE Free(t)
    BY <2>4 DEF DataTypeOK, Free, Report, FlushResults
  <2> QED
    BY <1>5, <2>1, <2>2, <2>3, <2>4 DEF zookeeper_close, adaptor_finish
<1>6. CASE IOLoop \/ IOEpilog
  BY <1>6 DEF DataTypeOK, IOLoop, IOEpilog
<1>7. CASE IOWork
  <2>1. completions' \in Seq({"event", "request"})
    BY <1>7 DEF DataTypeOK, IOWork
  <2>2. sent' \in Nat
    BY <1>7 DEF DataTypeOK, IOWork, ReplyDue
  <2>3. waiting' \in BOOLEAN /\ asleep' \in BOOLEAN
    BY <1>7 DEF DataTypeOK, IOWork
  <2> QED
    BY <1>7, <2>1, <2>2, <2>3 DEF DataTypeOK, IOWork
<1>8. CASE IOSession \/ IOMisreply
  <2>1. <<"event">> \in Seq({"event", "request"})
    OBVIOUS
  <2>2. CASE CleanupBufs(<<"event">>)
    <3>1. completions' \in Seq({"event", "request"}) /\ sent' = 0 /\ waiting' = FALSE
      BY <2>1, <2>2, CleanupTypes
    <3>2. CASE IOSession
      <4>1. sent' \in Nat /\ waiting' \in BOOLEAN
        BY <3>1
      <4>2. state' \in {"CONNECTING", "CONNECTED", "EXPIRED_SESSION"} /\ events' \in Nat
        BY <3>2 DEF DataTypeOK, IOSession
      <4>3. asleep' = FALSE /\ UNCHANGED <<close_requested, freed, closeRc, flushRc,
                                             synchronous, leaked, calls>>
        BY <3>2 DEF IOSession
      <4> QED
        BY <3>1, <4>1, <4>2, <4>3 DEF DataTypeOK
    <3>3. CASE IOMisreply
      <4>1. sent' \in Nat /\ waiting' \in BOOLEAN
        BY <3>1
      <4>2. state' = "CONNECTING" /\ leaked' \in Nat
        BY <3>3 DEF DataTypeOK, IOMisreply
      <4>3. asleep' = FALSE /\ UNCHANGED <<close_requested, freed, closeRc, flushRc,
                                             synchronous, calls, events>>
        BY <3>3 DEF IOMisreply
      <4> QED
        BY <3>1, <4>1, <4>2, <4>3 DEF DataTypeOK
    <3> QED
      BY <1>8, <3>2, <3>3
  <2>3. CASE IOSession /\ completions' = Append(completions, "event") /\ UNCHANGED <<sent, waiting>>
    <3>1. completions' \in Seq({"event", "request"})
      BY <2>3 DEF DataTypeOK
    <3> QED
      <4>1. state' \in {"CONNECTING", "CONNECTED", "EXPIRED_SESSION"} /\ events' \in Nat
        BY <2>3 DEF DataTypeOK, IOSession
      <4>2. asleep' = FALSE /\ UNCHANGED <<close_requested, freed, closeRc, flushRc,
                                             synchronous, leaked, calls>>
        BY <2>3 DEF IOSession
      <4> QED
        BY <2>3, <3>1, <4>1, <4>2 DEF DataTypeOK
  <2> QED
    BY <1>8, <2>2, <2>3 DEF IOSession, IOMisreply
<1>9. ASSUME NEW t \in Threads, LastEpilog(t) PROVE DataTypeOK'
  BY <1>9 DEF DataTypeOK, LastEpilog
<1>10. CASE CompletionLoop \/ CheckCompletions \/ CallbackReturns
  BY <1>10 DEF DataTypeOK, CompletionLoop, CheckCompletions, CallbackReturns, CompletionStep
<1>11. CASE RunCallback
  <2>1. completions' \in Seq({"event", "request"})
    BY <1>11, HeadTailProperties DEF DataTypeOK, RunCallback
  <2> QED
    BY <1>11, <2>1 DEF DataTypeOK, RunCallback, CompletionStep
<1>12. CASE UNCHANGED vars
  BY <1>12 DEF DataTypeOK, vars
<1> QED
  BY <1>1, <1>2, <1>3, <1>4, <1>4a, <1>4b, <1>5, <1>6, <1>7, <1>8, <1>9, <1>10, <1>11,
     <1>12
     DEF Next, start_threads, do_io, do_completion, Threads

-----------------------------------------------------------------------------
(* The theorems.                                                           *)

\* The invariants of the handle hold in the initial state ...
LEMMA InitHandleInv == Init => HandleInv /\ OrphanInv
<1> SUFFICES ASSUME Init PROVE HandleInv /\ OrphanInv
  OBVIOUS
<1> USE ThreadsAssumption DEF Init, Threads
<1>1. DataTypeOK
  <2>1. <<>> \in Seq({"event", "request"})
    OBVIOUS
  <2> QED
    BY <2>1 DEF DataTypeOK
<1>2. PlacesOK /\ UnbornInv
  BY DEF PlacesOK, PcTypeOK, ReturnTypeOK, UnbornInv, InApp, InStart
<1>3. RefCounterAgrees
  BY DEF RefCounterAgrees, References, HoldsOwn, HoldsFinish, HoldsCall, One, InClose, InCall
<1>4. BarrierInv
  BY DEF BarrierInv, Arrived, Past, One, InStart
<1>5. CloseInv /\ DestroyInv /\ OrphanInv
  BY DEF CloseInv, DestroyInv, OrphanInv, LastUserInv, Orphan, InClose
<1> QED
  BY <1>1, <1>2, <1>3, <1>4, <1>5 DEF HandleInv

\* ... and every step keeps them.
LEMMA StepHandleInv == HandleInv /\ [Next]_vars => HandleInv'
<1> SUFFICES ASSUME HandleInv, [Next]_vars PROVE HandleInv'
  OBVIOUS
<1>1. leaked \in Nat
  BY DEF HandleInv, DataTypeOK
<1> QED
  BY <1>1, DataPreserved, PlacesPreserved, UnbornPreserved, ReferencesPreserved, BarrierPreserved,
     ClosePreserved, DestroyPreserved
  DEF HandleInv

\* The invariant of the handle, for all of its parts together.
THEOREM HandleInvariant == Spec => []HandleInv
<1>1. Init => HandleInv
  BY InitHandleInv
<1> QED
  BY <1>1, StepHandleInv, PTL DEF Spec

\* Every variable keeps its type; in particular the reference counter and
\* the barrier never go below zero.
THEOREM HandleTypeCorrect == Spec => []TypeOK
<1>1. HandleInv => TypeOK
  <2> SUFFICES ASSUME HandleInv PROVE TypeOK
    OBVIOUS
  <2>1. threadsToWait \in 0..2
    BY DEF HandleInv, BarrierInv, One
  <2>2. ref_counter \in Nat
    BY DEF HandleInv, DataTypeOK, RefCounterAgrees, References, One
  <2> QED
    BY <2>1, <2>2 DEF HandleInv, DataTypeOK, PlacesOK, TypeOK
<1> QED
  BY <1>1, HandleInvariant, PTL

\* The reference counter is exactly the references the threads hold, plus
\* those the missing api_epilog of zookeeper_process left behind.
THEOREM ReferencesExact == Spec => []RefCounterAgrees
<1>1. HandleInv => RefCounterAgrees
  BY DEF HandleInv
<1> QED
  BY <1>1, HandleInvariant, PTL

\* zookeeper_init returns only after both threads hold the handle (the
\* barrier of start_threads).
THEOREM InitHandsOverHeldHandle == Spec => []InitReturnsHeldHandle
<1>1. HandleInv => InitReturnsHeldHandle
  <2> SUFFICES ASSUME HandleInv, pc[App] \in {"ready", "waiting"} \cup InCall,
                      ~close_requested
               PROVE  HoldsOwn(Completion) /\ (HoldsOwn(IO) \/ is_unrecoverable)
    BY DEF InitReturnsHeldHandle
  <2>1. Arrived(IO) /\ Arrived(Completion)
    BY DEF HandleInv, BarrierInv, Past, InStart, InCall, Threads, One
  <2> QED
    BY <2>1, ThreadsAssumption
    DEF HandleInv, PlacesOK, PcTypeOK, CloseInv, Arrived, HoldsOwn, Threads, InStart, InIO,
        InCall, InCompletion
<1> QED
  BY <1>1, HandleInvariant, PTL

\* No thread destroys the handle while the IO or the completion thread still
\* has its reference.
THEOREM ThreadsLetGoFirst == Spec => []DestroyedAfterThreads
<1>1. HandleInv => DestroyedAfterThreads
  BY DEF HandleInv, DestroyInv, LetGo, DestroyedAfterThreads
<1> QED
  BY <1>1, HandleInvariant, PTL

\* A handle that a callback closes, or anybody but the application itself, is
\* freed by its last user: no thread of the client, and no zookeeper_close, goes
\* on to it afterwards.  What is excepted does: a call the application is in
\* (run lifetime_race), and a zookeeper_close of the application's own.
THEOREM CallbackCloseIsLast == Spec => []FreedByLastUser
<1>1. Init => HandleInv /\ OrphanInv
  BY InitHandleInv
<1>2. HandleInv /\ OrphanInv /\ [Next]_vars => OrphanInv'
  <2>1. HandleInv => leaked \in Nat
    BY DEF HandleInv, DataTypeOK
  <2> QED
    BY <2>1, OrphanPreserved DEF HandleInv
<1>3. OrphanInv => FreedByLastUser
  BY DEF OrphanInv, LastUserInv, FreedByLastUser, Quiet
<1> QED
  BY <1>1, <1>2, <1>3, StepHandleInv, PTL DEF Spec

=============================================================================
