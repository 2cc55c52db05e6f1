----------------------------- MODULE RubyClient -----------------------------
(***************************************************************************)
(* The Ruby side: the methods of zookeeper.rb, the callback objects of     *)
(* callbacks.rb, and the threads in between.  A synchronous method keeps   *)
(* the interpreter until its zoo_* function returns; the block of an       *)
(* asynchronous one runs in a Ruby thread of its own that the wrappers of  *)
(* zookeeper.c and zk_hashtable.c create, one for every callback, and the  *)
(* threads take turns between any two statements.  The C client is the     *)
(* queue of RequestPipeline: requests are answered in order, or all of     *)
(* them fail; once the session has expired nobody serves it any more.      *)
(* What replies and events contain is the matter of ClientApi.  The        *)
(* application does not use a handle that it has closed, as the C client   *)
(* asks; zoo_state of a freed handle, which closed? reads, is left out.    *)
(***************************************************************************)
EXTENDS Naturals, Sequences, FiniteSets

CONSTANTS
    Requests,       \* calls of the application, each made once
    CallOf,         \* of each: [op, callback, watcher], an object or Nobody
    Callbacks,      \* callback objects
    ClassOf,        \* the class of each
    Events,         \* events of watches, each delivered once
    Nobody,
    GARBAGE         \* what is read from a string that was collected

Classes == {"WatcherCallback", "DataCallback", "StringCallback", "StringsCallback",
            "StatCallback", "VoidCallback", "ACLCallback"}

ASSUME ClassesAssumption == ClassOf \in [Callbacks -> Classes]
ASSUME ObjectsAssumption ==
    \A r \in Requests : {CallOf[r].callback, CallOf[r].watcher} \subseteq Callbacks \cup {Nobody}

\* No method tests the class of a watcher: it is the application that gives one.
ASSUME WatchersAssumption ==
    \A r \in Requests :
        CallOf[r].watcher # Nobody => ClassOf[CallOf[r].watcher] = "WatcherCallback"

VARIABLES
    session,        \* zoo_state(@zk_handle): "connecting", "connected" or "expired"
    handle,         \* "open", "closing" or "freed"
    closeAsked,     \* close was called
    inC,            \* the request whose caller keeps the interpreter, "close" or Nobody
    passed,         \* the request that passed is_unrecoverable and is not queued yet, or Nobody
    made,           \* the requests that were made
    sent,           \* sent_requests: requests that wait for an answer, in order
    completions,    \* completions_to_process: sets of invocations, in order
    watches,        \* registered watchers: invocations without a source
    collected,      \* context strings that the garbage collector has taken
    threads,        \* Ruby threads of callbacks: invocations with a place in the Script
    object,         \* of each callback object: the value of each attribute it has set
    completed,      \* completed? of each callback object
    given,          \* of each object, the sources it was called for
    ran,            \* of each object, the sources its block has returned for
    raised          \* sources a thread of which ended by an exception

sessionVars == <<session, handle, closeAsked>>
cVars == <<sessionVars, inC, passed, made, sent, completions, watches, collected>>
rubyVars == <<object, completed, ran, raised>>
vars == <<cVars, threads, rubyVars, given>>

\* A call of a callback: for a request or an event, on an object, with the context
\* string that C has kept the address of.
Invocation(source, callback, context) ==
    [source |-> source, callback |-> callback, context |-> context]

Init ==
    /\ session = "connected" /\ handle = "open" /\ closeAsked = FALSE
    /\ inC = Nobody /\ passed = Nobody
    /\ made = {} /\ sent = <<>> /\ completions = <<>> /\ watches = {} /\ collected = {}
    /\ threads = {} /\ raised = {}
    /\ object = [c \in Callbacks |-> <<>>]
    /\ completed = [c \in Callbacks |-> FALSE]
    /\ given = [c \in Callbacks |-> {}] /\ ran = [c \in Callbacks |-> {}]

-----------------------------------------------------------------------------
(* zookeeper.rb.                                                           *)

\* The class of :callback that a method demands.
CallbackClass(op) ==
    CASE op = "create"             -> "StringCallback"
      [] op = "get"                -> "DataCallback"
      [] op \in {"set", "exists"}  -> "StatCallback"
      [] op = "delete"             -> "VoidCallback"
      [] op = "get_children"       -> "StringsCallback"
      [] op \in {"get_acl", "set_acl"} -> "ACLCallback"

Accepts(r) ==
    CallOf[r].callback # Nobody => ClassOf[CallOf[r].callback] = CallbackClass(CallOf[r].op)

\* Whether request r is in a queue.
IsIn(r, queue) == \E i \in DOMAIN queue : queue[i] = r

\* YAML.dump makes a string for each context; nothing keeps it after the call.
ContextOf(r) == <<r, "context">>
WatcherContextOf(r) == <<r, "watcher_context">>

\* The application may call: it has not closed the handle, and no call keeps the
\* interpreter.
MayCall(r) == handle = "open" /\ ~closeAsked /\ inC = Nobody /\ r \notin made

\* The method raises BadArguments, or returns what zoo_* refuses it with, ZINVALIDSTATE
\* once the session has expired: no callback will be called.
CallRefused(r) ==
    /\ MayCall(r)
    /\ made' = made \cup {r}
    /\ UNCHANGED <<sessionVars, inC, passed, sent, completions, watches, collected, threads,
                   rubyVars, given>>

\* The call passes the test of is_unrecoverable; zoo_* keeps the interpreter ...
CallMade(r) ==
    /\ MayCall(r) /\ Accepts(r) /\ session # "expired"
    /\ made' = made \cup {r}
    /\ inC' = r /\ passed' = r
    /\ UNCHANGED <<sessionVars, sent, completions, watches, collected, threads, rubyVars, given>>

\* ... and queues the request.  A synchronous caller then waits for it.
CallQueued ==
    /\ passed # Nobody
    /\ sent' = Append(sent, passed)
    /\ inC' = IF CallOf[passed].callback = Nobody THEN passed ELSE Nobody
    /\ passed' = Nobody
    /\ UNCHANGED <<sessionVars, made, completions, watches, collected, threads, rubyVars, given>>

\* close does nothing unless the session is connected at that moment.
Close ==
    /\ handle = "open" /\ ~closeAsked /\ inC = Nobody
    /\ closeAsked' = TRUE
    /\ IF session = "connected" THEN handle' = "closing" /\ inC' = "close"
                                ELSE UNCHANGED <<handle, inC>>
    /\ UNCHANGED <<session, passed, made, sent, completions, watches, collected, threads,
                   rubyVars, given>>

\* zookeeper_close returns: requests without an answer, and answers the completion
\* thread has not come to, are freed with the handle and their callbacks never called.
CloseReturns ==
    /\ handle = "closing"
    /\ handle' = "freed" /\ inC' = Nobody
    /\ sent' = <<>> /\ completions' = <<>> /\ watches' = {}
    /\ UNCHANGED <<session, closeAsked, passed, made, collected, threads, rubyVars, given>>

\* The strings whose address C has kept.
Kept ==
    {ContextOf(r) : r \in {q \in Requests : CallOf[q].callback # Nobody /\ IsIn(q, sent)}}
    \cup {WatcherContextOf(r) : r \in {q \in Requests : CallOf[q].watcher # Nobody /\ IsIn(q, sent)}}
    \cup {v.context : v \in watches \cup UNION {completions[i] : i \in DOMAIN completions}}

\* The collector may take any of them, once the call that made it has returned.
Collect ==
    /\ inC = Nobody
    /\ \E s \in Kept \ collected : collected' = collected \cup {s}
    /\ UNCHANGED <<sessionVars, inC, passed, made, sent, completions, watches, threads, rubyVars,
                   given>>

-----------------------------------------------------------------------------
(* The C client.                                                           *)

CompletionOf(r) == {Invocation(r, CallOf[r].callback, ContextOf(r))}

\* Only the first request that fails tells the application.
QueueTheFirst(q, rs) == q \o [i \in DOMAIN rs \cap {1} |-> CompletionOf(rs[i])]

\* The completions of asynchronous requests are queued in order, whatever the outcome.
QueueCompletions(q, rs) == q \o [i \in DOMAIN rs |-> CompletionOf(rs[i])]

\* The asynchronous ones of rs, in their order.
Asynchronous(rs) ==
    LET among[i \in 0 .. Len(rs)] ==
            IF i = 0 THEN <<>>
            ELSE IF CallOf[rs[i]].callback = Nobody THEN among[i - 1]
            ELSE Append(among[i - 1], rs[i])
    IN  among[Len(rs)]

\* A synchronous caller, if its request is among these, goes on.
Wake(rs) == inC' = IF inC \in {rs[i] : i \in DOMAIN rs} THEN Nobody ELSE inC

\* The server answers the first request; its watcher is registered.
Answer ==
    /\ handle = "open" /\ session = "connected" /\ sent # <<>>
    /\ LET r == Head(sent) IN
         /\ sent' = Tail(sent)
         /\ completions' = QueueCompletions(completions, Asynchronous(<<r>>))
         /\ Wake(<<r>>)
         /\ watches' = IF CallOf[r].watcher = Nobody THEN watches
                       ELSE watches \cup {Invocation(Nobody, CallOf[r].watcher,
                                                     WatcherContextOf(r))}
    /\ UNCHANGED <<sessionVars, passed, made, collected, threads, rubyVars, given>>

Delivered(e) == {[w EXCEPT !.source = e] : w \in watches}

\* The event of a znode takes the watches off; one of the session leaves them.
WatchEvent(e) ==
    /\ handle = "open" /\ session # "expired" /\ watches # {}
    /\ \A c \in Callbacks : e \notin given[c]
    /\ \A i \in DOMAIN completions : \A v \in completions[i] : v.source # e
    /\ completions' = Append(completions, Delivered(e))
    /\ \/ session = "connected" /\ watches' = {}
       \/ UNCHANGED watches
    /\ UNCHANGED <<sessionVars, inC, passed, made, sent, collected, threads, rubyVars, given>>

\* An error fails every request that is queued at that moment.
FailAll ==
    /\ sent' = <<>>
    /\ completions' = QueueCompletions(completions, Asynchronous(sent))
    /\ Wake(sent)
    /\ UNCHANGED <<handle, closeAsked, passed, made, watches, collected, threads, rubyVars, given>>

\* The connection is lost: CONNECTIONLOSS.
LoseConnection ==
    /\ handle = "open" /\ session = "connected"
    /\ session' = "connecting"
    /\ FailAll

Reconnect ==
    /\ handle = "open" /\ session = "connecting"
    /\ session' = "connected"
    /\ UNCHANGED <<handle, closeAsked, inC, passed, made, sent, completions, watches, collected,
                   threads, rubyVars, given>>

\* A failed attempt to connect fails what was queued meanwhile.
ConnectFails ==
    /\ handle = "open" /\ session = "connecting" /\ sent # <<>>
    /\ FailAll
    /\ UNCHANGED session

\* The server has given up the session: SESSIONEXPIRED, and the I/O thread ends.
SessionExpires ==
    /\ handle = "open" /\ session = "connecting"
    /\ session' = "expired"
    /\ FailAll

\* The completion thread: the wrappers copy the result, and the context from where it
\* was, and create a thread for each callback.
process_completions ==
    /\ handle # "freed" /\ completions # <<>>
    /\ threads' = threads \cup
          {[source |-> v.source, callback |-> v.callback, at |-> 1,
            context |-> IF v.context \in collected THEN GARBAGE ELSE v.context] :
              v \in Head(completions)}
    /\ given' = [c \in Callbacks |->
                    given[c] \cup {v.source : v \in {w \in Head(completions) : w.callback = c}}]
    /\ completions' = Tail(completions)
    /\ UNCHANGED <<sessionVars, inC, passed, made, sent, watches, collected, rubyVars>>

-----------------------------------------------------------------------------
(* callbacks.rb.                                                           *)

\* The attributes a callback sets, in the order of its statements.
Attributes(class) ==
    CASE class = "WatcherCallback" -> <<"type", "path", "context">>
      [] class = "DataCallback"    -> <<"return_code", "value", "value_len", "stat", "context">>
      [] class = "StringCallback"  -> <<"return_code", "path", "context">>
      [] class = "StringsCallback" -> <<"return_code", "context", "children">>
      [] class = "StatCallback"    -> <<"return_code", "stat", "context">>
      [] class = "VoidCallback"    -> <<"return_code", "context">>
      [] class = "ACLCallback"     -> <<"return_code", "acl", "stat", "context">>

\* The block is the last thing that happens.
BlockLast(class) == Attributes(class) \o <<"completed", "yield">>

Script(class) == Attributes(class) \o <<"yield", "completed">>

ScriptOf(t) == Script(ClassOf[t.callback])
StatementOf(t) == ScriptOf(t)[t.at]

\* A void completion has two arguments: set_acl gives the context as the acl.
IsSetAcl(source) == source \in Requests /\ CallOf[source].op = "set_acl"

ValueFor(t, attribute) ==
    CASE IsSetAcl(t.source) /\ attribute = "acl" -> t.context
      [] IsSetAcl(t.source) /\ attribute \in {"stat", "context"} -> Nobody
      [] ~IsSetAcl(t.source) /\ attribute = "context" -> t.context
      [] OTHER -> t.source

Assigned(f, attribute, value) ==
    [a \in DOMAIN f \cup {attribute} |-> IF a = attribute THEN value ELSE f[a]]

NextStatement(t) ==
    threads' = (threads \ {t}) \cup
        (IF t.at < Len(ScriptOf(t)) THEN {[t EXCEPT !.at = @ + 1]} ELSE {})

Running(t) == inC = Nobody /\ t \in threads

\* children is left alone when there are no strings, which is when the call has failed.
Assign(t) ==
    /\ Running(t) /\ StatementOf(t) \notin {"yield", "completed"}
    /\ LET a == StatementOf(t) IN
         \/ object' = [object EXCEPT ![t.callback] = Assigned(@, a, ValueFor(t, a))]
         \/ a = "children" /\ UNCHANGED object
    /\ NextStatement(t)
    /\ UNCHANGED <<cVars, completed, ran, raised, given>>

Yield(t) ==
    /\ Running(t) /\ StatementOf(t) = "yield"
    /\ ran' = [ran EXCEPT ![t.callback] = @ \cup {t.source}]
    /\ NextStatement(t)
    /\ UNCHANGED <<cVars, object, completed, raised, given>>

\* The block raises, or YAML.load does for a context that is none any more.
Raise(t) ==
    /\ Running(t)
    /\ \/ StatementOf(t) = "yield"
       \/ StatementOf(t) = "context" /\ t.context = GARBAGE
    /\ threads' = threads \ {t}
    /\ raised' = raised \cup {t.source}
    /\ UNCHANGED <<cVars, object, completed, ran, given>>

SetCompleted(t) ==
    /\ Running(t) /\ StatementOf(t) = "completed"
    /\ completed' = [completed EXCEPT ![t.callback] = TRUE]
    /\ NextStatement(t)
    /\ UNCHANGED <<cVars, object, ran, raised, given>>

RubyThread == \E t \in threads : Assign(t) \/ Yield(t) \/ Raise(t) \/ SetCompleted(t)

Next ==
    \/ \E r \in Requests : CallRefused(r) \/ CallMade(r)
    \/ CallQueued \/ Close \/ CloseReturns \/ Collect
    \/ Answer \/ LoseConnection \/ Reconnect \/ ConnectFails \/ SessionExpires
    \/ \E e \in Events : WatchEvent(e)
    \/ process_completions
    \/ RubyThread

\* Until the session has expired the I/O thread answers or fails what is queued
\* (RequestPipeline); a call that was started queues its request; the completion thread
\* and zookeeper_close go on, and the interpreter runs its threads whenever no caller
\* keeps it.  Nothing is assumed of an expired session.
Fairness ==
    /\ WF_vars(sent # <<>> /\ (Answer \/ LoseConnection \/ ConnectFails \/ SessionExpires))
    /\ WF_vars(CallQueued)
    /\ WF_vars(process_completions)
    /\ WF_vars(CloseReturns)
    /\ WF_vars(RubyThread)

Spec == Init /\ [][Next]_vars /\ Fairness

-----------------------------------------------------------------------------
(* Properties.                                                             *)

Sources == Requests \cup Events
Contexts == {ContextOf(r) : r \in Requests} \cup {WatcherContextOf(r) : r \in Requests}
Invocations == [source : Sources, callback : Callbacks, context : Contexts]
Values == Sources \cup Contexts \cup {Nobody, GARBAGE}

\* The types of the variables; a thread is at a statement of its script. (zookeeper.rb,
\* callbacks.rb)
TypeOK ==
    /\ session \in {"connecting", "connected", "expired"} /\ closeAsked \in BOOLEAN
    /\ handle \in {"open", "closing", "freed"}
    /\ inC \in Requests \cup {"close", Nobody} /\ passed \in Requests \cup {Nobody}
    /\ made \subseteq Requests
    /\ sent \in Seq(Requests) /\ completions \in Seq(SUBSET Invocations)
    /\ watches \subseteq [source : {Nobody}, callback : Callbacks, context : Contexts]
    /\ collected \subseteq Contexts
    /\ threads \subseteq [source : Sources, callback : Callbacks, at : Nat,
                          context : Contexts \cup {GARBAGE}]
    /\ \A t \in threads : t.at \in DOMAIN ScriptOf(t)
    /\ DOMAIN object = Callbacks
    /\ \A c \in Callbacks : \A a \in DOMAIN object[c] : object[c][a] \in Values
    /\ completed \in [Callbacks -> BOOLEAN]
    /\ {given, ran} \subseteq [Callbacks -> SUBSET Sources] /\ raised \subseteq Sources

\* Attribute a of the object is that of the call; children may be unset.
Told(c, a, source) ==
    \/ a = "children" /\ a \notin DOMAIN object[c]
    \/ /\ a \in DOMAIN object[c]
       /\ \/ a # "context" /\ object[c][a] = source
          \/ a = "context" /\ \/ object[c][a] \in collected \cup {GARBAGE}
                              \/ object[c][a] = ContextOf(source)
                              \/ ClassOf[c] = "WatcherCallback"
          \/ IsSetAcl(source) /\ a \in {"acl", "stat", "context"}

\* All the attributes of the object are those of one call.
TellsOf(c, source) ==
    \A i \in DOMAIN Attributes(ClassOf[c]) : Told(c, Attributes(ClassOf[c])[i], source)

\* What an application that polls completed? relies on, as the specs of the client do:
\* the block has returned for some call, and an object that was given to one call only
\* has every attribute of its reply, and its context unless the collector was faster or
\* set_acl lost it.  An object that is called twice may show half of each.
\* (callbacks.rb, the ruby_*_wrapper functions, zookeeper.rb)
CompletedTellsTheReply ==
    \A c \in Callbacks : completed[c] =>
        /\ ran[c] # {}
        /\ \A source \in given[c] : given[c] = {source} => source \in ran[c] /\ TellsOf(c, source)

\* The caller of a synchronous method whose request is queued on an expired session.
Stranded == session = "expired" /\ IsIn(inC, sent)

\* Every call whose request is queued while the session is alive hears back, also when
\* the session expires before the answer: an asynchronous one is called back to the end
\* of its block, unless the block raises or the handle is closed first.  And no call
\* keeps the interpreter for ever.  Excepted is a synchronous call that is queued after
\* the session has expired: nobody answers it (SyncCallsAlwaysReturn of RequestPipeline
\* shows that in C), and it keeps the interpreter from everybody.
\* (process_completions, the ruby_*_wrapper functions, zookeeper.rb, callbacks.rb)
CallersHearBack ==
    /\ \A r \in Requests :
          IsIn(r, sent) /\ session # "expired" ~>
              \/ CallOf[r].callback = Nobody /\ inC # r
              \/ CallOf[r].callback # Nobody /\ r \in ran[CallOf[r].callback] \cup raised
              \/ handle # "open" \/ Stranded
    /\ []<>(inC = Nobody \/ Stranded)

=============================================================================
