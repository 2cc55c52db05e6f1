--------------------------- MODULE RubyClientProofs ---------------------------
(***************************************************************************)
(* Theorems about RubyClient, for any calls, callback objects and events:  *)
(* an object that says it is completed holds the reply of its call,        *)
(* whatever the threads of Ruby, the garbage collector and close do.       *)
(***************************************************************************)
EXTENDS RubyClient, SequenceTheorems, WellFoundedInduction, TLAPS

-----------------------------------------------------------------------------
(* The asynchronous requests among those that end together.                *)

\* A set of numbers has a least element: the induction of the next proofs.
LEMMA LeastNumber ==
    ASSUME NEW T, T \subseteq Nat, T # {}
    PROVE  \E x \in T : \A y \in T : x <= y
<1>1. PICK R : IsWellFoundedOn(R, Nat) /\ \A x, y \in Nat : x < y => <<x, y>> \in R
  <2>1. \A x, y \in Nat : x < y => <<x, y>> \in OpToRel(<, Nat)
    BY DEF OpToRel
  <2> QED
    BY <2>1, NatLessThanWellFounded, Zenon
<1>2. IsWellFoundedOn(R, Nat)
  BY <1>1
<1>3. PICK x \in T : \A y \in T : <<y, x>> \notin R
  BY <1>2, WFMin, Zenon
<1>4. ASSUME NEW y \in T PROVE x <= y
  <2>1. x \in Nat /\ y \in Nat
    OBVIOUS
  <2>2. ~(y < x)
    BY <2>1, <1>1, <1>3
  <2> QED
    BY <2>1, <2>2
<1> QED
  BY <1>4

\* One step of the list.
Among(rs, before, i) ==
    IF CallOf[rs[i]].callback = Nobody THEN before ELSE Append(before, rs[i])

\* There is such a list for every part of rs, of requests with a callback only.
LEMMA AmongExists ==
    ASSUME NEW rs \in Seq(Requests)
    PROVE  \E f : /\ f = [i \in 0 .. Len(rs) |-> IF i = 0 THEN <<>> ELSE Among(rs, f[i - 1], i)]
<1> DEFINE Is(f, k) == f = [i \in 0 .. k |-> IF i = 0 THEN <<>> ELSE Among(rs, f[i - 1], i)]
           T == {k \in 0 .. Len(rs) : ~\E f : Is(f, k)}
<1>1. T = {}
  <2> SUFFICES ASSUME T # {} PROVE FALSE
    OBVIOUS
  <2>1. PICK k \in T : \A y \in T : k <= y
    <3>1. T \subseteq Nat
      OBVIOUS
    <3> HIDE DEF T
    <3> QED
      BY <3>1, LeastNumber
  <2>2. k # 0
    <3>1. Is([i \in 0 .. 0 |-> <<>>], 0)
      OBVIOUS
    <3> QED
      BY <3>1, <2>1
  <2>3. PICK g : Is(g, k - 1)
    <3>1. k - 1 \in 0 .. Len(rs) /\ ~(k <= k - 1)
      BY <2>1, <2>2
    <3>2. k - 1 \notin T
      BY <2>1, <3>1
    <3> QED
      BY <3>1, <3>2
  <2> DEFINE h == [i \in 0 .. k |-> IF i = k THEN Among(rs, g[k - 1], k) ELSE g[i]]
  <2>4. ASSUME NEW i \in 0 .. k
        PROVE  h[i] = IF i = 0 THEN <<>> ELSE Among(rs, h[i - 1], i)
    <3>1. i = k \/ i \in 0 .. k - 1
      BY <2>1, <2>2
    <3>2. \A j \in 0 .. k - 1 : h[j] = g[j]
      BY <2>1, <2>2
    <3>3. CASE i = k
      <4>1. h[k] = Among(rs, g[k - 1], k) /\ k - 1 \in 0 .. k - 1 /\ k # 0
        BY <2>1, <2>2
      <4> QED
        BY <3>2, <3>3, <4>1
    <3>4. CASE i \in 1 .. k - 1
      <4>1. g[i] = Among(rs, g[i - 1], i)
        BY <2>1, <2>3, <3>4
      <4>2. i - 1 \in 0 .. k - 1 /\ i \in 0 .. k - 1 /\ i # 0
        BY <2>1, <3>4
      <4> QED
        BY <3>2, <4>1, <4>2
    <3>5. CASE i = 0
      BY <2>2, <2>3, <3>5, <3>2, <2>1
    <3> QED
      BY <3>1, <3>3, <3>4, <3>5, <2>1
  <2>5. h = [i \in 0 .. k |-> IF i = 0 THEN <<>> ELSE Among(rs, h[i - 1], i)]
    <3> HIDE DEF h
    <3>1. DOMAIN h = 0 .. k /\ h = [i \in 0 .. k |-> h[i]]
      BY DEF h
    <3> QED
      BY <2>4, <3>1
  <2> QED
    BY <2>1, <2>5
<1>2. Len(rs) \notin T
  BY <1>1
<1> QED
  BY <1>2

\* They are requests of rs that have a callback.
LEMMA AsynchronousType ==
    ASSUME NEW rs \in Seq(Requests)
    PROVE  Asynchronous(rs) \in Seq({r \in Requests : CallOf[r].callback # Nobody})
<1> DEFINE A == {r \in Requests : CallOf[r].callback # Nobody}
           f == CHOOSE f : f = [i \in 0 .. Len(rs) |-> IF i = 0 THEN <<>> ELSE Among(rs, f[i - 1], i)]
           T == {k \in 0 .. Len(rs) : f[k] \notin Seq(A)}
<1>1. f = [i \in 0 .. Len(rs) |-> IF i = 0 THEN <<>> ELSE Among(rs, f[i - 1], i)]
  BY AmongExists
<1>2. Asynchronous(rs) = f[Len(rs)]
  BY DEF Asynchronous, Among
<1> HIDE DEF f
<1>3. T = {}
  <2> SUFFICES ASSUME T # {} PROVE FALSE
    OBVIOUS
  <2>1. PICK k \in T : \A y \in T : k <= y
    <3>1. T \subseteq Nat
      OBVIOUS
    <3> HIDE DEF T
    <3> QED
      BY <3>1, LeastNumber
  <2>2. k # 0
    BY <1>1, <2>1
  <2>3. f[k - 1] \in Seq(A) /\ k \in 1 .. Len(rs)
    BY <2>1, <2>2
  <2>4. f[k] = Among(rs, f[k - 1], k)
    BY <1>1, <2>3
  <2>5. rs[k] \in Requests
    BY <2>3
  <2>6. Among(rs, f[k - 1], k) \in Seq(A)
    BY <2>3, <2>5, AppendProperties DEF Among
  <2> QED
    BY <2>1, <2>4, <2>6
<1> QED
  BY <1>2, <1>3

-----------------------------------------------------------------------------
(* The scripts of the callback objects.                                    *)

AttributesOf(t) == Attributes(ClassOf[t.callback])

\* The block comes behind all attributes, and completed behind the block.
LEMMA ScriptIs ==
    ASSUME NEW class \in Classes
    PROVE  LET n == Len(Attributes(class)) IN
           /\ n \in Nat /\ DOMAIN Attributes(class) = 1 .. n
           /\ Len(Script(class)) = n + 2 /\ DOMAIN Script(class) = 1 .. n + 2
           /\ \A i \in 1 .. n : /\ Script(class)[i] = Attributes(class)[i]
                                /\ Script(class)[i] \notin {"yield", "completed"}
           /\ Script(class)[n + 1] = "yield" /\ Script(class)[n + 2] = "completed"
<1>1. CASE class = "WatcherCallback"
  BY <1>1 DEF Script, Attributes
<1>2. CASE class = "DataCallback"
  BY <1>2 DEF Script, Attributes
<1>3. CASE class = "StringCallback"
  BY <1>3 DEF Script, Attributes
<1>4. CASE class = "StringsCallback"
  BY <1>4 DEF Script, Attributes
<1>5. CASE class = "StatCallback"
  BY <1>5 DEF Script, Attributes
<1>6. CASE class = "VoidCallback"
  BY <1>6 DEF Script, Attributes
<1>7. CASE class = "ACLCallback"
  BY <1>7 DEF Script, Attributes
<1> QED
  BY <1>1, <1>2, <1>3, <1>4, <1>5, <1>6, <1>7 DEF Classes

Threads == [source : Sources, callback : Callbacks, at : Nat, context : Contexts \cup {GARBAGE}]

\* Where a thread is in its script.
LEMMA StatementIs ==
    ASSUME NEW t \in Threads, t.at \in DOMAIN ScriptOf(t)
    PROVE  LET n == Len(AttributesOf(t)) IN
           /\ n \in Nat /\ DOMAIN AttributesOf(t) = 1 .. n /\ Len(ScriptOf(t)) = n + 2
           /\ t.at \in 1 .. n + 2
           /\ StatementOf(t) = "yield" <=> t.at = n + 1
           /\ StatementOf(t) = "completed" <=> t.at = n + 2
           /\ t.at \in 1 .. n => StatementOf(t) = AttributesOf(t)[t.at]
           /\ t.at < n + 2 => t.at + 1 \in DOMAIN ScriptOf(t)
<1> DEFINE class == ClassOf[t.callback]
           n == Len(Attributes(class))
<1>1. class \in Classes /\ t.at \in Nat
  BY ClassesAssumption DEF Threads
<1>2. /\ n \in Nat /\ DOMAIN Attributes(class) = 1 .. n
      /\ Len(Script(class)) = n + 2 /\ DOMAIN Script(class) = 1 .. n + 2
      /\ \A i \in 1 .. n : /\ Script(class)[i] = Attributes(class)[i]
                           /\ Script(class)[i] \notin {"yield", "completed"}
      /\ Script(class)[n + 1] = "yield" /\ Script(class)[n + 2] = "completed"
  BY <1>1, ScriptIs
<1>3. /\ ScriptOf(t) = Script(class) /\ AttributesOf(t) = Attributes(class)
      /\ StatementOf(t) = Script(class)[t.at]
  BY DEF ScriptOf, StatementOf, AttributesOf
<1> HIDE DEF class
<1>4. t.at \in 1 .. n \/ t.at = n + 1 \/ t.at = n + 2
  BY <1>1, <1>2, <1>3
<1> QED
  BY <1>1, <1>2, <1>3, <1>4

-----------------------------------------------------------------------------
(* The queues of the C client.                                             *)

\* The context of a call of a callback is its own, unless it is of a watcher.
ContextFits(v) ==
    v.context \in {GARBAGE, ContextOf(v.source)} \/ ClassOf[v.callback] = "WatcherCallback"

Fitting == {v \in Invocations : ContextFits(v)}
Watchers == {w \in [source : {Nobody}, callback : Callbacks, context : Contexts] :
                ClassOf[w.callback] = "WatcherCallback"}

QueuesInv ==
    /\ sent \in Seq(Requests) /\ completions \in Seq(SUBSET Fitting)
    /\ watches \subseteq Watchers /\ passed \in Requests \cup {Nobody}

\* What is queued for a callback.
LEMMA CompletionTypes ==
    /\ \A r \in Requests : CallOf[r].callback # Nobody => CompletionOf(r) \in SUBSET Fitting
    /\ \A rs \in Seq(Requests), q \in Seq(SUBSET Fitting) :
          QueueCompletions(q, Asynchronous(rs)) \in Seq(SUBSET Fitting)
<1>1. ASSUME NEW r \in Requests, CallOf[r].callback # Nobody
      PROVE  CompletionOf(r) \in SUBSET Fitting
  BY <1>1, ObjectsAssumption
     DEF CompletionOf, Invocation, Invocations, Fitting, ContextFits, Sources, Contexts
<1>2. ASSUME NEW rs \in Seq(Requests), NEW q \in Seq(SUBSET Fitting)
      PROVE  QueueCompletions(q, Asynchronous(rs)) \in Seq(SUBSET Fitting)
  <2> DEFINE a == Asynchronous(rs)
  <2>1. a \in Seq({r \in Requests : CallOf[r].callback # Nobody})
    BY AsynchronousType
  <2> HIDE DEF a
  <2>2. [i \in DOMAIN a |-> CompletionOf(a[i])] \in Seq(SUBSET Fitting)
    <3>1. \A i \in DOMAIN a : CompletionOf(a[i]) \in SUBSET Fitting
      BY <1>1, <2>1
    <3>2. DOMAIN a = 1 .. Len(a) /\ Len(a) \in Nat
      BY <2>1
    <3> QED
      BY <3>1, <3>2
  <2>3. q \o [i \in DOMAIN a |-> CompletionOf(a[i])] \in Seq(SUBSET Fitting)
    BY <2>2, ConcatProperties
  <2> QED
    BY <2>3 DEF QueueCompletions, a
<1> QED
  BY <1>1, <1>2

\* The events of watches fit.
LEMMA EventTypes ==
    ASSUME QueuesInv, NEW e \in Events
    PROVE  Delivered(e) \in SUBSET Fitting
BY DEF QueuesInv, Watchers, Delivered, Fitting, Invocations, ContextFits, Sources

\* The watcher of a request.
LEMMA WatcherTypes ==
    ASSUME NEW r \in Requests, CallOf[r].watcher # Nobody
    PROVE  Invocation(Nobody, CallOf[r].watcher, WatcherContextOf(r)) \in Watchers
BY ObjectsAssumption, WatchersAssumption DEF Watchers, Invocation, Contexts

\* What every step does to the queues.
LEMMA QueuesStep ==
    ASSUME QueuesInv, [Next]_vars
    PROVE  QueuesInv'
<1> USE DEF QueuesInv
<1>1. ASSUME NEW r \in Requests, CallRefused(r) \/ CallMade(r)
      PROVE  QueuesInv'
  BY <1>1 DEF CallRefused, CallMade
<1>1a. ASSUME CallQueued
      PROVE  QueuesInv'
  <2>1. sent' = Append(sent, passed) /\ passed \in Requests
    BY <1>1a DEF CallQueued
  <2>2. completions' = completions /\ watches' = watches /\ passed' = Nobody
    BY <1>1a DEF CallQueued
  <2> QED
    BY <2>1, <2>2, AppendProperties
<1>2. ASSUME Close \/ Collect \/ Reconnect
      PROVE  QueuesInv'
  BY <1>2 DEF Close, Collect, Reconnect
<1>3. ASSUME CloseReturns
      PROVE  QueuesInv'
  BY <1>3 DEF CloseReturns
<1>4. ASSUME Answer
      PROVE  QueuesInv'
  <2> DEFINE r == Head(sent)
  <2>1. r \in Requests /\ sent' \in Seq(Requests)
    BY <1>4, HeadTailProperties DEF Answer
  <2>2. completions' \in Seq(SUBSET Fitting)
    <3>1. <<r>> \in Seq(Requests)
      BY <2>1
    <3>2. completions' = QueueCompletions(completions, Asynchronous(<<r>>))
      BY <1>4 DEF Answer
    <3> QED
      BY <3>1, <3>2, CompletionTypes
  <2>3. watches' \subseteq Watchers
    BY <1>4, <2>1, WatcherTypes DEF Answer
  <2>4. passed' = passed
    BY <1>4 DEF Answer
  <2> QED
    BY <2>1, <2>2, <2>3, <2>4
<1>5. ASSUME LoseConnection \/ ConnectFails \/ SessionExpires
      PROVE  QueuesInv'
  <2>1. /\ sent' = <<>> /\ watches' = watches /\ passed' = passed
        /\ completions' = QueueCompletions(completions, Asynchronous(sent))
    BY <1>5 DEF LoseConnection, ConnectFails, SessionExpires, FailAll
  <2> QED
    BY <2>1, CompletionTypes
<1>6. ASSUME NEW e \in Events, WatchEvent(e)
      PROVE  QueuesInv'
  <2>1. completions' = Append(completions, Delivered(e)) /\ sent' = sent
        /\ watches' \in {{}, watches} /\ passed' = passed
    BY <1>6 DEF WatchEvent
  <2> QED
    BY <2>1, EventTypes, AppendProperties
<1>7. ASSUME process_completions
      PROVE  QueuesInv'
  BY <1>7, HeadTailProperties DEF process_completions
<1>8. ASSUME NEW t, Assign(t) \/ Yield(t) \/ Raise(t) \/ SetCompleted(t)
      PROVE  QueuesInv'
  BY <1>8 DEF Assign, Yield, Raise, SetCompleted, cVars
<1>9. ASSUME UNCHANGED vars
      PROVE  QueuesInv'
  BY <1>9 DEF vars, cVars
<1> QED
  BY <1>1, <1>1a, <1>2, <1>3, <1>4, <1>5, <1>6, <1>7, <1>8, <1>9 DEF Next, RubyThread

-----------------------------------------------------------------------------
(* The threads of Ruby and the objects.                                    *)

\* A thread is at a statement of its script; it is of a call that its object was
\* given, and once its block has returned this is known.
ThreadsInv ==
    /\ threads \subseteq Threads
    /\ \A t \in threads :
          /\ t.at \in DOMAIN ScriptOf(t)
          /\ ContextFits(t)
          /\ t.source \in given[t.callback]
          /\ t.at = Len(ScriptOf(t)) => t.source \in ran[t.callback]
    /\ {given, ran} \subseteq [Callbacks -> SUBSET Sources]
    /\ \A c \in Callbacks : ran[c] \subseteq given[c]

ObjectsInv ==
    /\ DOMAIN object = Callbacks
    /\ \A c \in Callbacks : \A a \in DOMAIN object[c] : object[c][a] \in Values
    /\ \A c \in Callbacks :
          "children" \in DOMAIN object[c] => object[c]["children"] \in given[c]
    /\ completed \in [Callbacks -> BOOLEAN]

\* An object that was given to one call has the attributes that a thread is past.
ToldInv ==
    \A t \in threads : given[t.callback] = {t.source} =>
        \A i \in DOMAIN AttributesOf(t) :
            i < t.at => Told(t.callback, AttributesOf(t)[i], t.source)

RubyInv == QueuesInv /\ ThreadsInv /\ ObjectsInv /\ ToldInv /\ CompletedTellsTheReply

LEMMA RubyInit == Init => RubyInv
BY DEF Init, RubyInv, QueuesInv, ThreadsInv, ObjectsInv, ToldInv, CompletedTellsTheReply, Fitting

-----------------------------------------------------------------------------
(* The steps that leave Ruby alone.                                        *)

QuietStep ==
    /\ UNCHANGED <<threads, object, completed, given, ran, raised>>
    /\ collected \subseteq collected'

LEMMA QuietSteps ==
    ASSUME \/ \E r \in Requests : CallRefused(r) \/ CallMade(r)
           \/ CallQueued \/ Close \/ CloseReturns \/ Collect
           \/ Answer \/ LoseConnection \/ Reconnect \/ ConnectFails \/ SessionExpires
           \/ \E e \in Events : WatchEvent(e)
           \/ UNCHANGED vars
    PROVE  QuietStep
BY DEF CallRefused, CallMade, CallQueued, Close, CloseReturns, Collect, Answer, LoseConnection,
       Reconnect, ConnectFails, SessionExpires, FailAll, WatchEvent, vars, cVars, rubyVars,
       QuietStep

LEMMA QuietPreserves ==
    ASSUME ThreadsInv, ObjectsInv, ToldInv, CompletedTellsTheReply, QuietStep
    PROVE  ThreadsInv' /\ ObjectsInv' /\ ToldInv' /\ CompletedTellsTheReply'
<1>1. ThreadsInv' /\ ObjectsInv'
  BY DEF QuietStep, ThreadsInv, ObjectsInv, ContextFits, ScriptOf
<1>2. ASSUME NEW c, NEW a, NEW source, Told(c, a, source)
      PROVE  Told(c, a, source)'
  BY <1>2 DEF Told, QuietStep
<1>3. ToldInv'
  BY <1>2 DEF ToldInv, QuietStep, AttributesOf
<1>4. ASSUME NEW c, NEW source, TellsOf(c, source)
      PROVE  TellsOf(c, source)'
  BY <1>4 DEF TellsOf, Told, QuietStep
<1>5. CompletedTellsTheReply'
  BY <1>4 DEF CompletedTellsTheReply, QuietStep
<1> QED
  BY <1>1, <1>3, <1>5

-----------------------------------------------------------------------------
(* The completion thread makes threads.                                    *)

NewThreads ==
    {[source |-> v.source, callback |-> v.callback, at |-> 1,
      context |-> IF v.context \in collected THEN GARBAGE ELSE v.context] :
        v \in Head(completions)}

\* A new thread is at the beginning, and its object has been given its call.
LEMMA NewThreadIs ==
    ASSUME QueuesInv, ThreadsInv, process_completions, NEW t \in NewThreads
    PROVE  /\ t \in Threads /\ t.at = 1 /\ ContextFits(t)
           /\ 1 \in DOMAIN ScriptOf(t) /\ Len(ScriptOf(t)) > 1
           /\ t.source \in given'[t.callback]
<1>1. Head(completions) \in SUBSET Fitting
  BY HeadTailProperties DEF QueuesInv, process_completions
<1>2. PICK v \in Head(completions) :
          t = [source |-> v.source, callback |-> v.callback, at |-> 1,
               context |-> IF v.context \in collected THEN GARBAGE ELSE v.context]
  BY DEF NewThreads
<1>3. v \in Invocations /\ ContextFits(v)
  BY <1>1, <1>2 DEF Fitting
<1>4. /\ t.source = v.source /\ t.callback = v.callback /\ t.at = 1
      /\ t.context = GARBAGE \/ t.context = v.context
  BY <1>2
<1>5. t \in Threads
  BY <1>2, <1>3 DEF Threads, Invocations
<1>6. ContextFits(t)
  BY <1>3, <1>4 DEF ContextFits
<1>7. 1 \in DOMAIN ScriptOf(t) /\ Len(ScriptOf(t)) > 1
  BY <1>5, ScriptIs, ClassesAssumption DEF ScriptOf, Threads
<1>8. t.source \in given'[t.callback]
  BY <1>2, <1>3, <1>4 DEF process_completions, Invocations
<1> QED
  BY <1>4, <1>5, <1>6, <1>7, <1>8

LEMMA ProcessPreserves ==
    ASSUME QueuesInv, ThreadsInv, ObjectsInv, ToldInv, CompletedTellsTheReply,
           process_completions
    PROVE  ThreadsInv' /\ ObjectsInv' /\ ToldInv' /\ CompletedTellsTheReply'
<1>1. /\ threads' = threads \cup NewThreads
      /\ UNCHANGED <<object, completed, ran, collected>>
  BY DEF process_completions, NewThreads, rubyVars
<1>2. /\ given' \in [Callbacks -> SUBSET Sources]
      /\ \A c \in Callbacks : given[c] \subseteq given'[c]
  <2>1. Head(completions) \in SUBSET Invocations
    BY HeadTailProperties DEF QueuesInv, process_completions, Fitting
  <2>2. \A v \in Head(completions) : v.source \in Sources
    BY <2>1 DEF Invocations
  <2> QED
    BY <2>2 DEF process_completions, ThreadsInv
<1>3. \A t \in threads : t \in Threads /\ t.callback \in Callbacks /\ t.source \in given[t.callback]
  BY DEF ThreadsInv, Threads
<1>4. ThreadsInv'
  <2>1. threads' \subseteq Threads
    BY <1>1, <1>3, NewThreadIs
  <2>2. ASSUME NEW t \in threads'
        PROVE  /\ t.at \in DOMAIN ScriptOf(t) /\ ContextFits(t)
               /\ t.source \in given'[t.callback]
               /\ t.at = Len(ScriptOf(t)) => t.source \in ran[t.callback]
    <3>1. CASE t \in NewThreads
      BY <3>1, NewThreadIs
    <3>2. CASE t \in threads
      BY <3>2, <1>2, <1>3 DEF ThreadsInv
    <3> QED
      BY <1>1, <3>1, <3>2
  <2>3. ran' = ran /\ \A c \in Callbacks : ran[c] \subseteq given'[c]
    BY <1>1, <1>2 DEF ThreadsInv
  <2>4. \A t : (ContextFits(t))' <=> ContextFits(t)
    BY DEF ContextFits
  <2>5. \A t : (ScriptOf(t))' = ScriptOf(t)
    BY DEF ScriptOf
  <2>6. ran \in [Callbacks -> SUBSET Sources]
    BY DEF ThreadsInv
  <2> QED
    BY <1>2, <2>1, <2>2, <2>3, <2>6 DEF ThreadsInv, ContextFits, ScriptOf
<1>5. ObjectsInv'
  BY <1>1, <1>2 DEF ObjectsInv
<1>6. ToldInv'
  <2> SUFFICES ASSUME NEW t \in threads', given'[t.callback] = {t.source},
                      NEW i \in DOMAIN AttributesOf(t), i < t.at
               PROVE  Told(t.callback, AttributesOf(t)[i], t.source)'
    BY DEF ToldInv, AttributesOf
  <2>1. t \in Threads /\ i \in Nat \ {0} /\ t.at \in Nat
    <3>1. t \in Threads
      BY <1>1, <1>3, NewThreadIs
    <3>2. i \in Nat \ {0}
      BY <3>1, ScriptIs, ClassesAssumption DEF AttributesOf, Threads
    <3> QED
      BY <3>1, <3>2 DEF Threads
  <2>2. t \in threads
    BY <1>1, <2>1, NewThreadIs
  <2>3. given[t.callback] = {t.source}
    BY <1>2, <1>3, <2>2
  <2>4. Told(t.callback, AttributesOf(t)[i], t.source)
    BY <2>2, <2>3 DEF ToldInv
  <2> QED
    BY <1>1, <2>4 DEF Told
<1>7. CompletedTellsTheReply'
  <2> SUFFICES ASSUME NEW c \in Callbacks, completed[c]
               PROVE  /\ ran[c] # {}
                      /\ \A source \in given'[c] : given'[c] = {source} =>
                             source \in ran[c] /\ TellsOf(c, source)'
    BY <1>1 DEF CompletedTellsTheReply
  <2>1. ran[c] # {} /\ ran[c] \subseteq given[c]
    BY DEF CompletedTellsTheReply, ThreadsInv
  <2>2. ASSUME NEW source \in given'[c], given'[c] = {source}
        PROVE  source \in ran[c] /\ TellsOf(c, source)'
    <3>1. given[c] = {source}
      BY <1>2, <2>1, <2>2
    <3>2. source \in ran[c] /\ TellsOf(c, source)
      BY <3>1 DEF CompletedTellsTheReply
    <3> QED
      BY <1>1, <3>2 DEF TellsOf, Told
  <2> QED
    BY <2>1, <2>2
<1> QED
  BY <1>4, <1>5, <1>6, <1>7

-----------------------------------------------------------------------------
(* A thread takes its next statement.                                      *)

\* What is left of a thread after a statement: the other threads, and itself at the next.
LEMMA NextThreads ==
    ASSUME ThreadsInv, NEW t \in threads, NextStatement(t) \/ threads' = threads \ {t}
    PROVE  /\ t \in Threads
           /\ \A u \in threads' : u \notin threads =>
                 /\ u = [t EXCEPT !.at = t.at + 1] /\ t.at < Len(ScriptOf(t))
                 /\ u \in Threads /\ u.at = t.at + 1
                 /\ u.source = t.source /\ u.callback = t.callback /\ u.context = t.context
                 /\ ScriptOf(u) = ScriptOf(t) /\ AttributesOf(u) = AttributesOf(t)
BY DEF ThreadsInv, NextStatement, Threads, ScriptOf, AttributesOf

\* The thread invariant after a statement, given what the block has told.
LEMMA ThreadsPreserved ==
    ASSUME ThreadsInv, NEW t \in threads, NextStatement(t) \/ threads' = threads \ {t},
           given' = given, ran' \in [Callbacks -> SUBSET Sources],
           \A c \in Callbacks : ran[c] \subseteq ran'[c] /\ ran'[c] \subseteq given[c],
           t.at = Len(AttributesOf(t)) + 1 /\ NextStatement(t) => t.source \in ran'[t.callback]
    PROVE  ThreadsInv'
<1>1. ASSUME NEW u \in threads'
      PROVE  /\ u \in Threads /\ u.at \in DOMAIN ScriptOf(u) /\ ContextFits(u)
             /\ u.source \in given[u.callback]
             /\ u.at = Len(ScriptOf(u)) => u.source \in ran'[u.callback]
  <2>1. CASE u \in threads
    BY <2>1 DEF ThreadsInv, Threads
  <2>2. CASE u \notin threads
    <3>1. /\ t.at < Len(ScriptOf(t)) /\ u \in Threads /\ u.at = t.at + 1
          /\ u.source = t.source /\ u.callback = t.callback /\ u.context = t.context
          /\ ScriptOf(u) = ScriptOf(t) /\ t \in Threads /\ NextStatement(t)
      BY <2>2, NextThreads DEF NextStatement
    <3>2. t.at \in DOMAIN ScriptOf(t) /\ ContextFits(t) /\ t.source \in given[t.callback]
      BY DEF ThreadsInv
    <3>3. /\ Len(AttributesOf(t)) \in Nat /\ Len(ScriptOf(t)) = Len(AttributesOf(t)) + 2
          /\ t.at + 1 \in DOMAIN ScriptOf(t)
      BY <3>1, <3>2, StatementIs
    <3>4. ContextFits(u)
      BY <3>1, <3>2 DEF ContextFits
    <3>5. t.at \in Nat
      BY <3>1 DEF Threads
    <3> QED
      BY <3>1, <3>2, <3>3, <3>4, <3>5
  <2> QED
    BY <2>1, <2>2
<1>2. given \in [Callbacks -> SUBSET Sources]
  BY DEF ThreadsInv
<1> QED
  BY <1>1, <1>2 DEF ThreadsInv, ContextFits, ScriptOf

\* What a statement gives an attribute is told of its call.
LEMMA ValueIsTold ==
    ASSUME ThreadsInv, NEW t \in threads, NEW a
    PROVE  /\ ValueFor(t, a) \in Values
           /\ a = "children" => ValueFor(t, a) = t.source
           /\ \/ a # "context" /\ ValueFor(t, a) = t.source
              \/ a = "context" /\ \/ ValueFor(t, a) \in collected \cup {GARBAGE}
                                  \/ ValueFor(t, a) = ContextOf(t.source)
                                  \/ ClassOf[t.callback] = "WatcherCallback"
              \/ IsSetAcl(t.source) /\ a \in {"acl", "stat", "context"}
<1>1. t.source \in Sources /\ t.context \in Contexts \cup {GARBAGE} /\ ContextFits(t)
  BY DEF ThreadsInv, Threads
<1>2. CASE IsSetAcl(t.source) /\ a = "acl"
  BY <1>1, <1>2 DEF ValueFor, Values
<1>3. CASE IsSetAcl(t.source) /\ a \in {"stat", "context"}
  BY <1>1, <1>3 DEF ValueFor, Values
<1>4. CASE ~IsSetAcl(t.source) /\ a = "context"
  BY <1>1, <1>4 DEF ValueFor, Values, ContextFits
<1>5. CASE ~(IsSetAcl(t.source) /\ a \in {"acl", "stat", "context"}) /\ a # "context"
  BY <1>1, <1>5 DEF ValueFor, Values
<1> QED
  BY <1>2, <1>3, <1>4, <1>5

LEMMA AssignPreserves ==
    ASSUME ThreadsInv, ObjectsInv, ToldInv, CompletedTellsTheReply, NEW t \in threads, Assign(t)
    PROVE  ThreadsInv' /\ ObjectsInv' /\ ToldInv' /\ CompletedTellsTheReply'
<1> DEFINE a == StatementOf(t)
           n == Len(AttributesOf(t))
<1>1. /\ UNCHANGED <<completed, ran, given, collected>> /\ NextStatement(t)
      /\ \/ object' = [object EXCEPT ![t.callback] =
                                     Assigned(object[t.callback], a, ValueFor(t, a))]
         \/ a = "children" /\ object' = object
      /\ a \notin {"yield", "completed"}
  BY DEF Assign, cVars
<1>2. /\ t \in Threads /\ t.callback \in Callbacks /\ t.at \in 1 .. n /\ n \in Nat
      /\ DOMAIN AttributesOf(t) = 1 .. n /\ a = AttributesOf(t)[t.at]
      /\ t.source \in given[t.callback]
  <2>1. t \in Threads /\ t.at \in DOMAIN ScriptOf(t) /\ t.source \in given[t.callback]
    BY DEF ThreadsInv
  <2> QED
    BY <2>1, <1>1, StatementIs DEF Threads
<1> HIDE DEF a
<1>3. ThreadsInv'
  <2>1. t.at # n + 1
    BY <1>2
  <2>2. /\ ran' \in [Callbacks -> SUBSET Sources]
        /\ \A c \in Callbacks : ran[c] \subseteq ran'[c] /\ ran'[c] \subseteq given[c]
    BY <1>1 DEF ThreadsInv
  <2> QED
    BY <1>1, <2>1, <2>2, ThreadsPreserved
\* The object of another thread is as before, and so is every attribute but a.
<1>4a. ASSUME NEW c \in Callbacks
       PROVE  \/ object'[c] = object[c] /\ (c = t.callback => a = "children")
              \/ c = t.callback /\ object'[c] = Assigned(object[c], a, ValueFor(t, a))
  BY <1>1, <1>2 DEF ObjectsInv
<1>4. ObjectsInv'
  <2>1. DOMAIN object' = Callbacks
    BY <1>1 DEF ObjectsInv
  <2>2. ASSUME NEW c \in Callbacks, NEW b \in DOMAIN object'[c]
        PROVE  object'[c][b] \in Values /\ (b = "children" => object'[c][b] \in given[c])
    <3>1. CASE c = t.callback /\ object'[c] = Assigned(object[c], a, ValueFor(t, a))
      <4>1. ValueFor(t, a) \in Values /\ (a = "children" => ValueFor(t, a) = t.source)
        BY ValueIsTold
      <4>2. CASE b = a
        <5>1. object'[c][b] = ValueFor(t, a)
          BY <2>2, <3>1, <4>2 DEF Assigned
        <5> QED
          BY <1>2, <3>1, <4>1, <4>2, <5>1
      <4>3. CASE b # a
        <5>1. b \in DOMAIN object[c] /\ object'[c][b] = object[c][b]
          BY <2>2, <3>1, <4>3 DEF Assigned
        <5> QED
          BY <5>1 DEF ObjectsInv
      <4> QED
        BY <4>2, <4>3
    <3>2. CASE object'[c] = object[c]
      BY <3>2, <2>2 DEF ObjectsInv
    <3> QED
      BY <1>4a, <3>1, <3>2
  <2> QED
    BY <1>1, <2>1, <2>2 DEF ObjectsInv
\* The attribute is told of the call, and others are as before.
<1>5. given[t.callback] = {t.source} => Told(t.callback, a, t.source)'
  <2>1. CASE object'[t.callback] = Assigned(object[t.callback], a, ValueFor(t, a))
    <3>1. a \in DOMAIN object'[t.callback] /\ object'[t.callback][a] = ValueFor(t, a)
      BY <2>1 DEF Assigned
    <3> QED
      BY <1>1, <3>1, ValueIsTold DEF Told
  <2>2. CASE object'[t.callback] = object[t.callback] /\ a = "children"
    <3>1. a \in DOMAIN object[t.callback] => object[t.callback][a] \in given[t.callback]
      BY <1>2, <2>2 DEF ObjectsInv
    <3> QED
      BY <2>2, <3>1 DEF Told
  <2> QED
    BY <1>2, <1>4a, <2>1, <2>2
<1>6. ASSUME NEW c \in Callbacks, NEW b, NEW source, Told(c, b, source),
             given[c] = {source}
      PROVE  Told(c, b, source)'
  <2>1. CASE c = t.callback /\ b = a
    <3>1. source = t.source
      BY <1>2, <1>6, <2>1
    <3> QED
      BY <1>5, <1>6, <2>1, <3>1
  <2>2. CASE object'[c] = Assigned(object[c], a, ValueFor(t, a)) /\ b # a
    <3>1. /\ b \in DOMAIN object'[c] <=> b \in DOMAIN object[c]
          /\ b \in DOMAIN object[c] => object'[c][b] = object[c][b]
      BY <2>2 DEF Assigned
    <3> QED
      BY <1>1, <1>6, <3>1 DEF Told
  <2>3. CASE object'[c] = object[c]
    BY <1>1, <1>6, <2>3 DEF Told
  <2> QED
    BY <1>4a, <2>1, <2>2, <2>3
<1>7. ToldInv'
  <2> SUFFICES ASSUME NEW u \in threads', given[u.callback] = {u.source},
                      NEW i \in DOMAIN AttributesOf(u), i < u.at
               PROVE  Told(u.callback, AttributesOf(u)[i], u.source)'
    BY <1>1 DEF ToldInv, AttributesOf
  <2>1. CASE u \in threads
    <3>1. Told(u.callback, AttributesOf(u)[i], u.source) /\ u.callback \in Callbacks
      BY <2>1 DEF ToldInv, ThreadsInv, Threads
    <3> QED
      BY <1>6, <3>1
  <2>2. CASE u \notin threads
    <3>1. /\ u.at = t.at + 1 /\ u.source = t.source /\ u.callback = t.callback
          /\ AttributesOf(u) = AttributesOf(t)
      BY <1>1, <2>2, NextThreads
    <3>2. i \in 1 .. n /\ (i < t.at \/ i = t.at)
      BY <1>2, <3>1
    <3>3. CASE i = t.at
      BY <1>1, <1>2, <1>5, <3>1, <3>3
    <3>4. CASE i < t.at
      <4>1. Told(t.callback, AttributesOf(t)[i], t.source)
        BY <1>2, <3>1, <3>2, <3>4 DEF ToldInv
      <4> QED
        BY <1>2, <1>6, <3>1, <4>1
    <3> QED
      BY <3>2, <3>3, <3>4
  <2> QED
    BY <2>1, <2>2
<1>8. CompletedTellsTheReply'
  <2> SUFFICES ASSUME NEW c \in Callbacks, completed[c]
               PROVE  /\ ran[c] # {}
                      /\ \A source \in given[c] : given[c] = {source} =>
                             source \in ran[c] /\ TellsOf(c, source)'
    BY <1>1 DEF CompletedTellsTheReply
  <2>1. ASSUME NEW source \in given[c], given[c] = {source}
        PROVE  source \in ran[c] /\ TellsOf(c, source)'
    <3>1. source \in ran[c] /\ TellsOf(c, source)
      BY <2>1 DEF CompletedTellsTheReply
    <3>2. \A b : Told(c, b, source) => Told(c, b, source)'
      BY <1>6, <2>1
    <3> QED
      BY <3>1, <3>2 DEF TellsOf
  <2> QED
    BY <2>1 DEF CompletedTellsTheReply
<1> QED
  BY <1>3, <1>4, <1>7, <1>8

\* A statement that changes no attribute of an object.
LEMMA OthersPreserve ==
    ASSUME ThreadsInv, ObjectsInv, ToldInv, NEW t \in threads,
           NextStatement(t) \/ threads' = threads \ {t},
           UNCHANGED <<given, object, collected>>,
           StatementOf(t) \in {"yield", "completed"} \/ threads' = threads \ {t}
    PROVE  /\ ToldInv'
           /\ (DOMAIN object = Callbacks /\ \A c \in Callbacks :
                  /\ \A a \in DOMAIN object[c] : object[c][a] \in Values
                  /\ "children" \in DOMAIN object[c] => object[c]["children"] \in given[c])'
<1>1. ASSUME NEW u \in threads', given[u.callback] = {u.source},
             NEW i \in DOMAIN AttributesOf(u), i < u.at
      PROVE  Told(u.callback, AttributesOf(u)[i], u.source)
  <2>1. CASE u \in threads
    BY <1>1, <2>1 DEF ToldInv
  <2>2. CASE u \notin threads
    <3>1. /\ u.at = t.at + 1 /\ u.source = t.source /\ u.callback = t.callback
          /\ AttributesOf(u) = AttributesOf(t) /\ t \in Threads
          /\ StatementOf(t) \in {"yield", "completed"}
      BY <2>2, NextThreads
    <3>2. t.at \in DOMAIN ScriptOf(t)
      BY DEF ThreadsInv
    <3>3. /\ Len(AttributesOf(t)) \in Nat /\ DOMAIN AttributesOf(t) = 1 .. Len(AttributesOf(t))
          /\ t.at >= Len(AttributesOf(t)) + 1 /\ t.at \in Nat
      BY <3>1, <3>2, StatementIs
    <3>4. i < t.at
      BY <1>1, <3>1, <3>3
    <3> QED
      BY <1>1, <3>1, <3>4 DEF ToldInv
  <2> QED
    BY <2>1, <2>2
<1>2. \A c, a, source : Told(c, a, source)' <=> Told(c, a, source)
  BY DEF Told
<1>3. ToldInv'
  BY <1>1, <1>2 DEF ToldInv, AttributesOf
<1> QED
  BY <1>3 DEF ObjectsInv

LEMMA YieldPreserves ==
    ASSUME ThreadsInv, ObjectsInv, ToldInv, CompletedTellsTheReply, NEW t \in threads, Yield(t)
    PROVE  ThreadsInv' /\ ObjectsInv' /\ ToldInv' /\ CompletedTellsTheReply'
<1>1. /\ UNCHANGED <<completed, object, given, collected>> /\ NextStatement(t)
      /\ ran' = [ran EXCEPT ![t.callback] = ran[t.callback] \cup {t.source}]
      /\ StatementOf(t) = "yield"
  BY DEF Yield, cVars
<1>2. t \in Threads /\ t.callback \in Callbacks /\ t.source \in given[t.callback]
  BY DEF ThreadsInv, Threads
<1>3. /\ ran' \in [Callbacks -> SUBSET Sources]
      /\ \A c \in Callbacks : ran[c] \subseteq ran'[c] /\ ran'[c] \subseteq given[c]
      /\ t.source \in ran'[t.callback]
  <2>1. t.source \in Sources /\ ran \in [Callbacks -> SUBSET Sources]
    BY <1>2 DEF Threads, ThreadsInv
  <2> QED
    BY <1>1, <1>2, <2>1 DEF ThreadsInv
<1>4. ThreadsInv'
  BY <1>1, <1>3, ThreadsPreserved
<1>5. ToldInv' /\ ObjectsInv'
  BY <1>1, OthersPreserve DEF ObjectsInv
<1>6. CompletedTellsTheReply'
  <2>1. \A c, source : TellsOf(c, source)' <=> TellsOf(c, source)
    BY <1>1 DEF TellsOf, Told
  <2> QED
    BY <1>1, <1>3, <2>1 DEF CompletedTellsTheReply
<1> QED
  BY <1>4, <1>5, <1>6

LEMMA RaisePreserves ==
    ASSUME ThreadsInv, ObjectsInv, ToldInv, CompletedTellsTheReply, NEW t \in threads, Raise(t)
    PROVE  ThreadsInv' /\ ObjectsInv' /\ ToldInv' /\ CompletedTellsTheReply'
<1>1. UNCHANGED <<completed, object, given, ran, collected>> /\ threads' = threads \ {t}
  BY DEF Raise, cVars
<1>2. ThreadsInv'
  BY <1>1 DEF ThreadsInv, ContextFits, ScriptOf
<1>3. ToldInv' /\ ObjectsInv'
  BY <1>1, OthersPreserve DEF ObjectsInv
<1>4. CompletedTellsTheReply'
  <2>1. \A c, source : TellsOf(c, source)' <=> TellsOf(c, source)
    BY <1>1 DEF TellsOf, Told
  <2> QED
    BY <1>1, <2>1 DEF CompletedTellsTheReply
<1> QED
  BY <1>2, <1>3, <1>4

\* The last statement: the block has returned, and all attributes are told.
LEMMA SetCompletedPreserves ==
    ASSUME ThreadsInv, ObjectsInv, ToldInv, CompletedTellsTheReply, NEW t \in threads,
           SetCompleted(t)
    PROVE  ThreadsInv' /\ ObjectsInv' /\ ToldInv' /\ CompletedTellsTheReply'
<1>1. /\ UNCHANGED <<ran, object, given, collected>> /\ NextStatement(t)
      /\ completed' = [completed EXCEPT ![t.callback] = TRUE]
      /\ StatementOf(t) = "completed"
  BY DEF SetCompleted, cVars
<1>2. /\ t \in Threads /\ t.callback \in Callbacks /\ t.source \in given[t.callback]
      /\ t.at \in DOMAIN ScriptOf(t)
  BY DEF ThreadsInv, Threads
<1>3. LET n == Len(AttributesOf(t)) IN
      n \in Nat /\ t.at = n + 2 /\ Len(ScriptOf(t)) = n + 2 /\ DOMAIN AttributesOf(t) = 1 .. n
  BY <1>1, <1>2, StatementIs
<1>4. ThreadsInv'
  <2>1. /\ ran' \in [Callbacks -> SUBSET Sources]
        /\ \A c \in Callbacks : ran[c] \subseteq ran'[c] /\ ran'[c] \subseteq given[c]
    BY <1>1 DEF ThreadsInv
  <2>2. t.at # Len(AttributesOf(t)) + 1
    BY <1>3
  <2> QED
    BY <1>1, <2>1, <2>2, ThreadsPreserved
<1>5. ToldInv' /\ ObjectsInv'
  BY <1>1, OthersPreserve DEF ObjectsInv
<1>6. CompletedTellsTheReply'
  <2>1. \A c, source : TellsOf(c, source)' <=> TellsOf(c, source)
    BY <1>1 DEF TellsOf, Told
  <2>2. t.source \in ran[t.callback]
    BY <1>3 DEF ThreadsInv
  <2>3. given[t.callback] = {t.source} => TellsOf(t.callback, t.source)
    <3> SUFFICES ASSUME given[t.callback] = {t.source},
                        NEW i \in DOMAIN AttributesOf(t)
                 PROVE  Told(t.callback, AttributesOf(t)[i], t.source)
      BY DEF TellsOf, Told, AttributesOf
    <3>1. i < t.at
      BY <1>3
    <3> QED
      BY <3>1 DEF ToldInv
  <2>4. ASSUME NEW c \in Callbacks, completed'[c]
        PROVE  /\ ran[c] # {}
               /\ \A source \in given[c] : given[c] = {source} =>
                      source \in ran[c] /\ TellsOf(c, source)
    <3>1. CASE c = t.callback
      BY <1>2, <2>2, <2>3, <3>1
    <3>2. CASE c # t.callback
      <4>1. completed[c]
        BY <1>1, <2>4, <3>2 DEF ObjectsInv
      <4> QED
        BY <4>1 DEF CompletedTellsTheReply
    <3> QED
      BY <3>1, <3>2
  <2> QED
    BY <1>1, <2>1, <2>4 DEF CompletedTellsTheReply
<1> QED
  BY <1>4, <1>5, <1>6

-----------------------------------------------------------------------------
(* The theorems.                                                           *)

LEMMA RubyNext == RubyInv /\ [Next]_vars => RubyInv'
<1> SUFFICES ASSUME RubyInv, [Next]_vars PROVE RubyInv'
  OBVIOUS
<1> USE DEF RubyInv
<1>1. QueuesInv'
  BY QueuesStep
<1>2. ASSUME \/ \E r \in Requests : CallRefused(r) \/ CallMade(r)
             \/ CallQueued \/ Close \/ CloseReturns \/ Collect
             \/ Answer \/ LoseConnection \/ Reconnect \/ ConnectFails \/ SessionExpires
             \/ \E e \in Events : WatchEvent(e)
             \/ UNCHANGED vars
      PROVE  RubyInv'
  BY <1>1, <1>2, QuietSteps, QuietPreserves
<1>3. ASSUME process_completions
      PROVE  RubyInv'
  BY <1>1, <1>3, ProcessPreserves
<1>4. ASSUME NEW t \in threads, Assign(t)
      PROVE  RubyInv'
  BY <1>1, <1>4, AssignPreserves
<1>5. ASSUME NEW t \in threads, Yield(t)
      PROVE  RubyInv'
  BY <1>1, <1>5, YieldPreserves
<1>6. ASSUME NEW t \in threads, Raise(t)
      PROVE  RubyInv'
  BY <1>1, <1>6, RaisePreserves
<1>7. ASSUME NEW t \in threads, SetCompleted(t)
      PROVE  RubyInv'
  BY <1>1, <1>7, SetCompletedPreserves
<1> QED
  BY <1>2, <1>3, <1>4, <1>5, <1>6, <1>7 DEF Next, RubyThread

\* RubyInv holds in every state of the specification.
LEMMA RubyAlways == Spec => []RubyInv
BY RubyInit, RubyNext, PTL DEF Spec

\* An object that says it is completed has run its block, and if it was given to one call
\* it has every attribute of its reply. (callbacks.rb, the ruby_*_wrapper functions)
THEOREM CompletedIsTrue == Spec => []CompletedTellsTheReply
<1>1. RubyInv => CompletedTellsTheReply
  BY DEF RubyInv
<1> QED
  BY <1>1, RubyAlways, PTL

\* The variables that RubyInv says nothing of.
RestOK ==
    /\ session \in {"connecting", "connected", "expired"} /\ closeAsked \in BOOLEAN
    /\ handle \in {"open", "closing", "freed"}
    /\ inC \in Requests \cup {"close", Nobody} /\ made \subseteq Requests
    /\ collected \subseteq Contexts /\ raised \subseteq Sources

LEMMA RestStep ==
    ASSUME RubyInv, RestOK, [Next]_vars
    PROVE  RestOK'
<1> USE DEF RestOK
<1>1. ASSUME NEW r \in Requests, CallRefused(r) \/ CallMade(r)
      PROVE  RestOK'
  BY <1>1 DEF CallRefused, CallMade, sessionVars, rubyVars
<1>1a. ASSUME CallQueued
      PROVE  RestOK'
  <2>1. passed \in Requests
    BY <1>1a DEF CallQueued, RubyInv, QueuesInv
  <2> QED
    BY <1>1a, <2>1 DEF CallQueued, sessionVars, rubyVars
<1>2. ASSUME Close \/ CloseReturns \/ Reconnect
      PROVE  RestOK'
  BY <1>2 DEF Close, CloseReturns, Reconnect, sessionVars, rubyVars
<1>3. ASSUME Collect
      PROVE  RestOK'
  <2>1. Kept \subseteq Contexts
    <3>1. \A v \in watches : v.context \in Contexts
      BY DEF RubyInv, QueuesInv, Watchers
    <3>2. \A i \in DOMAIN completions : \A v \in completions[i] : v.context \in Contexts
      <4>1. \A i \in DOMAIN completions : completions[i] \subseteq Invocations
        BY DEF RubyInv, QueuesInv, Fitting
      <4> QED
        BY <4>1 DEF Invocations
    <3> QED
      BY <3>1, <3>2 DEF Kept, Contexts
  <2> QED
    BY <1>3, <2>1 DEF Collect, sessionVars, rubyVars
<1>4. ASSUME Answer \/ LoseConnection \/ ConnectFails \/ SessionExpires
      PROVE  RestOK'
  BY <1>4 DEF Answer, LoseConnection, ConnectFails, SessionExpires, FailAll, Wake, sessionVars,
              rubyVars
<1>5. ASSUME NEW e \in Events, WatchEvent(e)
      PROVE  RestOK'
  BY <1>5 DEF WatchEvent, sessionVars, rubyVars
<1>6. ASSUME process_completions
      PROVE  RestOK'
  BY <1>6 DEF process_completions, sessionVars, rubyVars
<1>7. ASSUME NEW t \in threads, Assign(t) \/ Yield(t) \/ Raise(t) \/ SetCompleted(t)
      PROVE  RestOK'
  <2>1. t.source \in Sources
    BY DEF RubyInv, ThreadsInv, Threads
  <2> QED
    BY <1>7, <2>1 DEF Assign, Yield, Raise, SetCompleted, sessionVars, cVars
<1>8. ASSUME UNCHANGED vars
      PROVE  RestOK'
  BY <1>8 DEF vars, sessionVars, cVars, rubyVars
<1> QED
  BY <1>1, <1>1a, <1>2, <1>3, <1>4, <1>5, <1>6, <1>7, <1>8 DEF Next, RubyThread

\* The variables have their types, and a thread is at a statement of its script.
\* (zookeeper.rb, callbacks.rb)
THEOREM TypeCorrect == Spec => []TypeOK
<1>1. Init => RubyInv /\ RestOK
  BY RubyInit DEF Init, RestOK
<1>2. (RubyInv /\ RestOK) /\ [Next]_vars => (RubyInv /\ RestOK)'
  BY RubyNext, RestStep
<1>3. RubyInv /\ RestOK => TypeOK
  <2> SUFFICES ASSUME RubyInv, RestOK PROVE TypeOK
    OBVIOUS
  <2>1. completions \in Seq(SUBSET Invocations)
    <3>1. SUBSET Fitting \subseteq SUBSET Invocations
      BY DEF Fitting
    <3> QED
      BY <3>1 DEF RubyInv, QueuesInv
  <2>2. watches \subseteq [source : {Nobody}, callback : Callbacks, context : Contexts]
    BY DEF RubyInv, QueuesInv, Watchers
  <2> QED
    BY <2>1, <2>2 DEF RubyInv, RestOK, TypeOK, QueuesInv, ThreadsInv, ObjectsInv, Threads
<1> QED
  BY <1>1, <1>2, <1>3, PTL DEF Spec

=============================================================================
