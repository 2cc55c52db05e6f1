# ruby-zookeeper in TLA+

ruby-zookeeper is a Ruby binding of the ZooKeeper C client, which it carries in
`zk/src/c`. Almost all of its logic is in that client: threads, queues,
reconnection, watches, authentication. This directory specifies it in TLA+, checks
the specifications on small instances with TLC, and proves theorems about them
with TLAPS. File and line references are relative to the repository; where no
directory is given, C files are those of `zk/src/c/src`.

## 1. Inventory

| Component | Code | State | Operations | Interacts with |
|---|---|---|---|---|
| Request pipeline | `zookeeper.c`, `mt_adaptor.c` | `to_send`, `sent_requests`, `completions_to_process`, `state`, `fd`, `connect_index`, self-pipe, `sync_completion` | `zoo_a*`, `zoo_*`, `zookeeper_interest`, `zookeeper_process`, `handle_error`, `do_io`, `do_completion` | callers, IO thread and completion thread share the queues; the IO thread talks to the server |
| Handle lifetime | `zookeeper.c`, `mt_adaptor.c` | `ref_counter`, `close_requested`, `threadsToWait`, the threads | `zookeeper_init`, `start_threads`, `api_prolog`/`api_epilog`, `zookeeper_close`, `adaptor_finish`, `destroy` | every thread that uses the handle |
| Watches | `zk_hashtable.c`, `zookeeper.c` | `active_node_watchers`, `active_exist_watchers`, `active_child_watchers`, `last_zxid` | `activateWatcher`, `collectWatchers`, `deliverWatchers`, `send_set_watches`, result checkers | registered by replies, consumed by events, re-sent on connect |
| Authentication | `zookeeper.c` | `auth_h` | `zoo_add_auth`, `send_auth_info`, `send_last_auth_info`, `auth_completion_func`, `free_completions` | front of `to_send`, session state |
| Send queue and framing | `zookeeper.c` | buffers with `curr_offset` | `send_buffer`, `recv_buffer`, `flush_send_queue`, `queue_front_buffer_bytes` | socket |
| Keep-alive | `zookeeper.c` | `last_recv`, `last_send`, `last_ping`, `recv_timeout` | arithmetic of `zookeeper_interest`, `send_ping` | clock, `poll` |
| Request identifiers | `mt_adaptor.c` | `xid` | `get_xid` | reserved xids of `zk_adaptor.h` |
| Paths and chroot | `zookeeper.c` | `chroot` | `isValidPath`, `prepend_string`, `sub_string` | every request, every event |
| Record serialization | `recordio.c`, `generated/zookeeper.jute.c` | archive buffer | `(de)serialize_*` | every frame |
| Single-threaded adaptor | `st_adaptor.c` | none | no-op locks | not linked by the binding |
| Ruby callbacks | `lib/zookeeper/callbacks.rb`, `lib/zookeeper_ffi.rb`, wrappers in `zookeeper.c`, `zk_hashtable.c` | Ruby threads | `rb_thread_create` per callback | completion thread |
| Ruby client | `lib/zookeeper/zookeeper.rb`, `keeper_exception.rb` | handle | calls, `close`, `closed?` | C API |
| Left aside | vendored hash table, `zk_log.c`, `cli.c`, `load_gen.c`, generated FFI declarations, examples, build files | | | |

How they interact. A caller appends to `sent_requests` and `to_send` under
`zh_lock` and writes a byte to the self-pipe. The IO thread alternates
`zookeeper_interest` (connect, time out, ping), `poll` and `zookeeper_process`
(handshake, flush, read, dispatch). A reply completes the *oldest* request. A
synchronous one is completed through its `sync_completion`; everything else goes
through `completions_to_process` to the completion thread, which runs the user's
functions. Errors go through `handle_error`. The handle is shared by reference
counting and destroyed by its last user once `zookeeper_close` was called.

What is hard: interleavings of three kinds of threads over four queues, replies
matched by order alone, errors and session expiry at any point, callers that act
between two steps of an error, callbacks that call the API or close the handle,
wake-ups through a pipe and condition variables, destruction while in use. What
makes each component correct:

- *pipeline*: every accepted request is answered exactly once, asynchronous ones in
  order, with its own answer; callbacks tell one consistent story about the
  session; nobody waits in vain.
- *lifetime*: destroyed exactly once, not before the last use, and always after
  `zookeeper_close`.
- *watches*: every watch fires at most once, not before it is registered, and its
  event is not lost over a reconnection.
- *authentication*: every credential reaches the server on every connection and
  every completion is called once.
- *framing*: what the peer reads is the sequence of frames that was queued.
- *keep-alive*: a server that answers is never given up, a connection that is dead is,
  and the client does not believe in its session much longer than the server.
- *identifiers, paths, records*: the request that the server reads is the one the
  application asked for, below its chroot, and the answer comes back to the caller.
- *Ruby*: `completed?` tells the truth and everyone who waits is called, with a thread per
  callback and a garbage collector about.

The hazards behind this list, each with its line and the properties that cover it,
are under `hazards` in `PROJECT.json`.

## 2. Modules

| Module | Models | Status |
|---|---|---|
| `RequestPipeline` | request pipeline, all threads, network and server | done |
| `RequestLedger` | what the pipeline promises its callers (abstract) | done |
| `MCRequestPipeline` | instance for TLC: application threads and their symmetry | done |
| `RequestPipelineProofs` | theorems about `RequestPipeline` | every safety property, refinement of the ledger |
| `HandleLifetime` | reference counting, start-up, close | done |
| `HandleLifetimeProofs` | theorems about `HandleLifetime` | counting, barrier, destruction |
| `Watches` | watch tables, replies and events, SetWatches, the server's side of it | done |
| `WatchesProofs` | theorems about `Watches` | every safety property |
| `Authentication` | credentials, their packets and completions, the failed state | done |
| `MCAuthentication` | instance for TLC: symmetry of callers and of accepted credentials | done |
| `AuthenticationProofs` | theorems about `Authentication` | every safety property |
| `SendQueue` | the two byte streams: partial sends and receives, frames put in front, close | done |
| `SendQueueProofs` | theorems about `SendQueue` | every safety property |
| `KeepAlive` | the clock: timeouts, pings, poll, a server that may be out of reach | done |
| `KeepAliveProofs` | theorems about `KeepAlive` | every safety property |
| `Records` | archives, vectors, the 46 records, the handshake (operators) | done |
| `Paths` | `isValidPath`, chroot, and their reference definition (operators) | done |
| `ClientApi` | one call end to end: Ruby, `zoo_*`, request, reply, result; uses `Records`, `Paths` | done |
| `ClientApiProofs` | theorems about `ClientApi`, `Records` and `Paths` | every safety property |
| `MCClientApi` | instance for TLC: the calls, chroots, identifiers and answers | done |
| `RubyClient` | the threads of Ruby: callers, callback objects, close, garbage collector | done |
| `RubyClientProofs` | theorems about `RubyClient` | every safety property |
| `MCRubyClient` | instance for TLC: three calls and three callback objects | done |

The modules divide the system by what interacts. `RequestPipeline` has the
interleavings of whole frames; `SendQueue` cuts the frames into bytes, `ClientApi` looks
into one frame, `KeepAlive` replaces its one-bit clock by ages, `HandleLifetime`,
`Watches` and `Authentication` add the state the pipeline leaves out, and `RubyClient`
takes the pipeline's promise (in order, each once, all or none on an error) and puts the
threads of Ruby behind it.

### RequestPipeline

Variables keep the names of the code (`to_send`, `sent_requests`,
`connect_index`, ...); `completions` is `completions_to_process`, `zstate` is
`zh->state`, `sc[c]` is the `rc`/`complete` pair of the `sync_completion` of
caller `c`. `tmp_list` is the local variable of `free_completions`. `c2s`, `s2c`,
`primer`, `sock`, `overdue` are the socket and what the clock says of it.
`issued`, `called`, `executed` are history variables.

A request carries its xid, its kind (`sync`, `async`, `ping`), its caller and `n`,
its place in the order of `sent_requests`; `n` is what the properties follow.

Each action is one critical section or one system call with what follows it:

- callers: `StartCall` (test of `is_unrecoverable`, `get_xid`), `Enqueue`
  (`enter_critical` ... `leave_critical`), `WakeIO`, `SyncReturn`. The completion thread
  is a caller while it is in a callback;
- `zookeeper_interest`: `WrapAddress`, `ConnectStart`, `ConnectNow`,
  `ConnectRefused`, `ReceiveTimeout`, `DecidePing` and `SendPing`, `Interest`;
- `check_events` and `zookeeper_process`: `ProcessNothing`, `HandshakeFails`,
  `PrimeConnection`, `FlushSendQueue`, `ReadError`, `ReadPrimerAccepted`,
  `ReadPrimerExpired`, `ReadWatchEvent`, `ReadSetWatches`, `ReadReply`;
- `handle_error`: `HandleErrorClose`, `CleanupBufs`, one `FreeCompletion` per request
  (the IO thread holds `zh_lock`: `ioInCritical`), `HandleErrorReset`;
- completion thread: `RunCallback`, `CallbackReturns`;
- external: `LinkEstablished`, `LinkFails`, `TimePasses`, `ServerAcceptsSession`,
  `ServerExpiresSession`, `ServerReplies`, `ServerMisreplies`, `ServerNotifies`.

Abstractions. `poll` and the dispatch of its result are one step, because only the
IO thread takes away what makes the socket ready. A flush writes one or more whole
frames; partly written frames belong to the framing module. Time is one bit,
`overdue`: nothing was received for 2/3 of the receive timeout; a link that is too
slow counts as silent. `"ZOK"` stands for any result code of the server. xids count
from 1. All data operations (`zoo_aget`, `zoo_aset`, ...) have the same shape as
`zoo_awget` and are one kind of request. Closing, authentication and the watch
tables are not in this module. A reply that arrives when nothing is outstanding
fails an assertion in the code (`zookeeper.c:2146`); `WireMatchesSent`, which is
proved, says that it cannot arrive.

### RequestLedger

The promise without threads and queues: requests are accepted, asynchronous ones
answered in order, the session changes in a sensible order, a successful answer or
a watch event comes only while the callbacks were last told `CONNECTED`, a failure only
while they were not. `RequestPipeline!LedgerSpec` instantiates it: `open` is what
is on the two request lists, `log` what was or will be handed to callbacks, `told`
is derived from `zh->state` and where `handle_error` is.

### HandleLifetime

`pc[t]` is where thread `t` is; `zookeeper_close` and `adaptor_finish` run in any
thread, `returnTo[t]` is where they return and `nested[t]` says that
`api_epilog` called them. `close_requested = 1` and the test of the counter are
separate steps, as are the counter and each join. The pipeline is abstracted
to the number of outstanding asynchronous requests (`sent`), a synchronous one
(`waiting`), and the completion queue. `IOWork`, `IOSession` and `IOMisreply` are
one pass of `zookeeper_interest` or `zookeeper_process`. A thread that would use
freed memory is stuck (`At`), since what it does is undefined. After `zookeeper_close`
no new API call starts: the header declares it undefined (`zookeeper.h:322`). A call
that was started goes on, though: it holds no reference and uses the handle in four steps
(`StartCall`, `Enqueue`, `SendQueue`, `WriteOut`: the test, the critical section, the look
at `close_requested`, the pipe or the socket), for an asynchronous or a synchronous call of
the application and an asynchronous one of a callback. `FreedByLastUser` says what the
counter does guarantee when a callback closes: the threads of the client and the closer
are done before the handle is freed. `NoUseAfterFree` adds the call in progress, and fails.
It fails for a close by the application as well (`ClosedByApp`), since `zookeeper_close`
sets `close_requested` before it holds a reference.

### Watches

`active[t][p]` is the set of watchers of path `p` in one of the three tables; the
code's duplicate entries (one function and context registered twice) are one element, as
in `create_watcher_object_list` and `search_watcher`. A reply registers (`ReadReply`: the
result checker chooses the table), an event collects (`ReadWatchEvent`: `TablesFor` and
`add_for_event`), and `Connected` puts SetWatches in front of the queue, with `last_zxid`
and the keys of the tables. The list of watchers to call travels through `completions` to
`deliverWatchers`. Session events collect every watcher and leave it where it is.

The server is external: `log` is the history of the tree, `server` the state of the
server of this connection, which has applied a prefix of the log, at least what
`last_zxid` covers. On SetWatches it sends what was missed and renews the rest, as the
request's `relativeZxid` is meant for. One thing the protocol cannot tell is excused in
the properties (`Concerns`): a node that is watched for existence and is created and
deleted again while the client is disconnected.

`to_server` joins `to_send` and the wire; every request leaves a watch; the default
watcher of a handle, which is in no table, is left out.

### Authentication

A credential is one call of `zoo_add_auth`, `auth_h` the list in order and `pending`
those elements that still have a completion; `callbacks` is `a_list`, a set because it
is called in the order of `auth_h`. `zoo_add_auth` is three steps of the
caller, because the lock is given up between the list and the packet and the state is
read without it: `add_last_auth`, `TestState`, `send_last_auth_info`. The IO thread sends
the list on a connection (`send_auth_info`), takes and calls completions on any reply
(`auth_completion_func`, `CallCompletion`, `CompletionsCalled`) and on an error
(`HandleErrorClose`, `CleanupBufs`, `CallCompletion`, `HandleErrorReset`). `inCritical`
says that it holds `zh_lock`. A request records in `after` the credentials whose
`zoo_add_auth` had returned when it was made. `skipped` holds the
credentials that the code left out on this connection: the last of the list, by
`send_auth_info`, and, as `overtaken`, one that another thread's call put itself behind
before it was sent, by `send_last_auth_info`. `RequestsCarryCredentials` excuses both, and
says of all others that they are there. `OneIsMissing` excuses the second kind only: of the
first, at most one credential is missing. Any reason of an error other than a rejected
credential is `ZCONNECTIONLOSS`.

### SendQueue

A byte is its frame and its place in it, so a stream that went wrong can be seen to be
wrong. `to_send` holds buffers with `curr_offset`; `SendBuffer` is one turn of the loop
of `flush_send_queue` with the two sends of `send_buffer` (`RestOfHeader`,
`RestOfPayload`), each of which takes any part. `sendLock` is the lock of the queue, which
the flush holds from `BeginFlush` to `EndFlush`; `Close` flushes with a timeout, which
tries again after an incomplete send. `ReceiveLength` and `ReceivePayload` are
`recv_buffer`; the connect response is read into a buffer whose offset starts behind a
length nobody sent (`PrimerBuffer`). `accepted`, `answers` and `dispatched` are history
variables; `accepted` holds requests with the numbers of their making, so
`RequestsKeepOrder` says of every request where it is, and that numbers increase along the
wire and then along the queue. `cut` says that on this connection a frame was put in front of a partly
written one, which `zoo_add_auth` may do (`zookeeper.c:1112`) and SetWatches may not,
because nothing is flushed before the handshake has ended.

### KeepAlive

Time is in ticks and kept as ages (`idle_recv` is `now - last_recv`), capped at
`LongAgo`, twice the longest timeout, beyond which no comparison tells them apart. One
round of `do_io` is a step of `zookeeper_interest` (`WaitABit`, `Connect`,
`ConnectRefused`, `ReceiveTimeout`, `Interest`), a poll that lasts `tv` ticks unless it is
woken, and a step of `zookeeper_process` (`ConnectFinished`, `Process`, `SessionExpired`,
`SocketError`). The link may lose what is written or refuse to take it, silently. The
connect response may grant any of the timeouts, which changes all limits under way. Two
assumptions are bounds: a server that is reached answers within `MaxDelay`, and a round
loses at most `MaxLag` ticks outside its poll. `heard` is the age of what the server
heard last, and the server ends the session when that reaches the timeout it granted.

### Records and Paths

Operators only. `Records` writes and reads a record by its schema, the list of its
fields; a byte names the number it is part of, so that a field read at a wrong place is
`GARBAGE`. `Put` follows the growth of the buffer and whether all was written inside it
(`fits`). `Paths` has the loop of `isValidPath` test by test and, for comparison, what a
path is (`IsAbsolutePath`, from its names between slashes) and where it lies
(`Below`).

### ClientApi

One call at a time, from the Ruby method to what it returns, raises or passes to its
callback: `CallWithWrongCallback`, `CallRefused`, `CallSent`, `ServerAnswers`,
`ReadReply`, `WatchFires`. The frame and the reply are the bytes of `Records`, and the
server, which is external, reads the request with the same records. `OpenHandle` parses
the chroot and sets the counter of `get_xid` to any value it may have reached after a
long life. `ExchangeRecord` passes any record through an archive, whole or cut short.

What is asked for (`IsAsked`) and what should come back (`IsRight`) are written from the
arguments and the answer alone. Where the code falls short of it there is a named
predicate that says exactly when; section 5 lists them.

### RubyClient

A synchronous method keeps the interpreter (`inC`) until the C client answers or fails
it, because the FFI call does not let go of it. A call passes the test of
`is_unrecoverable` (`CallMade`) before it is queued (`CallQueued`), and between the two the
session may expire (`SessionExpires`): what is queued then stays queued for ever, as in
`RequestPipeline`. The block of an asynchronous one runs in a
thread of its own, made by the wrappers (`process_completions`), and its object sets its
attributes one statement at a time (`Script`). `given`, `ran` and `raised` are history
variables. `Kept` are the context strings whose address C holds; nothing in Ruby keeps
them, so `Collect` may take them. The runtime is assumed to let a C thread call
`rb_thread_create`.

## 3. Runs

| Run | Shows | Bounds |
|---|---|---|
| `pipeline_safety` | type, order, accounting, wake-ups, the wire, agreement with the session, refinement of the ledger | 2 application threads (symmetric), 2 requests, 1 fault, 1 server |
| `pipeline_liveness` | requests are answered, callers return, the client reconnects | 1 thread, 1 request, 1 fault, 1 ping or event, fairness |
| `pipeline_expiry` | finding: a call racing the expiry never ends | 1 request, 1 fault, fairness |
| `lifetime` | counting, barrier, joins; freed in the end and by the last user, callers woken | close by the application or a callback, 2 calls, 3 session changes, 1 misreply, fairness |
| `lifetime_race` | finding: a callback's close frees the handle under a call | 1 call, 1 session change |
| `watches` | once per registration, only later changes, no watch dropped, a change is told over a reconnection | 1 path, 1 watcher, 2 requests, 3 changes, 1 fault, fairness |
| `auth` | completions once and in the end, credentials before the requests that count on them, a failure is final and told | 2 threads, 2 credentials (1 bad), 1 request, 2 faults, fairness |
| `auth_deadlock` | finding: a completion that calls the API under `zh_lock` | 2 credentials, 1 fault; symmetric |
| `framing` | both byte streams are framed, requests keep their order | payloads of 1 and 2 bytes, 3 frames out, 1 in, 1 lost connection |
| `keepalive` | a dead connection is left, in time; a prompt server is kept | timeouts 18 and 21, delay 1, lag 1, 2 requests, 1 server, fairness |
| `api` | the request is what was asked, the result what was answered, records survive an archive | see below |
| `ruby` | `completed?` is not too early, whoever is queued on a live session is called | 3 calls (`get_children` and `set_acl` with callbacks, synchronous `exists` with a watcher), 1 event, fairness |

`MaxRequests`, `MaxFaults`, `MaxChanges` and `MaxChatter` bound the environment, never the client.
Two requests are what order, overtaking and mixing up need; a
fault puts an error at every point of the exchange. A fault is a refused or reset
connection, a link going silent, an expired session or a wrong xid. What a second fault
could add to the safety properties is covered by the theorems of section 6, which have
no bounds. Runs do not check for deadlock because the client
really stops: the IO thread ends when the session expires or the handle is closed, and a
call of `ClientApi` is over.
Three changes create, change and delete a node, or delete and create it again, around
a lost connection. Two calls and three session changes put a call, a callback of an
earlier one and a close at any point of a connection that comes up, breaks and expires;
`lifetime_race` needs one of each. Two credentials make a first and a last of the list,
which `send_auth_info` treats differently, and with two faults what is added during the
recovery meets another error. `OneIsMissing` needs two credentials that are accepted besides,
which is beyond the size of a run with liveness: it is proved (section 6). Paths do not
interact in the tables, so one is enough.

`framing`: a payload of two bytes can be cut, one of one byte cannot; with the four bytes
of the length every offset occurs. Three frames are one in front, one that is partly
written and one behind. `keepalive`: 18 and 21 ticks make thirds of 6 and 7, so that
granting the other timeout moves every limit; the properties hold for these with a delay
and a lag of one tick, and `MarginAssumption` says for which others (section 6). `api`: every path of up to three of the characters slash, dot, a letter and a
control character, and some longer ones, for create (sequential) and delete; four paths,
among them the root and one without a slash, for every operation in the synchronous, the
asynchronous and the wrongly called form, with data that is missing, empty, ASCII and
multi-byte; four chroots, two of which are none and a refused one; the identifiers around
the reserved ones and at the width; a counter of 5 bits, a buffer of 8 bytes that has to
grow, room for 4 bytes of data instead of 1024, 2 digits instead of 10: these shrink
sizes, not cases. Four variants of each of the 46 records, cut at every byte. `ruby`: three
calls with an object each, of three classes, and one event, so that no object is called
twice; an object that is may show half of each call, which `CompletedTellsTheReply` excuses.

## 4. Fairness

Weak fairness per thread: each caller that has started a call, the completion
thread (user callbacks return), the IO thread (`poll` has a timeout of at most a third of
`recv_timeout`). Of the network: a connection attempt ends or is reported
overdue, time passes on a silent link, and a live server answers. Not assumed: that an
application calls, that faults happen, that pings are sent, that the handle is closed.
`Watches` and `Authentication` assume the same of the two threads of the client, the
callers inside `zoo_add_auth` and a live server, which applies its log and answers;
nobody has to change the tree, add a credential or lose the connection.

`KeepAlive` has weak fairness of the IO thread and strong fairness of the clock: a round
takes no time of itself, and while the thread spins (below) time would otherwise only be
enabled again and again. `HandleLifetime` has that of the three threads; a call in progress
goes on, but nobody has to call or to close. `RubyClient` has weak fairness of the C client,
which answers or fails what is outstanding as long as the session has not expired
(`RequestPipeline!RequestsAnswered`), of a call that was started, of the completion
thread, of `zookeeper_close`, and of the scheduler of Ruby while no caller keeps the
interpreter. Of an expired session nothing is assumed, as `pipeline_expiry` shows that
nothing can be. `SendQueue` and `ClientApi` state safety only.

## 5. Findings

Shown by a violation run each:

- `pipeline_expiry`: `is_unrecoverable` is tested outside the critical section
  (`zookeeper.c:2536`); a request may be queued after the IO thread has left;
- `auth_deadlock`: authentication completions are called under `zh_lock`
  (`zookeeper.c:1000`);
- `lifetime_race`: a `zoo_a*` function uses the handle in several steps and holds no
  reference (`zookeeper.c:2556`): a close in a callback frees it in between, although
  `ref_counter` is to put that off (`zk_adaptor.h:197-199`).

Part of the models, and visible in them, without a run of their own. In the C client:

- `send_auth_info` leaves out the last credential of the list (`zookeeper.c:1130`) although
  its comment says "send all auths, not just the last one" (`zookeeper.c:1120`): `skipped`,
  excused in `RequestsCarryCredentials`;
- two calls of `zoo_add_auth` at a time may both send the later credential
  (`zookeeper.c:3040`): `overtaken`, excused there too;
- `close_requested` is set (`zookeeper.c:2438`) before `adaptor_finish` takes a reference
  (`mt_adaptor.c:201`): closed by the application, both threads may leave and free the
  handle in between, which the comment at `mt_adaptor.c:200` means to prevent
  (`ClosedByApp`, excused in `FreedByLastUser`);
- no `api_epilog` on the out-of-order path (`zookeeper.c:2157`): the reference is never
  given back and the handle never destroyed (`leaked`, excused in `ClosedHandleIsFreed`);
- asynchronous completions outstanding at close are queued for a thread that is gone
  (`zookeeper.c:362`, `Destroy`);
- `zookeeper_close` returns `ZOK` whatever became of the close request
  (`zookeeper.c:2441`, `Report`);
- `zoo_add_auth` may put its packet in front of a partly written frame
  (`zookeeper.c:1112`): `cut`, excused in `WireIsFramed`;
- while an answer is awaited and nothing was sent for a third of the timeout, no ping is
  sent and the poll timeout is 0 (`zookeeper.c:1395`): the IO thread spins until the
  answer or the receive timeout (`Interest` in `KeepAlive`);
- `get_xid` may return a reserved value (`mt_adaptor.c:367`): the reply is taken for an
  event, and with -4 for that of a credential, of which there may be none to dereference;
  the call is never answered (`HasReservedXid`);
- one character is compared where the chroot is meant (`zookeeper.c:728`), a path of one
  character is taken for the root and a relative one is glued to the chroot
  (`zookeeper.c:707`): `LeavesChroot`;
- the path that create and sync give back is the one of the server, chroot included
  (`PathIsOfServer`), whereas that of an event is not;
- `deserialize_*_vector` end with `rc = in->end_vector(...)`, which is 0: the error of an
  element is forgotten (`EndVector`); `ia_deserialize_string` takes no length of -1
  (`Lost`), although `oa_serialize_string` writes it;
- watches are renewed on the next connection (`zookeeper.c:1487`), which
  `zookeeper.h:41` says they are not (`ServerSetsWatches`);
- an authentication completion is called with the result of any credential
  (`zookeeper.c:1092`), and with `ZCONNECTIONLOSS`, although its credential is kept
  (`zookeeper.c:1000`); `zookeeper.h:892` lists neither.

In the binding:

- a synchronous call that is queued after the session has expired, as `pipeline_expiry`
  shows in C, keeps the interpreter: no thread of Ruby runs any more (`zookeeper.rb:219`;
  `Stranded`, excused in `CallersHearBack`);
- `close` does nothing unless the session is connected (`zookeeper.rb:24`);
- the context string is kept by nobody between the call and its callback
  (`zookeeper.rb:122`, `Collect`);
- `set_acl` demands an `ACLCallback` and completes it with a void completion
  (`zookeeper.rb:321`), so that the context is found in `acl` (`IsSetAcl`);
- a synchronous get returns the first 1024 bytes, and raises an IndexError for a znode
  without data (`DataIsCut`); the value of a callback ends at the first NUL
  (`DataHasNul`); data is cut to as many bytes as it has characters (`IsMultiByte`);
- `:sequence` that is truthy but not `true` leaves no room for the digits
  (`NoRoomForDigits`); every element of an ACL vector is read from the first
  (`OnlyFirstAcl`); some return codes have no exception of their own (`HasNoClass`);
- an asynchronous call that is refused returns the code and calls nothing
  (`RefusedWith`);
- a callback object that is called twice may show half of each call, since its threads
  take turns;
- requests outstanding at close are never called back (`CloseReturns`), and `closed?`
  afterwards reads the freed handle, which the specs do too;
- synchronous `get_children` reads the vector before it tests the return code; it is
  modelled as raising the error, which the spec expects
  (`spec/zookeeper_spec.rb:359`).

Not modelled, beside the components set aside in section 1: exhausted memory and other
failures of the C library (the error paths after `malloc` mostly have none), freeing of
watch tables, credentials and records, logging (the wrapper for string lists logs through
a null pointer on an error when debugging is on), the null context of the default watcher,
frames of length 0, methods of the binding that only raise (`not_yet_implemented`, which
calls itself).

## 6. Theorems

TLC checked every inductive invariant of this section on a small instance before it was
proved; the numbers of states are those of these checks, which are not runs.

`RequestPipelineProofs` proves, for any set of application threads and any
bounds, from the assumptions on the constants only:

- `TypeCorrect`: `Spec => [](TypeOK /\ AddressInRange)`;
- `CallbackOrder`, `NoRequestLost`: `CallbacksInOrder` and `RequestsAccountedFor`;
- `NoSleepOnRequests`: `NoLostWakeup`;
- `CallbacksTellOneStory`: `CallbacksAgreeWithSession`;
- `SyncCallersServed`: `SyncCallersWait`;
- `RepliesMatchRequests`: `WireMatchesSent`;
- `SuccessIsReal`: `SuccessWasExecuted`;
- `ThreadsImplementLedger`: `Spec => LedgerSpec`.

*Lists.* Lemma `ListsEffect` reduces the 36 actions to four effects on the request
lists, the log and the callers: nothing, accept, answer the oldest, tell of the session
(`ListsStep`). Order and accounting follow from an invariant of these four: the numbers on
`outstanding` increase and are those of `issued` (`WindowInv`), every answer in `log` is of
an asynchronous request older than what is outstanding or of none that is (`RepliesInv`,
`OrderInv`, `RepliedInv`), and `tmp_list` is empty unless the IO thread is in
`free_completions` (`TmpListInv`).

*Session.* `SessionInv` says in which states of the session and of the socket the IO thread
is at each of its places. `AgreeInv` adds that the last callback about the session says
what `told` derives from these, so answers and watch events find it connected and
failures do not. With it every step maps to a step of `RequestLedger` or leaves its
variables alone.

*Callers.* `SyncInv`: a caller that waits has its one request outstanding or its
`sync_completion` complete. A caller in a callback is the completion thread, which is why
the invariant is about both kinds.

*Wire.* `FramesInv` says that frames carry the xid of the request they were made of, and
`WireInv` that outside of `handle_error` what is on the way to the server, at the server
and on the way back has exactly the numbers of the outstanding requests, in this order.
Flushing, answering and misreplying leave these numbers alone, a new request comes last in
both, and `handle_error` empties both. From it, the reply that is read has the xid of the
oldest request unless the server swapped it, and a success is that of a request that was
carried out.

Checked on 1156167 states (two threads, two requests, one fault) and, with pings and
watch events, on 198804 (one request).

`HandleLifetimeProofs` proves, for any bounds on calls, session changes and wrong
replies:

- `HandleTypeCorrect`: `Spec => []TypeOK`;
- `ReferencesExact`: `Spec => []RefCounterAgrees`;
- `InitHandsOverHeldHandle`: `Spec => []InitReturnsHeldHandle`;
- `ThreadsLetGoFirst`: `Spec => []DestroyedAfterThreads`;
- `CallbackCloseIsLast`: `Spec => []FreedByLastUser`.

The inductive invariant `HandleInv` has a part per idea, each with its own
preservation lemma: threads stay within their own code (`PlacesOK`), are unborn until
they are created (`UnbornInv`), the counter is exact (`RefCounterAgrees`), the barrier
counts who has not arrived and is open once somebody has passed (`BarrierInv`),
`zookeeper_close` runs only after the user's call (`CloseInv`), and a thread that finds the
counter at zero finds both threads gone (`DestroyInv`). Exactness alone does not
give `DestroyInv`: that the threads hold references at all while they run needs the
barrier. Unless the application closes, `OrphanInv` adds that the thread that destroys the
handle is the only one that will touch it but for a call of the application: it holds no
reference, the counter is zero, and the other threads of the client are at rest. Closed by
the application this is false: the closer enters `zookeeper_close` without a
reference while the threads still run. That the call in progress cannot be included is what
`lifetime_race` shows. Checked on 131916 states.

`WatchesProofs` proves, for any finite set of paths, any watchers and any bounds:

- `TypeCorrect`: `Spec => []TypeOK`;
- `NeverLost`: `Spec => []NoWatchLost`;
- `OnlyNews`: `Spec => []EventsAreNews`;
- `FiresOnce`: `Spec => []WatchesFireOnce`.

`BaseInv` has what is true of the connection: changes in the log are legal (`LogInv`),
SetWatches is the first frame of a connection and the server says nothing before it
(`LinkInv`), and what is on the way to the client has numbers that do not decrease, from
`last_zxid` to what the server has applied (`Zxids`). `WatchInv` is about one watch in a table:
its registration is not older than what the client has seen (`Fresh`), and it is set at
the server, to be renewed by SetWatches, or the event it is due is on the way (`Told`).
`Answers` matches each reply on the way with the request it is for. `FiresOnce` counts
instead: calls, calls in a list and watches held, of one watcher, are never more than its
registrations (`FireInv`); registering adds one to both sides at most, an event moves a
watch from its table to a list, and what collects a watch from several tables calls it
once. The counts are of finite sets, hence the assumption on `Paths`. Checked on 988758
(invariant) and 2762596 states.

`AuthenticationProofs` proves, for any threads, credentials and bounds:

- `CompletionOnce`: `Spec => []CompletionsCalledOnce`;
- `FailureFinal`: `Spec => AuthFailureIsFinal`;
- `TypeCorrect`: `Spec => []TypeOK`;
- `CredentialsFirst`: `Spec => []RequestsCarryCredentials`;
- `AtMostOneMissing`: `Spec => []OneIsMissing`.

The first needs to know that a credential is put on the list once: `CallersInv` says that
those that threads have in hand differ and are not on the list, `ListInv` that
completions are of credentials on it, `CalledInv` that nobody else was called. The
second is a property of every step, whatever the state. The fourth rests on `CarryInv`: in the
queue, credentials are in front of all requests, and no request counts on a credential
whose call is still under way (`QueueInv`); on a connection that serves, every credential
whose call is over was sent or waits, unless the code left it out (`SentInv`); and every
request on its way finds those it counts on at the server or ahead of it (`CoverInv`).
What it says is limited by what the code leaves out, which the theorem after it counts:
the IO thread leaves out the last of the list and no more (`LeftOutInv`), so whatever else
is missing was overtaken.
Checked on 255356 (two credentials) and, for `OneIsMissing`, 835916 states (two threads, three
credentials).

`KeepAliveProofs` proves, for any timeouts, delay, lag and number of requests within the
margins:

- `TypeCorrect`: `Spec => []TypeOK`;
- `PromptServer`: `Spec => []PromptServerIsKept`;
- `LeftInTime`: `Spec => []ConnectedWithinSession`.

The margins are the two conjuncts of `MarginAssumption`: a third of the timeout, the
delay and four lags are less than two thirds, and the delay and a lag for every request
and one more are at most a third. Both are exact: with one tick less TLC finds a server that
is prompt and given up (timeout 15, delay 1, lag 1, two requests) or a client that
outlives its session by more than three lags (15, 0, 1, and five requests; with four it
does not). The defaults of ZooKeeper, seconds against milliseconds, are far within. The argument: a
client that has nothing to wait for is quiet for a third at most before it sends, what it
sends is answered within the delay, and it reads one answer in every round (`ReceiveInv`).
For the session, what counts is not when the client last received but when the server
last heard of it: answers that wait are read one in a round and each resets
`last_recv`, so `HeardInv` bounds the age of what the server heard *plus* the rounds that
reading the rest will take. `WaitInv` says what waits where, so that an answer is due
whenever the client believes it is. Checked on 331621 and 1123439 states.

`SendQueueProofs` proves, for frames of any length, sent and received in any pieces, and
any bounds:

- `TypeCorrect`: `Spec => []TypeOK`;
- `FramesStayWhole`: `Spec => []WireIsFramed`;
- `OrderIsKept`: `Spec => []RequestsKeepOrder`;
- `InputStaysWhole`: `Spec => []InputIsFramed`.

Lemma `FramesEffect` reduces the steps to six effects on the frames that go out: nothing,
one behind, one or two in front, more bytes of the head, cleared, freed. `WireIsFramed`
alone is not inductive: `EndInv` relates the end of `wire` to the head of `to_send`, which
is the byte at its `curr_offset` or, if nothing of it is out, the last byte of some frame,
and only the head is partly written. It rests on `SilentInv` (nothing is written before
the handshake has ended, which is why SetWatches may go in front). The order needs that a
frame is queued once (`NumbersInv`) and that of a frame that waits no byte is out beyond
its offset (`WrittenInv`), so it cannot be sent and wait at once.
For the other direction, `RestInv` says that the bytes in `input_buffer` and those still in
the socket are exactly the frames behind those that were read: each frame has a place
where it starts, and what follows the place of the next one is all there is (`Starts`,
`Follows`). A read moves bytes from one part to the other, a completed buffer takes
exactly one frame off (`NextFrame`), since `BufferInv` knows the length to be the one in
the four bytes, or for the connect response the one `prime_connection` put there. Checked on
5375224 states.

`RubyClientProofs` proves, for any calls, callback objects and events:

- `TypeCorrect`: `Spec => []TypeOK`;
- `CompletedIsTrue`: `Spec => []CompletedTellsTheReply`.

`ToldInv` is the heart of it: an object that was given to one call has the attributes that
its thread has passed, and keeps them, since whoever else assigns to it is a thread of the
same call. `ThreadsInv` says that a thread is of a call its object was given and that this
is known once its block is over, `QueuesInv` that what is queued for a callback brings the
context of its call, unless that was collected. Assumed of the constants: a watcher is a
`WatcherCallback` (the application's duty, no method tests it), and classes and objects
have their types. Checked on 238771 states.

`ClientApiProofs` proves, for any calls, chroots, identifiers, stored values and first
length of a buffer that the assumptions of `Records` and `ClientApi` allow:

- `RecordsAreRead`: `Spec => []RecordsSurvive`;
- `CallsReachServer`: `Spec => []CallReachesServer`;
- `AnswersReachCaller`: `Spec => []AnswerReachesCaller`;
- `ValidPathsAreAbsolute`: `isValidPath` accepts just the paths that `IsAbsolutePath`
  describes, of any length.

The assumptions say what the FFI, the server and the language guarantee:
`NullAssumption` (a null pointer is no string), `CallsAssumption` and `HandlesAssumption`
(the types of the arguments, no `'\0'` in a path or a chroot, no more characters than
bytes), `StoredAssumption` (the types of what the server has, and that no error is 0),
`BoundsAssumption` and `InitialLengthAssumption`.

Records. `Serialize` and `Deserialize` go through a schema field by field, as recursive
functions; the argument follows the two together. Everything written is a prefix of what
is written later (`Begins`), and a reader whose input has the bytes of a field at the
place where it looks (`Agree`) gets its value and the place of the next one, or runs out
of input (`NumberSurvives`, `StringSurvives`, `FieldSurvives`). The same of an element, a
vector, a member and a record (`RecordSurvives`) is the statement with one more field. A
record cut short is reported by every kind of field but a vector, whose error
`EndVector` forgets: `Overlooked` is what may be wrong then. That the 46 schemas have
distinct fields of these kinds is a lemma for each. `ResizeIsEnough` shows that doubling
ends above what was asked for, whatever the first length.

Paths. A place that the loop refuses is the end of a bad name, and a bad name is refused
at its end or at the first character that is not printable (`ValidIsAbsolute`,
`AbsoluteIsValid`). Behind a chroot the loop decides as it does without one, since the
chroot is valid itself and does not end in a slash (`ValidBelow`); `sub_string` gives back
what `prepend_string` was given (`ChrootComesOff`).

Calls. `CallInv` says that a call under way was not refused and that `frame` and `entry` are
those of its operation, and that a call refused as wrong has a path that `isValidPath` refuses.
One lemma per operation (`CreateWrites` to `SyncWrites`) shows that what it writes fits its schema
and is what the call asked for; `RequestIsRead` puts header and body together.
`AnswerInv` adds that the reply is that of `served` to this request (`ReplyInv`). The value
of an answer is read by the schema that the completion stands for, although the two are
chosen by different code (`IsReadAs`: `exists` is read as the answer of `set`, `sync` as that of
`create`), and passes through room, copies and wrappers unchanged unless one of the named
reasons holds (`SyncIsTold`, `AsyncIsTold`); an error is told by its class because no two
codes share one but those that have none (`CodesDiffer`). Checked on 88661 states.

The provers cannot instantiate induction over an operator, so `LeastNumber`, in the modules
that need it, states it of sets: a set of naturals that is not empty has a least element,
since `<` is well-founded. What a recursive function computes is shown with it: the least
place where it would go wrong leads to a contradiction.

Every invariant and every safety property of the passing runs is proved. Model-checked only:
the liveness properties `RequestsAnswered`, `SyncCallsReturn`, `Reconnects`,
`CloseReturns`, `SyncCallReturnsOnClose`, `ClosedHandleIsFreed`, `ChangesAreTold`,
`AuthFailureIsReported`, `CompletionsAreCalled`, `DeadLinkIsLeft` and `CallersHearBack`,
since TLAPS treats neither fairness nor `ENABLED`.

## 7. Plan

All components of the core are modelled, and what the passing runs show of their safety is
proved. Open are the hazards without a property, each with the reason in `PROJECT.json`:
for most of them a property excuses exactly what they are about, by a named predicate
(section 5 has them all), and the others, such as the spinning IO thread, do nothing that a
property forbids. Open are also the parts of the components that are listed as partly modelled.

Not planned: the single-threaded adaptor, which the binding does not link, and the
vendored, generated and sample code of section 1.
