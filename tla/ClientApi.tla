------------------------------ MODULE ClientApi ------------------------------
(***************************************************************************)
(* One call of the client from end to end: the method of zookeeper.rb, the *)
(* zoo_* function that writes the request, the reply that zookeeper_process *)
(* reads, the completion or the buffers of the synchronous caller, and what *)
(* Ruby makes of them.  When calls overlap, and when they fail on the way, *)
(* is the matter of RequestPipeline; here it is their contents.  A handle   *)
(* may also just pass a record through an archive, whole or cut short.      *)
(***************************************************************************)
EXTENDS Records, Paths, FiniteSets

CONSTANTS
    Calls,          \* calls of the application: see Asked
    Chroots,        \* what follows the host in the connect string
    Xids,           \* values the counter of request identifiers may have reached
    XidBits,        \* its width, 32 in the code
    Now,            \* time(0)
    Stored,         \* external: what the server may have to give back, by kind of reply
    GetRoom,        \* bytes zookeeper.rb has for the data of a znode; 1024 in the code
    SeqDigits,      \* digits the server appends to a sequential znode; 10 in the code
    Variants        \* bound: variants of each record

\* A name, a scheme, data: a null pointer is none of them.
ASSUME NullAssumption == NULL \notin Seq(Int) /\ NoPath \notin Seq(Int) /\ GARBAGE \notin Int

\* An ACL as the application gives it and as the server stores it.
Acls == [perms : Int, scheme : Seq(Int), id : Seq(Int)]

\* What zookeeper.rb lets through: a path has no '\0' (the FFI refuses it), a string has as many
\* bytes as characters at least, and there is no synchronous method for sync.
Asked ==
    [op : {"create", "delete", "exists", "get", "set", "get_acl", "set_acl", "get_children",
           "sync"},
     path : Seq(Int \ {0}), mode : {"sync", "async", "wrong"}, watch : {0, 1}, version : Int,
     data : {NULL} \cup [bytes : Seq(Int), chars : Nat],
     acl : Seq(Acls), ephemeral : BOOLEAN, sequence : {"no", "true", "truthy"}]

ASSUME CallsAssumption ==
    /\ Calls \subseteq Asked
    /\ \A c \in Calls : /\ c.data # NULL => c.data.chars <= Len(c.data.bytes)
                        /\ c.op = "sync" => c.mode # "sync"

ASSUME HandlesAssumption ==
    Chroots \subseteq Seq(Int \ {0}) /\ Xids \subseteq Int /\ Now \in Int

\* The server does not fail with the code of success.
ASSUME StoredAssumption ==
    /\ Stored.data \subseteq {NULL} \cup Seq(Int)
    /\ Stored.children \subseteq Seq([data : Seq(Int)])
    /\ Stored.acl \subseteq Seq(Acls)
    /\ Stored.errors \subseteq Int \ {0}

ASSUME BoundsAssumption == {XidBits, GetRoom, SeqDigits, Variants} \subseteq Nat

VARIABLES
    stage,          \* "start", "idle", "sent", "answered", "done", "notified" or
                    \* "exchanged"
    chroot,         \* zh->chroot
    unrecoverable,  \* is_unrecoverable(zh)
    xid,            \* the counter of get_xid
    call,           \* the call under way
    frame,          \* the bytes of its request
    entry,          \* its place in sent_requests: [xid, completion]
    served,         \* external: [err, zxid, value] of the answer
    reply,          \* the bytes of the reply
    outcome,        \* what the application gets: [how, rc, value]
    exchange        \* a record that went through an archive

vars == <<stage, chroot, unrecoverable, xid, call, frame, entry, served, reply, outcome,
          exchange>>

Nothing == [how |-> "nothing", rc |-> 0, value |-> NULL]
Outcome(how, rc, value) == [how |-> how, rc |-> rc, value |-> value]

Init ==
    /\ stage = "start" /\ chroot = NoPath /\ unrecoverable = FALSE /\ xid = Now
    /\ call = NULL /\ frame = <<>> /\ entry = NULL
    /\ served = NULL /\ reply = <<>> /\ outcome = Nothing /\ exchange = NULL

\* zookeeper_init, which refuses a bad chroot, and then any life of the handle and of
\* the process until a call is made.
OpenHandle(suffix) ==
    /\ stage = "start" /\ InitAccepts(suffix)
    /\ chroot' = ParsedChroot(suffix)
    /\ unrecoverable' \in BOOLEAN /\ xid' \in Xids
    /\ stage' = "idle"
    /\ UNCHANGED <<call, frame, entry, served, reply, outcome, exchange>>

-----------------------------------------------------------------------------
(* Return codes, zookeeper.h.                                              *)

ZOK == 0
ZBADARGUMENTS == -8
ZINVALIDSTATE == -9
ZNONODE == -101
ReturnCodes == (-9 .. -1) \cup (-103 .. -100) \cup {-108} \cup (-118 .. -110)

\* KeeperException.by_code: the codes from INVALIDSTATE on that it has no class for.
by_code(rc) ==
    CASE rc = 0    -> "Ok"                      [] rc = -1   -> "SystemError"
      [] rc = -2   -> "RunTimeInconsistency"    [] rc = -3   -> "DataInconsistency"
      [] rc = -4   -> "ConnectionLoss"          [] rc = -5   -> "MarshallingError"
      [] rc = -6   -> "Unimplemented"           [] rc = -7   -> "OperationTimeOut"
      [] rc = -8   -> "BadArguments"            [] rc = -100 -> "ApiError"
      [] rc = -101 -> "NoNode"                  [] rc = -102 -> "NoAuth"
      [] rc = -103 -> "BadVersion"              [] rc = -108 -> "NoChildrenForEphemerals"
      [] rc = -110 -> "NodeExists"              [] rc = -111 -> "NotEmpty"
      [] rc = -112 -> "SessionExpired"          [] rc = -113 -> "InvalidCallback"
      [] rc = -114 -> "InvalidACL"              [] rc = -115 -> "AuthFailed"
      [] OTHER     -> "Exception"

Raised(rc) == Outcome("raised", rc, by_code(rc))

-----------------------------------------------------------------------------
(* get_xid: the counter is set to the time when it is -1, and moved on in  *)
(* one step; between the test and the step another thread may have brought *)
(* it to -1.                                                               *)

WATCHER_EVENT_XID == -1
PING_XID == -2
AUTH_XID == -4
SET_WATCHES_XID == -8
ReservedXids == {WATCHER_EVENT_XID, PING_XID, AUTH_XID, SET_WATCHES_XID}

Wrapped(n) ==
    ((n + 2 ^ (XidBits - 1)) % 2 ^ XidBits) - 2 ^ (XidBits - 1)

\* What get_xid may return.
get_xid == IF xid = -1 THEN {Now, -1} ELSE {xid}

-----------------------------------------------------------------------------
(* The requests: zoo_aget and its like.                                    *)

\* Operation codes, proto.h.
OpCode ==
    [create |-> 1, delete |-> 2, exists |-> 3, get |-> 4, set |-> 5, get_acl |-> 6,
     set_acl |-> 7, get_children |-> 8, sync |-> 9]

Operation(type, schema, body, completion) ==
    [type |-> type, schema |-> schema, body |-> body, completion |-> completion]

zoo_awget(c, path) ==
    Operation(OpCode.get, GetDataRequest, [path |-> path, watch |-> c.watch], "DATA")

zoo_aset(c, path, data) ==
    Operation(OpCode.set, SetDataRequest,
              [path |-> path, data |-> data, version |-> c.version], "STAT")

zoo_acreate(c, path, data, flags) ==
    Operation(OpCode.create, CreateRequest,
              [path |-> path, data |-> data, acl |-> c.acl, flags |-> flags], "STRING")

zoo_adelete(c, path) ==
    Operation(OpCode.delete, DeleteRequest, [path |-> path, version |-> c.version], "VOID")

zoo_awexists(c, path) ==
    Operation(OpCode.exists, ExistsRequest, [path |-> path, watch |-> c.watch], "STAT")

zoo_awget_children(c, path) ==
    Operation(OpCode.get_children, GetChildrenRequest, [path |-> path, watch |-> c.watch],
              "STRINGLIST")

zoo_async(c, path) ==
    Operation(OpCode.sync, SyncRequest, [path |-> path], "STRING")

zoo_aget_acl(c, path) ==
    Operation(OpCode.get_acl, GetACLRequest, [path |-> path], "ACLLIST")

zoo_aset_acl(c, path) ==
    Operation(OpCode.set_acl, SetACLRequest,
              [path |-> path, acl |-> c.acl, version |-> c.version], "VOID")

\* zookeeper.rb: the data is cut to as many bytes as it has characters.
DataArgument(c) == IF c.data = NULL THEN NULL ELSE SubSeq(c.data.bytes, 1, c.data.chars)

\* zookeeper.rb: ZOO_EPHEMERAL and ZOO_SEQUENCE, for anything but nil and false.
FlagsArgument(c) == (IF c.ephemeral THEN 1 ELSE 0) + (IF c.sequence # "no" THEN 2 ELSE 0)

IsSequence(c) == c.op = "create" /\ FlagsArgument(c) >= 2

\* The method of zookeeper.rb and the function it calls, with the path of the server.
OperationOf(c, path) ==
    CASE c.op = "get"          -> zoo_awget(c, path)
      [] c.op = "set"          -> zoo_aset(c, path, DataArgument(c))
      [] c.op = "create"       -> zoo_acreate(c, path, DataArgument(c), FlagsArgument(c))
      [] c.op = "delete"       -> zoo_adelete(c, path)
      [] c.op = "exists"       -> zoo_awexists(c, path)
      [] c.op = "get_children" -> zoo_awget_children(c, path)
      [] c.op = "sync"         -> zoo_async(c, path)
      [] c.op = "get_acl"      -> zoo_aget_acl(c, path)
      [] c.op = "set_acl"      -> zoo_aset_acl(c, path)

\* The checks that every zoo_* function makes before it writes anything.
Refusal(c, path) ==
    IF ~isValidPath(path, IsSequence(c)) THEN ZBADARGUMENTS
    ELSE IF unrecoverable THEN ZINVALIDSTATE ELSE ZOK

\* A synchronous call raises what it is refused with, an asynchronous one returns it.
RefusedWith(c, rc) ==
    IF c.mode = "sync" THEN Raised(rc) ELSE Outcome("returned", rc, NULL)

\* zookeeper.rb refuses a callback of another class before anything is called.
CallWithWrongCallback(c) ==
    /\ stage = "idle" /\ c.mode = "wrong"
    /\ call' = c
    /\ outcome' = Raised(ZBADARGUMENTS)
    /\ stage' = "done"
    /\ UNCHANGED <<chroot, unrecoverable, xid, frame, entry, served, reply, exchange>>

\* The identifier is taken first, even if the call is refused.
CallRefused(c) ==
    /\ stage = "idle" /\ c.mode # "wrong"
    /\ LET rc == Refusal(c, prepend_string(chroot, c.path)) IN
         /\ rc # ZOK
         /\ outcome' = RefusedWith(c, rc)
    /\ call' = c
    /\ \E x \in get_xid : xid' = Wrapped(x + 1)
    /\ stage' = "done"
    /\ UNCHANGED <<chroot, unrecoverable, frame, entry, served, reply, exchange>>

\* serialize_RequestHeader and the body into one archive.
RequestArchive(x, op) ==
    Serialize(Serialize(create_buffer_oarchive, RequestHeader, [xid |-> x, type |-> op.type]),
              op.schema, op.body)

CallSent(c) ==
    /\ stage = "idle" /\ c.mode # "wrong"
    /\ LET path == prepend_string(chroot, c.path)
           op == OperationOf(c, path)
       IN  /\ Refusal(c, path) = ZOK
           /\ \E x \in get_xid :
                 /\ xid' = Wrapped(x + 1)
                 /\ frame' = RequestArchive(x, op).buffer
                 /\ entry' = [xid |-> x, completion |-> op.completion]
    /\ call' = c
    /\ stage' = "sent"
    /\ UNCHANGED <<chroot, unrecoverable, served, reply, outcome, exchange>>

-----------------------------------------------------------------------------
(* The server (external): it knows the same records.                       *)

RequestSchema(type) ==
    CASE type = 1 -> CreateRequest       [] type = 2 -> DeleteRequest
      [] type = 3 -> ExistsRequest       [] type = 4 -> GetDataRequest
      [] type = 5 -> SetDataRequest      [] type = 6 -> GetACLRequest
      [] type = 7 -> SetACLRequest       [] type = 9 -> SyncRequest
      [] type = 8 -> GetChildrenRequest

\* The header and the body of a request, from what was read of them.
RequestOf(h, b, length) ==
    [header |-> h, body |-> b.val, rc |-> b.rc, whole |-> b.off = length]

RequestAfter(h, in) ==
    RequestOf(h.val, Deserialize(in, h.off, RequestSchema(h.val.type)), Len(in))

RequestIn(in) == RequestAfter(Deserialize(in, 0, RequestHeader), in)

Digits == [i \in 1 .. SeqDigits |-> 48]

\* The path of the znode a create made, and otherwise the path asked for.
AnswerPath(r) ==
    IF r.header.type = OpCode.create /\ r.body.flags >= 2 THEN r.body.path \o Digits
    ELSE r.body.path

StatRecord == [n \in FieldNames(Stat) |->
                  100 + (CHOOSE i \in DOMAIN Stat : Stat[i].name = n)]

\* One record and the other.
Beside(f, g) ==
    [n \in DOMAIN f \cup DOMAIN g |-> IF n \in DOMAIN f THEN f[n] ELSE g[n]]

AnswersTo(r) ==
    CASE r.header.type = 4         -> {Beside([data |-> d], StatRecord) : d \in Stored.data}
      [] r.header.type \in {3, 5}  -> {StatRecord}
      [] r.header.type = 8         -> {[children |-> s] : s \in Stored.children}
      [] r.header.type = 6         -> {Beside([acl |-> a], StatRecord) : a \in Stored.acl}
      [] r.header.type \in {1, 9}  -> {[path |-> AnswerPath(r)]}
      [] r.header.type = 7         -> {StatRecord}
      [] r.header.type = 2         -> {<<>>}

AnswerSchema(type) ==
    CASE type = 4 -> GetDataResponse      [] type = 5 -> SetDataResponse
      [] type = 3 -> ExistsResponse       [] type = 8 -> GetChildrenResponse
      [] type = 6 -> GetACLResponse       [] type = 7 -> SetACLResponse
      [] type = 1 -> CreateResponse       [] type = 9 -> SyncResponse
      [] type = 2 -> <<>>

ServerAnswers ==
    /\ stage = "sent"
    /\ \E r \in {RequestIn(frame)} :
         LET Header(err) == Encode(ReplyHeader, [xid |-> r.header.xid, zxid |-> 7, err |-> err])
         IN  \/ \E v \in AnswersTo(r) :
                   /\ served' = [err |-> 0, value |-> v]
                   /\ reply' = Header(0) \o Encode(AnswerSchema(r.header.type), v)
             \/ \E err \in Stored.errors :
                   /\ served' = [err |-> err, value |-> NULL]
                   /\ reply' = Header(err)
    /\ stage' = "answered"
    /\ UNCHANGED <<chroot, unrecoverable, xid, call, frame, entry, outcome, exchange>>

-----------------------------------------------------------------------------
(* The reply: zookeeper_process for a synchronous caller,                  *)
(* process_completions for a callback.                                     *)

ReplySchema(completion) ==
    CASE completion = "DATA"       -> GetDataResponse
      [] completion = "STAT"       -> SetDataResponse      \* of exists as well
      [] completion = "STRINGLIST" -> GetChildrenResponse
      [] completion = "STRING"     -> CreateResponse       \* of sync as well
      [] completion = "ACLLIST"    -> GetACLResponse
      [] completion = "VOID"       -> <<>>

Least(a, b) == IF a < b THEN a ELSE b

\* zookeeper.rb has room for the path as the application gave it, a '\0', and the
\* digits if :sequence is true itself.
PathRoom(c) == Len(c.path) + 1 + (IF c.sequence = "true" THEN SeqDigits ELSE 0)

\* The last byte of the room is for the '\0'.
CopiedPath(path, room) == SubSeq(path, 1, Least(Len(path) + 1, room) - 1)

\* What the synchronous caller finds in its sync_completion.
SyncResult(c, completion, v) ==
    CASE completion = "DATA" /\ v.data # NULL ->
            [v EXCEPT !.data = SubSeq(v.data, 1, Least(Len(v.data), GetRoom))]
      [] completion = "STRING" -> [v EXCEPT !.path = CopiedPath(v.path, PathRoom(c))]
      [] OTHER -> v

\* zoo_create to zoo_set_acl wait, and pass it on if the call has succeeded.
SyncValue(c, completion, rc, v) == IF rc = ZOK THEN SyncResult(c, completion, v) ELSE NULL

StatOf(v) == [n \in FieldNames(Stat) |-> v[n]]
StringsOf(vector) == [i \in DOMAIN vector |-> vector[i].data]

\* ACLVector.to_array makes each of its elements of the first one.
AclsOf(vector) == [i \in DOMAIN vector |-> vector[1]]

\* The value of a method of zookeeper.rb once rc is ZOK; get_bytes refuses a length of -1.
RubyReturns(c, v) ==
    LET Returned(value) == Outcome("returned", ZOK, value) IN
    CASE c.op = "get" ->
            IF v.data = NULL THEN Outcome("raised", ZOK, "IndexError")
            ELSE Returned([value |-> v.data, stat |-> StatOf(v)])
      [] c.op = "create"       -> Returned(v.path)
      [] c.op = "exists"       -> Returned(StatOf(v))
      [] c.op = "get_children" -> Returned(StringsOf(v.children))
      [] c.op = "get_acl"      -> Returned(AclsOf(v.acl))
      [] OTHER                 -> Returned(NULL)

RubySync(c, rc, v) ==
    IF rc = ZOK THEN RubyReturns(c, v)
    ELSE IF c.op = "exists" /\ rc = ZNONODE THEN Outcome("returned", rc, NULL)
    ELSE Raised(rc)

\* strdup, and the :string of the callback, end at the first '\0'.
UpToNul(s) ==
    SubSeq(s, 1, Len(s) - Cardinality({i \in DOMAIN s : \E j \in 1 .. i : s[j] = 0}))

\* ruby_*_completion_wrapper and the callback object.
RubyCallback(c, rc, v) ==
    LET Called(value) == Outcome("callback", rc, value) IN
    IF rc # ZOK THEN Called(NULL) ELSE
    CASE c.op = "get" ->
            Called([value |-> IF v.data = NULL THEN NULL ELSE UpToNul(v.data),
                    value_len |-> IF v.data = NULL THEN -1 ELSE Len(v.data),
                    stat |-> StatOf(v)])
      [] c.op \in {"create", "sync"}  -> Called(v.path)
      [] c.op \in {"set", "exists"}   -> Called(StatOf(v))
      [] c.op = "get_children"        -> Called(StringsOf(v.children))
      [] c.op = "get_acl"             -> Called([acl |-> AclsOf(v.acl), stat |-> StatOf(v)])
      [] c.op \in {"delete", "set_acl"} -> Called(NULL)

\* A callback is not called for a reply with the identifier of a ping.
Completed(c, e, rc, v) ==
    IF c.mode = "sync" THEN RubySync(c, rc, SyncValue(c, e.completion, rc, v))
    ELSE IF e.xid = PING_XID THEN Outcome("never", rc, NULL)
    ELSE RubyCallback(c, rc, v)

\* A reply with the identifier of an event, of an authentication or of SetWatches is
\* taken for one, and the request stays where it is.
ReadReply ==
    /\ stage = "answered"
    /\ \E h \in {Deserialize(reply, 0, ReplyHeader)} :
         outcome' =
             IF h.val.xid \in ReservedXids \ {PING_XID}
             THEN Outcome("never", h.val.err, NULL)
             ELSE Completed(call, entry, h.val.err,
                            Deserialize(reply, h.off, ReplySchema(entry.completion)).val)
    /\ stage' = "done"
    /\ UNCHANGED <<chroot, unrecoverable, xid, call, frame, entry, served, reply, exchange>>

\* The server tells of the znode that was watched (external), with the path it knows;
\* do_foreach_watcher takes the chroot off.
WatchFires ==
    /\ stage = "done" /\ served # NULL /\ outcome.how # "never"
    /\ call.op \in {"get", "exists", "get_children"} /\ call.watch = 1
    /\ served.err = 0 \/ (call.op = "exists" /\ served.err = ZNONODE)
    /\ \E r \in {RequestIn(frame)} :
         reply' = Encode(ReplyHeader, [xid |-> WATCHER_EVENT_XID, zxid |-> 8, err |-> 0])
                    \o Encode(WatcherEvent, [type |-> 3, state |-> 3, path |-> r.body.path])
    /\ \E h \in {Deserialize(reply', 0, ReplyHeader)} :
         outcome' = Outcome("event", ZOK,
                            sub_string(chroot, Deserialize(reply', h.off, WatcherEvent).val.path))
    /\ stage' = "notified"
    /\ UNCHANGED <<chroot, unrecoverable, xid, call, frame, entry, served, exchange>>

-----------------------------------------------------------------------------
(* A record that goes through an archive, as every request and reply does. *)

Schemas ==
    <<Id, ACL, Stat, StatPersisted, StatPersistedV1, op_result_t, ConnectRequest,
      ConnectResponse, String_vector, SetWatches, RequestHeader, AuthPacket, ReplyHeader,
      GetDataRequest, SetDataRequest, SetDataResponse, ACL_vector, CreateRequest,
      DeleteRequest, GetChildrenRequest, GetMaxChildrenRequest, GetMaxChildrenResponse,
      SetMaxChildrenRequest, SyncRequest, SyncResponse, GetACLRequest, SetACLRequest,
      SetACLResponse, WatcherEvent, CreateResponse, ExistsRequest, ExistsResponse,
      GetDataResponse, GetChildrenResponse, GetACLResponse, Id_vector, QuorumPacket,
      FileHeader, TxnHeader, CreateTxn, DeleteTxn, SetDataTxn, SetACLTxn,
      SetMaxChildrenTxn, CreateSessionTxn, ErrorTxn>>

\* The value of field i in variant k: numbers of its own for every field, and every
\* length from none up.
SampleField(kind, i, k) ==
    CASE kind \in {"Int", "Long"} -> 10 * i + k
      [] kind = "Bool"   -> k % 3
      [] kind = "String" -> [j \in 1 .. ((i + k) % 4) |-> 96 + i + j]
      [] kind = "Buffer" -> IF (i + k) % 4 = 3 THEN NULL
                            ELSE [j \in 1 .. (5 * ((i + k) % 4)) |-> j]

SampleElement(schema, k) ==
    [n \in FieldNames(schema) |->
        LET i == CHOOSE j \in DOMAIN schema : schema[j].name = n
        IN  SampleField(schema[i].kind, i, k)]

SampleMember(f, i, k) ==
    IF f.kind = "Vector" THEN [j \in 1 .. ((i + k) % 4) |-> SampleElement(f.of, j + k)]
    ELSE SampleField(f.kind, i, k)

Sample(schema, k) ==
    [n \in FieldNames(schema) |->
        LET i == CHOOSE j \in DOMAIN schema : schema[j].name = n
        IN  SampleMember(schema[i], i, k)]

\* The bytes reach the reader whole, or only the first of them.
ExchangeRecord(s, k) ==
    /\ stage = "start"
    /\ \E oa \in {Serialize(create_buffer_oarchive, Schemas[s], Sample(Schemas[s], k))} :
       \E received \in 0 .. Len(oa.buffer) :
          exchange' = [schema |-> s, variant |-> k, fits |-> oa.fits, sent |-> Len(oa.buffer),
                       received |-> received,
                       read |-> Deserialize(SubSeq(oa.buffer, 1, received), 0, Schemas[s])]
    /\ stage' = "exchanged"
    /\ UNCHANGED <<chroot, unrecoverable, xid, call, frame, entry, served, reply, outcome>>

Next ==
    \/ \E s \in Chroots : OpenHandle(s)
    \/ \E c \in Calls : CallWithWrongCallback(c) \/ CallRefused(c) \/ CallSent(c)
    \/ ServerAnswers
    \/ ReadReply
    \/ WatchFires
    \/ \E s \in DOMAIN Schemas, k \in 1 .. Variants : ExchangeRecord(s, k)

Spec == Init /\ [][Next]_vars

-----------------------------------------------------------------------------
(* What a call is to mean, from the arguments and the answer alone.        *)

\* A path that does not begin with a slash is glued to the chroot, and the root of a
\* chroot with a number behind it is next to the chroot.
LeavesChroot(c) ==
    chroot # NoPath /\ (c.path = <<>> \/ c.path[1] # Slash \/ (c.path = <<Slash>> /\ IsSequence(c)))

\* zookeeper.rb counts characters.
IsMultiByte(c) == c.data # NULL /\ c.data.chars # Len(c.data.bytes)

\* r is the request that the call asks for.
IsAsked(r) ==
    /\ r.rc = 0 /\ r.whole
    /\ r.header = [xid |-> entry.xid, type |-> OpCode[call.op]]
    /\ LeavesChroot(call) \/ /\ IsAbsolutePath(call.path, IsSequence(call))
                             /\ r.body.path = Below(chroot, call.path)
    /\ \A n \in DOMAIN r.body \cap {"version", "watch", "acl"} : r.body[n] = call[n]
    /\ "flags" \in DOMAIN r.body =>
          r.body.flags = (IF call.ephemeral THEN 1 ELSE 0)
                         + (IF call.sequence = "no" THEN 0 ELSE 2)
    /\ "data" \in DOMAIN r.body =>
          \/ r.body.data = (IF call.data = NULL THEN NULL ELSE call.data.bytes)
          \/ IsMultiByte(call)

\* What the server finds in the request is what the application asked for, with the
\* path below the chroot; and a call is refused as wrong only if its path is.
\* (zoo_aget to zoo_aset_acl, prepend_string, isValidPath, zookeeper.rb)
CallReachesServer ==
    /\ stage = "sent" => IsAsked(RequestIn(frame))
    /\ frame = <<>> /\ outcome.rc = ZBADARGUMENTS /\ call.mode # "wrong" =>
          ~IsAbsolutePath(call.path, IsSequence(call)) \/ LeavesChroot(call)

\* The answer as the application should see it.
Value(c) ==
    LET v == served.value IN
    CASE c.op = "get" /\ c.mode = "sync" -> [value |-> v.data, stat |-> StatOf(v)]
      [] c.op = "get" /\ c.mode = "async" ->
            [value |-> v.data, value_len |-> IF v.data = NULL THEN -1 ELSE Len(v.data),
             stat |-> StatOf(v)]
      [] c.op = "create" -> IF IsSequence(c) THEN c.path \o Digits ELSE c.path
      [] c.op = "sync"   -> c.path
      [] c.op = "exists" \/ (c.op = "set" /\ c.mode = "async") -> StatOf(v)
      [] c.op = "get_children" -> [i \in DOMAIN v.children |-> v.children[i].data]
      [] c.op = "get_acl" -> IF c.mode = "sync" THEN v.acl
                             ELSE [acl |-> v.acl, stat |-> StatOf(v)]
      [] OTHER -> NULL

\* An exception tells what went wrong if no other code raises it.
Tells(class, rc) == class = by_code(rc) /\ \A other \in ReturnCodes \ {rc} : by_code(other) # class

IsRight(c) ==
    IF served.err = 0
    THEN /\ outcome.how = (IF c.mode = "sync" THEN "returned" ELSE "callback")
         /\ outcome.rc = ZOK /\ outcome.value = Value(c)
    ELSE /\ outcome.rc = served.err
         /\ IF c.mode = "async" THEN outcome.how = "callback"
            ELSE IF c.op = "exists" /\ served.err = ZNONODE
            THEN outcome = Outcome("returned", ZNONODE, NULL)
            ELSE outcome.how = "raised" /\ Tells(outcome.value, served.err)

\* Where the code falls short of it.
\* The identifier is one of those that are no request's.
HasReservedXid(c) == entry.xid \in ReservedXids /\ ~(entry.xid = PING_XID /\ c.mode = "sync")

\* A synchronous get returns the first GetRoom bytes, and fails if there is no data.
DataIsCut(c) ==
    c.op = "get" /\ c.mode = "sync" /\ (served.value.data = NULL \/ Len(served.value.data) > GetRoom)

\* A callback gets the data up to the first '\0'.
DataHasNul(c) ==
    /\ c.op = "get" /\ c.mode = "async" /\ served.value.data # NULL
    /\ \E i \in DOMAIN served.value.data : served.value.data[i] = 0

\* The path is the one of the server, and a synchronous create has no room for it.
PathIsOfServer(c) == c.op \in {"create", "sync"} /\ chroot # NoPath

\* The digits are cut off when :sequence is not true itself.
NoRoomForDigits(c) == c.op = "create" /\ c.mode = "sync" /\ c.sequence = "truthy"

\* Every ACL is shown as the first one.
OnlyFirstAcl(c) ==
    c.op = "get_acl" /\ \E i \in DOMAIN served.value.acl : served.value.acl[i] # served.value.acl[1]

\* There is no class for the code.
HasNoClass(c) == c.mode = "sync" /\ by_code(served.err) = "Exception"

\* The application gets what the server answered: the value of the call or the error,
\* in the way it asked for; where it does not, it is for one of the reasons above.  And
\* the event of its watch names the path that it asked for.
\* (zookeeper_process, process_completions, sub_string, the zoo_* wrappers, zookeeper.rb,
\* callbacks.rb)
AnswerReachesCaller ==
    /\ stage = "done" /\ served # NULL =>
          \/ IsRight(call)
          \/ HasReservedXid(call)
          \/ served.err = 0 /\ \/ DataIsCut(call) \/ DataHasNul(call) \/ PathIsOfServer(call)
                               \/ NoRoomForDigits(call) \/ OnlyFirstAcl(call)
          \/ served.err # 0 /\ HasNoClass(call)
    /\ stage = "notified" => outcome.value = call.path \/ LeavesChroot(call)

\* The sample as the reader is to see it: a flag is 0 or 1.
Seen(schema, v) ==
    [n \in FieldNames(schema) |->
        IF \E i \in DOMAIN schema : schema[i].name = n /\ schema[i].kind = "Bool"
        THEN (IF v[n] = 0 THEN 0 ELSE 1) ELSE v[n]]

HandshakeSample(k) ==
    [Sample(ConnectRequest, k) EXCEPT !.passwd = [i \in 1 .. PasswdLength |-> i + k]]
ResponseSample(k) ==
    [Sample(ConnectResponse, k) EXCEPT !.passwd = [i \in 1 .. PasswdLength |-> i + k]]

\* A record comes out of an archive as it went in and nothing is written past the
\* buffer, however often it has to grow; one that was cut short is reported unless a
\* vector hides it, and what comes before the vector is right even then.  The
\* handshake, written by hand, is the record of its name.
\* (recordio.c, zookeeper.jute.c, serialize_prime_connect, deserialize_prime_response)
RecordsSurvive ==
    stage = "exchanged" =>
        LET schema == Schemas[exchange.schema]
            v == Seen(schema, Sample(schema, exchange.variant))
            k == exchange.variant
            response == deserialize_prime_response(
                            Number(4, 0) \o Encode(ConnectResponse, ResponseSample(k)))
        IN  /\ exchange.fits
            /\ exchange.received = exchange.sent => exchange.read = Read(0, exchange.sent, v)
            /\ exchange.received < exchange.sent =>
                 \/ exchange.read.rc = E2BIG
                 \/ /\ "Vector" \in Kinds(schema)
                    /\ \A i \in DOMAIN schema :
                          (\A j \in 1 .. i : schema[j].kind # "Vector") =>
                              exchange.read.val[schema[i].name] = v[schema[i].name]
            /\ serialize_prime_connect(HandshakeSample(k))
                 = Encode(ConnectRequest, HandshakeSample(k))
            /\ response = Beside([passwd_len |-> PasswdLength], ResponseSample(k))
=============================================================================
