------------------------------- MODULE Records -------------------------------
(***************************************************************************)
(* The records of the protocol and the archives that carry them:           *)
(* recordio.c and the functions of zookeeper.jute.c, which call it field   *)
(* by field.  A record is written and read by the same list of fields, its *)
(* schema; a record inside a record has its fields in its place, since     *)
(* start_record and end_record write nothing.                              *)
(*                                                                         *)
(* A byte on the wire is <<size, place, value>> of the number it belongs   *)
(* to, and <<1, 1, c>> for a character: bytes that are read as anything    *)
(* else than what was written give GARBAGE, and so does what is not set.   *)
(* Memory is never exhausted.                                              *)
(***************************************************************************)
EXTENDS Integers, Sequences

CONSTANTS
    NULL,           \* the null pointer
    GARBAGE,        \* memory nobody has set, or bytes of something else
    InitialLength   \* first length of an output buffer; 128 in the code

ASSUME InitialLengthAssumption == InitialLength \in Nat \ {0}

-----------------------------------------------------------------------------
(* Fields.                                                                 *)

Int32(n)  == [name |-> n, kind |-> "Int",    of |-> <<>>]
Int64(n)  == [name |-> n, kind |-> "Long",   of |-> <<>>]
Flag(n)   == [name |-> n, kind |-> "Bool",   of |-> <<>>]
Str(n)    == [name |-> n, kind |-> "String", of |-> <<>>]
Buf(n)    == [name |-> n, kind |-> "Buffer", of |-> <<>>]
Vec(n, s) == [name |-> n, kind |-> "Vector", of |-> s]

FieldNames(schema) == {schema[i].name : i \in DOMAIN schema}
Kinds(schema) == {schema[i].kind : i \in DOMAIN schema}

-----------------------------------------------------------------------------
(* Output archives: oa_*.  len is the length of the buffer that is         *)
(* allocated, and fits says that nothing was written past it.              *)

create_buffer_oarchive == [buffer |-> <<>>, len |-> InitialLength, fits |-> TRUE]

\* The buffer grows to what is asked for only if its length is twice as much.
ResizeToHalf(len, newlen) == IF 2 * len <= newlen THEN 2 * len ELSE len

\* Doubled until it is long enough.
resize_buffer(len, newlen) ==
    LET grown[n \in Nat \ {0}] == IF n < newlen THEN grown[2 * n] ELSE n
    IN  grown[len]

Put(oa, bytes) ==
    LET n == Len(bytes)
        len == IF oa.len - Len(oa.buffer) < n THEN resize_buffer(oa.len, oa.len + n) ELSE oa.len
    IN  [buffer |-> oa.buffer \o bytes,
         len |-> len,
         fits |-> oa.fits /\ Len(oa.buffer) + n <= len]

Number(size, v) == [i \in 1 .. size |-> <<size, i, v>>]
Characters(s) == [i \in DOMAIN s |-> <<1, 1, s[i]>>]

oa_serialize_int(oa, v)  == Put(oa, Number(4, v))
oa_serialize_long(oa, v) == Put(oa, Number(8, v))
oa_serialize_bool(oa, v) == Put(oa, Number(1, IF v = 0 THEN 0 ELSE 1))

\* The length and the bytes; a null pointer is a length of -1 and nothing.
oa_serialize_buffer(oa, b) ==
    IF b = NULL THEN oa_serialize_int(oa, -1)
    ELSE Put(oa_serialize_int(oa, Len(b)), Characters(b))

oa_serialize_string(oa, s) ==
    IF s = NULL THEN oa_serialize_int(oa, -1)
    ELSE Put(oa_serialize_int(oa, Len(s)), Characters(s))

WriteField(oa, f, v) ==
    CASE f.kind = "Int"    -> oa_serialize_int(oa, v)
      [] f.kind = "Long"   -> oa_serialize_long(oa, v)
      [] f.kind = "Bool"   -> oa_serialize_bool(oa, v)
      [] f.kind = "String" -> oa_serialize_string(oa, v)
      [] f.kind = "Buffer" -> oa_serialize_buffer(oa, v)

\* serialize_*: field after field; written[i] is the archive after the first i.
WriteElement(oa, schema, v) ==
    LET written[i \in 0 .. Len(schema)] ==
            IF i = 0 THEN oa ELSE WriteField(written[i - 1], schema[i], v[schema[i].name])
    IN  written[Len(schema)]

\* serialize_*_vector: the count, and then every element.
WriteVector(oa, schema, vs) ==
    LET written[i \in 0 .. Len(vs)] ==
            IF i = 0 THEN oa_serialize_int(oa, Len(vs))
            ELSE WriteElement(written[i - 1], schema, vs[i])
    IN  written[Len(vs)]

WriteMember(oa, f, v) ==
    IF f.kind = "Vector" THEN WriteVector(oa, f.of, v) ELSE WriteField(oa, f, v)

Serialize(oa, schema, v) ==
    LET written[i \in 0 .. Len(schema)] ==
            IF i = 0 THEN oa ELSE WriteMember(written[i - 1], schema[i], v[schema[i].name])
    IN  written[Len(schema)]

Encode(schema, v) == Serialize(create_buffer_oarchive, schema, v).buffer

-----------------------------------------------------------------------------
(* Input archives: ia_*.  A read gives a return code, the offset after it  *)
(* and the value.                                                          *)

E2BIG == -7

Read(rc, off, val) == [rc |-> rc, off |-> off, val |-> val]

\* Whatever was to be read here: what follows cannot be told.
Lost(off) == Read(GARBAGE, off, GARBAGE)

NumberIn(bytes) ==
    LET n == Len(bytes) IN
    IF \A i \in 1 .. n : bytes[i][1] = n /\ bytes[i][2] = i /\ bytes[i][3] = bytes[1][3]
    THEN bytes[1][3] ELSE GARBAGE

CharactersIn(bytes) ==
    [i \in DOMAIN bytes |-> IF bytes[i][1] = 1 THEN bytes[i][3] ELSE GARBAGE]

Short(in, off, n) == Len(in) - off < n

\* ia_deserialize_int, ia_deserialize_long and ia_deserialize_bool.
ReadNumber(in, off, size) ==
    IF Short(in, off, size) THEN Read(E2BIG, off, GARBAGE)
    ELSE Read(0, off + size, NumberIn(SubSeq(in, off + 1, off + size)))

\* The bytes that len, a length that was read, announces; null is what a length of -1
\* stands for.
ReadBytes(in, len, null) ==
    CASE len.rc # 0                       -> len
      [] len.rc = 0 /\ len.val = GARBAGE -> Lost(len.off)
      [] OTHER ->
           IF Short(in, len.off, len.val) THEN Read(E2BIG, len.off, GARBAGE)
           ELSE IF len.val = -1 THEN null
           ELSE Read(0, len.off + len.val,
                     CharactersIn(SubSeq(in, len.off + 1, len.off + len.val)))

ia_deserialize_buffer(in, off) ==
    ReadBytes(in, ReadNumber(in, off, 4), Read(0, off + 4, NULL))

\* The length is not tested for -1: malloc(0), and a copy of -1 bytes.
ia_deserialize_string(in, off) ==
    ReadBytes(in, ReadNumber(in, off, 4), Lost(off + 4))

ReadField(in, off, kind) ==
    CASE kind = "Int"    -> ReadNumber(in, off, 4)
      [] kind = "Long"   -> ReadNumber(in, off, 8)
      [] kind = "Bool"   -> ReadNumber(in, off, 1)
      [] kind = "String" -> ia_deserialize_string(in, off)
      [] kind = "Buffer" -> ia_deserialize_buffer(in, off)

\* A record nothing was read into.
Blank(schema, v) == [n \in FieldNames(schema) |-> v]

\* A record c that is being read, after the read r of its field f.
ReadInto(c, f, r) ==
    Read(r.rc, r.off, IF r.rc = 0 THEN [c.val EXCEPT ![f.name] = r.val] ELSE c.val)

\* rc = rc ? : ..., for a field: nothing is read after an error.
ReadNextField(in, c, f) ==
    IF c.rc # 0 THEN c ELSE ReadInto(c, f, ReadField(in, c.off, f.kind))

ReadElement(in, rc, off, schema) ==
    LET read[i \in 0 .. Len(schema)] ==
            IF i = 0 THEN Read(rc, off, Blank(schema, NULL))
            ELSE ReadNextField(in, read[i - 1], schema[i])
    IN  read[Len(schema)]

\* The elements c that were read so far, and one more.
ReadOneMore(c, e) == Read(e.rc, e.off, Append(c.val, e.val))
ReadNextElement(in, c, schema) == ReadOneMore(c, ReadElement(in, c.rc, c.off, schema))

\* deserialize_*_vector ends with rc = in->end_vector, which is 0: the error of an
\* element is forgotten, and what was not read is null.  If the count itself could
\* not be read it is whatever was there before.
EndVector(c) == IF c.rc = GARBAGE THEN GARBAGE ELSE 0

AfterElements(all) == Read(EndVector(all), all.off, all.val)

\* Nothing is read for a count that is negative.
ElementsOf(in, count, schema) ==
    LET read[i \in 0 .. count.val] ==
            IF i = 0 THEN Read(0, count.off, <<>>) ELSE ReadNextElement(in, read[i - 1], schema)
    IN  IF count.val < 0 THEN Read(0, count.off, <<>>) ELSE read[count.val]

ReadElements(in, count, schema) ==
    CASE count.rc # 0                        -> Read(0, count.off, GARBAGE)
      [] count.rc = 0 /\ count.val = GARBAGE -> Lost(count.off)
      [] OTHER -> AfterElements(ElementsOf(in, count, schema))

ReadVector(in, off, schema) == ReadElements(in, ReadNumber(in, off, 4), schema)

ReadMember(in, off, f) ==
    IF f.kind = "Vector" THEN ReadVector(in, off, f.of) ELSE ReadField(in, off, f.kind)

ReadNextMember(in, c, f) ==
    IF c.rc # 0 THEN c ELSE ReadInto(c, f, ReadMember(in, c.off, f))

Deserialize(in, off, schema) ==
    LET read[i \in 0 .. Len(schema)] ==
            IF i = 0 THEN Read(0, off, Blank(schema, GARBAGE))
            ELSE ReadNextMember(in, read[i - 1], schema[i])
    IN  read[Len(schema)]

-----------------------------------------------------------------------------
(* The records of zookeeper.jute.c: each schema stands for the serialize,  *)
(* deserialize and deallocate functions of its record, and a vector for    *)
(* the fields of its elements.                                             *)

Id == <<Str("scheme"), Str("id")>>
ACL == <<Int32("perms")>> \o Id
Stat ==
    <<Int64("czxid"), Int64("mzxid"), Int64("ctime"), Int64("mtime"), Int32("version"),
     Int32("cversion"), Int32("aversion"), Int64("ephemeralOwner"), Int32("dataLength"),
     Int32("numChildren"), Int64("pzxid")>>
StatPersisted ==
    <<Int64("czxid"), Int64("mzxid"), Int64("ctime"), Int64("mtime"), Int32("version"),
     Int32("cversion"), Int32("aversion"), Int64("ephemeralOwner"), Int64("pzxid")>>
StatPersistedV1 ==
    <<Int64("czxid"), Int64("mzxid"), Int64("ctime"), Int64("mtime"), Int32("version"),
     Int32("cversion"), Int32("aversion"), Int64("ephemeralOwner")>>
op_result_t == <<Int32("rc"), Int32("op"), Buf("response")>>
ConnectRequest ==
    <<Int32("protocolVersion"), Int64("lastZxidSeen"), Int32("timeOut"), Int64("sessionId"),
     Buf("passwd")>>
ConnectResponse ==
    <<Int32("protocolVersion"), Int32("timeOut"), Int64("sessionId"), Buf("passwd")>>
String_vector == <<Str("data")>>
SetWatches ==
    <<Int64("relativeZxid"), Vec("dataWatches", String_vector),
      Vec("existWatches", String_vector), Vec("childWatches", String_vector)>>
RequestHeader == <<Int32("xid"), Int32("type")>>
AuthPacket == <<Int32("type"), Str("scheme"), Buf("auth")>>
ReplyHeader == <<Int32("xid"), Int64("zxid"), Int32("err")>>
GetDataRequest == <<Str("path"), Flag("watch")>>
SetDataRequest == <<Str("path"), Buf("data"), Int32("version")>>
SetDataResponse == Stat
ACL_vector == ACL
CreateRequest == <<Str("path"), Buf("data"), Vec("acl", ACL_vector), Int32("flags")>>
DeleteRequest == <<Str("path"), Int32("version")>>
GetChildrenRequest == <<Str("path"), Flag("watch")>>
GetMaxChildrenRequest == <<Str("path")>>
GetMaxChildrenResponse == <<Int32("max")>>
SetMaxChildrenRequest == <<Str("path"), Int32("max")>>
SyncRequest == <<Str("path")>>
SyncResponse == <<Str("path")>>
GetACLRequest == <<Str("path")>>
SetACLRequest == <<Str("path"), Vec("acl", ACL_vector), Int32("version")>>
SetACLResponse == Stat
WatcherEvent == <<Int32("type"), Int32("state"), Str("path")>>
CreateResponse == <<Str("path")>>
ExistsRequest == <<Str("path"), Flag("watch")>>
ExistsResponse == Stat
GetDataResponse == <<Buf("data")>> \o Stat
GetChildrenResponse == <<Vec("children", String_vector)>>
GetACLResponse == <<Vec("acl", ACL_vector)>> \o Stat
Id_vector == Id
QuorumPacket == <<Int32("type"), Int64("zxid"), Buf("data"), Vec("authinfo", Id_vector)>>
FileHeader == <<Int32("magic"), Int32("version"), Int64("dbid")>>
TxnHeader == <<Int64("clientId"), Int32("cxid"), Int64("zxid"), Int64("time"), Int32("type")>>
CreateTxn == <<Str("path"), Buf("data"), Vec("acl", ACL_vector), Flag("ephemeral")>>
DeleteTxn == <<Str("path")>>
SetDataTxn == <<Str("path"), Buf("data"), Int32("version")>>
SetACLTxn == <<Str("path"), Vec("acl", ACL_vector), Int32("version")>>
SetMaxChildrenTxn == <<Str("path"), Int32("max")>>
CreateSessionTxn == <<Int32("timeOut")>>
ErrorTxn == <<Int32("err")>>

-----------------------------------------------------------------------------
(* The handshake, which zookeeper.c writes and reads by hand.              *)

PasswdLength == 16

serialize_prime_connect(r) ==
    Number(4, r.protocolVersion) \o Number(8, r.lastZxidSeen) \o Number(4, r.timeOut)
      \o Number(8, r.sessionId) \o Number(4, PasswdLength) \o Characters(r.passwd)

\* Field by field at fixed offsets, after the length of the frame.
deserialize_prime_response(in) ==
    [protocolVersion |-> NumberIn(SubSeq(in, 5, 8)),
     timeOut         |-> NumberIn(SubSeq(in, 9, 12)),
     sessionId       |-> NumberIn(SubSeq(in, 13, 20)),
     passwd_len      |-> NumberIn(SubSeq(in, 21, 24)),
     passwd          |-> CharactersIn(SubSeq(in, 25, 24 + PasswdLength))]
=============================================================================
