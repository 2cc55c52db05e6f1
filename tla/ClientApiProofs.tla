--------------------------- MODULE ClientApiProofs ---------------------------
(***************************************************************************)
(* Theorems about ClientApi, and the lemmas about Records and Paths they   *)
(* rest on.                                                                *)
(***************************************************************************)
EXTENDS ClientApi, FiniteSetTheorems, SequenceTheorems, WellFoundedInduction, TLAPS

-----------------------------------------------------------------------------
(* Numbers.                                                                *)

\* A set of numbers has a least element.
LEMMA LeastNumber ==
    ASSUME NEW T, T \subseteq Nat, T # {}
    PROVE  \E x \in T : \A y \in T : x <= y
<1>1. PICK R : IsWellFoundedOn(R, Nat) /\ \A x, y \in Nat : x < y => <<x, y>> \in R
  <2>1. \A x, y \in Nat : x < y => <<x, y>> \in OpToRel(<, Nat)
    BY DEF OpToRel
  <2> QED
    BY <2>1, NatLessThanWellFounded, Zenon
<1>2. IsWellFoundedOn(R, Nat)
  BY <1>1
<1>3. PICK x \in T : \A y \in T : <<y, x>> \notin R
  BY <1>2, WFMin, Zenon
<1>4. ASSUME NEW y \in T PROVE x <= y
  <2>1. x \in Nat /\ y \in Nat
    OBVIOUS
  <2>2. ~(y < x)
    BY <2>1, <1>1, <1>3
  <2> QED
    BY <2>1, <2>2
<1> QED
  BY <1>4

\* So a set that has 0, and with each number up to n the next one, has all of them.
LEMMA UpTo ==
    ASSUME NEW n \in Nat, NEW S, 0 \in S, \A i \in 1 .. n : i - 1 \in S => i \in S
    PROVE  \A i \in 0 .. n : i \in S
<1> DEFINE T == {i \in 0 .. n : i \notin S}
<1>1. SUFFICES ASSUME T # {} PROVE FALSE
  OBVIOUS
<1>2. PICK k \in T : \A y \in T : k <= y
  <2>1. T \subseteq Nat
    OBVIOUS
  <2> HIDE DEF T
  <2> QED
    BY <1>1, <2>1, LeastNumber
<1>3. k \in 1 .. n /\ k - 1 \in 0 .. n /\ ~(k <= k - 1)
  BY <1>2
<1>4. k - 1 \notin T
  BY <1>2, <1>3
<1> QED
  BY <1>2, <1>3, <1>4

-----------------------------------------------------------------------------
(* Archives that are written.                                              *)

\* The bytes of an archive.
Octets == Nat \X Nat \X Int

\* Nothing was written past the buffer.
Archives ==
    {oa \in [buffer : Seq(Octets), len : Nat \ {0}, fits : {TRUE}] : Len(oa.buffer) <= oa.len}

\* t begins with s.
Begins(s, t) == Len(s) <= Len(t) /\ \A i \in 1 .. Len(s) : t[i] = s[i]

\* resize_buffer doubles until it is enough: the loop ends.
LEMMA DoublingEnds ==
    ASSUME NEW m \in Nat
    PROVE  \E f : f = [n \in Nat \ {0} |-> IF n < m THEN f[2 * n] ELSE n]
<1> DEFINE D(k) == {n \in Nat \ {0} : n >= m - k}
           Is(f, k) == f = [n \in D(k) |-> IF n < m THEN f[2 * n] ELSE n]
           S == {k \in Nat : \E f : Is(f, k)}
<1>1. 0 \in S
  <2>1. Is([n \in D(0) |-> n], 0)
    OBVIOUS
  <2> QED
    BY <2>1
<1>2. ASSUME NEW k \in 1 .. m, k - 1 \in S PROVE k \in S
  <2>1. PICK g : Is(g, k - 1)
    BY <1>2
  <2>2. /\ D(k - 1) \subseteq D(k)
        /\ \A n \in D(k) : n < m => 2 * n \in D(k - 1)
    OBVIOUS
  <2> DEFINE h == [n \in D(k) |-> IF n \in D(k - 1) THEN g[n] ELSE g[2 * n]]
  <2>3. ASSUME NEW n \in D(k) PROVE h[n] = IF n < m THEN h[2 * n] ELSE n
    <3>1. CASE n \in D(k - 1)
      <4>1. h[n] = g[n] /\ g[n] = IF n < m THEN g[2 * n] ELSE n
        BY <2>1, <3>1
      <4>2. n < m => 2 * n \in D(k - 1) /\ 2 * n \in D(k)
        BY <2>2
      <4>3. n < m => h[2 * n] = g[2 * n]
        BY <4>2
      <4> QED
        BY <4>1, <4>3
    <3>2. CASE n \notin D(k - 1)
      <4>1. n < m
        BY <3>2
      <4>2. 2 * n \in D(k - 1) /\ 2 * n \in D(k)
        BY <2>2, <4>1
      <4>3. h[n] = g[2 * n] /\ h[2 * n] = g[2 * n]
        BY <3>2, <4>2
      <4> QED
        BY <4>1, <4>3
    <3> QED
      BY <3>1, <3>2
  <2>4. Is(h, k)
    <3> HIDE DEF h
    <3>1. h = [n \in D(k) |-> h[n]]
      BY DEF h
    <3> QED
      BY <2>3, <3>1
  <2>5. k \in Nat /\ \E f : Is(f, k)
    <3> HIDE DEF Is
    <3> QED
      BY <2>4
  <2> QED
    BY <2>5
<1>3. m \in S
  <2> HIDE DEF S
  <2> QED
    BY <1>1, <1>2, UpTo
<1>4. D(m) = Nat \ {0}
  OBVIOUS
<1> QED
  BY <1>3, <1>4

\* The buffer is long enough for what it has to take, and never gets shorter.
LEMMA ResizeIsEnough ==
    ASSUME NEW len \in Nat \ {0}, NEW m \in Nat
    PROVE  LET r == resize_buffer(len, m) IN r \in Nat /\ r >= m /\ r >= len
<1> DEFINE f == CHOOSE f : f = [n \in Nat \ {0} |-> IF n < m THEN f[2 * n] ELSE n]
           Good(n) == f[n] \in Nat /\ f[n] >= m /\ f[n] >= n
           S == {k \in Nat : \A n \in Nat \ {0} : n >= m - k => Good(n)}
<1>1. f = [n \in Nat \ {0} |-> IF n < m THEN f[2 * n] ELSE n]
  BY DoublingEnds
<1>2. resize_buffer(len, m) = f[len]
  BY DEF resize_buffer
<1> HIDE DEF f
<1>3. 0 \in S
  <2>1. ASSUME NEW n \in Nat \ {0}, n >= m PROVE f[n] = n
    BY <1>1, <2>1
  <2> QED
    BY <2>1
<1>4. ASSUME NEW k \in 1 .. m, k - 1 \in S PROVE k \in S
  <2>1. ASSUME NEW n \in Nat \ {0}, n >= m - k PROVE Good(n)
    <3>1. CASE n >= m - (k - 1)
      BY <1>4, <3>1
    <3>2. CASE n < m - (k - 1)
      <4>1. n < m /\ 2 * n \in Nat \ {0} /\ 2 * n >= m - (k - 1) /\ 2 * n >= n
        BY <2>1, <3>2
      <4>2. Good(2 * n)
        BY <1>4, <4>1
      <4>3. f[n] = f[2 * n]
        BY <1>1, <4>1
      <4> QED
        BY <4>1, <4>2, <4>3
    <3> QED
      BY <3>1, <3>2
  <2> QED
    BY <2>1
<1>5. m \in S
  <2> HIDE DEF S
  <2> QED
    BY <1>3, <1>4, UpTo
<1>6. Good(len)
  BY <1>5
<1> QED
  BY <1>2, <1>6

\* Bytes put in an archive come behind what it has.
LEMMA PutIs ==
    ASSUME NEW oa \in Archives, NEW bytes \in Seq(Octets)
    PROVE  /\ Put(oa, bytes) \in Archives
           /\ Put(oa, bytes).buffer = oa.buffer \o bytes
           /\ Begins(oa.buffer, oa.buffer \o bytes)
           /\ Len(oa.buffer \o bytes) = Len(oa.buffer) + Len(bytes)
<1> DEFINE n == Len(bytes)
           used == Len(oa.buffer)
           len == IF oa.len - used < n THEN resize_buffer(oa.len, oa.len + n) ELSE oa.len
<1>1. /\ oa.buffer \in Seq(Octets) /\ oa.len \in Nat \ {0} /\ oa.fits = TRUE
      /\ n \in Nat /\ used \in Nat /\ used <= oa.len
  <2>1. oa \in [buffer : Seq(Octets), len : Nat \ {0}, fits : {TRUE}] /\ used <= oa.len
    BY DEF Archives
  <2>2. oa.buffer \in Seq(Octets) /\ oa.len \in Nat \ {0} /\ oa.fits \in {TRUE}
    BY <2>1, Zenon
  <2>3. oa.fits = TRUE
    BY <2>2, Zenon
  <2> QED
    BY <2>1, <2>2, <2>3
<1>2. len \in Nat \ {0} /\ used + n <= len
  <2>1. oa.len + n \in Nat
    BY <1>1
  <2>2. LET r == resize_buffer(oa.len, oa.len + n) IN r \in Nat /\ r >= oa.len + n /\ r >= oa.len
    BY <1>1, <2>1, ResizeIsEnough
  <2> QED
    BY <1>1, <2>2
<1>3. /\ oa.buffer \o bytes \in Seq(Octets) /\ Len(oa.buffer \o bytes) = used + n
      /\ \A i \in 1 .. used : (oa.buffer \o bytes)[i] = oa.buffer[i]
  BY <1>1, ConcatProperties
<1>4. Put(oa, bytes) = [buffer |-> oa.buffer \o bytes, len |-> len, fits |-> TRUE]
  <2>1. Put(oa, bytes) = [buffer |-> oa.buffer \o bytes, len |-> len,
                          fits |-> oa.fits /\ used + n <= len]
    BY DEF Put
  <2>2. (oa.fits /\ used + n <= len) = TRUE
    BY <1>1, <1>2
  <2> QED
    BY <2>1, <2>2
<1> HIDE DEF len
<1> QED
  BY <1>1, <1>2, <1>3, <1>4 DEF Archives, Begins

\* What begins with what begins with s.
LEMMA BeginsIs ==
    /\ \A s \in Seq(Octets) : Begins(s, s)
    /\ \A s, t, u \in Seq(Octets) : Begins(s, t) /\ Begins(t, u) => Begins(s, u)
<1>1. ASSUME NEW s \in Seq(Octets), NEW t \in Seq(Octets), NEW u \in Seq(Octets),
             Begins(s, t), Begins(t, u)
      PROVE  Begins(s, u)
  <2>1. Len(s) \in Nat /\ Len(t) \in Nat /\ Len(u) \in Nat
    OBVIOUS
  <2>2. ASSUME NEW i \in 1 .. Len(s) PROVE u[i] = s[i]
    <3>1. i \in 1 .. Len(t)
      BY <1>1, <2>1 DEF Begins
    <3> QED
      BY <1>1, <3>1 DEF Begins
  <2> QED
    BY <1>1, <2>1, <2>2 DEF Begins
<1> QED
  BY <1>1 DEF Begins

\* Numbers and characters as bytes.
LEMMA NumberIs ==
    ASSUME NEW size \in Nat, NEW v \in Int
    PROVE  /\ Number(size, v) \in Seq(Octets) /\ Len(Number(size, v)) = size
           /\ \A i \in 1 .. size : Number(size, v)[i] = <<size, i, v>>
<1>1. \A i \in 1 .. size : <<size, i, v>> \in Octets
  BY DEF Octets
<1>2. [i \in 1 .. size |-> <<size, i, v>>] \in [1 .. size -> Octets]
  BY <1>1
<1> QED
  BY <1>2 DEF Number

\* The characters of a string on the wire.
LEMMA CharactersAre ==
    ASSUME NEW s \in Seq(Int)
    PROVE  /\ Characters(s) \in Seq(Octets) /\ Len(Characters(s)) = Len(s)
           /\ \A i \in 1 .. Len(s) : Characters(s)[i] = <<1, 1, s[i]>>
<1>1. DOMAIN s = 1 .. Len(s) /\ Len(s) \in Nat
  OBVIOUS
<1>2. \A i \in 1 .. Len(s) : <<1, 1, s[i]>> \in Octets
  BY DEF Octets
<1>3. [i \in 1 .. Len(s) |-> <<1, 1, s[i]>>] \in [1 .. Len(s) -> Octets]
  BY <1>2
<1> QED
  BY <1>1, <1>3 DEF Characters

-----------------------------------------------------------------------------
(* What is read.                                                           *)

\* As far as in goes, s is in it behind the first d bytes.
Agree(in, d, s) == \A i \in 1 .. Len(s) : d + i <= Len(in) => in[d + i] = s[i]

\* The n bytes behind the first off.
LEMMA PartIs ==
    ASSUME NEW S, NEW in \in Seq(S), NEW off \in Nat, NEW n \in Nat, off + n <= Len(in)
    PROVE  LET part == SubSeq(in, off + 1, off + n) IN
           /\ part \in Seq(S) /\ Len(part) = n
           /\ \A i \in 1 .. n : part[i] = in[off + i]
<1> DEFINE part == SubSeq(in, off + 1, off + n)
<1>1. Len(in) \in Nat /\ off + 1 \in 1 .. Len(in) + 1 /\ off + n \in off .. Len(in)
  OBVIOUS
<1>2. /\ part \in Seq(S) /\ Len(part) = (off + n) - (off + 1) + 1
      /\ \A i \in 1 .. (off + n) - (off + 1) + 1 : part[i] = in[off + 1 + i - 1]
  BY <1>1, SubSeqProperties
<1> HIDE DEF part
<1>3. \A i \in 1 .. n : part[i] = in[off + i]
  <2>1. ASSUME NEW i \in 1 .. n PROVE part[i] = in[off + i]
    <3>1. off + 1 + i - 1 = off + i /\ i \in 1 .. (off + n) - (off + 1) + 1
      OBVIOUS
    <3> QED
      BY <1>2, <3>1
  <2> QED
    BY <2>1
<1>4. (off + n) - (off + 1) + 1 = n
  OBVIOUS
<1> QED
  BY <1>2, <1>3, <1>4 DEF part

\* A number is read as it was written, or too little is left.
LEMMA ReadNumberIs ==
    ASSUME NEW in \in Seq(Octets), NEW d \in Nat, NEW s \in Seq(Octets),
           NEW size \in Nat \ {0}, NEW v \in Int, Agree(in, d, s \o Number(size, v))
    PROVE  ReadNumber(in, d + Len(s), size) =
               IF Len(in) < d + Len(s) + size THEN Read(E2BIG, d + Len(s), GARBAGE)
               ELSE Read(0, d + Len(s) + size, v)
<1> DEFINE off == d + Len(s)
           bytes == SubSeq(in, off + 1, off + size)
<1>1. Len(s) \in Nat /\ Len(in) \in Nat /\ off \in Nat
  OBVIOUS
<1>2. CASE Len(in) < off + size
  <2>1. Short(in, off, size)
    BY <1>1, <1>2 DEF Short
  <2> QED
    BY <1>2, <2>1 DEF ReadNumber
<1>3. CASE Len(in) >= off + size
  <2>1. ~Short(in, off, size)
    BY <1>1, <1>3 DEF Short
  <2>2. Len(bytes) = size /\ \A i \in 1 .. size : bytes[i] = in[off + i]
    BY <1>1, <1>3, PartIs
  <2>3. ASSUME NEW i \in 1 .. size PROVE bytes[i] = <<size, i, v>>
    <3>1. /\ Number(size, v) \in Seq(Octets) /\ Len(Number(size, v)) = size
          /\ Number(size, v)[i] = <<size, i, v>>
      BY NumberIs
    <3>2. Len(s) + i \in 1 .. Len(s \o Number(size, v))
          /\ (s \o Number(size, v))[Len(s) + i] = Number(size, v)[i]
      BY <1>1, <3>1, ConcatProperties
    <3>3. d + (Len(s) + i) = off + i /\ off + i <= Len(in)
      BY <1>1, <1>3
    <3>4. in[d + (Len(s) + i)] = (s \o Number(size, v))[Len(s) + i]
      BY <3>2, <3>3 DEF Agree
    <3> QED
      BY <2>2, <3>1, <3>2, <3>3, <3>4
  <2> HIDE DEF bytes
  <2>4. NumberIn(bytes) = v
    BY <2>2, <2>3 DEF NumberIn
  <2>5. ~(Len(in) < off + size)
    BY <1>1, <1>3
  <2> QED
    BY <2>1, <2>4, <2>5 DEF ReadNumber, bytes
<1> QED
  BY <1>1, <1>2, <1>3

\* And so are the bytes behind their length.
LEMMA ReadBytesIs ==
    ASSUME NEW in \in Seq(Octets), NEW d \in Nat, NEW s \in Seq(Octets),
           NEW x \in Seq(Int), NEW null, Agree(in, d, s \o Characters(x))
    PROVE  ReadBytes(in, Read(0, d + Len(s), Len(x)), null) =
               IF Len(in) < d + Len(s) + Len(x) THEN Read(E2BIG, d + Len(s), GARBAGE)
               ELSE Read(0, d + Len(s) + Len(x), x)
<1> DEFINE off == d + Len(s)
           n == Len(x)
           len == Read(0, off, n)
           bytes == SubSeq(in, off + 1, off + n)
<1>1. Len(s) \in Nat /\ Len(in) \in Nat /\ off \in Nat /\ n \in Nat
  OBVIOUS
<1>2. len.rc = 0 /\ len.off = off /\ len.val = n /\ n # GARBAGE /\ n # -1
  BY <1>1, NullAssumption DEF Read
<1> HIDE DEF len
<1>3. ReadBytes(in, len, null) =
          IF Short(in, off, n) THEN Read(E2BIG, off, GARBAGE)
          ELSE Read(0, off + n, CharactersIn(bytes))
  BY <1>2 DEF ReadBytes
<1>4. Short(in, off, n) <=> Len(in) < off + n
  BY <1>1 DEF Short
<1>5. ASSUME Len(in) >= off + n PROVE CharactersIn(bytes) = x
  <2>1. Len(bytes) = n /\ bytes \in Seq(Octets) /\ \A i \in 1 .. n : bytes[i] = in[off + i]
    BY <1>1, <1>5, PartIs
  <2>2. ASSUME NEW i \in 1 .. n PROVE bytes[i] = <<1, 1, x[i]>>
    <3>1. /\ Characters(x) \in Seq(Octets) /\ Len(Characters(x)) = n
          /\ Characters(x)[i] = <<1, 1, x[i]>>
      BY CharactersAre
    <3>2. Len(s) + i \in 1 .. Len(s \o Characters(x))
          /\ (s \o Characters(x))[Len(s) + i] = Characters(x)[i]
      <4> DEFINE c == Characters(x)
      <4>1. /\ Len(s \o c) = Len(s) + Len(c)
            /\ \A k \in 1 .. Len(s) + Len(c) :
                  (s \o c)[k] = IF k <= Len(s) THEN s[k] ELSE c[k - Len(s)]
        <5>1. c \in Seq(Octets)
          BY <3>1
        <5> HIDE DEF c
        <5> QED
          BY <1>1, <5>1, ConcatProperties
      <4>2. /\ Len(s) + i \in 1 .. Len(s) + Len(c)
            /\ ~(Len(s) + i <= Len(s)) /\ (Len(s) + i) - Len(s) = i
        <5>1. Len(s) \in Nat /\ Len(c) = n /\ n \in Nat /\ i \in 1 .. n
          BY <1>1, <3>1
        <5> QED
          BY <5>1
      <4> QED
        BY <4>1, <4>2
    <3>3. d + (Len(s) + i) = off + i /\ off + i <= Len(in)
      BY <1>1, <1>5
    <3>4. in[d + (Len(s) + i)] = (s \o Characters(x))[Len(s) + i]
      BY <3>2, <3>3 DEF Agree
    <3> QED
      BY <2>1, <3>1, <3>2, <3>3, <3>4
  <2> HIDE DEF bytes
  <2>3. DOMAIN bytes = 1 .. n /\ x = [i \in 1 .. n |-> x[i]]
    BY <2>1
  <2>4. CharactersIn(bytes) = [i \in 1 .. n |-> x[i]]
    BY <2>2, <2>3 DEF CharactersIn
  <2> QED
    BY <2>3, <2>4
<1> QED
  BY <1>1, <1>3, <1>4, <1>5 DEF len

-----------------------------------------------------------------------------
(* Fields.                                                                 *)

\* The names of fields.
Labels ==
    {"acl", "auth", "authinfo", "aversion", "childWatches", "children", "clientId", "ctime",
     "cversion", "cxid", "czxid", "data", "dataLength", "dataWatches", "dbid", "ephemeral",
     "ephemeralOwner", "err", "existWatches", "flags", "id", "lastZxidSeen", "magic", "max",
     "mtime", "mzxid", "numChildren", "op", "passwd", "path", "perms", "protocolVersion",
     "pzxid", "rc", "relativeZxid", "response", "scheme", "sessionId", "state", "time",
     "timeOut", "type", "version", "watch", "xid", "zxid"}

\* A field that is no vector, and a value that may be written for it.
ScalarKinds == {"Int", "Long", "Bool", "String", "Buffer"}
Scalars == [name : Labels, kind : ScalarKinds, of : {<<>>}]

FitsScalar(f, v) ==
    /\ f.kind \in {"Int", "Long", "Bool"} => v \in Int
    /\ f.kind = "String" => v \in Seq(Int)
    /\ f.kind = "Buffer" => v \in Seq(Int) \cup {NULL}

\* What is read of it.
SeenScalar(f, v) == IF f.kind = "Bool" THEN (IF v = 0 THEN 0 ELSE 1) ELSE v

\* The result of reading what fills the archive up to end, when this is x: x itself if all
\* of it is there.
ReadsAs(r, in, end, x) ==
    IF Len(in) < end THEN r.rc = E2BIG ELSE r = Read(0, end, x)

\* The kind of a field is one of five.
LEMMA KindsOf ==
    ASSUME NEW f \in Scalars
    PROVE  \/ f.kind = "Int" \/ f.kind = "Long" \/ f.kind = "Bool"
           \/ f.kind = "String" \/ f.kind = "Buffer"
BY DEF Scalars, ScalarKinds

\* The bytes of an archive.
LEMMA BufferOf ==
    ASSUME NEW oa \in Archives
    PROVE  oa.buffer \in Seq(Octets) /\ Len(oa.buffer) \in Nat
<1>1. oa \in [buffer : Seq(Octets), len : Nat \ {0}, fits : {TRUE}]
  BY DEF Archives
<1> QED
  BY <1>1

\* A number in an archive.
LEMMA NumberSurvives ==
    ASSUME NEW oa \in Archives, NEW size \in {1, 4, 8}, NEW v \in Int
    PROVE  LET b == Put(oa, Number(size, v)) IN
           /\ b \in Archives /\ Begins(oa.buffer, b.buffer)
           /\ Len(b.buffer) = Len(oa.buffer) + size
           /\ \A in \in Seq(Octets), d \in Nat : Agree(in, d, b.buffer) =>
                 ReadNumber(in, d + Len(oa.buffer), size) =
                     IF Len(in) < d + Len(b.buffer)
                     THEN Read(E2BIG, d + Len(oa.buffer), GARBAGE)
                     ELSE Read(0, d + Len(b.buffer), v)
<1> DEFINE b == Put(oa, Number(size, v))
<1>1. Number(size, v) \in Seq(Octets) /\ Len(Number(size, v)) = size
  BY NumberIs
<1>2. /\ b \in Archives /\ b.buffer = oa.buffer \o Number(size, v)
      /\ Begins(oa.buffer, b.buffer) /\ Len(b.buffer) = Len(oa.buffer) + size
  BY <1>1, PutIs
<1>3. oa.buffer \in Seq(Octets) /\ Len(oa.buffer) \in Nat
  BY BufferOf
<1> HIDE DEF b
<1>4. ASSUME NEW in \in Seq(Octets), NEW d \in Nat, Agree(in, d, b.buffer)
      PROVE  ReadNumber(in, d + Len(oa.buffer), size) =
                 IF Len(in) < d + Len(b.buffer)
                 THEN Read(E2BIG, d + Len(oa.buffer), GARBAGE)
                 ELSE Read(0, d + Len(b.buffer), v)
  <2>1. ReadNumber(in, d + Len(oa.buffer), size) =
            IF Len(in) < d + Len(oa.buffer) + size
            THEN Read(E2BIG, d + Len(oa.buffer), GARBAGE)
            ELSE Read(0, d + Len(oa.buffer) + size, v)
    <3>1. Agree(in, d, oa.buffer \o Number(size, v)) /\ size \in Nat \ {0}
      BY <1>2, <1>4
    <3> QED
      BY <1>3, <3>1, ReadNumberIs, ZenonT(30)
  <2>2. d + Len(oa.buffer) + size = d + Len(b.buffer)
    BY <1>2, <1>3
  <2> QED
    BY <2>1, <2>2
<1> QED
  BY <1>2, <1>4 DEF b

\* If in agrees with an archive it does with the one that was there before.
LEMMA AgreeBefore ==
    ASSUME NEW in, NEW d, NEW s \in Seq(Octets), NEW t \in Seq(Octets), Begins(s, t),
           Agree(in, d, t)
    PROVE  Agree(in, d, s)
<1>1. ASSUME NEW i \in 1 .. Len(s), d + i <= Len(in) PROVE in[d + i] = s[i]
  <2>1. i \in 1 .. Len(t) /\ t[i] = s[i]
    BY DEF Begins
  <2> QED
    BY <1>1, <2>1 DEF Agree
<1> QED
  BY <1>1 DEF Agree

\* A length and as many characters.
LEMMA StringSurvives ==
    ASSUME NEW oa \in Archives, NEW x \in Seq(Int)
    PROVE  LET b == Put(Put(oa, Number(4, Len(x))), Characters(x)) IN
           /\ b \in Archives /\ Begins(oa.buffer, b.buffer)
           /\ Len(b.buffer) = Len(oa.buffer) + 4 + Len(x)
           /\ \A null : \A in \in Seq(Octets), d \in Nat : Agree(in, d, b.buffer) =>
                 ReadsAs(ReadBytes(in, ReadNumber(in, d + Len(oa.buffer), 4), null),
                         in, d + Len(b.buffer), x)
<1> DEFINE a == Put(oa, Number(4, Len(x)))
           b == Put(a, Characters(x))
<1>1. Len(x) \in Int /\ Len(x) \in Nat
  OBVIOUS
<1>2. /\ a \in Archives /\ Begins(oa.buffer, a.buffer) /\ Len(a.buffer) = Len(oa.buffer) + 4
      /\ \A in \in Seq(Octets), d \in Nat : Agree(in, d, a.buffer) =>
            ReadNumber(in, d + Len(oa.buffer), 4) =
                IF Len(in) < d + Len(a.buffer)
                THEN Read(E2BIG, d + Len(oa.buffer), GARBAGE)
                ELSE Read(0, d + Len(a.buffer), Len(x))
  BY <1>1, NumberSurvives
<1> HIDE DEF a
<1>3. Characters(x) \in Seq(Octets) /\ Len(Characters(x)) = Len(x)
  BY CharactersAre
<1>4. /\ b \in Archives /\ b.buffer = a.buffer \o Characters(x)
      /\ Begins(a.buffer, b.buffer) /\ Len(b.buffer) = Len(a.buffer) + Len(x)
  BY <1>2, <1>3, PutIs
<1> HIDE DEF b
<1>5. /\ oa.buffer \in Seq(Octets) /\ a.buffer \in Seq(Octets) /\ b.buffer \in Seq(Octets)
      /\ Len(oa.buffer) \in Nat /\ Len(a.buffer) \in Nat
  BY <1>2, <1>4, BufferOf
<1>6. Begins(oa.buffer, b.buffer)
  BY <1>2, <1>4, <1>5, BeginsIs
<1>7. ASSUME NEW in \in Seq(Octets), NEW d \in Nat, NEW null, Agree(in, d, b.buffer)
      PROVE  ReadsAs(ReadBytes(in, ReadNumber(in, d + Len(oa.buffer), 4), null),
                     in, d + Len(b.buffer), x)
  <2>1. Agree(in, d, a.buffer)
    BY <1>4, <1>5, <1>7, AgreeBefore
  <2>2. ReadNumber(in, d + Len(oa.buffer), 4) =
            IF Len(in) < d + Len(a.buffer) THEN Read(E2BIG, d + Len(oa.buffer), GARBAGE)
            ELSE Read(0, d + Len(a.buffer), Len(x))
    BY <1>2, <2>1
  <2>3. CASE Len(in) < d + Len(a.buffer)
    <3>1. Len(in) < d + Len(b.buffer)
      BY <1>1, <1>4, <1>5, <2>3
    <3>2. ReadNumber(in, d + Len(oa.buffer), 4) = Read(E2BIG, d + Len(oa.buffer), GARBAGE)
      BY <2>2, <2>3
    <3>3. LET r == Read(E2BIG, d + Len(oa.buffer), GARBAGE) IN
          r.rc = E2BIG /\ ReadBytes(in, r, null) = r
      BY DEF ReadBytes, Read, E2BIG
    <3> QED
      BY <3>1, <3>2, <3>3 DEF ReadsAs
  <2>4. CASE ~(Len(in) < d + Len(a.buffer))
    <3>1. ReadNumber(in, d + Len(oa.buffer), 4) = Read(0, d + Len(a.buffer), Len(x))
      BY <2>2, <2>4
    <3>2. ReadBytes(in, Read(0, d + Len(a.buffer), Len(x)), null) =
              IF Len(in) < d + Len(a.buffer) + Len(x)
              THEN Read(E2BIG, d + Len(a.buffer), GARBAGE)
              ELSE Read(0, d + Len(a.buffer) + Len(x), x)
      <4>1. Agree(in, d, a.buffer \o Characters(x))
        BY <1>4, <1>7
      <4>2. ASSUME NEW s \in Seq(Octets), Agree(in, d, s \o Characters(x))
            PROVE  ReadBytes(in, Read(0, d + Len(s), Len(x)), null) =
                       IF Len(in) < d + Len(s) + Len(x) THEN Read(E2BIG, d + Len(s), GARBAGE)
                       ELSE Read(0, d + Len(s) + Len(x), x)
        BY <4>2, ReadBytesIs
      <4> QED
        BY <1>5, <4>1, <4>2
    <3>3. d + Len(a.buffer) + Len(x) = d + Len(b.buffer)
      BY <1>1, <1>4, <1>5
    <3>4. Read(E2BIG, d + Len(a.buffer), GARBAGE).rc = E2BIG
      BY DEF Read
    <3> QED
      BY <3>1, <3>2, <3>3, <3>4 DEF ReadsAs
  <2> QED
    BY <2>3, <2>4
<1>8. Len(b.buffer) = Len(oa.buffer) + 4 + Len(x)
  BY <1>1, <1>2, <1>4, <1>5
<1> QED
  BY <1>4, <1>6, <1>7, <1>8 DEF a, b

\* A field is written behind what is there, and read as it was written, or too little is left.
LEMMA FieldSurvives ==
    ASSUME NEW oa \in Archives, NEW f \in Scalars, NEW v, FitsScalar(f, v)
    PROVE  LET b == WriteField(oa, f, v) IN
           /\ b \in Archives /\ Begins(oa.buffer, b.buffer)
           /\ \A in \in Seq(Octets), d \in Nat : Agree(in, d, b.buffer) =>
                 ReadsAs(ReadField(in, d + Len(oa.buffer), f.kind),
                         in, d + Len(b.buffer), SeenScalar(f, v))
<1> DEFINE b == WriteField(oa, f, v)
           Goal == /\ b \in Archives /\ Begins(oa.buffer, b.buffer)
                   /\ \A in \in Seq(Octets), d \in Nat : Agree(in, d, b.buffer) =>
                         ReadsAs(ReadField(in, d + Len(oa.buffer), f.kind),
                                 in, d + Len(b.buffer), SeenScalar(f, v))
           n == IF f.kind = "Bool" THEN (IF v = 0 THEN 0 ELSE 1) ELSE v
<1>0. \A off : Read(E2BIG, off, GARBAGE).rc = E2BIG
  BY DEF Read
<1>1. ASSUME NEW size \in {1, 4, 8}, NEW x \in Int, b = Put(oa, Number(size, x)),
             SeenScalar(f, v) = x,
             \A in, off : ReadField(in, off, f.kind) = ReadNumber(in, off, size)
      PROVE  Goal
  <2> HIDE DEF b
  <2>1. /\ b \in Archives /\ Begins(oa.buffer, b.buffer)
        /\ \A in \in Seq(Octets), d \in Nat : Agree(in, d, b.buffer) =>
              ReadNumber(in, d + Len(oa.buffer), size) =
                  IF Len(in) < d + Len(b.buffer)
                  THEN Read(E2BIG, d + Len(oa.buffer), GARBAGE)
                  ELSE Read(0, d + Len(b.buffer), x)
    BY <1>1, NumberSurvives, ZenonT(30)
  <2>2. ASSUME NEW in \in Seq(Octets), NEW d \in Nat, Agree(in, d, b.buffer)
        PROVE  ReadsAs(ReadField(in, d + Len(oa.buffer), f.kind),
                       in, d + Len(b.buffer), SeenScalar(f, v))
    <3>1. ReadField(in, d + Len(oa.buffer), f.kind) =
              IF Len(in) < d + Len(b.buffer)
              THEN Read(E2BIG, d + Len(oa.buffer), GARBAGE)
              ELSE Read(0, d + Len(b.buffer), x)
      BY <1>1, <2>1, <2>2
    <3> QED
      BY <1>0, <1>1, <3>1 DEF ReadsAs
  <2> QED
    BY <2>1, <2>2
<1>2. ASSUME f.kind \in {"String", "Buffer"}, v \in Seq(Int)
      PROVE  Goal
  <2>1. v # NULL /\ SeenScalar(f, v) = v
    BY <1>2, NullAssumption DEF SeenScalar
  <2>2. b = Put(Put(oa, Number(4, Len(v))), Characters(v))
    BY <1>2, <2>1 DEF WriteField, oa_serialize_string, oa_serialize_buffer, oa_serialize_int
  <2> HIDE DEF b
  <2>3. /\ b \in Archives /\ Begins(oa.buffer, b.buffer)
        /\ \A null : \A in \in Seq(Octets), d \in Nat : Agree(in, d, b.buffer) =>
              ReadsAs(ReadBytes(in, ReadNumber(in, d + Len(oa.buffer), 4), null),
                      in, d + Len(b.buffer), v)
    BY <1>2, <2>2, StringSurvives
  <2>4. ASSUME NEW in \in Seq(Octets), NEW d \in Nat, Agree(in, d, b.buffer)
        PROVE  ReadsAs(ReadField(in, d + Len(oa.buffer), f.kind),
                       in, d + Len(b.buffer), SeenScalar(f, v))
    <3> DEFINE off == d + Len(oa.buffer)
    <3>1. \E null : ReadField(in, off, f.kind) = ReadBytes(in, ReadNumber(in, off, 4), null)
      <4>1. CASE f.kind = "String"
        BY <4>1 DEF ReadField, ia_deserialize_string
      <4>2. CASE f.kind = "Buffer"
        BY <4>2 DEF ReadField, ia_deserialize_buffer
      <4> QED
        BY <1>2, <4>1, <4>2
    <3> QED
      BY <2>1, <2>3, <2>4, <3>1
  <2> QED
    BY <2>3, <2>4
<1>3. ASSUME f.kind = "Buffer", v = NULL
      PROVE  Goal
  <2>1. b = Put(oa, Number(4, -1)) /\ SeenScalar(f, v) = NULL
    BY <1>3 DEF WriteField, oa_serialize_buffer, oa_serialize_int, SeenScalar
  <2> HIDE DEF b
  <2>2. /\ b \in Archives /\ Begins(oa.buffer, b.buffer)
        /\ Len(b.buffer) = Len(oa.buffer) + 4
        /\ \A in \in Seq(Octets), d \in Nat : Agree(in, d, b.buffer) =>
              ReadNumber(in, d + Len(oa.buffer), 4) =
                  IF Len(in) < d + Len(b.buffer)
                  THEN Read(E2BIG, d + Len(oa.buffer), GARBAGE)
                  ELSE Read(0, d + Len(b.buffer), -1)
    <3>1. -1 \in Int /\ 4 \in {1, 4, 8}
      OBVIOUS
    <3> QED
      BY <2>1, <3>1, NumberSurvives
  <2>3. ASSUME NEW in \in Seq(Octets), NEW d \in Nat, Agree(in, d, b.buffer)
        PROVE  ReadsAs(ReadField(in, d + Len(oa.buffer), f.kind),
                       in, d + Len(b.buffer), SeenScalar(f, v))
    <3> DEFINE off == d + Len(oa.buffer)
               end == d + Len(b.buffer)
               null == Read(0, off + 4, NULL)
    <3>1. Len(oa.buffer) \in Nat /\ Len(in) \in Nat /\ off + 4 = end /\ end \in Nat
      BY <2>2, BufferOf
    <3>2. ReadField(in, off, f.kind) = ReadBytes(in, ReadNumber(in, off, 4), null)
      BY <1>3 DEF ReadField, ia_deserialize_buffer
    <3>3. ReadNumber(in, off, 4) = IF Len(in) < end THEN Read(E2BIG, off, GARBAGE)
                                   ELSE Read(0, end, -1)
      BY <2>2, <2>3
    <3>4. CASE Len(in) < end
      <4>1. LET r == Read(E2BIG, off, GARBAGE) IN r.rc = E2BIG /\ ReadBytes(in, r, null) = r
        BY DEF ReadBytes, Read, E2BIG
      <4> QED
        BY <3>2, <3>3, <3>4, <4>1 DEF ReadsAs
    <3>5. CASE ~(Len(in) < end)
      <4> DEFINE r == Read(0, end, -1)
      <4>1. r.rc = 0 /\ r.off = end /\ r.val = -1 /\ -1 # GARBAGE
        BY NullAssumption DEF Read
      <4>2. ~Short(in, end, -1)
        <5>1. \A m, e \in Nat : ~(m < e) => ~(m - e < -1)
          OBVIOUS
        <5> QED
          BY <3>1, <3>5, <5>1 DEF Short
      <4> HIDE DEF r
      <4>3. ReadBytes(in, r, null) = null
        BY <4>1, <4>2 DEF ReadBytes
      <4> QED
        BY <2>1, <3>1, <3>2, <3>3, <3>5, <4>3 DEF ReadsAs, r
    <3> QED
      BY <3>4, <3>5
  <2> QED
    BY <2>2, <2>3
<1>4. ASSUME f.kind \in {"Int", "Long", "Bool"} PROVE Goal
  <2>1. v \in Int /\ n \in Int /\ SeenScalar(f, v) = n
    BY <1>4 DEF FitsScalar, SeenScalar
  <2>2. CASE f.kind = "Int"
    <3>1. b = Put(oa, Number(4, n))
      BY <2>2 DEF WriteField, oa_serialize_int
    <3>2. \A in, off : ReadField(in, off, f.kind) = ReadNumber(in, off, 4)
      BY <2>2 DEF ReadField
    <3> HIDE DEF b, n, Goal
    <3> QED
      BY <1>1, <2>1, <3>1, <3>2
  <2>3. CASE f.kind = "Long"
    <3>1. b = Put(oa, Number(8, n))
      BY <2>3 DEF WriteField, oa_serialize_long
    <3>2. \A in, off : ReadField(in, off, f.kind) = ReadNumber(in, off, 8)
      BY <2>3 DEF ReadField
    <3> HIDE DEF b, n, Goal
    <3> QED
      BY <1>1, <2>1, <3>1, <3>2
  <2>4. CASE f.kind = "Bool"
    <3>1. b = Put(oa, Number(1, n))
      BY <2>4 DEF WriteField, oa_serialize_bool
    <3>2. \A in, off : ReadField(in, off, f.kind) = ReadNumber(in, off, 1)
      BY <2>4 DEF ReadField
    <3> HIDE DEF b, n, Goal
    <3> QED
      BY <1>1, <2>1, <3>1, <3>2
  <2> QED
    BY <1>4, <2>2, <2>3, <2>4
<1>5. f.kind \in {"Int", "Long", "Bool"} \/ (f.kind \in {"String", "Buffer"} /\ v \in Seq(Int))
      \/ (f.kind = "Buffer" /\ v = NULL)
  BY KindsOf DEF FitsScalar
<1> QED
  BY <1>2, <1>3, <1>4, <1>5

-----------------------------------------------------------------------------
(* Recursion.                                                              *)

\* f[i] is the archive after i of the fields.
FieldsWritten(f, oa, schema, v) ==
    f = [i \in 0 .. Len(schema) |-> IF i = 0 THEN oa
                             ELSE WriteField(f[i - 1], schema[i], v[schema[i].name])]

\* The recursive functions that write and read are there: each is defined from 0 up.
LEMMA ElementIsWritten ==
    ASSUME NEW oa, NEW schema, NEW v, Len(schema) \in Nat
    PROVE  \E f : FieldsWritten(f, oa, schema, v)
<1> DEFINE n == Len(schema)
           Is(f, k) == /\ DOMAIN f = 0 .. k /\ f[0] = oa
                       /\ \A i \in 1 .. k :
                             f[i] = WriteField(f[i - 1], schema[i], v[schema[i].name])
           S == {k \in Nat : \E f : Is(f, k)}
<1>1. 0 \in S
  <2>1. Is([i \in 0 .. 0 |-> oa], 0)
    OBVIOUS
  <2> QED
    BY <2>1
<1>2. ASSUME NEW k \in 1 .. n, k - 1 \in S PROVE k \in S
  <2>1. PICK g : Is(g, k - 1)
    BY <1>2
  <2> DEFINE h == [i \in 0 .. k |->
                 IF i = k THEN WriteField(g[k - 1], schema[k], v[schema[k].name]) ELSE g[i]]
  <2>2. /\ DOMAIN h = 0 .. k /\ h[k] = WriteField(g[k - 1], schema[k], v[schema[k].name])
        /\ \A i \in 0 .. k - 1 : h[i] = g[i]
    OBVIOUS
  <2> HIDE DEF h
  <2>3. ASSUME NEW i \in 1 .. k PROVE h[i] = WriteField(h[i - 1], schema[i], v[schema[i].name])
    <3>1. i - 1 \in 0 .. k - 1 /\ h[i - 1] = g[i - 1]
      BY <2>2
    <3>2. CASE i = k
      BY <2>2, <3>1, <3>2
    <3>3. CASE i # k
      <4>1. i \in 1 .. k - 1 /\ h[i] = g[i]
        BY <2>2, <3>3
      <4> QED
        BY <2>1, <3>1, <4>1
    <3> QED
      BY <3>2, <3>3
  <2>4. h[0] = oa
    BY <2>1, <2>2
  <2>5. k \in Nat /\ Is(h, k)
    BY <2>2, <2>3, <2>4
  <2> QED
    BY <2>5
<1>3. n \in S
  <2>1. n \in Nat
    OBVIOUS
  <2> HIDE DEF S, n
  <2> QED
    BY <1>1, <1>2, <2>1, UpTo
<1>4. PICK g : Is(g, n)
  BY <1>3
<1> DEFINE f == [i \in 0 .. n |-> g[i]]
<1>5. f[0] = oa /\ \A i \in 1 .. n : f[i] = WriteField(f[i - 1], schema[i], v[schema[i].name])
  BY <1>4
<1>6. f = [i \in 0 .. n |-> f[i]]
  OBVIOUS
<1> HIDE DEF f
<1>7. \A i \in 0 .. n : f[i] = IF i = 0 THEN oa
        ELSE WriteField(f[i - 1], schema[i], v[schema[i].name])
  BY <1>5
<1>8. f = [i \in 0 .. Len(schema) |-> IF i = 0 THEN oa
        ELSE WriteField(f[i - 1], schema[i], v[schema[i].name])]
  BY <1>6, <1>7
<1> QED
  BY <1>8 DEF FieldsWritten

\* The elements of a vector.
LEMMA ElementsAreWritten ==
    ASSUME NEW oa, NEW schema, NEW vs, Len(vs) \in Nat
    PROVE  \E f : f = [i \in 0 .. Len(vs) |-> IF i = 0 THEN oa_serialize_int(oa, Len(vs))
                                       ELSE WriteElement(f[i - 1], schema, vs[i])]
<1> DEFINE n == Len(vs)
           Is(f, k) == /\ DOMAIN f = 0 .. k /\ f[0] = oa_serialize_int(oa, Len(vs))
                       /\ \A i \in 1 .. k : f[i] = WriteElement(f[i - 1], schema, vs[i])
           S == {k \in Nat : \E f : Is(f, k)}
<1>1. 0 \in S
  <2>1. Is([i \in 0 .. 0 |-> oa_serialize_int(oa, Len(vs))], 0)
    OBVIOUS
  <2> QED
    BY <2>1
<1>2. ASSUME NEW k \in 1 .. n, k - 1 \in S PROVE k \in S
  <2>1. PICK g : Is(g, k - 1)
    BY <1>2
  <2> DEFINE h == [i \in 0 .. k |-> IF i = k THEN WriteElement(g[k - 1], schema, vs[k]) ELSE g[i]]
  <2>2. /\ DOMAIN h = 0 .. k /\ h[k] = WriteElement(g[k - 1], schema, vs[k])
        /\ \A i \in 0 .. k - 1 : h[i] = g[i]
    OBVIOUS
  <2> HIDE DEF h
  <2>3. ASSUME NEW i \in 1 .. k PROVE h[i] = WriteElement(h[i - 1], schema, vs[i])
    <3>1. i - 1 \in 0 .. k - 1 /\ h[i - 1] = g[i - 1]
      BY <2>2
    <3>2. CASE i = k
      BY <2>2, <3>1, <3>2
    <3>3. CASE i # k
      <4>1. i \in 1 .. k - 1 /\ h[i] = g[i]
        BY <2>2, <3>3
      <4> QED
        BY <2>1, <3>1, <4>1
    <3> QED
      BY <3>2, <3>3
  <2>4. h[0] = oa_serialize_int(oa, Len(vs))
    BY <2>1, <2>2
  <2>5. k \in Nat /\ Is(h, k)
    BY <2>2, <2>3, <2>4
  <2> QED
    BY <2>5
<1>3. n \in S
  <2>1. n \in Nat
    OBVIOUS
  <2> HIDE DEF S, n
  <2> QED
    BY <1>1, <1>2, <2>1, UpTo
<1>4. PICK g : Is(g, n)
  BY <1>3
<1> DEFINE f == [i \in 0 .. n |-> g[i]]
<1>5. f[0] = oa_serialize_int(oa, Len(vs))
        /\ \A i \in 1 .. n : f[i] = WriteElement(f[i - 1], schema, vs[i])
  BY <1>4
<1>6. f = [i \in 0 .. n |-> f[i]]
  OBVIOUS
<1> HIDE DEF f
<1>7. \A i \in 0 .. n : f[i] = IF i = 0 THEN oa_serialize_int(oa, Len(vs))
        ELSE WriteElement(f[i - 1], schema, vs[i])
  BY <1>5
<1>8. f = [i \in 0 .. Len(vs) |-> IF i = 0 THEN oa_serialize_int(oa, Len(vs))
        ELSE WriteElement(f[i - 1], schema, vs[i])]
  BY <1>6, <1>7
<1> QED
  BY <1>8

\* f[i] is the archive after i of the fields.
MembersWritten(f, oa, schema, v) ==
    f = [i \in 0 .. Len(schema) |-> IF i = 0 THEN oa
                             ELSE WriteMember(f[i - 1], schema[i], v[schema[i].name])]

\* The fields of a record.
LEMMA RecordIsWritten ==
    ASSUME NEW oa, NEW schema, NEW v, Len(schema) \in Nat
    PROVE  \E f : MembersWritten(f, oa, schema, v)
<1> DEFINE n == Len(schema)
           Is(f, k) == /\ DOMAIN f = 0 .. k /\ f[0] = oa
                       /\ \A i \in 1 .. k :
                             f[i] = WriteMember(f[i - 1], schema[i], v[schema[i].name])
           S == {k \in Nat : \E f : Is(f, k)}
<1>1. 0 \in S
  <2>1. Is([i \in 0 .. 0 |-> oa], 0)
    OBVIOUS
  <2> QED
    BY <2>1
<1>2. ASSUME NEW k \in 1 .. n, k - 1 \in S PROVE k \in S
  <2>1. PICK g : Is(g, k - 1)
    BY <1>2
  <2> DEFINE h == [i \in 0 .. k |->
                 IF i = k THEN WriteMember(g[k - 1], schema[k], v[schema[k].name]) ELSE g[i]]
  <2>2. /\ DOMAIN h = 0 .. k /\ h[k] = WriteMember(g[k - 1], schema[k], v[schema[k].name])
        /\ \A i \in 0 .. k - 1 : h[i] = g[i]
    OBVIOUS
  <2> HIDE DEF h
  <2>3. ASSUME NEW i \in 1 .. k PROVE h[i] = WriteMember(h[i - 1], schema[i], v[schema[i].name])
    <3>1. i - 1 \in 0 .. k - 1 /\ h[i - 1] = g[i - 1]
      BY <2>2
    <3>2. CASE i = k
      BY <2>2, <3>1, <3>2
    <3>3. CASE i # k
      <4>1. i \in 1 .. k - 1 /\ h[i] = g[i]
        BY <2>2, <3>3
      <4> QED
        BY <2>1, <3>1, <4>1
    <3> QED
      BY <3>2, <3>3
  <2>4. h[0] = oa
    BY <2>1, <2>2
  <2>5. k \in Nat /\ Is(h, k)
    BY <2>2, <2>3, <2>4
  <2> QED
    BY <2>5
<1>3. n \in S
  <2>1. n \in Nat
    OBVIOUS
  <2> HIDE DEF S, n
  <2> QED
    BY <1>1, <1>2, <2>1, UpTo
<1>4. PICK g : Is(g, n)
  BY <1>3
<1> DEFINE f == [i \in 0 .. n |-> g[i]]
<1>5. f[0] = oa /\ \A i \in 1 .. n : f[i] = WriteMember(f[i - 1], schema[i], v[schema[i].name])
  BY <1>4
<1>6. f = [i \in 0 .. n |-> f[i]]
  OBVIOUS
<1> HIDE DEF f
<1>7. \A i \in 0 .. n : f[i] = IF i = 0 THEN oa
        ELSE WriteMember(f[i - 1], schema[i], v[schema[i].name])
  BY <1>5
<1>8. f = [i \in 0 .. Len(schema) |-> IF i = 0 THEN oa
        ELSE WriteMember(f[i - 1], schema[i], v[schema[i].name])]
  BY <1>6, <1>7
<1> QED
  BY <1>8 DEF MembersWritten

\* And the same for reading.
LEMMA ElementIsRead ==
    ASSUME NEW in, NEW start, NEW schema, Len(schema) \in Nat
    PROVE  \E f : f = [i \in 0 .. Len(schema) |-> IF i = 0 THEN start
                                       ELSE ReadNextField(in, f[i - 1], schema[i])]
<1> DEFINE n == Len(schema)
           Is(f, k) == /\ DOMAIN f = 0 .. k /\ f[0] = start
                       /\ \A i \in 1 .. k : f[i] = ReadNextField(in, f[i - 1], schema[i])
           S == {k \in Nat : \E f : Is(f, k)}
<1>1. 0 \in S
  <2>1. Is([i \in 0 .. 0 |-> start], 0)
    OBVIOUS
  <2> QED
    BY <2>1
<1>2. ASSUME NEW k \in 1 .. n, k - 1 \in S PROVE k \in S
  <2>1. PICK g : Is(g, k - 1)
    BY <1>2
  <2> DEFINE h == [i \in 0 .. k |-> IF i = k THEN ReadNextField(in, g[k - 1], schema[k])
                    ELSE g[i]]
  <2>2. /\ DOMAIN h = 0 .. k /\ h[k] = ReadNextField(in, g[k - 1], schema[k])
        /\ \A i \in 0 .. k - 1 : h[i] = g[i]
    OBVIOUS
  <2> HIDE DEF h
  <2>3. ASSUME NEW i \in 1 .. k PROVE h[i] = ReadNextField(in, h[i - 1], schema[i])
    <3>1. i - 1 \in 0 .. k - 1 /\ h[i - 1] = g[i - 1]
      BY <2>2
    <3>2. CASE i = k
      BY <2>2, <3>1, <3>2
    <3>3. CASE i # k
      <4>1. i \in 1 .. k - 1 /\ h[i] = g[i]
        BY <2>2, <3>3
      <4> QED
        BY <2>1, <3>1, <4>1
    <3> QED
      BY <3>2, <3>3
  <2>4. h[0] = start
    BY <2>1, <2>2
  <2>5. k \in Nat /\ Is(h, k)
    BY <2>2, <2>3, <2>4
  <2> QED
    BY <2>5
<1>3. n \in S
  <2>1. n \in Nat
    OBVIOUS
  <2> HIDE DEF S, n
  <2> QED
    BY <1>1, <1>2, <2>1, UpTo
<1>4. PICK g : Is(g, n)
  BY <1>3
<1> DEFINE f == [i \in 0 .. n |-> g[i]]
<1>5. f[0] = start /\ \A i \in 1 .. n : f[i] = ReadNextField(in, f[i - 1], schema[i])
  BY <1>4
<1>6. f = [i \in 0 .. n |-> f[i]]
  OBVIOUS
<1> HIDE DEF f
<1>7. \A i \in 0 .. n : f[i] = IF i = 0 THEN start ELSE ReadNextField(in, f[i - 1], schema[i])
  BY <1>5
<1>8. f = [i \in 0 .. Len(schema) |-> IF i = 0 THEN start
        ELSE ReadNextField(in, f[i - 1], schema[i])]
  BY <1>6, <1>7
<1> QED
  BY <1>8

\* The elements of a vector.
LEMMA ElementsAreRead ==
    ASSUME NEW in, NEW start, NEW schema, NEW count, count.val \in Nat
    PROVE  \E f : f = [i \in 0 .. count.val |-> IF i = 0 THEN start
                                       ELSE ReadNextElement(in, f[i - 1], schema)]
<1> DEFINE n == count.val
           Is(f, k) == /\ DOMAIN f = 0 .. k /\ f[0] = start
                       /\ \A i \in 1 .. k : f[i] = ReadNextElement(in, f[i - 1], schema)
           S == {k \in Nat : \E f : Is(f, k)}
<1>1. 0 \in S
  <2>1. Is([i \in 0 .. 0 |-> start], 0)
    OBVIOUS
  <2> QED
    BY <2>1
<1>2. ASSUME NEW k \in 1 .. n, k - 1 \in S PROVE k \in S
  <2>1. PICK g : Is(g, k - 1)
    BY <1>2
  <2> DEFINE h == [i \in 0 .. k |-> IF i = k THEN ReadNextElement(in, g[k - 1], schema) ELSE g[i]]
  <2>2. /\ DOMAIN h = 0 .. k /\ h[k] = ReadNextElement(in, g[k - 1], schema)
        /\ \A i \in 0 .. k - 1 : h[i] = g[i]
    OBVIOUS
  <2> HIDE DEF h
  <2>3. ASSUME NEW i \in 1 .. k PROVE h[i] = ReadNextElement(in, h[i - 1], schema)
    <3>1. i - 1 \in 0 .. k - 1 /\ h[i - 1] = g[i - 1]
      BY <2>2
    <3>2. CASE i = k
      BY <2>2, <3>1, <3>2
    <3>3. CASE i # k
      <4>1. i \in 1 .. k - 1 /\ h[i] = g[i]
        BY <2>2, <3>3
      <4> QED
        BY <2>1, <3>1, <4>1
    <3> QED
      BY <3>2, <3>3
  <2>4. h[0] = start
    BY <2>1, <2>2
  <2>5. k \in Nat /\ Is(h, k)
    BY <2>2, <2>3, <2>4
  <2> QED
    BY <2>5
<1>3. n \in S
  <2>1. n \in Nat
    OBVIOUS
  <2> HIDE DEF S, n
  <2> QED
    BY <1>1, <1>2, <2>1, UpTo
<1>4. PICK g : Is(g, n)
  BY <1>3
<1> DEFINE f == [i \in 0 .. n |-> g[i]]
<1>5. f[0] = start /\ \A i \in 1 .. n : f[i] = ReadNextElement(in, f[i - 1], schema)
  BY <1>4
<1>6. f = [i \in 0 .. n |-> f[i]]
  OBVIOUS
<1> HIDE DEF f
<1>7. \A i \in 0 .. n : f[i] = IF i = 0 THEN start ELSE ReadNextElement(in, f[i - 1], schema)
  BY <1>5
<1>8. f = [i \in 0 .. count.val |-> IF i = 0 THEN start
        ELSE ReadNextElement(in, f[i - 1], schema)]
  BY <1>6, <1>7
<1> QED
  BY <1>8

\* The fields of a record.
LEMMA RecordIsRead ==
    ASSUME NEW in, NEW start, NEW schema, Len(schema) \in Nat
    PROVE  \E f : f = [i \in 0 .. Len(schema) |-> IF i = 0 THEN start
                                       ELSE ReadNextMember(in, f[i - 1], schema[i])]
<1> DEFINE n == Len(schema)
           Is(f, k) == /\ DOMAIN f = 0 .. k /\ f[0] = start
                       /\ \A i \in 1 .. k : f[i] = ReadNextMember(in, f[i - 1], schema[i])
           S == {k \in Nat : \E f : Is(f, k)}
<1>1. 0 \in S
  <2>1. Is([i \in 0 .. 0 |-> start], 0)
    OBVIOUS
  <2> QED
    BY <2>1
<1>2. ASSUME NEW k \in 1 .. n, k - 1 \in S PROVE k \in S
  <2>1. PICK g : Is(g, k - 1)
    BY <1>2
  <2> DEFINE h == [i \in 0 .. k |-> IF i = k THEN ReadNextMember(in, g[k - 1], schema[k])
                    ELSE g[i]]
  <2>2. /\ DOMAIN h = 0 .. k /\ h[k] = ReadNextMember(in, g[k - 1], schema[k])
        /\ \A i \in 0 .. k - 1 : h[i] = g[i]
    OBVIOUS
  <2> HIDE DEF h
  <2>3. ASSUME NEW i \in 1 .. k PROVE h[i] = ReadNextMember(in, h[i - 1], schema[i])
    <3>1. i - 1 \in 0 .. k - 1 /\ h[i - 1] = g[i - 1]
      BY <2>2
    <3>2. CASE i = k
      BY <2>2, <3>1, <3>2
    <3>3. CASE i # k
      <4>1. i \in 1 .. k - 1 /\ h[i] = g[i]
        BY <2>2, <3>3
      <4> QED
        BY <2>1, <3>1, <4>1
    <3> QED
      BY <3>2, <3>3
  <2>4. h[0] = start
    BY <2>1, <2>2
  <2>5. k \in Nat /\ Is(h, k)
    BY <2>2, <2>3, <2>4
  <2> QED
    BY <2>5
<1>3. n \in S
  <2>1. n \in Nat
    OBVIOUS
  <2> HIDE DEF S, n
  <2> QED
    BY <1>1, <1>2, <2>1, UpTo
<1>4. PICK g : Is(g, n)
  BY <1>3
<1> DEFINE f == [i \in 0 .. n |-> g[i]]
<1>5. f[0] = start /\ \A i \in 1 .. n : f[i] = ReadNextMember(in, f[i - 1], schema[i])
  BY <1>4
<1>6. f = [i \in 0 .. n |-> f[i]]
  OBVIOUS
<1> HIDE DEF f
<1>7. \A i \in 0 .. n : f[i] = IF i = 0 THEN start ELSE ReadNextMember(in, f[i - 1], schema[i])
  BY <1>5
<1>8. f = [i \in 0 .. Len(schema) |-> IF i = 0 THEN start
        ELSE ReadNextMember(in, f[i - 1], schema[i])]
  BY <1>6, <1>7
<1> QED
  BY <1>8

\* So the archives of an element, after each of its fields.
LEMMA WriteElementIs ==
    ASSUME NEW oa, NEW schema, NEW v, Len(schema) \in Nat
    PROVE  \E f : /\ f[0] = oa
                  /\ \A i \in 1 .. Len(schema) :
                        f[i] = WriteField(f[i - 1], schema[i], v[schema[i].name])
                  /\ f[Len(schema)] = WriteElement(oa, schema, v)
<1> DEFINE f == CHOOSE f : f = [i \in 0 .. Len(schema) |-> IF i = 0 THEN oa
                                       ELSE WriteField(f[i - 1], schema[i], v[schema[i].name])]
<1>1. f[Len(schema)] = WriteElement(oa, schema, v)
  BY DEF WriteElement
<1>2. \E g : FieldsWritten(g, oa, schema, v)
  BY ElementIsWritten
<1>3. f = [i \in 0 .. Len(schema) |-> IF i = 0 THEN oa
                             ELSE WriteField(f[i - 1], schema[i], v[schema[i].name])]
  BY <1>2 DEF FieldsWritten
<1> HIDE DEF f
<1>4. f[0] = oa /\ \A i \in 1 .. Len(schema) :
                     f[i] = WriteField(f[i - 1], schema[i], v[schema[i].name])
  BY <1>3
<1> QED
  BY <1>1, <1>4

\* Of a vector, after each of its elements.
LEMMA WriteVectorIs ==
    ASSUME NEW oa, NEW schema, NEW vs, Len(vs) \in Nat
    PROVE  \E f : /\ f[0] = oa_serialize_int(oa, Len(vs))
                  /\ \A i \in 1 .. Len(vs) : f[i] = WriteElement(f[i - 1], schema, vs[i])
                  /\ f[Len(vs)] = WriteVector(oa, schema, vs)
<1> DEFINE start == oa_serialize_int(oa, Len(vs))
           f == CHOOSE f : f = [i \in 0 .. Len(vs) |-> IF i = 0 THEN start
                                           ELSE WriteElement(f[i - 1], schema, vs[i])]
<1>1. f[Len(vs)] = WriteVector(oa, schema, vs)
  BY DEF WriteVector
<1> HIDE DEF start
<1>2. f = [i \in 0 .. Len(vs) |-> IF i = 0 THEN start ELSE WriteElement(f[i - 1], schema, vs[i])]
  BY ElementsAreWritten
<1> HIDE DEF f
<1>3. f[0] = start /\ \A i \in 1 .. Len(vs) : f[i] = WriteElement(f[i - 1], schema, vs[i])
  BY <1>2
<1> QED
  BY <1>1, <1>3 DEF start

\* Of a record, after each of its fields.
LEMMA SerializeIs ==
    ASSUME NEW oa, NEW schema, NEW v, Len(schema) \in Nat
    PROVE  \E f : /\ f[0] = oa
                  /\ \A i \in 1 .. Len(schema) :
                        f[i] = WriteMember(f[i - 1], schema[i], v[schema[i].name])
                  /\ f[Len(schema)] = Serialize(oa, schema, v)
<1> DEFINE f == CHOOSE f : f = [i \in 0 .. Len(schema) |-> IF i = 0 THEN oa
                                       ELSE WriteMember(f[i - 1], schema[i], v[schema[i].name])]
<1>1. f[Len(schema)] = Serialize(oa, schema, v)
  BY DEF Serialize
<1>2. \E g : MembersWritten(g, oa, schema, v)
  BY RecordIsWritten
<1>3. f = [i \in 0 .. Len(schema) |-> IF i = 0 THEN oa
                             ELSE WriteMember(f[i - 1], schema[i], v[schema[i].name])]
  BY <1>2 DEF MembersWritten
<1> HIDE DEF f
<1>4. f[0] = oa /\ \A i \in 1 .. Len(schema) :
                     f[i] = WriteMember(f[i - 1], schema[i], v[schema[i].name])
  BY <1>3
<1> QED
  BY <1>1, <1>4

\* And what was read after each of them.
LEMMA ReadElementIs ==
    ASSUME NEW in, NEW rc, NEW off, NEW schema, Len(schema) \in Nat
    PROVE  \E f : /\ f[0] = Read(rc, off, Blank(schema, NULL))
                  /\ \A i \in 1 .. Len(schema) : f[i] = ReadNextField(in, f[i - 1], schema[i])
                  /\ f[Len(schema)] = ReadElement(in, rc, off, schema)
<1> DEFINE start == Read(rc, off, Blank(schema, NULL))
           f == CHOOSE f : f = [i \in 0 .. Len(schema) |-> IF i = 0 THEN start
                                           ELSE ReadNextField(in, f[i - 1], schema[i])]
<1>1. f[Len(schema)] = ReadElement(in, rc, off, schema)
  BY DEF ReadElement
<1> HIDE DEF start
<1>2. f = [i \in 0 .. Len(schema) |-> IF i = 0 THEN start
        ELSE ReadNextField(in, f[i - 1], schema[i])]
  BY ElementIsRead
<1> HIDE DEF f
<1>3. f[0] = start /\ \A i \in 1 .. Len(schema) : f[i] = ReadNextField(in, f[i - 1], schema[i])
  BY <1>2
<1> QED
  BY <1>1, <1>3 DEF start

\* The elements of a vector.
LEMMA ReadElementsAre ==
    ASSUME NEW in, NEW count, NEW schema, count.val \in Nat
    PROVE  \E f : /\ f[0] = Read(0, count.off, <<>>)
                  /\ \A i \in 1 .. count.val : f[i] = ReadNextElement(in, f[i - 1], schema)
                  /\ f[count.val] = ElementsOf(in, count, schema)
<1> DEFINE start == Read(0, count.off, <<>>)
           f == CHOOSE f : f = [i \in 0 .. count.val |-> IF i = 0 THEN start
                                           ELSE ReadNextElement(in, f[i - 1], schema)]
<1>1. f[count.val] = ElementsOf(in, count, schema)
  BY DEF ElementsOf
<1> HIDE DEF start
<1>2. f = [i \in 0 .. count.val |-> IF i = 0 THEN start
        ELSE ReadNextElement(in, f[i - 1], schema)]
  BY ElementsAreRead
<1> HIDE DEF f
<1>3. f[0] = start /\ \A i \in 1 .. count.val : f[i] = ReadNextElement(in, f[i - 1], schema)
  BY <1>2
<1> QED
  BY <1>1, <1>3 DEF start

\* The fields of a record.
LEMMA DeserializeIs ==
    ASSUME NEW in, NEW off, NEW schema, Len(schema) \in Nat
    PROVE  \E f : /\ f[0] = Read(0, off, Blank(schema, GARBAGE))
                  /\ \A i \in 1 .. Len(schema) : f[i] = ReadNextMember(in, f[i - 1], schema[i])
                  /\ f[Len(schema)] = Deserialize(in, off, schema)
<1> DEFINE start == Read(0, off, Blank(schema, GARBAGE))
           f == CHOOSE f : f = [i \in 0 .. Len(schema) |-> IF i = 0 THEN start
                                           ELSE ReadNextMember(in, f[i - 1], schema[i])]
<1>1. f[Len(schema)] = Deserialize(in, off, schema)
  BY DEF Deserialize
<1> HIDE DEF start
<1>2. f = [i \in 0 .. Len(schema) |-> IF i = 0 THEN start
        ELSE ReadNextMember(in, f[i - 1], schema[i])]
  BY RecordIsRead
<1> HIDE DEF f
<1>3. f[0] = start /\ \A i \in 1 .. Len(schema) : f[i] = ReadNextMember(in, f[i - 1], schema[i])
  BY <1>2
<1> QED
  BY <1>1, <1>3 DEF start

-----------------------------------------------------------------------------
(* Elements, vectors and records survive.                                  *)

\* Archives that each begin with the one before.
LEMMA Growing ==
    ASSUME NEW n \in Nat, NEW f, \A i \in 0 .. n : f[i] \in Archives,
           \A i \in 1 .. n : Begins(f[i - 1].buffer, f[i].buffer)
    PROVE  /\ \A i \in 0 .. n : Begins(f[i].buffer, f[n].buffer)
           /\ Begins(f[0].buffer, f[n].buffer)
           /\ \A i \in 0 .. n : /\ f[i].buffer \in Seq(Octets) /\ Len(f[i].buffer) \in Nat
                                /\ Len(f[i].buffer) <= Len(f[n].buffer)
<1> DEFINE S == {k \in 0 .. n : \A i \in 0 .. k : Begins(f[i].buffer, f[k].buffer)}
<1>1. \A i \in 0 .. n : f[i].buffer \in Seq(Octets) /\ Len(f[i].buffer) \in Nat
  BY BufferOf
<1>2. 0 \in S
  <2>1. Begins(f[0].buffer, f[0].buffer)
    BY <1>1, BeginsIs
  <2> QED
    BY <2>1
<1>3. ASSUME NEW k \in 1 .. n, k - 1 \in S PROVE k \in S
  <2>1. ASSUME NEW i \in 0 .. k PROVE Begins(f[i].buffer, f[k].buffer)
    <3>1. CASE i = k
      BY <1>1, <3>1, BeginsIs
    <3>2. CASE i # k
      <4>1. i \in 0 .. k - 1 /\ i \in 0 .. n /\ k - 1 \in 0 .. n /\ k \in 0 .. n
        BY <3>2
      <4>2. Begins(f[i].buffer, f[k - 1].buffer)
        BY <1>3, <4>1
      <4> QED
        BY <1>1, <4>1, <4>2, BeginsIs
    <3> QED
      BY <3>1, <3>2
  <2> QED
    BY <2>1
<1>4. n \in S
  <2> HIDE DEF S
  <2>1. \A i \in 0 .. n : i \in S
    BY <1>2, <1>3, UpTo
  <2> QED
    BY <2>1
<1>5. \A i \in 0 .. n : Begins(f[i].buffer, f[n].buffer)
  BY <1>4
<1> QED
  BY <1>1, <1>5 DEF Begins

\* The fields of elements, and elements.
Plains == {f \in Scalars : f.kind # "Bool"}

FitsElement(schema, v) ==
    /\ v = [n \in FieldNames(schema) |-> v[n]]
    /\ \A i \in DOMAIN schema : FitsScalar(schema[i], v[schema[i].name])

Elements(schema) ==
    {v \in [FieldNames(schema) -> Int \cup Seq(Int) \cup {NULL}] : FitsElement(schema, v)}

\* Names of fields.
LEMMA NamesOf ==
    ASSUME NEW S, NEW schema \in Seq(S)
    PROVE  /\ DOMAIN schema = 1 .. Len(schema) /\ Len(schema) \in Nat
           /\ FieldNames(schema) = {schema[i].name : i \in 1 .. Len(schema)}
BY DEF FieldNames

\* One more field of a record that is right so far.
LEMMA OneMoreField ==
    ASSUME NEW names, NEW val, val = [n \in names |-> val[n]], NEW m \in names, NEW x
    PROVE  LET w == [val EXCEPT ![m] = x] IN
           /\ w = [n \in names |-> w[n]] /\ w[m] = x
           /\ \A n \in names : n # m => w[n] = val[n]
<1>1. DOMAIN val = names
  OBVIOUS
<1> QED
  BY <1>1

\* The parts of what was read.
LEMMA ReadParts ==
    \A rc, off, val : LET r == Read(rc, off, val) IN r.rc = rc /\ r.off = off /\ r.val = val
BY DEF Read

\* An element is read as it was written.
LEMMA ElementSurvives ==
    ASSUME NEW oa \in Archives, NEW schema \in Seq(Plains), NEW v, FitsElement(schema, v)
    PROVE  LET b == WriteElement(oa, schema, v) IN
           /\ b \in Archives /\ Begins(oa.buffer, b.buffer)
           /\ \A in \in Seq(Octets), d \in Nat :
                 Agree(in, d, b.buffer) /\ ~(Len(in) < d + Len(b.buffer)) =>
                     ReadElement(in, 0, d + Len(oa.buffer), schema)
                       = Read(0, d + Len(b.buffer), v)
<1> DEFINE n == Len(schema)
           names == FieldNames(schema)
           b == WriteElement(oa, schema, v)
<1>1. /\ DOMAIN schema = 1 .. n /\ n \in Nat
      /\ names = {schema[i].name : i \in 1 .. n}
      /\ \A i \in 1 .. n : /\ schema[i] \in Scalars /\ schema[i].kind # "Bool"
                           /\ FitsScalar(schema[i], v[schema[i].name])
  <2>1. \A i \in 1 .. n : schema[i] \in Plains
    OBVIOUS
  <2> QED
    BY <2>1, NamesOf DEF FitsElement, Plains
<1> HIDE DEF names, n, b
<1>2. PICK w : /\ w[0] = oa
               /\ \A i \in 1 .. n : w[i] = WriteField(w[i - 1], schema[i], v[schema[i].name])
               /\ w[n] = b
  <2>1. Len(schema) \in Nat
    OBVIOUS
  <2> QED
    BY <2>1, WriteElementIs DEF n, b
<1> DEFINE S == {i \in 0 .. n : w[i] \in Archives}
<1>3. \A i \in 0 .. n : i \in S
  <2>1. 0 \in S
    BY <1>1, <1>2
  <2>2. ASSUME NEW i \in 1 .. n, i - 1 \in S PROVE i \in S
    <3>1. w[i] = WriteField(w[i - 1], schema[i], v[schema[i].name]) /\ w[i - 1] \in Archives
      BY <1>2, <2>2
    <3>2. w[i] \in Archives
      BY <1>1, <3>1, FieldSurvives
    <3> QED
      BY <1>1, <3>2
  <2> HIDE DEF S
  <2> QED
    BY <1>1, <2>1, <2>2, UpTo
<1>4. \A i \in 1 .. n : Begins(w[i - 1].buffer, w[i].buffer)
  <2>1. ASSUME NEW i \in 1 .. n PROVE Begins(w[i - 1].buffer, w[i].buffer)
    <3>1. i - 1 \in 0 .. n
      BY <1>1
    <3>2. w[i] = WriteField(w[i - 1], schema[i], v[schema[i].name]) /\ w[i - 1] \in Archives
      BY <1>2, <1>3, <3>1
    <3> QED
      BY <1>1, <3>2, FieldSurvives
  <2> QED
    BY <2>1
<1>5. /\ \A i \in 0 .. n : Begins(w[i].buffer, b.buffer)
      /\ Begins(oa.buffer, b.buffer)
      /\ \A i \in 0 .. n : /\ w[i].buffer \in Seq(Octets) /\ Len(w[i].buffer) \in Nat
                           /\ Len(w[i].buffer) <= Len(b.buffer)
      /\ b \in Archives /\ b.buffer \in Seq(Octets)
  <2>1. \A i \in 0 .. n : w[i] \in Archives
    BY <1>3
  <2> HIDE DEF S
  <2>2. b \in Archives /\ b.buffer \in Seq(Octets)
    BY <1>1, <1>2, <2>1, BufferOf
  <2>3. /\ \A i \in 0 .. n : Begins(w[i].buffer, w[n].buffer)
        /\ Begins(w[0].buffer, w[n].buffer)
        /\ \A i \in 0 .. n : /\ w[i].buffer \in Seq(Octets) /\ Len(w[i].buffer) \in Nat
                             /\ Len(w[i].buffer) <= Len(w[n].buffer)
    BY <1>1, <1>4, <2>1, Growing
  <2> QED
    BY <1>2, <2>2, <2>3
<1>6. ASSUME NEW in \in Seq(Octets), NEW d \in Nat, Agree(in, d, b.buffer),
             ~(Len(in) < d + Len(b.buffer))
      PROVE  ReadElement(in, 0, d + Len(oa.buffer), schema) = Read(0, d + Len(b.buffer), v)
  <2> DEFINE start == Read(0, d + Len(oa.buffer), Blank(schema, NULL))
  <2>1. PICK r : /\ r[0] = start
                 /\ \A i \in 1 .. n : r[i] = ReadNextField(in, r[i - 1], schema[i])
                 /\ r[n] = ReadElement(in, 0, d + Len(oa.buffer), schema)
    <3>1. Len(schema) \in Nat
      OBVIOUS
    <3> QED
      BY <3>1, ReadElementIs DEF n
  <2> DEFINE Right(i) == /\ r[i] = Read(0, d + Len(w[i].buffer), r[i].val)
                         /\ r[i].val = [m \in names |-> r[i].val[m]]
                         /\ \A j \in 1 .. i : r[i].val[schema[j].name] = v[schema[j].name]
             T == {i \in 0 .. n : Right(i)}
  <2>2. 0 \in T
    <3>1. start.val = [m \in names |-> NULL]
      BY ReadParts DEF names, Blank
    <3> HIDE DEF start
    <3>2. Right(0)
      <4>1. r[0] = Read(0, d + Len(w[0].buffer), r[0].val)
        BY <1>2, <2>1, ReadParts DEF start
      <4>2. r[0].val = [m \in names |-> r[0].val[m]]
        BY <2>1, <3>1
      <4> QED
        BY <4>1, <4>2
    <3> HIDE DEF Right
    <3> QED
      BY <1>1, <3>2
  <2>3. ASSUME NEW i \in 1 .. n, i - 1 \in T PROVE i \in T
    <3> DEFINE c == r[i - 1]
               f == schema[i]
               x == v[f.name]
               end == d + Len(w[i].buffer)
    <3>1. /\ i - 1 \in 0 .. n /\ i \in 0 .. n
          /\ w[i - 1] \in Archives
          /\ w[i] = WriteField(w[i - 1], f, x)
      BY <1>1, <1>2, <1>3
    <3>2. /\ c = Read(0, d + Len(w[i - 1].buffer), c.val)
          /\ c.val = [m \in names |-> c.val[m]]
          /\ \A j \in 1 .. i - 1 : c.val[schema[j].name] = v[schema[j].name]
      BY <2>3
    <3> HIDE DEF c
    <3>3. c.rc = 0 /\ c.off = d + Len(w[i - 1].buffer)
      <4>1. \E z : c = Read(0, d + Len(w[i - 1].buffer), z)
        BY <3>2
      <4> QED
        BY <4>1, ReadParts
    <3>4. Agree(in, d, w[i].buffer) /\ ~(Len(in) < end)
      <4>1. Agree(in, d, w[i].buffer)
        BY <1>5, <1>6, <3>1, AgreeBefore
      <4>2. Len(w[i].buffer) <= Len(b.buffer) /\ Len(w[i].buffer) \in Nat
            /\ Len(b.buffer) \in Nat /\ Len(in) \in Nat
        BY <1>1, <1>2, <1>5, <3>1
      <4> QED
        BY <1>6, <4>1, <4>2
    <3>5. SeenScalar(f, x) = x /\ f \in Scalars /\ FitsScalar(f, x)
      BY <1>1 DEF SeenScalar
    <3>6. ReadField(in, c.off, f.kind) = Read(0, end, x)
      <4>1. ReadsAs(ReadField(in, d + Len(w[i - 1].buffer), f.kind), in, end, SeenScalar(f, x))
        BY <3>1, <3>4, <3>5, FieldSurvives
      <4> QED
        BY <3>3, <3>4, <3>5, <4>1 DEF ReadsAs
    <3> DEFINE val == [c.val EXCEPT ![f.name] = x]
    <3>7. r[i] = Read(0, end, val)
      <4>1. r[i] = ReadNextField(in, c, f)
        BY <2>1 DEF c
      <4>2. r[i] = ReadInto(c, f, Read(0, end, x))
        BY <3>3, <3>6, <4>1 DEF ReadNextField
      <4> QED
        BY <4>2, ReadParts DEF ReadInto
    <3>8. f.name \in names
      BY <1>1
    <3>9. /\ val = [m \in names |-> val[m]] /\ val[f.name] = x
          /\ \A m \in names : m # f.name => val[m] = c.val[m]
      BY <3>2, <3>8, OneMoreField
    <3> HIDE DEF val
    <3>10. r[i].val = val
      BY <3>7, ReadParts
    <3>11. ASSUME NEW j \in 1 .. i PROVE val[schema[j].name] = v[schema[j].name]
      <4>1. schema[j].name \in names
        BY <1>1
      <4>2. CASE schema[j].name = f.name
        BY <3>9, <4>2
      <4>3. CASE schema[j].name # f.name
        <5>1. j \in 1 .. i - 1
          BY <1>1, <4>3
        <5> QED
          BY <3>2, <3>9, <4>1, <4>3, <5>1
      <4> QED
        BY <4>2, <4>3
    <3>12. Right(i)
      BY <3>7, <3>9, <3>10, <3>11
    <3> HIDE DEF Right
    <3> QED
      BY <3>1, <3>12
  <2>4. Right(n)
    <3> HIDE DEF Right
    <3>1. \A i \in 1 .. n : i - 1 \in T => i \in T
      BY <2>3
    <3> HIDE DEF T
    <3>2. n \in T
      <4>1. \A i \in 0 .. n : i \in T
        BY <1>1, <2>2, <3>1, UpTo
      <4> QED
        BY <1>1, <4>1
    <3> QED
      BY <3>2 DEF T
  <2>5. r[n].val = v
    <3>1. \A m \in names : r[n].val[m] = v[m]
      BY <1>1, <2>4
    <3>2. v = [m \in names |-> v[m]]
      BY DEF FitsElement, names
    <3>3. r[n].val = [m \in names |-> r[n].val[m]]
      BY <2>4
    <3> QED
      BY <3>1, <3>2, <3>3
  <2>6. r[n] = Read(0, d + Len(b.buffer), r[n].val)
    BY <1>2, <2>4
  <2> QED
    BY <2>1, <2>5, <2>6
<1> QED
  BY <1>5, <1>6 DEF b

\* A vector is read as it was written.
LEMMA VectorSurvives ==
    ASSUME NEW oa \in Archives, NEW schema \in Seq(Plains), NEW vs \in Seq(Elements(schema))
    PROVE  LET b == WriteVector(oa, schema, vs) IN
           /\ b \in Archives /\ Begins(oa.buffer, b.buffer)
           /\ \A in \in Seq(Octets), d \in Nat :
                 Agree(in, d, b.buffer) /\ ~(Len(in) < d + Len(b.buffer)) =>
                     ReadVector(in, d + Len(oa.buffer), schema)
                       = Read(0, d + Len(b.buffer), vs)
<1> DEFINE n == Len(vs)
           E == Elements(schema)
           b == WriteVector(oa, schema, vs)
<1>1. n \in Nat /\ n \in Int /\ vs \in Seq(E)
      /\ \A i \in 1 .. n : vs[i] \in E /\ FitsElement(schema, vs[i])
  BY DEF Elements
<1> HIDE DEF n, b, E
<1>2. PICK w : /\ w[0] = oa_serialize_int(oa, n)
               /\ \A i \in 1 .. n : w[i] = WriteElement(w[i - 1], schema, vs[i])
               /\ w[n] = b
  <2>1. Len(vs) \in Nat
    OBVIOUS
  <2> QED
    BY <2>1, WriteVectorIs DEF n, b
<1>3. /\ w[0] \in Archives /\ Begins(oa.buffer, w[0].buffer)
      /\ Len(w[0].buffer) = Len(oa.buffer) + 4
      /\ \A in \in Seq(Octets), d \in Nat : Agree(in, d, w[0].buffer) =>
            ReadNumber(in, d + Len(oa.buffer), 4) =
                IF Len(in) < d + Len(w[0].buffer)
                THEN Read(E2BIG, d + Len(oa.buffer), GARBAGE)
                ELSE Read(0, d + Len(w[0].buffer), n)
  <2>1. 4 \in {1, 4, 8} /\ w[0] = Put(oa, Number(4, n))
    BY <1>2 DEF oa_serialize_int
  <2>2. ASSUME NEW z, z = Put(oa, Number(4, n))
        PROVE  /\ z \in Archives /\ Begins(oa.buffer, z.buffer)
               /\ Len(z.buffer) = Len(oa.buffer) + 4
               /\ \A in \in Seq(Octets), d \in Nat : Agree(in, d, z.buffer) =>
                     ReadNumber(in, d + Len(oa.buffer), 4) =
                         IF Len(in) < d + Len(z.buffer)
                         THEN Read(E2BIG, d + Len(oa.buffer), GARBAGE)
                         ELSE Read(0, d + Len(z.buffer), n)
    BY <1>1, <2>1, <2>2, NumberSurvives
  <2> QED
    BY <2>1, <2>2
<1> DEFINE S == {i \in 0 .. n : w[i] \in Archives}
<1>4. \A i \in 0 .. n : i \in S
  <2>1. 0 \in S
    BY <1>1, <1>3
  <2>2. ASSUME NEW i \in 1 .. n, i - 1 \in S PROVE i \in S
    <3>1. w[i] = WriteElement(w[i - 1], schema, vs[i]) /\ w[i - 1] \in Archives
      BY <1>2, <2>2
    <3>2. w[i] \in Archives
      BY <1>1, <3>1, ElementSurvives
    <3> QED
      BY <1>1, <3>2
  <2> HIDE DEF S
  <2> QED
    BY <1>1, <2>1, <2>2, UpTo
<1>5. \A i \in 1 .. n : Begins(w[i - 1].buffer, w[i].buffer)
  <2>1. ASSUME NEW i \in 1 .. n PROVE Begins(w[i - 1].buffer, w[i].buffer)
    <3>1. i - 1 \in 0 .. n
      BY <1>1
    <3>2. w[i] = WriteElement(w[i - 1], schema, vs[i]) /\ w[i - 1] \in Archives
      BY <1>2, <1>4, <3>1
    <3> QED
      BY <1>1, <3>2, ElementSurvives
  <2> QED
    BY <2>1
<1>6. /\ \A i \in 0 .. n : Begins(w[i].buffer, b.buffer)
      /\ Begins(oa.buffer, b.buffer)
      /\ \A i \in 0 .. n : /\ w[i].buffer \in Seq(Octets) /\ Len(w[i].buffer) \in Nat
                           /\ Len(w[i].buffer) <= Len(b.buffer)
      /\ b \in Archives /\ b.buffer \in Seq(Octets)
  <2>1. \A i \in 0 .. n : w[i] \in Archives
    BY <1>4
  <2> HIDE DEF S
  <2>2. b \in Archives /\ b.buffer \in Seq(Octets) /\ oa.buffer \in Seq(Octets)
    BY <1>1, <1>2, <2>1, BufferOf
  <2>3. /\ \A i \in 0 .. n : Begins(w[i].buffer, w[n].buffer)
        /\ Begins(w[0].buffer, w[n].buffer)
        /\ \A i \in 0 .. n : /\ w[i].buffer \in Seq(Octets) /\ Len(w[i].buffer) \in Nat
                             /\ Len(w[i].buffer) <= Len(w[n].buffer)
    BY <1>1, <1>5, <2>1, Growing
  <2>4. w[0].buffer \in Seq(Octets)
    BY <1>3, BufferOf
  <2>5. Begins(oa.buffer, b.buffer)
    BY <1>2, <1>3, <2>2, <2>3, <2>4, BeginsIs
  <2> QED
    BY <1>2, <2>2, <2>3, <2>5
<1>7. ASSUME NEW in \in Seq(Octets), NEW d \in Nat, Agree(in, d, b.buffer),
             ~(Len(in) < d + Len(b.buffer))
      PROVE  ReadVector(in, d + Len(oa.buffer), schema) = Read(0, d + Len(b.buffer), vs)
  <2>1. ASSUME NEW i \in 0 .. n
        PROVE  Agree(in, d, w[i].buffer) /\ ~(Len(in) < d + Len(w[i].buffer))
    <3>1. Agree(in, d, w[i].buffer)
      BY <1>6, <1>7, AgreeBefore
    <3>2. /\ Len(w[i].buffer) <= Len(b.buffer) /\ Len(w[i].buffer) \in Nat
          /\ Len(b.buffer) \in Nat /\ Len(in) \in Nat
      BY <1>6, BufferOf
    <3> QED
      BY <1>7, <3>1, <3>2
  <2> DEFINE count == Read(0, d + Len(w[0].buffer), n)
  <2>2. ReadNumber(in, d + Len(oa.buffer), 4) = count
    <3>1. 0 \in 0 .. n
      BY <1>1
    <3> QED
      BY <1>3, <2>1, <3>1
  <2>3. count.rc = 0 /\ count.off = d + Len(w[0].buffer) /\ count.val = n
        /\ count.val # GARBAGE /\ count.val \in Nat
    BY <1>1, NullAssumption, ReadParts
  <2> HIDE DEF count
  <2>4. PICK r : /\ r[0] = Read(0, count.off, <<>>)
                 /\ \A i \in 1 .. n : r[i] = ReadNextElement(in, r[i - 1], schema)
                 /\ r[n] = ElementsOf(in, count, schema)
    <3>1. \E r : /\ r[0] = Read(0, count.off, <<>>)
                 /\ \A i \in 1 .. count.val : r[i] = ReadNextElement(in, r[i - 1], schema)
                 /\ r[count.val] = ElementsOf(in, count, schema)
      BY <2>3, ReadElementsAre
    <3> QED
      BY <2>3, <3>1
  <2> DEFINE Right(i) == /\ r[i] = Read(0, d + Len(w[i].buffer), r[i].val)
                         /\ r[i].val \in Seq(E) /\ Len(r[i].val) = i
                         /\ \A j \in 1 .. i : r[i].val[j] = vs[j]
             T == {i \in 0 .. n : Right(i)}
  <2>5. 0 \in T
    <3>1. r[0] = Read(0, d + Len(w[0].buffer), <<>>) /\ r[0].val = <<>>
      BY <2>3, <2>4, ReadParts
    <3>2. <<>> \in Seq(E) /\ Len(<<>>) = 0
      OBVIOUS
    <3>3. Right(0)
      <4>1. \A j \in 1 .. 0 : r[0].val[j] = vs[j]
        OBVIOUS
      <4>2. r[0] = Read(0, d + Len(w[0].buffer), r[0].val)
        BY <3>1
      <4>3. r[0].val \in Seq(E) /\ Len(r[0].val) = 0
        BY <3>1, <3>2
      <4> QED
        BY <4>1, <4>2, <4>3
    <3> HIDE DEF Right
    <3> QED
      BY <1>1, <3>3
  <2>6. ASSUME NEW i \in 1 .. n, i - 1 \in T PROVE i \in T
    <3> DEFINE c == r[i - 1]
               x == vs[i]
               end == d + Len(w[i].buffer)
    <3>1. /\ i - 1 \in 0 .. n /\ i \in 0 .. n
          /\ w[i - 1] \in Archives
          /\ w[i] = WriteElement(w[i - 1], schema, x)
          /\ x \in E /\ FitsElement(schema, x)
      BY <1>1, <1>2, <1>4
    <3>2. /\ c = Read(0, d + Len(w[i - 1].buffer), c.val)
          /\ c.val \in Seq(E) /\ Len(c.val) = i - 1
          /\ \A j \in 1 .. i - 1 : c.val[j] = vs[j]
      BY <2>6
    <3> HIDE DEF c
    <3>3. c.rc = 0 /\ c.off = d + Len(w[i - 1].buffer)
      <4>1. \E z : c = Read(0, d + Len(w[i - 1].buffer), z)
        BY <3>2
      <4> QED
        BY <4>1, ReadParts
    <3>4. ReadElement(in, 0, d + Len(w[i - 1].buffer), schema) = Read(0, end, x)
      <4>1. Agree(in, d, w[i].buffer) /\ ~(Len(in) < d + Len(w[i].buffer))
        BY <2>1, <3>1
      <4>2. ASSUME NEW a \in Archives, NEW z, z = WriteElement(a, schema, x),
                   Agree(in, d, z.buffer), ~(Len(in) < d + Len(z.buffer))
            PROVE  ReadElement(in, 0, d + Len(a.buffer), schema) = Read(0, d + Len(z.buffer), x)
        BY <3>1, <4>2, ElementSurvives
      <4> QED
        BY <3>1, <4>1, <4>2
    <3>5. r[i] = Read(0, end, Append(c.val, x))
      <4>1. r[i] = ReadNextElement(in, c, schema)
        BY <2>4 DEF c
      <4>2. r[i] = ReadOneMore(c, Read(0, end, x))
        BY <3>3, <3>4, <4>1 DEF ReadNextElement
      <4> QED
        BY <4>2, ReadParts DEF ReadOneMore
    <3>6. r[i].val = Append(c.val, x)
      <4>1. \A z : Read(0, end, z).val = z
        BY ReadParts
      <4> QED
        BY <3>5, <4>1, Zenon
    <3>7. /\ Append(c.val, x) \in Seq(E) /\ Len(Append(c.val, x)) = i
          /\ \A j \in 1 .. i - 1 : Append(c.val, x)[j] = c.val[j]
          /\ Append(c.val, x)[i] = x
      BY <3>1, <3>2, AppendProperties
    <3>8. \A j \in 1 .. i : Append(c.val, x)[j] = vs[j]
      <4>1. ASSUME NEW j \in 1 .. i PROVE Append(c.val, x)[j] = vs[j]
        <5>1. j = i \/ j \in 1 .. i - 1
          BY <1>1
        <5> QED
          BY <3>2, <3>7, <5>1
      <4> QED
        BY <4>1
    <3>9. Right(i)
      BY <3>5, <3>6, <3>7, <3>8
    <3> HIDE DEF Right
    <3> QED
      BY <3>1, <3>9
  <2>7. Right(n)
    <3> HIDE DEF Right
    <3>1. \A i \in 1 .. n : i - 1 \in T => i \in T
      BY <2>6
    <3> HIDE DEF T
    <3>2. n \in T
      <4>1. \A i \in 0 .. n : i \in T
        BY <1>1, <2>5, <3>1, UpTo
      <4> QED
        BY <1>1, <4>1
    <3> QED
      BY <3>2 DEF T
  <2>8. r[n].val = vs
    <3>1. r[n].val \in Seq(E) /\ Len(r[n].val) = n /\ \A j \in 1 .. n : r[n].val[j] = vs[j]
      BY <2>7
    <3> QED
      BY <1>1, <3>1, SeqEqual DEF n
  <2>9. ElementsOf(in, count, schema) = Read(0, d + Len(b.buffer), vs)
    BY <1>2, <2>4, <2>7, <2>8
  <2>10. AfterElements(Read(0, d + Len(b.buffer), vs)) = Read(0, d + Len(b.buffer), vs)
    <3>1. 0 # GARBAGE
      BY NullAssumption
    <3> QED
      BY <3>1, ReadParts DEF AfterElements, EndVector
  <2>11. ReadElements(in, count, schema) = AfterElements(ElementsOf(in, count, schema))
    BY <2>3 DEF ReadElements
  <2> QED
    BY <2>2, <2>9, <2>10, <2>11 DEF ReadVector
<1> QED
  BY <1>6, <1>7 DEF b

-----------------------------------------------------------------------------
(* Records.                                                                *)

Vectors == [name : Labels, kind : {"Vector"}, of : Seq(Plains)]
Members == Scalars \cup Vectors

FitsMember(f, v) ==
    IF f.kind = "Vector" THEN v \in Seq(Elements(f.of)) ELSE FitsScalar(f, v)

\* A field of a record is read as it was written; and if too little is left this is told,
\* unless it is a vector.
LEMMA MemberSurvives ==
    ASSUME NEW oa \in Archives, NEW f \in Members, NEW v, FitsMember(f, v)
    PROVE  LET b == WriteMember(oa, f, v) IN
           /\ b \in Archives /\ Begins(oa.buffer, b.buffer)
           /\ \A in \in Seq(Octets), d \in Nat : Agree(in, d, b.buffer) =>
                 \/ ReadsAs(ReadMember(in, d + Len(oa.buffer), f),
                            in, d + Len(b.buffer), SeenScalar(f, v))
                 \/ f.kind = "Vector" /\ Len(in) < d + Len(b.buffer)
<1>1. CASE f.kind = "Vector"
  <2>1. f \in Vectors
    BY <1>1 DEF Members, Scalars, ScalarKinds
  <2>2. f.of \in Seq(Plains) /\ v \in Seq(Elements(f.of)) /\ SeenScalar(f, v) = v
    BY <1>1, <2>1 DEF Vectors, FitsMember, SeenScalar
  <2>3. WriteMember(oa, f, v) = WriteVector(oa, f.of, v)
        /\ \A in, off : ReadMember(in, off, f) = ReadVector(in, off, f.of)
    BY <1>1 DEF WriteMember, ReadMember
  <2> DEFINE b == WriteVector(oa, f.of, v)
  <2>4. /\ b \in Archives /\ Begins(oa.buffer, b.buffer)
        /\ \A in \in Seq(Octets), d \in Nat :
              Agree(in, d, b.buffer) /\ ~(Len(in) < d + Len(b.buffer)) =>
                  ReadVector(in, d + Len(oa.buffer), f.of) = Read(0, d + Len(b.buffer), v)
    BY <2>2, VectorSurvives
  <2> HIDE DEF b
  <2>5. ASSUME NEW in \in Seq(Octets), NEW d \in Nat, Agree(in, d, b.buffer)
        PROVE  \/ ReadsAs(ReadMember(in, d + Len(oa.buffer), f),
                          in, d + Len(b.buffer), SeenScalar(f, v))
               \/ f.kind = "Vector" /\ Len(in) < d + Len(b.buffer)
    <3>1. CASE Len(in) < d + Len(b.buffer)
      BY <1>1, <3>1
    <3>2. CASE ~(Len(in) < d + Len(b.buffer))
      <4>1. ReadMember(in, d + Len(oa.buffer), f) = Read(0, d + Len(b.buffer), v)
        BY <2>3, <2>4, <2>5, <3>2
      <4> QED
        BY <2>2, <3>2, <4>1 DEF ReadsAs
    <3> QED
      BY <3>1, <3>2
  <2> QED
    BY <2>3, <2>4, <2>5 DEF b
<1>2. CASE f.kind # "Vector"
  <2>1. f \in Scalars /\ FitsScalar(f, v)
    BY <1>2 DEF Members, Vectors, FitsMember
  <2>2. WriteMember(oa, f, v) = WriteField(oa, f, v)
        /\ \A in, off : ReadMember(in, off, f) = ReadField(in, off, f.kind)
    BY <1>2 DEF WriteMember, ReadMember
  <2> QED
    BY <2>1, <2>2, FieldSurvives
<1> QED
  BY <1>1, <1>2

-----------------------------------------------------------------------------
(* Whole records.                                                          *)

\* No two fields have one name.
Distinct(schema) ==
    \A i, j \in DOMAIN schema : schema[i].name = schema[j].name => i = j

FitsRecord(schema, v) ==
    /\ v = [n \in FieldNames(schema) |-> v[n]]
    /\ \A i \in DOMAIN schema : FitsMember(schema[i], v[schema[i].name])

\* Field i of val is the one of v.
SeenAt(schema, val, v, i) ==
    val[schema[i].name] = SeenScalar(schema[i], v[schema[i].name])

\* A vector hides that too little was there; what comes before it is right.
Overlooked(schema, val, v, n) ==
    \E k \in 1 .. n : /\ schema[k].kind = "Vector"
                      /\ \A j \in 1 .. k - 1 : SeenAt(schema, val, v, j)

\* What the fields were read as, from the reads of the members.
LEMMA MembersSurvive ==
    ASSUME NEW in \in Seq(Octets), NEW schema \in Seq(Members), Distinct(schema), NEW v,
           NEW end, NEW r,
           \A i \in 0 .. Len(schema) : end[i] \in Nat,
           \A i \in 1 .. Len(schema) : end[i - 1] <= end[i],
           ~(Len(in) < end[0]),
           r[0] = Read(0, end[0], Blank(schema, GARBAGE)),
           \A i \in 1 .. Len(schema) : r[i] = ReadNextMember(in, r[i - 1], schema[i]),
           \A i \in 1 .. Len(schema) :
              \/ ReadsAs(ReadMember(in, end[i - 1], schema[i]), in, end[i],
                         SeenScalar(schema[i], v[schema[i].name]))
              \/ schema[i].kind = "Vector" /\ Len(in) < end[i]
    PROVE  LET n == Len(schema) IN
           /\ r[n].val = [m \in FieldNames(schema) |-> r[n].val[m]]
           /\ \/ /\ ~(Len(in) < end[n])
                 /\ r[n] = Read(0, end[n], r[n].val)
                 /\ \A j \in 1 .. n : SeenAt(schema, r[n].val, v, j)
              \/ Len(in) < end[n] /\ r[n].rc = E2BIG
              \/ Len(in) < end[n] /\ Overlooked(schema, r[n].val, v, n)
<1> DEFINE n == Len(schema)
           names == FieldNames(schema)
           Shape(i) == r[i].val = [m \in names |-> r[i].val[m]]
           Right(i) == /\ ~(Len(in) < end[i])
                       /\ r[i] = Read(0, end[i], r[i].val)
                       /\ \A j \in 1 .. i : SeenAt(schema, r[i].val, v, j)
           Told(i) == Len(in) < end[i] /\ r[i].rc = E2BIG
           Hidden(i) == Len(in) < end[i] /\ Overlooked(schema, r[i].val, v, i)
           S == {i \in 0 .. n : Shape(i) /\ (Right(i) \/ Told(i) \/ Hidden(i))}
<1>1. /\ DOMAIN schema = 1 .. n /\ n \in Nat
      /\ names = {schema[i].name : i \in 1 .. n}
      /\ Len(in) \in Nat
  BY NamesOf
<1>2. 0 \in S
  <2> DEFINE start == Read(0, end[0], Blank(schema, GARBAGE))
  <2>1. start.val = [m \in names |-> GARBAGE] /\ \A z : Read(0, end[0], z).val = z
    BY ReadParts DEF Blank
  <2> HIDE DEF names
  <2>2. start.val = [m \in names |-> start.val[m]] /\ start = Read(0, end[0], start.val)
    BY <2>1
  <2>3. r[0] = start
    OBVIOUS
  <2> HIDE DEF start
  <2>4. Shape(0) /\ Right(0)
    <3>1. Shape(0)
      BY <2>2, <2>3
    <3>2. r[0] = Read(0, end[0], r[0].val)
      BY <2>2, <2>3
    <3>3. \A j \in 1 .. 0 : SeenAt(schema, r[0].val, v, j)
      OBVIOUS
    <3> QED
      BY <3>1, <3>2, <3>3
  <2> HIDE DEF Shape, Right
  <2> QED
    BY <1>1, <2>4
<1>3. ASSUME NEW i \in 1 .. n, i - 1 \in S PROVE i \in S
  <2> DEFINE c == r[i - 1]
             f == schema[i]
             x == SeenScalar(f, v[f.name])
             e == ReadMember(in, end[i - 1], f)
  <2>1. /\ i - 1 \in 0 .. n /\ i \in 0 .. n /\ end[i - 1] \in Nat /\ end[i] \in Nat
        /\ end[i - 1] <= end[i] /\ r[i] = ReadNextMember(in, r[i - 1], f)
        /\ (ReadsAs(e, in, end[i], x) \/ (f.kind = "Vector" /\ Len(in) < end[i]))
        /\ f.name \in names
    BY <1>1
  <2>2. Shape(i - 1) /\ (Right(i - 1) \/ Told(i - 1) \/ Hidden(i - 1))
    BY <1>3
  <2> HIDE DEF n, names
  \* After the record before, no field of it is another one.
  <2>3. ASSUME NEW q, r[i] = ReadInto(c, f, q)
        PROVE  /\ Shape(i)
               /\ r[i].rc = q.rc /\ r[i].off = q.off
               /\ \A j \in 1 .. i - 1 : r[i].val[schema[j].name] = c.val[schema[j].name]
               /\ q.rc = 0 => r[i].val[f.name] = q.val
    <3> DEFINE w == [c.val EXCEPT ![f.name] = q.val]
    <3>1. /\ w = [m \in names |-> w[m]] /\ w[f.name] = q.val
          /\ \A m \in names : m # f.name => w[m] = c.val[m]
      BY <2>1, <2>2, OneMoreField
    <3>2. \A j \in 1 .. i - 1 : schema[j].name \in names /\ schema[j].name # f.name
      BY <1>1 DEF Distinct, names, n
    <3> HIDE DEF w
    <3>3. r[i].rc = q.rc /\ r[i].off = q.off /\ r[i].val = (IF q.rc = 0 THEN w ELSE c.val)
      BY <2>3, ReadParts DEF ReadInto, w
    <3>4. CASE q.rc = 0
      BY <3>1, <3>2, <3>3, <3>4
    <3>5. CASE q.rc # 0
      BY <2>2, <3>3, <3>5
    <3> QED
      BY <3>4, <3>5
  <2>4. Shape(i)
    <3>1. CASE c.rc = 0
      <4>1. r[i] = ReadInto(c, f, ReadMember(in, c.off, f))
        BY <2>1, <3>1 DEF ReadNextMember
      <4> QED
        BY <2>3, <4>1
    <3>2. CASE c.rc # 0
      BY <2>1, <2>2, <3>2 DEF ReadNextMember
    <3> QED
      BY <3>1, <3>2
  <2>5. CASE Right(i - 1)
    <3>1. c.rc = 0 /\ c.off = end[i - 1]
      <4>1. \E z : c = Read(0, end[i - 1], z)
        BY <2>5
      <4> QED
        BY <4>1, ReadParts
    <3>2. r[i] = ReadInto(c, f, e)
      BY <2>1, <3>1 DEF ReadNextMember
    <3>3. /\ r[i].rc = e.rc /\ r[i].off = e.off
          /\ \A j \in 1 .. i - 1 : r[i].val[schema[j].name] = c.val[schema[j].name]
          /\ e.rc = 0 => r[i].val[f.name] = e.val
      BY <2>3, <3>2
    <3>4. \A j \in 1 .. i - 1 : SeenAt(schema, r[i].val, v, j)
      BY <2>5, <3>3 DEF SeenAt
    <3>5. CASE ReadsAs(e, in, end[i], x) /\ ~(Len(in) < end[i])
      <4>1. e = Read(0, end[i], x)
        BY <3>5 DEF ReadsAs
      <4> HIDE DEF e
      <4>2. e.rc = 0 /\ e.off = end[i] /\ e.val = x
        BY <4>1, ReadParts
      <4>3. r[i] = Read(0, end[i], r[i].val)
        <5>1. \E z : r[i] = Read(e.rc, e.off, z)
          BY <3>2 DEF ReadInto
        <5> QED
          BY <4>2, <5>1, ReadParts
      <4>4. SeenAt(schema, r[i].val, v, i)
        BY <3>3, <4>2 DEF SeenAt
      <4>5. \A j \in 1 .. i : SeenAt(schema, r[i].val, v, j)
        <5>1. ASSUME NEW j \in 1 .. i PROVE SeenAt(schema, r[i].val, v, j)
          <6>1. j = i \/ j \in 1 .. i - 1
            BY <2>1, <1>1 DEF n
          <6> QED
            BY <3>4, <4>4, <6>1
        <5> QED
          BY <5>1
      <4>6. Right(i)
        BY <3>5, <4>3, <4>5
      <4> HIDE DEF Shape, Right, Told, Hidden
      <4> QED
        BY <2>1, <2>4, <4>6 DEF n
    <3>6. CASE ReadsAs(e, in, end[i], x) /\ Len(in) < end[i]
      <4>1. e.rc = E2BIG
        BY <3>6 DEF ReadsAs
      <4>2. Told(i)
        BY <3>3, <3>6, <4>1
      <4> HIDE DEF Shape, Right, Told, Hidden
      <4> QED
        BY <2>1, <2>4, <4>2 DEF n
    <3>7. CASE f.kind = "Vector" /\ Len(in) < end[i]
      <4>1. i \in 1 .. i
        BY <1>1 DEF n
      <4>2. Hidden(i)
        BY <3>4, <3>7, <4>1 DEF Overlooked
      <4> HIDE DEF Shape, Right, Told, Hidden
      <4> QED
        BY <2>1, <2>4, <4>2 DEF n
    <3> QED
      BY <2>1, <3>5, <3>6, <3>7
  <2>6. CASE Told(i - 1)
    <3>1. c.rc # 0
      BY <2>6 DEF E2BIG
    <3>2. r[i] = c
      BY <2>1, <3>1 DEF ReadNextMember
    <3>3. Told(i)
      BY <1>1, <2>1, <2>6, <3>2
    <3> HIDE DEF Shape, Right, Told, Hidden
    <3> QED
      BY <2>1, <2>4, <3>3 DEF n
  <2>7. CASE Hidden(i - 1)
    <3>1. \A j \in 1 .. i - 1 : r[i].val[schema[j].name] = c.val[schema[j].name]
      <4>1. CASE c.rc = 0
        <5>1. r[i] = ReadInto(c, f, ReadMember(in, c.off, f))
          BY <2>1, <4>1 DEF ReadNextMember
        <5> QED
          BY <2>3, <5>1
      <4>2. CASE c.rc # 0
        BY <2>1, <4>2 DEF ReadNextMember
      <4> QED
        BY <4>1, <4>2
    <3>2. PICK k \in 1 .. i - 1 : /\ schema[k].kind = "Vector"
                                  /\ \A j \in 1 .. k - 1 : SeenAt(schema, c.val, v, j)
      BY <2>7 DEF Overlooked
    <3>3. k \in 1 .. i /\ \A j \in 1 .. k - 1 : j \in 1 .. i - 1
      BY <1>1 DEF n
    <3>4. \A j \in 1 .. k - 1 : SeenAt(schema, r[i].val, v, j)
      BY <3>1, <3>2, <3>3 DEF SeenAt
    <3>5. Overlooked(schema, r[i].val, v, i)
      BY <3>2, <3>3, <3>4 DEF Overlooked
    <3>6. Len(in) < end[i]
      BY <1>1, <2>1, <2>7
    <3>7. Hidden(i)
      BY <3>5, <3>6
    <3> HIDE DEF Shape, Right, Told, Hidden
    <3> QED
      BY <2>1, <2>4, <3>7 DEF n
  <2> HIDE DEF Shape, Right, Told, Hidden
  <2> QED
    BY <2>2, <2>5, <2>6, <2>7
<1>4. n \in S
  <2>1. \A i \in 1 .. n : i - 1 \in S => i \in S
    BY <1>3
  <2> HIDE DEF S, n
  <2>2. \A i \in 0 .. n : i \in S
    BY <1>1, <1>2, <2>1, UpTo
  <2> QED
    BY <1>1, <2>2
<1> QED
  BY <1>4

\* The record as it is to be read.
LEMMA SeenIs ==
    ASSUME NEW schema \in Seq(Members), Distinct(schema), NEW v, NEW val,
           val = [m \in FieldNames(schema) |-> val[m]],
           \A j \in 1 .. Len(schema) : SeenAt(schema, val, v, j)
    PROVE  val = Seen(schema, v)
<1> DEFINE names == FieldNames(schema)
<1>1. DOMAIN schema = 1 .. Len(schema) /\ names = {schema[i].name : i \in 1 .. Len(schema)}
  BY NamesOf
<1>2. ASSUME NEW m \in names PROVE val[m] = Seen(schema, v)[m]
  <2>1. PICK i \in 1 .. Len(schema) : m = schema[i].name
    BY <1>1
  <2>2. (\E j \in DOMAIN schema : schema[j].name = m /\ schema[j].kind = "Bool")
          <=> schema[i].kind = "Bool"
    BY <1>1, <2>1 DEF Distinct
  <2>3. val[m] = SeenScalar(schema[i], v[m])
    BY <2>1 DEF SeenAt
  <2> QED
    BY <2>2, <2>3 DEF Seen, SeenScalar, names
<1>3. Seen(schema, v) = [m \in names |-> Seen(schema, v)[m]]
  BY DEF Seen, names
<1> HIDE DEF names
<1> QED
  BY <1>2, <1>3 DEF names

\* A record is read as it was written; if it was cut short, this is told or a vector hides it.
LEMMA RecordSurvives ==
    ASSUME NEW oa \in Archives, NEW schema \in Seq(Members), Distinct(schema), NEW v,
           FitsRecord(schema, v)
    PROVE  LET b == Serialize(oa, schema, v) IN
           /\ b \in Archives /\ Begins(oa.buffer, b.buffer)
           /\ \A in \in Seq(Octets), d \in Nat :
                 Agree(in, d, b.buffer) /\ ~(Len(in) < d + Len(oa.buffer)) =>
                    LET r == Deserialize(in, d + Len(oa.buffer), schema) IN
                    IF Len(in) < d + Len(b.buffer)
                    THEN r.rc = E2BIG \/ Overlooked(schema, r.val, v, Len(schema))
                    ELSE r = Read(0, d + Len(b.buffer), Seen(schema, v))
<1> DEFINE n == Len(schema)
           b == Serialize(oa, schema, v)
<1>1. /\ DOMAIN schema = 1 .. n /\ n \in Nat
      /\ \A i \in 1 .. n : schema[i] \in Members /\ FitsMember(schema[i], v[schema[i].name])
  <2>1. \A i \in 1 .. n : schema[i] \in Members
    OBVIOUS
  <2> QED
    BY <2>1, NamesOf DEF FitsRecord
<1> HIDE DEF n, b
<1>2. PICK w : /\ w[0] = oa
               /\ \A i \in 1 .. n : w[i] = WriteMember(w[i - 1], schema[i], v[schema[i].name])
               /\ w[n] = b
  <2>1. Len(schema) \in Nat
    OBVIOUS
  <2> QED
    <3>1. \E f : /\ f[0] = oa
                 /\ \A i \in 1 .. Len(schema) :
                       f[i] = WriteMember(f[i - 1], schema[i], v[schema[i].name])
                 /\ f[Len(schema)] = Serialize(oa, schema, v)
      BY <2>1, SerializeIs
    <3> QED
      BY <3>1 DEF n, b
<1> DEFINE S == {i \in 0 .. n : w[i] \in Archives}
<1>3. \A i \in 0 .. n : i \in S
  <2>1. 0 \in S
    BY <1>1, <1>2
  <2>2. ASSUME NEW i \in 1 .. n, i - 1 \in S PROVE i \in S
    <3>1. w[i] = WriteMember(w[i - 1], schema[i], v[schema[i].name]) /\ w[i - 1] \in Archives
      BY <1>2, <2>2
    <3>2. w[i] \in Archives
      BY <1>1, <3>1, MemberSurvives
    <3> QED
      BY <1>1, <3>2
  <2> HIDE DEF S
  <2> QED
    BY <1>1, <2>1, <2>2, UpTo
<1>4. \A i \in 0 .. n : w[i] \in Archives
  BY <1>3
<1> HIDE DEF S
<1>5. \A i \in 1 .. n : Begins(w[i - 1].buffer, w[i].buffer)
  <2>1. ASSUME NEW i \in 1 .. n PROVE Begins(w[i - 1].buffer, w[i].buffer)
    <3>1. i - 1 \in 0 .. n
      BY <1>1
    <3>2. w[i] = WriteMember(w[i - 1], schema[i], v[schema[i].name]) /\ w[i - 1] \in Archives
      BY <1>2, <1>4, <3>1
    <3> QED
      BY <1>1, <3>2, MemberSurvives
  <2> QED
    BY <2>1
<1>6. /\ \A i \in 0 .. n : /\ Begins(w[i].buffer, b.buffer)
                           /\ w[i].buffer \in Seq(Octets) /\ Len(w[i].buffer) \in Nat
                           /\ Len(w[i].buffer) <= Len(b.buffer)
      /\ b \in Archives /\ b.buffer \in Seq(Octets) /\ Begins(oa.buffer, b.buffer)
  <2>1. b \in Archives /\ b.buffer \in Seq(Octets)
    BY <1>1, <1>2, <1>4, BufferOf
  <2>2. /\ \A i \in 0 .. n : Begins(w[i].buffer, w[n].buffer)
        /\ Begins(w[0].buffer, w[n].buffer)
        /\ \A i \in 0 .. n : /\ w[i].buffer \in Seq(Octets) /\ Len(w[i].buffer) \in Nat
                             /\ Len(w[i].buffer) <= Len(w[n].buffer)
    BY <1>1, <1>4, <1>5, Growing
  <2> QED
    BY <1>2, <2>1, <2>2
<1>7. ASSUME NEW in \in Seq(Octets), NEW d \in Nat, Agree(in, d, b.buffer),
             ~(Len(in) < d + Len(oa.buffer))
      PROVE  LET r == Deserialize(in, d + Len(oa.buffer), schema) IN
             IF Len(in) < d + Len(b.buffer)
             THEN r.rc = E2BIG \/ Overlooked(schema, r.val, v, Len(schema))
             ELSE r = Read(0, d + Len(b.buffer), Seen(schema, v))
  <2> DEFINE start == d + Len(oa.buffer)
             end == [i \in 0 .. n |-> d + Len(w[i].buffer)]
  <2>1. \A i \in 0 .. n : end[i] = d + Len(w[i].buffer) /\ end[i] \in Nat
    BY <1>6
  <2> HIDE DEF end
  <2>2. ASSUME NEW i \in 1 .. n
        PROVE  /\ end[i - 1] <= end[i]
               /\ \/ ReadsAs(ReadMember(in, end[i - 1], schema[i]), in, end[i],
                             SeenScalar(schema[i], v[schema[i].name]))
                  \/ schema[i].kind = "Vector" /\ Len(in) < end[i]
    <3>1. i - 1 \in 0 .. n /\ i \in 0 .. n
      BY <1>1
    <3>2. Begins(w[i - 1].buffer, w[i].buffer)
      BY <1>5
    <3>3. Len(w[i - 1].buffer) <= Len(w[i].buffer)
      BY <3>2 DEF Begins
    <3>4. end[i - 1] <= end[i]
      BY <1>6, <2>1, <3>1, <3>3
    <3>5. Agree(in, d, w[i].buffer)
      BY <1>6, <1>7, <3>1, AgreeBefore
    <3>6. w[i] = WriteMember(w[i - 1], schema[i], v[schema[i].name]) /\ w[i - 1] \in Archives
      BY <1>2, <1>4, <3>1
    <3>7. \/ ReadsAs(ReadMember(in, d + Len(w[i - 1].buffer), schema[i]),
                     in, d + Len(w[i].buffer), SeenScalar(schema[i], v[schema[i].name]))
          \/ schema[i].kind = "Vector" /\ Len(in) < d + Len(w[i].buffer)
      <4>1. ASSUME NEW a \in Archives, NEW f \in Members, NEW x, FitsMember(f, x),
                   NEW z, z = WriteMember(a, f, x), Agree(in, d, z.buffer)
            PROVE  \/ ReadsAs(ReadMember(in, d + Len(a.buffer), f),
                              in, d + Len(z.buffer), SeenScalar(f, x))
                   \/ f.kind = "Vector" /\ Len(in) < d + Len(z.buffer)
        BY <4>1, MemberSurvives
      <4> QED
        BY <1>1, <3>5, <3>6, <4>1
    <3> QED
      BY <2>1, <3>1, <3>4, <3>7
  <2>3. PICK r : /\ r[0] = Read(0, start, Blank(schema, GARBAGE))
                 /\ \A i \in 1 .. n : r[i] = ReadNextMember(in, r[i - 1], schema[i])
                 /\ r[n] = Deserialize(in, start, schema)
    <3>1. Len(schema) \in Nat
      OBVIOUS
    <3> QED
      BY <3>1, DeserializeIs DEF n
  <2>4. /\ r[n].val = [m \in FieldNames(schema) |-> r[n].val[m]]
        /\ \/ /\ ~(Len(in) < end[n])
              /\ r[n] = Read(0, end[n], r[n].val)
              /\ \A j \in 1 .. n : SeenAt(schema, r[n].val, v, j)
           \/ Len(in) < end[n] /\ r[n].rc = E2BIG
           \/ Len(in) < end[n] /\ Overlooked(schema, r[n].val, v, n)
    <3>1. 0 \in 0 .. n /\ end[0] = start
      BY <1>1, <1>2, <2>1
    <3>2. \A i \in 0 .. n : end[i] \in Nat
      BY <2>1
    <3>3. \A i \in 1 .. n : end[i - 1] <= end[i]
      BY <2>2
    <3>4. \A i \in 1 .. n :
              \/ ReadsAs(ReadMember(in, end[i - 1], schema[i]), in, end[i],
                         SeenScalar(schema[i], v[schema[i].name]))
              \/ schema[i].kind = "Vector" /\ Len(in) < end[i]
      BY <2>2
    <3>5. ~(Len(in) < end[0]) /\ r[0] = Read(0, end[0], Blank(schema, GARBAGE))
      BY <1>7, <2>3, <3>1
    <3> QED
      BY <2>3, <3>2, <3>3, <3>4, <3>5, MembersSurvive DEF n
  <2>5. end[n] = d + Len(b.buffer) /\ n = Len(schema)
    BY <1>1, <1>2, <2>1 DEF n
  <2>6. CASE Len(in) < end[n]
    BY <2>3, <2>4, <2>5, <2>6
  <2>7. CASE ~(Len(in) < end[n])
    <3>1. r[n].val = Seen(schema, v)
      BY <2>4, <2>5, <2>7, SeenIs
    <3> QED
      BY <2>3, <2>4, <2>5, <2>7, <3>1
  <2> QED
    BY <2>6, <2>7
<1> QED
  BY <1>6, <1>7 DEF b

-----------------------------------------------------------------------------
(* The schemas.                                                            *)

\* A schema of fields from F, no two of one name, nor of those of its elements.
AreFields(schema, F) ==
    schema \in Seq(F) /\ Distinct(schema) /\ \A i \in DOMAIN schema : Distinct(schema[i].of)

\* The fields of the schemas are fields.
LEMMA FieldsAre ==
    ASSUME NEW n \in Labels
    PROVE  /\ Int32(n) \in Plains /\ Int64(n) \in Plains /\ Str(n) \in Plains /\ Buf(n) \in Plains
           /\ Flag(n) \in Scalars
           /\ \A s \in Seq(Plains) : Vec(n, s) \in Vectors
BY DEF Int32, Int64, Str, Buf, Flag, Vec, Plains, Scalars, ScalarKinds, Vectors

\* No fields at all.
LEMMA NoFieldsAre == AreFields(<<>>, Plains) /\ Distinct(<<>>)
BY DEF AreFields, Distinct

\* A field in front of others.
LEMMA OneFieldMore ==
    ASSUME NEW F, NEW f \in F, NEW s, AreFields(s, F), f.name \notin FieldNames(s), Distinct(f.of)
    PROVE  AreFields(<<f>> \o s, F)
<1> DEFINE t == <<f>> \o s
<1>1. s \in Seq(F) /\ Len(s) \in Nat /\ DOMAIN s = 1 .. Len(s) /\ <<f>> \in Seq(F)
  BY DEF AreFields
<1>2. /\ t \in Seq(F) /\ Len(t) = Len(s) + 1 /\ DOMAIN t = 1 .. Len(s) + 1
      /\ t[1] = f /\ \A i \in 2 .. Len(s) + 1 : t[i] = s[i - 1]
  BY <1>1
<1> HIDE DEF t
<1>3. Distinct(t)
  <2>1. ASSUME NEW i \in DOMAIN t, NEW j \in DOMAIN t, t[i].name = t[j].name PROVE i = j
    <3>1. ASSUME NEW k \in 2 .. Len(s) + 1
          PROVE  t[k] = s[k - 1] /\ k - 1 \in DOMAIN s /\ t[k].name # f.name
      BY <1>1, <1>2 DEF FieldNames
    <3>2. (i = 1 \/ i \in 2 .. Len(s) + 1) /\ (j = 1 \/ j \in 2 .. Len(s) + 1)
      BY <1>1, <1>2
    <3>3. CASE i = 1 \/ j = 1
      BY <1>2, <2>1, <3>1, <3>2, <3>3
    <3>4. CASE i \in 2 .. Len(s) + 1 /\ j \in 2 .. Len(s) + 1
      <4>1. i - 1 = j - 1
        BY <2>1, <3>1, <3>4 DEF AreFields, Distinct
      <4> QED
        BY <1>1, <3>4, <4>1
    <3> QED
      BY <3>2, <3>3, <3>4
  <2> QED
    BY <2>1 DEF Distinct
<1>4. \A i \in DOMAIN t : Distinct(t[i].of)
  <2>1. ASSUME NEW i \in DOMAIN t PROVE Distinct(t[i].of)
    <3>1. i = 1 \/ (i - 1 \in DOMAIN s /\ t[i] = s[i - 1])
      BY <1>1, <1>2
    <3> QED
      BY <1>2, <3>1 DEF AreFields
  <2> QED
    BY <2>1
<1> QED
  BY <1>2, <1>3, <1>4 DEF AreFields, t

\* Fields that are no flags may stand in a record.
LEMMA PlainFieldsAre ==
    ASSUME NEW s, AreFields(s, Plains)
    PROVE  AreFields(s, Members)
<1>1. Plains \subseteq Members
  BY DEF Plains, Members
<1>2. s \in Seq(Plains) /\ \A i \in 1 .. Len(s) : s[i] \in Members
  BY <1>1 DEF AreFields
<1> QED
  BY <1>2 DEF AreFields

\* Id has distinct fields that are written and read alike.
LEMMA IdFields == AreFields(Id, Plains)
<1>1. {"id", "scheme"} \subseteq Labels
  BY DEF Labels
<1>2. \A n \in Labels : Str(n) \in Plains
  BY FieldsAre
<1>3. Id \in Seq(Plains)
  BY <1>1, <1>2 DEF Id
<1>4. Distinct(Id)
  BY DEF Distinct, Id, Str
<1>5. \A i \in DOMAIN Id : Distinct(Id[i].of)
  BY DEF Distinct, Id, Str
<1> QED
  BY <1>3, <1>4, <1>5 DEF AreFields

\* ACL has distinct fields that are written and read alike.
LEMMA ACLFields == AreFields(ACL, Plains)
<1>1. "perms" \in Labels
  BY DEF Labels
<1>2. Int32("perms") \in Plains /\ Distinct(Int32("perms").of)
  BY <1>1, FieldsAre DEF Distinct, Int32
<1>3. AreFields(Id, Plains)
  BY IdFields
<1>4. Int32("perms").name \notin FieldNames(Id)
  BY DEF FieldNames, Id, Int32, Str
<1> QED
  BY <1>2, <1>3, <1>4, OneFieldMore DEF ACL

\* Stat has distinct fields that are written and read alike.
LEMMA StatFields == AreFields(Stat, Plains)
<1>1. {"aversion", "ctime", "cversion", "czxid", "dataLength", "ephemeralOwner", "mtime",
       "mzxid", "numChildren", "pzxid", "version"} \subseteq Labels
  BY DEF Labels
<1>2. \A n \in Labels : Int32(n) \in Plains /\ Int64(n) \in Plains
  BY FieldsAre
<1>3. Stat \in Seq(Plains)
  BY <1>1, <1>2 DEF Stat
<1>4. Distinct(Stat)
  BY DEF Distinct, Stat, Int32, Int64
<1>5. \A i \in DOMAIN Stat : Distinct(Stat[i].of)
  BY DEF Distinct, Stat, Int32, Int64
<1> QED
  BY <1>3, <1>4, <1>5 DEF AreFields

\* StatPersisted has distinct fields that are written and read alike.
LEMMA StatPersistedFields == AreFields(StatPersisted, Plains)
<1>1. {"aversion", "ctime", "cversion", "czxid", "ephemeralOwner", "mtime", "mzxid",
       "pzxid", "version"} \subseteq Labels
  BY DEF Labels
<1>2. \A n \in Labels : Int32(n) \in Plains /\ Int64(n) \in Plains
  BY FieldsAre
<1>3. StatPersisted \in Seq(Plains)
  BY <1>1, <1>2 DEF StatPersisted
<1>4. Distinct(StatPersisted)
  BY DEF Distinct, StatPersisted, Int32, Int64
<1>5. \A i \in DOMAIN StatPersisted : Distinct(StatPersisted[i].of)
  BY DEF Distinct, StatPersisted, Int32, Int64
<1> QED
  BY <1>3, <1>4, <1>5 DEF AreFields

\* StatPersistedV1 has distinct fields that are written and read alike.
LEMMA StatPersistedV1Fields == AreFields(StatPersistedV1, Plains)
<1>1. {"aversion", "ctime", "cversion", "czxid", "ephemeralOwner", "mtime", "mzxid",
       "version"} \subseteq Labels
  BY DEF Labels
<1>2. \A n \in Labels : Int32(n) \in Plains /\ Int64(n) \in Plains
  BY FieldsAre
<1>3. StatPersistedV1 \in Seq(Plains)
  BY <1>1, <1>2 DEF StatPersistedV1
<1>4. Distinct(StatPersistedV1)
  BY DEF Distinct, StatPersistedV1, Int32, Int64
<1>5. \A i \in DOMAIN StatPersistedV1 : Distinct(StatPersistedV1[i].of)
  BY DEF Distinct, StatPersistedV1, Int32, Int64
<1> QED
  BY <1>3, <1>4, <1>5 DEF AreFields

\* op_result_t has distinct fields that are written and read alike.
LEMMA op_result_tFields == AreFields(op_result_t, Plains)
<1>1. {"op", "rc", "response"} \subseteq Labels
  BY DEF Labels
<1>2. \A n \in Labels : Buf(n) \in Plains /\ Int32(n) \in Plains
  BY FieldsAre
<1>3. op_result_t \in Seq(Plains)
  BY <1>1, <1>2 DEF op_result_t
<1>4. Distinct(op_result_t)
  BY DEF Distinct, op_result_t, Buf, Int32
<1>5. \A i \in DOMAIN op_result_t : Distinct(op_result_t[i].of)
  BY DEF Distinct, op_result_t, Buf, Int32
<1> QED
  BY <1>3, <1>4, <1>5 DEF AreFields

\* ConnectRequest has distinct fields that are written and read alike.
LEMMA ConnectRequestFields == AreFields(ConnectRequest, Plains)
<1>1. {"lastZxidSeen", "passwd", "protocolVersion", "sessionId", "timeOut"} \subseteq Labels
  BY DEF Labels
<1>2. \A n \in Labels : Buf(n) \in Plains /\ Int32(n) \in Plains /\ Int64(n) \in Plains
  BY FieldsAre
<1>3. ConnectRequest \in Seq(Plains)
  BY <1>1, <1>2 DEF ConnectRequest
<1>4. Distinct(ConnectRequest)
  BY DEF Distinct, ConnectRequest, Buf, Int32, Int64
<1>5. \A i \in DOMAIN ConnectRequest : Distinct(ConnectRequest[i].of)
  BY DEF Distinct, ConnectRequest, Buf, Int32, Int64
<1> QED
  BY <1>3, <1>4, <1>5 DEF AreFields

\* ConnectResponse has distinct fields that are written and read alike.
LEMMA ConnectResponseFields == AreFields(ConnectResponse, Plains)
<1>1. {"passwd", "protocolVersion", "sessionId", "timeOut"} \subseteq Labels
  BY DEF Labels
<1>2. \A n \in Labels : Buf(n) \in Plains /\ Int32(n) \in Plains /\ Int64(n) \in Plains
  BY FieldsAre
<1>3. ConnectResponse \in Seq(Plains)
  BY <1>1, <1>2 DEF ConnectResponse
<1>4. Distinct(ConnectResponse)
  BY DEF Distinct, ConnectResponse, Buf, Int32, Int64
<1>5. \A i \in DOMAIN ConnectResponse : Distinct(ConnectResponse[i].of)
  BY DEF Distinct, ConnectResponse, Buf, Int32, Int64
<1> QED
  BY <1>3, <1>4, <1>5 DEF AreFields

\* String_vector has distinct fields that are written and read alike.
LEMMA String_vectorFields == AreFields(String_vector, Plains)
<1>1. {"data"} \subseteq Labels
  BY DEF Labels
<1>2. \A n \in Labels : Str(n) \in Plains
  BY FieldsAre
<1>3. String_vector \in Seq(Plains)
  BY <1>1, <1>2 DEF String_vector
<1>4. Distinct(String_vector)
  BY DEF Distinct, String_vector, Str
<1>5. \A i \in DOMAIN String_vector : Distinct(String_vector[i].of)
  BY DEF Distinct, String_vector, Str
<1> QED
  BY <1>3, <1>4, <1>5 DEF AreFields

\* SetWatches has distinct fields that are written and read alike.
LEMMA SetWatchesFields == AreFields(SetWatches, Members)
<1>1. {"childWatches", "dataWatches", "existWatches", "relativeZxid"} \subseteq Labels
  BY DEF Labels
<1>2. \A n \in Labels : /\ Int64(n) \in Members
                       /\ Vec(n, String_vector) \in Members
  BY FieldsAre, String_vectorFields DEF AreFields, Members, Plains
<1>3. SetWatches \in Seq(Members)
  BY <1>1, <1>2 DEF SetWatches
<1>4. Distinct(SetWatches)
  BY DEF Distinct, SetWatches, Int64, Vec
<1>5. \A i \in DOMAIN SetWatches : Distinct(SetWatches[i].of)
  BY String_vectorFields DEF AreFields, Distinct, SetWatches, Int64, Vec
<1> QED
  BY <1>3, <1>4, <1>5 DEF AreFields

\* RequestHeader has distinct fields that are written and read alike.
LEMMA RequestHeaderFields == AreFields(RequestHeader, Plains)
<1>1. {"type", "xid"} \subseteq Labels
  BY DEF Labels
<1>2. \A n \in Labels : Int32(n) \in Plains
  BY FieldsAre
<1>3. RequestHeader \in Seq(Plains)
  BY <1>1, <1>2 DEF RequestHeader
<1>4. Distinct(RequestHeader)
  BY DEF Distinct, RequestHeader, Int32
<1>5. \A i \in DOMAIN RequestHeader : Distinct(RequestHeader[i].of)
  BY DEF Distinct, RequestHeader, Int32
<1> QED
  BY <1>3, <1>4, <1>5 DEF AreFields

\* AuthPacket has distinct fields that are written and read alike.
LEMMA AuthPacketFields == AreFields(AuthPacket, Plains)
<1>1. {"auth", "scheme", "type"} \subseteq Labels
  BY DEF Labels
<1>2. \A n \in Labels : Buf(n) \in Plains /\ Int32(n) \in Plains /\ Str(n) \in Plains
  BY FieldsAre
<1>3. AuthPacket \in Seq(Plains)
  BY <1>1, <1>2 DEF AuthPacket
<1>4. Distinct(AuthPacket)
  BY DEF Distinct, AuthPacket, Buf, Int32, Str
<1>5. \A i \in DOMAIN AuthPacket : Distinct(AuthPacket[i].of)
  BY DEF Distinct, AuthPacket, Buf, Int32, Str
<1> QED
  BY <1>3, <1>4, <1>5 DEF AreFields

\* ReplyHeader has distinct fields that are written and read alike.
LEMMA ReplyHeaderFields == AreFields(ReplyHeader, Plains)
<1>1. {"err", "xid", "zxid"} \subseteq Labels
  BY DEF Labels
<1>2. \A n \in Labels : Int32(n) \in Plains /\ Int64(n) \in Plains
  BY FieldsAre
<1>3. ReplyHeader \in Seq(Plains)
  BY <1>1, <1>2 DEF ReplyHeader
<1>4. Distinct(ReplyHeader)
  BY DEF Distinct, ReplyHeader, Int32, Int64
<1>5. \A i \in DOMAIN ReplyHeader : Distinct(ReplyHeader[i].of)
  BY DEF Distinct, ReplyHeader, Int32, Int64
<1> QED
  BY <1>3, <1>4, <1>5 DEF AreFields

\* GetDataRequest has distinct fields that are written and read alike.
LEMMA GetDataRequestFields == AreFields(GetDataRequest, Members)
<1>1. {"path", "watch"} \subseteq Labels
  BY DEF Labels
<1>2. \A n \in Labels : /\ Flag(n) \in Members
                       /\ Str(n) \in Members
  BY FieldsAre DEF AreFields, Members, Plains
<1>3. GetDataRequest \in Seq(Members)
  BY <1>1, <1>2 DEF GetDataRequest
<1>4. Distinct(GetDataRequest)
  BY DEF Distinct, GetDataRequest, Flag, Str
<1>5. \A i \in DOMAIN GetDataRequest : Distinct(GetDataRequest[i].of)
  BY DEF Distinct, GetDataRequest, Flag, Str
<1> QED
  BY <1>3, <1>4, <1>5 DEF AreFields

\* SetDataRequest has distinct fields that are written and read alike.
LEMMA SetDataRequestFields == AreFields(SetDataRequest, Plains)
<1>1. {"data", "path", "version"} \subseteq Labels
  BY DEF Labels
<1>2. \A n \in Labels : Buf(n) \in Plains /\ Int32(n) \in Plains /\ Str(n) \in Plains
  BY FieldsAre
<1>3. SetDataRequest \in Seq(Plains)
  BY <1>1, <1>2 DEF SetDataRequest
<1>4. Distinct(SetDataRequest)
  BY DEF Distinct, SetDataRequest, Buf, Int32, Str
<1>5. \A i \in DOMAIN SetDataRequest : Distinct(SetDataRequest[i].of)
  BY DEF Distinct, SetDataRequest, Buf, Int32, Str
<1> QED
  BY <1>3, <1>4, <1>5 DEF AreFields

\* SetDataResponse has distinct fields that are written and read alike.
LEMMA SetDataResponseFields == AreFields(SetDataResponse, Plains)
BY StatFields DEF SetDataResponse

\* ACL_vector has distinct fields that are written and read alike.
LEMMA ACL_vectorFields == AreFields(ACL_vector, Plains)
BY ACLFields DEF ACL_vector

\* CreateRequest has distinct fields that are written and read alike.
LEMMA CreateRequestFields == AreFields(CreateRequest, Members)
<1>1. {"acl", "data", "flags", "path"} \subseteq Labels
  BY DEF Labels
<1>2. \A n \in Labels : /\ Buf(n) \in Members
                       /\ Int32(n) \in Members
                       /\ Str(n) \in Members
                       /\ Vec(n, ACL_vector) \in Members
  BY FieldsAre, ACL_vectorFields DEF AreFields, Members, Plains
<1>3. CreateRequest \in Seq(Members)
  BY <1>1, <1>2 DEF CreateRequest
<1>4. Distinct(CreateRequest)
  BY DEF Distinct, CreateRequest, Buf, Int32, Str, Vec
<1>5. \A i \in DOMAIN CreateRequest : Distinct(CreateRequest[i].of)
  BY ACL_vectorFields DEF AreFields, Distinct, CreateRequest, Buf, Int32, Str, Vec
<1> QED
  BY <1>3, <1>4, <1>5 DEF AreFields

\* DeleteRequest has distinct fields that are written and read alike.
LEMMA DeleteRequestFields == AreFields(DeleteRequest, Plains)
<1>1. {"path", "version"} \subseteq Labels
  BY DEF Labels
<1>2. \A n \in Labels : Int32(n) \in Plains /\ Str(n) \in Plains
  BY FieldsAre
<1>3. DeleteRequest \in Seq(Plains)
  BY <1>1, <1>2 DEF DeleteRequest
<1>4. Distinct(DeleteRequest)
  BY DEF Distinct, DeleteRequest, Int32, Str
<1>5. \A i \in DOMAIN DeleteRequest : Distinct(DeleteRequest[i].of)
  BY DEF Distinct, DeleteRequest, Int32, Str
<1> QED
  BY <1>3, <1>4, <1>5 DEF AreFields

\* GetChildrenRequest has distinct fields that are written and read alike.
LEMMA GetChildrenRequestFields == AreFields(GetChildrenRequest, Members)
<1>1. {"path", "watch"} \subseteq Labels
  BY DEF Labels
<1>2. \A n \in Labels : /\ Flag(n) \in Members
                       /\ Str(n) \in Members
  BY FieldsAre DEF AreFields, Members, Plains
<1>3. GetChildrenRequest \in Seq(Members)
  BY <1>1, <1>2 DEF GetChildrenRequest
<1>4. Distinct(GetChildrenRequest)
  BY DEF Distinct, GetChildrenRequest, Flag, Str
<1>5. \A i \in DOMAIN GetChildrenRequest : Distinct(GetChildrenRequest[i].of)
  BY DEF Distinct, GetChildrenRequest, Flag, Str
<1> QED
  BY <1>3, <1>4, <1>5 DEF AreFields

\* GetMaxChildrenRequest has distinct fields that are written and read alike.
LEMMA GetMaxChildrenRequestFields == AreFields(GetMaxChildrenRequest, Plains)
<1>1. {"path"} \subseteq Labels
  BY DEF Labels
<1>2. \A n \in Labels : Str(n) \in Plains
  BY FieldsAre
<1>3. GetMaxChildrenRequest \in Seq(Plains)
  BY <1>1, <1>2 DEF GetMaxChildrenRequest
<1>4. Distinct(GetMaxChildrenRequest)
  BY DEF Distinct, GetMaxChildrenRequest, Str
<1>5. \A i \in DOMAIN GetMaxChildrenRequest : Distinct(GetMaxChildrenRequest[i].of)
  BY DEF Distinct, GetMaxChildrenRequest, Str
<1> QED
  BY <1>3, <1>4, <1>5 DEF AreFields

\* GetMaxChildrenResponse has distinct fields that are written and read alike.
LEMMA GetMaxChildrenResponseFields == AreFields(GetMaxChildrenResponse, Plains)
<1>1. {"max"} \subseteq Labels
  BY DEF Labels
<1>2. \A n \in Labels : Int32(n) \in Plains
  BY FieldsAre
<1>3. GetMaxChildrenResponse \in Seq(Plains)
  BY <1>1, <1>2 DEF GetMaxChildrenResponse
<1>4. Distinct(GetMaxChildrenResponse)
  BY DEF Distinct, GetMaxChildrenResponse, Int32
<1>5. \A i \in DOMAIN GetMaxChildrenResponse : Distinct(GetMaxChildrenResponse[i].of)
  BY DEF Distinct, GetMaxChildrenResponse, Int32
<1> QED
  BY <1>3, <1>4, <1>5 DEF AreFields

\* SetMaxChildrenRequest has distinct fields that are written and read alike.
LEMMA SetMaxChildrenRequestFields == AreFields(SetMaxChildrenRequest, Plains)
<1>1. {"max", "path"} \subseteq Labels
  BY DEF Labels
<1>2. \A n \in Labels : Int32(n) \in Plains /\ Str(n) \in Plains
  BY FieldsAre
<1>3. SetMaxChildrenRequest \in Seq(Plains)
  BY <1>1, <1>2 DEF SetMaxChildrenRequest
<1>4. Distinct(SetMaxChildrenRequest)
  BY DEF Distinct, SetMaxChildrenRequest, Int32, Str
<1>5. \A i \in DOMAIN SetMaxChildrenRequest : Distinct(SetMaxChildrenRequest[i].of)
  BY DEF Distinct, SetMaxChildrenRequest, Int32, Str
<1> QED
  BY <1>3, <1>4, <1>5 DEF AreFields

\* SyncRequest has distinct fields that are written and read alike.
LEMMA SyncRequestFields == AreFields(SyncRequest, Plains)
<1>1. {"path"} \subseteq Labels
  BY DEF Labels
<1>2. \A n \in Labels : Str(n) \in Plains
  BY FieldsAre
<1>3. SyncRequest \in Seq(Plains)
  BY <1>1, <1>2 DEF SyncRequest
<1>4. Distinct(SyncRequest)
  BY DEF Distinct, SyncRequest, Str
<1>5. \A i \in DOMAIN SyncRequest : Distinct(SyncRequest[i].of)
  BY DEF Distinct, SyncRequest, Str
<1> QED
  BY <1>3, <1>4, <1>5 DEF AreFields

\* SyncResponse has distinct fields that are written and read alike.
LEMMA SyncResponseFields == AreFields(SyncResponse, Plains)
<1>1. {"path"} \subseteq Labels
  BY DEF Labels
<1>2. \A n \in Labels : Str(n) \in Plains
  BY FieldsAre
<1>3. SyncResponse \in Seq(Plains)
  BY <1>1, <1>2 DEF SyncResponse
<1>4. Distinct(SyncResponse)
  BY DEF Distinct, SyncResponse, Str
<1>5. \A i \in DOMAIN SyncResponse : Distinct(SyncResponse[i].of)
  BY DEF Distinct, SyncResponse, Str
<1> QED
  BY <1>3, <1>4, <1>5 DEF AreFields

\* GetACLRequest has distinct fields that are written and read alike.
LEMMA GetACLRequestFields == AreFields(GetACLRequest, Plains)
<1>1. {"path"} \subseteq Labels
  BY DEF Labels
<1>2. \A n \in Labels : Str(n) \in Plains
  BY FieldsAre
<1>3. GetACLRequest \in Seq(Plains)
  BY <1>1, <1>2 DEF GetACLRequest
<1>4. Distinct(GetACLRequest)
  BY DEF Distinct, GetACLRequest, Str
<1>5. \A i \in DOMAIN GetACLRequest : Distinct(GetACLRequest[i].of)
  BY DEF Distinct, GetACLRequest, Str
<1> QED
  BY <1>3, <1>4, <1>5 DEF AreFields

\* SetACLRequest has distinct fields that are written and read alike.
LEMMA SetACLRequestFields == AreFields(SetACLRequest, Members)
<1>1. {"acl", "path", "version"} \subseteq Labels
  BY DEF Labels
<1>2. \A n \in Labels : /\ Int32(n) \in Members
                       /\ Str(n) \in Members
                       /\ Vec(n, ACL_vector) \in Members
  BY FieldsAre, ACL_vectorFields DEF AreFields, Members, Plains
<1>3. SetACLRequest \in Seq(Members)
  BY <1>1, <1>2 DEF SetACLRequest
<1>4. Distinct(SetACLRequest)
  BY DEF Distinct, SetACLRequest, Int32, Str, Vec
<1>5. \A i \in DOMAIN SetACLRequest : Distinct(SetACLRequest[i].of)
  BY ACL_vectorFields DEF AreFields, Distinct, SetACLRequest, Int32, Str, Vec
<1> QED
  BY <1>3, <1>4, <1>5 DEF AreFields

\* SetACLResponse has distinct fields that are written and read alike.
LEMMA SetACLResponseFields == AreFields(SetACLResponse, Plains)
BY StatFields DEF SetACLResponse

\* WatcherEvent has distinct fields that are written and read alike.
LEMMA WatcherEventFields == AreFields(WatcherEvent, Plains)
<1>1. {"path", "state", "type"} \subseteq Labels
  BY DEF Labels
<1>2. \A n \in Labels : Int32(n) \in Plains /\ Str(n) \in Plains
  BY FieldsAre
<1>3. WatcherEvent \in Seq(Plains)
  BY <1>1, <1>2 DEF WatcherEvent
<1>4. Distinct(WatcherEvent)
  BY DEF Distinct, WatcherEvent, Int32, Str
<1>5. \A i \in DOMAIN WatcherEvent : Distinct(WatcherEvent[i].of)
  BY DEF Distinct, WatcherEvent, Int32, Str
<1> QED
  BY <1>3, <1>4, <1>5 DEF AreFields

\* CreateResponse has distinct fields that are written and read alike.
LEMMA CreateResponseFields == AreFields(CreateResponse, Plains)
<1>1. {"path"} \subseteq Labels
  BY DEF Labels
<1>2. \A n \in Labels : Str(n) \in Plains
  BY FieldsAre
<1>3. CreateResponse \in Seq(Plains)
  BY <1>1, <1>2 DEF CreateResponse
<1>4. Distinct(CreateResponse)
  BY DEF Distinct, CreateResponse, Str
<1>5. \A i \in DOMAIN CreateResponse : Distinct(CreateResponse[i].of)
  BY DEF Distinct, CreateResponse, Str
<1> QED
  BY <1>3, <1>4, <1>5 DEF AreFields

\* ExistsRequest has distinct fields that are written and read alike.
LEMMA ExistsRequestFields == AreFields(ExistsRequest, Members)
<1>1. {"path", "watch"} \subseteq Labels
  BY DEF Labels
<1>2. \A n \in Labels : /\ Flag(n) \in Members
                       /\ Str(n) \in Members
  BY FieldsAre DEF AreFields, Members, Plains
<1>3. ExistsRequest \in Seq(Members)
  BY <1>1, <1>2 DEF ExistsRequest
<1>4. Distinct(ExistsRequest)
  BY DEF Distinct, ExistsRequest, Flag, Str
<1>5. \A i \in DOMAIN ExistsRequest : Distinct(ExistsRequest[i].of)
  BY DEF Distinct, ExistsRequest, Flag, Str
<1> QED
  BY <1>3, <1>4, <1>5 DEF AreFields

\* ExistsResponse has distinct fields that are written and read alike.
LEMMA ExistsResponseFields == AreFields(ExistsResponse, Plains)
BY StatFields DEF ExistsResponse

\* GetDataResponse has distinct fields that are written and read alike.
LEMMA GetDataResponseFields == AreFields(GetDataResponse, Plains)
<1>1. "data" \in Labels
  BY DEF Labels
<1>2. Buf("data") \in Plains /\ Distinct(Buf("data").of)
  BY <1>1, FieldsAre DEF Distinct, Buf
<1>3. AreFields(Stat, Plains)
  BY StatFields
<1>4. Buf("data").name \notin FieldNames(Stat)
  BY DEF FieldNames, Stat, Buf, Int32, Int64
<1> QED
  BY <1>2, <1>3, <1>4, OneFieldMore DEF GetDataResponse

\* GetChildrenResponse has distinct fields that are written and read alike.
LEMMA GetChildrenResponseFields == AreFields(GetChildrenResponse, Members)
<1>1. {"children"} \subseteq Labels
  BY DEF Labels
<1>2. \A n \in Labels : /\ Vec(n, String_vector) \in Members
  BY FieldsAre, String_vectorFields DEF AreFields, Members, Plains
<1>3. GetChildrenResponse \in Seq(Members)
  BY <1>1, <1>2 DEF GetChildrenResponse
<1>4. Distinct(GetChildrenResponse)
  BY DEF Distinct, GetChildrenResponse, Vec
<1>5. \A i \in DOMAIN GetChildrenResponse : Distinct(GetChildrenResponse[i].of)
  BY String_vectorFields DEF AreFields, Distinct, GetChildrenResponse, Vec
<1> QED
  BY <1>3, <1>4, <1>5 DEF AreFields

\* GetACLResponse has distinct fields that are written and read alike.
LEMMA GetACLResponseFields == AreFields(GetACLResponse, Members)
<1>1. "acl" \in Labels
  BY DEF Labels
<1>2. Vec("acl", ACL_vector) \in Members /\ Distinct(Vec("acl", ACL_vector).of)
  BY <1>1, FieldsAre, ACL_vectorFields DEF Members, AreFields, Vec
<1>3. AreFields(Stat, Members)
  BY StatFields, PlainFieldsAre
<1>4. Vec("acl", ACL_vector).name \notin FieldNames(Stat)
  BY DEF FieldNames, Stat, Int32, Int64, Vec
<1> QED
  BY <1>2, <1>3, <1>4, OneFieldMore DEF GetACLResponse

\* Id_vector has distinct fields that are written and read alike.
LEMMA Id_vectorFields == AreFields(Id_vector, Plains)
BY IdFields DEF Id_vector

\* QuorumPacket has distinct fields that are written and read alike.
LEMMA QuorumPacketFields == AreFields(QuorumPacket, Members)
<1>1. {"authinfo", "data", "type", "zxid"} \subseteq Labels
  BY DEF Labels
<1>2. \A n \in Labels : /\ Buf(n) \in Members
                       /\ Int32(n) \in Members
                       /\ Int64(n) \in Members
                       /\ Vec(n, Id_vector) \in Members
  BY FieldsAre, Id_vectorFields DEF AreFields, Members, Plains
<1>3. QuorumPacket \in Seq(Members)
  BY <1>1, <1>2 DEF QuorumPacket
<1>4. Distinct(QuorumPacket)
  BY DEF Distinct, QuorumPacket, Buf, Int32, Int64, Vec
<1>5. \A i \in DOMAIN QuorumPacket : Distinct(QuorumPacket[i].of)
  BY Id_vectorFields DEF AreFields, Distinct, QuorumPacket, Buf, Int32, Int64, Vec
<1> QED
  BY <1>3, <1>4, <1>5 DEF AreFields

\* FileHeader has distinct fields that are written and read alike.
LEMMA FileHeaderFields == AreFields(FileHeader, Plains)
<1>1. {"dbid", "magic", "version"} \subseteq Labels
  BY DEF Labels
<1>2. \A n \in Labels : Int32(n) \in Plains /\ Int64(n) \in Plains
  BY FieldsAre
<1>3. FileHeader \in Seq(Plains)
  BY <1>1, <1>2 DEF FileHeader
<1>4. Distinct(FileHeader)
  BY DEF Distinct, FileHeader, Int32, Int64
<1>5. \A i \in DOMAIN FileHeader : Distinct(FileHeader[i].of)
  BY DEF Distinct, FileHeader, Int32, Int64
<1> QED
  BY <1>3, <1>4, <1>5 DEF AreFields

\* TxnHeader has distinct fields that are written and read alike.
LEMMA TxnHeaderFields == AreFields(TxnHeader, Plains)
<1>1. {"clientId", "cxid", "time", "type", "zxid"} \subseteq Labels
  BY DEF Labels
<1>2. \A n \in Labels : Int32(n) \in Plains /\ Int64(n) \in Plains
  BY FieldsAre
<1>3. TxnHeader \in Seq(Plains)
  BY <1>1, <1>2 DEF TxnHeader
<1>4. Distinct(TxnHeader)
  BY DEF Distinct, TxnHeader, Int32, Int64
<1>5. \A i \in DOMAIN TxnHeader : Distinct(TxnHeader[i].of)
  BY DEF Distinct, TxnHeader, Int32, Int64
<1> QED
  BY <1>3, <1>4, <1>5 DEF AreFields

\* CreateTxn has distinct fields that are written and read alike.
LEMMA CreateTxnFields == AreFields(CreateTxn, Members)
<1>1. {"acl", "data", "ephemeral", "path"} \subseteq Labels
  BY DEF Labels
<1>2. \A n \in Labels : /\ Buf(n) \in Members
                       /\ Flag(n) \in Members
                       /\ Str(n) \in Members
                       /\ Vec(n, ACL_vector) \in Members
  BY FieldsAre, ACL_vectorFields DEF AreFields, Members, Plains
<1>3. CreateTxn \in Seq(Members)
  BY <1>1, <1>2 DEF CreateTxn
<1>4. Distinct(CreateTxn)
  BY DEF Distinct, CreateTxn, Buf, Flag, Str, Vec
<1>5. \A i \in DOMAIN CreateTxn : Distinct(CreateTxn[i].of)
  BY ACL_vectorFields DEF AreFields, Distinct, CreateTxn, Buf, Flag, Str, Vec
<1> QED
  BY <1>3, <1>4, <1>5 DEF AreFields

\* DeleteTxn has distinct fields that are written and read alike.
LEMMA DeleteTxnFields == AreFields(DeleteTxn, Plains)
<1>1. {"path"} \subseteq Labels
  BY DEF Labels
<1>2. \A n \in Labels : Str(n) \in Plains
  BY FieldsAre
<1>3. DeleteTxn \in Seq(Plains)
  BY <1>1, <1>2 DEF DeleteTxn
<1>4. Distinct(DeleteTxn)
  BY DEF Distinct, DeleteTxn, Str
<1>5. \A i \in DOMAIN DeleteTxn : Distinct(DeleteTxn[i].of)
  BY DEF Distinct, DeleteTxn, Str
<1> QED
  BY <1>3, <1>4, <1>5 DEF AreFields

\* SetDataTxn has distinct fields that are written and read alike.
LEMMA SetDataTxnFields == AreFields(SetDataTxn, Plains)
<1>1. {"data", "path", "version"} \subseteq Labels
  BY DEF Labels
<1>2. \A n \in Labels : Buf(n) \in Plains /\ Int32(n) \in Plains /\ Str(n) \in Plains
  BY FieldsAre
<1>3. SetDataTxn \in Seq(Plains)
  BY <1>1, <1>2 DEF SetDataTxn
<1>4. Distinct(SetDataTxn)
  BY DEF Distinct, SetDataTxn, Buf, Int32, Str
<1>5. \A i \in DOMAIN SetDataTxn : Distinct(SetDataTxn[i].of)
  BY DEF Distinct, SetDataTxn, Buf, Int32, Str
<1> QED
  BY <1>3, <1>4, <1>5 DEF AreFields

\* SetACLTxn has distinct fields that are written and read alike.
LEMMA SetACLTxnFields == AreFields(SetACLTxn, Members)
<1>1. {"acl", "path", "version"} \subseteq Labels
  BY DEF Labels
<1>2. \A n \in Labels : /\ Int32(n) \in Members
                       /\ Str(n) \in Members
                       /\ Vec(n, ACL_vector) \in Members
  BY FieldsAre, ACL_vectorFields DEF AreFields, Members, Plains
<1>3. SetACLTxn \in Seq(Members)
  BY <1>1, <1>2 DEF SetACLTxn
<1>4. Distinct(SetACLTxn)
  BY DEF Distinct, SetACLTxn, Int32, Str, Vec
<1>5. \A i \in DOMAIN SetACLTxn : Distinct(SetACLTxn[i].of)
  BY ACL_vectorFields DEF AreFields, Distinct, SetACLTxn, Int32, Str, Vec
<1> QED
  BY <1>3, <1>4, <1>5 DEF AreFields

\* SetMaxChildrenTxn has distinct fields that are written and read alike.
LEMMA SetMaxChildrenTxnFields == AreFields(SetMaxChildrenTxn, Plains)
<1>1. {"max", "path"} \subseteq Labels
  BY DEF Labels
<1>2. \A n \in Labels : Int32(n) \in Plains /\ Str(n) \in Plains
  BY FieldsAre
<1>3. SetMaxChildrenTxn \in Seq(Plains)
  BY <1>1, <1>2 DEF SetMaxChildrenTxn
<1>4. Distinct(SetMaxChildrenTxn)
  BY DEF Distinct, SetMaxChildrenTxn, Int32, Str
<1>5. \A i \in DOMAIN SetMaxChildrenTxn : Distinct(SetMaxChildrenTxn[i].of)
  BY DEF Distinct, SetMaxChildrenTxn, Int32, Str
<1> QED
  BY <1>3, <1>4, <1>5 DEF AreFields

\* CreateSessionTxn has distinct fields that are written and read alike.
LEMMA CreateSessionTxnFields == AreFields(CreateSessionTxn, Plains)
<1>1. {"timeOut"} \subseteq Labels
  BY DEF Labels
<1>2. \A n \in Labels : Int32(n) \in Plains
  BY FieldsAre
<1>3. CreateSessionTxn \in Seq(Plains)
  BY <1>1, <1>2 DEF CreateSessionTxn
<1>4. Distinct(CreateSessionTxn)
  BY DEF Distinct, CreateSessionTxn, Int32
<1>5. \A i \in DOMAIN CreateSessionTxn : Distinct(CreateSessionTxn[i].of)
  BY DEF Distinct, CreateSessionTxn, Int32
<1> QED
  BY <1>3, <1>4, <1>5 DEF AreFields

\* ErrorTxn has distinct fields that are written and read alike.
LEMMA ErrorTxnFields == AreFields(ErrorTxn, Plains)
<1>1. {"err"} \subseteq Labels
  BY DEF Labels
<1>2. \A n \in Labels : Int32(n) \in Plains
  BY FieldsAre
<1>3. ErrorTxn \in Seq(Plains)
  BY <1>1, <1>2 DEF ErrorTxn
<1>4. Distinct(ErrorTxn)
  BY DEF Distinct, ErrorTxn, Int32
<1>5. \A i \in DOMAIN ErrorTxn : Distinct(ErrorTxn[i].of)
  BY DEF Distinct, ErrorTxn, Int32
<1> QED
  BY <1>3, <1>4, <1>5 DEF AreFields

\* Every schema is one of fields.
LEMMA SchemasAre == \A s \in DOMAIN Schemas : AreFields(Schemas[s], Members)
<1>1. /\ AreFields(Id, Plains)
      /\ AreFields(ACL, Plains)
      /\ AreFields(Stat, Plains)
      /\ AreFields(StatPersisted, Plains)
      /\ AreFields(StatPersistedV1, Plains)
      /\ AreFields(op_result_t, Plains)
      /\ AreFields(ConnectRequest, Plains)
      /\ AreFields(ConnectResponse, Plains)
      /\ AreFields(String_vector, Plains)
      /\ AreFields(RequestHeader, Plains)
      /\ AreFields(AuthPacket, Plains)
      /\ AreFields(ReplyHeader, Plains)
  BY IdFields, ACLFields, StatFields, StatPersistedFields, StatPersistedV1Fields,
     op_result_tFields, ConnectRequestFields, ConnectResponseFields, String_vectorFields,
     RequestHeaderFields, AuthPacketFields, ReplyHeaderFields
<1>2. /\ AreFields(SetDataRequest, Plains)
      /\ AreFields(SetDataResponse, Plains)
      /\ AreFields(ACL_vector, Plains)
      /\ AreFields(DeleteRequest, Plains)
      /\ AreFields(GetMaxChildrenRequest, Plains)
      /\ AreFields(GetMaxChildrenResponse, Plains)
      /\ AreFields(SetMaxChildrenRequest, Plains)
      /\ AreFields(SyncRequest, Plains)
      /\ AreFields(SyncResponse, Plains)
      /\ AreFields(GetACLRequest, Plains)
      /\ AreFields(SetACLResponse, Plains)
      /\ AreFields(WatcherEvent, Plains)
  BY SetDataRequestFields, SetDataResponseFields, ACL_vectorFields, DeleteRequestFields,
     GetMaxChildrenRequestFields, GetMaxChildrenResponseFields, SetMaxChildrenRequestFields,
     SyncRequestFields, SyncResponseFields, GetACLRequestFields, SetACLResponseFields,
     WatcherEventFields
<1>3. /\ AreFields(CreateResponse, Plains)
      /\ AreFields(ExistsResponse, Plains)
      /\ AreFields(GetDataResponse, Plains)
      /\ AreFields(Id_vector, Plains)
      /\ AreFields(FileHeader, Plains)
      /\ AreFields(TxnHeader, Plains)
      /\ AreFields(DeleteTxn, Plains)
      /\ AreFields(SetDataTxn, Plains)
      /\ AreFields(SetMaxChildrenTxn, Plains)
      /\ AreFields(CreateSessionTxn, Plains)
      /\ AreFields(ErrorTxn, Plains)
  BY CreateResponseFields, ExistsResponseFields, GetDataResponseFields, Id_vectorFields,
     FileHeaderFields, TxnHeaderFields, DeleteTxnFields, SetDataTxnFields,
     SetMaxChildrenTxnFields, CreateSessionTxnFields, ErrorTxnFields
<1>4. /\ AreFields(SetWatches, Members)
      /\ AreFields(GetDataRequest, Members)
      /\ AreFields(CreateRequest, Members)
      /\ AreFields(GetChildrenRequest, Members)
      /\ AreFields(SetACLRequest, Members)
      /\ AreFields(ExistsRequest, Members)
      /\ AreFields(GetChildrenResponse, Members)
      /\ AreFields(GetACLResponse, Members)
      /\ AreFields(QuorumPacket, Members)
      /\ AreFields(CreateTxn, Members)
      /\ AreFields(SetACLTxn, Members)
  BY SetWatchesFields, GetDataRequestFields, CreateRequestFields, GetChildrenRequestFields,
     SetACLRequestFields, ExistsRequestFields, GetChildrenResponseFields,
     GetACLResponseFields, QuorumPacketFields, CreateTxnFields, SetACLTxnFields
<1>5. \A s : AreFields(s, Plains) => AreFields(s, Members)
  BY PlainFieldsAre
<1> QED
  BY <1>1, <1>2, <1>3, <1>4, <1>5 DEF Schemas

\* The value of a field in a sample may be written for it.
LEMMA SampleFieldFits ==
    ASSUME NEW f \in Scalars, NEW i \in Nat, NEW k \in Nat
    PROVE  /\ FitsScalar(f, SampleField(f.kind, i, k))
           /\ f.kind # "Bool" => SampleField(f.kind, i, k) \in Int \cup Seq(Int) \cup {NULL}
<1> DEFINE m == (i + k) % 4
           x == SampleField(f.kind, i, k)
<1>1. m \in Nat /\ 5 * m \in Nat
  OBVIOUS
<1> HIDE DEF m
<1>2. f.kind \in {"Int", "Long"} => x \in Int
  BY DEF SampleField
<1>3. f.kind = "Bool" => x \in Int
  BY DEF SampleField
<1>4. f.kind = "String" => x \in Seq(Int)
  <2>1. [j \in 1 .. m |-> 96 + i + j] \in Seq(Int)
    BY <1>1
  <2> QED
    BY <2>1 DEF SampleField, m
<1>5. f.kind = "Buffer" => x \in Seq(Int) \cup {NULL}
  <2>1. [j \in 1 .. 5 * m |-> j] \in Seq(Int)
    BY <1>1
  <2>2. f.kind = "Buffer" => x = IF m = 3 THEN NULL ELSE [j \in 1 .. 5 * m |-> j]
    BY DEF SampleField, m
  <2> QED
    BY <2>1, <2>2
<1> HIDE DEF x
<1> QED
  BY <1>2, <1>3, <1>4, <1>5, KindsOf DEF FitsScalar, x

\* The field of a name.
LEMMA FieldOfName ==
    ASSUME NEW F, NEW schema \in Seq(F), Distinct(schema), NEW i \in 1 .. Len(schema)
    PROVE  (CHOOSE j \in DOMAIN schema : schema[j].name = schema[i].name) = i
BY DEF Distinct

\* So may the sample of an element of a vector.
LEMMA SampleElementFits ==
    ASSUME NEW schema, AreFields(schema, Plains), NEW k \in Nat
    PROVE  SampleElement(schema, k) \in Elements(schema)
<1> DEFINE v == SampleElement(schema, k)
           names == FieldNames(schema)
<1>1. schema \in Seq(Plains) /\ Distinct(schema)
  BY DEF AreFields
<1>2. /\ DOMAIN schema = 1 .. Len(schema) /\ Len(schema) \in Nat
      /\ names = {schema[i].name : i \in 1 .. Len(schema)}
  BY <1>1, NamesOf
<1>3. ASSUME NEW i \in 1 .. Len(schema)
      PROVE  /\ FitsScalar(schema[i], v[schema[i].name])
             /\ v[schema[i].name] \in Int \cup Seq(Int) \cup {NULL}
  <2>1. (CHOOSE j \in DOMAIN schema : schema[j].name = schema[i].name) = i
    BY <1>1, FieldOfName
  <2>2. schema[i].name \in names
    BY <1>2
  <2>3. v[schema[i].name] = SampleField(schema[i].kind, i, k)
    BY <2>1, <2>2 DEF SampleElement
  <2>4. schema[i] \in Scalars /\ schema[i].kind # "Bool" /\ i \in Nat
    BY <1>1, <1>2 DEF Plains
  <2> QED
    BY <2>3, <2>4, SampleFieldFits
<1>4. v = [n \in names |-> v[n]]
  BY DEF SampleElement
<1> HIDE DEF v, names
<1>5. v \in [names -> Int \cup Seq(Int) \cup {NULL}]
  BY <1>2, <1>3, <1>4
<1> QED
  BY <1>2, <1>3, <1>4, <1>5 DEF Elements, FitsElement, v, names

\* And the sample of a record.
LEMMA SampleFits ==
    ASSUME NEW schema, AreFields(schema, Members), NEW k \in Nat
    PROVE  FitsRecord(schema, Sample(schema, k))
<1> DEFINE v == Sample(schema, k)
           names == FieldNames(schema)
<1>1. schema \in Seq(Members) /\ Distinct(schema)
  BY DEF AreFields
<1>2. /\ DOMAIN schema = 1 .. Len(schema) /\ Len(schema) \in Nat
      /\ names = {schema[i].name : i \in 1 .. Len(schema)}
  BY <1>1, NamesOf
<1>3. ASSUME NEW i \in 1 .. Len(schema) PROVE FitsMember(schema[i], v[schema[i].name])
  <2> DEFINE f == schema[i]
  <2>1. (CHOOSE j \in DOMAIN schema : schema[j].name = f.name) = i
    BY <1>1, FieldOfName
  <2>2. f.name \in names
    BY <1>2
  <2>3. v[f.name] = SampleMember(f, i, k)
    BY <2>1, <2>2 DEF Sample
  <2>4. f \in Members /\ i \in Nat /\ Distinct(f.of)
    BY <1>1, <1>2 DEF AreFields
  <2> HIDE DEF f
  <2>5. CASE f.kind = "Vector"
    <3>1. f.of \in Seq(Plains)
      BY <2>4, <2>5 DEF Members, Vectors, Scalars, ScalarKinds
    <3>2. \A j \in DOMAIN f.of : Distinct(f.of[j].of)
      <4>1. \A j \in DOMAIN f.of : f.of[j] \in Plains
        BY <3>1
      <4>2. \A p \in Plains : p.of = <<>>
        BY DEF Plains, Scalars
      <4> QED
        BY <4>1, <4>2, NoFieldsAre
    <3>3. AreFields(f.of, Plains)
      BY <2>4, <3>1, <3>2 DEF AreFields
    <3>4. \A j \in 1 .. ((i + k) % 4) : SampleElement(f.of, j + k) \in Elements(f.of)
      BY <2>4, <3>3, SampleElementFits
    <3>5. (i + k) % 4 \in Nat
      BY <2>4
    <3>6. [j \in 1 .. ((i + k) % 4) |-> SampleElement(f.of, j + k)] \in Seq(Elements(f.of))
      BY <3>4, <3>5
    <3> QED
      BY <2>3, <2>5, <3>6 DEF FitsMember, f, SampleMember
  <2>6. CASE f.kind # "Vector"
    <3>1. f \in Scalars
      BY <2>4, <2>6 DEF Members, Vectors
    <3> QED
      BY <2>3, <2>4, <2>6, <3>1, SampleFieldFits DEF FitsMember, f, SampleMember
  <2> QED
    BY <2>5, <2>6
<1>4. v = [n \in names |-> v[n]]
  BY DEF Sample
<1> HIDE DEF v, names
<1> QED
  BY <1>2, <1>3, <1>4 DEF FitsRecord, v, names

-----------------------------------------------------------------------------
(* Records that go through an archive of their own.                        *)

\* The archive that a request or reply begins with.
LEMMA EmptyArchive ==
    create_buffer_oarchive \in Archives /\ create_buffer_oarchive.buffer = <<>>
<1>1. <<>> \in Seq(Octets) /\ Len(<<>>) = 0 /\ TRUE \in {TRUE}
  OBVIOUS
<1>2. create_buffer_oarchive.buffer = <<>>
      /\ create_buffer_oarchive.len = InitialLength
  BY DEF create_buffer_oarchive
<1>3. create_buffer_oarchive \in [buffer : Seq(Octets), len : Nat \ {0}, fits : {TRUE}]
  BY <1>1, InitialLengthAssumption DEF create_buffer_oarchive
<1>4. Len(create_buffer_oarchive.buffer) <= create_buffer_oarchive.len
  BY <1>1, <1>2, InitialLengthAssumption
<1> QED
  BY <1>2, <1>3, <1>4 DEF Archives

\* What is received of an archive agrees with it.
LEMMA ReceivedAgrees ==
    ASSUME NEW s \in Seq(Octets), NEW n \in 0 .. Len(s)
    PROVE  LET in == SubSeq(s, 1, n) IN
           in \in Seq(Octets) /\ Len(in) = n /\ Agree(in, 0, s)
<1>1. /\ SubSeq(s, 0 + 1, 0 + n) \in Seq(Octets) /\ Len(SubSeq(s, 0 + 1, 0 + n)) = n
      /\ \A i \in 1 .. n : SubSeq(s, 0 + 1, 0 + n)[i] = s[0 + i]
  <2>1. n \in Nat /\ 0 \in Nat /\ 0 + n <= Len(s)
    OBVIOUS
  <2> QED
    BY <2>1, PartIs
<1>2. 0 + 1 = 1 /\ 0 + n = n /\ \A i \in 1 .. n : 0 + i = i
  OBVIOUS
<1>3. SubSeq(s, 1, n) \in Seq(Octets) /\ Len(SubSeq(s, 1, n)) = n
      /\ \A i \in 1 .. n : SubSeq(s, 1, n)[i] = s[i]
  BY <1>1, <1>2
<1> DEFINE in == SubSeq(s, 1, n)
<1> HIDE DEF in
<1>4. ASSUME NEW i \in 1 .. Len(s), 0 + i <= Len(in) PROVE in[0 + i] = s[i]
  BY <1>3, <1>4 DEF in
<1> QED
  BY <1>3, <1>4 DEF Agree, in

\* And what is behind something else.
LEMMA BehindAgrees ==
    ASSUME NEW s \in Seq(Octets), NEW t \in Seq(Octets)
    PROVE  /\ s \o t \in Seq(Octets) /\ Len(s \o t) = Len(s) + Len(t)
           /\ Agree(s \o t, Len(s), t) /\ Agree(s \o t, 0, s)
<1>1. /\ s \o t \in Seq(Octets) /\ Len(s \o t) = Len(s) + Len(t)
      /\ \A i \in 1 .. Len(s) + Len(t) :
            (s \o t)[i] = IF i <= Len(s) THEN s[i] ELSE t[i - Len(s)]
  BY ConcatProperties
<1>2. Len(s) \in Nat /\ Len(t) \in Nat
  OBVIOUS
<1>3. ASSUME NEW i \in 1 .. Len(t) PROVE (s \o t)[Len(s) + i] = t[i]
  <2>1. Len(s) + i \in 1 .. Len(s) + Len(t) /\ ~(Len(s) + i <= Len(s)) /\ (Len(s) + i) - Len(s) = i
    BY <1>2
  <2> QED
    BY <1>1, <2>1
<1>4. ASSUME NEW i \in 1 .. Len(s) PROVE (s \o t)[0 + i] = s[i]
  <2>1. 0 + i \in 1 .. Len(s) + Len(t) /\ 0 + i <= Len(s) /\ 0 + i = i
    BY <1>2
  <2> QED
    BY <1>1, <2>1
<1> QED
  BY <1>1, <1>3, <1>4 DEF Agree

\* A record that was sent alone.
LEMMA SentRecordSurvives ==
    ASSUME NEW schema, AreFields(schema, Members), NEW v, FitsRecord(schema, v), NEW oa,
           oa = Serialize(create_buffer_oarchive, schema, v), NEW received \in 0 .. Len(oa.buffer)
    PROVE  LET r == Deserialize(SubSeq(oa.buffer, 1, received), 0, schema) IN
           /\ oa.fits
           /\ received = Len(oa.buffer) => r = Read(0, Len(oa.buffer), Seen(schema, v))
           /\ received < Len(oa.buffer) =>
                 r.rc = E2BIG \/ Overlooked(schema, r.val, v, Len(schema))
<1> DEFINE in == SubSeq(oa.buffer, 1, received)
           new == create_buffer_oarchive
           r == Deserialize(in, 0, schema)
<1>1. schema \in Seq(Members) /\ Distinct(schema)
  BY DEF AreFields
<1>2. new \in Archives /\ new.buffer = <<>>
  BY EmptyArchive
<1>3. /\ oa \in Archives
      /\ \A i \in Seq(Octets), d \in Nat :
            Agree(i, d, oa.buffer) /\ ~(Len(i) < d + Len(new.buffer)) =>
               LET q == Deserialize(i, d + Len(new.buffer), schema) IN
               IF Len(i) < d + Len(oa.buffer)
               THEN q.rc = E2BIG \/ Overlooked(schema, q.val, v, Len(schema))
               ELSE q = Read(0, d + Len(oa.buffer), Seen(schema, v))
  BY <1>1, <1>2, RecordSurvives
<1> HIDE DEF new
<1>4. oa.buffer \in Seq(Octets) /\ Len(oa.buffer) \in Nat /\ oa.fits = TRUE
  <2>1. oa \in [buffer : Seq(Octets), len : Nat \ {0}, fits : {TRUE}]
    BY <1>3 DEF Archives
  <2>2. oa.fits \in {TRUE}
    BY <2>1, Zenon
  <2> QED
    BY <1>3, <2>2, BufferOf
<1>5. in \in Seq(Octets) /\ Len(in) = received /\ Agree(in, 0, oa.buffer)
  BY <1>4, ReceivedAgrees
<1> HIDE DEF in
<1>6. /\ 0 + Len(new.buffer) = 0 /\ 0 + Len(oa.buffer) = Len(oa.buffer) /\ 0 \in Nat
      /\ received \in Nat /\ ~(Len(in) < 0 + Len(new.buffer))
  BY <1>2, <1>4, <1>5
<1>7. IF Len(in) < Len(oa.buffer)
      THEN r.rc = E2BIG \/ Overlooked(schema, r.val, v, Len(schema))
      ELSE r = Read(0, Len(oa.buffer), Seen(schema, v))
  <2>1. LET q == Deserialize(in, 0 + Len(new.buffer), schema) IN
        IF Len(in) < 0 + Len(oa.buffer)
        THEN q.rc = E2BIG \/ Overlooked(schema, q.val, v, Len(schema))
        ELSE q = Read(0, 0 + Len(oa.buffer), Seen(schema, v))
    BY <1>3, <1>5, <1>6
  <2> QED
    BY <1>6, <2>1
<1>8. /\ received = Len(oa.buffer) => r = Read(0, Len(oa.buffer), Seen(schema, v))
      /\ received < Len(oa.buffer) =>
            r.rc = E2BIG \/ Overlooked(schema, r.val, v, Len(schema))
  BY <1>4, <1>5, <1>6, <1>7
<1> QED
  BY <1>4, <1>8 DEF in

-----------------------------------------------------------------------------
(* The handshake.                                                          *)

\* The number that b has behind oa is what d + Len(oa.buffer) bytes of in precede.
IsThere(in, d, oa, b, size, v) ==
    b = Put(oa, Number(size, v)) /\ Agree(in, d, b.buffer) /\ ~(Len(in) < d + Len(b.buffer))

\* It is read as v.
Holds(in, d, oa, b, v) ==
    NumberIn(SubSeq(in, d + Len(oa.buffer) + 1, d + Len(b.buffer))) = v

\* The number at an offset.
LEMMA NumberThere ==
    ASSUME NEW in \in Seq(Octets), NEW d \in Nat, NEW oa \in Archives, NEW size \in {1, 4, 8},
           NEW v \in Int, NEW b, IsThere(in, d, oa, b, size, v)
    PROVE  Holds(in, d, oa, b, v)
<1> DEFINE off == d + Len(oa.buffer)
<1>0. b = Put(oa, Number(size, v)) /\ Agree(in, d, b.buffer) /\ ~(Len(in) < d + Len(b.buffer))
  BY DEF IsThere
<1>1. ReadNumber(in, off, size) = Read(0, d + Len(b.buffer), v)
  BY <1>0, NumberSurvives
<1>2. Len(b.buffer) = Len(oa.buffer) + size
  BY <1>0, NumberSurvives
<1>3. ~Short(in, off, size)
  <2>1. Len(in) \in Nat /\ Len(oa.buffer) \in Nat /\ size \in Nat /\ off \in Nat
    BY BufferOf
  <2>2. off + size = d + Len(b.buffer)
    BY <1>2, <2>1
  <2>3. Len(in) >= off + size
    BY <1>0, <2>1, <2>2
  <2>4. \A m, o, n \in Nat : m >= o + n => ~(m - o < n)
    OBVIOUS
  <2> QED
    BY <2>1, <2>3, <2>4 DEF Short
<1>4. ReadNumber(in, off, size) = Read(0, off + size, NumberIn(SubSeq(in, off + 1, off + size)))
  BY <1>3 DEF ReadNumber
<1>5. NumberIn(SubSeq(in, off + 1, off + size)) = v
  BY <1>1, <1>4, ReadParts
<1>6. off + size = d + Len(b.buffer)
  BY <1>2, BufferOf
<1> QED
  BY <1>5, <1>6 DEF Holds

\* A handshake that is sent.
LEMMA ConnectIsWritten ==
    ASSUME NEW r, {r.protocolVersion, r.lastZxidSeen, r.timeOut, r.sessionId} \subseteq Int,
           r.passwd \in Seq(Int), Len(r.passwd) = PasswdLength
    PROVE  serialize_prime_connect(r) = Encode(ConnectRequest, r)
<1> DEFINE new == create_buffer_oarchive
<1>1. /\ ConnectRequest[1] = Int32("protocolVersion") /\ ConnectRequest[2] = Int64("lastZxidSeen")
      /\ ConnectRequest[3] = Int32("timeOut") /\ ConnectRequest[4] = Int64("sessionId")
      /\ ConnectRequest[5] = Buf("passwd") /\ Len(ConnectRequest) = 5
  BY DEF ConnectRequest
<1>2. PICK w : /\ w[0] = new
               /\ \A i \in 1 .. Len(ConnectRequest) :
                     w[i] = WriteMember(w[i - 1], ConnectRequest[i], r[ConnectRequest[i].name])
               /\ w[Len(ConnectRequest)] = Serialize(new, ConnectRequest, r)
  <2>1. Len(ConnectRequest) \in Nat
    BY <1>1
  <2> QED
    BY <2>1, SerializeIs
<1>3. \A oa, x : /\ \A n : WriteMember(oa, Int32(n), x) = Put(oa, Number(4, x))
                 /\ \A n : WriteMember(oa, Int64(n), x) = Put(oa, Number(8, x))
                 /\ \A n : Int32(n).name = n /\ Int64(n).name = n /\ Buf(n).name = n
  BY DEF WriteMember, WriteField, Int32, Int64, Buf, oa_serialize_int, oa_serialize_long
<1>4. \A oa, n : WriteMember(oa, Buf(n), r.passwd) =
                     Put(Put(oa, Number(4, PasswdLength)), Characters(r.passwd))
  <2>1. r.passwd # NULL
    BY NullAssumption
  <2> QED
    BY <2>1 DEF WriteMember, WriteField, Buf, oa_serialize_buffer, oa_serialize_int
<1>5. /\ w[1] = Put(new, Number(4, r.protocolVersion))
      /\ w[2] = Put(w[1], Number(8, r.lastZxidSeen))
      /\ w[3] = Put(w[2], Number(4, r.timeOut))
      /\ w[4] = Put(w[3], Number(8, r.sessionId))
      /\ w[5] = Put(Put(w[4], Number(4, PasswdLength)), Characters(r.passwd))
      /\ w[5] = Serialize(new, ConnectRequest, r)
  <2>1. 1 \in 1 .. 5 /\ 2 \in 1 .. 5 /\ 3 \in 1 .. 5 /\ 4 \in 1 .. 5 /\ 5 \in 1 .. 5
        /\ 1 - 1 = 0 /\ 2 - 1 = 1 /\ 3 - 1 = 2 /\ 4 - 1 = 3 /\ 5 - 1 = 4
    OBVIOUS
  <2> HIDE DEF new
  <2>2. /\ w[1] = WriteMember(w[0], ConnectRequest[1], r[ConnectRequest[1].name])
        /\ w[2] = WriteMember(w[1], ConnectRequest[2], r[ConnectRequest[2].name])
        /\ w[3] = WriteMember(w[2], ConnectRequest[3], r[ConnectRequest[3].name])
        /\ w[4] = WriteMember(w[3], ConnectRequest[4], r[ConnectRequest[4].name])
        /\ w[5] = WriteMember(w[4], ConnectRequest[5], r[ConnectRequest[5].name])
        /\ w[5] = Serialize(new, ConnectRequest, r)
    BY <1>1, <1>2, <2>1
  <2> QED
    BY <1>1, <1>2, <1>3, <1>4, <2>2
<1>6. /\ Number(4, r.protocolVersion) \in Seq(Octets)
      /\ \A oa, bytes : Put(oa, bytes).buffer = oa.buffer \o bytes
  <2>1. 4 \in Nat /\ r.protocolVersion \in Int
    OBVIOUS
  <2>2. \A oa, bytes : Put(oa, bytes).buffer = oa.buffer \o bytes
    BY DEF Put
  <2> QED
    BY <2>1, <2>2, NumberIs
<1>7. new.buffer \o Number(4, r.protocolVersion) = Number(4, r.protocolVersion)
  <2>1. new.buffer = <<>>
    BY EmptyArchive
  <2> HIDE DEF new
  <2>2. ASSUME NEW s \in Seq(Octets) PROVE <<>> \o s = s
    OBVIOUS
  <2> QED
    BY <1>6, <2>1, <2>2
<1> HIDE DEF new
<1>8. /\ w[1].buffer = Number(4, r.protocolVersion)
      /\ w[2].buffer = w[1].buffer \o Number(8, r.lastZxidSeen)
      /\ w[3].buffer = w[2].buffer \o Number(4, r.timeOut)
      /\ w[4].buffer = w[3].buffer \o Number(8, r.sessionId)
      /\ w[5].buffer = (w[4].buffer \o Number(4, PasswdLength)) \o Characters(r.passwd)
  <2>1. w[1].buffer = new.buffer \o Number(4, r.protocolVersion)
    BY <1>5, <1>6
  <2>2. w[2].buffer = w[1].buffer \o Number(8, r.lastZxidSeen)
        /\ w[3].buffer = w[2].buffer \o Number(4, r.timeOut)
    BY <1>5, <1>6
  <2>3. w[4].buffer = w[3].buffer \o Number(8, r.sessionId)
    BY <1>5, <1>6
  <2>4. w[5].buffer = Put(w[4], Number(4, PasswdLength)).buffer \o Characters(r.passwd)
    BY <1>5, <1>6
  <2>5. Put(w[4], Number(4, PasswdLength)).buffer = w[4].buffer \o Number(4, PasswdLength)
    BY <1>6
  <2> QED
    BY <1>7, <2>1, <2>2, <2>3, <2>4, <2>5
<1> QED
  BY <1>5, <1>8 DEF serialize_prime_connect, Encode, new
\* A handshake that is received, behind the length of its frame.
LEMMA ResponseIsRead ==
    ASSUME NEW r, {r.protocolVersion, r.timeOut, r.sessionId} \subseteq Int,
           r.passwd \in Seq(Int), Len(r.passwd) = PasswdLength
    PROVE  deserialize_prime_response(Number(4, 0) \o Encode(ConnectResponse, r)) =
               [protocolVersion |-> r.protocolVersion, timeOut |-> r.timeOut,
                sessionId |-> r.sessionId, passwd_len |-> PasswdLength, passwd |-> r.passwd]
<1> DEFINE new == create_buffer_oarchive
           e == Encode(ConnectResponse, r)
           in == Number(4, 0) \o e
<1>1. /\ ConnectResponse[1] = Int32("protocolVersion") /\ ConnectResponse[2] = Int32("timeOut")
      /\ ConnectResponse[3] = Int64("sessionId") /\ ConnectResponse[4] = Buf("passwd")
      /\ Len(ConnectResponse) = 4
  BY DEF ConnectResponse
<1>2. PICK w : /\ w[0] = new
               /\ \A i \in 1 .. Len(ConnectResponse) :
                     w[i] = WriteMember(w[i - 1], ConnectResponse[i], r[ConnectResponse[i].name])
               /\ w[Len(ConnectResponse)] = Serialize(new, ConnectResponse, r)
  <2>1. Len(ConnectResponse) \in Nat
    BY <1>1
  <2> QED
    BY <2>1, SerializeIs
<1>3. \A oa, x : /\ \A n : WriteMember(oa, Int32(n), x) = Put(oa, Number(4, x))
                 /\ \A n : WriteMember(oa, Int64(n), x) = Put(oa, Number(8, x))
                 /\ \A n : Int32(n).name = n /\ Int64(n).name = n /\ Buf(n).name = n
  BY DEF WriteMember, WriteField, Int32, Int64, Buf, oa_serialize_int, oa_serialize_long
<1>4. \A oa, n : WriteMember(oa, Buf(n), r.passwd) =
                     Put(Put(oa, Number(4, PasswdLength)), Characters(r.passwd))
  <2>1. r.passwd # NULL
    BY NullAssumption
  <2> QED
    BY <2>1 DEF WriteMember, WriteField, Buf, oa_serialize_buffer, oa_serialize_int
<1> DEFINE a == Put(w[3], Number(4, PasswdLength))
<1>5. /\ w[1] = Put(new, Number(4, r.protocolVersion))
      /\ w[2] = Put(w[1], Number(4, r.timeOut))
      /\ w[3] = Put(w[2], Number(8, r.sessionId))
      /\ w[4] = Put(a, Characters(r.passwd))
      /\ w[4].buffer = e
  <2>1. 1 \in 1 .. 4 /\ 2 \in 1 .. 4 /\ 3 \in 1 .. 4 /\ 4 \in 1 .. 4
        /\ 1 - 1 = 0 /\ 2 - 1 = 1 /\ 3 - 1 = 2 /\ 4 - 1 = 3
    OBVIOUS
  <2>2. Serialize(new, ConnectResponse, r).buffer = e
    BY DEF Encode
  <2> HIDE DEF new, e
  <2>3. /\ w[1] = WriteMember(w[0], ConnectResponse[1], r[ConnectResponse[1].name])
        /\ w[2] = WriteMember(w[1], ConnectResponse[2], r[ConnectResponse[2].name])
        /\ w[3] = WriteMember(w[2], ConnectResponse[3], r[ConnectResponse[3].name])
        /\ w[4] = WriteMember(w[3], ConnectResponse[4], r[ConnectResponse[4].name])
        /\ w[4].buffer = e
    BY <1>1, <1>2, <2>1, <2>2
  <2> QED
    BY <1>1, <1>2, <1>3, <1>4, <2>3
<1>6. /\ new \in Archives /\ new.buffer = <<>> /\ Len(<<>>) = 0
      /\ 4 \in {1, 4, 8} /\ 8 \in {1, 4, 8} /\ PasswdLength \in Int /\ PasswdLength = 16
      /\ r.protocolVersion \in Int /\ r.timeOut \in Int /\ r.sessionId \in Int
  BY EmptyArchive DEF PasswdLength
<1> HIDE DEF new, e, a
<1>7. ASSUME NEW oa \in Archives, NEW v \in Int
      PROVE  /\ LET b == Put(oa, Number(4, v)) IN
                /\ b \in Archives /\ Begins(oa.buffer, b.buffer)
                /\ Len(b.buffer) = Len(oa.buffer) + 4
             /\ LET b == Put(oa, Number(8, v)) IN
                /\ b \in Archives /\ Begins(oa.buffer, b.buffer)
                /\ Len(b.buffer) = Len(oa.buffer) + 8
  BY <1>6, NumberSurvives
<1>8. w[1] \in Archives /\ Len(w[1].buffer) = 4
  <2>1. w[1] = Put(new, Number(4, r.protocolVersion))
    BY <1>5
  <2>2. LET b == Put(new, Number(4, r.protocolVersion)) IN
        /\ b \in Archives /\ Begins(new.buffer, b.buffer)
        /\ Len(b.buffer) = Len(new.buffer) + 4
    BY <1>6, <1>7
  <2> QED
    BY <1>6, <2>1, <2>2
<1>9. w[2] \in Archives /\ Begins(w[1].buffer, w[2].buffer) /\ Len(w[2].buffer) = 8
  <2>1. w[2] = Put(w[1], Number(4, r.timeOut))
    BY <1>5
  <2>2. LET b == Put(w[1], Number(4, r.timeOut)) IN
        /\ b \in Archives /\ Begins(w[1].buffer, b.buffer)
        /\ Len(b.buffer) = Len(w[1].buffer) + 4
    BY <1>6, <1>7, <1>8
  <2> QED
    BY <1>6, <1>8, <2>1, <2>2
<1>10. w[3] \in Archives /\ Begins(w[2].buffer, w[3].buffer) /\ Len(w[3].buffer) = 16
  <2>1. w[3] = Put(w[2], Number(8, r.sessionId))
    BY <1>5
  <2>2. LET b == Put(w[2], Number(8, r.sessionId)) IN
        /\ b \in Archives /\ Begins(w[2].buffer, b.buffer)
        /\ Len(b.buffer) = Len(w[2].buffer) + 8
    BY <1>6, <1>7, <1>9
  <2> QED
    BY <1>6, <1>9, <2>1, <2>2
<1>11. a \in Archives /\ Begins(w[3].buffer, a.buffer) /\ Len(a.buffer) = 20
  <2>1. a = Put(w[3], Number(4, PasswdLength))
    BY DEF a
  <2>2. LET b == Put(w[3], Number(4, PasswdLength)) IN
        /\ b \in Archives /\ Begins(w[3].buffer, b.buffer)
        /\ Len(b.buffer) = Len(w[3].buffer) + 4
    BY <1>6, <1>7, <1>10
  <2> QED
    BY <1>6, <1>10, <2>1, <2>2
<1>12. /\ Characters(r.passwd) \in Seq(Octets) /\ w[4] \in Archives
       /\ w[4].buffer = a.buffer \o Characters(r.passwd)
       /\ Begins(a.buffer, w[4].buffer) /\ Len(w[4].buffer) = 36
  <2>1. Characters(r.passwd) \in Seq(Octets) /\ Len(Characters(r.passwd)) = 16
    BY <1>6, CharactersAre
  <2> QED
    <3>1. w[4] = Put(a, Characters(r.passwd))
      BY <1>5
    <3>2. /\ Put(a, Characters(r.passwd)) \in Archives
          /\ Put(a, Characters(r.passwd)).buffer = a.buffer \o Characters(r.passwd)
          /\ Begins(a.buffer, a.buffer \o Characters(r.passwd))
          /\ Len(a.buffer \o Characters(r.passwd)) = Len(a.buffer) + Len(Characters(r.passwd))
      BY <1>11, <2>1, PutIs
    <3> QED
      BY <1>11, <2>1, <3>1, <3>2
<1>13. /\ w[1].buffer \in Seq(Octets) /\ w[2].buffer \in Seq(Octets)
       /\ w[3].buffer \in Seq(Octets) /\ a.buffer \in Seq(Octets) /\ e \in Seq(Octets)
       /\ Len(e) = 36
  BY <1>5, <1>8, <1>9, <1>10, <1>11, <1>12, BufferOf
<1>14. in \in Seq(Octets) /\ Len(in) = 40 /\ Agree(in, 4, e)
  <2>0. 4 \in Nat /\ 0 \in Int
    OBVIOUS
  <2>1. Number(4, 0) \in Seq(Octets) /\ Len(Number(4, 0)) = 4
    BY <2>0, NumberIs
  <2>2. /\ in \in Seq(Octets) /\ Len(in) = Len(Number(4, 0)) + Len(e)
        /\ Agree(in, Len(Number(4, 0)), e)
    BY <1>13, <2>1, BehindAgrees
  <2> HIDE DEF in
  <2>3. Agree(in, 4, e)
    BY <2>1, <2>2, Zenon
  <2>4. Len(in) = 40
    <3>1. Len(in) = 4 + 36
      BY <1>13, <2>1, <2>2, Zenon
    <3> QED
      BY <3>1
  <2> QED
    BY <2>2, <2>3, <2>4
<1> HIDE DEF in
<1>15. Agree(in, 4, a.buffer)
  BY <1>5, <1>12, <1>13, <1>14, AgreeBefore
<1>16. Agree(in, 4, w[3].buffer)
  BY <1>11, <1>13, <1>15, AgreeBefore
<1>17. Agree(in, 4, w[2].buffer)
  BY <1>10, <1>13, <1>16, AgreeBefore
<1>18. Agree(in, 4, w[1].buffer)
  BY <1>9, <1>13, <1>17, AgreeBefore
<1>19. NumberIn(SubSeq(in, 5, 8)) = r.protocolVersion
  <2>1. w[1] = Put(new, Number(4, r.protocolVersion))
    BY <1>5
  <2>2. ~(Len(in) < 4 + Len(w[1].buffer))
    BY <1>6, <1>8, <1>14
  <2>3. IsThere(in, 4, new, w[1], 4, r.protocolVersion)
    BY <1>18, <2>1, <2>2 DEF IsThere
  <2>4. NumberIn(SubSeq(in, 4 + Len(new.buffer) + 1, 4 + Len(w[1].buffer))) = r.protocolVersion
    <3>1. 4 \in Nat /\ new \in Archives
      BY <1>6, <1>8
    <3>2. in \in Seq(Octets)
      BY <1>14
    <3>3. 4 \in {1, 4, 8} /\ r.protocolVersion \in Int
      BY <1>6
    <3>4. Holds(in, 4, new, w[1], r.protocolVersion)
      BY <2>3, <3>1, <3>2, <3>3, NumberThere, Zenon
    <3> QED
      BY <3>4 DEF Holds
  <2>5. 4 + Len(new.buffer) + 1 = 5 /\ 4 + Len(w[1].buffer) = 8
    BY <1>6, <1>8
  <2> QED
    BY <2>4, <2>5
<1>20. NumberIn(SubSeq(in, 9, 12)) = r.timeOut
  <2>1. w[2] = Put(w[1], Number(4, r.timeOut))
    BY <1>5
  <2>2. ~(Len(in) < 4 + Len(w[2].buffer))
    BY <1>8, <1>9, <1>14
  <2>3. IsThere(in, 4, w[1], w[2], 4, r.timeOut)
    BY <1>17, <2>1, <2>2 DEF IsThere
  <2>4. NumberIn(SubSeq(in, 4 + Len(w[1].buffer) + 1, 4 + Len(w[2].buffer))) = r.timeOut
    <3>1. 4 \in Nat /\ w[1] \in Archives
      BY <1>8, <1>9
    <3>2. in \in Seq(Octets)
      BY <1>14
    <3>3. 4 \in {1, 4, 8} /\ r.timeOut \in Int
      BY <1>6
    <3>4. Holds(in, 4, w[1], w[2], r.timeOut)
      BY <2>3, <3>1, <3>2, <3>3, NumberThere, Zenon
    <3> QED
      BY <3>4 DEF Holds
  <2>5. 4 + Len(w[1].buffer) + 1 = 9 /\ 4 + Len(w[2].buffer) = 12
    BY <1>8, <1>9
  <2> QED
    BY <2>4, <2>5
<1>21. NumberIn(SubSeq(in, 13, 20)) = r.sessionId
  <2>1. w[3] = Put(w[2], Number(8, r.sessionId))
    BY <1>5
  <2>2. ~(Len(in) < 4 + Len(w[3].buffer))
    BY <1>9, <1>10, <1>14
  <2>3. IsThere(in, 4, w[2], w[3], 8, r.sessionId)
    BY <1>16, <2>1, <2>2 DEF IsThere
  <2>4. NumberIn(SubSeq(in, 4 + Len(w[2].buffer) + 1, 4 + Len(w[3].buffer))) = r.sessionId
    <3>1. 4 \in Nat /\ w[2] \in Archives
      BY <1>9, <1>10
    <3>2. in \in Seq(Octets)
      BY <1>14
    <3>3. 8 \in {1, 4, 8} /\ r.sessionId \in Int
      BY <1>6
    <3>4. Holds(in, 4, w[2], w[3], r.sessionId)
      BY <2>3, <3>1, <3>2, <3>3, NumberThere, Zenon
    <3> QED
      BY <3>4 DEF Holds
  <2>5. 4 + Len(w[2].buffer) + 1 = 13 /\ 4 + Len(w[3].buffer) = 20
    BY <1>9, <1>10
  <2> QED
    BY <2>4, <2>5
<1>22. NumberIn(SubSeq(in, 21, 24)) = PasswdLength
  <2>1. a = Put(w[3], Number(4, PasswdLength))
    BY DEF a
  <2>2. ~(Len(in) < 4 + Len(a.buffer))
    BY <1>10, <1>11, <1>14
  <2>3. IsThere(in, 4, w[3], a, 4, PasswdLength)
    BY <1>15, <2>1, <2>2 DEF IsThere
  <2>4. NumberIn(SubSeq(in, 4 + Len(w[3].buffer) + 1, 4 + Len(a.buffer))) = PasswdLength
    <3>1. 4 \in Nat /\ w[3] \in Archives
      BY <1>10, <1>11
    <3>2. in \in Seq(Octets)
      BY <1>14
    <3>3. 4 \in {1, 4, 8} /\ PasswdLength \in Int
      BY <1>6
    <3>4. Holds(in, 4, w[3], a, PasswdLength)
      BY <2>3, <3>1, <3>2, <3>3, NumberThere, Zenon
    <3> QED
      BY <3>4 DEF Holds
  <2>5. 4 + Len(w[3].buffer) + 1 = 21 /\ 4 + Len(a.buffer) = 24
    BY <1>10, <1>11
  <2> QED
    BY <2>4, <2>5
<1>23. CharactersIn(SubSeq(in, 25, 24 + PasswdLength)) = r.passwd
  <2> DEFINE x == r.passwd
  <2>1. 4 \in Nat /\ 4 + Len(a.buffer) = 24 /\ Len(x) = 16 /\ x \in Seq(Int)
    BY <1>6, <1>11
  <2>2. ReadBytes(in, Read(0, 4 + Len(a.buffer), Len(x)), NULL) =
            IF Len(in) < 4 + Len(a.buffer) + Len(x) THEN Read(E2BIG, 4 + Len(a.buffer), GARBAGE)
            ELSE Read(0, 4 + Len(a.buffer) + Len(x), x)
    <3>1. Agree(in, 4, a.buffer \o Characters(x))
      BY <1>5, <1>12, <1>14
    <3>2. ASSUME NEW d \in Nat, NEW s \in Seq(Octets), NEW y \in Seq(Int),
                 Agree(in, d, s \o Characters(y))
          PROVE  ReadBytes(in, Read(0, d + Len(s), Len(y)), NULL) =
                     IF Len(in) < d + Len(s) + Len(y) THEN Read(E2BIG, d + Len(s), GARBAGE)
                     ELSE Read(0, d + Len(s) + Len(y), y)
      <4>1. in \in Seq(Octets)
        BY <1>14
      <4> QED
        BY <3>2, <4>1, ReadBytesIs
    <3> HIDE DEF x
    <3> QED
      BY <1>13, <2>1, <3>1, <3>2
  <2>3. ReadBytes(in, Read(0, 24, 16), NULL) = Read(0, 40, x)
    BY <1>14, <2>1, <2>2
  <2>4. ReadBytes(in, Read(0, 24, 16), NULL) =
            Read(0, 40, CharactersIn(SubSeq(in, 24 + 1, 24 + 16)))
    <3> DEFINE len == Read(0, 24, 16)
    <3>1. len.rc = 0 /\ len.off = 24 /\ len.val = 16 /\ 16 # GARBAGE /\ 16 # -1
      BY NullAssumption, ReadParts
    <3>2. ~Short(in, 24, 16)
      BY <1>14 DEF Short
    <3> HIDE DEF len
    <3>3. ReadBytes(in, len, NULL) = Read(0, 24 + 16, CharactersIn(SubSeq(in, 24 + 1, 24 + 16)))
      BY <3>1, <3>2 DEF ReadBytes
    <3> QED
      BY <3>3 DEF len
  <2>5. CharactersIn(SubSeq(in, 24 + 1, 24 + 16)) = x
    BY <2>3, <2>4, ReadParts
  <2> QED
    BY <1>6, <2>5
<1> QED
  BY <1>19, <1>20, <1>21, <1>22, <1>23 DEF deserialize_prime_response, in, e

\* The samples of a handshake.
LEMMA HandshakesFit ==
    ASSUME NEW k \in Nat
    PROVE  LET h == HandshakeSample(k)
               r == ResponseSample(k)
           IN  /\ {h.protocolVersion, h.lastZxidSeen, h.timeOut, h.sessionId} \subseteq Int
               /\ h.passwd \in Seq(Int) /\ Len(h.passwd) = PasswdLength
               /\ {r.protocolVersion, r.timeOut, r.sessionId} \subseteq Int
               /\ r.passwd \in Seq(Int) /\ Len(r.passwd) = PasswdLength
               /\ r = [protocolVersion |-> r.protocolVersion, timeOut |-> r.timeOut,
                       sessionId |-> r.sessionId, passwd |-> r.passwd]
<1> DEFINE p == [i \in 1 .. PasswdLength |-> i + k]
           s == Sample(ConnectRequest, k)
           t == Sample(ConnectResponse, k)
<1>1. p \in Seq(Int) /\ Len(p) = PasswdLength
  BY DEF PasswdLength
<1>2. AreFields(ConnectRequest, Members) /\ AreFields(ConnectResponse, Members)
  BY ConnectRequestFields, ConnectResponseFields, PlainFieldsAre
<1>3. FitsRecord(ConnectRequest, s) /\ FitsRecord(ConnectResponse, t)
  BY <1>2, SampleFits
<1> HIDE DEF p, s, t
<1>4. /\ {s.protocolVersion, s.lastZxidSeen, s.timeOut, s.sessionId} \subseteq Int
      /\ DOMAIN s = {"protocolVersion", "lastZxidSeen", "timeOut", "sessionId", "passwd"}
  <2>1. /\ DOMAIN ConnectRequest = 1 .. 5
        /\ ConnectRequest[1] = Int32("protocolVersion") /\ ConnectRequest[2] = Int64("lastZxidSeen")
        /\ ConnectRequest[3] = Int32("timeOut") /\ ConnectRequest[4] = Int64("sessionId")
        /\ ConnectRequest[5] = Buf("passwd")
    BY DEF ConnectRequest
  <2>2. FitsMember(Int32("protocolVersion"), s.protocolVersion)
        /\ FitsMember(Int64("lastZxidSeen"), s.lastZxidSeen)
        /\ FitsMember(Int32("timeOut"), s.timeOut) /\ FitsMember(Int64("sessionId"), s.sessionId)
    BY <1>3, <2>1 DEF FitsRecord, Int32, Int64
  <2>3. FieldNames(ConnectRequest) = {"protocolVersion", "lastZxidSeen", "timeOut", "sessionId",
                                      "passwd"}
    BY DEF FieldNames, ConnectRequest, Int32, Int64, Buf
  <2> QED
    BY <1>3, <2>2, <2>3 DEF FitsRecord, FitsMember, FitsScalar, Int32, Int64
<1>5. /\ {t.protocolVersion, t.timeOut, t.sessionId} \subseteq Int
      /\ DOMAIN t = {"protocolVersion", "timeOut", "sessionId", "passwd"}
  <2>1. /\ DOMAIN ConnectResponse = 1 .. 4
        /\ ConnectResponse[1] = Int32("protocolVersion") /\ ConnectResponse[2] = Int32("timeOut")
        /\ ConnectResponse[3] = Int64("sessionId") /\ ConnectResponse[4] = Buf("passwd")
    BY DEF ConnectResponse
  <2>2. FitsMember(Int32("protocolVersion"), t.protocolVersion)
        /\ FitsMember(Int32("timeOut"), t.timeOut) /\ FitsMember(Int64("sessionId"), t.sessionId)
    BY <1>3, <2>1 DEF FitsRecord, Int32, Int64
  <2>3. FieldNames(ConnectResponse) = {"protocolVersion", "timeOut", "sessionId", "passwd"}
    BY DEF FieldNames, ConnectResponse, Int32, Int64, Buf
  <2> QED
    BY <1>3, <2>2, <2>3 DEF FitsRecord, FitsMember, FitsScalar, Int32, Int64
<1>6. HandshakeSample(k) = [s EXCEPT !.passwd = p] /\ ResponseSample(k) = [t EXCEPT !.passwd = p]
  BY DEF HandshakeSample, ResponseSample, p, s, t
<1> QED
  BY <1>1, <1>4, <1>5, <1>6
\* One record and another.
LEMMA BesideIs ==
    ASSUME NEW n, NEW a, NEW b, NEW c, NEW p
    PROVE  Beside([passwd_len |-> n],
                  [protocolVersion |-> a, timeOut |-> b, sessionId |-> c, passwd |-> p])
             = [protocolVersion |-> a, timeOut |-> b, sessionId |-> c, passwd_len |-> n,
                passwd |-> p]
BY DEF Beside

\* The records, and the handshake, that go through an archive.
LEMMA ExchangeIs ==
    ASSUME NEW s \in DOMAIN Schemas, NEW k \in 1 .. Variants, NEW oa,
           oa = Serialize(create_buffer_oarchive, Schemas[s], Sample(Schemas[s], k)),
           NEW received \in 0 .. Len(oa.buffer), NEW x,
           x = [schema |-> s, variant |-> k, fits |-> oa.fits, sent |-> Len(oa.buffer),
                received |-> received,
                read |-> Deserialize(SubSeq(oa.buffer, 1, received), 0, Schemas[s])]
    PROVE  LET schema == Schemas[x.schema]
               v == Seen(schema, Sample(schema, x.variant))
               response == deserialize_prime_response(
                               Number(4, 0) \o Encode(ConnectResponse, ResponseSample(x.variant)))
           IN  /\ x.fits
               /\ x.received = x.sent => x.read = Read(0, x.sent, v)
               /\ x.received < x.sent =>
                    \/ x.read.rc = E2BIG
                    \/ /\ "Vector" \in Kinds(schema)
                       /\ \A i \in DOMAIN schema :
                             (\A j \in 1 .. i : schema[j].kind # "Vector") =>
                                 x.read.val[schema[i].name] = v[schema[i].name]
               /\ serialize_prime_connect(HandshakeSample(x.variant))
                    = Encode(ConnectRequest, HandshakeSample(x.variant))
               /\ response = Beside([passwd_len |-> PasswdLength], ResponseSample(x.variant))
<1> DEFINE schema == Schemas[s]
           sample == Sample(schema, k)
           r == Deserialize(SubSeq(oa.buffer, 1, received), 0, schema)
<1>0. /\ x.schema = s /\ x.variant = k /\ x.fits = oa.fits /\ x.sent = Len(oa.buffer)
      /\ x.received = received /\ x.read = r
  OBVIOUS
<1>1. AreFields(schema, Members) /\ schema \in Seq(Members) /\ Distinct(schema) /\ k \in Nat
  BY SchemasAre, BoundsAssumption DEF AreFields
<1> HIDE DEF schema
<1>2. FitsRecord(schema, sample)
  BY <1>1, SampleFits
<1> HIDE DEF sample
<1>3. /\ oa.fits
      /\ received = Len(oa.buffer) => r = Read(0, Len(oa.buffer), Seen(schema, sample))
      /\ received < Len(oa.buffer) =>
            r.rc = E2BIG \/ Overlooked(schema, r.val, sample, Len(schema))
  <2>1. oa = Serialize(create_buffer_oarchive, schema, sample)
    BY DEF schema, sample
  <2> QED
    BY <1>1, <1>2, <2>1, SentRecordSurvives
<1> HIDE DEF r
<1>4. ASSUME Overlooked(schema, r.val, sample, Len(schema))
      PROVE  /\ "Vector" \in Kinds(schema)
             /\ \A i \in DOMAIN schema :
                   (\A j \in 1 .. i : schema[j].kind # "Vector") =>
                       r.val[schema[i].name] = Seen(schema, sample)[schema[i].name]
  <2>1. PICK m \in 1 .. Len(schema) :
               /\ schema[m].kind = "Vector"
               /\ \A j \in 1 .. m - 1 : SeenAt(schema, r.val, sample, j)
    BY <1>4 DEF Overlooked
  <2>2. /\ DOMAIN schema = 1 .. Len(schema) /\ Len(schema) \in Nat
        /\ FieldNames(schema) = {schema[i].name : i \in 1 .. Len(schema)}
    BY <1>1, NamesOf
  <2>3. "Vector" \in Kinds(schema)
    BY <2>1, <2>2 DEF Kinds
  <2>4. ASSUME NEW i \in DOMAIN schema, \A j \in 1 .. i : schema[j].kind # "Vector"
        PROVE  r.val[schema[i].name] = Seen(schema, sample)[schema[i].name]
    <3>1. i \in 1 .. m - 1
      BY <2>1, <2>2, <2>4
    <3>2. r.val[schema[i].name] = SeenScalar(schema[i], sample[schema[i].name])
      BY <2>1, <3>1 DEF SeenAt
    <3>3. (\E j \in DOMAIN schema : schema[j].name = schema[i].name /\ schema[j].kind = "Bool")
            <=> schema[i].kind = "Bool"
      BY <1>1 DEF Distinct
    <3>4. schema[i].name \in FieldNames(schema)
      BY <2>2
    <3> QED
      BY <3>2, <3>3, <3>4 DEF Seen, SeenScalar
  <2> QED
    BY <2>3, <2>4
<1>5. serialize_prime_connect(HandshakeSample(k)) = Encode(ConnectRequest, HandshakeSample(k))
  BY <1>1, HandshakesFit, ConnectIsWritten
<1>6. deserialize_prime_response(Number(4, 0) \o Encode(ConnectResponse, ResponseSample(k)))
        = Beside([passwd_len |-> PasswdLength], ResponseSample(k))
  <2> DEFINE h == ResponseSample(k)
  <2>1. /\ {h.protocolVersion, h.timeOut, h.sessionId} \subseteq Int
        /\ h.passwd \in Seq(Int) /\ Len(h.passwd) = PasswdLength
        /\ h = [protocolVersion |-> h.protocolVersion, timeOut |-> h.timeOut,
                sessionId |-> h.sessionId, passwd |-> h.passwd]
    BY <1>1, HandshakesFit
  <2> HIDE DEF h
  <2>2. deserialize_prime_response(Number(4, 0) \o Encode(ConnectResponse, h)) =
               [protocolVersion |-> h.protocolVersion, timeOut |-> h.timeOut,
                sessionId |-> h.sessionId, passwd_len |-> PasswdLength, passwd |-> h.passwd]
    BY <2>1, ResponseIsRead
  <2>3. Beside([passwd_len |-> PasswdLength],
               [protocolVersion |-> h.protocolVersion, timeOut |-> h.timeOut,
                sessionId |-> h.sessionId, passwd |-> h.passwd]) =
               [protocolVersion |-> h.protocolVersion, timeOut |-> h.timeOut,
                sessionId |-> h.sessionId, passwd_len |-> PasswdLength, passwd |-> h.passwd]
    BY BesideIs
  <2>4. deserialize_prime_response(Number(4, 0) \o Encode(ConnectResponse, h))
          = Beside([passwd_len |-> PasswdLength], h)
    BY <2>1, <2>2, <2>3, Zenon
  <2> QED
    BY <2>4 DEF h
<1>7. x.received < x.sent =>
          \/ x.read.rc = E2BIG
          \/ /\ "Vector" \in Kinds(schema)
             /\ \A i \in DOMAIN schema :
                   (\A j \in 1 .. i : schema[j].kind # "Vector") =>
                       x.read.val[schema[i].name] = Seen(schema, sample)[schema[i].name]
  <2> HIDE DEF Seen
  <2> QED
    BY <1>0, <1>3, <1>4
<1>8. x.fits /\ (x.received = x.sent => x.read = Read(0, x.sent, Seen(schema, sample)))
  BY <1>0, <1>3
<1> QED
  BY <1>0, <1>5, <1>6, <1>7, <1>8 DEF schema, sample

\* Records and handshakes come out of an archive as they went in.
THEOREM RecordsAreRead == Spec => []RecordsSurvive
<1>1. Init => RecordsSurvive
  BY DEF Init, RecordsSurvive
<1>2. RecordsSurvive /\ [Next]_vars => RecordsSurvive'
  <2> SUFFICES ASSUME RecordsSurvive, [Next]_vars, stage' = "exchanged" PROVE RecordsSurvive'
    BY DEF RecordsSurvive
  <2>1. CASE UNCHANGED vars
    BY <2>1 DEF RecordsSurvive, vars
  <2>2. ASSUME NEW s \in DOMAIN Schemas, NEW k \in 1 .. Variants, ExchangeRecord(s, k)
        PROVE  RecordsSurvive'
    <3> DEFINE oa == Serialize(create_buffer_oarchive, Schemas[s], Sample(Schemas[s], k))
               Made(received) ==
                   exchange' = [schema |-> s, variant |-> k, fits |-> oa.fits,
                                sent |-> Len(oa.buffer), received |-> received,
                                read |-> Deserialize(SubSeq(oa.buffer, 1, received), 0, Schemas[s])]
    <3>1. PICK received \in 0 .. Len(oa.buffer) : Made(received)
      BY <2>2 DEF ExchangeRecord
    <3> QED
      BY <3>1, ExchangeIs DEF RecordsSurvive
  <2>3. ASSUME ~\E s \in DOMAIN Schemas, k \in 1 .. Variants : ExchangeRecord(s, k)
        PROVE  UNCHANGED vars
    BY <2>3 DEF Next, OpenHandle, CallWithWrongCallback, CallRefused, CallSent, ServerAnswers,
                ReadReply, WatchFires
  <2> QED
    BY <2>1, <2>2, <2>3
<1> QED
  BY <1>1, <1>2, PTL DEF Spec

-----------------------------------------------------------------------------
(* Paths.                                                                  *)

\* A part of a path.
LEMMA NameIs ==
    ASSUME NEW path \in Seq(Int \ {0}), NEW i \in 2 .. Len(path) + 1, NEW j \in 1 .. Len(path),
           i <= j + 1
    PROVE  LET n == SubSeq(path, i, j) IN
           /\ n \in Seq(Int \ {0}) /\ Len(n) = j - i + 1
           /\ \A k \in i .. j : k - i + 1 \in 1 .. Len(n) /\ n[k - i + 1] = path[k]
<1> DEFINE off == i - 1
           m == j - i + 1
<1>1. Len(path) \in Nat /\ i \in Int /\ j \in Int
  OBVIOUS
<1>2. off \in Nat /\ m \in Nat /\ off + m <= Len(path) /\ off + 1 = i /\ off + m = j
  BY <1>1
<1> HIDE DEF off, m
<1>3. LET n == SubSeq(path, off + 1, off + m) IN
      n \in Seq(Int \ {0}) /\ Len(n) = m /\ \A k \in 1 .. m : n[k] = path[off + k]
  BY <1>2, PartIs
<1> DEFINE n == SubSeq(path, i, j)
<1>4. n \in Seq(Int \ {0}) /\ Len(n) = m /\ \A k \in 1 .. m : n[k] = path[off + k]
  BY <1>2, <1>3
<1> HIDE DEF n
<1>5. ASSUME NEW k \in i .. j PROVE k - i + 1 \in 1 .. Len(n) /\ n[k - i + 1] = path[k]
  <2>1. k - i + 1 \in 1 .. m /\ off + (k - i + 1) = k
    BY <1>1, <1>2 DEF off, m
  <2> QED
    BY <1>4, <2>1
<1> QED
  BY <1>4, <1>5 DEF n, m

\* The segments of a path.
LEMMA SegmentsAre ==
    ASSUME NEW path, NEW i \in 2 .. Len(path) + 1, NEW j \in 1 .. Len(path), IsSegment(path, i, j)
    PROVE  LET n == SubSeq(path, i, j) IN
           /\ n \in Names(path)
           /\ j = Len(path) => n \in FinalNames(path)
           /\ j < Len(path) => n \in InnerNames(path)
<1>1. <<i, j>> \in Segments(path) /\ <<i, j>>[1] = i /\ <<i, j>>[2] = j
  BY DEF Segments
<1> QED
  BY <1>1 DEF Names, FinalNames, InnerNames

\* Every name is that of a segment.
LEMMA NamesAre ==
    ASSUME NEW path, NEW n
    PROVE  /\ n \in Names(path) =>
                \E i \in 2 .. Len(path) + 1, j \in 1 .. Len(path) :
                   IsSegment(path, i, j) /\ n = SubSeq(path, i, j)
           /\ n \in FinalNames(path) =>
                \E i \in 2 .. Len(path) + 1, j \in 1 .. Len(path) :
                   IsSegment(path, i, j) /\ n = SubSeq(path, i, j) /\ j = Len(path)
           /\ n \in InnerNames(path) =>
                \E i \in 2 .. Len(path) + 1, j \in 1 .. Len(path) :
                   IsSegment(path, i, j) /\ n = SubSeq(path, i, j) /\ j < Len(path)
<1>1. \A s \in Segments(path) : /\ s[1] \in 2 .. Len(path) + 1 /\ s[2] \in 1 .. Len(path)
                                /\ IsSegment(path, s[1], s[2])
  BY DEF Segments
<1> QED
  BY <1>1 DEF Names, FinalNames, InnerNames

\* What the loop of isValidPath does not refuse has no bad name.
LEMMA ValidIsAbsolute ==
    ASSUME NEW path \in Seq(Int \ {0}), NEW sequence \in BOOLEAN, isValidPath(path, sequence)
    PROVE  IsAbsolutePath(path, sequence)
<1> DEFINE L == Len(path)
<1>1. /\ L \in Nat /\ DOMAIN path = 1 .. L /\ path # <<>> /\ path[1] = Slash
      /\ \A k \in 1 .. L : path[k] \in Int \ {0}
  BY DEF isValidPath
<1>2. CASE L = 1
  <2>1. path = <<Slash>>
    BY <1>1, <1>2
  <2> QED
    BY <1>1, <2>1 DEF IsAbsolutePath
<1>3. CASE L # 1
  <2>1. /\ path[L] # Slash \/ sequence
        /\ \A i \in 2 .. L : ~Refused(path, i, sequence)
    BY <1>3 DEF isValidPath
  \* The names of the segments.
  <2>2. ASSUME NEW i \in 2 .. L + 1, NEW j \in 1 .. L, IsSegment(path, i, j)
        PROVE  /\ path[i - 1] = Slash /\ i <= j + 1
               /\ \A k \in i .. j : path[k] # Slash
               /\ j < L => path[j + 1] = Slash
               /\ LET n == SubSeq(path, i, j) IN
                  /\ n \in Seq(Int \ {0}) /\ Len(n) = j - i + 1
                  /\ \A k \in i .. j : k - i + 1 \in 1 .. Len(n) /\ n[k - i + 1] = path[k]
    <3>1. path[i - 1] = Slash /\ i <= j + 1 /\ \A k \in i .. j : path[k] # Slash
      BY <2>2 DEF IsSegment
    <3>2. j < L => path[j + 1] = Slash
      <4>1. At(path, j + 1) \in {Slash, 0}
        BY <2>2 DEF IsSegment
      <4>2. ASSUME j < L PROVE At(path, j + 1) = path[j + 1] /\ path[j + 1] # 0
        BY <1>1, <4>2 DEF At
      <4> QED
        BY <4>1, <4>2
    <3> QED
      BY <3>1, <3>2, NameIs
  <2>3. ASSUME NEW i \in 2 .. L + 1, NEW j \in 1 .. L, IsSegment(path, i, j)
        PROVE  Printable(SubSeq(path, i, j))
    <3> DEFINE n == SubSeq(path, i, j)
    <3>1. SUFFICES ASSUME NEW m \in DOMAIN n, n[m] > 0, n[m] < 31 PROVE FALSE
      BY DEF Printable
    <3>2. n \in Seq(Int \ {0}) /\ Len(n) = j - i + 1
          /\ \A k \in i .. j : k - i + 1 \in 1 .. Len(n) /\ n[k - i + 1] = path[k]
      BY <2>2, <2>3
    <3>0. DOMAIN n = 1 .. Len(n)
      BY <3>2
    <3> HIDE DEF n, L
    <3> DEFINE k == i + m - 1
    <3>3. m \in 1 .. Len(n) /\ k \in i .. j /\ k - i + 1 = m /\ k \in 2 .. L
      <4>1. m \in 1 .. Len(n) /\ m \in Int /\ i \in Int /\ j \in Int /\ i >= 2 /\ j <= L
            /\ Len(n) = j - i + 1
        BY <1>1, <3>0, <3>2
      <4>2. L \in Nat
        BY <1>1
      <4> QED
        BY <4>1, <4>2
    <3>4. path[k] = n[m]
      BY <3>2, <3>3
    <3>5. path[k] > 0 /\ path[k] < 31 /\ path[k] # Slash /\ path[k] # Dot
      BY <3>1, <3>4 DEF Slash, Dot
    <3>6. Refused(path, k, sequence)
      BY <3>5 DEF Refused
    <3> QED
      BY <2>1, <3>3, <3>6
  <2>4. ASSUME NEW i \in 2 .. L + 1, NEW j \in 1 .. L, IsSegment(path, i, j),
               j < L \/ ~sequence, SubSeq(path, i, j) \in Reserved
        PROVE  FALSE
    <3> DEFINE n == SubSeq(path, i, j)
    <3>1. /\ path[i - 1] = Slash /\ i <= j + 1
          /\ j < L => path[j + 1] = Slash
          /\ n \in Seq(Int \ {0}) /\ Len(n) = j - i + 1
          /\ \A k \in i .. j : k - i + 1 \in 1 .. Len(n) /\ n[k - i + 1] = path[k]
      BY <2>2, <2>4
    <3>2. n = <<>> \/ n = <<Dot>> \/ n = <<Dot, Dot>>
      BY <2>4 DEF Reserved
    <3> HIDE DEF n
    <3>3. CASE n = <<>>
      <4>1. i = j + 1
        BY <1>1, <3>1, <3>3
      <4>2. CASE j < L
        <5>1. i \in 2 .. L /\ path[i] = Slash
          BY <1>1, <3>1, <4>1, <4>2
        <5>2. Refused(path, i, sequence)
          BY <3>1, <5>1 DEF Refused, Slash, Dot
        <5> QED
          BY <2>1, <5>1, <5>2
      <4>3. CASE ~(j < L)
        <5>1. path[L] = Slash
          BY <1>1, <3>1, <4>1, <4>3
        <5> QED
          BY <2>1, <2>4, <4>3, <5>1
      <4> QED
        BY <4>2, <4>3
    <3>4. CASE n = <<Dot>>
      <4>1. i = j /\ i \in 2 .. L /\ n[1] = Dot
        BY <1>1, <3>1, <3>4
      <4>2. path[i] = Dot
        <5>1. i \in i .. j /\ i - i + 1 = 1
          BY <1>1, <4>1
        <5> QED
          BY <3>1, <4>1, <5>1
      <4>3. ClosesSegment(path, i, sequence)
        <5>1. CASE j < L
          <6>1. i + 1 <= L /\ path[i + 1] = Slash
            BY <1>1, <3>1, <4>1, <5>1
          <6> QED
            BY <6>1 DEF ClosesSegment, At
        <5>2. CASE ~(j < L)
          <6>1. i = L
            <7>1. L \in Nat /\ j \in 1 .. L
              BY <1>1
            <7> HIDE DEF L
            <7> QED
              BY <4>1, <5>2, <7>1
          <6>2. ~sequence
            BY <2>4, <5>2, Zenon
          <6> QED
            BY <6>1, <6>2 DEF ClosesSegment
        <5> QED
          BY <5>1, <5>2
      <4>4. Refused(path, i, sequence)
        BY <3>1, <4>2, <4>3 DEF Refused, Dot, Slash
      <4> QED
        BY <2>1, <4>1, <4>4
    <3>5. CASE n = <<Dot, Dot>>
      <4>1. j = i + 1 /\ i \in 2 .. L /\ j \in 2 .. L /\ n[1] = Dot /\ n[2] = Dot
        BY <1>1, <3>1, <3>5
      <4>2. path[i] = Dot /\ path[j] = Dot
        <5>1. i \in i .. j /\ j \in i .. j /\ i - i + 1 = 1 /\ j - i + 1 = 2
          BY <1>1, <4>1
        <5> QED
          BY <3>1, <4>1, <5>1
      <4>3. ClosesSegment(path, j, sequence)
        <5>1. CASE j < L
          <6>1. j + 1 <= L /\ path[j + 1] = Slash
            BY <1>1, <3>1, <4>1, <5>1
          <6> QED
            BY <6>1 DEF ClosesSegment, At
        <5>2. CASE ~(j < L)
          <6>1. j = L
            <7>1. L \in Nat /\ j \in 1 .. L
              BY <1>1
            <7> HIDE DEF L
            <7> QED
              BY <4>1, <5>2, <7>1
          <6>2. ~sequence
            BY <2>4, <5>2, Zenon
          <6> QED
            BY <6>1, <6>2 DEF ClosesSegment
        <5> QED
          BY <5>1, <5>2
      <4>4. j - 1 = i /\ j - 2 = i - 1
        BY <4>1
      <4>5. Refused(path, j, sequence)
        BY <3>1, <4>2, <4>3, <4>4 DEF Refused, Dot, Slash
      <4> QED
        BY <2>1, <4>1, <4>5
    <3> QED
      BY <3>2, <3>3, <3>4, <3>5
  <2>5. ASSUME NEW n \in Names(path) PROVE Printable(n)
    <3>1. PICK i \in 2 .. L + 1, j \in 1 .. L : IsSegment(path, i, j) /\ n = SubSeq(path, i, j)
      BY NamesAre
    <3> QED
      BY <2>3, <3>1
  <2>6. ASSUME NEW n \in InnerNames(path) PROVE n \notin Reserved
    <3>1. PICK i \in 2 .. L + 1, j \in 1 .. L :
              IsSegment(path, i, j) /\ j < L /\ n = SubSeq(path, i, j)
      BY NamesAre
    <3> QED
      BY <2>4, <3>1
  <2>7. ASSUME ~sequence, NEW n \in FinalNames(path) PROVE n \notin Reserved
    <3>1. PICK i \in 2 .. L + 1 : IsSegment(path, i, L) /\ n = SubSeq(path, i, L)
      BY NamesAre
    <3> QED
      BY <1>1, <2>4, <2>7, <3>1
  <2> QED
    BY <1>1, <2>5, <2>6, <2>7 DEF IsAbsolutePath
<1> QED
  BY <1>2, <1>3

\* The segment around a character that is no slash.
LEMMA SegmentAround ==
    ASSUME NEW path \in Seq(Int \ {0}), path # <<>>, path[1] = Slash, NEW k \in 2 .. Len(path),
           path[k] # Slash
    PROVE  \E i \in 2 .. Len(path) + 1, j \in 1 .. Len(path) :
              IsSegment(path, i, j) /\ k \in i .. j
<1> DEFINE L == Len(path)
<1>0. L \in Nat /\ DOMAIN path = 1 .. L /\ k \in 2 .. L
  OBVIOUS
<1> HIDE DEF L
<1> DEFINE Before == {m \in 0 .. k - 1 : k - m >= 1 /\ path[k - m] = Slash}
           After == {m \in k .. L : m = L \/ path[m + 1] = Slash}
<1>1. L \in Nat /\ DOMAIN path = 1 .. L /\ k \in 2 .. L /\ k \in Int
  BY <1>0
<1>2. PICK m \in Before : \A y \in Before : m <= y
  <2>1. k - 1 \in Before
    BY <1>1
  <2>2. Before \subseteq Nat
    BY <1>1
  <2> HIDE DEF Before
  <2> QED
    BY <2>1, <2>2, LeastNumber
<1>3. PICK j \in After : \A y \in After : j <= y
  <2>1. L \in After
    BY <1>1
  <2>2. After \subseteq Nat
    BY <1>1
  <2> HIDE DEF After
  <2> QED
    BY <2>1, <2>2, LeastNumber
<1> DEFINE i == k - m + 1
<1>4. /\ m \in 1 .. k - 1 /\ i \in 2 .. k /\ path[i - 1] = Slash
      /\ j \in k .. L /\ (j = L \/ path[j + 1] = Slash)
  BY <1>1, <1>2, <1>3
<1>5. \A y \in i .. k : path[y] # Slash
  <2>1. SUFFICES ASSUME NEW y \in i .. k, path[y] = Slash PROVE FALSE
    OBVIOUS
  <2>2. k - y \in 0 .. k - 1 /\ k - (k - y) = y /\ k - y < m
    BY <1>1, <1>4
  <2>3. k - y \in Before
    BY <1>1, <1>4, <2>1, <2>2
  <2> HIDE DEF Before
  <2>4. m <= k - y /\ m \in Int /\ k - y \in Int
    BY <1>1, <1>2, <1>4, <2>2, <2>3
  <2> QED
    BY <2>2, <2>4
<1>6. \A y \in k .. j : path[y] # Slash
  <2>1. SUFFICES ASSUME NEW y \in k .. j, path[y] = Slash PROVE FALSE
    OBVIOUS
  <2>2. y # k
    BY <2>1
  <2>3. y - 1 \in k .. L /\ (y - 1) + 1 = y /\ y - 1 < j
    BY <1>1, <1>4, <2>2
  <2>4. y - 1 \in After
    BY <2>1, <2>3
  <2> HIDE DEF After
  <2>5. j <= y - 1 /\ j \in Int /\ y \in Int
    BY <1>1, <1>3, <1>4, <2>4
  <2> QED
    BY <2>3, <2>5
<1>7. At(path, j + 1) \in {Slash, 0}
  <2>1. CASE j = L
    <3>1. ~(j + 1 <= L)
      BY <1>1, <2>1
    <3> QED
      BY <3>1 DEF At, L
  <2>2. CASE j # L
    <3>1. j + 1 <= L
      BY <1>1, <1>4, <2>2
    <3> QED
      BY <1>4, <2>2, <3>1 DEF At, L
  <2> QED
    BY <2>1, <2>2
<1>8. IsSegment(path, i, j)
  <2>1. i <= j + 1
    BY <1>1, <1>4
  <2>2. \A y \in i .. j : path[y] # Slash
    <3>1. \A y \in i .. j : y \in i .. k \/ y \in k .. j
      BY <1>1, <1>4
    <3> QED
      BY <1>5, <1>6, <3>1
  <2> QED
    BY <1>4, <1>7, <2>1, <2>2 DEF IsSegment
<1>9. i \in 2 .. L + 1 /\ j \in 1 .. L /\ k \in i .. j
  BY <1>1, <1>4
<1> QED
  BY <1>8, <1>9 DEF L


\* A path whose names are good is not refused.
LEMMA AbsoluteIsValid ==
    ASSUME NEW path \in Seq(Int \ {0}), NEW sequence \in BOOLEAN, IsAbsolutePath(path, sequence)
    PROVE  isValidPath(path, sequence)
<1> DEFINE L == Len(path)
<1>1. /\ L \in Nat /\ DOMAIN path = 1 .. L /\ path # <<>> /\ path[1] = Slash /\ L >= 1
      /\ \A k \in 1 .. L : path[k] \in Int \ {0}
  BY DEF IsAbsolutePath
<1>2. CASE L = 1
  BY <1>1, <1>2 DEF isValidPath
<1>3. CASE L # 1
  <2>1. path # <<Slash>>
    BY <1>3
  <2>2. /\ \A n \in Names(path) : Printable(n)
        /\ InnerNames(path) \cap Reserved = {}
        /\ sequence \/ FinalNames(path) \cap Reserved = {}
    BY <2>1 DEF IsAbsolutePath
  <2>3. ASSUME NEW i \in 2 .. L + 1, NEW j \in 1 .. L, IsSegment(path, i, j), j < L \/ ~sequence
        PROVE  SubSeq(path, i, j) \notin Reserved
    <3>1. j < L \/ j = L
      <4>1. L \in Nat /\ j \in 1 .. L
        BY <1>1
      <4> HIDE DEF L
      <4> QED
        BY <4>1
    <3>2. /\ j = L => SubSeq(path, i, j) \in FinalNames(path)
          /\ j < L => SubSeq(path, i, j) \in InnerNames(path)
      BY <2>3, SegmentsAre
    <3>3. CASE j < L
      BY <2>2, <3>2, <3>3
    <3>4. CASE j = L
      <4>1. ~(j < L)
        BY <1>1, <3>4
      <4>2. ~sequence
        BY <2>3, <4>1, Zenon
      <4>3. FinalNames(path) \cap Reserved = {}
        BY <2>2, <4>2, Zenon
      <4> QED
        BY <3>2, <3>4, <4>3
    <3> QED
      BY <3>1, <3>3, <3>4
  <2>4. ASSUME NEW i \in 2 .. L + 1, NEW j \in 1 .. L, i <= j + 1
        PROVE  LET n == SubSeq(path, i, j) IN
               /\ n \in Seq(Int \ {0}) /\ Len(n) = j - i + 1
               /\ \A k \in i .. j : k - i + 1 \in 1 .. Len(n) /\ n[k - i + 1] = path[k]
    BY <2>4, NameIs
  <2>5. path[L] # Slash \/ sequence
    <3>1. SUFFICES ASSUME path[L] = Slash, ~sequence PROVE FALSE
      OBVIOUS
    <3>2. L + 1 \in 2 .. L + 1 /\ L \in 1 .. L /\ (L + 1) - 1 = L /\ L + 1 <= L + 1
      BY <1>1
    <3>3. At(path, L + 1) = 0
      BY <1>1 DEF At
    <3>4. IsSegment(path, L + 1, L)
      BY <1>1, <3>1, <3>2, <3>3 DEF IsSegment
    <3>5. SubSeq(path, L + 1, L) = <<>>
      <4> DEFINE n == SubSeq(path, L + 1, L)
      <4>1. n \in Seq(Int \ {0}) /\ Len(n) = L - (L + 1) + 1
        BY <2>4, <3>2
      <4> HIDE DEF n
      <4>2. Len(n) = 0
        BY <1>1, <4>1
      <4>3. n = <<>>
        BY <4>1, <4>2
      <4> QED
        BY <4>3 DEF n
    <3> QED
      BY <2>3, <3>1, <3>2, <3>4, <3>5 DEF Reserved
  <2>6. ASSUME NEW i \in 2 .. L, Refused(path, i, sequence) PROVE FALSE
    <3>0. i \in 1 .. L /\ i - 1 \in 1 .. L /\ i \in 2 .. L + 1 /\ i \in Int
      BY <1>1
    <3>1. CASE path[i] = Slash
      <4>1. path[i - 1] = Slash
        BY <2>6, <3>1 DEF Refused, Slash, Dot
      <4>2. At(path, (i - 1) + 1) = Slash
        BY <1>1, <3>0, <3>1 DEF At
      <4>3. IsSegment(path, i, i - 1)
        BY <3>0, <4>1, <4>2 DEF IsSegment
      <4>4. i <= (i - 1) + 1 /\ i - 1 < L /\ (i - 1) - i + 1 = 0
        BY <1>1, <3>0
      <4>5. SubSeq(path, i, i - 1) = <<>>
        <5> DEFINE n == SubSeq(path, i, i - 1)
        <5>1. n \in Seq(Int \ {0}) /\ Len(n) = (i - 1) - i + 1
          BY <2>4, <3>0, <4>4
        <5> HIDE DEF n
        <5>2. n = <<>>
          BY <4>4, <5>1
        <5> QED
          BY <5>2 DEF n
      <4> QED
        BY <2>3, <3>0, <4>3, <4>4, <4>5 DEF Reserved
    <3>2. CASE path[i] = Dot
      <4>1. ClosesSegment(path, i, sequence)
        BY <2>6, <3>2 DEF Refused, Slash, Dot
      <4>2. i < L \/ ~sequence
        <5>1. CASE i = L /\ ~sequence
          BY <5>1
        <5>2. CASE At(path, i + 1) = Slash
          BY <1>1, <3>0, <5>2 DEF At, Slash
        <5> QED
          BY <4>1, <5>1, <5>2 DEF ClosesSegment
      <4>3. At(path, i + 1) \in {Slash, 0}
        <5>1. CASE i = L
          BY <1>1, <5>1 DEF At
        <5>2. CASE At(path, i + 1) = Slash
          BY <5>2
        <5> QED
          BY <4>1, <5>1, <5>2 DEF ClosesSegment
      <4>4. CASE path[i - 1] = Dot
        <5>1. path[i - 2] = Slash
          BY <2>6, <3>2, <4>4 DEF Refused, Slash, Dot
        <5>2. i - 1 # 1
          BY <1>1, <4>4 DEF Slash, Dot
        <5>3. i - 1 \in 2 .. L + 1 /\ (i - 1) - 1 = i - 2 /\ i - 1 <= i + 1
              /\ \A k \in i - 1 .. i : k = i - 1 \/ k = i
          BY <1>1, <3>0, <5>2
        <5>4. IsSegment(path, i - 1, i)
          <6>1. path[(i - 1) - 1] = Slash
            BY <5>1, <5>3
          <6>2. \A k \in i - 1 .. i : path[k] # Slash
            BY <3>2, <4>3, <4>4, <5>3 DEF Slash, Dot
          <6> QED
            BY <5>3, <6>1, <6>2, <4>3 DEF IsSegment
        <5>5. SubSeq(path, i - 1, i) = <<Dot, Dot>>
          <6> DEFINE n == SubSeq(path, i - 1, i)
          <6>1. /\ n \in Seq(Int \ {0}) /\ Len(n) = i - (i - 1) + 1
                /\ \A k \in i - 1 .. i : n[k - (i - 1) + 1] = path[k]
            BY <2>4, <3>0, <5>3
          <6> HIDE DEF n
          <6>2. Len(n) = 2 /\ i - 1 \in i - 1 .. i /\ i \in i - 1 .. i
                /\ (i - 1) - (i - 1) + 1 = 1 /\ i - (i - 1) + 1 = 2
            BY <3>0, <6>1
          <6>3. n[1] = Dot /\ n[2] = Dot
            BY <3>2, <4>4, <6>1, <6>2
          <6>4. n = <<Dot, Dot>>
            BY <6>1, <6>2, <6>3
          <6> QED
            BY <6>4 DEF n
        <5> QED
          BY <2>3, <3>0, <4>2, <5>3, <5>4, <5>5 DEF Reserved
      <4>5. CASE path[i - 1] # Dot
        <5>1. path[i - 1] = Slash
          BY <2>6, <3>2, <4>5 DEF Refused, Slash, Dot
        <5>2. \A k \in i .. i : k = i
          BY <3>0
        <5>3. IsSegment(path, i, i)
          BY <3>0, <3>2, <4>3, <5>1, <5>2 DEF IsSegment, Slash, Dot
        <5>4. SubSeq(path, i, i) = <<Dot>>
          <6> DEFINE n == SubSeq(path, i, i)
          <6>1. /\ n \in Seq(Int \ {0}) /\ Len(n) = i - i + 1
                /\ \A k \in i .. i : n[k - i + 1] = path[k]
            BY <2>4, <3>0
          <6> HIDE DEF n
          <6>2. Len(n) = 1 /\ i \in i .. i /\ i - i + 1 = 1
            BY <3>0, <6>1
          <6>3. n[1] = Dot
            BY <3>2, <6>1, <6>2
          <6>4. n = <<Dot>>
            BY <6>1, <6>2, <6>3
          <6> QED
            BY <6>4 DEF n
        <5> QED
          BY <2>3, <3>0, <4>2, <5>3, <5>4 DEF Reserved
      <4> QED
        BY <4>4, <4>5
    <3>3. CASE path[i] # Slash /\ path[i] # Dot
      <4>1. path[i] > 0 /\ path[i] < 31
        BY <2>6, <3>3 DEF Refused
      <4>2. PICK a \in 2 .. L + 1, b \in 1 .. L : IsSegment(path, a, b) /\ i \in a .. b
        BY <1>1, <3>3, SegmentAround
      <4> DEFINE n == SubSeq(path, a, b)
      <4>3. n \in Names(path)
        BY <4>2, SegmentsAre
      <4>4. a <= b + 1
        BY <4>2 DEF IsSegment
      <4>5. i - a + 1 \in 1 .. Len(n) /\ n[i - a + 1] = path[i] /\ n \in Seq(Int \ {0})
        BY <2>4, <4>2, <4>4
      <4> HIDE DEF n
      <4>6. i - a + 1 \in DOMAIN n
        BY <4>5
      <4> QED
        BY <2>2, <4>1, <4>3, <4>5, <4>6 DEF Printable
    <3> QED
      BY <3>1, <3>2, <3>3
  <2> QED
    BY <1>1, <2>5, <2>6 DEF isValidPath
<1> QED
  BY <1>2, <1>3

\* The loop of isValidPath refuses just what is no absolute path, of any length.
\* (isValidPath in zookeeper.c)
THEOREM ValidPathsAreAbsolute ==
    \A path \in Seq(Int \ {0}), sequence \in BOOLEAN :
        isValidPath(path, sequence) <=> IsAbsolutePath(path, sequence)
BY ValidIsAbsolute, AbsoluteIsValid

\* A path is valid below a chroot just if it is valid, as the chroot is and ends in no slash.
LEMMA ValidBelow ==
    ASSUME NEW ch \in Seq(Int \ {0}), Len(ch) >= 2, isValidPath(ch, FALSE),
           NEW path \in Seq(Int \ {0}), Len(path) >= 2, path[1] = Slash, NEW sequence \in BOOLEAN
    PROVE  isValidPath(ch \o path, sequence) <=> isValidPath(path, sequence)
<1> DEFINE q == ch \o path
           C == Len(ch)
           L == Len(path)
<1>1. /\ C \in Nat /\ C >= 2 /\ L \in Nat /\ L >= 2
      /\ q \in Seq(Int \ {0}) /\ Len(q) = C + L
      /\ \A i \in 1 .. C : q[i] = ch[i]
      /\ \A i \in 1 .. L : q[C + i] = path[i]
  OBVIOUS
<1> HIDE DEF q, C, L
<1>0. C \in Nat /\ C >= 2 /\ L \in Nat /\ L >= 2 /\ Len(q) = C + L
  BY <1>1
<1>2. ch[1] = Slash /\ ch[C] # Slash /\ \A i \in 2 .. C : ~Refused(ch, i, FALSE)
  <2>1. C # 1
    BY <1>0
  <2> QED
    BY <2>1 DEF isValidPath, C
<1>3. /\ q[1] = Slash /\ q # <<>> /\ path # <<>> /\ Len(q) # 1 /\ L # 1
      /\ q[Len(q)] = path[L]
  <2>1. 1 \in 1 .. C /\ L \in 1 .. L
    BY <1>1
  <2>2. q[1] = ch[1] /\ q[C + L] = path[L]
    BY <1>1, <2>1
  <2>3. q # <<>> /\ path # <<>>
    BY <1>1 DEF L
  <2> QED
    BY <1>1, <1>2, <2>2, <2>3
\* The chroot, and the slash behind it, are not refused.
<1>4. ASSUME NEW i \in 2 .. C PROVE ~Refused(q, i, sequence)
  <2>1. /\ i \in 1 .. C /\ i - 1 \in 1 .. C /\ i - 2 \in 0 .. C
        /\ q[i] = ch[i] /\ q[i - 1] = ch[i - 1]
    <3>1. i \in 1 .. C /\ i - 1 \in 1 .. C /\ i - 2 \in 0 .. C
      BY <1>0
    <3>2. \A j \in 1 .. C : q[j] = ch[j]
      BY <1>1
    <3> QED
      BY <3>1, <3>2
  <2>2. ~(i = Len(q)) /\ At(q, i + 1) = IF i = C THEN Slash ELSE ch[i + 1]
    <3>1. i + 1 <= Len(q) /\ i # Len(q)
      BY <1>0, <2>1
    <3>2. CASE i = C
      <4>1. 1 \in 1 .. L
        BY <1>1
      <4>2. q[C + 1] = path[1]
        BY <1>1, <4>1
      <4> QED
        BY <3>1, <3>2, <4>2 DEF At
    <3>3. CASE i # C
      <4>1. i + 1 \in 1 .. C
        BY <1>1, <3>3
      <4>2. q[i + 1] = ch[i + 1]
        BY <1>1, <4>1
      <4> QED
        BY <3>1, <3>3, <4>2 DEF At
    <3> QED
      BY <3>2, <3>3
  <2>3. ClosesSegment(q, i, sequence) => ClosesSegment(ch, i, FALSE)
    <3>1. CASE i = C
      BY <3>1 DEF ClosesSegment, C
    <3>2. CASE i # C
      <4>1. i + 1 <= C
        BY <1>1, <3>2
      <4>2. At(ch, i + 1) = ch[i + 1]
        BY <4>1 DEF At, C
      <4> QED
        BY <2>2, <3>2, <4>2 DEF ClosesSegment
    <3> QED
      BY <3>1, <3>2
  <2>4. ch[i] = Dot /\ ch[i - 1] = Dot => q[i - 2] = ch[i - 2]
    <3>1. SUFFICES ASSUME ch[i - 1] = Dot PROVE q[i - 2] = ch[i - 2]
      OBVIOUS
    <3>2. i - 1 # 1
      BY <1>2, <3>1 DEF Slash, Dot
    <3>3. i - 2 \in 1 .. C
      BY <1>1, <3>2
    <3> QED
      BY <1>1, <3>3
  <2>5. ~Refused(ch, i, FALSE)
    BY <1>2
  <2>6. CASE ch[i] = Slash
    BY <2>1, <2>5, <2>6 DEF Refused, Slash, Dot
  <2>7. CASE ch[i] = Dot /\ ch[i - 1] = Dot
    <3>1. ~(ch[i - 2] = Slash /\ ClosesSegment(ch, i, FALSE))
      BY <2>5, <2>7 DEF Refused, Slash, Dot
    <3>2. q[i] = Dot /\ q[i - 1] = Dot /\ q[i - 2] = ch[i - 2]
      BY <2>1, <2>4, <2>7
    <3>3. ~(q[i - 2] = Slash /\ ClosesSegment(q, i, sequence))
      BY <2>3, <3>1, <3>2, Zenon
    <3> QED
      BY <3>2, <3>3 DEF Refused, Slash, Dot
  <2>8. CASE ch[i] = Dot /\ ch[i - 1] # Dot
    BY <2>1, <2>3, <2>5, <2>8 DEF Refused, Slash, Dot
  <2>9. CASE ch[i] # Slash /\ ch[i] # Dot
    BY <2>1, <2>5, <2>9 DEF Refused
  <2> QED
    BY <2>6, <2>7, <2>8, <2>9
<1>5. ~Refused(q, C + 1, sequence)
  <2>1. 1 \in 1 .. L /\ C \in 1 .. C /\ (C + 1) - 1 = C
    BY <1>1
  <2>2. q[C + 1] = Slash /\ q[C] = ch[C]
    BY <1>1, <2>1
  <2> QED
    BY <1>2, <2>1, <2>2 DEF Refused
\* Behind that the loop sees the path.
<1>6. ASSUME NEW i \in 2 .. L
      PROVE  Refused(q, C + i, sequence) <=> Refused(path, i, sequence)
  <2>1. /\ i \in 1 .. L /\ i - 1 \in 1 .. L /\ (C + i) - 1 = C + (i - 1)
        /\ (C + i) - 2 = C + (i - 2) /\ C + i + 1 = C + (i + 1)
    BY <1>1
  <2>2. q[C + i] = path[i] /\ q[(C + i) - 1] = path[i - 1]
    <3>1. q[C + i] = path[i] /\ q[C + (i - 1)] = path[i - 1]
      BY <1>1, <2>1
    <3> QED
      BY <2>1, <3>1
  <2>3. At(q, C + i + 1) = At(path, i + 1) /\ (C + i = Len(q) <=> i = L)
    <3>1. C + i = Len(q) <=> i = L
      BY <1>1, <2>1
    <3>2. CASE i + 1 <= L
      <4>1. i + 1 \in 1 .. L /\ C + i + 1 <= Len(q)
        BY <1>1, <2>1, <3>2
      <4>2. q[C + (i + 1)] = path[i + 1]
        BY <1>1, <4>1
      <4> QED
        BY <2>1, <3>1, <3>2, <4>1, <4>2 DEF At, L
    <3>3. CASE ~(i + 1 <= L)
      <4>1. ~(C + i + 1 <= Len(q))
        BY <1>1, <2>1, <3>3
      <4> QED
        BY <3>1, <3>3, <4>1 DEF At, L
    <3> QED
      BY <3>2, <3>3
  <2>4. ClosesSegment(q, C + i, sequence) <=> ClosesSegment(path, i, sequence)
    BY <2>3 DEF ClosesSegment, L
  <2>5. path[i - 1] = Dot => q[(C + i) - 2] = path[i - 2]
    <3>1. SUFFICES ASSUME path[i - 1] = Dot PROVE q[(C + i) - 2] = path[i - 2]
      OBVIOUS
    <3>2. i - 1 # 1
      BY <3>1 DEF Slash, Dot
    <3>3. i - 2 \in 1 .. L
      BY <1>1, <2>1, <3>2
    <3>4. q[C + (i - 2)] = path[i - 2]
      BY <1>1, <3>3
    <3> QED
      BY <2>1, <3>4
  <2> QED
    BY <2>2, <2>4, <2>5 DEF Refused
<1>7. (\A i \in 2 .. Len(q) : ~Refused(q, i, sequence)) <=>
      (\A i \in 2 .. L : ~Refused(path, i, sequence))
  <2>1. ASSUME \A i \in 2 .. Len(q) : ~Refused(q, i, sequence), NEW i \in 2 .. L
        PROVE  ~Refused(path, i, sequence)
    <3>1. C + i \in 2 .. Len(q)
      BY <1>1
    <3> QED
      BY <1>6, <2>1, <3>1
  <2>2. ASSUME \A i \in 2 .. L : ~Refused(path, i, sequence), NEW i \in 2 .. Len(q)
        PROVE  ~Refused(q, i, sequence)
    <3>1. i \in 2 .. C \/ i = C + 1 \/ (i - C \in 2 .. L /\ i = C + (i - C))
      BY <1>1
    <3>2. CASE i - C \in 2 .. L /\ i = C + (i - C)
      <4>1. Refused(q, C + (i - C), sequence) <=> Refused(path, i - C, sequence)
        BY <1>6, <3>2
      <4> QED
        BY <2>2, <3>2, <4>1
    <3> QED
      BY <1>4, <1>5, <3>1, <3>2
  <2> QED
    BY <2>1, <2>2
<1>8. isValidPath(q, sequence) <=>
         (path[L] # Slash \/ sequence) /\ \A i \in 2 .. Len(q) : ~Refused(q, i, sequence)
  BY <1>3 DEF isValidPath
<1>9. isValidPath(path, sequence) <=>
         (path[L] # Slash \/ sequence) /\ \A i \in 2 .. L : ~Refused(path, i, sequence)
  BY <1>3 DEF isValidPath, L
<1> QED
  BY <1>7, <1>8, <1>9 DEF q

\* Numbers from two up.
LEMMA TwoOrMore == \A n \in Nat : n # 0 /\ n # 1 => n >= 2
  OBVIOUS

\* The chroot of a handle that was opened.
IsChroot(ch) ==
    ch = NoPath \/ (ch \in Seq(Int \ {0}) /\ Len(ch) >= 2 /\ isValidPath(ch, FALSE))

\* A path that leaves no chroot is sent just if it is an absolute path, and as what it is
\* below the chroot.
LEMMA SentBelow ==
    ASSUME NEW ch, IsChroot(ch), NEW path \in Seq(Int \ {0}), NEW sequence \in BOOLEAN,
           ~(ch # NoPath /\ (path = <<>> \/ path[1] # Slash \/ (path = <<Slash>> /\ sequence)))
    PROVE  /\ prepend_string(ch, path) = Below(ch, path)
           /\ isValidPath(prepend_string(ch, path), sequence) <=> IsAbsolutePath(path, sequence)
<1>0. isValidPath(path, sequence) <=> IsAbsolutePath(path, sequence)
  BY ValidPathsAreAbsolute
<1>1. CASE ch = NoPath
  BY <1>0, <1>1 DEF prepend_string, Below
<1>2. CASE ch # NoPath
  <2>1. /\ ch \in Seq(Int \ {0}) /\ Len(ch) >= 2 /\ isValidPath(ch, FALSE)
        /\ path # <<>> /\ path[1] = Slash /\ ~(path = <<Slash>> /\ sequence)
    BY <1>2 DEF IsChroot
  <2>2. path = <<Slash>> <=> Len(path) = 1
    BY <2>1
  <2>3. CASE Len(path) = 1
    <3>1. sequence = FALSE
      BY <2>1, <2>2, <2>3, Zenon
    <3>2. prepend_string(ch, path) = ch /\ Below(ch, path) = ch
      BY <1>2, <2>2, <2>3 DEF prepend_string, Below
    <3>3. IsAbsolutePath(path, sequence)
      BY <2>1, <2>2, <2>3 DEF IsAbsolutePath
    <3> QED
      BY <2>1, <3>1, <3>2, <3>3, Zenon
  <2>4. CASE Len(path) # 1
    <3>1. Len(path) >= 2
      <4>1. Len(path) \in Nat /\ Len(path) # 0
        BY <2>1
      <4> QED
        BY <2>4, <4>1, TwoOrMore, Zenon
    <3>2. prepend_string(ch, path) = ch \o path /\ Below(ch, path) = ch \o path
      BY <1>2, <2>2, <2>4 DEF prepend_string, Below
    <3>3. \A s \in BOOLEAN : isValidPath(ch \o path, s) <=> isValidPath(path, s)
      BY <2>1, <3>1, ValidBelow
    <3> QED
      BY <1>0, <3>2, <3>3, Zenon
  <2> QED
    BY <2>3, <2>4
<1> QED
  BY <1>1, <1>2

\* What follows the host is a chroot, once zookeeper_init accepts it.
LEMMA ParsedIsChroot ==
    ASSUME NEW suffix \in Seq(Int \ {0}), InitAccepts(suffix)
    PROVE  IsChroot(ParsedChroot(suffix))
<1>1. Len(suffix) \in Nat
  OBVIOUS
<1>2. CASE Len(suffix) <= 1
  BY <1>2 DEF ParsedChroot, IsChroot
<1>3. CASE ~(Len(suffix) <= 1)
  <2>1. Len(suffix) >= 2
    BY <1>1, <1>3
  <2>2. ParsedChroot(suffix) = suffix /\ suffix # NoPath
    <3>1. suffix \in Seq(Int)
      OBVIOUS
    <3> QED
      BY <1>3, <3>1, NullAssumption DEF ParsedChroot
  <2> QED
    BY <2>1, <2>2 DEF InitAccepts, IsChroot
<1> QED
  BY <1>2, <1>3

\* What is sent is a path of characters again.
LEMMA SentIsPath ==
    ASSUME NEW ch, IsChroot(ch), NEW path \in Seq(Int \ {0})
    PROVE  prepend_string(ch, path) \in Seq(Int \ {0})
<1>1. CASE ch = NoPath
  BY <1>1 DEF prepend_string
<1>2. CASE ch # NoPath
  <2>1. ch \in Seq(Int \ {0})
    BY <1>2 DEF IsChroot
  <2>2. ch \o path \in Seq(Int \ {0})
    BY <2>1
  <2> QED
    BY <2>1, <2>2 DEF prepend_string
<1> QED
  BY <1>1, <1>2

-----------------------------------------------------------------------------
(* The requests.                                                           *)

\* A flag of 0 or 1 is read as it is.
FlagsAreBits(schema, v) ==
    \A i \in DOMAIN schema : schema[i].kind = "Bool" => v[schema[i].name] \in {0, 1}

\* So a record whose flags are, is read as it was written.
LEMMA SeenAsWritten ==
    ASSUME NEW schema, NEW v, v = [n \in FieldNames(schema) |-> v[n]], FlagsAreBits(schema, v)
    PROVE  Seen(schema, v) = v
<1>1. ASSUME NEW n \in FieldNames(schema)
      PROVE  (IF \E i \in DOMAIN schema : schema[i].name = n /\ schema[i].kind = "Bool"
              THEN (IF v[n] = 0 THEN 0 ELSE 1) ELSE v[n]) = v[n]
  BY DEF FlagsAreBits
<1>2. Seen(schema, v) = [n \in FieldNames(schema) |-> v[n]]
  BY <1>1 DEF Seen
<1> QED
  BY <1>2

\* The ACLs of a call are elements of a vector.
LEMMA AclsAreElements == Acls \subseteq Elements(ACL_vector)
<1> SUFFICES ASSUME NEW a \in Acls PROVE a \in Elements(ACL_vector)
  OBVIOUS
<1>0. ASSUME NEW x, NEW y, NEW z PROVE <<x>> \o <<y, z>> = <<x, y, z>>
  <2> DEFINE t == <<x>> \o <<y, z>>
  <2>1. <<x>> \in Seq({x, y, z}) /\ <<y, z>> \in Seq({x, y, z})
    OBVIOUS
  <2>2. t \in Seq({x, y, z}) /\ Len(t) = 3 /\ t[1] = x /\ t[2] = y /\ t[3] = z
    BY <2>1
  <2> HIDE DEF t
  <2>3. t = <<x, y, z>>
    BY <2>2
  <2> QED
    BY <2>3 DEF t
<1>1. ACL_vector = <<Int32("perms"), Str("scheme"), Str("id")>>
  BY <1>0 DEF ACL_vector, ACL, Id
<1>2. FieldNames(ACL_vector) = {"perms", "scheme", "id"}
  BY <1>1 DEF FieldNames, Int32, Str
<1>3. /\ a = [n \in {"perms", "scheme", "id"} |-> a[n]]
      /\ a.perms \in Int /\ a.scheme \in Seq(Int) /\ a.id \in Seq(Int)
  BY DEF Acls
<1>4. a \in [{"perms", "scheme", "id"} -> Int \cup Seq(Int) \cup {NULL}]
  BY <1>3
<1>5. \A i \in DOMAIN ACL_vector : FitsScalar(ACL_vector[i], a[ACL_vector[i].name])
  BY <1>1, <1>3 DEF FitsScalar, Int32, Str
<1> QED
  BY <1>2, <1>3, <1>4, <1>5 DEF Elements, FitsElement

\* What a call has.
LEMMA CallHas ==
    ASSUME NEW c \in Calls
    PROVE  /\ c.op \in {"create", "delete", "exists", "get", "set", "get_acl", "set_acl",
                        "get_children", "sync"}
           /\ c.path \in Seq(Int \ {0}) /\ c.watch \in {0, 1} /\ c.version \in Int
           /\ c.mode \in {"sync", "async", "wrong"} /\ c.sequence \in {"no", "true", "truthy"}
           /\ c.ephemeral \in BOOLEAN
           /\ c.acl \in Seq(Elements(ACL_vector)) /\ c.acl \in Seq(Acls)
           /\ DataArgument(c) \in Seq(Int) \cup {NULL} /\ FlagsArgument(c) \in 0 .. 3
           /\ IsMultiByte(c) \/ DataArgument(c) = IF c.data = NULL THEN NULL ELSE c.data.bytes
           /\ c.op = "sync" => c.mode # "sync"
<1>1. c \in Asked /\ (c.data # NULL => c.data.chars <= Len(c.data.bytes))
      /\ (c.op = "sync" => c.mode # "sync")
  BY CallsAssumption
<1>2. /\ c.op \in {"create", "delete", "exists", "get", "set", "get_acl", "set_acl",
                   "get_children", "sync"}
      /\ c.path \in Seq(Int \ {0}) /\ c.watch \in {0, 1} /\ c.version \in Int
      /\ c.mode \in {"sync", "async", "wrong"} /\ c.sequence \in {"no", "true", "truthy"}
      /\ c.ephemeral \in BOOLEAN /\ c.acl \in Seq(Acls)
      /\ c.data = NULL \/ c.data \in [bytes : Seq(Int), chars : Nat]
  BY <1>1 DEF Asked
<1>3. c.acl \in Seq(Elements(ACL_vector))
  <2>1. \A i \in 1 .. Len(c.acl) : c.acl[i] \in Elements(ACL_vector)
    BY <1>2, AclsAreElements
  <2> QED
    BY <1>2, <2>1
<1>4. FlagsArgument(c) \in 0 .. 3
  <2>1. (IF c.ephemeral THEN 1 ELSE 0) \in {0, 1} /\ (IF c.sequence # "no" THEN 2
          ELSE 0) \in {0, 2}
    OBVIOUS
  <2> QED
    BY <2>1 DEF FlagsArgument
<1>5. CASE c.data = NULL
  BY <1>1, <1>2, <1>3, <1>4, <1>5 DEF DataArgument
<1>6. CASE c.data # NULL
  <2> DEFINE s == c.data.bytes
             n == c.data.chars
  <2>1. s \in Seq(Int) /\ n \in Nat /\ n <= Len(s) /\ Len(s) \in Nat
    BY <1>1, <1>2, <1>6
  <2>2. DataArgument(c) = SubSeq(s, 1, n) /\ (IsMultiByte(c) <=> n # Len(s))
    BY <1>6 DEF DataArgument, IsMultiByte
  <2> HIDE DEF s, n
  <2>3. SubSeq(s, 1, n) \in Seq(Int) /\ SubSeq(s, 1, Len(s)) = s
    BY <2>1
  <2>4. DataArgument(c) \in Seq(Int) /\ (IsMultiByte(c) \/ DataArgument(c) = s)
    BY <2>2, <2>3
  <2> QED
    BY <1>1, <1>2, <1>3, <1>4, <1>6, <2>4 DEF s
<1> QED
  BY <1>5, <1>6

\* The operation that a call is written as, on the path p.
Writes(c, p, op) ==
    /\ AreFields(op.schema, Members) /\ FitsRecord(op.schema, op.body)
    /\ FlagsAreBits(op.schema, op.body)
    /\ op.type = OpCode[c.op] /\ op.type \in Int /\ RequestSchema(op.type) = op.schema

Asks(c, p, body) ==
    /\ body.path = p
    /\ \A n \in DOMAIN body \cap {"version", "watch", "acl"} : body[n] = c[n]
    /\ "flags" \in DOMAIN body => body.flags = FlagsArgument(c)
    /\ "data" \in DOMAIN body => body.data = DataArgument(c)

\* A create.
LEMMA CreateWrites ==
    ASSUME NEW c \in Calls, c.op = "create", NEW p \in Seq(Int)
    PROVE  LET op == OperationOf(c, p) IN
           Writes(c, p, op) /\ Asks(c, p, op.body) /\ op.completion = "STRING"
<1> DEFINE body == [path |-> p, data |-> DataArgument(c), acl |-> c.acl, flags |-> FlagsArgument(c)]
           schema == CreateRequest
<1>1. OperationOf(c, p) = Operation(1, schema, body, "STRING")
  BY DEF OperationOf, OpCode, zoo_acreate
<1>2. AreFields(schema, Members)
  BY CreateRequestFields
<1>3. FitsRecord(schema, body)
  <2>1. FieldNames(schema) = {"path", "data", "acl", "flags"}
    BY DEF CreateRequest, FieldNames, Buf, Int32, Str, Vec
  <2>2. /\ FitsMember(Str("path"), p)
        /\ FitsMember(Buf("data"), DataArgument(c))
        /\ FitsMember(Vec("acl", ACL_vector), c.acl)
        /\ FitsMember(Int32("flags"), FlagsArgument(c))
    <3>1. FitsMember(Str("path"), p)
      BY CallHas DEF FitsMember, FitsScalar, Str
    <3>2. FitsMember(Buf("data"), DataArgument(c))
      BY CallHas DEF FitsMember, FitsScalar, Buf
    <3>3. FitsMember(Vec("acl", ACL_vector), c.acl)
      BY CallHas DEF FitsMember, Vec
    <3>4. FitsMember(Int32("flags"), FlagsArgument(c))
      BY CallHas DEF FitsMember, FitsScalar, Int32
    <3> QED
      BY <3>1, <3>2, <3>3, <3>4
  <2>3. /\ schema[1] = Str("path") /\ schema[1].name = "path" /\ body["path"] = p
        /\ schema[2] = Buf("data") /\ schema[2].name = "data" /\ body["data"] = DataArgument(c)
        /\ schema[3] = Vec("acl", ACL_vector) /\ schema[3].name = "acl" /\ body["acl"] = c.acl
        /\ schema[4] = Int32("flags") /\ schema[4].name = "flags"
        /\ body["flags"] = FlagsArgument(c)
        /\ DOMAIN schema = 1 .. 4 /\ body = [n \in FieldNames(schema) |-> body[n]]
    <3>1. body = [n \in FieldNames(schema) |-> body[n]]
      BY <2>1
    <3>2. /\ body["path"] = p /\ body["data"] = DataArgument(c)
          /\ body["acl"] = c.acl /\ body["flags"] = FlagsArgument(c)
      OBVIOUS
    <3>3. /\ schema[1] = Str("path") /\ schema[2] = Buf("data")
          /\ schema[3] = Vec("acl", ACL_vector) /\ schema[4] = Int32("flags")
          /\ DOMAIN schema = 1 .. 4
      BY DEF CreateRequest
    <3>4. /\ Str("path").name = "path" /\ Buf("data").name = "data"
          /\ Vec("acl", ACL_vector).name = "acl" /\ Int32("flags").name = "flags"
      BY DEF Buf, Int32, Str, Vec
    <3> QED
      BY <3>1, <3>2, <3>3, <3>4
  <2> HIDE DEF schema, body
  <2>4. ASSUME NEW i \in DOMAIN schema PROVE FitsMember(schema[i], body[schema[i].name])
    <3>1. i = 1 \/ i = 2 \/ i = 3 \/ i = 4
      BY <2>3
    <3> QED
      BY <2>2, <2>3, <3>1
  <2> QED
    BY <2>3, <2>4 DEF FitsRecord
<1>4. FlagsAreBits(schema, body)
  BY CallHas DEF CreateRequest, FlagsAreBits, Buf, Int32, Str, Vec
<1>5. RequestSchema(1) = schema /\ OpCode[c.op] = 1
  BY DEF RequestSchema, OpCode
<1>6. Asks(c, p, body)
  BY DEF Asks
<1> HIDE DEF schema, body
<1>7. LET op == Operation(1, schema, body, "STRING") IN
      op.type = 1 /\ op.schema = schema /\ op.body = body /\ op.completion = "STRING"
  BY DEF Operation
<1> QED
  BY <1>1, <1>2, <1>3, <1>4, <1>5, <1>6, <1>7 DEF Writes

\* A delete.
LEMMA DeleteWrites ==
    ASSUME NEW c \in Calls, c.op = "delete", NEW p \in Seq(Int)
    PROVE  LET op == OperationOf(c, p) IN
           Writes(c, p, op) /\ Asks(c, p, op.body) /\ op.completion = "VOID"
<1> DEFINE body == [path |-> p, version |-> c.version]
           schema == DeleteRequest
<1>1. OperationOf(c, p) = Operation(2, schema, body, "VOID")
  BY DEF OperationOf, OpCode, zoo_adelete
<1>2. AreFields(schema, Members)
  BY DeleteRequestFields, PlainFieldsAre
<1>3. FitsRecord(schema, body)
  <2>1. FieldNames(schema) = {"path", "version"}
    BY DEF DeleteRequest, FieldNames, Int32, Str
  <2>2. /\ FitsMember(Str("path"), p)
        /\ FitsMember(Int32("version"), c.version)
    BY CallHas DEF FitsMember, FitsScalar, Int32, Str
  <2> QED
    BY <2>1, <2>2 DEF DeleteRequest, FitsRecord, Int32, Str
<1>4. FlagsAreBits(schema, body)
  BY CallHas DEF DeleteRequest, FlagsAreBits, Int32, Str
<1>5. RequestSchema(2) = schema /\ OpCode[c.op] = 2
  BY DEF RequestSchema, OpCode
<1>6. Asks(c, p, body)
  BY DEF Asks
<1> HIDE DEF schema, body
<1>7. LET op == Operation(2, schema, body, "VOID") IN
      op.type = 2 /\ op.schema = schema /\ op.body = body /\ op.completion = "VOID"
  BY DEF Operation
<1> QED
  BY <1>1, <1>2, <1>3, <1>4, <1>5, <1>6, <1>7 DEF Writes

\* A exists.
LEMMA ExistsWrites ==
    ASSUME NEW c \in Calls, c.op = "exists", NEW p \in Seq(Int)
    PROVE  LET op == OperationOf(c, p) IN
           Writes(c, p, op) /\ Asks(c, p, op.body) /\ op.completion = "STAT"
<1> DEFINE body == [path |-> p, watch |-> c.watch]
           schema == ExistsRequest
<1>1. OperationOf(c, p) = Operation(3, schema, body, "STAT")
  BY DEF OperationOf, OpCode, zoo_awexists
<1>2. AreFields(schema, Members)
  BY ExistsRequestFields
<1>3. FitsRecord(schema, body)
  <2>1. FieldNames(schema) = {"path", "watch"}
    BY DEF ExistsRequest, FieldNames, Flag, Str
  <2>2. /\ FitsMember(Str("path"), p)
        /\ FitsMember(Flag("watch"), c.watch)
    BY CallHas DEF FitsMember, FitsScalar, Flag, Str
  <2> QED
    BY <2>1, <2>2 DEF ExistsRequest, FitsRecord, Flag, Str
<1>4. FlagsAreBits(schema, body)
  BY CallHas DEF ExistsRequest, FlagsAreBits, Flag, Str
<1>5. RequestSchema(3) = schema /\ OpCode[c.op] = 3
  BY DEF RequestSchema, OpCode
<1>6. Asks(c, p, body)
  BY DEF Asks
<1> HIDE DEF schema, body
<1>7. LET op == Operation(3, schema, body, "STAT") IN
      op.type = 3 /\ op.schema = schema /\ op.body = body /\ op.completion = "STAT"
  BY DEF Operation
<1> QED
  BY <1>1, <1>2, <1>3, <1>4, <1>5, <1>6, <1>7 DEF Writes

\* A get.
LEMMA GetWrites ==
    ASSUME NEW c \in Calls, c.op = "get", NEW p \in Seq(Int)
    PROVE  LET op == OperationOf(c, p) IN
           Writes(c, p, op) /\ Asks(c, p, op.body) /\ op.completion = "DATA"
<1> DEFINE body == [path |-> p, watch |-> c.watch]
           schema == GetDataRequest
<1>1. OperationOf(c, p) = Operation(4, schema, body, "DATA")
  BY DEF OperationOf, OpCode, zoo_awget
<1>2. AreFields(schema, Members)
  BY GetDataRequestFields
<1>3. FitsRecord(schema, body)
  <2>1. FieldNames(schema) = {"path", "watch"}
    BY DEF GetDataRequest, FieldNames, Flag, Str
  <2>2. /\ FitsMember(Str("path"), p)
        /\ FitsMember(Flag("watch"), c.watch)
    BY CallHas DEF FitsMember, FitsScalar, Flag, Str
  <2> QED
    BY <2>1, <2>2 DEF GetDataRequest, FitsRecord, Flag, Str
<1>4. FlagsAreBits(schema, body)
  BY CallHas DEF GetDataRequest, FlagsAreBits, Flag, Str
<1>5. RequestSchema(4) = schema /\ OpCode[c.op] = 4
  BY DEF RequestSchema, OpCode
<1>6. Asks(c, p, body)
  BY DEF Asks
<1> HIDE DEF schema, body
<1>7. LET op == Operation(4, schema, body, "DATA") IN
      op.type = 4 /\ op.schema = schema /\ op.body = body /\ op.completion = "DATA"
  BY DEF Operation
<1> QED
  BY <1>1, <1>2, <1>3, <1>4, <1>5, <1>6, <1>7 DEF Writes

\* A set.
LEMMA SetWrites ==
    ASSUME NEW c \in Calls, c.op = "set", NEW p \in Seq(Int)
    PROVE  LET op == OperationOf(c, p) IN
           Writes(c, p, op) /\ Asks(c, p, op.body) /\ op.completion = "STAT"
<1> DEFINE body == [path |-> p, data |-> DataArgument(c), version |-> c.version]
           schema == SetDataRequest
<1>1. OperationOf(c, p) = Operation(5, schema, body, "STAT")
  BY DEF OperationOf, OpCode, zoo_aset
<1>2. AreFields(schema, Members)
  BY SetDataRequestFields, PlainFieldsAre
<1>3. FitsRecord(schema, body)
  <2>1. FieldNames(schema) = {"path", "data", "version"}
    BY DEF SetDataRequest, FieldNames, Buf, Int32, Str
  <2>2. /\ FitsMember(Str("path"), p)
        /\ FitsMember(Buf("data"), DataArgument(c))
        /\ FitsMember(Int32("version"), c.version)
    BY CallHas DEF FitsMember, FitsScalar, Buf, Int32, Str
  <2> QED
    BY <2>1, <2>2 DEF SetDataRequest, FitsRecord, Buf, Int32, Str
<1>4. FlagsAreBits(schema, body)
  BY CallHas DEF SetDataRequest, FlagsAreBits, Buf, Int32, Str
<1>5. RequestSchema(5) = schema /\ OpCode[c.op] = 5
  BY DEF RequestSchema, OpCode
<1>6. Asks(c, p, body)
  BY DEF Asks
<1> HIDE DEF schema, body
<1>7. LET op == Operation(5, schema, body, "STAT") IN
      op.type = 5 /\ op.schema = schema /\ op.body = body /\ op.completion = "STAT"
  BY DEF Operation
<1> QED
  BY <1>1, <1>2, <1>3, <1>4, <1>5, <1>6, <1>7 DEF Writes

\* A get_acl.
LEMMA GetAclWrites ==
    ASSUME NEW c \in Calls, c.op = "get_acl", NEW p \in Seq(Int)
    PROVE  LET op == OperationOf(c, p) IN
           Writes(c, p, op) /\ Asks(c, p, op.body) /\ op.completion = "ACLLIST"
<1> DEFINE body == [path |-> p]
           schema == GetACLRequest
<1>1. OperationOf(c, p) = Operation(6, schema, body, "ACLLIST")
  BY DEF OperationOf, OpCode, zoo_aget_acl
<1>2. AreFields(schema, Members)
  BY GetACLRequestFields, PlainFieldsAre
<1>3. FitsRecord(schema, body)
  <2>1. FieldNames(schema) = {"path"}
    BY DEF GetACLRequest, FieldNames, Str
  <2>2. /\ FitsMember(Str("path"), p)
    BY CallHas DEF FitsMember, FitsScalar, Str
  <2> QED
    BY <2>1, <2>2 DEF GetACLRequest, FitsRecord, Str
<1>4. FlagsAreBits(schema, body)
  BY CallHas DEF GetACLRequest, FlagsAreBits, Str
<1>5. RequestSchema(6) = schema /\ OpCode[c.op] = 6
  BY DEF RequestSchema, OpCode
<1>6. Asks(c, p, body)
  BY DEF Asks
<1> HIDE DEF schema, body
<1>7. LET op == Operation(6, schema, body, "ACLLIST") IN
      op.type = 6 /\ op.schema = schema /\ op.body = body /\ op.completion = "ACLLIST"
  BY DEF Operation
<1> QED
  BY <1>1, <1>2, <1>3, <1>4, <1>5, <1>6, <1>7 DEF Writes

\* A set_acl.
LEMMA SetAclWrites ==
    ASSUME NEW c \in Calls, c.op = "set_acl", NEW p \in Seq(Int)
    PROVE  LET op == OperationOf(c, p) IN
           Writes(c, p, op) /\ Asks(c, p, op.body) /\ op.completion = "VOID"
<1> DEFINE body == [path |-> p, acl |-> c.acl, version |-> c.version]
           schema == SetACLRequest
<1>1. OperationOf(c, p) = Operation(7, schema, body, "VOID")
  BY DEF OperationOf, OpCode, zoo_aset_acl
<1>2. AreFields(schema, Members)
  BY SetACLRequestFields
<1>3. FitsRecord(schema, body)
  <2>1. FieldNames(schema) = {"path", "acl", "version"}
    BY DEF SetACLRequest, FieldNames, Int32, Str, Vec
  <2>2. /\ FitsMember(Str("path"), p)
        /\ FitsMember(Vec("acl", ACL_vector), c.acl)
        /\ FitsMember(Int32("version"), c.version)
    <3>1. FitsMember(Str("path"), p)
      BY CallHas DEF FitsMember, FitsScalar, Str
    <3>2. FitsMember(Vec("acl", ACL_vector), c.acl)
      BY CallHas DEF FitsMember, Vec
    <3>3. FitsMember(Int32("version"), c.version)
      BY CallHas DEF FitsMember, FitsScalar, Int32
    <3> QED
      BY <3>1, <3>2, <3>3
  <2>3. /\ schema[1] = Str("path") /\ schema[1].name = "path" /\ body["path"] = p
        /\ schema[2] = Vec("acl", ACL_vector) /\ schema[2].name = "acl" /\ body["acl"] = c.acl
        /\ schema[3] = Int32("version") /\ schema[3].name = "version" /\ body["version"] = c.version
        /\ DOMAIN schema = 1 .. 3 /\ body = [n \in FieldNames(schema) |-> body[n]]
    BY <2>1 DEF SetACLRequest, Int32, Str, Vec
  <2> HIDE DEF schema, body
  <2>4. ASSUME NEW i \in DOMAIN schema PROVE FitsMember(schema[i], body[schema[i].name])
    <3>1. i = 1 \/ i = 2 \/ i = 3
      BY <2>3
    <3> QED
      BY <2>2, <2>3, <3>1
  <2> QED
    BY <2>3, <2>4 DEF FitsRecord
<1>4. FlagsAreBits(schema, body)
  BY CallHas DEF SetACLRequest, FlagsAreBits, Int32, Str, Vec
<1>5. RequestSchema(7) = schema /\ OpCode[c.op] = 7
  BY DEF RequestSchema, OpCode
<1>6. Asks(c, p, body)
  BY DEF Asks
<1> HIDE DEF schema, body
<1>7. LET op == Operation(7, schema, body, "VOID") IN
      op.type = 7 /\ op.schema = schema /\ op.body = body /\ op.completion = "VOID"
  BY DEF Operation
<1> QED
  BY <1>1, <1>2, <1>3, <1>4, <1>5, <1>6, <1>7 DEF Writes

\* A get_children.
LEMMA GetChildrenWrites ==
    ASSUME NEW c \in Calls, c.op = "get_children", NEW p \in Seq(Int)
    PROVE  LET op == OperationOf(c, p) IN
           Writes(c, p, op) /\ Asks(c, p, op.body) /\ op.completion = "STRINGLIST"
<1> DEFINE body == [path |-> p, watch |-> c.watch]
           schema == GetChildrenRequest
<1>1. OperationOf(c, p) = Operation(8, schema, body, "STRINGLIST")
  BY DEF OperationOf, OpCode, zoo_awget_children
<1>2. AreFields(schema, Members)
  BY GetChildrenRequestFields
<1>3. FitsRecord(schema, body)
  <2>1. FieldNames(schema) = {"path", "watch"}
    BY DEF GetChildrenRequest, FieldNames, Flag, Str
  <2>2. /\ FitsMember(Str("path"), p)
        /\ FitsMember(Flag("watch"), c.watch)
    BY CallHas DEF FitsMember, FitsScalar, Flag, Str
  <2> QED
    BY <2>1, <2>2 DEF GetChildrenRequest, FitsRecord, Flag, Str
<1>4. FlagsAreBits(schema, body)
  BY CallHas DEF GetChildrenRequest, FlagsAreBits, Flag, Str
<1>5. RequestSchema(8) = schema /\ OpCode[c.op] = 8
  BY DEF RequestSchema, OpCode
<1>6. Asks(c, p, body)
  BY DEF Asks
<1> HIDE DEF schema, body
<1>7. LET op == Operation(8, schema, body, "STRINGLIST") IN
      op.type = 8 /\ op.schema = schema /\ op.body = body /\ op.completion = "STRINGLIST"
  BY DEF Operation
<1> QED
  BY <1>1, <1>2, <1>3, <1>4, <1>5, <1>6, <1>7 DEF Writes

\* A sync.
LEMMA SyncWrites ==
    ASSUME NEW c \in Calls, c.op = "sync", NEW p \in Seq(Int)
    PROVE  LET op == OperationOf(c, p) IN
           Writes(c, p, op) /\ Asks(c, p, op.body) /\ op.completion = "STRING"
<1> DEFINE body == [path |-> p]
           schema == SyncRequest
<1>1. OperationOf(c, p) = Operation(9, schema, body, "STRING")
  BY DEF OperationOf, OpCode, zoo_async
<1>2. AreFields(schema, Members)
  BY SyncRequestFields, PlainFieldsAre
<1>3. FitsRecord(schema, body)
  <2>1. FieldNames(schema) = {"path"}
    BY DEF SyncRequest, FieldNames, Str
  <2>2. /\ FitsMember(Str("path"), p)
    BY CallHas DEF FitsMember, FitsScalar, Str
  <2> QED
    BY <2>1, <2>2 DEF SyncRequest, FitsRecord, Str
<1>4. FlagsAreBits(schema, body)
  BY CallHas DEF SyncRequest, FlagsAreBits, Str
<1>5. RequestSchema(9) = schema /\ OpCode[c.op] = 9
  BY DEF RequestSchema, OpCode
<1>6. Asks(c, p, body)
  BY DEF Asks
<1> HIDE DEF schema, body
<1>7. LET op == Operation(9, schema, body, "STRING") IN
      op.type = 9 /\ op.schema = schema /\ op.body = body /\ op.completion = "STRING"
  BY DEF Operation
<1> QED
  BY <1>1, <1>2, <1>3, <1>4, <1>5, <1>6, <1>7 DEF Writes

\* Every call.
LEMMA CallWrites ==
    ASSUME NEW c \in Calls, NEW p \in Seq(Int)
    PROVE  LET op == OperationOf(c, p) IN Writes(c, p, op) /\ Asks(c, p, op.body)
<1>1. c.op \in {"create", "delete", "exists", "get", "set", "get_acl", "set_acl",
                "get_children", "sync"}
  BY CallHas
<1> QED
  BY <1>1, CreateWrites, DeleteWrites, ExistsWrites, GetWrites, SetWrites, GetAclWrites,
     SetAclWrites, GetChildrenWrites, SyncWrites

\* The header of a request.
LEMMA HeaderFits ==
    ASSUME NEW x \in Int, NEW type \in Int
    PROVE  LET h == [xid |-> x, type |-> type] IN
           /\ AreFields(RequestHeader, Members) /\ FitsRecord(RequestHeader, h)
           /\ Seen(RequestHeader, h) = h
<1> DEFINE h == [xid |-> x, type |-> type]
<1>1. FieldNames(RequestHeader) = {"xid", "type"}
  BY DEF RequestHeader, FieldNames, Int32
<1>2. FitsMember(Int32("xid"), x) /\ FitsMember(Int32("type"), type)
  BY DEF FitsMember, FitsScalar, Int32
<1>3. FitsRecord(RequestHeader, h)
  BY <1>1, <1>2 DEF RequestHeader, FitsRecord, Int32
<1>4. FlagsAreBits(RequestHeader, h)
  BY DEF FlagsAreBits, RequestHeader, Int32
<1>5. h = [n \in FieldNames(RequestHeader) |-> h[n]]
  BY <1>3 DEF FitsRecord
<1> HIDE DEF h
<1>6. Seen(RequestHeader, h) = h
  BY <1>4, <1>5, SeenAsWritten
<1>7. AreFields(RequestHeader, Members)
  BY RequestHeaderFields, PlainFieldsAre
<1> QED
  BY <1>3, <1>6, <1>7 DEF h

\* The bytes of its first number.
LEMMA HeaderIsLong ==
    ASSUME NEW x \in Int, NEW type \in Int
    PROVE  Len(Encode(RequestHeader, [xid |-> x, type |-> type])) >= 4
<1> DEFINE h == [xid |-> x, type |-> type]
           new == create_buffer_oarchive
           schema == RequestHeader
<1>1. Len(schema) = 2 /\ schema[1] = Int32("xid") /\ schema[2] = Int32("type")
  BY DEF RequestHeader
<1>2. h["xid"] = x /\ h["type"] = type /\ Int32("xid").name = "xid" /\ Int32("type").name = "type"
  BY DEF Int32
<1>3. new \in Archives /\ new.buffer = <<>>
  BY EmptyArchive
<1>4. Encode(schema, h) = Serialize(new, schema, h).buffer
  BY DEF Encode
<1> HIDE DEF h, new, schema
<1>5. PICK f : /\ f[0] = new
               /\ \A i \in 1 .. 2 : f[i] = WriteMember(f[i - 1], schema[i], h[schema[i].name])
               /\ f[2] = Serialize(new, schema, h)
  <2>1. Len(schema) \in Nat
    BY <1>1
  <2>2. \E f : /\ f[0] = new
               /\ \A i \in 1 .. Len(schema) :
                     f[i] = WriteMember(f[i - 1], schema[i], h[schema[i].name])
               /\ f[Len(schema)] = Serialize(new, schema, h)
    BY <2>1, SerializeIs
  <2> QED
    BY <1>1, <2>2
<1>6. f[1] = WriteMember(new, Int32("xid"), x) /\ f[2] = WriteMember(f[1], Int32("type"), type)
  <2>1. 1 \in 1 .. 2 /\ 2 \in 1 .. 2 /\ 1 - 1 = 0 /\ 2 - 1 = 1
    OBVIOUS
  <2>2. f[1] = WriteMember(f[1 - 1], schema[1], h[schema[1].name])
        /\ f[2] = WriteMember(f[2 - 1], schema[2], h[schema[2].name])
    BY <1>5, <2>1
  <2> QED
    BY <1>1, <1>2, <1>5, <2>1, <2>2
<1>7. \A oa, n, v : WriteMember(oa, Int32(n), v) = Put(oa, Number(4, v))
  BY DEF WriteMember, WriteField, Int32, oa_serialize_int
<1>8. f[1] = Put(new, Number(4, x)) /\ f[2] = Put(f[1], Number(4, type))
  BY <1>6, <1>7
<1>9. /\ Number(4, x) \in Seq(Octets) /\ Len(Number(4, x)) = 4
      /\ Number(4, type) \in Seq(Octets) /\ Len(Number(4, type)) = 4
  BY NumberIs
<1>10. f[1] \in Archives /\ Len(f[1].buffer) = 4
  <2>1. f[1] \in Archives /\ f[1].buffer = new.buffer \o Number(4, x)
        /\ Len(new.buffer \o Number(4, x)) = Len(new.buffer) + Len(Number(4, x))
    BY <1>3, <1>8, <1>9, PutIs
  <2>2. Len(new.buffer) + Len(Number(4, x)) = 4
    <3>1. Len(new.buffer) = 0
      BY <1>3
    <3> QED
      BY <1>9, <3>1
  <2> QED
    BY <2>1, <2>2, Zenon
<1>11. Len(f[2].buffer) = 4 + 4
  <2>1. f[2].buffer = f[1].buffer \o Number(4, type)
        /\ Len(f[1].buffer \o Number(4, type)) = Len(f[1].buffer) + Len(Number(4, type))
    BY <1>8, <1>9, <1>10, PutIs
  <2> QED
    BY <1>9, <1>10, <2>1
<1>12. Len(Encode(schema, h)) >= 4
  BY <1>4, <1>5, <1>11
<1> QED
  BY <1>12 DEF h, schema

\* What the server finds in a request of the identifier x for the operation op.
FoundIn(sent, x, op) ==
    RequestIn(sent) = [header |-> [xid |-> x, type |-> op.type], body |-> op.body,
                       rc |-> 0, whole |-> TRUE]

\* The server reads a request as it was written.
LEMMA RequestIsRead ==
    ASSUME NEW c \in Calls, NEW p \in Seq(Int), NEW x \in Int, NEW op, Writes(c, p, op),
           NEW sent, sent = RequestArchive(x, op).buffer
    PROVE  /\ sent \in Seq(Octets) /\ sent # <<>>
           /\ FoundIn(sent, x, op)
<1> DEFINE h == [xid |-> x, type |-> op.type]
           new == create_buffer_oarchive
           a == Serialize(new, RequestHeader, h)
           b == Serialize(a, op.schema, op.body)
<1>1. /\ AreFields(op.schema, Members) /\ FitsRecord(op.schema, op.body)
      /\ FlagsAreBits(op.schema, op.body)
      /\ op.type \in Int /\ RequestSchema(op.type) = op.schema
  BY DEF Writes
<1>2. sent = b.buffer /\ Len(a.buffer) >= 4
  <2>1. a.buffer = Encode(RequestHeader, h)
    BY DEF Encode
  <2> QED
    BY <1>1, <2>1, HeaderIsLong DEF RequestArchive
<1>3. new \in Archives /\ new.buffer = <<>> /\ Len(new.buffer) = 0
  BY EmptyArchive
<1>4. /\ RequestHeader \in Seq(Members) /\ Distinct(RequestHeader)
      /\ FitsRecord(RequestHeader, h) /\ Seen(RequestHeader, h) = h
  BY <1>1, HeaderFits DEF AreFields
<1>5. op.schema \in Seq(Members) /\ Distinct(op.schema) /\ Seen(op.schema, op.body) = op.body
  <2>1. op.body = [n \in FieldNames(op.schema) |-> op.body[n]]
    BY <1>1 DEF FitsRecord
  <2> QED
    BY <1>1, <2>1, SeenAsWritten DEF AreFields
<1>6. h.type = op.type
  OBVIOUS
<1> HIDE DEF h, new
<1>7. /\ a \in Archives
      /\ \A in \in Seq(Octets), d \in Nat :
            Agree(in, d, a.buffer) /\ ~(Len(in) < d + Len(new.buffer)) =>
               LET r == Deserialize(in, d + Len(new.buffer), RequestHeader) IN
               IF Len(in) < d + Len(a.buffer)
               THEN r.rc = E2BIG \/ Overlooked(RequestHeader, r.val, h, Len(RequestHeader))
               ELSE r = Read(0, d + Len(a.buffer), Seen(RequestHeader, h))
  BY <1>3, <1>4, RecordSurvives
<1> HIDE DEF a
<1>8. /\ b \in Archives /\ Begins(a.buffer, b.buffer)
      /\ \A in \in Seq(Octets), d \in Nat :
            Agree(in, d, b.buffer) /\ ~(Len(in) < d + Len(a.buffer)) =>
               LET r == Deserialize(in, d + Len(a.buffer), op.schema) IN
               IF Len(in) < d + Len(b.buffer)
               THEN r.rc = E2BIG \/ Overlooked(op.schema, r.val, op.body, Len(op.schema))
               ELSE r = Read(0, d + Len(b.buffer), Seen(op.schema, op.body))
  BY <1>1, <1>5, <1>7, RecordSurvives
<1> HIDE DEF b
<1>9. /\ sent \in Seq(Octets) /\ Len(sent) \in Nat /\ Len(sent) = Len(b.buffer)
      /\ a.buffer \in Seq(Octets) /\ Len(a.buffer) \in Nat
      /\ Len(a.buffer) <= Len(b.buffer)
  BY <1>2, <1>7, <1>8, BufferOf DEF Begins
<1>10. Agree(sent, 0, b.buffer) /\ Agree(sent, 0, a.buffer)
  <2>1. Agree(sent, 0, b.buffer)
    BY <1>2, <1>9 DEF Agree
  <2>2. Agree(sent, 0, a.buffer)
    BY <1>2, <1>8, <1>9 DEF Agree, Begins
  <2> QED
    BY <2>1, <2>2
<1>11. sent # <<>>
  <2>1. Len(sent) # 0
    BY <1>2, <1>9
  <2> QED
    BY <2>1
<1>12. /\ 0 \in Nat /\ 0 + Len(new.buffer) = 0
       /\ ~(Len(sent) < 0 + Len(new.buffer)) /\ ~(Len(sent) < 0 + Len(a.buffer))
       /\ ~(Len(sent) < 0 + Len(b.buffer))
       /\ 0 + Len(a.buffer) = Len(a.buffer) /\ 0 + Len(b.buffer) = Len(b.buffer)
  BY <1>3, <1>9
<1>13. Deserialize(sent, 0, RequestHeader) = Read(0, Len(a.buffer), h)
  <2>1. Deserialize(sent, 0 + Len(new.buffer), RequestHeader)
          = Read(0, 0 + Len(a.buffer), Seen(RequestHeader, h))
    BY <1>7, <1>9, <1>10, <1>12
  <2> QED
    BY <1>4, <1>12, <2>1
<1>14. Deserialize(sent, Len(a.buffer), op.schema) = Read(0, Len(b.buffer), op.body)
  <2>1. Deserialize(sent, 0 + Len(a.buffer), op.schema)
          = Read(0, 0 + Len(b.buffer), Seen(op.schema, op.body))
    BY <1>8, <1>9, <1>10, <1>12
  <2> QED
    BY <1>5, <1>12, <2>1
<1>15. RequestIn(sent) = [header |-> h, body |-> op.body, rc |-> 0, whole |-> TRUE]
  <2> DEFINE r == Read(0, Len(a.buffer), h)
             q == Read(0, Len(b.buffer), op.body)
  <2>1. r.val = h /\ r.off = Len(a.buffer) /\ q.val = op.body /\ q.off = Len(b.buffer) /\ q.rc = 0
    BY ReadParts
  <2> HIDE DEF r, q
  <2>2. RequestIn(sent) = RequestAfter(r, sent)
    BY <1>13 DEF RequestIn, r
  <2>3. RequestAfter(r, sent) = RequestOf(h, q, Len(sent))
    BY <1>1, <1>6, <1>14, <2>1 DEF RequestAfter, q
  <2>4. RequestOf(h, q, Len(sent))
          = [header |-> h, body |-> op.body, rc |-> 0, whole |-> Len(b.buffer) = Len(sent)]
    BY <2>1 DEF RequestOf
  <2>5. (Len(b.buffer) = Len(sent)) = TRUE
    BY <1>9
  <2> QED
    BY <2>2, <2>3, <2>4, <2>5
<1> QED
  BY <1>9, <1>11, <1>15 DEF h, FoundIn

-----------------------------------------------------------------------------
(* The request of a call.                                                  *)

\* The path of a call on the server.
PathOf(c) == prepend_string(chroot, c.path)

\* The call was not refused, and frame and entry are what it was written as.
SentInv ==
    /\ call \in Calls /\ call.mode # "wrong"
    /\ isValidPath(PathOf(call), IsSequence(call))
    /\ \E x \in Int :
          LET op == OperationOf(call, PathOf(call)) IN
          /\ frame = RequestArchive(x, op).buffer
          /\ entry = [xid |-> x, completion |-> op.completion]

\* It was refused as wrong, then its path is no path.
RefusedInv ==
    /\ call \in Calls /\ frame = <<>> /\ served = NULL
    /\ call.mode # "wrong" /\ outcome.rc = ZBADARGUMENTS =>
          ~isValidPath(PathOf(call), IsSequence(call))

CallInv ==
    /\ stage \in {"start", "idle", "sent", "answered", "done", "notified", "exchanged"}
    /\ IsChroot(chroot)
    /\ stage = "idle" => xid \in Xids
    /\ stage \in {"start", "idle", "exchanged"} =>
          frame = <<>> /\ outcome = Nothing /\ served = NULL
    /\ stage \in {"sent", "answered", "notified"} => SentInv
    /\ stage = "done" => SentInv \/ RefusedInv

\* It is so before and after every step.
LEMMA CallInvInit == Init => CallInv
BY DEF Init, CallInv, IsChroot

\* Every step of a call, and every stutter, keeps the invariant: one step per stage.
LEMMA CallInvNext == CallInv /\ [Next]_vars => CallInv'
<1> SUFFICES ASSUME CallInv, [Next]_vars PROVE CallInv'
  OBVIOUS
<1>1. ASSUME NEW s \in Chroots, OpenHandle(s) PROVE CallInv'
  <2>1. s \in Seq(Int \ {0}) /\ InitAccepts(s)
    BY <1>1, HandlesAssumption DEF OpenHandle
  <2>2. IsChroot(chroot')
    BY <1>1, <2>1, ParsedIsChroot DEF OpenHandle
  <2> QED
    BY <1>1, <2>2 DEF CallInv, OpenHandle
<1>2. ASSUME NEW c \in Calls, CallWithWrongCallback(c) PROVE CallInv'
  <2>1. RefusedInv'
    BY <1>2 DEF CallWithWrongCallback, RefusedInv, CallInv
  <2> QED
    BY <1>2, <2>1 DEF CallInv, CallWithWrongCallback
<1>3. ASSUME NEW c \in Calls, CallRefused(c) PROVE CallInv'
  <2> DEFINE rc == Refusal(c, prepend_string(chroot, c.path))
  <2>1. /\ stage = "idle" /\ stage' = "done" /\ call' = c /\ outcome' = RefusedWith(c, rc)
        /\ UNCHANGED <<chroot, frame, served>>
    BY <1>3 DEF CallRefused
  <2>2. outcome'.rc = rc
    BY <2>1 DEF RefusedWith, Raised, Outcome
  <2>3. rc = ZBADARGUMENTS => ~isValidPath(prepend_string(chroot, c.path), IsSequence(c))
    BY DEF Refusal, ZBADARGUMENTS, ZINVALIDSTATE, ZOK
  <2>4. PathOf(c)' = prepend_string(chroot, c.path)
    BY <2>1 DEF PathOf
  <2> HIDE DEF rc
  <2>5. RefusedInv'
    BY <2>1, <2>2, <2>3, <2>4 DEF RefusedInv, CallInv, PathOf
  <2> QED
    BY <2>1, <2>5 DEF CallInv
<1>4. ASSUME NEW c \in Calls, CallSent(c) PROVE CallInv'
  <2> DEFINE path == prepend_string(chroot, c.path)
             op == OperationOf(c, path)
  <2>1. /\ stage = "idle" /\ stage' = "sent" /\ call' = c /\ c.mode # "wrong"
        /\ Refusal(c, path) = ZOK
        /\ UNCHANGED <<chroot, served>>
    BY <1>4 DEF CallSent
  <2>2. PICK x \in get_xid : /\ frame' = RequestArchive(x, op).buffer
                             /\ entry' = [xid |-> x, completion |-> op.completion]
    BY <1>4 DEF CallSent
  <2>3. x \in Int
    BY <2>1, HandlesAssumption DEF get_xid, CallInv
  <2>4. isValidPath(path, IsSequence(c))
    BY <2>1 DEF Refusal, ZBADARGUMENTS, ZINVALIDSTATE, ZOK
  <2> HIDE DEF op
  <2>5. /\ PathOf(call)' = path /\ OperationOf(call, PathOf(call))' = op
        /\ IsSequence(call)' = IsSequence(c)
    BY <2>1 DEF PathOf, op
  <2> HIDE DEF path
  <2>6. SentInv'
    BY <2>1, <2>2, <2>3, <2>4, <2>5 DEF SentInv
  <2> QED
    BY <2>1, <2>6 DEF CallInv
<1>5. CASE ServerAnswers
  <2>1. /\ stage = "sent" /\ stage' = "answered"
        /\ UNCHANGED <<chroot, call, frame, entry>>
    BY <1>5 DEF ServerAnswers
  <2>2. SentInv'
    BY <2>1 DEF CallInv, SentInv, PathOf
  <2> QED
    BY <2>1, <2>2 DEF CallInv
<1>6. CASE ReadReply
  <2>1. /\ stage = "answered" /\ stage' = "done"
        /\ UNCHANGED <<chroot, call, frame, entry>>
    BY <1>6 DEF ReadReply
  <2>2. SentInv'
    BY <2>1 DEF CallInv, SentInv, PathOf
  <2> QED
    BY <2>1, <2>2 DEF CallInv
<1>7. CASE WatchFires
  <2>1. /\ stage = "done" /\ stage' = "notified" /\ served # NULL
        /\ UNCHANGED <<chroot, call, frame, entry>>
    BY <1>7 DEF WatchFires
  <2>2. SentInv'
    BY <2>1 DEF CallInv, SentInv, RefusedInv, PathOf
  <2> QED
    BY <2>1, <2>2 DEF CallInv
<1>8. ASSUME NEW s \in DOMAIN Schemas, NEW k \in 1 .. Variants, ExchangeRecord(s, k)
      PROVE  CallInv'
  BY <1>8 DEF ExchangeRecord, CallInv
<1>9. CASE UNCHANGED vars
  BY <1>9 DEF CallInv, SentInv, RefusedInv, PathOf, vars
<1> QED
  BY <1>1, <1>2, <1>3, <1>4, <1>5, <1>6, <1>7, <1>8, <1>9 DEF Next

\* So it holds always.
LEMMA CallInvHolds == Spec => []CallInv
BY CallInvInit, CallInvNext, PTL DEF Spec

\* The path of a call that leaves no chroot.
LEMMA CallPath ==
    ASSUME IsChroot(chroot), NEW c \in Calls
    PROVE  /\ PathOf(c) \in Seq(Int \ {0}) /\ PathOf(c) \in Seq(Int)
           /\ IsSequence(c) \in BOOLEAN
           /\ ~LeavesChroot(c) =>
                 /\ PathOf(c) = Below(chroot, c.path)
                 /\ isValidPath(PathOf(c), IsSequence(c)) <=> IsAbsolutePath(c.path, IsSequence(c))
<1>1. c.path \in Seq(Int \ {0})
  BY CallHas
<1>2. PathOf(c) \in Seq(Int \ {0})
  BY <1>1, SentIsPath DEF PathOf
<1>3. IsSequence(c) \in BOOLEAN
  BY DEF IsSequence
<1>4. ASSUME ~LeavesChroot(c)
      PROVE  /\ PathOf(c) = Below(chroot, c.path)
             /\ isValidPath(PathOf(c), IsSequence(c)) <=> IsAbsolutePath(c.path, IsSequence(c))
  BY <1>1, <1>3, <1>4, SentBelow DEF PathOf, LeavesChroot
<1>5. PathOf(c) \in Seq(Int)
  BY <1>2
<1> QED
  BY <1>2, <1>3, <1>4, <1>5

\* The server reads what was sent.
LEMMA SentIsRead ==
    ASSUME IsChroot(chroot), SentInv
    PROVE  LET op == OperationOf(call, PathOf(call)) IN
           /\ entry.xid \in Int /\ entry.completion = op.completion
           /\ frame \in Seq(Octets) /\ frame # <<>>
           /\ Writes(call, PathOf(call), op) /\ Asks(call, PathOf(call), op.body)
           /\ FoundIn(frame, entry.xid, op)
<1> DEFINE p == PathOf(call)
           op == OperationOf(call, p)
<1>1. call \in Calls
  BY DEF SentInv
<1>2. p \in Seq(Int)
  BY <1>1, CallPath
<1>3. PICK x \in Int : /\ frame = RequestArchive(x, op).buffer
                       /\ entry = [xid |-> x, completion |-> op.completion]
  BY DEF SentInv
<1>4. entry.xid = x /\ entry.completion = op.completion
  BY <1>3
<1>5. Writes(call, p, op) /\ Asks(call, p, op.body)
  BY <1>1, <1>2, CallWrites
<1> HIDE DEF op, p
<1>6. frame \in Seq(Octets) /\ frame # <<>> /\ FoundIn(frame, x, op)
  BY <1>1, <1>2, <1>3, <1>5, RequestIsRead
<1>7. FoundIn(frame, entry.xid, op)
  BY <1>4, <1>6
<1> QED
  BY <1>4, <1>5, <1>6, <1>7 DEF op, p

\* What the server finds in the request is what the application asked for, and a call is
\* refused as wrong only if its path is: for any chroots, calls and identifiers.
\* (zoo_aget to zoo_aset_acl, prepend_string, isValidPath, zookeeper.rb)
THEOREM CallsReachServer == Spec => []CallReachesServer
<1>1. CallInv => CallReachesServer
  <2> SUFFICES ASSUME CallInv PROVE CallReachesServer
    OBVIOUS
  <2>1. ASSUME stage = "sent" PROVE IsAsked(RequestIn(frame))
    <3> DEFINE op == OperationOf(call, PathOf(call))
               r == RequestIn(frame)
    <3>1. /\ IsChroot(chroot) /\ SentInv /\ call \in Calls
          /\ isValidPath(PathOf(call), IsSequence(call))
      BY <2>1 DEF CallInv, SentInv
    <3>2. /\ Writes(call, PathOf(call), op) /\ Asks(call, PathOf(call), op.body)
          /\ r = [header |-> [xid |-> entry.xid, type |-> op.type], body |-> op.body,
                  rc |-> 0, whole |-> TRUE]
      BY <3>1, SentIsRead DEF FoundIn
    <3> HIDE DEF op, r
    <3>3. r.rc = 0 /\ r.whole /\ r.header = [xid |-> entry.xid, type |-> OpCode[call.op]]
          /\ r.body = op.body
      BY <3>2 DEF Writes
    <3>4. LeavesChroot(call) \/ /\ IsAbsolutePath(call.path, IsSequence(call))
                                /\ r.body.path = Below(chroot, call.path)
      <4>1. r.body.path = PathOf(call)
        BY <3>2, <3>3 DEF Asks
      <4> QED
        BY <3>1, <4>1, CallPath
    <3>5. \A n \in DOMAIN r.body \cap {"version", "watch", "acl"} : r.body[n] = call[n]
      BY <3>2, <3>3 DEF Asks
    <3>6. "flags" \in DOMAIN r.body =>
             r.body.flags = (IF call.ephemeral THEN 1 ELSE 0)
                            + (IF call.sequence = "no" THEN 0 ELSE 2)
      <4>1. FlagsArgument(call) = (IF call.ephemeral THEN 1 ELSE 0)
                                  + (IF call.sequence = "no" THEN 0 ELSE 2)
        BY DEF FlagsArgument
      <4> QED
        BY <3>2, <3>3, <4>1 DEF Asks
    <3>7. "data" \in DOMAIN r.body =>
             \/ r.body.data = (IF call.data = NULL THEN NULL ELSE call.data.bytes)
             \/ IsMultiByte(call)
      <4>1. IsMultiByte(call)
            \/ DataArgument(call) = IF call.data = NULL THEN NULL ELSE call.data.bytes
        BY <3>1, CallHas
      <4> QED
        BY <3>2, <3>3, <4>1 DEF Asks
    <3>8. IsAsked(r)
      BY <3>3, <3>4, <3>5, <3>6, <3>7 DEF IsAsked
    <3> QED
      BY <3>8 DEF r
  <2>2. ASSUME frame = <<>>, outcome.rc = ZBADARGUMENTS, call.mode # "wrong"
        PROVE  ~IsAbsolutePath(call.path, IsSequence(call)) \/ LeavesChroot(call)
    <3>1. ~SentInv
      BY <2>2, SentIsRead DEF CallInv
    <3>2. outcome # Nothing
      BY <2>2 DEF Nothing, ZBADARGUMENTS
    <3>3. RefusedInv
      BY <3>1, <3>2 DEF CallInv
    <3>4. call \in Calls /\ ~isValidPath(PathOf(call), IsSequence(call))
      BY <2>2, <3>3 DEF RefusedInv
    <3> QED
      BY <3>4, CallPath DEF CallInv
  <2> QED
    BY <2>1, <2>2 DEF CallReachesServer
<1> QED
  BY <1>1, CallInvHolds, PTL

-----------------------------------------------------------------------------
(* The reply to a call.                                                    *)

\* A record that is read as it was written.
Carries(schema, v) ==
    AreFields(schema, Members) /\ FitsRecord(schema, v) /\ FlagsAreBits(schema, v)

\* Wherever its bytes are.
LEMMA RecordAnywhere ==
    ASSUME NEW schema, NEW v, Carries(schema, v)
    PROVE  LET e == Encode(schema, v) IN
           /\ e \in Seq(Octets)
           /\ \A in \in Seq(Octets), d \in Nat :
                 Agree(in, d, e) /\ ~(Len(in) < d + Len(e)) =>
                    Deserialize(in, d, schema) = Read(0, d + Len(e), v)
<1> DEFINE new == create_buffer_oarchive
           oa == Serialize(new, schema, v)
           e == oa.buffer
<1>1. Encode(schema, v) = e
  BY DEF Encode
<1>2. schema \in Seq(Members) /\ Distinct(schema) /\ FitsRecord(schema, v)
  BY DEF Carries, AreFields
<1>3. Seen(schema, v) = v
  BY SeenAsWritten DEF Carries, FitsRecord
<1>4. new \in Archives /\ new.buffer = <<>> /\ Len(new.buffer) = 0
  BY EmptyArchive
<1> HIDE DEF new
<1>5. /\ oa \in Archives
      /\ \A in \in Seq(Octets), d \in Nat :
            Agree(in, d, oa.buffer) /\ ~(Len(in) < d + Len(new.buffer)) =>
               LET r == Deserialize(in, d + Len(new.buffer), schema) IN
               IF Len(in) < d + Len(oa.buffer)
               THEN r.rc = E2BIG \/ Overlooked(schema, r.val, v, Len(schema))
               ELSE r = Read(0, d + Len(oa.buffer), Seen(schema, v))
  BY <1>2, <1>4, RecordSurvives
<1> HIDE DEF oa
<1>6. e \in Seq(Octets) /\ Len(e) \in Nat
  BY <1>5, BufferOf
<1>7. ASSUME NEW in \in Seq(Octets), NEW d \in Nat, Agree(in, d, e), ~(Len(in) < d + Len(e))
      PROVE  Deserialize(in, d, schema) = Read(0, d + Len(e), v)
  <2>1. d + Len(new.buffer) = d
    BY <1>4
  <2>2. Len(in) \in Nat
    OBVIOUS
  <2>3. ~(Len(in) < d + Len(new.buffer))
    BY <1>6, <1>7, <2>1, <2>2
  <2>4. Deserialize(in, d + Len(new.buffer), schema) = Read(0, d + Len(oa.buffer), Seen(schema, v))
    BY <1>5, <1>7, <2>3
  <2> QED
    BY <1>3, <2>1, <2>4
<1> QED
  BY <1>1, <1>6, <1>7

\* The header of a reply.
Heading(x, zxid, err) == [xid |-> x, zxid |-> zxid, err |-> err]

\* It is read as it was written.
LEMMA HeadingCarries ==
    ASSUME NEW x \in Int, NEW zxid \in Int, NEW err \in Int
    PROVE  Carries(ReplyHeader, Heading(x, zxid, err))
<1> DEFINE h == Heading(x, zxid, err)
<1>1. FieldNames(ReplyHeader) = {"xid", "zxid", "err"}
  BY DEF ReplyHeader, FieldNames, Int32, Int64
<1>2. /\ FitsMember(Int32("xid"), x) /\ FitsMember(Int64("zxid"), zxid)
      /\ FitsMember(Int32("err"), err)
  BY DEF FitsMember, FitsScalar, Int32, Int64
<1>3. FitsRecord(ReplyHeader, h)
  BY <1>1, <1>2 DEF ReplyHeader, FitsRecord, Int32, Int64, Heading
<1>4. FlagsAreBits(ReplyHeader, h)
  BY DEF FlagsAreBits, ReplyHeader, Int32, Int64
<1> QED
  BY <1>3, <1>4, ReplyHeaderFields, PlainFieldsAre DEF Carries

\* The header h is read of in, and the record v behind it.
ReadsBehind(in, h, schema, v) ==
    LET r == Deserialize(in, 0, ReplyHeader) IN
    r.val = h /\ Deserialize(in, r.off, schema).val = v

\* A header and a record are read as they were written.
LEMMA ReplyIsRead ==
    ASSUME NEW h, Carries(ReplyHeader, h), NEW schema, NEW v, Carries(schema, v),
           NEW in, in = Encode(ReplyHeader, h) \o Encode(schema, v)
    PROVE  ReadsBehind(in, h, schema, v)
<1> DEFINE a == Encode(ReplyHeader, h)
           b == Encode(schema, v)
<1>1. /\ a \in Seq(Octets)
      /\ \A s \in Seq(Octets), d \in Nat :
            Agree(s, d, a) /\ ~(Len(s) < d + Len(a)) =>
               Deserialize(s, d, ReplyHeader) = Read(0, d + Len(a), h)
  BY RecordAnywhere
<1>2. /\ b \in Seq(Octets)
      /\ \A s \in Seq(Octets), d \in Nat :
            Agree(s, d, b) /\ ~(Len(s) < d + Len(b)) =>
               Deserialize(s, d, schema) = Read(0, d + Len(b), v)
  BY RecordAnywhere
<1>3. in = a \o b
  OBVIOUS
<1> HIDE DEF a, b
<1>4. /\ in \in Seq(Octets) /\ Len(in) = Len(a) + Len(b)
      /\ Agree(in, Len(a), b) /\ Agree(in, 0, a)
  BY <1>1, <1>2, <1>3, BehindAgrees
<1>5. Len(a) \in Nat /\ Len(b) \in Nat
  BY <1>1, <1>2
<1>6. ~(Len(in) < 0 + Len(a)) /\ ~(Len(in) < Len(a) + Len(b)) /\ 0 + Len(a) = Len(a) /\ 0 \in Nat
  BY <1>4, <1>5
<1>7. Deserialize(in, 0, ReplyHeader) = Read(0, 0 + Len(a), h)
  BY <1>1, <1>4, <1>6
<1>8. Deserialize(in, Len(a), schema) = Read(0, Len(a) + Len(b), v)
  BY <1>2, <1>4, <1>5, <1>6
<1>9. Deserialize(in, 0, ReplyHeader).val = h /\ Deserialize(in, 0, ReplyHeader).off = Len(a)
  BY <1>6, <1>7, ReadParts
<1>10. Deserialize(in, Len(a), schema).val = v
  BY <1>8, ReadParts
<1> QED
  BY <1>9, <1>10 DEF ReadsBehind

\* A header alone.
LEMMA HeadingIsRead ==
    ASSUME NEW h, Carries(ReplyHeader, h), NEW in, in = Encode(ReplyHeader, h)
    PROVE  Deserialize(in, 0, ReplyHeader).val = h
<1>1. /\ in \in Seq(Octets)
      /\ \A s \in Seq(Octets), d \in Nat :
            Agree(s, d, in) /\ ~(Len(s) < d + Len(in)) =>
               Deserialize(s, d, ReplyHeader) = Read(0, d + Len(in), h)
  BY RecordAnywhere
<1>2. Len(in) \in Nat /\ 0 + Len(in) = Len(in) /\ ~(Len(in) < 0 + Len(in)) /\ 0 \in Nat
  BY <1>1
<1>3. Agree(in, 0, in)
  <2>1. \A i \in 1 .. Len(in) : 0 + i = i
    OBVIOUS
  <2> QED
    BY <2>1 DEF Agree
<1>4. Deserialize(in, 0, ReplyHeader) = Read(0, 0 + Len(in), h)
  BY <1>1, <1>2, <1>3
<1> QED
  BY <1>4, ReadParts

\* The statistics of a znode.
LEMMA StatCarries == Carries(Stat, StatRecord)
<1>1. \A i \in DOMAIN Stat : Stat[i].kind \in {"Int", "Long"}
  BY DEF Stat, Int32, Int64
<1>2. DOMAIN Stat \subseteq Nat
  BY DEF Stat
<1>3. /\ DOMAIN StatRecord = FieldNames(Stat)
      /\ StatRecord = [n \in FieldNames(Stat) |-> StatRecord[n]]
  BY DEF StatRecord
<1>4. ASSUME NEW i \in DOMAIN Stat PROVE StatRecord[Stat[i].name] \in Int
  <2> DEFINE j == CHOOSE k \in DOMAIN Stat : Stat[k].name = Stat[i].name
  <2>1. j \in DOMAIN Stat
    OBVIOUS
  <2>2. StatRecord[Stat[i].name] = 100 + j
    BY DEF StatRecord, FieldNames
  <2> HIDE DEF j
  <2>3. j \in Nat
    BY <1>2, <2>1
  <2> QED
    BY <2>2, <2>3
<1>5. FitsRecord(Stat, StatRecord)
  BY <1>1, <1>3, <1>4 DEF FitsRecord, FitsMember, FitsScalar
<1>6. FlagsAreBits(Stat, StatRecord)
  BY <1>1 DEF FlagsAreBits
<1> QED
  BY <1>5, <1>6, StatFields, PlainFieldsAre DEF Carries

\* A record with a field before those of another.
LEMMA FieldBefore ==
    ASSUME NEW f \in Members, f.kind # "Bool", Distinct(f.of), NEW x, FitsMember(f, x),
           NEW g, g = [n \in {f.name} |-> x],
           NEW s, NEW w, Carries(s, w), f.name \notin FieldNames(s)
    PROVE  Carries(<<f>> \o s, Beside(g, w))
<1> DEFINE t == <<f>> \o s
           v == Beside(g, w)
<1>1. s \in Seq(Members) /\ DOMAIN w = FieldNames(s) /\ Len(s) \in Nat /\ DOMAIN s = 1 .. Len(s)
  BY DEF Carries, AreFields, FitsRecord
<1>2. AreFields(t, Members)
  BY OneFieldMore DEF Carries
<1>3. /\ DOMAIN t = 1 .. Len(s) + 1 /\ t[1] = f
      /\ \A i \in 1 .. Len(s) : t[i + 1] = s[i]
  BY <1>1
<1>4. \A i \in DOMAIN t : i = 1 \/ \E j \in DOMAIN s : i = j + 1 /\ t[i] = s[j]
  <2>1. SUFFICES ASSUME NEW i \in DOMAIN t, i # 1
                 PROVE  \E j \in DOMAIN s : i = j + 1 /\ t[i] = s[j]
    OBVIOUS
  <2> DEFINE j == i - 1
  <2>2. j \in 1 .. Len(s) /\ i = j + 1
    BY <1>1, <1>3, <2>1
  <2> QED
    BY <1>1, <1>3, <2>2
<1> HIDE DEF t
<1>5. FieldNames(t) = {f.name} \cup FieldNames(s)
  <2>1. ASSUME NEW n \in FieldNames(t) PROVE n \in {f.name} \cup FieldNames(s)
    BY <1>3, <1>4, <2>1 DEF FieldNames
  <2>2. 1 \in DOMAIN t
    BY <1>1, <1>3
  <2>3. ASSUME NEW j \in DOMAIN s PROVE s[j].name \in FieldNames(t)
    <3>1. j + 1 \in DOMAIN t /\ t[j + 1] = s[j]
      BY <1>1, <1>3
    <3> QED
      BY <3>1 DEF FieldNames
  <2> QED
    BY <1>3, <2>1, <2>2, <2>3 DEF FieldNames
<1>6. /\ v = [n \in {f.name} \cup FieldNames(s) |-> IF n \in {f.name} THEN g[n] ELSE w[n]]
  BY <1>1 DEF Beside
<1> HIDE DEF v
<1>7. v[f.name] = x /\ \A n \in FieldNames(s) : v[n] = w[n]
  BY <1>6
<1>8. \A i \in DOMAIN s : v[s[i].name] = w[s[i].name] /\ FitsMember(s[i], w[s[i].name])
  BY <1>7 DEF FieldNames, Carries, FitsRecord
<1>9. \A i \in DOMAIN t : FitsMember(t[i], v[t[i].name])
  BY <1>3, <1>4, <1>7, <1>8
<1>10. FitsRecord(t, v)
  BY <1>5, <1>6, <1>9 DEF FitsRecord
<1>11. FlagsAreBits(t, v)
  BY <1>3, <1>4, <1>8 DEF FlagsAreBits, Carries
<1> QED
  BY <1>2, <1>10, <1>11 DEF Carries, t, v

\* A record of one field.
LEMMA OneField ==
    ASSUME NEW f, f.kind # "Bool", AreFields(<<f>>, Members), NEW x, FitsMember(f, x),
           NEW g, g = [n \in {f.name} |-> x]
    PROVE  Carries(<<f>>, g)
<1> DEFINE t == <<f>>
<1>1. FieldNames(t) = {f.name} /\ \A i \in DOMAIN t : t[i] = f
  BY DEF FieldNames
<1> HIDE DEF t
<1>2. FitsRecord(t, g) /\ FlagsAreBits(t, g)
  BY <1>1 DEF FitsRecord, FlagsAreBits
<1> QED
  BY <1>2 DEF Carries, t

\* No field.
LEMMA NoField == Carries(<<>>, <<>>)
<1>1. FieldNames(<<>>) = {} /\ DOMAIN <<>> = {}
  BY DEF FieldNames
<1>2. <<>> = [n \in FieldNames(<<>>) |-> <<>>[n]]
  BY <1>1
<1> QED
  BY <1>1, <1>2, NoFieldsAre, PlainFieldsAre DEF Carries, FitsRecord, FlagsAreBits

\* r is the request of the call c, for the path p of the server.
IsRequest(r, c, p) ==
    /\ r.header.type = OpCode[c.op] /\ r.body.path = p
    /\ c.op = "create" => r.body.flags = FlagsArgument(c)

\* v is what the server may answer it.
Answers(v, c, p) ==
    /\ c.op = "get" =>
          /\ v = [n \in DOMAIN v |-> v[n]] /\ "data" \in DOMAIN v
          /\ v.data = NULL \/ v.data \in Seq(Int)
    /\ c.op = "create" => v.path = IF IsSequence(c) THEN p \o Digits ELSE p
    /\ c.op = "create" => v = [path |-> v.path]
    /\ c.op = "sync" => v.path = p
    /\ c.op = "get_acl" => v.acl \in Seq(Acls)

\* It is read by the schema that the completion of the call stands for.
IsReadAs(c, p, type) ==
    c.op \notin {"delete", "set_acl"} =>
        ReplySchema(OperationOf(c, p).completion) = AnswerSchema(type)

\* The digits are characters.
LEMMA DigitsAre == Digits \in Seq(Int) /\ Len(Digits) = SeqDigits /\ SeqDigits \in Nat
<1>1. SeqDigits \in Nat
  BY BoundsAssumption
<1>2. \A i \in 1 .. SeqDigits : 48 \in Int
  OBVIOUS
<1> QED
  BY <1>1, <1>2 DEF Digits

\* The children of a znode are elements of a vector.
LEMMA ChildrenAreElements == [data : Seq(Int)] \subseteq Elements(String_vector)
<1> SUFFICES ASSUME NEW a \in [data : Seq(Int)] PROVE a \in Elements(String_vector)
  OBVIOUS
<1>1. FieldNames(String_vector) = {"data"}
  BY DEF String_vector, FieldNames, Str
<1>2. a = [n \in {"data"} |-> a[n]] /\ a.data \in Seq(Int)
  OBVIOUS
<1>3. a \in [{"data"} -> Int \cup Seq(Int) \cup {NULL}]
  BY <1>2
<1>4. \A i \in DOMAIN String_vector : FitsScalar(String_vector[i], a[String_vector[i].name])
  BY <1>2 DEF FitsScalar, String_vector, Str
<1> QED
  BY <1>1, <1>2, <1>3, <1>4 DEF Elements, FitsElement

\* Sequences of elements of a smaller set.
LEMMA SeqOfPart ==
    ASSUME NEW S, NEW T, S \subseteq T, NEW s \in Seq(S)
    PROVE  s \in Seq(T)
<1>1. \A i \in 1 .. Len(s) : s[i] \in T
  OBVIOUS
<1> QED
  BY <1>1

\* The answer to a get.
LEMMA GetAnswers ==
    ASSUME NEW c \in Calls, c.op = "get", NEW p \in Seq(Int), NEW r, IsRequest(r, c, p),
           NEW v \in AnswersTo(r)
    PROVE  /\ Carries(AnswerSchema(r.header.type), v) /\ Answers(v, c, p)
           /\ IsReadAs(c, p, r.header.type)
<1>1. r.header.type = 4 /\ AnswerSchema(4) = GetDataResponse
  BY DEF IsRequest, OpCode, AnswerSchema
<1>2. PICK d \in Stored.data : v = Beside([data |-> d], StatRecord)
  BY <1>1 DEF AnswersTo
<1>3. d = NULL \/ d \in Seq(Int)
  BY StoredAssumption
<1> DEFINE f == Buf("data")
           g == [data |-> d]
<1>4. /\ f.kind # "Bool" /\ f.name = "data" /\ FitsMember(f, d)
      /\ f.name \notin FieldNames(Stat)
  BY <1>3 DEF Buf, FitsMember, FitsScalar, FieldNames, Stat, Int32, Int64
<1>5. f \in Members /\ Distinct(f.of)
  BY FieldsAre DEF Labels, Members, Plains, Distinct, Buf
<1>6. g = [n \in {f.name} |-> d]
  BY <1>4
<1>7. v.data = d /\ v = [n \in DOMAIN v |-> v[n]] /\ "data" \in DOMAIN v
  BY <1>2 DEF Beside
<1> HIDE DEF f, g
<1>8. Carries(<<f>> \o Stat, Beside(g, StatRecord))
  BY <1>4, <1>5, <1>6, StatCarries, FieldBefore
<1>9. Carries(GetDataResponse, v)
  BY <1>2, <1>8 DEF f, g, GetDataResponse
<1>10. IsReadAs(c, p, 4)
  BY <1>1 DEF IsReadAs, OperationOf, zoo_awget, Operation, ReplySchema
<1> QED
  BY <1>1, <1>3, <1>7, <1>9, <1>10 DEF Answers

\* The answer to a get_acl.
LEMMA GetAclAnswers ==
    ASSUME NEW c \in Calls, c.op = "get_acl", NEW p \in Seq(Int), NEW r, IsRequest(r, c, p),
           NEW v \in AnswersTo(r)
    PROVE  /\ Carries(AnswerSchema(r.header.type), v) /\ Answers(v, c, p)
           /\ IsReadAs(c, p, r.header.type)
<1>1. r.header.type = 6 /\ AnswerSchema(6) = GetACLResponse
  BY DEF IsRequest, OpCode, AnswerSchema
<1>2. PICK a \in Stored.acl : v = Beside([acl |-> a], StatRecord)
  BY <1>1 DEF AnswersTo
<1>3. a \in Seq(Acls) /\ a \in Seq(Elements(ACL_vector))
  <2>1. a \in Seq(Acls)
    BY StoredAssumption
  <2>2. \A i \in 1 .. Len(a) : a[i] \in Elements(ACL_vector)
    BY <2>1, AclsAreElements
  <2> QED
    BY <2>1, <2>2
<1> DEFINE f == Vec("acl", ACL_vector)
           g == [acl |-> a]
<1>4. /\ f.kind # "Bool" /\ f.name = "acl" /\ FitsMember(f, a)
      /\ f.name \notin FieldNames(Stat)
  BY <1>3 DEF Vec, FitsMember, FieldNames, Stat, Int32, Int64
<1>5. f \in Members /\ Distinct(f.of)
  BY FieldsAre, ACL_vectorFields DEF Labels, Members, AreFields, Vec
<1>6. g = [n \in {f.name} |-> a]
  BY <1>4
<1>7. v.acl = a
  BY <1>2 DEF Beside
<1> HIDE DEF f, g
<1>8. Carries(<<f>> \o Stat, Beside(g, StatRecord))
  BY <1>4, <1>5, <1>6, StatCarries, FieldBefore
<1>9. Carries(GetACLResponse, v)
  BY <1>2, <1>8 DEF f, g, GetACLResponse
<1>10. IsReadAs(c, p, 6)
  BY <1>1 DEF IsReadAs, OperationOf, zoo_aget_acl, Operation, ReplySchema
<1> QED
  BY <1>1, <1>3, <1>7, <1>9, <1>10 DEF Answers

\* The answer to a create or a sync.
LEMMA PathAnswers ==
    ASSUME NEW c \in Calls, c.op \in {"create", "sync"}, NEW p \in Seq(Int), NEW r,
           IsRequest(r, c, p), NEW v \in AnswersTo(r)
    PROVE  /\ Carries(AnswerSchema(r.header.type), v) /\ Answers(v, c, p)
           /\ IsReadAs(c, p, r.header.type)
<1> DEFINE q == AnswerPath(r)
<1>1. r.header.type = (IF c.op = "create" THEN 1 ELSE 9)
  BY DEF IsRequest, OpCode
<1>2. AnswerSchema(r.header.type) = <<Str("path")>>
  BY <1>1 DEF AnswerSchema, CreateResponse, SyncResponse
<1>3. v = [path |-> q]
  BY <1>1 DEF AnswersTo
<1>4. q = IF c.op = "create" /\ FlagsArgument(c) >= 2 THEN p \o Digits ELSE p
  BY <1>1 DEF IsRequest, AnswerPath, OpCode
<1>5. q \in Seq(Int)
  BY <1>4, DigitsAre
<1>6. FitsMember(Str("path"), q) /\ Str("path").kind # "Bool" /\ Str("path").name = "path"
  BY <1>5 DEF FitsMember, FitsScalar, Str
<1>7. v = [n \in {Str("path").name} |-> q]
  BY <1>3, <1>6
<1>8. AreFields(<<Str("path")>>, Members)
  BY CreateResponseFields, PlainFieldsAre DEF CreateResponse
<1> HIDE DEF q
<1>9. Carries(<<Str("path")>>, v)
  BY <1>6, <1>7, <1>8, OneField
<1>10. IsReadAs(c, p, r.header.type)
  BY <1>2 DEF IsReadAs, OperationOf, zoo_acreate, zoo_async, Operation, ReplySchema, CreateResponse
<1>11. Answers(v, c, p)
  BY <1>3, <1>4 DEF Answers, IsSequence
<1> QED
  BY <1>2, <1>9, <1>10, <1>11

\* The answer to a get_children.
LEMMA GetChildrenAnswers ==
    ASSUME NEW c \in Calls, c.op = "get_children", NEW p \in Seq(Int), NEW r,
           IsRequest(r, c, p), NEW v \in AnswersTo(r)
    PROVE  /\ Carries(AnswerSchema(r.header.type), v) /\ Answers(v, c, p)
           /\ IsReadAs(c, p, r.header.type)
<1> DEFINE f == Vec("children", String_vector)
<1>1. r.header.type = 8 /\ AnswerSchema(8) = <<f>>
  BY DEF IsRequest, OpCode, AnswerSchema, GetChildrenResponse
<1>2. PICK s \in Stored.children : v = [children |-> s]
  BY <1>1 DEF AnswersTo
<1>3. s \in Seq(Elements(String_vector))
  <2> DEFINE C == [data : Seq(Int)]
             E == Elements(String_vector)
  <2>1. s \in Seq(C)
    BY StoredAssumption
  <2>2. C \subseteq E
    BY ChildrenAreElements
  <2> HIDE DEF C, E
  <2>3. s \in Seq(E)
    BY <2>1, <2>2, SeqOfPart
  <2> QED
    BY <2>3 DEF E
<1>4. f.kind # "Bool" /\ f.name = "children" /\ FitsMember(f, s)
  BY <1>3 DEF Vec, FitsMember
<1>5. v = [n \in {f.name} |-> s]
  BY <1>2, <1>4
<1>6. AreFields(<<f>>, Members)
  BY GetChildrenResponseFields DEF GetChildrenResponse
<1>7. IsReadAs(c, p, 8)
  BY <1>1 DEF IsReadAs, OperationOf, zoo_awget_children, Operation, ReplySchema, GetChildrenResponse
<1> HIDE DEF f
<1>8. Carries(<<f>>, v)
  BY <1>4, <1>5, <1>6, OneField
<1> QED
  BY <1>1, <1>7, <1>8 DEF Answers

\* The answer to a set, an exists, a set_acl or a delete.
LEMMA StatAnswers ==
    ASSUME NEW c \in Calls, c.op \in {"set", "exists", "set_acl", "delete"}, NEW p \in Seq(Int),
           NEW r, IsRequest(r, c, p), NEW v \in AnswersTo(r)
    PROVE  /\ Carries(AnswerSchema(r.header.type), v) /\ Answers(v, c, p)
           /\ IsReadAs(c, p, r.header.type)
<1>1. Answers(v, c, p)
  BY DEF Answers
<1>2. CASE c.op = "delete"
  <2>1. r.header.type = 2 /\ AnswerSchema(2) = <<>> /\ v = <<>>
    BY <1>2 DEF IsRequest, OpCode, AnswerSchema, AnswersTo
  <2> QED
    BY <1>1, <1>2, <2>1, NoField DEF IsReadAs
<1>3. CASE c.op # "delete"
  <2>1. r.header.type = (IF c.op = "set" THEN 5 ELSE IF c.op = "exists" THEN 3 ELSE 7)
    BY <1>3 DEF IsRequest, OpCode
  <2>2. AnswerSchema(r.header.type) = Stat
    BY <2>1 DEF AnswerSchema, SetDataResponse, ExistsResponse, SetACLResponse
  <2>3. v = StatRecord
    BY <2>1 DEF AnswersTo
  <2>4. IsReadAs(c, p, r.header.type)
    BY <2>2 DEF IsReadAs, OperationOf, zoo_aset, zoo_awexists, Operation, ReplySchema,
                SetDataResponse
  <2> QED
    BY <1>1, <2>2, <2>3, <2>4, StatCarries
<1> QED
  BY <1>2, <1>3

\* The answer to any call.
LEMMA AnswerCarries ==
    ASSUME NEW c \in Calls, NEW p \in Seq(Int), NEW r, IsRequest(r, c, p), NEW v \in AnswersTo(r)
    PROVE  /\ Carries(AnswerSchema(r.header.type), v) /\ Answers(v, c, p)
           /\ IsReadAs(c, p, r.header.type)
<1>1. c.op \in {"create", "delete", "exists", "get", "set", "get_acl", "set_acl",
                "get_children", "sync"}
  BY CallHas
<1> QED
  BY <1>1, GetAnswers, GetAclAnswers, PathAnswers, GetChildrenAnswers, StatAnswers

-----------------------------------------------------------------------------
(* What the application gets.                                              *)

\* IsRight, of an outcome o.
RightOf(c, o) ==
    IF served.err = 0
    THEN /\ o.how = (IF c.mode = "sync" THEN "returned" ELSE "callback")
         /\ o.rc = ZOK /\ o.value = Value(c)
    ELSE /\ o.rc = served.err
         /\ IF c.mode = "async" THEN o.how = "callback"
            ELSE IF c.op = "exists" /\ served.err = ZNONODE
            THEN o = Outcome("returned", ZNONODE, NULL)
            ELSE o.how = "raised" /\ Tells(o.value, served.err)

\* None of the reasons why an answer does not get through.
GetsThrough(c) ==
    ~DataIsCut(c) /\ ~DataHasNul(c) /\ ~PathIsOfServer(c) /\ ~NoRoomForDigits(c) /\ ~OnlyFirstAcl(c)

\* The completion of a call.
LEMMA CompletionOf ==
    ASSUME NEW c \in Calls, NEW p
    PROVE  OperationOf(c, p).completion =
              (IF c.op = "get" THEN "DATA" ELSE IF c.op \in {"set", "exists"} THEN "STAT"
               ELSE IF c.op \in {"create", "sync"} THEN "STRING"
               ELSE IF c.op = "get_children" THEN "STRINGLIST"
               ELSE IF c.op = "get_acl" THEN "ACLLIST" ELSE "VOID")
<1>1. c.op \in {"create", "delete", "exists", "get", "set", "get_acl", "set_acl",
                "get_children", "sync"}
  BY CallHas
<1> QED
  BY <1>1 DEF OperationOf, Operation, zoo_awget, zoo_aset, zoo_acreate, zoo_adelete,
              zoo_awexists, zoo_awget_children, zoo_async, zoo_aget_acl, zoo_aset_acl

\* The path of a create is as long as the room for it.
LEMMA PathFits ==
    ASSUME NEW c \in Calls, c.op = "create", c.sequence # "truthy", NEW v,
           v = [path |-> v.path], v.path = IF IsSequence(c) THEN c.path \o Digits ELSE c.path
    PROVE  [v EXCEPT !.path = CopiedPath(v.path, PathRoom(c))] = v
<1> DEFINE q == v.path
           n == Len(q)
<1>1. c.path \in Seq(Int) /\ c.sequence \in {"no", "true"} /\ c.ephemeral \in BOOLEAN
  BY CallHas
<1>2. IsSequence(c) <=> c.sequence = "true"
  <2>1. FlagsArgument(c) >= 2 <=> c.sequence # "no"
    BY <1>1 DEF FlagsArgument
  <2> QED
    BY <1>1, <2>1 DEF IsSequence
<1>3. q \in Seq(Int) /\ n \in Nat /\ PathRoom(c) = n + 1
  <2>1. Digits \in Seq(Int) /\ Len(Digits) = SeqDigits /\ SeqDigits \in Nat
    BY DigitsAre
  <2>2. Len(c.path) \in Nat
    BY <1>1
  <2>3. CASE IsSequence(c)
    <3>1. q = c.path \o Digits
      BY <2>3
    <3> HIDE DEF q
    <3>2. q \in Seq(Int) /\ Len(q) = Len(c.path) + SeqDigits
      <4>1. \A s, t \in Seq(Int) : s \o t \in Seq(Int) /\ Len(s \o t) = Len(s) + Len(t)
        OBVIOUS
      <4>2. c.path \o Digits \in Seq(Int) /\ Len(c.path \o Digits) = Len(c.path) + Len(Digits)
        BY <1>1, <2>1, <4>1
      <4> QED
        BY <2>1, <3>1, <4>2
    <3>3. PathRoom(c) = Len(c.path) + 1 + SeqDigits
      BY <1>2, <2>3 DEF PathRoom
    <3> QED
      BY <2>1, <2>2, <3>2, <3>3
  <2>4. CASE ~IsSequence(c)
    <3>1. q = c.path
      BY <2>4
    <3> HIDE DEF q
    <3>2. PathRoom(c) = Len(c.path) + 1 + 0
      BY <1>2, <2>4 DEF PathRoom
    <3> QED
      BY <1>1, <2>2, <3>1, <3>2
  <2> QED
    BY <2>3, <2>4
<1> HIDE DEF q
<1>4. Least(n + 1, n + 1) - 1 = n
  BY <1>3 DEF Least
<1>5. CopiedPath(q, PathRoom(c)) = q
  BY <1>3, <1>4 DEF CopiedPath
<1> QED
  BY <1>5 DEF q

\* The data of a get that has room for it.
LEMMA DataFits ==
    ASSUME NEW v, v = [n \in DOMAIN v |-> v[n]], "data" \in DOMAIN v, v.data \in Seq(Int),
           ~(Len(v.data) > GetRoom)
    PROVE  [v EXCEPT !.data = SubSeq(v.data, 1, Least(Len(v.data), GetRoom))] = v
<1> DEFINE s == v.data
<1>1. Len(s) \in Nat /\ GetRoom \in Nat
  BY BoundsAssumption
<1>2. Least(Len(s), GetRoom) = Len(s)
  BY <1>1 DEF Least
<1>3. SubSeq(s, 1, Len(s)) = s
  OBVIOUS
<1> QED
  BY <1>2, <1>3

\* A string without a '\0'.
LEMMA UpToNulIs ==
    ASSUME NEW s \in Seq(Int), ~\E i \in DOMAIN s : s[i] = 0
    PROVE  UpToNul(s) = s
<1>1. {i \in DOMAIN s : \E j \in 1 .. i : s[j] = 0} = {}
  OBVIOUS
<1>2. Cardinality({}) = 0
  BY FS_EmptySet
<1>3. Len(s) - 0 = Len(s) /\ SubSeq(s, 1, Len(s)) = s
  OBVIOUS
<1> QED
  BY <1>1, <1>2, <1>3 DEF UpToNul

\* A list of equal ACLs is shown as it is.
LEMMA AclsAre ==
    ASSUME NEW s \in Seq(Acls), ~\E i \in DOMAIN s : s[i] # s[1]
    PROVE  AclsOf(s) = s
<1>1. s = [i \in DOMAIN s |-> s[i]]
  OBVIOUS
<1> QED
  BY <1>1 DEF AclsOf

\* An answer that gets through a synchronous call.
LEMMA SyncIsTold ==
    ASSUME NEW c \in Calls, c.mode = "sync", GetsThrough(c), NEW e,
           e.completion = OperationOf(c, c.path).completion,
           Answers(served.value, c, PathOf(c)), NEW v,
           c.op \notin {"delete", "set_acl"} => v = served.value
    PROVE  Completed(c, e, 0, v) = Outcome("returned", ZOK, Value(c))
<1> DEFINE w == SyncResult(c, e.completion, v)
<1>1. Completed(c, e, 0, v) = RubyReturns(c, w)
  BY DEF Completed, RubySync, SyncValue, ZOK
<1>2. c.op \in {"create", "delete", "exists", "get", "set", "get_acl", "set_acl",
                "get_children"}
  BY CallHas
<1>3. CASE c.op = "get"
  <2>1. v = served.value /\ e.completion = "DATA"
    BY <1>3, CompletionOf
  <2>2. v.data # NULL /\ ~(Len(v.data) > GetRoom)
    BY <1>3, <2>1 DEF GetsThrough, DataIsCut
  <2>3. v = [n \in DOMAIN v |-> v[n]] /\ "data" \in DOMAIN v /\ v.data \in Seq(Int)
    BY <1>3, <2>1, <2>2 DEF Answers
  <2>4. w = v
    BY <2>1, <2>2, <2>3, DataFits DEF SyncResult
  <2> QED
    BY <1>1, <1>3, <2>1, <2>2, <2>4 DEF RubyReturns, Value
<1>4. CASE c.op = "create"
  <2>1. v = served.value /\ e.completion = "STRING"
    BY <1>4, CompletionOf
  <2>2. chroot = NoPath /\ c.sequence # "truthy"
    BY <1>4 DEF GetsThrough, PathIsOfServer, NoRoomForDigits
  <2>3. PathOf(c) = c.path
    BY <2>2 DEF PathOf, prepend_string
  <2>4. v.path = (IF IsSequence(c) THEN c.path \o Digits ELSE c.path) /\ v = [path |-> v.path]
    BY <1>4, <2>1, <2>3 DEF Answers
  <2>5. w = v
    BY <1>4, <2>1, <2>2, <2>4, PathFits DEF SyncResult
  <2> QED
    BY <1>1, <1>4, <2>4, <2>5 DEF RubyReturns, Value
<1>5. CASE c.op \in {"exists", "get_children", "get_acl"}
  <2>1. v = served.value /\ e.completion \in {"STAT", "STRINGLIST", "ACLLIST"}
    BY <1>5, CompletionOf
  <2>2. w = v
    BY <2>1 DEF SyncResult
  <2>3. CASE c.op = "get_acl"
    <3>1. AclsOf(v.acl) = v.acl
      BY <2>1, <2>3, AclsAre DEF GetsThrough, OnlyFirstAcl, Answers
    <3> QED
      BY <1>1, <2>1, <2>2, <2>3, <3>1 DEF RubyReturns, Value
  <2>4. CASE c.op = "exists"
    BY <1>1, <2>1, <2>2, <2>4 DEF RubyReturns, Value
  <2>5. CASE c.op = "get_children"
    BY <1>1, <2>1, <2>2, <2>5 DEF RubyReturns, Value, StringsOf
  <2> QED
    BY <1>5, <2>3, <2>4, <2>5
<1>6. CASE c.op \in {"delete", "set", "set_acl"}
  BY <1>1, <1>6 DEF RubyReturns, Value
<1> QED
  BY <1>2, <1>3, <1>4, <1>5, <1>6

\* An answer that gets through a callback.
LEMMA AsyncIsTold ==
    ASSUME NEW c \in Calls, c.mode = "async", GetsThrough(c), NEW e, e.xid # PING_XID,
           Answers(served.value, c, PathOf(c)), NEW v,
           c.op \notin {"delete", "set_acl"} => v = served.value
    PROVE  Completed(c, e, 0, v) = Outcome("callback", ZOK, Value(c))
<1>1. Completed(c, e, 0, v) = RubyCallback(c, 0, v)
  BY DEF Completed
<1>2. c.op \in {"create", "delete", "exists", "get", "set", "get_acl", "set_acl",
                "get_children", "sync"}
  BY CallHas
<1>3. CASE c.op = "get"
  <2>1. v = served.value
    BY <1>3
  <2>2. v.data = NULL \/ (v.data \in Seq(Int) /\ UpToNul(v.data) = v.data)
    BY <1>3, <2>1, UpToNulIs DEF Answers, GetsThrough, DataHasNul
  <2>3. (IF v.data = NULL THEN NULL ELSE UpToNul(v.data)) = v.data
    BY <2>2
  <2> QED
    BY <1>1, <1>3, <2>1, <2>3 DEF RubyCallback, Value, ZOK
<1>4. CASE c.op \in {"create", "sync"}
  <2>1. v = served.value /\ PathOf(c) = c.path
    BY <1>4 DEF GetsThrough, PathIsOfServer, PathOf, prepend_string
  <2>2. v.path = IF c.op = "create" /\ IsSequence(c) THEN c.path \o Digits ELSE c.path
    BY <1>4, <2>1 DEF Answers
  <2> QED
    BY <1>1, <1>4, <2>2 DEF RubyCallback, Value, ZOK
<1>5. CASE c.op \in {"set", "exists"}
  BY <1>1, <1>5 DEF RubyCallback, Value, ZOK
<1>6. CASE c.op = "get_children"
  BY <1>1, <1>6 DEF RubyCallback, Value, StringsOf, ZOK
<1>7. CASE c.op = "get_acl"
  <2>1. v = served.value
    BY <1>7
  <2>2. AclsOf(v.acl) = v.acl
    BY <1>7, <2>1, AclsAre DEF GetsThrough, OnlyFirstAcl, Answers
  <2> QED
    BY <1>1, <1>7, <2>1, <2>2 DEF RubyCallback, Value, ZOK
<1>8. CASE c.op \in {"delete", "set_acl"}
  BY <1>1, <1>8 DEF RubyCallback, Value, ZOK
<1> QED
  BY <1>2, <1>3, <1>4, <1>5, <1>6, <1>7, <1>8

\* Two codes have no class in common but the one of the codes without a class.
LEMMA CodesDiffer ==
    ASSUME NEW rc, by_code(rc) # "Exception", NEW other, by_code(other) = by_code(rc)
    PROVE  other = rc
BY DEF by_code

\* An error is told.
LEMMA ErrorIsTold ==
    ASSUME NEW c \in Calls, c.mode # "wrong", served.err # 0, ~HasNoClass(c), NEW e,
           c.mode = "async" => e.xid # PING_XID, NEW v
    PROVE  RightOf(c, Completed(c, e, served.err, v))
<1> DEFINE rc == served.err
<1>1. CASE c.mode = "sync"
  <2>1. Completed(c, e, rc, v) = IF c.op = "exists" /\ rc = ZNONODE
                                 THEN Outcome("returned", rc, NULL) ELSE Raised(rc)
    BY <1>1 DEF Completed, RubySync, ZOK
  <2>2. Tells(by_code(rc), rc)
    BY <1>1, CodesDiffer DEF HasNoClass, Tells
  <2>3. Raised(rc).rc = rc /\ Raised(rc).how = "raised" /\ Raised(rc).value = by_code(rc)
    BY DEF Raised, Outcome
  <2>4. Outcome("returned", rc, NULL).rc = rc
    BY DEF Outcome
  <2> QED
    BY <1>1, <2>1, <2>2, <2>3, <2>4 DEF RightOf
<1>2. CASE c.mode = "async"
  <2>1. Completed(c, e, rc, v) = Outcome("callback", rc, NULL)
    BY <1>2 DEF Completed, RubyCallback, ZOK
  <2> QED
    BY <1>2, <2>1 DEF RightOf, Outcome
<1>3. c.mode \in {"sync", "async"}
  BY CallHas
<1> QED
  BY <1>1, <1>2, <1>3

\* What was sent, as the server finds it.
LEMMA RequestFound ==
    ASSUME IsChroot(chroot), SentInv
    PROVE  /\ IsRequest(RequestIn(frame), call, PathOf(call))
           /\ RequestIn(frame).header.xid = entry.xid /\ entry.xid \in Int
           /\ entry.completion = OperationOf(call, PathOf(call)).completion
           /\ call \in Calls /\ call.mode # "wrong"
           /\ PathOf(call) \in Seq(Int) /\ PathOf(call) \in Seq(Int \ {0})
<1> DEFINE op == OperationOf(call, PathOf(call))
           r == RequestIn(frame)
<1>1. /\ Writes(call, PathOf(call), op) /\ Asks(call, PathOf(call), op.body)
      /\ r = [header |-> [xid |-> entry.xid, type |-> op.type], body |-> op.body,
              rc |-> 0, whole |-> TRUE]
      /\ entry.xid \in Int /\ entry.completion = op.completion
  BY SentIsRead DEF FoundIn
<1>2. call.op = "create" => "flags" \in DOMAIN op.body
  BY DEF OperationOf, zoo_acreate, Operation
<1>3. call \in Calls /\ call.mode # "wrong"
  BY DEF SentInv
<1> HIDE DEF op, r
<1>4. IsRequest(r, call, PathOf(call)) /\ r.header.xid = entry.xid
  BY <1>1, <1>2 DEF IsRequest, Writes, Asks
<1> QED
  BY <1>1, <1>3, <1>4, CallPath DEF op, r

\* The server answered the request with a value or with an error.
HeadingOf(err) == Encode(ReplyHeader, Heading(RequestIn(frame).header.xid, 7, err))

ReplyInv ==
    LET r == RequestIn(frame) IN
    \/ \E v \in AnswersTo(r) :
          /\ served = [err |-> 0, value |-> v]
          /\ reply = HeadingOf(0) \o Encode(AnswerSchema(r.header.type), v)
    \/ \E err \in Stored.errors :
          /\ served = [err |-> err, value |-> NULL]
          /\ reply = HeadingOf(err)

\* What is read of the reply.
LEMMA ReplyTells ==
    ASSUME IsChroot(chroot), SentInv, ReplyInv
    PROVE  LET h == Deserialize(reply, 0, ReplyHeader)
               v == Deserialize(reply, h.off, ReplySchema(entry.completion)).val
           IN  /\ h.val.xid = entry.xid /\ h.val.err = served.err
               /\ served.err = 0 => /\ Answers(served.value, call, PathOf(call))
                                    /\ call.op \notin {"delete", "set_acl"} => v = served.value
<1> DEFINE r == RequestIn(frame)
           p == PathOf(call)
           h == Deserialize(reply, 0, ReplyHeader)
           read == Deserialize(reply, h.off, ReplySchema(entry.completion)).val
<1>1. /\ IsRequest(r, call, p) /\ r.header.xid = entry.xid /\ entry.xid \in Int
      /\ entry.completion = OperationOf(call, p).completion
      /\ call \in Calls /\ p \in Seq(Int)
  BY RequestFound
<1> HIDE DEF p
<1>2. ASSUME NEW err \in Int
      PROVE  LET g == Heading(r.header.xid, 7, err) IN
             Carries(ReplyHeader, g) /\ g.xid = entry.xid /\ g.err = err
  BY <1>1, HeadingCarries DEF Heading
<1>3. ASSUME NEW v \in AnswersTo(r), served = [err |-> 0, value |-> v],
             reply = HeadingOf(0) \o Encode(AnswerSchema(r.header.type), v)
      PROVE  /\ h.val.xid = entry.xid /\ h.val.err = 0 /\ Answers(v, call, p)
             /\ call.op \notin {"delete", "set_acl"} => read = v
  <2> DEFINE g == Heading(r.header.xid, 7, 0)
             schema == AnswerSchema(r.header.type)
  <2>1. Carries(ReplyHeader, g) /\ g.xid = entry.xid /\ g.err = 0
    BY <1>2
  <2>2. Carries(schema, v) /\ Answers(v, call, p) /\ IsReadAs(call, p, r.header.type)
    BY <1>1, AnswerCarries
  <2>3. reply = Encode(ReplyHeader, g) \o Encode(schema, v)
    BY <1>3 DEF HeadingOf
  <2> HIDE DEF g, schema
  <2>4. h.val = g /\ Deserialize(reply, h.off, schema).val = v
    <3>1. ReadsBehind(reply, g, schema, v)
      BY <2>1, <2>2, <2>3, ReplyIsRead
    <3> QED
      BY <3>1 DEF ReadsBehind
  <2>5. call.op \notin {"delete", "set_acl"} => ReplySchema(entry.completion) = schema
    BY <1>1, <2>2 DEF IsReadAs, schema
  <2> QED
    BY <2>1, <2>2, <2>4, <2>5
<1>4. ASSUME NEW err \in Stored.errors, reply = HeadingOf(err)
      PROVE  h.val.xid = entry.xid /\ h.val.err = err /\ err # 0
  <2> DEFINE g == Heading(r.header.xid, 7, err)
  <2>1. err \in Int /\ err # 0
    BY StoredAssumption
  <2>2. Carries(ReplyHeader, g) /\ g.xid = entry.xid /\ g.err = err
    BY <1>2, <2>1
  <2>3. reply = Encode(ReplyHeader, g)
    BY <1>4 DEF HeadingOf
  <2> HIDE DEF g
  <2>4. h.val = g
    BY <2>2, <2>3, HeadingIsRead
  <2> QED
    BY <2>1, <2>2, <2>4
<1> HIDE DEF h, read
<1>5. CASE \E v \in AnswersTo(r) : /\ served = [err |-> 0, value |-> v]
                                   /\ reply = HeadingOf(0) \o Encode(AnswerSchema(r.header.type), v)
  <2>1. PICK v \in AnswersTo(r) : /\ served = [err |-> 0, value |-> v]
                                  /\ reply = HeadingOf(0) \o Encode(AnswerSchema(r.header.type), v)
    BY <1>5
  <2>2. served.err = 0 /\ served.value = v
    BY <2>1
  <2> QED
    BY <1>3, <2>1, <2>2 DEF h, p, read
<1>6. CASE \E err \in Stored.errors : /\ served = [err |-> err, value |-> NULL]
                                      /\ reply = HeadingOf(err)
  <2>1. PICK err \in Stored.errors : /\ served = [err |-> err, value |-> NULL]
                                     /\ reply = HeadingOf(err)
    BY <1>6
  <2>2. served.err = err
    BY <2>1
  <2> QED
    BY <1>4, <2>1, <2>2 DEF h
<1> QED
  BY <1>5, <1>6 DEF ReplyInv

\* Every reason that AnswerReachesCaller allows for.
Excused(c) ==
    \/ HasReservedXid(c)
    \/ served.err = 0 /\ \/ DataIsCut(c) \/ DataHasNul(c) \/ PathIsOfServer(c)
                         \/ NoRoomForDigits(c) \/ OnlyFirstAcl(c)
    \/ served.err # 0 /\ HasNoClass(c)

\* An answer is told as it is, or there is a reason.
LEMMA AnswerIsTold ==
    ASSUME IsChroot(chroot), SentInv, ReplyInv, ReadReply
    PROVE  RightOf(call, outcome') \/ Excused(call)
<1> DEFINE h == Deserialize(reply, 0, ReplyHeader)
           v == Deserialize(reply, h.off, ReplySchema(entry.completion)).val
<1>1. outcome' = IF h.val.xid \in ReservedXids \ {PING_XID}
                 THEN Outcome("never", h.val.err, NULL)
                 ELSE Completed(call, entry, h.val.err, v)
  BY DEF ReadReply
<1>2. /\ h.val.xid = entry.xid /\ h.val.err = served.err
      /\ served.err = 0 => /\ Answers(served.value, call, PathOf(call))
                           /\ call.op \notin {"delete", "set_acl"} => v = served.value
  BY ReplyTells
<1>3. /\ call \in Calls /\ call.mode \in {"sync", "async"}
      /\ entry.completion = OperationOf(call, PathOf(call)).completion
  BY RequestFound, CallHas
<1> HIDE DEF h, v
<1> SUFFICES ASSUME ~Excused(call) PROVE RightOf(call, outcome')
  OBVIOUS
<1>4. entry.xid \notin ReservedXids \ {PING_XID} /\ (call.mode = "async" => entry.xid # PING_XID)
  BY <1>3 DEF Excused, HasReservedXid, ReservedXids
<1>5. outcome' = Completed(call, entry, served.err, v)
  BY <1>1, <1>2, <1>4
<1>6. CASE served.err # 0
  <2>1. ~HasNoClass(call)
    BY <1>6 DEF Excused
  <2>2. call.mode # "wrong"
    BY <1>3
  <2>3. RightOf(call, Completed(call, entry, served.err, v))
    BY <1>3, <1>4, <1>6, <2>1, <2>2, ErrorIsTold
  <2> QED
    BY <1>5, <2>3
<1>7. CASE served.err = 0
  <2>1. GetsThrough(call)
    BY <1>7 DEF Excused, GetsThrough
  <2>2. /\ Answers(served.value, call, PathOf(call))
        /\ call.op \notin {"delete", "set_acl"} => v = served.value
    BY <1>2, <1>7
  <2>3. OperationOf(call, PathOf(call)).completion = OperationOf(call, call.path).completion
    BY <1>3, CompletionOf
  <2>4. CASE call.mode = "sync"
    <3>1. entry.completion = OperationOf(call, call.path).completion
      BY <1>3, <2>3
    <3>2. Completed(call, entry, 0, v) = Outcome("returned", ZOK, Value(call))
      BY <1>3, <2>1, <2>2, <2>4, <3>1, SyncIsTold
    <3> QED
      BY <1>5, <1>7, <2>4, <3>2 DEF RightOf, Outcome
  <2>5. CASE call.mode = "async"
    <3>1. Completed(call, entry, 0, v) = Outcome("callback", ZOK, Value(call))
      BY <1>3, <1>4, <2>1, <2>2, <2>5, AsyncIsTold
    <3> QED
      BY <1>5, <1>7, <2>5, <3>1 DEF RightOf, Outcome
  <2> QED
    BY <1>3, <2>4, <2>5
<1> QED
  BY <1>6, <1>7

\* The chroot is taken off the path that was prefixed with it.
LEMMA ChrootComesOff ==
    ASSUME IsChroot(chroot), NEW c \in Calls, ~IsSequence(c), ~LeavesChroot(c)
    PROVE  sub_string(chroot, PathOf(c)) = c.path
<1> DEFINE p == c.path
           ch == chroot
<1>1. p \in Seq(Int \ {0})
  BY CallHas
<1>2. CASE ch = NoPath
  BY <1>2 DEF sub_string, PathOf, prepend_string
<1>3. CASE ch # NoPath
  <2>1. ch \in Seq(Int \ {0}) /\ Len(ch) \in Nat /\ Len(ch) >= 2 /\ Len(p) \in Nat
    <3>1. ch \in Seq(Int \ {0}) /\ Len(ch) >= 2
      BY <1>3 DEF IsChroot
    <3>2. \A s \in Seq(Int \ {0}) : Len(s) \in Nat
      OBVIOUS
    <3> QED
      BY <1>1, <3>1, <3>2
  <2>2. p # <<>> /\ p[1] = Slash
    BY <1>3 DEF LeavesChroot
  <2>3. CASE Len(p) = 1
    <3>1. PathOf(c) = ch
      BY <1>3, <2>3 DEF PathOf, prepend_string
    <3>2. p = <<Slash>>
      BY <1>1, <2>2, <2>3
    <3> QED
      BY <1>3, <3>1, <3>2 DEF sub_string
  <2>4. CASE Len(p) # 1
    <3> DEFINE q == ch \o p
    <3>1. PathOf(c) = q
      BY <1>3, <2>4 DEF PathOf, prepend_string
    <3>2. /\ q \in Seq(Int \ {0}) /\ Len(q) = Len(ch) + Len(p) /\ q[1] = ch[1]
          /\ SubSeq(q, Len(ch) + 1, Len(ch) + Len(p)) = p
      <4>1. ASSUME NEW s \in Seq(Int \ {0}), NEW t \in Seq(Int \ {0}), Len(s) >= 1
            PROVE  /\ s \o t \in Seq(Int \ {0}) /\ Len(s \o t) = Len(s) + Len(t)
                   /\ (s \o t)[1] = s[1]
                   /\ SubSeq(s \o t, Len(s) + 1, Len(s) + Len(t)) = t
        BY <4>1
      <4> QED
        BY <1>1, <2>1, <4>1
    <3> HIDE DEF q, p
    <3>3. Len(p) # 0
      BY <1>1, <2>2 DEF p
    <3>4. Len(q) # Len(ch) /\ 1 <= Len(q) /\ 1 <= Len(ch)
      BY <2>1, <3>2, <3>3
    <3>5. At(q, 1) = At(ch, 1)
      BY <3>2, <3>4 DEF At
    <3>6. sub_string(ch, q) = SubSeq(q, Len(ch) + 1, Len(q))
      BY <1>3, <3>4, <3>5 DEF sub_string
    <3> QED
      BY <3>1, <3>2, <3>6 DEF p
  <2> QED
    BY <2>3, <2>4
<1> QED
  BY <1>2, <1>3

\* The event of a watch names the path of its call.
LEMMA EventIsTold ==
    ASSUME IsChroot(chroot), SentInv, WatchFires
    PROVE  outcome'.value = call.path \/ LeavesChroot(call)
<1> DEFINE p == PathOf(call)
           e == [type |-> 3, state |-> 3, path |-> p]
           g == Heading(WATCHER_EVENT_XID, 8, 0)
           h == Deserialize(reply', 0, ReplyHeader)
<1>1. RequestIn(frame).body.path = p /\ p \in Seq(Int) /\ call \in Calls
  BY RequestFound DEF IsRequest
<1>2. call.op \in {"get", "exists", "get_children"}
  BY DEF WatchFires
<1>3. reply' = Encode(ReplyHeader, g) \o Encode(WatcherEvent, e)
  BY <1>1 DEF WatchFires, Heading
<1>4. outcome' = Outcome("event", ZOK,
                         sub_string(chroot, Deserialize(reply', h.off, WatcherEvent).val.path))
  BY DEF WatchFires
<1>5. Carries(ReplyHeader, g)
  BY HeadingCarries DEF WATCHER_EVENT_XID
<1> HIDE DEF p
<1>6. Carries(WatcherEvent, e)
  <2>1. FieldNames(WatcherEvent) = {"type", "state", "path"}
    BY DEF WatcherEvent, FieldNames, Int32, Str
  <2>2. FitsMember(Int32("type"), 3) /\ FitsMember(Int32("state"), 3) /\ FitsMember(Str("path"), p)
    BY <1>1 DEF FitsMember, FitsScalar, Int32, Str
  <2>3. FitsRecord(WatcherEvent, e)
    BY <2>1, <2>2 DEF WatcherEvent, FitsRecord, Int32, Str
  <2>4. FlagsAreBits(WatcherEvent, e)
    BY DEF FlagsAreBits, WatcherEvent, Int32, Str
  <2> QED
    BY <2>3, <2>4, WatcherEventFields, PlainFieldsAre DEF Carries
<1>7. e.path = p
  OBVIOUS
<1> HIDE DEF e, g
<1>8. ReadsBehind(reply', g, WatcherEvent, e)
  BY <1>3, <1>5, <1>6, ReplyIsRead
<1>9. outcome'.value = sub_string(chroot, p)
  BY <1>4, <1>7, <1>8 DEF ReadsBehind, Outcome
<1>10. ~IsSequence(call)
  BY <1>2 DEF IsSequence
<1> QED
  BY <1>1, <1>9, <1>10, ChrootComesOff DEF p

\* A call, its answer, and what is told of it.
AnswerInv == CallInv /\ (stage = "answered" => ReplyInv) /\ AnswerReachesCaller

\* It is so at the start.
LEMMA AnswerInvInit == Init => AnswerInv
BY CallInvInit DEF Init, AnswerInv, AnswerReachesCaller

\* Three steps tell something of an answer, the others come before it.
LEMMA AnswerInvNext == AnswerInv /\ [Next]_vars => AnswerInv'
<1> SUFFICES ASSUME AnswerInv, [Next]_vars PROVE AnswerInv'
  OBVIOUS
<1>1. CallInv'
  BY CallInvNext DEF AnswerInv
<1>2. ASSUME stage' \notin {"answered", "done", "notified"} PROVE AnswerInv'
  BY <1>1, <1>2 DEF AnswerInv, AnswerReachesCaller
<1>3. ASSUME NEW s \in Chroots, OpenHandle(s) PROVE AnswerInv'
  BY <1>2, <1>3 DEF OpenHandle
<1>4. ASSUME NEW c \in Calls, CallWithWrongCallback(c) \/ CallRefused(c) PROVE AnswerInv'
  <2>1. stage = "idle" /\ stage' = "done" /\ served' = served
    BY <1>4 DEF CallWithWrongCallback, CallRefused
  <2>2. served' = NULL
    BY <2>1 DEF AnswerInv, CallInv
  <2> QED
    BY <1>1, <2>1, <2>2 DEF AnswerInv, AnswerReachesCaller
<1>5. ASSUME NEW c \in Calls, CallSent(c) PROVE AnswerInv'
  BY <1>2, <1>5 DEF CallSent
<1>6. CASE ServerAnswers
  <2>1. stage' = "answered" /\ frame' = frame
    BY <1>6 DEF ServerAnswers
  <2> DEFINE r == RequestIn(frame)
             Given(v) == /\ served' = [err |-> 0, value |-> v]
                         /\ reply' = HeadingOf(0) \o Encode(AnswerSchema(r.header.type), v)
             Failed(err) == /\ served' = [err |-> err, value |-> NULL]
                            /\ reply' = HeadingOf(err)
  <2>2. (\E v \in AnswersTo(r) : Given(v)) \/ (\E err \in Stored.errors : Failed(err))
    BY <1>6 DEF ServerAnswers, HeadingOf, Heading
  <2>3. r' = r /\ \A err : HeadingOf(err)' = HeadingOf(err)
    BY <2>1 DEF HeadingOf
  <2>4. ReplyInv'
    BY <2>2, <2>3 DEF ReplyInv
  <2> QED
    BY <1>1, <2>1, <2>4 DEF AnswerInv, AnswerReachesCaller
<1>7. CASE ReadReply
  <2>1. /\ stage = "answered" /\ stage' = "done"
        /\ UNCHANGED <<chroot, call, entry, served>>
    BY <1>7 DEF ReadReply
  <2>2. RightOf(call, outcome') \/ Excused(call)
    BY <1>7, <2>1, AnswerIsTold DEF AnswerInv, CallInv
  <2>3. RightOf(call, outcome') => IsRight(call)'
    BY <2>1 DEF RightOf, IsRight, Value
  <2>4. Excused(call) => Excused(call)'
    BY <2>1 DEF Excused, HasReservedXid, DataIsCut, DataHasNul, PathIsOfServer, NoRoomForDigits,
                OnlyFirstAcl, HasNoClass
  <2> QED
    BY <1>1, <2>1, <2>2, <2>3, <2>4 DEF AnswerInv, AnswerReachesCaller, Excused
<1>8. CASE WatchFires
  <2>1. /\ stage = "done" /\ stage' = "notified" /\ served # NULL
        /\ UNCHANGED <<chroot, call>>
    BY <1>8 DEF WatchFires
  <2>2. IsChroot(chroot) /\ SentInv
    BY <2>1 DEF AnswerInv, CallInv, RefusedInv
  <2>3. outcome'.value = call.path \/ LeavesChroot(call)
    BY <1>8, <2>2, EventIsTold
  <2>4. LeavesChroot(call) => LeavesChroot(call)'
    BY <2>1 DEF LeavesChroot
  <2> QED
    BY <1>1, <2>1, <2>3, <2>4 DEF AnswerInv, AnswerReachesCaller
<1>9. ASSUME NEW s \in DOMAIN Schemas, NEW k \in 1 .. Variants, ExchangeRecord(s, k)
      PROVE  AnswerInv'
  BY <1>2, <1>9 DEF ExchangeRecord
<1>10. CASE UNCHANGED vars
  BY <1>1, <1>10 DEF AnswerInv, AnswerReachesCaller, ReplyInv, HeadingOf, IsRight, Value,
     HasReservedXid, DataIsCut, DataHasNul, PathIsOfServer, NoRoomForDigits, OnlyFirstAcl,
     HasNoClass, LeavesChroot, vars
<1> QED
  BY <1>3, <1>4, <1>5, <1>6, <1>7, <1>8, <1>9, <1>10 DEF Next

\* The application gets what the server answered, unless one of the named reasons keeps it
\* from it, and the event of its watch names the path it asked for: for any calls, chroots,
\* identifiers and answers.
\* (zookeeper_process, process_completions, sub_string, zookeeper.rb, callbacks.rb)
THEOREM AnswersReachCaller == Spec => []AnswerReachesCaller
<1>1. AnswerInv => AnswerReachesCaller
  BY DEF AnswerInv
<1> QED
  BY <1>1, AnswerInvInit, AnswerInvNext, PTL DEF Spec
=============================================================================
