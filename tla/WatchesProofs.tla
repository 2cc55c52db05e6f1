---------------------------- MODULE WatchesProofs ----------------------------
(***************************************************************************)
(* Theorems about Watches, for any paths, watchers and bounds: a watch     *)
(* fires once for each time it was left, only for news, and is never lost, *)
(* whatever the order of replies and events and however often the          *)
(* connection breaks.                                                      *)
(*                                                                         *)
(* The tree is seen through the log of its changes.  What the proofs say   *)
(* of the tree is said of a log l, so that it can be said of the log       *)
(* before and after a step; the server's operators of Watches are those    *)
(* with log for l.                                                         *)
(***************************************************************************)
EXTENDS Watches, SequenceTheorems, FiniteSetTheorems, WellFoundedInduction, TLAPS

-----------------------------------------------------------------------------
(* Numbers.                                                                *)

\* A set of numbers has a least element.  This is the induction principle of
\* the proofs: the least number that violates a claim leads to a contradiction.
LEMMA LeastNumber ==
    ASSUME NEW T, T \subseteq Nat, T # {}
    PROVE  \E x \in T : \A y \in T : x <= y
<1>1. PICK R : IsWellFoundedOn(R, Nat) /\ \A x, y \in Nat : x < y => <<x, y>> \in R
  <2>1. \A x, y \in Nat : x < y => <<x, y>> \in OpToRel(<, Nat)
    BY DEF OpToRel
  <2> QED
    BY <2>1, NatLessThanWellFounded, Zenon
<1>2. IsWellFoundedOn(R, Nat)
  BY <1>1
<1>3. PICK x \in T : \A y \in T : <<y, x>> \notin R
  BY <1>2, WFMin, Zenon
<1>4. ASSUME NEW y \in T PROVE x <= y
  <2>1. x \in Nat /\ y \in Nat
    OBVIOUS
  <2>2. ~(y < x)
    BY <2>1, <1>1, <1>3
  <2> QED
    BY <2>1, <2>2
<1> QED
  BY <1>4

\* A set of numbers that is bounded has a greatest element, which Max chooses.
LEMMA GreatestNumber ==
    ASSUME NEW T, T \subseteq Nat, T # {}, NEW n \in Nat, \A y \in T : y <= n
    PROVE  Max(T) \in T /\ \A y \in T : y <= Max(T)
<1> DEFINE Bounds == {b \in Nat : \A y \in T : y <= b}
<1>1. PICK x \in Bounds : \A b \in Bounds : x <= b
  <2>1. Bounds \subseteq Nat /\ n \in Bounds
    OBVIOUS
  <2> HIDE DEF Bounds
  <2> QED
    BY <2>1, LeastNumber
<1>2. x \in T
  <2> SUFFICES ASSUME x \notin T PROVE FALSE
    OBVIOUS
  <2>1. \A y \in T : y \in Nat /\ y <= x /\ y # x
    OBVIOUS
  <2>2. x # 0
    <3>1. PICK y \in T : TRUE
      OBVIOUS
    <3> QED
      BY <2>1, <3>1
  <2>3. x - 1 \in Bounds
    BY <2>1, <2>2
  <2> QED
    BY <1>1, <2>2, <2>3
<1>3. \E z \in T : \A y \in T : z >= y
  BY <1>2
<1> QED
  BY <1>3 DEF Max

-----------------------------------------------------------------------------
(* Queues.                                                                 *)

\* How many elements of a queue are in K.
Count(s, K) == Cardinality({i \in DOMAIN s : s[i] \in K})

\* The places of a queue are finitely many.
LEMMA CountType ==
    ASSUME NEW S, NEW s \in Seq(S), NEW K
    PROVE  IsFiniteSet({i \in DOMAIN s : s[i] \in K}) /\ Count(s, K) \in Nat
<1>1. DOMAIN s = 1 .. Len(s) /\ Len(s) \in Nat
  OBVIOUS
<1>2. IsFiniteSet(1 .. Len(s))
  BY <1>1, FS_Interval
<1>3. IsFiniteSet({i \in DOMAIN s : s[i] \in K})
  BY <1>1, <1>2, FS_Subset
<1> QED
  BY <1>3, FS_CardinalityType DEF Count

\* Nothing is in an empty queue.
LEMMA CountEmpty == \A K : Count(<<>>, K) = 0
<1> SUFFICES ASSUME NEW K PROVE Count(<<>>, K) = 0
  OBVIOUS
<1>1. {i \in DOMAIN <<>> : <<>>[i] \in K} = {}
  OBVIOUS
<1> QED
  BY <1>1, FS_EmptySet DEF Count

\* One more element.
LEMMA CountAppend ==
    ASSUME NEW S, NEW s \in Seq(S), NEW e \in S, NEW K
    PROVE  Count(Append(s, e), K) = IF e \in K THEN Count(s, K) + 1 ELSE Count(s, K)
<1> DEFINE A == {i \in DOMAIN s : s[i] \in K}
           B == {i \in DOMAIN Append(s, e) : Append(s, e)[i] \in K}
<1>1. IsFiniteSet(A) /\ Cardinality(A) \in Nat
  BY CountType DEF Count
<1>2. /\ DOMAIN s = 1 .. Len(s) /\ Len(s) \in Nat
      /\ DOMAIN Append(s, e) = 1 .. Len(s) + 1
      /\ \A i \in 1 .. Len(s) : Append(s, e)[i] = s[i]
      /\ Append(s, e)[Len(s) + 1] = e
  BY AppendProperties
<1>3. CASE e \in K
  <2>1. B = A \cup {Len(s) + 1} /\ Len(s) + 1 \notin A
    BY <1>2, <1>3
  <2> HIDE DEF A, B
  <2>2. Cardinality(B) = Cardinality(A) + 1
    BY <1>1, <2>1, FS_AddElement
  <2> QED
    BY <1>3, <2>2 DEF Count, A, B
<1>4. CASE e \notin K
  <2>1. B = A
    BY <1>2, <1>4
  <2> QED
    BY <1>4, <2>1 DEF Count
<1> QED
  BY <1>3, <1>4

\* The first element is taken out.
LEMMA CountTail ==
    ASSUME NEW S, NEW s \in Seq(S), s # <<>>, NEW K
    PROVE  Count(s, K) = IF Head(s) \in K THEN Count(Tail(s), K) + 1 ELSE Count(Tail(s), K)
<1> DEFINE A == {i \in DOMAIN s : s[i] \in K}
           B == {i \in DOMAIN Tail(s) : Tail(s)[i] \in K}
           f == [i \in B |-> i + 1]
<1>1. Tail(s) \in Seq(S)
  BY HeadTailProperties
<1>2. /\ DOMAIN s = 1 .. Len(s) /\ Len(s) \in Nat \ {0} /\ Head(s) = s[1]
      /\ DOMAIN Tail(s) = 1 .. Len(s) - 1
      /\ \A i \in 1 .. Len(s) - 1 : Tail(s)[i] = s[i + 1]
  BY HeadTailProperties, EmptySeq
<1>3. /\ IsFiniteSet(A) /\ Cardinality(A) \in Nat
      /\ IsFiniteSet(B) /\ Cardinality(B) \in Nat
  BY <1>1, CountType DEF Count
<1>4. f \in Bijection(B, A \ {1})
  <2>1. \A i \in B : i + 1 \in A \ {1}
    BY <1>2
  <2>2. \A j \in A \ {1} : j - 1 \in B /\ (j - 1) + 1 = j
    BY <1>2
  <2>3. \A i, j \in B : i + 1 = j + 1 => i = j
    BY <1>2
  <2>4. f \in [B -> A \ {1}]
    BY <2>1
  <2>5. f \in Injection(B, A \ {1})
    BY <2>3, <2>4 DEF Injection, IsInjective
  <2>6. f \in Surjection(B, A \ {1})
    BY <2>2, <2>4 DEF Surjection
  <2> QED
    BY <2>5, <2>6 DEF Bijection
<1>5. Cardinality(A \ {1}) = Cardinality(B)
  BY <1>3, <1>4, FS_Bijection DEF ExistsBijection
<1>6. 1 \in A <=> Head(s) \in K
  BY <1>2
<1> HIDE DEF A, B
<1>7. Cardinality(A \ {1}) = IF 1 \in A THEN Cardinality(A) - 1 ELSE Cardinality(A)
  BY <1>3, FS_RemoveElement
<1>8. Cardinality(A) = IF Head(s) \in K THEN Cardinality(B) + 1 ELSE Cardinality(B)
  BY <1>3, <1>5, <1>6, <1>7
<1> QED
  BY <1>8 DEF Count, A, B

\* A function on 1..n is a sequence.
LEMMA FunctionAsSequence ==
    ASSUME NEW S, NEW n \in Nat, NEW f \in [1 .. n -> S]
    PROVE  f \in Seq(S) /\ Len(f) = n
OBVIOUS

-----------------------------------------------------------------------------
(* Sets as sequences.                                                      *)

\* SetToSeq lists the elements of a finite set, and nothing else.
LEMMA SetAsSequence ==
    ASSUME NEW S, IsFiniteSet(S)
    PROVE  SetToSeq(S) \in Seq(S) /\ \A e \in S : \E i \in DOMAIN SetToSeq(S) : SetToSeq(S)[i] = e
<1> DEFINE n == Cardinality(S)
           s == SetToSeq(S)
<1>1. n \in Nat /\ \E f : f \in Bijection(1 .. n, S)
  BY FS_CardinalityType DEF ExistsBijection
<1>2. s \in [1 .. n -> S] /\ IsInjective(s)
  BY <1>1 DEF SetToSeq, Bijection, Injection
<1>3. Cardinality(1 .. n) = n /\ IsFiniteSet(1 .. n)
  BY <1>1, FS_Interval
<1> HIDE DEF n, s
<1>4. s \in Injection(1 .. n, S)
  BY <1>2 DEF Injection
<1>5. s \in Surjection(1 .. n, S)
  BY <1>3, <1>4, FS_Injection DEF n
<1>6. s \in Seq(S) /\ DOMAIN s = 1 .. n
  BY <1>1, <1>2
<1> QED
  BY <1>5, <1>6 DEF s, Surjection

\* The values of a function on a finite set.
LEMMA FiniteImage ==
    ASSUME NEW S, IsFiniteSet(S), NEW f, DOMAIN f = S
    PROVE  IsFiniteSet({f[x] : x \in S})
<1> DEFINE T == {f[x] : x \in S}
<1>1. f \in Surjection(S, T) \/ [x \in S |-> f[x]] \in Surjection(S, T)
  BY DEF Surjection
<1> QED
  BY <1>1, FS_Surjection

-----------------------------------------------------------------------------
(* The types.                                                              *)

\* What the server sends has the types of its frames.
LEMMA FrameTypes ==
    /\ \A type \in EventTypes, p \in Paths, z \in Nat : Event(type, p, z) \in Frames
    /\ \A rc \in {"ZOK", "ZNONODE"}, z \in Nat : Reply(rc, z) \in Frames
    /\ \A z \in Nat : [xid |-> "setWatches", zxid |-> z] \in Frames
BY DEF Event, Reply, Frames

\* What a frame is, by its xid.
LEMMA FrameFields ==
    ASSUME NEW f \in Frames
    PROVE  /\ f.xid \in {"watch", "reply", "setWatches"}
           /\ f.xid = "watch" => f.type \in EventTypes /\ f.path \in Paths /\ f.at \in Nat /\ f.zxid = -1
           /\ f.xid = "reply" => f.rc \in {"ZOK", "ZNONODE"}
           /\ f.xid # "watch" => f.zxid \in Nat
           /\ f.zxid > 0 => f.zxid \in Nat
BY DEF Frames

\* What is sent to the server, by its xid.
LEMMA ToServerFields ==
    ASSUME NEW f \in Requests \cup Renewals
    PROVE  /\ f.xid \in {"request", "setWatches"}
           /\ f.xid = "request" <=> f \in Requests
           /\ f.xid = "request" => f.op \in Ops /\ f.path \in Paths
           /\ f.xid = "setWatches" => /\ f.relativeZxid \in Nat /\ f.dataWatches \subseteq Paths
                                      /\ f.existWatches \subseteq Paths
                                      /\ f.childWatches \subseteq Paths
BY DEF Requests, Renewals

-----------------------------------------------------------------------------
(* The log.                                                                *)

Latest(l, p, kinds, z) == Max({0} \cup {i \in 1 .. z : l[i].path = p /\ l[i].kind \in kinds})

There(l, p, z) == Latest(l, p, {"create"}, z) > Latest(l, p, {"delete"}, z)

KindsOf(t) == IF t = "node" THEN {"create", "set", "delete"} ELSE {"create", "child", "delete"}

Touched(l, t, p, z, upto) ==
    IF t = "exist" THEN There(l, p, upto) ELSE Latest(l, p, KindsOf(t), upto) > z

\* The log of Watches.
LEMMA OwnLog ==
    ASSUME NEW p, NEW z
    PROVE  /\ \A kinds : LastChange(p, kinds, z) = Latest(log, p, kinds, z)
           /\ Exists(p, z) <=> There(log, p, z)
           /\ \A t, s : Concerns(t, p, s, z) <=> Touched(log, t, p, s, z)
<1>1. \A kinds : LastChange(p, kinds, z) = Latest(log, p, kinds, z)
  BY DEF LastChange, Latest
<1>2. Exists(p, z) <=> There(log, p, z)
  BY <1>1 DEF Exists, There
<1>3. ASSUME NEW t, NEW s
      PROVE  Concerns(t, p, s, z) <=> Touched(log, t, p, s, z)
  <2>1. CASE t = "exist"
    BY <2>1, <1>2 DEF Concerns, Touched
  <2>2. CASE t # "exist"
    BY <2>2, <1>1 DEF Concerns, Touched, KindsOf
  <2> QED
    BY <2>1, <2>2
<1> QED
  BY <1>1, <1>2, <1>3

\* The latest change of some kinds, up to z.
LEMMA LatestIs ==
    ASSUME NEW l, NEW p, NEW kinds, NEW z \in Nat
    PROVE  /\ Latest(l, p, kinds, z) \in 0 .. z
           /\ LET i == Latest(l, p, kinds, z)
              IN  i # 0 => l[i].path = p /\ l[i].kind \in kinds
           /\ \A i \in 1 .. z : l[i].path = p /\ l[i].kind \in kinds => i <= Latest(l, p, kinds, z)
<1> DEFINE T == {0} \cup {i \in 1 .. z : l[i].path = p /\ l[i].kind \in kinds}
<1>1. T \subseteq Nat /\ T # {} /\ \A y \in T : y <= z
  OBVIOUS
<1>2. Max(T) \in T /\ \A y \in T : y <= Max(T)
  <2> HIDE DEF T
  <2> QED
    BY <1>1, GreatestNumber
<1>3. Latest(l, p, kinds, z) = Max(T)
  BY DEF Latest
<1> HIDE DEF Latest
<1> QED
  BY <1>2, <1>3

\* Of more kinds, and up to more.
LEMMA LatestGrows ==
    ASSUME NEW l, NEW p, NEW K, NEW M, K \subseteq M, NEW z \in Nat, NEW u \in Nat, z <= u
    PROVE  /\ Latest(l, p, K, u) <= Latest(l, p, M, u)
           /\ Latest(l, p, K, z) <= Latest(l, p, K, u)
           /\ Latest(l, p, K, u) <= z => Latest(l, p, K, u) = Latest(l, p, K, z)
<1> DEFINE a == Latest(l, p, K, u)
           b == Latest(l, p, M, u)
           c == Latest(l, p, K, z)
<1>1. /\ a \in 0 .. u /\ (a # 0 => l[a].path = p /\ l[a].kind \in K)
      /\ \A i \in 1 .. u : l[i].path = p /\ l[i].kind \in K => i <= a
  BY LatestIs
<1>2. /\ b \in 0 .. u
      /\ \A i \in 1 .. u : l[i].path = p /\ l[i].kind \in M => i <= b
  BY LatestIs
<1>3. /\ c \in 0 .. z /\ (c # 0 => l[c].path = p /\ l[c].kind \in K)
      /\ \A i \in 1 .. z : l[i].path = p /\ l[i].kind \in K => i <= c
  BY LatestIs
<1> HIDE DEF a, b, c
<1>4. a <= b
  <2>1. a # 0 => a \in 1 .. u
    BY <1>1
  <2> QED
    BY <1>1, <1>2, <2>1
<1>5. c <= a
  <2>1. c # 0 => c \in 1 .. u
    BY <1>3
  <2> QED
    BY <1>1, <1>3, <2>1
<1>6. a <= z => a <= c
  <2>1. a # 0 /\ a <= z => a \in 1 .. z
    BY <1>1
  <2> QED
    BY <1>1, <1>3, <2>1
<1>7. a <= z => a = c
  BY <1>1, <1>3, <1>5, <1>6
<1> QED
  BY <1>4, <1>5, <1>7 DEF a, b, c

\* What is said of a log up to z does not depend on what comes behind.
LEMMA SameLog ==
    ASSUME NEW l, NEW k, NEW z \in Nat, \A i \in 1 .. z : l[i] = k[i]
    PROVE  /\ \A p : There(l, p, z) <=> There(k, p, z)
           /\ \A t, p, s : Touched(l, t, p, s, z) <=> Touched(k, t, p, s, z)
<1>1. ASSUME NEW p, NEW K
      PROVE  Latest(l, p, K, z) = Latest(k, p, K, z)
  <2>1. {i \in 1 .. z : l[i].path = p /\ l[i].kind \in K}
          = {i \in 1 .. z : k[i].path = p /\ k[i].kind \in K}
    OBVIOUS
  <2> QED
    BY <2>1 DEF Latest
<1>2. \A p : There(l, p, z) <=> There(k, p, z)
  BY <1>1 DEF There
<1> QED
  BY <1>1, <1>2 DEF Touched

\* The next change.
LEMMA LatestNext ==
    ASSUME NEW l, NEW p, NEW K, NEW z \in Nat
    PROVE  Latest(l, p, K, z + 1) =
              IF l[z + 1].path = p /\ l[z + 1].kind \in K THEN z + 1 ELSE Latest(l, p, K, z)
<1> DEFINE a == Latest(l, p, K, z)
           b == Latest(l, p, K, z + 1)
<1>1. /\ a \in 0 .. z /\ (a # 0 => l[a].path = p /\ l[a].kind \in K)
      /\ \A i \in 1 .. z : l[i].path = p /\ l[i].kind \in K => i <= a
  BY LatestIs
<1>2. /\ b \in 0 .. z + 1 /\ (b # 0 => l[b].path = p /\ l[b].kind \in K)
      /\ \A i \in 1 .. z + 1 : l[i].path = p /\ l[i].kind \in K => i <= b
  <2>1. z + 1 \in Nat
    OBVIOUS
  <2> QED
    BY <2>1, LatestIs
<1> HIDE DEF a, b
<1>3. CASE l[z + 1].path = p /\ l[z + 1].kind \in K
  <2>1. z + 1 \in 1 .. z + 1
    OBVIOUS
  <2>2. z + 1 <= b
    BY <1>2, <1>3, <2>1
  <2>3. b = z + 1
    BY <1>2, <2>2
  <2> QED
    BY <1>3, <2>3 DEF b
<1>4. CASE ~(l[z + 1].path = p /\ l[z + 1].kind \in K)
  <2>1. b # z + 1
    BY <1>2, <1>4
  <2>2. b <= a
    <3>1. b # 0 => b \in 1 .. z
      BY <1>2, <2>1
    <3> QED
      BY <1>1, <1>2, <3>1
  <2>3. a <= b
    <3>1. a # 0 => a \in 1 .. z + 1
      BY <1>1
    <3> QED
      BY <1>1, <1>2, <3>1
  <2>4. a = b
    BY <1>1, <1>2, <2>2, <2>3
  <2> QED
    BY <1>4, <2>4 DEF a, b
<1> QED
  BY <1>3, <1>4

\* A node that was there and is untouched is still there.
LEMMA Stays ==
    ASSUME NEW l, NEW p, NEW t \in {"node", "child"}, NEW z \in Nat, NEW u \in Nat, z <= u,
           There(l, p, z), ~Touched(l, t, p, z, u)
    PROVE  There(l, p, u)
<1> DEFINE K == KindsOf(t)
<1>1. {"create"} \subseteq K /\ {"delete"} \subseteq K
  BY DEF KindsOf
<1>2. Latest(l, p, K, u) <= z /\ Latest(l, p, K, u) \in Nat
  BY LatestIs DEF Touched
<1> HIDE DEF K
<1>3. /\ Latest(l, p, {"create"}, u) \in Nat /\ Latest(l, p, {"delete"}, u) \in Nat
  BY LatestIs
<1>4. Latest(l, p, {"create"}, u) <= z /\ Latest(l, p, {"delete"}, u) <= z
  <2>1. Latest(l, p, {"create"}, u) <= Latest(l, p, K, u)
    BY <1>1, LatestGrows
  <2>2. Latest(l, p, {"delete"}, u) <= Latest(l, p, K, u)
    BY <1>1, LatestGrows
  <2> QED
    BY <1>2, <1>3, <2>1, <2>2
<1>5. /\ Latest(l, p, {"create"}, u) = Latest(l, p, {"create"}, z)
      /\ Latest(l, p, {"delete"}, u) = Latest(l, p, {"delete"}, z)
  BY <1>4, LatestGrows
<1> QED
  BY <1>5 DEF There

\* Nothing after z is known at z.
LEMMA Untouched ==
    ASSUME NEW l, NEW p, NEW t \in {"node", "child"}, NEW z \in Nat
    PROVE  ~Touched(l, t, p, z, z)
<1>1. Latest(l, p, KindsOf(t), z) \in 0 .. z
  BY LatestIs
<1> QED
  BY <1>1 DEF Touched

\* The event of a change.
EventOf(kind) ==
    CASE kind = "create" -> "CREATED" [] kind = "set" -> "CHANGED"
      [] kind = "delete" -> "DELETED" [] kind = "child" -> "CHILD"

Kinds == {"create", "set", "delete", "child"}

\* Only what is not there can be created.
LegalChange(l, z) == l[z].kind = "create" <=> ~There(l, l[z].path, z - 1)

\* The change that is the first to concern a watch has an event that finds it.
LEMMA TouchedNext ==
    ASSUME NEW l, NEW p, NEW t \in Tables, NEW s \in Nat, NEW z \in Nat, s <= z,
           l[z + 1].kind \in Kinds, LegalChange(l, z + 1),
           t # "exist" => There(l, p, s), ~Touched(l, t, p, s, z), Touched(l, t, p, s, z + 1)
    PROVE  l[z + 1].path = p /\ t \in TablesFor(EventOf(l[z + 1].kind))
<1> DEFINE c == l[z + 1]
<1>0. z + 1 \in Nat /\ (z + 1) - 1 = z
  OBVIOUS
<1>1. CASE t = "exist"
  <2>1. ~There(l, p, z) /\ There(l, p, z + 1)
    BY <1>1 DEF Touched
  <2>2. /\ Latest(l, p, {"create"}, z) \in Nat /\ Latest(l, p, {"delete"}, z) \in Nat
        /\ Latest(l, p, {"create"}, z) <= z /\ Latest(l, p, {"delete"}, z) <= z
    BY LatestIs
  <2>3. /\ Latest(l, p, {"create"}, z + 1) =
              IF c.path = p /\ c.kind \in {"create"} THEN z + 1 ELSE Latest(l, p, {"create"}, z)
        /\ Latest(l, p, {"delete"}, z + 1) =
              IF c.path = p /\ c.kind \in {"delete"} THEN z + 1 ELSE Latest(l, p, {"delete"}, z)
    BY LatestNext
  <2> HIDE DEF c
  <2>4. c.path = p /\ c.kind = "create"
    BY <2>1, <2>2, <2>3 DEF There
  <2> QED
    BY <1>1, <2>4 DEF TablesFor, EventOf, c
<1>2. CASE t # "exist"
  <2>1. t \in {"node", "child"} /\ There(l, p, s)
    BY <1>2 DEF Tables
  <2>2. Latest(l, p, KindsOf(t), z) <= s /\ ~(Latest(l, p, KindsOf(t), z + 1) <= s)
    <3>1. Latest(l, p, KindsOf(t), z) \in Nat /\ Latest(l, p, KindsOf(t), z + 1) \in Nat
      BY <1>0, LatestIs
    <3>2. ~(Latest(l, p, KindsOf(t), z) > s) /\ Latest(l, p, KindsOf(t), z + 1) > s
      BY <1>2 DEF Touched
    <3> QED
      BY <3>1, <3>2
  <2>3. c.path = p /\ c.kind \in KindsOf(t)
    BY <2>2, LatestNext
  <2>4. There(l, p, z)
    BY <2>1, Stays
  <2>5. c.kind # "create"
    BY <1>0, <2>3, <2>4 DEF LegalChange
  <2> HIDE DEF c
  <2>6. CASE t = "node"
    BY <2>3, <2>5, <2>6 DEF KindsOf, TablesFor, EventOf, c
  <2>7. CASE t = "child"
    BY <2>3, <2>5, <2>7 DEF KindsOf, TablesFor, EventOf, c
  <2> QED
    BY <2>1, <2>6, <2>7
<1> QED
  BY <1>1, <1>2

\* A node that was there and is gone was deleted since.
LEMMA GoneSince ==
    ASSUME NEW l, NEW p, NEW s \in Nat, NEW z \in Nat, s <= z, There(l, p, s), ~There(l, p, z)
    PROVE  s < Latest(l, p, {"delete"}, z)
<1> DEFINE c == Latest(l, p, {"create"}, z)
           d == Latest(l, p, {"delete"}, z)
<1>1. c \in Nat /\ d \in Nat
  BY LatestIs
<1>2. c <= d
  BY <1>1 DEF There
<1>3. /\ c <= s => c = Latest(l, p, {"create"}, s)
      /\ d <= s => d = Latest(l, p, {"delete"}, s)
  BY LatestGrows
<1>4. c <= s /\ d <= s => There(l, p, z)
  BY <1>3 DEF There
<1> HIDE DEF c, d
<1>5. ~(d <= s)
  BY <1>1, <1>2, <1>4
<1> QED
  BY <1>1, <1>5 DEF d

\* A node that was not there and is was created since.
LEMMA CreatedSince ==
    ASSUME NEW l, NEW p, NEW r \in Nat, NEW z \in Nat, r <= z, ~There(l, p, r), There(l, p, z)
    PROVE  r < Latest(l, p, {"create"}, z)
<1> DEFINE c == Latest(l, p, {"create"}, z)
           d == Latest(l, p, {"delete"}, z)
           b == Latest(l, p, {"create"}, r)
           e == Latest(l, p, {"delete"}, r)
<1>1. c \in Nat /\ d \in Nat /\ b \in Nat /\ e \in Nat
  BY LatestIs
<1>2. d < c /\ b <= e
  BY <1>1 DEF There
<1>3. (c <= r => c = b) /\ e <= d
  BY LatestGrows
<1> HIDE DEF c, d, b, e
<1>4. ~(c <= r)
  BY <1>1, <1>2, <1>3
<1> QED
  BY <1>1, <1>4 DEF c

\* A node that is there, and that the server sees no reason to tell of since
\* r, has not been deleted since r either.
LEMMA QuietSince ==
    ASSUME NEW l, NEW p, NEW t \in {"node", "child"}, NEW kinds,
           kinds = IF t = "node" THEN {"create", "set"} ELSE {"create", "child"},
           NEW r \in Nat, NEW z \in Nat, r <= z, NEW s \in Nat,
           There(l, p, z), Latest(l, p, kinds, z) <= r, ~Touched(l, t, p, s, r)
    PROVE  ~Touched(l, t, p, s, z)
<1> DEFINE c == Latest(l, p, {"create"}, z)
           d == Latest(l, p, {"delete"}, z)
           k == Latest(l, p, kinds, z)
           m == Latest(l, p, KindsOf(t), z)
<1>1. /\ c \in Nat /\ d \in Nat /\ k \in Nat /\ m \in 0 .. z
      /\ m # 0 => l[m].path = p /\ l[m].kind \in KindsOf(t)
      /\ \A i \in 1 .. z : l[i].path = p /\ l[i].kind \in kinds => i <= k
      /\ \A i \in 1 .. z : l[i].path = p /\ l[i].kind \in {"delete"} => i <= d
  BY LatestIs
<1>2. d < c /\ k <= r
  BY DEF There
<1>3. c <= k
  BY LatestGrows
<1>4. KindsOf(t) = kinds \cup {"delete"}
  BY DEF KindsOf
<1>5. m <= r => m = Latest(l, p, KindsOf(t), r)
  BY LatestGrows
<1>6. ~(Latest(l, p, KindsOf(t), r) > s)
  BY DEF Touched
<1> HIDE DEF c, d, k, m
<1>7. m <= k \/ m <= d
  <2>1. m # 0 => m \in 1 .. z
    BY <1>1
  <2> QED
    BY <1>1, <1>4, <2>1
<1>8. m <= r
  BY <1>1, <1>2, <1>3, <1>7
<1>9. ~(m > s)
  BY <1>5, <1>6, <1>8
<1> QED
  BY <1>9 DEF Touched, m

-----------------------------------------------------------------------------
(* The types, step by step.                                                *)

\* Where the watches are: the tables and what is remembered of them.
TablesTypeOK ==
    /\ active \in [Tables -> [Paths -> SUBSET Watchers]]
    /\ since \in [Tables -> [Paths -> [Watchers -> Nat]]]
    /\ registered \in [Watchers -> Nat]

\* The events missed are frames, finitely many.
LEMMA MissedAre ==
    ASSUME NEW f \in Renewals, NEW z \in Nat
    PROVE  IsFiniteSet(MissedEvents(f, z)) /\ MissedEvents(f, z) \subseteq Frames
<1> DEFINE D == {q \in f.dataWatches \cup f.childWatches : ~Exists(q, z)}
           G == {q \in f.dataWatches : Exists(q, z) /\ mzxid(q, z) > f.relativeZxid}
           C == {q \in f.existWatches : Exists(q, z)}
           H == {q \in f.childWatches : Exists(q, z) /\ pzxid(q, z) > f.relativeZxid}
           d == [p \in D |-> Event("DELETED", p, LastChange(p, {"delete"}, z))]
           g == [p \in G |-> Event("CHANGED", p, mzxid(p, z))]
           c == [p \in C |-> Event("CREATED", p, LastChange(p, {"create"}, z))]
           h == [p \in H |-> Event("CHILD", p, pzxid(p, z))]
           Image(F, S) == {F[p] : p \in S}
<1>1. D \subseteq Paths /\ G \subseteq Paths /\ C \subseteq Paths /\ H \subseteq Paths
  BY DEF Renewals
<1>2. /\ \A p, kinds : LastChange(p, kinds, z) \in Nat
      /\ \A p : mzxid(p, z) \in Nat /\ pzxid(p, z) \in Nat
  <2>1. ASSUME NEW p, NEW kinds PROVE LastChange(p, kinds, z) \in Nat
    <3>1. LastChange(p, kinds, z) = Latest(log, p, kinds, z)
      BY OwnLog
    <3> QED
      BY <3>1, LatestIs
  <2> QED
    BY <2>1 DEF mzxid, pzxid
<1>3. MissedEvents(f, z) = ((Image(d, D) \cup Image(g, G)) \cup Image(c, C)) \cup Image(h, H)
  BY DEF MissedEvents
<1>4. Image(d, D) \subseteq Frames /\ Image(g, G) \subseteq Frames
  BY <1>1, <1>2, FrameTypes DEF EventTypes
<1>5. Image(c, C) \subseteq Frames /\ Image(h, H) \subseteq Frames
  BY <1>1, <1>2, FrameTypes DEF EventTypes
<1>6. /\ DOMAIN d = D /\ DOMAIN g = G /\ DOMAIN c = C /\ DOMAIN h = H
  OBVIOUS
<1> HIDE DEF D, G, C, H, d, g, c, h
<1>7. IsFiniteSet(D) /\ IsFiniteSet(G) /\ IsFiniteSet(C) /\ IsFiniteSet(H)
  BY <1>1, PathsAssumption, FS_Subset
<1>8. IsFiniteSet(Image(d, D)) /\ IsFiniteSet(Image(g, G))
  BY <1>6, <1>7, FiniteImage
<1>9. IsFiniteSet(Image(c, C)) /\ IsFiniteSet(Image(h, H))
  BY <1>6, <1>7, FiniteImage
<1> HIDE DEF Image
<1>10. IsFiniteSet(((Image(d, D) \cup Image(g, G)) \cup Image(c, C)) \cup Image(h, H))
  BY <1>8, <1>9, FS_Union
<1> QED
  BY <1>3, <1>4, <1>5, <1>10

\* A change of the tree.
LEMMA LogEntry ==
    ASSUME TypeOK, NEW i \in 1 .. Len(log)
    PROVE  log[i].path \in Paths /\ log[i].kind \in Kinds
<1>1. log \in Seq([path : Paths, kind : Kinds])
  BY DEF TypeOK, Kinds
<1>2. log[i] \in [path : Paths, kind : Kinds]
  BY <1>1, ElementOfSeq
<1> QED
  BY <1>2

\* Nothing is queued, and no watch is left.
LEMMA TypeInit == Init => TypeOK
<1> SUFFICES ASSUME Init PROVE TypeOK
  OBVIOUS
<1>1. /\ to_server \in Seq(Requests \cup Renewals) /\ from_server \in Seq(Frames)
      /\ sent_requests \in Seq([op : Ops, path : Paths, watcher : Watchers])
      /\ completions \in Seq([type : EventTypes \cup {"SESSION"}, watchers : SUBSET Watchers])
      /\ log \in Seq([path : Paths, kind : {"create", "set", "delete", "child"}])
  BY DEF Init
<1> QED
  BY <1>1 DEF Init, TypeOK, NoServer

\* The steps of the server and of the tree.
LEMMA TypeServer ==
    ASSUME TypeOK, TreeChanges \/ Server
    PROVE  TypeOK'
<1>1. CASE TreeChanges
  <2>1. log' \in Seq([path : Paths, kind : {"create", "set", "delete", "child"}])
    BY <1>1 DEF TreeChanges, TypeOK
  <2> QED
    BY <1>1, <2>1 DEF TreeChanges, TypeOK, tableVars, wireVars
<1>2. CASE ServerApplies
  <2> DEFINE z == server.applied + 1
  <2>1. z \in Nat /\ log[z].path \in Paths
    <3>1. server.applied \in Nat /\ Len(log) \in Nat /\ server.applied < Len(log)
      BY <1>2 DEF ServerApplies, TypeOK
    <3>2. z \in 1 .. Len(log)
      BY <3>1
    <3> QED
      BY <3>2, LogEntry
  <2>2. \A type \in EventTypes : Event(type, log[z].path, z) \in Frames
    BY <2>1, FrameTypes
  <2>3. \E type \in EventTypes : from_server' \in {from_server, Append(from_server, Event(type, log[z].path, z))}
    BY <1>2, Zenon DEF ServerApplies, EventTypes
  <2>4. from_server' \in Seq(Frames)
    <3>1. PICK type \in EventTypes :
              from_server' \in {from_server, Append(from_server, Event(type, log[z].path, z))}
      BY <2>3
    <3>2. Event(type, log[z].path, z) \in Frames /\ from_server \in Seq(Frames)
      BY <2>2, <3>1 DEF TypeOK
    <3> QED
      BY <3>1, <3>2, AppendProperties
  <2>5. server' \in [applied : Nat, data : SUBSET Paths, child : SUBSET Paths]
    BY <1>2, <2>1, ZenonT(40) DEF ServerApplies, TypeOK
  <2> QED
    BY <1>2, <2>4, <2>5 DEF ServerApplies, TypeOK, tableVars
<1>3. CASE ServerReplies
  <2> DEFINE r == Head(to_server)
  <2>1. r \in Requests \cup Renewals /\ r.path \in Paths /\ server.applied \in Nat
    BY <1>3, ToServerFields DEF ServerReplies, TypeOK
  <2>2. \E rc \in {"ZOK", "ZNONODE"} : from_server' = Append(from_server, Reply(rc, server.applied))
    BY <1>3 DEF ServerReplies
  <2>3. from_server' \in Seq(Frames)
    BY <2>1, <2>2, FrameTypes DEF TypeOK
  <2>4. server' \in [applied : Nat, data : SUBSET Paths, child : SUBSET Paths]
    BY <1>3, <2>1 DEF ServerReplies, TypeOK
  <2>5. to_server' \in Seq(Requests \cup Renewals)
    BY <1>3, HeadTailProperties DEF ServerReplies, TypeOK
  <2> QED
    BY <1>3, <2>3, <2>4, <2>5 DEF ServerReplies, TypeOK, tableVars
<1>4. CASE ServerSetsWatches
  <2> DEFINE f == Head(to_server)
             z == server.applied
             e == MissedEvents(f, z)
             sw == [xid |-> "setWatches", zxid |-> z]
  <2>1. z \in Nat /\ f \in Renewals /\ f.dataWatches \subseteq Paths /\ f.existWatches \subseteq Paths
        /\ f.childWatches \subseteq Paths
    BY <1>4, ToServerFields DEF ServerSetsWatches, TypeOK
  <2>2. SetToSeq(e) \in Seq(Frames)
    <3>1. IsFiniteSet(e) /\ e \subseteq Frames
      BY <2>1, MissedAre
    <3> HIDE DEF e
    <3>2. SetToSeq(e) \in Seq(e)
      BY <3>1, SetAsSequence
    <3> QED
      BY <3>1, <3>2, SeqMonotonic
  <2>3. <<sw>> \in Seq(Frames)
    BY <2>1, FrameTypes
  <2>4. from_server' = (from_server \o SetToSeq(e)) \o <<sw>>
    BY <1>4 DEF ServerSetsWatches
  <2>5. server' = [server EXCEPT
             !.data = {p \in f.dataWatches : Exists(p, z) /\ mzxid(p, z) <= f.relativeZxid}
                      \cup {p \in f.existWatches : ~Exists(p, z)},
             !.child = {p \in f.childWatches : Exists(p, z) /\ pzxid(p, z) <= f.relativeZxid}]
    BY <1>4 DEF ServerSetsWatches
  <2> HIDE DEF e, sw
  <2>6. from_server' \in Seq(Frames)
    BY <2>2, <2>3, <2>4 DEF TypeOK
  <2>7. server' \in [applied : Nat, data : SUBSET Paths, child : SUBSET Paths]
    <3> HIDE DEF f, z
    <3> QED
      BY <2>1, <2>5 DEF TypeOK
  <2>8. to_server' \in Seq(Requests \cup Renewals)
    BY <1>4, HeadTailProperties DEF ServerSetsWatches, TypeOK
  <2> QED
    BY <1>4, <2>6, <2>7, <2>8 DEF ServerSetsWatches, TypeOK, tableVars
<1> QED
  BY <1>1, <1>2, <1>3, <1>4 DEF Server

\* What SetWatches names is typed.
LEMMA SetWatchesType == ASSUME TypeOK PROVE SetWatches \in Renewals
BY DEF TypeOK, SetWatches, Renewals, collect_keys

\* The session event goes to watchers.
LEMMA SessionEventType ==
    ASSUME TypeOK, QueueSessionEvent
    PROVE  completions' \in Seq([type : EventTypes \cup {"SESSION"}, watchers : SUBSET Watchers])
<1>1. [type |-> "SESSION", watchers |-> collect_session_watchers]
          \in [type : EventTypes \cup {"SESSION"}, watchers : SUBSET Watchers]
  BY DEF TypeOK, collect_session_watchers
<1> QED
  BY <1>1 DEF QueueSessionEvent, TypeOK

\* The steps of callers and of the connection.
LEMMA TypeLink ==
    ASSUME TypeOK, Request \/ PrimeConnection \/ Connected \/ Disconnected \/ deliverWatchers
    PROVE  TypeOK'
<1>1. CASE Request
  <2>1. PICK op \in Ops, p \in Paths, w \in Watchers :
           /\ to_server' = Append(to_server, [xid |-> "request", op |-> op, path |-> p])
           /\ sent_requests' = Append(sent_requests, [op |-> op, path |-> p, watcher |-> w])
    BY <1>1 DEF Request
  <2>2. [xid |-> "request", op |-> op, path |-> p] \in Requests \cup Renewals
    BY DEF Requests
  <2>3. /\ to_server' \in Seq(Requests \cup Renewals)
        /\ sent_requests' \in Seq([op : Ops, path : Paths, watcher : Watchers])
    BY <2>1, <2>2 DEF TypeOK
  <2> QED
    BY <1>1, <2>3 DEF Request, TypeOK, tableVars, serverVars
<1>2. CASE PrimeConnection
  <2>1. PICK z \in last_zxid .. Len(log) : server' = [NoServer EXCEPT !.applied = z]
    BY <1>2 DEF PrimeConnection
  <2>2. z \in Nat
    <3>1. last_zxid \in Nat /\ Len(log) \in Nat
      BY DEF TypeOK
    <3> QED
      BY <3>1
  <2>3. server' \in [applied : Nat, data : SUBSET Paths, child : SUBSET Paths]
    BY <2>1, <2>2 DEF NoServer
  <2> QED
    BY <1>2, <2>3 DEF PrimeConnection, TypeOK, tableVars, wireVars
<1>3. CASE Connected
  <2>1. to_server' \in Seq(Requests \cup Renewals)
    <3>1. <<SetWatches>> \in Seq(Requests \cup Renewals)
      BY SetWatchesType
    <3>2. to_server' = <<SetWatches>> \o to_server
      BY <1>3 DEF Connected, send_set_watches, queue_front
    <3> QED
      BY <3>1, <3>2 DEF TypeOK
  <2> QED
    BY <1>3, <2>1, SessionEventType DEF Connected, TypeOK, tableVars, serverVars
<1>4. CASE Disconnected
  <2>1. completions' \in Seq([type : EventTypes \cup {"SESSION"}, watchers : SUBSET Watchers])
    BY <1>4, SessionEventType DEF Disconnected, TypeOK
  <2>2. /\ to_server' \in Seq(Requests \cup Renewals) /\ from_server' \in Seq(Frames)
        /\ sent_requests' \in Seq([op : Ops, path : Paths, watcher : Watchers])
        /\ server' \in [applied : Nat, data : SUBSET Paths, child : SUBSET Paths]
    BY <1>4 DEF Disconnected, NoServer
  <2> QED
    BY <1>4, <2>1, <2>2 DEF Disconnected, TypeOK, tableVars
<1>5. CASE deliverWatchers
  <2>1. completions' \in Seq([type : EventTypes \cup {"SESSION"}, watchers : SUBSET Watchers])
    BY <1>5, HeadTailProperties DEF deliverWatchers, TypeOK
  <2>2. fired' \in [Watchers -> Nat]
    BY <1>5 DEF deliverWatchers, TypeOK
  <2> QED
    BY <1>5, <2>1, <2>2 DEF deliverWatchers, TypeOK, tableVars, wireVars, serverVars
<1> QED
  BY <1>1, <1>2, <1>3, <1>4, <1>5

\* A frame is read.
LEMMA FrameRead ==
    ASSUME TypeOK, NEW xid, ReadFrame(xid)
    PROVE  /\ from_server # <<>> /\ Head(from_server) \in Frames /\ Head(from_server).xid = xid
           /\ last_zxid' \in Nat /\ from_server' \in Seq(Frames)
           /\ UNCHANGED <<link, to_server, log, server, fired, requests, faults>>
<1>1. /\ from_server # <<>> /\ Head(from_server).xid = xid /\ from_server' = Tail(from_server)
      /\ UNCHANGED <<link, to_server, log, server, fired, requests, faults>>
  BY DEF ReadFrame, serverVars
<1>2. Head(from_server) \in Frames /\ from_server' \in Seq(Frames)
  BY <1>1, HeadTailProperties DEF TypeOK
<1>3. last_zxid' \in Nat
  BY <1>2, FrameFields DEF ReadFrame, SeeZxid, TypeOK
<1> QED
  BY <1>1, <1>2, <1>3

\* A reply puts a watcher in the tables.
LEMMA ActivateType ==
    ASSUME TablesTypeOK, NEW r \in [op : Ops, path : Paths, watcher : Watchers], NEW rc,
           NEW zxid \in Nat, activateWatcher(r, rc, zxid)
    PROVE  TablesTypeOK'
<1> DEFINE to == result_checker(r.op, rc)
<1>1. r.path \in Paths /\ r.watcher \in Watchers
  OBVIOUS
<1>2. Cardinality(to) \in Nat
  <2>1. to = {} \/ \E t : to = {t}
    BY DEF result_checker
  <2> HIDE DEF to
  <2>2. Cardinality(to) \in {0, 1}
    BY <2>1, FS_Singleton, FS_EmptySet, Zenon
  <2> QED
    BY <2>2
<1>3. active' \in [Tables -> [Paths -> SUBSET Watchers]]
  BY <1>1 DEF activateWatcher, TablesTypeOK
<1>4. since' \in [Tables -> [Paths -> [Watchers -> Nat]]]
  BY <1>1 DEF activateWatcher, TablesTypeOK
<1>5. registered' = [registered EXCEPT ![r.watcher] = @ + Cardinality(to)]
  BY DEF activateWatcher
<1> HIDE DEF to
<1>6. registered' \in [Watchers -> Nat]
  BY <1>1, <1>2, <1>5 DEF TablesTypeOK
<1> QED
  BY <1>3, <1>4, <1>6 DEF TablesTypeOK

\* The IO thread reads a frame.
LEMMA TypeRead ==
    ASSUME TypeOK, ReadReply \/ ReadWatchEvent \/ ReadSetWatches,
           ReadReply => sent_requests # <<>>
    PROVE  TypeOK'
<1> DEFINE e == Head(from_server)
<1>1. CASE ReadReply
  <2>1. /\ e \in Frames /\ e.xid = "reply" /\ last_zxid' \in Nat /\ from_server' \in Seq(Frames)
        /\ UNCHANGED <<link, to_server, log, server, fired, requests, faults>>
    BY <1>1, FrameRead DEF ReadReply
  <2>2. sent_requests' \in Seq([op : Ops, path : Paths, watcher : Watchers])
        /\ Head(sent_requests) \in [op : Ops, path : Paths, watcher : Watchers]
    BY <1>1, HeadTailProperties DEF ReadReply, TypeOK
  <2>3. TablesTypeOK'
    <3>1. e.zxid \in Nat
      BY <2>1, FrameFields
    <3>2. TablesTypeOK /\ activateWatcher(Head(sent_requests), e.rc, e.zxid)
      BY <1>1 DEF ReadReply, TypeOK, TablesTypeOK
    <3> QED
      BY <2>2, <3>1, <3>2, ActivateType
  <2> QED
    BY <1>1, <2>1, <2>2, <2>3 DEF ReadReply, TypeOK, TablesTypeOK
<1>2. CASE ReadWatchEvent
  <2>1. /\ e \in Frames /\ e.xid = "watch" /\ last_zxid' \in Nat /\ from_server' \in Seq(Frames)
        /\ UNCHANGED <<link, to_server, log, server, fired, requests, faults>>
    BY <1>2, FrameRead DEF ReadWatchEvent
  <2>2. e.path \in Paths /\ e.type \in EventTypes
    BY <2>1, FrameFields
  <2> DEFINE from == TablesFor(e.type)
             c == [type |-> e.type, watchers |-> UNION {active[t][e.path] : t \in from}]
  <2>3. /\ completions' = Append(completions, c) /\ add_for_event(from, e.path)
        /\ UNCHANGED <<since, registered, sent_requests>>
    BY <1>2 DEF ReadWatchEvent
  <2>4. from \subseteq Tables
    BY DEF TablesFor, Tables
  <2> HIDE DEF from, e
  <2>5. c \in [type : EventTypes \cup {"SESSION"}, watchers : SUBSET Watchers]
    BY <2>2, <2>4 DEF TypeOK
  <2>6. active' \in [Tables -> [Paths -> SUBSET Watchers]]
    BY <2>2, <2>3 DEF TypeOK, add_for_event
  <2> HIDE DEF c
  <2>7. completions' \in Seq([type : EventTypes \cup {"SESSION"}, watchers : SUBSET Watchers])
    BY <2>3, <2>5 DEF TypeOK
  <2> QED
    BY <2>1, <2>3, <2>6, <2>7 DEF TypeOK
<1>3. CASE ReadSetWatches
  <2>1. /\ last_zxid' \in Nat /\ from_server' \in Seq(Frames)
        /\ UNCHANGED <<link, to_server, log, server, fired, requests, faults>>
    BY <1>3, FrameRead DEF ReadSetWatches
  <2> QED
    BY <1>3, <2>1 DEF ReadSetWatches, TypeOK
<1> QED
  BY <1>1, <1>2, <1>3

-----------------------------------------------------------------------------
(* What the frames on the wire tell of a watch.                            *)

Announces(f, t, p) == f.xid = "watch" /\ f.path = p /\ t \in TablesFor(f.type)

\* An event for the watches of table t on p is behind place i of the queue fs.
Comes(fs, t, p, i) == \E j \in i + 1 .. Len(fs) : Announces(fs[j], t, p)

\* Behind place i of the queue fs, a watch of table t on p that was left at z
\* is told of what concerns it before a zxid that includes it, and is told of
\* nothing older than itself.
InOrder(l, fs, t, p, z, i) ==
    /\ \A k \in i + 1 .. Len(fs) : fs[k].xid # "watch" =>
          \/ ~Touched(l, t, p, z, fs[k].zxid)
          \/ \E j \in i + 1 .. k - 1 : Announces(fs[j], t, p)
    /\ \A j \in i + 1 .. Len(fs) : Announces(fs[j], t, p) => z < fs[j].at

\* A frame more.
LEMMA InOrderAppend ==
    ASSUME NEW l, NEW S, NEW fs \in Seq(S), NEW e \in S, NEW t, NEW p, NEW z,
           NEW i \in 0 .. Len(fs), InOrder(l, fs, t, p, z, i),
           e.xid # "watch" => Comes(fs, t, p, i) \/ ~Touched(l, t, p, z, e.zxid),
           Announces(e, t, p) => z < e.at
    PROVE  /\ InOrder(l, Append(fs, e), t, p, z, i)
           /\ Comes(fs, t, p, i) => Comes(Append(fs, e), t, p, i)
           /\ Announces(e, t, p) => Comes(Append(fs, e), t, p, i)
<1> DEFINE gs == Append(fs, e)
           n == Len(fs)
<1>1. /\ n \in Nat /\ Len(gs) = n + 1 /\ gs[n + 1] = e
      /\ \A j \in 1 .. n : gs[j] = fs[j]
  BY AppendProperties
<1> HIDE DEF gs, n
<1>2. i \in 0 .. n /\ \A j \in i + 1 .. n + 1 : j \in 1 .. n \/ j = n + 1
  BY <1>1 DEF n
<1>3. \A j \in i + 1 .. n : gs[j] = fs[j] /\ j \in i + 1 .. n + 1
  BY <1>1, <1>2
<1>4. Comes(fs, t, p, i) => Comes(gs, t, p, i)
  BY <1>1, <1>3 DEF Comes, n
<1>5. Announces(e, t, p) => Comes(gs, t, p, i)
  <2>1. n + 1 \in i + 1 .. n + 1
    BY <1>1, <1>2
  <2> QED
    BY <1>1, <2>1 DEF Comes
<1>6. ASSUME NEW k \in i + 1 .. Len(gs), gs[k].xid # "watch", Touched(l, t, p, z, gs[k].zxid)
      PROVE  \E j \in i + 1 .. k - 1 : Announces(gs[j], t, p)
  <2>1. CASE k = n + 1
    <3>1. PICK j \in i + 1 .. n : Announces(fs[j], t, p)
      BY <1>1, <1>6, <2>1 DEF Comes, n
    <3>2. j \in i + 1 .. k - 1
      BY <1>1, <1>2, <2>1
    <3> QED
      BY <1>3, <3>1, <3>2
  <2>2. CASE k # n + 1
    <3>1. k \in i + 1 .. n
      BY <1>1, <1>2, <2>2
    <3>2. PICK j \in i + 1 .. k - 1 : Announces(fs[j], t, p)
      BY <1>3, <1>6, <3>1 DEF InOrder, n
    <3>3. j \in i + 1 .. n
      BY <1>1, <1>2, <3>1
    <3> QED
      BY <1>3, <3>2, <3>3
  <2> QED
    BY <2>1, <2>2
<1>7. ASSUME NEW j \in i + 1 .. Len(gs), Announces(gs[j], t, p)
      PROVE  z < gs[j].at
  <2>1. CASE j = n + 1
    BY <1>1, <1>7, <2>1
  <2>2. CASE j # n + 1
    <3>1. j \in i + 1 .. n
      BY <1>1, <1>2, <2>2
    <3> QED
      BY <1>3, <1>7, <3>1 DEF InOrder, n
  <2> QED
    BY <2>1, <2>2
<1> QED
  BY <1>4, <1>5, <1>6, <1>7 DEF InOrder, gs

\* The first frame is read, which is not an event for the watch.
LEMMA InOrderTail ==
    ASSUME NEW l, NEW S, NEW fs \in Seq(S), fs # <<>>, NEW t, NEW p, NEW z,
           NEW i \in 0 .. Len(fs), InOrder(l, fs, t, p, z, i),
           NEW h \in Nat, h = IF i = 0 THEN 0 ELSE i - 1,
           i = 0 => ~Announces(Head(fs), t, p)
    PROVE  InOrder(l, Tail(fs), t, p, z, h) /\ (Comes(fs, t, p, i) => Comes(Tail(fs), t, p, h))
<1> DEFINE gs == Tail(fs)
           n == Len(fs)
<1>1. /\ n \in Nat \ {0} /\ Len(gs) = n - 1 /\ Head(fs) = fs[1]
      /\ \A j \in 1 .. n - 1 : gs[j] = fs[j + 1]
  BY HeadTailProperties, EmptySeq
<1> HIDE DEF gs, n
<1>2. /\ \A j \in h + 1 .. n - 1 : j \in 1 .. n - 1 /\ j + 1 \in i + 1 .. n
      /\ \A j \in i + 1 .. n : j = 1 \/ j - 1 \in h + 1 .. n - 1
      /\ \A j \in i + 1 .. n : j = 1 => i = 0
      /\ i \in Nat
  BY <1>1 DEF n
<1>3. \A j \in i + 1 .. n : Announces(fs[j], t, p) =>
          j - 1 \in h + 1 .. n - 1 /\ gs[j - 1] = fs[j]
  <2> SUFFICES ASSUME NEW j \in i + 1 .. n, Announces(fs[j], t, p)
               PROVE  j - 1 \in h + 1 .. n - 1 /\ gs[j - 1] = fs[j]
    OBVIOUS
  <2>1. j # 1
    BY <1>1, <1>2
  <2>2. j - 1 \in h + 1 .. n - 1 /\ (j - 1) + 1 = j
    BY <1>2, <2>1
  <2>3. j - 1 \in 1 .. n - 1
    BY <1>2, <2>2
  <2> QED
    BY <1>1, <2>2, <2>3
<1>4. Comes(fs, t, p, i) => Comes(gs, t, p, h)
  BY <1>1, <1>3 DEF Comes, n
<1>5. ASSUME NEW k \in h + 1 .. Len(gs), gs[k].xid # "watch", Touched(l, t, p, z, gs[k].zxid)
      PROVE  \E j \in h + 1 .. k - 1 : Announces(gs[j], t, p)
  <2>1. k + 1 \in i + 1 .. n /\ gs[k] = fs[k + 1] /\ k \in h + 1 .. n - 1 /\ (k + 1) - 1 = k
    BY <1>1, <1>2
  <2>2. PICK j \in i + 1 .. k : Announces(fs[j], t, p)
    BY <1>5, <2>1 DEF InOrder, n
  <2>3. j \in i + 1 .. n
    BY <1>1, <1>2, <2>1
  <2>4. j - 1 \in h + 1 .. n - 1 /\ gs[j - 1] = fs[j]
    BY <1>3, <2>2, <2>3
  <2>5. j - 1 \in h + 1 .. k - 1
    BY <1>2, <2>1, <2>4
  <2> QED
    BY <2>2, <2>4, <2>5
<1>6. ASSUME NEW j \in h + 1 .. Len(gs), Announces(gs[j], t, p)
      PROVE  z < gs[j].at
  <2>1. j + 1 \in i + 1 .. n /\ gs[j] = fs[j + 1]
    BY <1>1, <1>2
  <2> QED
    BY <1>6, <2>1 DEF InOrder, n
<1> QED
  BY <1>4, <1>5, <1>6 DEF InOrder, gs

\* The log grows behind what the frames tell of.
LEMMA InOrderLog ==
    ASSUME NEW l, NEW k, NEW n \in Nat, \A a \in 1 .. n : l[a] = k[a],
           NEW fs \in Seq(Frames), \A a \in 1 .. Len(fs) : fs[a].xid # "watch" => fs[a].zxid <= n,
           NEW t, NEW p, NEW z, NEW i \in Nat, InOrder(l, fs, t, p, z, i)
    PROVE  InOrder(k, fs, t, p, z, i)
<1>1. ASSUME NEW a \in i + 1 .. Len(fs), fs[a].xid # "watch"
      PROVE  Touched(l, t, p, z, fs[a].zxid) <=> Touched(k, t, p, z, fs[a].zxid)
  <2>1. a \in 1 .. Len(fs)
    OBVIOUS
  <2>2. fs[a].zxid \in Nat /\ fs[a].zxid <= n
    <3>1. fs[a] \in Frames
      BY <2>1, ElementOfSeq
    <3> QED
      BY <1>1, <2>1, <3>1, FrameFields
  <2>3. \A b \in 1 .. fs[a].zxid : l[b] = k[b]
    BY <2>2
  <2> QED
    BY <2>2, <2>3, SameLog
<1> QED
  BY <1>1 DEF InOrder

-----------------------------------------------------------------------------
(* Requests and replies.                                                   *)

\* m[n] is the place in fs of the reply to sent[n]; the requests that have no
\* reply yet, the last ones of sent, are asked.
Match(fs, sent, asked, m) ==
    /\ m \in Seq(Nat)
    /\ \A n \in 1 .. Len(m) : m[n] \in 1 .. Len(fs) /\ fs[m[n]].xid = "reply"
    /\ \A i \in 1 .. Len(fs) : fs[i].xid = "reply" => \E n \in 1 .. Len(m) : m[n] = i
    /\ \A a, b \in 1 .. Len(m) : a < b => m[a] < m[b]
    /\ Len(sent) = Len(m) + Len(asked)
    /\ \A i \in 1 .. Len(asked) :
          sent[Len(m) + i].op = asked[i].op /\ sent[Len(m) + i].path = asked[i].path

\* A request is made.
LEMMA MatchRequest ==
    ASSUME NEW fs, NEW S, NEW sent \in Seq(S), NEW R, NEW asked \in Seq(R), NEW m,
           Match(fs, sent, asked, m), NEW s \in S, NEW r \in R, s.op = r.op, s.path = r.path
    PROVE  Match(fs, Append(sent, s), Append(asked, r), m)
<1> DEFINE A == Append(asked, r)
           B == Append(sent, s)
           a == Len(asked)
           b == Len(sent)
           k == Len(m)
<1>0. /\ a \in Nat /\ Len(A) = a + 1 /\ A[a + 1] = r /\ \A i \in 1 .. a : A[i] = asked[i]
      /\ b \in Nat /\ Len(B) = b + 1 /\ B[b + 1] = s /\ \A i \in 1 .. b : B[i] = sent[i]
  BY AppendProperties
<1>1. /\ k \in Nat /\ b = k + a
      /\ \A i \in 1 .. a : sent[k + i].op = asked[i].op /\ sent[k + i].path = asked[i].path
  BY DEF Match
<1> HIDE DEF A, B, a, b, k
<1>2. Len(B) = k + Len(A)
  BY <1>0, <1>1
<1>3. ASSUME NEW i \in 1 .. Len(A)
      PROVE  B[k + i].op = A[i].op /\ B[k + i].path = A[i].path
  <2>1. CASE i = a + 1
    <3>1. k + i = b + 1
      BY <1>0, <1>1, <2>1
    <3> QED
      BY <1>0, <1>1, <2>1, <3>1
  <2>2. CASE i # a + 1
    <3>1. i \in 1 .. a /\ k + i \in 1 .. b
      BY <1>0, <1>1, <2>2
    <3> QED
      BY <1>0, <1>1, <3>1
  <2> QED
    BY <2>1, <2>2
<1> QED
  BY <1>2, <1>3 DEF Match, A, B, k

\* The server sends a frame that is not a reply.
LEMMA MatchEvent ==
    ASSUME NEW S, NEW fs \in Seq(S), NEW e \in S, e.xid # "reply", NEW sent, NEW asked, NEW m,
           Match(fs, sent, asked, m)
    PROVE  Match(Append(fs, e), sent, asked, m)
<1> DEFINE gs == Append(fs, e)
           n == Len(fs)
<1>1. /\ n \in Nat /\ Len(gs) = n + 1 /\ gs[n + 1] = e
      /\ \A j \in 1 .. n : gs[j] = fs[j]
  BY AppendProperties
<1> HIDE DEF gs, n
<1>2. \A j \in 1 .. n : j \in 1 .. n + 1
  BY <1>1
<1>3. \A i \in 1 .. Len(m) : m[i] \in 1 .. Len(gs) /\ gs[m[i]].xid = "reply"
  BY <1>1, <1>2 DEF Match, n
<1>4. \A j \in 1 .. n + 1 : gs[j].xid = "reply" => j \in 1 .. n
  BY <1>1
<1>5. \A i \in 1 .. Len(gs) : gs[i].xid = "reply" => \E j \in 1 .. Len(m) : m[j] = i
  BY <1>1, <1>4 DEF Match, n
<1> QED
  BY <1>3, <1>5 DEF Match, gs

\* The server replies to the request it was asked first.
LEMMA MatchReply ==
    ASSUME NEW S, NEW fs \in Seq(S), NEW e \in S, e.xid = "reply", NEW sent,
           NEW R, NEW asked \in Seq(R), asked # <<>>, NEW m, Match(fs, sent, asked, m)
    PROVE  Match(Append(fs, e), sent, Tail(asked), Append(m, Len(fs) + 1))
<1> DEFINE gs == Append(fs, e)
           n == Len(fs)
           A == Tail(asked)
           a == Len(asked)
           k == Len(m)
           o == Append(m, n + 1)
<1>1. /\ n \in Nat /\ Len(gs) = n + 1 /\ gs[n + 1] = e
      /\ \A j \in 1 .. n : gs[j] = fs[j]
  BY AppendProperties
<1>2. /\ a \in Nat \ {0} /\ Len(A) = a - 1 /\ \A i \in 1 .. a - 1 : A[i] = asked[i + 1]
  BY HeadTailProperties, EmptySeq
<1>3. /\ o \in Seq(Nat) /\ k \in Nat /\ Len(o) = k + 1 /\ o[k + 1] = n + 1
      /\ \A j \in 1 .. k : o[j] = m[j]
  BY <1>1, AppendProperties DEF Match
<1>4. /\ \A j \in 1 .. k : m[j] \in 1 .. n /\ fs[m[j]].xid = "reply"
      /\ \A i \in 1 .. n : fs[i].xid = "reply" => \E j \in 1 .. k : m[j] = i
      /\ \A i, j \in 1 .. k : i < j => m[i] < m[j]
      /\ Len(sent) = k + a
      /\ \A i \in 1 .. a : sent[k + i].op = asked[i].op /\ sent[k + i].path = asked[i].path
  BY DEF Match
<1> HIDE DEF gs, n, A, a, k, o
<1>5. \A j \in 1 .. k + 1 : o[j] \in 1 .. n + 1 /\ gs[o[j]].xid = "reply"
  <2> SUFFICES ASSUME NEW j \in 1 .. k + 1
               PROVE  o[j] \in 1 .. n + 1 /\ gs[o[j]].xid = "reply"
    OBVIOUS
  <2>1. CASE j = k + 1
    BY <1>1, <1>3, <2>1
  <2>2. CASE j # k + 1
    <3>1. j \in 1 .. k
      BY <1>3, <2>2
    <3>2. m[j] \in 1 .. n /\ m[j] \in 1 .. n + 1
      BY <1>1, <1>4, <3>1
    <3> QED
      BY <1>1, <1>3, <1>4, <3>1, <3>2, SMTT(30)
  <2> QED
    BY <2>1, <2>2
<1>6. \A i \in 1 .. n + 1 : gs[i].xid = "reply" => \E j \in 1 .. k + 1 : o[j] = i
  <2> SUFFICES ASSUME NEW i \in 1 .. n + 1, gs[i].xid = "reply"
               PROVE  \E j \in 1 .. k + 1 : o[j] = i
    OBVIOUS
  <2>1. CASE i = n + 1
    <3>1. k + 1 \in 1 .. k + 1
      BY <1>3
    <3> QED
      BY <1>3, <2>1, <3>1
  <2>2. CASE i # n + 1
    <3>1. i \in 1 .. n
      BY <1>1, <2>2
    <3>2. PICK j \in 1 .. k : m[j] = i
      BY <1>1, <1>4, <3>1
    <3>3. j \in 1 .. k + 1
      BY <1>3
    <3> QED
      BY <1>3, <3>2, <3>3
  <2> QED
    BY <2>1, <2>2
<1>7. \A i, j \in 1 .. k + 1 : i < j => o[i] < o[j]
  <2> SUFFICES ASSUME NEW i \in 1 .. k + 1, NEW j \in 1 .. k + 1, i < j
               PROVE  o[i] < o[j]
    OBVIOUS
  <2>1. i \in 1 .. k /\ o[i] = m[i] /\ m[i] \in 1 .. n
    BY <1>3, <1>4
  <2>2. CASE j = k + 1
    <3>1. o[j] = n + 1
      BY <1>3, <2>2
    <3> QED
      BY <1>1, <2>1, <3>1
  <2>3. CASE j # k + 1
    <3>1. j \in 1 .. k
      BY <1>3, <2>3
    <3> QED
      BY <1>3, <1>4, <2>1, <3>1
  <2> QED
    BY <2>2, <2>3
<1>8. Len(sent) = (k + 1) + Len(A)
  BY <1>2, <1>3, <1>4
<1>9. ASSUME NEW i \in 1 .. Len(A)
      PROVE  sent[(k + 1) + i].op = A[i].op /\ sent[(k + 1) + i].path = A[i].path
  <2>1. i + 1 \in 1 .. a /\ (k + 1) + i = k + (i + 1) /\ A[i] = asked[i + 1]
    BY <1>2, <1>3
  <2> QED
    BY <1>4, <2>1
<1> QED
  BY <1>1, <1>3, <1>5, <1>6, <1>7, <1>8, <1>9 DEF Match, gs, A, o, n

\* The first frame is read, and is no reply.
LEMMA MatchSkip ==
    ASSUME NEW S, NEW fs \in Seq(S), fs # <<>>, Head(fs).xid # "reply", NEW sent, NEW asked, NEW m,
           Match(fs, sent, asked, m),
           NEW o, o = [n \in 1 .. Len(m) |-> m[n] - 1]
    PROVE  /\ Match(Tail(fs), sent, asked, o)
           /\ Len(o) = Len(m) /\ \A n \in 1 .. Len(m) : m[n] \in Nat /\ m[n] > 1 /\ o[n] = m[n] - 1
<1> DEFINE gs == Tail(fs)
           n == Len(fs)
           k == Len(m)
<1>1. /\ n \in Nat \ {0} /\ Len(gs) = n - 1 /\ Head(fs) = fs[1]
      /\ \A j \in 1 .. n - 1 : gs[j] = fs[j + 1]
  BY HeadTailProperties, EmptySeq
<1>0. m \in Seq(Nat) /\ k \in Nat
  <2>1. m \in Seq(Nat)
    BY DEF Match
  <2> QED
    BY <2>1
<1>2. /\ \A j \in 1 .. k : m[j] \in 1 .. n /\ fs[m[j]].xid = "reply"
      /\ \A i \in 1 .. n : fs[i].xid = "reply" => \E j \in 1 .. k : m[j] = i
      /\ \A i, j \in 1 .. k : i < j => m[i] < m[j]
  BY DEF Match
<1> HIDE DEF gs, n
<1>3. \A j \in 1 .. k : m[j] \in Nat /\ m[j] # 1
  BY <1>0, <1>1, <1>2
<1>4. \A j \in 1 .. k : m[j] - 1 \in 1 .. n - 1 /\ m[j] - 1 \in Nat /\ (m[j] - 1) + 1 = m[j]
  BY <1>0, <1>1, <1>2, <1>3
<1>5. o \in Seq(Nat) /\ Len(o) = k /\ \A j \in 1 .. k : o[j] = m[j] - 1
  BY <1>0, <1>2, <1>4
<1> HIDE DEF k
<1>6. \A j \in 1 .. k : o[j] \in 1 .. n - 1 /\ gs[o[j]].xid = "reply"
  <2> SUFFICES ASSUME NEW j \in 1 .. k PROVE o[j] \in 1 .. n - 1 /\ gs[o[j]].xid = "reply"
    OBVIOUS
  <2>1. o[j] = m[j] - 1 /\ o[j] \in 1 .. n - 1 /\ (m[j] - 1) + 1 = m[j]
    BY <1>4, <1>5
  <2>2. gs[o[j]] = fs[m[j]]
    BY <1>1, <2>1
  <2> QED
    BY <1>2, <2>1, <2>2
<1>7. \A i \in 1 .. n - 1 : gs[i].xid = "reply" => \E j \in 1 .. k : o[j] = i
  <2> SUFFICES ASSUME NEW i \in 1 .. n - 1, gs[i].xid = "reply" PROVE \E j \in 1 .. k : o[j] = i
    OBVIOUS
  <2>1. i + 1 \in 1 .. n /\ fs[i + 1].xid = "reply" /\ (i + 1) - 1 = i
    BY <1>1
  <2>2. PICK j \in 1 .. k : m[j] = i + 1
    BY <1>0, <1>2, <2>1
  <2> QED
    BY <1>5, <2>1, <2>2
<1>8. \A i, j \in 1 .. k : i < j => o[i] < o[j]
  <2> SUFFICES ASSUME NEW i \in 1 .. k, NEW j \in 1 .. k, i < j PROVE o[i] < o[j]
    OBVIOUS
  <2>1. m[i] < m[j] /\ m[i] \in Nat /\ m[j] \in Nat /\ o[i] = m[i] - 1 /\ o[j] = m[j] - 1
    BY <1>0, <1>2, <1>3, <1>5
  <2> QED
    BY <2>1
<1>9. \A j \in 1 .. k : m[j] > 1
  BY <1>0, <1>2, <1>3
<1>10. Match(gs, sent, asked, o)
  <2>1. Len(sent) = Len(o) + Len(asked)
    BY <1>5 DEF Match, k
  <2>2. \A i \in 1 .. Len(asked) :
           sent[Len(o) + i].op = asked[i].op /\ sent[Len(o) + i].path = asked[i].path
    BY <1>5 DEF Match, k
  <2> QED
    BY <1>1, <1>5, <1>6, <1>7, <1>8, <2>1, <2>2 DEF Match
<1>11. \A j \in 1 .. k : m[j] \in Nat /\ m[j] > 1 /\ o[j] = m[j] - 1
  BY <1>3, <1>5, <1>9
<1> QED
  BY <1>5, <1>10, <1>11 DEF gs, k

\* The places o are the places m without the first, one frame later.
MatchRest(fs, sent, asked, m, o) ==
    /\ Match(Tail(fs), Tail(sent), asked, o)
    /\ Len(o) = Len(m) - 1
    /\ \A n \in 1 .. Len(m) - 1 : /\ m[n + 1] \in Nat /\ m[n + 1] > 1 /\ o[n] = m[n + 1] - 1
                                  /\ n + 1 \in 1 .. Len(m) /\ Tail(sent)[n] = sent[n + 1]

\* The first frame is read, and is the reply to the first request.
LEMMA MatchRead ==
    ASSUME NEW fs \in Seq(Frames), fs # <<>>, Head(fs).xid = "reply",
           NEW sent \in Seq([op : Ops, path : Paths, watcher : Watchers]), NEW asked, Len(asked) \in Nat, NEW m,
           Match(fs, sent, asked, m)
    PROVE  /\ sent # <<>> /\ Len(m) \in Nat \ {0} /\ m[1] = 1
           /\ \E o : MatchRest(fs, sent, asked, m, o)
<1>o. PICK o : o = [n \in 1 .. Len(m) - 1 |-> m[n + 1] - 1]
  OBVIOUS
<1> DEFINE gs == Tail(fs)
           n == Len(fs)
           k == Len(m)
           a == Len(asked)
<1>1. /\ n \in Nat \ {0} /\ Len(gs) = n - 1 /\ Head(fs) = fs[1]
      /\ \A j \in 1 .. n - 1 : gs[j] = fs[j + 1]
  BY HeadTailProperties, EmptySeq
<1>0. m \in Seq(Nat) /\ k \in Nat
  <2>1. m \in Seq(Nat)
    BY DEF Match
  <2> QED
    BY <2>1
<1>2. /\ \A j \in 1 .. k : m[j] \in 1 .. n /\ fs[m[j]].xid = "reply"
      /\ \A i \in 1 .. n : fs[i].xid = "reply" => \E j \in 1 .. k : m[j] = i
      /\ \A i, j \in 1 .. k : i < j => m[i] < m[j]
      /\ Len(sent) = k + a
      /\ \A i \in 1 .. a : sent[k + i].op = asked[i].op /\ sent[k + i].path = asked[i].path
  BY DEF Match
<1> HIDE DEF gs, n
<1>3. k # 0 /\ m[1] = 1
  <2>1. PICK j \in 1 .. k : m[j] = 1
    BY <1>0, <1>1, <1>2
  <2>2. 1 \in 1 .. k /\ m[1] \in 1 .. n
    BY <1>0, <1>2, <2>1
  <2>3. ~(1 < j)
    BY <1>0, <1>1, <1>2, <2>1, <2>2
  <2> QED
    BY <1>0, <1>2, <2>1, <2>3
<1> HIDE DEF k
<1>4. a \in Nat /\ sent # <<>> /\ Len(sent) \in Nat \ {0}
  <2>1. a \in Nat /\ Len(sent) # 0 /\ Len(sent) \in Nat
    BY <1>0, <1>2, <1>3
  <2>2. sent # <<>>
    BY <2>1, EmptySeq
  <2> QED
    BY <2>1, <2>2
<1> HIDE DEF a
<1>5. Len(Tail(sent)) = Len(sent) - 1 /\ \A j \in 1 .. Len(sent) - 1 : Tail(sent)[j] = sent[j + 1]
  BY <1>4, HeadTailProperties
<1>6. \A j \in 1 .. k - 1 : /\ j + 1 \in 1 .. k /\ m[j + 1] \in 1 .. n /\ m[1] < m[j + 1]
  <2> SUFFICES ASSUME NEW j \in 1 .. k - 1
               PROVE  j + 1 \in 1 .. k /\ m[j + 1] \in 1 .. n /\ m[1] < m[j + 1]
    OBVIOUS
  <2>1. j + 1 \in 1 .. k /\ 1 \in 1 .. k /\ 1 < j + 1
    BY <1>0, <1>2
  <2> QED
    BY <1>0, <1>2, <2>1
<1>7. \A j \in 1 .. k - 1 : /\ m[j + 1] \in Nat /\ m[j + 1] > 1 /\ m[j + 1] - 1 \in Nat
                            /\ m[j + 1] - 1 \in 1 .. n - 1 /\ (m[j + 1] - 1) + 1 = m[j + 1]
  BY <1>1, <1>3, <1>6
<1>8. o \in Seq(Nat) /\ Len(o) = k - 1 /\ \A j \in 1 .. k - 1 : o[j] = m[j + 1] - 1
  <2>1. k - 1 \in Nat
    BY <1>0, <1>2, <1>3
  <2>2. o = [j \in 1 .. k - 1 |-> m[j + 1] - 1]
    BY <1>o DEF k
  <2>3. o \in [1 .. k - 1 -> Nat] /\ \A j \in 1 .. k - 1 : o[j] = m[j + 1] - 1
    BY <1>7, <2>2
  <2>4. o \in Seq(Nat) /\ Len(o) = k - 1
    <3>1. PICK h \in Nat : h = k - 1
      BY <2>1
    <3>2. o \in [1 .. h -> Nat]
      BY <2>3, <3>1
    <3>3. o \in Seq(Nat) /\ Len(o) = h
      BY <3>2, FunctionAsSequence
    <3> QED
      BY <3>1, <3>3
  <2> QED
    BY <2>3, <2>4
<1>9. \A j \in 1 .. k - 1 : o[j] \in 1 .. n - 1 /\ gs[o[j]].xid = "reply"
  <2> SUFFICES ASSUME NEW j \in 1 .. k - 1 PROVE o[j] \in 1 .. n - 1 /\ gs[o[j]].xid = "reply"
    OBVIOUS
  <2>1. /\ o[j] = m[j + 1] - 1 /\ o[j] \in 1 .. n - 1 /\ (m[j + 1] - 1) + 1 = m[j + 1]
        /\ j + 1 \in 1 .. k
    BY <1>6, <1>7, <1>8
  <2>2. gs[o[j]] = fs[m[j + 1]]
    BY <1>1, <2>1
  <2> QED
    BY <1>2, <2>1, <2>2
<1>10. \A i \in 1 .. n - 1 : gs[i].xid = "reply" => \E j \in 1 .. k - 1 : o[j] = i
  <2> SUFFICES ASSUME NEW i \in 1 .. n - 1, gs[i].xid = "reply" PROVE \E j \in 1 .. k - 1 : o[j] = i
    OBVIOUS
  <2>1. i + 1 \in 1 .. n /\ fs[i + 1].xid = "reply" /\ (i + 1) - 1 = i /\ i + 1 # 1
    BY <1>1
  <2>2. PICK j \in 1 .. k : m[j] = i + 1
    BY <1>0, <1>2, <2>1
  <2>3. j # 1
    BY <1>3, <2>1, <2>2
  <2>4. j - 1 \in 1 .. k - 1 /\ (j - 1) + 1 = j
    BY <1>0, <1>2, <2>3
  <2>5. o[j - 1] = m[j] - 1
    BY <1>8, <2>4
  <2> QED
    BY <2>1, <2>2, <2>4, <2>5
<1>11. \A i, j \in 1 .. k - 1 : i < j => o[i] < o[j]
  <2> SUFFICES ASSUME NEW i \in 1 .. k - 1, NEW j \in 1 .. k - 1, i < j PROVE o[i] < o[j]
    OBVIOUS
  <2>1. i + 1 \in 1 .. k /\ j + 1 \in 1 .. k /\ i + 1 < j + 1
    BY <1>0, <1>2
  <2>2. m[i + 1] < m[j + 1] /\ m[i + 1] \in Nat /\ m[j + 1] \in Nat
    BY <1>0, <1>2, <1>7, <2>1
  <2>3. o[i] = m[i + 1] - 1 /\ o[j] = m[j + 1] - 1
    BY <1>8
  <2> QED
    BY <2>2, <2>3
<1>12. Len(Tail(sent)) = (k - 1) + a
  BY <1>0, <1>2, <1>4, <1>5 DEF a
<1>13. ASSUME NEW i \in 1 .. a
       PROVE  /\ Tail(sent)[(k - 1) + i].op = asked[i].op
              /\ Tail(sent)[(k - 1) + i].path = asked[i].path
  <2>0. Len(sent) = k + a
    BY <1>0, <1>2 DEF a
  <2>1. (k - 1) + i \in 1 .. Len(sent) - 1 /\ ((k - 1) + i) + 1 = k + i
    BY <1>0, <1>2, <1>3, <1>4, <2>0
  <2>2. Tail(sent)[(k - 1) + i] = sent[k + i]
    BY <1>5, <2>1
  <2> QED
    BY <1>0, <1>2, <2>2 DEF a
<1>14. \A j \in 1 .. k - 1 : Tail(sent)[j] = sent[j + 1]
  <2>0. Len(sent) = k + a
    BY <1>0, <1>2 DEF a
  <2>1. \A j \in 1 .. k - 1 : j \in 1 .. Len(sent) - 1
    BY <1>0, <1>2, <1>4, <2>0
  <2> QED
    BY <1>5, <2>1
<1>15. Match(gs, Tail(sent), asked, o)
  BY <1>1, <1>8, <1>9, <1>10, <1>11, <1>12, <1>13 DEF Match, a
<1>16. k \in Nat \ {0}
  BY <1>0, <1>2, <1>3
<1>18. MatchRest(fs, sent, asked, m, o)
  BY <1>6, <1>7, <1>8, <1>14, <1>15 DEF MatchRest, gs, k
<1> QED
  BY <1>3, <1>4, <1>16, <1>18 DEF k

-----------------------------------------------------------------------------
(* The connection.                                                         *)

\* SetWatches is queued, or on its way to the server.
Renewing == link = "up" /\ to_server # <<>> /\ Head(to_server).xid = "setWatches"

\* The requests that the server has not answered.
Asked == IF Renewing THEN Tail(to_server) ELSE to_server

LogInv == \A z \in 1 .. Len(log) : LegalChange(log, z)

\* The client has not seen more than the server; SetWatches is the first frame
\* of a connection, and the server sends nothing before it has read it.
LinkInv ==
    /\ last_zxid <= Len(log)
    /\ link # "none" => last_zxid <= server.applied /\ server.applied <= Len(log)
    /\ link # "up" => from_server = <<>>
    /\ link = "handshake" => server.data = {} /\ server.child = {}
    /\ \A i \in 1 .. Len(to_server) : to_server[i].xid = "setWatches" => i = 1 /\ link = "up"
    /\ Renewing => /\ Head(to_server) = SetWatches
                   /\ from_server = <<>> /\ server.data = {} /\ server.child = {}

\* The zxids of the frames that carry one are between lo and hi, and grow.
Zxids(fs, lo, hi) ==
    \A i \in 1 .. Len(fs) : fs[i].xid # "watch" =>
        /\ lo <= fs[i].zxid /\ fs[i].zxid <= hi
        /\ \A j \in 1 .. i - 1 : fs[j].xid # "watch" => fs[j].zxid <= fs[i].zxid

BaseInv == TypeOK /\ LogInv /\ LinkInv /\ Zxids(from_server, last_zxid, server.applied)

\* A frame more.
LEMMA ZxidsAppend ==
    ASSUME NEW fs \in Seq(Frames), NEW e \in Frames, NEW lo \in Nat, NEW hi \in Nat, NEW top \in Nat,
           Zxids(fs, lo, hi), lo <= hi, hi <= top,
           e.xid # "watch" => hi <= e.zxid /\ e.zxid <= top
    PROVE  Zxids(Append(fs, e), lo, top)
<1> DEFINE gs == Append(fs, e)
           n == Len(fs)
<1>1. /\ n \in Nat /\ Len(gs) = n + 1 /\ gs[n + 1] = e
      /\ \A j \in 1 .. n : gs[j] = fs[j]
  BY AppendProperties
<1>2. /\ \A i \in 1 .. n : fs[i].xid # "watch" => fs[i].zxid \in Nat
      /\ e.xid # "watch" => e.zxid \in Nat
  BY ElementOfSeq, FrameFields
<1> HIDE DEF gs, n
<1>3. ASSUME NEW i \in 1 .. n + 1, gs[i].xid # "watch"
      PROVE  /\ lo <= gs[i].zxid /\ gs[i].zxid <= top
             /\ \A j \in 1 .. i - 1 : gs[j].xid # "watch" => gs[j].zxid <= gs[i].zxid
  <2>1. CASE i = n + 1
    <3>1. hi <= e.zxid /\ e.zxid <= top /\ e.zxid \in Nat /\ gs[i] = e
      BY <1>1, <1>2, <1>3, <2>1
    <3>2. ASSUME NEW j \in 1 .. i - 1, gs[j].xid # "watch"
          PROVE  gs[j].zxid <= e.zxid
      <4>1. j \in 1 .. n /\ gs[j] = fs[j]
        BY <1>1, <2>1
      <4>2. fs[j].zxid <= hi /\ fs[j].zxid \in Nat
        BY <1>2, <3>2, <4>1 DEF Zxids, n
      <4> QED
        BY <3>1, <4>1, <4>2
    <3> QED
      BY <3>1, <3>2
  <2>2. CASE i # n + 1
    <3>1. i \in 1 .. n /\ gs[i] = fs[i]
      BY <1>1, <2>2
    <3>2. /\ lo <= fs[i].zxid /\ fs[i].zxid <= hi /\ fs[i].zxid \in Nat
          /\ \A j \in 1 .. i - 1 : fs[j].xid # "watch" => fs[j].zxid <= fs[i].zxid
      BY <1>2, <1>3, <3>1 DEF Zxids, n
    <3>3. \A j \in 1 .. i - 1 : gs[j] = fs[j]
      BY <1>1, <3>1
    <3> QED
      BY <3>1, <3>2, <3>3
  <2> QED
    BY <2>1, <2>2
<1> QED
  BY <1>1, <1>3 DEF Zxids, gs

\* A frame less, which the client has seen.
LEMMA ZxidsTail ==
    ASSUME NEW fs \in Seq(Frames), fs # <<>>, NEW lo \in Nat, NEW hi \in Nat, Zxids(fs, lo, hi),
           NEW up, up = IF Head(fs).xid # "watch" THEN Head(fs).zxid ELSE lo
    PROVE  Zxids(Tail(fs), up, hi) /\ up \in Nat /\ lo <= up /\ (lo <= hi => up <= hi)
<1> DEFINE gs == Tail(fs)
           n == Len(fs)
<1>1. /\ n \in Nat \ {0} /\ Len(gs) = n - 1 /\ Head(fs) = fs[1]
      /\ \A j \in 1 .. n - 1 : gs[j] = fs[j + 1]
  BY HeadTailProperties, EmptySeq
<1>2. \A i \in 1 .. n : fs[i].xid # "watch" => fs[i].zxid \in Nat
  BY ElementOfSeq, FrameFields
<1> HIDE DEF gs, n
<1>3. /\ up \in Nat /\ lo <= up /\ (lo <= hi => up <= hi)
  <2>1. 1 \in 1 .. n
    BY <1>1
  <2>2. fs[1].xid # "watch" => lo <= fs[1].zxid /\ fs[1].zxid <= hi /\ fs[1].zxid \in Nat
    BY <1>2, <2>1 DEF Zxids, n
  <2> QED
    BY <1>1, <2>2
<1>4. ASSUME NEW i \in 1 .. n - 1, gs[i].xid # "watch"
      PROVE  /\ up <= gs[i].zxid /\ gs[i].zxid <= hi
             /\ \A j \in 1 .. i - 1 : gs[j].xid # "watch" => gs[j].zxid <= gs[i].zxid
  <2>1. i + 1 \in 1 .. n /\ gs[i] = fs[i + 1] /\ (i + 1) - 1 = i /\ 1 \in 1 .. i
    BY <1>1
  <2>2. /\ lo <= gs[i].zxid /\ gs[i].zxid <= hi
        /\ \A j \in 1 .. i : fs[j].xid # "watch" => fs[j].zxid <= gs[i].zxid
    BY <1>4, <2>1 DEF Zxids, n
  <2>3. up <= gs[i].zxid
    BY <1>1, <2>1, <2>2
  <2>4. \A j \in 1 .. i - 1 : j + 1 \in 1 .. i /\ gs[j] = fs[j + 1]
    BY <1>1
  <2> QED
    BY <2>2, <2>3, <2>4
<1> QED
  BY <1>1, <1>3, <1>4 DEF Zxids, gs

\* The first frame to the server is what it is, and only it may be SetWatches.
LEMMA FirstToServer ==
    ASSUME BaseInv, to_server # <<>>
    PROVE  /\ Len(to_server) \in Nat \ {0} /\ Head(to_server) = to_server[1]
           /\ Head(to_server) \in Requests \cup Renewals
           /\ Tail(to_server) \in Seq(Requests \cup Renewals)
           /\ Len(Tail(to_server)) = Len(to_server) - 1
           /\ \A i \in 1 .. Len(to_server) - 1 :
                 Tail(to_server)[i] = to_server[i + 1] /\ Tail(to_server)[i].xid = "request"
           /\ Tail(to_server) # <<>> => Head(Tail(to_server)).xid = "request"
<1>1. to_server \in Seq(Requests \cup Renewals)
  BY DEF BaseInv, TypeOK
<1> DEFINE ts == Tail(to_server)
           n == Len(to_server)
<1>2. /\ n \in Nat \ {0} /\ Head(to_server) = to_server[1]
      /\ ts \in Seq(Requests \cup Renewals) /\ Len(ts) = n - 1
      /\ Head(to_server) \in Requests \cup Renewals
      /\ \A i \in 1 .. n - 1 : ts[i] = to_server[i + 1]
  BY <1>1, HeadTailProperties, EmptySeq
<1>3. ASSUME NEW i \in 1 .. n - 1 PROVE ts[i].xid = "request"
  <2>1. i + 1 \in 1 .. n /\ i + 1 # 1
    BY <1>2
  <2>2. to_server[i + 1] \in Requests \cup Renewals
    BY <1>1, <2>1, ElementOfSeq
  <2>3. to_server[i + 1].xid # "setWatches"
    BY <2>1 DEF BaseInv, LinkInv
  <2> QED
    BY <1>2, <2>2, <2>3, ToServerFields
<1>4. ts # <<>> => Head(ts) = ts[1] /\ 1 \in 1 .. n - 1
  <2> HIDE DEF ts
  <2>1. ts # <<>> => Len(ts) \in Nat \ {0} /\ Head(ts) = ts[1]
    BY <1>2, EmptySeq
  <2> QED
    BY <1>2, <2>1
<1> QED
  BY <1>2, <1>3, <1>4

\* Nothing is sent and nothing is seen.
LEMMA BaseInit == Init => BaseInv
<1> SUFFICES ASSUME Init PROVE BaseInv
  OBVIOUS
<1>1. LogInv /\ LinkInv /\ Zxids(from_server, last_zxid, server.applied)
  BY DEF Init, LogInv, LinkInv, Renewing, Zxids
<1> QED
  BY <1>1, TypeInit DEF BaseInv

\* The tree changes: the log grows by a legal change.
LEMMA BaseTree ==
    ASSUME BaseInv, TreeChanges
    PROVE  /\ BaseInv'
           /\ Len(log) \in Nat /\ \A i \in 1 .. Len(log) : log[i] = log'[i]
<1> DEFINE n == Len(log)
<1>1. PICK p \in Paths, kind \in {"create", "set", "delete", "child"} :
          /\ (kind = "create") # Exists(p, n)
          /\ log' = Append(log, [path |-> p, kind |-> kind])
  BY DEF TreeChanges
<1>2. log \in Seq([path : Paths, kind : {"create", "set", "delete", "child"}])
  BY DEF BaseInv, TypeOK
<1>3. /\ n \in Nat /\ Len(log') = n + 1 /\ log'[n + 1] = [path |-> p, kind |-> kind]
      /\ \A i \in 1 .. n : log'[i] = log[i]
  BY <1>1, <1>2, AppendProperties
<1> HIDE DEF n
<1>4. ASSUME NEW z \in 1 .. n + 1 PROVE LegalChange(log', z)
  <2>1. z - 1 \in Nat /\ \A i \in 1 .. z - 1 : log'[i] = log[i]
    BY <1>3
  <2>2. \A q : There(log', q, z - 1) <=> There(log, q, z - 1)
    BY <2>1, SameLog
  <2>3. CASE z = n + 1
    <3>1. log'[z].path = p /\ log'[z].kind = kind /\ z - 1 = n
      BY <1>3, <2>3
    <3>2. Exists(p, n) <=> There(log, p, n)
      BY OwnLog
    <3>3. kind = "create" <=> ~Exists(p, n)
      <4>1. Exists(p, n) \in BOOLEAN
        BY DEF Exists
      <4> QED
        BY <1>1, <4>1, Zenon
    <3>4. There(log', p, z - 1) <=> There(log, p, n)
      BY <2>2, <3>1
    <3> QED
      BY <3>1, <3>2, <3>3, <3>4 DEF LegalChange
  <2>4. CASE z # n + 1
    <3>1. z \in 1 .. n
      BY <1>3, <2>4
    <3>2. LegalChange(log, z) /\ log'[z] = log[z]
      BY <1>3, <3>1 DEF BaseInv, LogInv, n
    <3> QED
      BY <2>2, <3>2 DEF LegalChange
  <2> QED
    BY <2>3, <2>4
<1>5. LogInv'
  BY <1>3, <1>4 DEF LogInv
<1>6. UNCHANGED <<link, active, last_zxid, to_server, from_server, server>>
  BY DEF TreeChanges, tableVars, wireVars
<1>7. Renewing' = Renewing /\ SetWatches' = SetWatches
  BY <1>6 DEF Renewing, SetWatches, collect_keys
<1>8. LinkInv'
  <2>1. last_zxid <= n /\ last_zxid \in Nat /\ (link # "none" => server.applied <= n)
        /\ server.applied \in Nat
    BY DEF BaseInv, LinkInv, TypeOK, n
  <2>2. last_zxid <= Len(log') /\ (link # "none" => server.applied <= Len(log'))
    BY <1>3, <2>1
  <2> QED
    BY <1>6, <1>7, <2>2 DEF BaseInv, LinkInv
<1>9. Zxids(from_server, last_zxid, server.applied)'
  BY <1>6 DEF BaseInv, Zxids
<1>10. TypeOK'
  BY TypeServer DEF BaseInv
<1> QED
  BY <1>3, <1>5, <1>8, <1>9, <1>10 DEF BaseInv, n

\* While the watches are being renewed the server applies changes in silence.
LEMMA BaseApplies ==
    ASSUME BaseInv, ServerApplies
    PROVE  BaseInv' /\ Asked' = Asked /\ Renewing' = Renewing
<1>1. /\ link = "up" /\ server.applied < Len(log) /\ server.applied \in Nat /\ Len(log) \in Nat
      /\ server'.applied = server.applied + 1
      /\ UNCHANGED <<link, active, last_zxid, to_server, log>>
  <2>1. server \in [applied : Nat, data : SUBSET Paths, child : SUBSET Paths] /\ Len(log) \in Nat
    BY DEF BaseInv, TypeOK
  <2>2. server'.applied = server.applied + 1
    BY <2>1 DEF ServerApplies
  <2> QED
    BY <2>1, <2>2 DEF ServerApplies, tableVars
<1>2. Renewing' = Renewing /\ SetWatches' = SetWatches /\ Asked' = Asked
  BY <1>1 DEF Renewing, SetWatches, collect_keys, Asked
<1>3. CASE from_server' = from_server
  <2>1. Zxids(from_server', last_zxid', server'.applied)
    <3>1. \A i \in 1 .. Len(from_server) : from_server[i].xid # "watch" => from_server[i].zxid \in Nat
      BY ElementOfSeq, FrameFields DEF BaseInv, TypeOK
    <3>2. \A i \in 1 .. Len(from_server) : from_server[i].xid # "watch" =>
             from_server[i].zxid <= server.applied /\ from_server[i].zxid <= server'.applied
      BY <1>1, <3>1 DEF BaseInv, Zxids
    <3> QED
      BY <1>1, <1>3, <3>2 DEF BaseInv, Zxids
  <2>2. Renewing => server'.data = {} /\ server'.child = {}
    <3>1. server \in [applied : Nat, data : SUBSET Paths, child : SUBSET Paths]
      BY DEF BaseInv, TypeOK
    <3>2. \E p, z : server' \in {[server EXCEPT !.applied = z, !.data = @ \ {p}],
                                [server EXCEPT !.applied = z, !.data = @ \ {p}, !.child = @ \ {p}],
                                [server EXCEPT !.applied = z, !.child = @ \ {p}]}
      BY Zenon DEF ServerApplies
    <3>3. server'.data \subseteq server.data /\ server'.child \subseteq server.child
      BY <3>1, <3>2
    <3> QED
      BY <3>3 DEF BaseInv, LinkInv
  <2>3. LinkInv'
    <3>1. last_zxid \in Nat /\ last_zxid <= server.applied
      BY <1>1 DEF BaseInv, LinkInv, TypeOK
    <3>2. last_zxid <= server'.applied /\ server'.applied <= Len(log)
      BY <1>1, <3>1
    <3> QED
      BY <1>1, <1>2, <1>3, <2>2, <3>2 DEF BaseInv, LinkInv
  <2>4. LogInv' /\ TypeOK'
    BY <1>1, TypeServer DEF BaseInv, LogInv, Server
  <2> QED
    BY <1>2, <2>1, <2>3, <2>4 DEF BaseInv
<1>4. CASE from_server' # from_server
  <2>1. ~Renewing
    BY <1>4, Zenon DEF ServerApplies, BaseInv, LinkInv
  <2>2. PICK type \in EventTypes :
            from_server' = Append(from_server, Event(type, log[server.applied + 1].path, server.applied + 1))
    BY <1>4, Zenon DEF ServerApplies, EventTypes
  <2> DEFINE e == Event(type, log[server.applied + 1].path, server.applied + 1)
  <2>3. e.xid = "watch" /\ e \in Frames
    <3>1. server.applied + 1 \in 1 .. Len(log) /\ server.applied + 1 \in Nat
      BY <1>1
    <3>2. log[server.applied + 1].path \in Paths
      BY <3>1, LogEntry DEF BaseInv
    <3> QED
      BY <3>1, <3>2, FrameTypes DEF Event
  <2>4. Zxids(from_server', last_zxid', server'.applied)
    <3>1. /\ from_server \in Seq(Frames) /\ last_zxid \in Nat /\ last_zxid <= server.applied
          /\ Zxids(from_server, last_zxid, server.applied)
      BY <1>1 DEF BaseInv, LinkInv, TypeOK
    <3>2. server'.applied \in Nat /\ server.applied <= server'.applied
      BY <1>1
    <3> HIDE DEF e
    <3>3. Zxids(Append(from_server, e), last_zxid, server'.applied)
      BY <1>1, <2>3, <3>1, <3>2, ZxidsAppend
    <3> QED
      BY <1>1, <2>2, <3>3 DEF e
  <2>5. LinkInv'
    <3>1. last_zxid \in Nat /\ last_zxid <= server.applied
      BY <1>1 DEF BaseInv, LinkInv, TypeOK
    <3>2. last_zxid <= server'.applied /\ server'.applied <= Len(log)
      BY <1>1, <3>1
    <3> QED
      BY <1>1, <1>2, <2>1, <3>2 DEF BaseInv, LinkInv
  <2>6. LogInv' /\ TypeOK'
    BY <1>1, TypeServer DEF BaseInv, LogInv, Server
  <2> QED
    BY <1>2, <2>4, <2>5, <2>6 DEF BaseInv
<1> QED
  BY <1>3, <1>4

\* The server answers a request: then it has renewed the watches.
LEMMA BaseReplies ==
    ASSUME BaseInv, ServerReplies
    PROVE  /\ BaseInv' /\ ~Renewing /\ ~Renewing' /\ Asked = to_server /\ Asked' = Tail(to_server)
           /\ to_server # <<>> /\ Head(to_server).op \in Ops /\ Head(to_server).path \in Paths
<1>1. /\ link = "up" /\ to_server # <<>> /\ Head(to_server).xid = "request"
      /\ to_server' = Tail(to_server) /\ server'.applied = server.applied
      /\ UNCHANGED <<link, active, last_zxid, log>>
  <2>1. server \in [applied : Nat, data : SUBSET Paths, child : SUBSET Paths]
    BY DEF BaseInv, TypeOK
  <2>2. server'.applied = server.applied
    BY <2>1 DEF ServerReplies
  <2> QED
    BY <2>2 DEF ServerReplies, tableVars
<1>2. ~Renewing /\ Asked = to_server
  BY <1>1 DEF Renewing, Asked
<1>3. ~Renewing' /\ Asked' = to_server' /\ \A i \in 1 .. Len(to_server') : to_server'[i].xid = "request"
  BY <1>1, FirstToServer DEF Renewing, Asked
<1>4. PICK rc \in {"ZOK", "ZNONODE"} : from_server' = Append(from_server, Reply(rc, server.applied))
  BY DEF ServerReplies
<1> DEFINE e == Reply(rc, server.applied)
<1>5. server.applied \in Nat /\ e \in Frames /\ e.zxid = server.applied
  <2>1. server.applied \in Nat
    BY DEF BaseInv, TypeOK
  <2> QED
    BY <2>1, FrameTypes DEF Reply
<1>6. Zxids(from_server', last_zxid', server'.applied)
  <2>1. /\ from_server \in Seq(Frames) /\ last_zxid \in Nat /\ last_zxid <= server.applied
        /\ Zxids(from_server, last_zxid, server.applied)
    BY <1>1 DEF BaseInv, LinkInv, TypeOK
  <2> HIDE DEF e
  <2>2. Zxids(Append(from_server, e), last_zxid, server.applied)
    BY <1>5, <2>1, ZxidsAppend
  <2> QED
    BY <1>1, <1>4, <2>2 DEF e
<1>7. LinkInv' /\ LogInv'
  BY <1>1, <1>3 DEF BaseInv, LinkInv, LogInv
<1>8. TypeOK'
  BY TypeServer DEF BaseInv, Server
<1>9. Head(to_server).op \in Ops /\ Head(to_server).path \in Paths
  BY <1>1, FirstToServer, ToServerFields
<1> QED
  BY <1>1, <1>2, <1>3, <1>6, <1>7, <1>8, <1>9 DEF BaseInv

\* The server renews the watches.
LEMMA BaseSetsWatches ==
    ASSUME BaseInv, ServerSetsWatches
    PROVE  /\ BaseInv' /\ Renewing /\ ~Renewing' /\ Asked' = Asked /\ from_server = <<>>
           /\ Head(to_server) = SetWatches
           /\ from_server' = Append(SetToSeq(MissedEvents(SetWatches, server.applied)),
                                    [xid |-> "setWatches", zxid |-> server.applied])
           /\ SetToSeq(MissedEvents(SetWatches, server.applied)) \in Seq(Frames)
           /\ \A i \in 1 .. Len(SetToSeq(MissedEvents(SetWatches, server.applied))) :
                 SetToSeq(MissedEvents(SetWatches, server.applied))[i]
                    \in MissedEvents(SetWatches, server.applied)
           /\ \A e \in MissedEvents(SetWatches, server.applied) :
                 \E i \in 1 .. Len(SetToSeq(MissedEvents(SetWatches, server.applied))) :
                    SetToSeq(MissedEvents(SetWatches, server.applied))[i] = e
<1> DEFINE z == server.applied
           M == MissedEvents(SetWatches, z)
           ms == SetToSeq(M)
           sw == [xid |-> "setWatches", zxid |-> z]
<1>1. /\ link = "up" /\ to_server # <<>> /\ Head(to_server).xid = "setWatches"
      /\ to_server' = Tail(to_server) /\ server'.applied = z
      /\ UNCHANGED <<link, active, last_zxid, log>>
  <2>1. server \in [applied : Nat, data : SUBSET Paths, child : SUBSET Paths]
    BY DEF BaseInv, TypeOK
  <2>2. server'.applied = z
    BY <2>1 DEF ServerSetsWatches
  <2> QED
    BY <2>2 DEF ServerSetsWatches, tableVars
<1>2. Renewing /\ Asked = Tail(to_server) /\ Head(to_server) = SetWatches /\ from_server = <<>>
  BY <1>1 DEF Renewing, Asked, BaseInv, LinkInv
<1>3. ~Renewing' /\ Asked' = to_server' /\ \A i \in 1 .. Len(to_server') : to_server'[i].xid = "request"
  BY <1>1, FirstToServer DEF Renewing, Asked
<1>4. z \in Nat /\ IsFiniteSet(M) /\ M \subseteq Frames
  <2>1. SetWatches \in Renewals /\ z \in Nat
    BY SetWatchesType DEF BaseInv, TypeOK
  <2> QED
    BY <2>1, MissedAre
<1>5. from_server' = (from_server \o ms) \o <<sw>>
  BY <1>2 DEF ServerSetsWatches
<1>6. sw \in Frames /\ sw.xid = "setWatches" /\ sw.zxid = z
  BY <1>4, FrameTypes
<1> HIDE DEF sw, z, M
<1>7. ms \in Seq(M) /\ ms \in Seq(Frames) /\ \A e \in M : \E i \in DOMAIN ms : ms[i] = e
  <2>1. ms \in Seq(M) /\ \A e \in M : \E i \in DOMAIN ms : ms[i] = e
    BY <1>4, SetAsSequence
  <2> QED
    BY <1>4, <2>1, SeqMonotonic
<1>8. /\ \A i \in 1 .. Len(ms) : ms[i] \in M
      /\ \A e \in M : \E i \in 1 .. Len(ms) : ms[i] = e
  <2> HIDE DEF ms
  <2> QED
    BY <1>7, ElementOfSeq
<1> HIDE DEF ms
<1>9. from_server' = Append(ms, sw)
  <2>1. from_server \o ms = ms
    BY <1>2, <1>7, ConcatEmptySeq
  <2> QED
    BY <1>5, <1>6, <1>7, <2>1, AppendIsConcat
<1>10. Zxids(from_server', last_zxid', server'.applied)
  <2>1. \A f \in M : f.xid = "watch"
    BY DEF M, MissedEvents, Event
  <2>2. last_zxid \in Nat /\ last_zxid <= z
    BY <1>1 DEF BaseInv, LinkInv, TypeOK, z
  <2>3. Zxids(ms, last_zxid, z)
    BY <1>8, <2>1 DEF Zxids
  <2>4. z <= z
    BY <1>4
  <2>5. Zxids(Append(ms, sw), last_zxid, z)
    BY <1>4, <1>6, <1>7, <2>2, <2>3, <2>4, ZxidsAppend
  <2> QED
    BY <1>1, <1>9, <2>5
<1>11. LinkInv' /\ LogInv'
  BY <1>1, <1>3 DEF BaseInv, LinkInv, LogInv, z
<1>12. TypeOK'
  BY TypeServer DEF BaseInv, Server
<1>13. BaseInv'
  BY <1>10, <1>11, <1>12 DEF BaseInv
<1>14. Asked' = Asked
  BY <1>1, <1>2, <1>3
<1> QED
  BY <1>2, <1>3, <1>7, <1>8, <1>9, <1>13, <1>14 DEF sw, ms, M, z

\* A request is queued behind what is there.
LEMMA BaseRequest ==
    ASSUME BaseInv, Request
    PROVE  /\ BaseInv' /\ Renewing' = Renewing
           /\ UNCHANGED <<link, active, since, last_zxid, from_server, log, server>>
           /\ \E r \in Requests, s \in [op : Ops, path : Paths, watcher : Watchers] :
                 /\ s.op = r.op /\ s.path = r.path
                 /\ Asked' = Append(Asked, r) /\ sent_requests' = Append(sent_requests, s)
<1>1. PICK op \in Ops, p \in Paths, w \in Watchers :
         /\ to_server' = Append(to_server, [xid |-> "request", op |-> op, path |-> p])
         /\ sent_requests' = Append(sent_requests, [op |-> op, path |-> p, watcher |-> w])
  BY DEF Request
<1>2. UNCHANGED <<link, active, since, last_zxid, from_server, log, server>>
  BY DEF Request, tableVars, serverVars
<1> DEFINE r == [xid |-> "request", op |-> op, path |-> p]
           s == [op |-> op, path |-> p, watcher |-> w]
           n == Len(to_server)
<1>3. r \in Requests /\ r.xid = "request" /\ r \in Requests \cup Renewals
      /\ s \in [op : Ops, path : Paths, watcher : Watchers] /\ s.op = r.op /\ s.path = r.path
  BY DEF Requests
<1> HIDE DEF r, s
<1>4. to_server \in Seq(Requests \cup Renewals)
  BY DEF BaseInv, TypeOK
<1>5. /\ n \in Nat /\ Len(to_server') = n + 1 /\ to_server'[n + 1] = r
      /\ \A i \in 1 .. n : to_server'[i] = to_server[i]
      /\ to_server' # <<>>
      /\ Head(to_server') = IF to_server = <<>> THEN r ELSE Head(to_server)
      /\ Tail(to_server') = IF to_server = <<>> THEN <<>> ELSE Append(Tail(to_server), r)
  BY <1>1, <1>3, <1>4, AppendProperties, HeadTailAppend DEF r
<1>6. Renewing' = Renewing /\ SetWatches' = SetWatches
  <2>1. Renewing' = Renewing
    BY <1>2, <1>3, <1>5 DEF Renewing
  <2> QED
    BY <1>2, <2>1 DEF SetWatches, collect_keys
<1>7. Asked' = Append(Asked, r)
  BY <1>1, <1>3, <1>5, <1>6 DEF Asked, Renewing, r
<1> HIDE DEF n
<1>8. \A i \in 1 .. Len(to_server') : to_server'[i].xid = "setWatches" => i = 1 /\ link' = "up"
  <2> SUFFICES ASSUME NEW i \in 1 .. n + 1, to_server'[i].xid = "setWatches"
               PROVE  i = 1 /\ link = "up"
    BY <1>2, <1>5
  <2>1. i # n + 1
    BY <1>3, <1>5
  <2>2. i \in 1 .. n
    BY <1>5, <2>1
  <2> QED
    BY <1>5, <2>2 DEF BaseInv, LinkInv, n
<1>9. LinkInv'
  <2>1. Renewing => Head(to_server') = Head(to_server)
    BY <1>5 DEF Renewing
  <2> QED
    BY <1>2, <1>6, <1>8, <2>1 DEF BaseInv, LinkInv
<1>10. TypeOK' /\ LogInv' /\ Zxids(from_server, last_zxid, server.applied)'
  BY <1>2, TypeLink DEF BaseInv, LogInv
<1> QED
  BY <1>1, <1>2, <1>3, <1>6, <1>7, <1>9, <1>10 DEF BaseInv, s

\* A connection starts, or is accepted: SetWatches goes in front.
LEMMA BaseConnect ==
    ASSUME BaseInv, PrimeConnection \/ Connected
    PROVE  /\ BaseInv' /\ Asked' = Asked /\ from_server = <<>> /\ from_server' = <<>>
           /\ (link' = "up" => Renewing')
           /\ UNCHANGED <<active, since, last_zxid, log, sent_requests>>
<1>1. CASE PrimeConnection
  <2>1. PICK z \in last_zxid .. Len(log) : server' = [NoServer EXCEPT !.applied = z]
    BY <1>1 DEF PrimeConnection
  <2>2. /\ link = "none" /\ link' = "handshake"
        /\ UNCHANGED <<active, since, last_zxid, log, sent_requests, to_server, from_server>>
    BY <1>1 DEF PrimeConnection, tableVars, wireVars
  <2>3. /\ server'.applied = z /\ last_zxid <= z /\ z <= Len(log) /\ from_server = <<>>
        /\ server'.data = {} /\ server'.child = {}
    <3>1. last_zxid \in Nat /\ Len(log) \in Nat
      BY DEF BaseInv, TypeOK
    <3> QED
      BY <2>1, <2>2, <3>1 DEF NoServer, BaseInv, LinkInv
  <2>4. ~Renewing /\ ~Renewing' /\ Asked' = Asked
    BY <2>2 DEF Renewing, Asked
  <2>5. LinkInv'
    BY <2>2, <2>3, <2>4 DEF BaseInv, LinkInv
  <2>6. Zxids(from_server, last_zxid, server.applied)'
    BY <2>2, <2>3 DEF Zxids
  <2>7. TypeOK' /\ LogInv'
    BY <1>1, <2>2, TypeLink DEF BaseInv, LogInv
  <2> QED
    BY <2>2, <2>3, <2>4, <2>5, <2>6, <2>7 DEF BaseInv
<1>2. CASE Connected
  <2>1. /\ link = "handshake" /\ link' = "up" /\ to_server' = <<SetWatches>> \o to_server
        /\ UNCHANGED <<active, since, last_zxid, log, sent_requests, from_server, server>>
    BY <1>2 DEF Connected, send_set_watches, queue_front, tableVars, serverVars
  <2>2. SetWatches \in Requests \cup Renewals /\ SetWatches.xid = "setWatches" /\ SetWatches' = SetWatches
    BY <2>1, SetWatchesType DEF BaseInv, SetWatches, collect_keys
  <2>3. to_server \in Seq(Requests \cup Renewals) /\ <<SetWatches>> \in Seq(Requests \cup Renewals)
    BY <2>2 DEF BaseInv, TypeOK
  <2> DEFINE n == Len(to_server)
             f == SetWatches
  <2>4. /\ n \in Nat /\ Len(to_server') = n + 1 /\ to_server'[1] = f
        /\ \A i \in 2 .. n + 1 : to_server'[i] = to_server[i - 1] /\ i - 1 \in 1 .. n
        /\ to_server' # <<>> /\ Head(to_server') = f /\ Tail(to_server') = to_server
    <3> HIDE DEF f
    <3>1. to_server' = <<f>> \o to_server /\ <<f>> \in Seq(Requests \cup Renewals)
      BY <2>1, <2>3 DEF f
    <3>2. /\ n \in Nat /\ Len(to_server') = n + 1
          /\ \A i \in 1 .. n + 1 : to_server'[i] = IF i <= 1 THEN f ELSE to_server[i - 1]
      BY <2>3, <3>1, ConcatProperties
    <3>3. to_server' # <<>> /\ to_server' \in Seq(Requests \cup Renewals)
      BY <2>3, <3>1, <3>2, ConcatProperties
    <3>4. Head(to_server') = f
      BY <3>2, <3>3
    <3>5. Tail(to_server') = to_server
      <4>1. /\ Tail(to_server') \in Seq(Requests \cup Renewals) /\ Len(Tail(to_server')) = n
            /\ \A i \in 1 .. n : Tail(to_server')[i] = to_server'[i + 1]
        BY <3>2, <3>3, HeadTailProperties
      <4>2. \A i \in 1 .. n : Tail(to_server')[i] = to_server[i]
        BY <3>2, <4>1
      <4> QED
        BY <2>3, <4>1, <4>2, SeqEqual
    <3> QED
      BY <3>2, <3>3, <3>4, <3>5
  <2> HIDE DEF n, f
  <2>5. Renewing' /\ ~Renewing /\ Asked' = Asked /\ from_server = <<>>
    BY <2>1, <2>2, <2>4 DEF Renewing, Asked, BaseInv, LinkInv, f
  <2>6. server.data = {} /\ server.child = {}
    BY <2>1 DEF BaseInv, LinkInv
  <2>7. \A i \in 1 .. Len(to_server') : to_server'[i].xid = "setWatches" => i = 1 /\ link' = "up"
    <3>1. \A i \in 1 .. n : to_server[i].xid # "setWatches"
      BY <2>1 DEF BaseInv, LinkInv, n
    <3>2. \A i \in 1 .. n + 1 : i = 1 \/ i \in 2 .. n + 1
      OBVIOUS
    <3> QED
      BY <2>1, <2>4, <3>1, <3>2
  <2>8. LinkInv'
    BY <2>1, <2>2, <2>4, <2>5, <2>6, <2>7 DEF BaseInv, LinkInv, f
  <2>9. TypeOK' /\ LogInv' /\ Zxids(from_server, last_zxid, server.applied)'
    BY <1>2, <2>1, TypeLink DEF BaseInv, LogInv
  <2> QED
    BY <2>1, <2>5, <2>8, <2>9 DEF BaseInv
<1> QED
  BY <1>1, <1>2

\* A connection is lost, with all that was asked.
LEMMA BaseDisconnected ==
    ASSUME BaseInv, Disconnected
    PROVE  /\ BaseInv' /\ link' = "none" /\ ~Renewing'
           /\ Asked' = <<>> /\ from_server' = <<>> /\ sent_requests' = <<>>
           /\ UNCHANGED <<active, since, last_zxid, log>>
<1>1. /\ link' = "none" /\ to_server' = <<>> /\ from_server' = <<>> /\ sent_requests' = <<>>
      /\ UNCHANGED <<active, since, last_zxid, log>>
  BY DEF Disconnected, tableVars
<1>2. ~Renewing' /\ Asked' = <<>>
  BY <1>1 DEF Renewing, Asked
<1>3. LinkInv' /\ LogInv' /\ Zxids(from_server, last_zxid, server.applied)'
  BY <1>1, <1>2 DEF BaseInv, LinkInv, LogInv, Zxids
<1>4. TypeOK'
  BY TypeLink DEF BaseInv
<1> QED
  BY <1>1, <1>2, <1>3, <1>4 DEF BaseInv

\* The completion thread has nothing to do with it.
LEMMA BaseDeliver ==
    ASSUME BaseInv, deliverWatchers
    PROVE  /\ BaseInv' /\ Asked' = Asked /\ Renewing' = Renewing
           /\ UNCHANGED <<link, active, since, last_zxid, from_server, log, server, sent_requests>>
<1>1. UNCHANGED <<link, active, since, last_zxid, to_server, from_server, log, server, sent_requests>>
  BY DEF deliverWatchers, tableVars, wireVars, serverVars
<1>2. Renewing' = Renewing /\ SetWatches' = SetWatches /\ Asked' = Asked
  BY <1>1 DEF Renewing, SetWatches, collect_keys, Asked
<1>3. LinkInv' /\ LogInv' /\ Zxids(from_server, last_zxid, server.applied)'
  BY <1>1, <1>2 DEF BaseInv, LinkInv, LogInv
<1>4. TypeOK'
  BY TypeLink DEF BaseInv
<1> QED
  BY <1>1, <1>2, <1>3, <1>4 DEF BaseInv

\* A frame is read: the client has seen its zxid.
LEMMA BaseRead ==
    ASSUME BaseInv, ReadReply \/ ReadWatchEvent \/ ReadSetWatches, ReadReply => sent_requests # <<>>
    PROVE  /\ BaseInv' /\ Asked' = Asked /\ ~Renewing /\ ~Renewing'
           /\ link = "up" /\ from_server # <<>> /\ Head(from_server) \in Frames
           /\ from_server' = Tail(from_server)
           /\ Head(from_server).xid \in {"watch", "reply", "setWatches"}
           /\ ReadReply => Head(from_server).xid = "reply"
           /\ ReadWatchEvent => Head(from_server).xid = "watch"
           /\ ReadSetWatches => Head(from_server).xid = "setWatches"
           /\ last_zxid' = IF Head(from_server).xid # "watch" THEN Head(from_server).zxid ELSE last_zxid
           /\ last_zxid <= last_zxid'
           /\ UNCHANGED <<link, log, server>>
<1> DEFINE e == Head(from_server)
<1>1. PICK xid \in {"watch", "reply", "setWatches"} :
         /\ ReadFrame(xid) /\ (ReadReply => xid = "reply")
         /\ (ReadWatchEvent => xid = "watch") /\ (ReadSetWatches => xid = "setWatches")
  <2>1. ASSUME NEW a, NEW b, ReadFrame(a), ReadFrame(b) PROVE a = b
    BY <2>1 DEF ReadFrame
  <2>2. /\ ReadReply => ReadFrame("reply")
        /\ ReadWatchEvent => ReadFrame("watch")
        /\ ReadSetWatches => ReadFrame("setWatches")
    BY DEF ReadReply, ReadWatchEvent, ReadSetWatches
  <2> QED
    BY <2>1, <2>2
<1>2. /\ from_server # <<>> /\ e \in Frames /\ e.xid = xid /\ link = "up"
      /\ from_server' = Tail(from_server)
      /\ last_zxid' = (IF e.zxid > 0 THEN e.zxid ELSE last_zxid)
      /\ UNCHANGED <<link, to_server, log, server>>
  BY <1>1, FrameRead DEF ReadFrame, SeeZxid, BaseInv
<1>3. /\ from_server \in Seq(Frames) /\ last_zxid \in Nat /\ server.applied \in Nat
      /\ last_zxid <= server.applied /\ Zxids(from_server, last_zxid, server.applied)
      /\ server.applied <= Len(log) /\ Len(log) \in Nat
  BY <1>2 DEF BaseInv, LinkInv, TypeOK
<1> DEFINE up == IF e.xid # "watch" THEN e.zxid ELSE last_zxid
<1>4. /\ Zxids(Tail(from_server), up, server.applied) /\ up \in Nat
      /\ last_zxid <= up /\ up <= server.applied
  BY <1>2, <1>3, ZxidsTail
<1>5. last_zxid' = up
  <2>1. CASE e.xid = "watch"
    <3>1. e.zxid = -1
      BY <1>2, <2>1, FrameFields
    <3> QED
      BY <1>2, <2>1, <3>1
  <2>2. CASE e.xid # "watch"
    <3>1. up = e.zxid
      BY <2>2
    <3> QED
      BY <1>2, <1>3, <1>4, <3>1
  <2> QED
    BY <2>1, <2>2
<1>6. ~Renewing /\ ~Renewing' /\ Asked' = Asked
  BY <1>2 DEF Renewing, Asked, BaseInv, LinkInv
<1> HIDE DEF up
<1>7. LinkInv'
  <2>1. last_zxid' <= Len(log)
    BY <1>3, <1>4, <1>5
  <2>2. last_zxid' <= server.applied
    BY <1>4, <1>5
  <2> QED
    BY <1>2, <1>6, <2>1, <2>2 DEF BaseInv, LinkInv
<1>8. LogInv' /\ TypeOK'
  BY <1>2, TypeRead DEF BaseInv, LogInv
<1>9. BaseInv'
  BY <1>2, <1>4, <1>5, <1>7, <1>8 DEF BaseInv
<1> QED
  BY <1>1, <1>2, <1>4, <1>5, <1>6, <1>9 DEF up

-----------------------------------------------------------------------------
(* The promise: what comes behind a place of the queue, or is set at the   *)
(* server, tells a watch of everything.                                    *)

\* SetWatches has been answered, or there was nothing to renew.
Renewed == link = "up" /\ ~Renewing

AtServer(sv, t) == IF t = "child" THEN sv.child ELSE sv.data

\* A watch of table t on p that was left at z will be told, by what is behind
\* place i of the queue fs or by the server in state sv, of what concerns it.
Told(l, fs, rn, sv, t, p, z, i) ==
    /\ InOrder(l, fs, t, p, z, i)
    /\ rn => \/ Comes(fs, t, p, i)
             \/ p \in AtServer(sv, t) /\ ~Touched(l, t, p, z, sv.applied)

\* Nothing the client has seen, up to seen, concerns a watch that it holds.
Fresh(l, t, p, z, seen) ==
    z <= seen /\ (t # "exist" => There(l, p, z)) /\ ~Touched(l, t, p, z, seen)

WatchInv ==
    \A t \in Tables, p \in Paths : \A w \in active[t][p] :
        /\ Fresh(log, t, p, since[t][p][w], last_zxid)
        /\ Told(log, from_server, Renewed, server, t, p, since[t][p][w], 0)

\* The reply f, at place i of the queue fs, leaves a watch for request r that
\* will be told of everything behind the reply.
Leaves(l, fs, rn, sv, r, f, i) ==
    /\ f.rc = "ZOK" <=> There(l, r.path, f.zxid)
    /\ \A t \in result_checker(r.op, f.rc) : Told(l, fs, rn, sv, t, r.path, f.zxid, i)

Answers(l, fs, rn, sv, sent, asked, m) ==
    /\ Match(fs, sent, asked, m)
    /\ \A n \in 1 .. Len(m) : Leaves(l, fs, rn, sv, sent[n], fs[m[n]], m[n])

Inv == /\ BaseInv
       /\ WatchInv
       /\ \E m : Answers(log, from_server, Renewed, server, sent_requests, Asked, m)

\* Before the watches are renewed an empty queue promises nothing.
LEMMA ToldNothing ==
    ASSUME NEW l, NEW sv, NEW t, NEW p, NEW z, NEW i \in Nat
    PROVE  Told(l, <<>>, FALSE, sv, t, p, z, i)
BY DEF Told, InOrder

\* The tree changes behind what the server has applied.
LEMMA ToldLog ==
    ASSUME NEW l, NEW k, NEW n \in Nat, \A a \in 1 .. n : l[a] = k[a],
           NEW fs \in Seq(Frames), \A a \in 1 .. Len(fs) : fs[a].xid # "watch" => fs[a].zxid <= n,
           NEW rn, NEW sv, rn => sv.applied \in Nat /\ sv.applied <= n,
           NEW t, NEW p, NEW z, NEW i \in Nat, Told(l, fs, rn, sv, t, p, z, i)
    PROVE  Told(k, fs, rn, sv, t, p, z, i)
<1>1. InOrder(k, fs, t, p, z, i)
  BY InOrderLog DEF Told
<1>2. rn => (Touched(l, t, p, z, sv.applied) <=> Touched(k, t, p, z, sv.applied))
  <2> SUFFICES ASSUME rn PROVE Touched(l, t, p, z, sv.applied) <=> Touched(k, t, p, z, sv.applied)
    OBVIOUS
  <2>1. sv.applied \in Nat /\ \A a \in 1 .. sv.applied : l[a] = k[a]
    OBVIOUS
  <2> QED
    BY <2>1, SameLog
<1> QED
  BY <1>1, <1>2 DEF Told

\* The server applies a change: it sends the event to a watch that it finds,
\* and what it does not find it is not asked to tell of.
LEMMA ToldApplies ==
    ASSUME NEW l, NEW fs \in Seq(Frames), NEW gs, NEW rn, NEW sv, NEW nsv, NEW z \in Nat,
           l[z + 1].kind \in Kinds, l[z + 1].path \in Paths, LegalChange(l, z + 1),
           sv.applied = z, nsv.applied = z + 1,
           NEW type \in EventTypes, type = EventOf(l[z + 1].kind),
           gs = IF \E u \in TablesFor(type) : l[z + 1].path \in AtServer(sv, u)
                THEN Append(fs, Event(type, l[z + 1].path, z + 1)) ELSE fs,
           \A u \in Tables : \A q \in AtServer(sv, u) :
              q \in AtServer(nsv, u) \/ (q = l[z + 1].path /\ u \in TablesFor(type)),
           NEW t \in Tables, NEW p, NEW s \in Nat, s <= z, t # "exist" => There(l, p, s),
           NEW i \in 0 .. Len(fs), Told(l, fs, rn, sv, t, p, s, i)
    PROVE  Told(l, gs, rn, nsv, t, p, s, i)
<1> DEFINE c == l[z + 1]
           e == Event(type, c.path, z + 1)
           found == \E u \in TablesFor(type) : c.path \in AtServer(sv, u)
<1>1. /\ e.xid = "watch" /\ e.path = c.path /\ e.type = type /\ e.at = z + 1 /\ e \in Frames
      /\ s < z + 1 /\ z + 1 \in Nat
  BY FrameTypes DEF Event
<1>2. Announces(e, t, p) <=> c.path = p /\ t \in TablesFor(type)
  BY <1>1 DEF Announces
<1>3. InOrder(l, fs, t, p, s, i)
  BY DEF Told
<1> HIDE DEF e
<1>4. InOrder(l, gs, t, p, s, i) /\ (Comes(fs, t, p, i) => Comes(gs, t, p, i))
      /\ (found /\ Announces(e, t, p) => Comes(gs, t, p, i))
  <2>1. CASE found
    <3>1. gs = Append(fs, e)
      BY <2>1 DEF e
    <3> HIDE DEF found
    <3> QED
      BY <1>1, <1>3, <3>1, InOrderAppend
  <2>2. CASE ~found
    BY <1>3, <2>2
  <2> QED
    BY <2>1, <2>2
<1>5. ASSUME rn, ~Comes(gs, t, p, i)
      PROVE  p \in AtServer(nsv, t) /\ ~Touched(l, t, p, s, z + 1)
  <2>1. p \in AtServer(sv, t) /\ ~Touched(l, t, p, s, z)
    BY <1>4, <1>5 DEF Told
  <2>2. ~(c.path = p /\ t \in TablesFor(type))
    BY <1>2, <1>4, <1>5, <2>1
  <2>3. ~Touched(l, t, p, s, z + 1)
    BY <2>1, <2>2, TouchedNext
  <2> QED
    BY <2>1, <2>2, <2>3
<1> QED
  BY <1>4, <1>5 DEF Told

\* The server replies: what came before the reply has been told of.
LEMMA ToldReplies ==
    ASSUME NEW l, NEW fs \in Seq(Frames), NEW e \in Frames, NEW sv, NEW nsv,
           e.zxid = sv.applied, nsv.applied = sv.applied, e.xid = "reply",
           NEW t, AtServer(sv, t) \subseteq AtServer(nsv, t), NEW p, NEW s, NEW i \in 0 .. Len(fs),
           Told(l, fs, TRUE, sv, t, p, s, i)
    PROVE  Told(l, Append(fs, e), TRUE, nsv, t, p, s, i)
<1>1. InOrder(l, fs, t, p, s, i) /\ ~Announces(e, t, p)
  BY DEF Told, Announces
<1>2. Comes(fs, t, p, i) \/ ~Touched(l, t, p, s, e.zxid)
  BY DEF Told
<1>3. InOrder(l, Append(fs, e), t, p, s, i) /\ (Comes(fs, t, p, i) => Comes(Append(fs, e), t, p, i))
  BY <1>1, <1>2, InOrderAppend
<1> QED
  BY <1>3 DEF Told

\* The watch that the last frame, a reply, leaves at the server.
LEMMA ToldLast ==
    ASSUME NEW l, NEW fs, Len(fs) \in Nat, NEW rn, NEW sv, NEW z \in Nat, sv.applied = z,
           NEW t \in Tables, NEW p, p \in AtServer(sv, t), t = "exist" => ~There(l, p, z)
    PROVE  Told(l, fs, rn, sv, t, p, z, Len(fs))
<1>1. InOrder(l, fs, t, p, z, Len(fs))
  BY DEF InOrder
<1>2. ~Touched(l, t, p, z, z)
  <2>1. CASE t = "exist"
    BY <2>1 DEF Touched
  <2>2. CASE t # "exist"
    BY <2>2, Untouched DEF Tables
  <2> QED
    BY <2>1, <2>2
<1> QED
  BY <1>1, <1>2 DEF Told

\* The first frame is read, which is not an event for the watch.
LEMMA ToldTail ==
    ASSUME NEW l, NEW fs \in Seq(Frames), fs # <<>>, NEW rn, NEW sv, NEW t, NEW p, NEW z,
           NEW i \in 0 .. Len(fs), Told(l, fs, rn, sv, t, p, z, i),
           NEW h \in Nat, h = IF i = 0 THEN 0 ELSE i - 1,
           i = 0 => ~Announces(Head(fs), t, p)
    PROVE  Told(l, Tail(fs), rn, sv, t, p, z, h)
<1>1. InOrder(l, fs, t, p, z, i)
  BY DEF Told
<1>2. InOrder(l, Tail(fs), t, p, z, h) /\ (Comes(fs, t, p, i) => Comes(Tail(fs), t, p, h))
  BY <1>1, InOrderTail
<1> QED
  BY <1>2 DEF Told

\* The zxid of the first frame includes nothing that concerns the watch.
LEMMA FreshTail ==
    ASSUME NEW l, NEW fs \in Seq(Frames), fs # <<>>, NEW rn, NEW sv, NEW t, NEW p, NEW z \in Nat,
           Told(l, fs, rn, sv, t, p, z, 0), NEW seen \in Nat, NEW now \in Nat, seen <= now,
           now = IF Head(fs).xid # "watch" THEN Head(fs).zxid ELSE seen,
           Fresh(l, t, p, z, seen)
    PROVE  Fresh(l, t, p, z, now)
<1>1. Len(fs) \in Nat \ {0} /\ Head(fs) = fs[1]
  BY EmptySeq
<1>2. z <= now
  BY DEF Fresh
<1>3. CASE Head(fs).xid # "watch"
  <2>1. 1 \in 0 + 1 .. Len(fs) /\ 0 + 1 .. 1 - 1 = {}
    BY <1>1
  <2>2. ~Touched(l, t, p, z, fs[1].zxid)
    BY <1>1, <1>3, <2>1 DEF Told, InOrder
  <2> QED
    BY <1>1, <1>2, <1>3, <2>2 DEF Fresh
<1>4. CASE Head(fs).xid = "watch"
  BY <1>4 DEF Fresh
<1> QED
  BY <1>3, <1>4

-----------------------------------------------------------------------------
(* The steps that change the tree and the server.                          *)

\* The table of a reply.
LEMMA CheckedTables ==
    ASSUME NEW op \in Ops, NEW rc \in {"ZOK", "ZNONODE"}, NEW t \in result_checker(op, rc)
    PROVE  /\ t \in Tables /\ (t = "exist" <=> rc # "ZOK")
           /\ t = "exist" => op = "exists"
           /\ t = "node" => op # "children"
           /\ t = "child" => op = "children"
BY DEF result_checker, Tables, Ops

\* What is known of the reply to the n-th request.
LEMMA AnswerFields ==
    ASSUME BaseInv, NEW m, Match(from_server, sent_requests, Asked, m), NEW n \in 1 .. Len(m)
    PROVE  /\ Len(m) \in Nat /\ m[n] \in 1 .. Len(from_server) /\ m[n] \in Nat
           /\ from_server[m[n]] \in Frames /\ from_server[m[n]].xid = "reply"
           /\ from_server[m[n]].zxid \in Nat /\ from_server[m[n]].rc \in {"ZOK", "ZNONODE"}
           /\ last_zxid <= from_server[m[n]].zxid /\ from_server[m[n]].zxid <= server.applied
           /\ sent_requests[n] \in [op : Ops, path : Paths, watcher : Watchers]
           /\ sent_requests[n].op \in Ops /\ sent_requests[n].path \in Paths
<1>1. /\ from_server \in Seq(Frames) /\ sent_requests \in Seq([op : Ops, path : Paths, watcher : Watchers])
      /\ Zxids(from_server, last_zxid, server.applied)
  BY DEF BaseInv, TypeOK
<1>2. /\ m \in Seq(Nat) /\ m[n] \in 1 .. Len(from_server) /\ from_server[m[n]].xid = "reply"
      /\ Len(sent_requests) = Len(m) + Len(Asked)
  BY DEF Match
<1>3. Len(m) \in Nat /\ Len(from_server) \in Nat /\ m[n] \in Nat
  BY <1>1, <1>2, ElementOfSeq
<1>4. from_server[m[n]] \in Frames
  BY <1>1, <1>2, ElementOfSeq
<1>5. last_zxid <= from_server[m[n]].zxid /\ from_server[m[n]].zxid <= server.applied
  BY <1>1, <1>2 DEF Zxids
<1>6. Len(Asked) \in Nat
  <2>1. to_server \in Seq(Requests \cup Renewals)
    BY DEF BaseInv, TypeOK
  <2>2. Renewing => Asked = Tail(to_server) /\ to_server # <<>>
    BY DEF Asked, Renewing
  <2>3. ~Renewing => Asked = to_server
    BY DEF Asked
  <2> QED
    BY <2>1, <2>2, <2>3, HeadTailProperties
<1>7. sent_requests[n] \in [op : Ops, path : Paths, watcher : Watchers]
  <2>1. n \in 1 .. Len(sent_requests)
    BY <1>2, <1>3, <1>6
  <2> QED
    BY <1>1, <2>1, ElementOfSeq
<1>8. from_server[m[n]].zxid \in Nat /\ from_server[m[n]].rc \in {"ZOK", "ZNONODE"}
  BY <1>2, <1>4, FrameFields
<1> QED
  BY <1>2, <1>3, <1>4, <1>5, <1>7, <1>8

\* What is known of a watch in the tables.
LEMMA WatchFields ==
    ASSUME BaseInv, WatchInv, NEW t \in Tables, NEW p \in Paths, NEW w \in active[t][p]
    PROVE  /\ w \in Watchers /\ since[t][p][w] \in Nat
           /\ Fresh(log, t, p, since[t][p][w], last_zxid)
           /\ since[t][p][w] <= last_zxid /\ (t # "exist" => There(log, p, since[t][p][w]))
           /\ Told(log, from_server, Renewed, server, t, p, since[t][p][w], 0)
<1>1. w \in Watchers /\ since[t][p][w] \in Nat
  BY DEF BaseInv, TypeOK
<1>2. /\ Fresh(log, t, p, since[t][p][w], last_zxid)
      /\ Told(log, from_server, Renewed, server, t, p, since[t][p][w], 0)
  BY DEF WatchInv
<1> QED
  BY <1>1, <1>2 DEF Fresh

\* No watch is left and nothing is asked.
LEMMA InvInit == Init => Inv
<1> SUFFICES ASSUME Init PROVE Inv
  OBVIOUS
<1>1. BaseInv
  BY BaseInit
<1>2. WatchInv
  BY DEF Init, WatchInv
<1>3. Answers(log, from_server, Renewed, server, sent_requests, Asked, <<>>)
  BY DEF Init, Answers, Match, Asked, Renewing
<1> QED
  BY <1>1, <1>2, <1>3 DEF Inv

\* The tree changes: nothing on the wire or in the tables looks at it yet.
LEMMA InvTree == Inv /\ TreeChanges => Inv'
<1> SUFFICES ASSUME Inv, TreeChanges PROVE Inv'
  OBVIOUS
<1> DEFINE n == Len(log)
<1>1. BaseInv /\ BaseInv' /\ n \in Nat /\ \A i \in 1 .. n : log[i] = log'[i]
  BY BaseTree DEF Inv
<1>2. UNCHANGED <<link, active, since, last_zxid, to_server, from_server, sent_requests, server>>
  BY DEF TreeChanges, tableVars, wireVars
<1>3. Renewed' = Renewed /\ Asked' = Asked
  BY <1>2 DEF Renewed, Renewing, Asked
<1>4. /\ from_server \in Seq(Frames) /\ server.applied \in Nat /\ last_zxid \in Nat /\ last_zxid <= n
      /\ Renewed => server.applied <= n
      /\ \A a \in 1 .. Len(from_server) : from_server[a].xid # "watch" => from_server[a].zxid <= n
  <2>1. /\ from_server \in Seq(Frames) /\ server.applied \in Nat /\ last_zxid \in Nat /\ last_zxid <= n
        /\ link # "none" => server.applied <= n
        /\ link # "up" => from_server = <<>>
    BY <1>1 DEF BaseInv, TypeOK, LinkInv
  <2>2. ASSUME NEW a \in 1 .. Len(from_server), from_server[a].xid # "watch"
        PROVE  from_server[a].zxid <= n
    <3>1. from_server[a].zxid \in Nat
      BY <2>1, <2>2, ElementOfSeq, FrameFields
    <3>2. from_server[a].zxid <= server.applied
      BY <1>1, <2>2 DEF BaseInv, Zxids
    <3>3. server.applied <= n
      BY <2>1
    <3> QED
      BY <1>1, <2>1, <3>1, <3>2, <3>3
  <2> QED
    BY <2>1, <2>2 DEF Renewed
<1> HIDE DEF n
<1>5. ASSUME NEW t, NEW p, NEW z, NEW i \in Nat, Told(log, from_server, Renewed, server, t, p, z, i)
      PROVE  Told(log', from_server, Renewed, server, t, p, z, i)
  BY <1>1, <1>4, <1>5, ToldLog
<1>6. WatchInv'
  <2> SUFFICES ASSUME NEW t \in Tables, NEW p \in Paths, NEW w \in active[t][p]
               PROVE  /\ Fresh(log', t, p, since[t][p][w], last_zxid)
                      /\ Told(log', from_server, Renewed, server, t, p, since[t][p][w], 0)
    BY <1>2, <1>3 DEF WatchInv
  <2> DEFINE z == since[t][p][w]
  <2>1. z \in Nat /\ Fresh(log, t, p, z, last_zxid) /\ Told(log, from_server, Renewed, server, t, p, z, 0)
    BY <1>1, WatchFields DEF Inv
  <2> HIDE DEF z
  <2>2. z <= last_zxid
    BY <2>1 DEF Fresh
  <2>3. \A a \in 1 .. z : log[a] = log'[a]
    BY <1>1, <1>4, <2>1, <2>2
  <2>4. There(log, p, z) <=> There(log', p, z)
    BY <2>1, <2>3, SameLog
  <2>5. \A a \in 1 .. last_zxid : log[a] = log'[a]
    BY <1>1, <1>4
  <2>6. Touched(log, t, p, z, last_zxid) <=> Touched(log', t, p, z, last_zxid)
    BY <1>4, <2>5, SameLog
  <2>7. Fresh(log', t, p, z, last_zxid)
    BY <2>1, <2>4, <2>6 DEF Fresh
  <2>8. Told(log', from_server, Renewed, server, t, p, z, 0)
    BY <1>5, <2>1
  <2> QED
    BY <2>7, <2>8 DEF z
<1>7. PICK m : Answers(log, from_server, Renewed, server, sent_requests, Asked, m)
  BY DEF Inv
<1>8. Match(from_server, sent_requests, Asked, m)
  BY <1>7 DEF Answers
<1>9. ASSUME NEW k \in 1 .. Len(m)
      PROVE  Leaves(log', from_server, Renewed, server, sent_requests[k], from_server[m[k]], m[k])
  <2>1. /\ m[k] \in Nat /\ m[k] \in 1 .. Len(from_server) /\ from_server[m[k]].xid = "reply"
        /\ from_server[m[k]].zxid \in Nat
    BY <1>1, <1>8, AnswerFields
  <2>2. from_server[m[k]].zxid <= n
    BY <1>4, <2>1
  <2>3. \A a \in 1 .. from_server[m[k]].zxid : log[a] = log'[a]
    BY <1>1, <2>1, <2>2
  <2>4. \A p : There(log, p, from_server[m[k]].zxid) <=> There(log', p, from_server[m[k]].zxid)
    BY <2>1, <2>3, SameLog
  <2>5. Leaves(log, from_server, Renewed, server, sent_requests[k], from_server[m[k]], m[k])
    BY <1>7 DEF Answers
  <2> QED
    BY <1>5, <2>1, <2>4, <2>5 DEF Leaves
<1>10. Answers(log', from_server, Renewed, server, sent_requests, Asked, m)
  BY <1>8, <1>9 DEF Answers
<1>11. \E o : Answers(log', from_server', Renewed', server', sent_requests', Asked', o)
  BY <1>2, <1>3, <1>10
<1> QED
  BY <1>1, <1>6, <1>11 DEF Inv

\* What the server does when it applies a change: it sends the event of the
\* change to a watch that it finds, and unsets that.
LEMMA Applied ==
    ASSUME BaseInv, ServerApplies
    PROVE  LET z == server.applied
               c == log[z + 1]
               type == EventOf(c.kind)
           IN  /\ z \in Nat /\ c.kind \in Kinds /\ c.path \in Paths /\ LegalChange(log, z + 1)
               /\ type \in EventTypes
               /\ server'.applied = z + 1
               /\ from_server' = IF \E u \in TablesFor(type) : c.path \in AtServer(server, u)
                                 THEN Append(from_server, Event(type, c.path, z + 1)) ELSE from_server
               /\ \A u \in Tables : \A q \in AtServer(server, u) :
                     q \in AtServer(server', u) \/ (q = c.path /\ u \in TablesFor(type))
               /\ UNCHANGED <<link, active, since, last_zxid, to_server, sent_requests, log>>
<1> DEFINE z == server.applied
           c == log[z + 1]
           type == EventOf(c.kind)
<1>1. /\ server \in [applied : Nat, data : SUBSET Paths, child : SUBSET Paths] /\ Len(log) \in Nat
      /\ z < Len(log) /\ z \in Nat
  BY DEF BaseInv, TypeOK, ServerApplies
<1>2. z + 1 \in 1 .. Len(log)
  BY <1>1
<1>3. c.kind \in Kinds /\ c.path \in Paths /\ LegalChange(log, z + 1)
  BY <1>2, LogEntry DEF BaseInv, LogInv
<1>4. type \in EventTypes
  BY <1>3 DEF EventOf, Kinds, EventTypes
<1>5. UNCHANGED <<link, active, since, last_zxid, to_server, sent_requests, log>>
  BY DEF ServerApplies, tableVars
<1>6. /\ server'.applied = z + 1
      /\ from_server' = IF \E u \in TablesFor(type) : c.path \in AtServer(server, u)
                        THEN Append(from_server, Event(type, c.path, z + 1)) ELSE from_server
      /\ \A u \in Tables : \A q \in AtServer(server, u) :
            q \in AtServer(server', u) \/ (q = c.path /\ u \in TablesFor(type))
  <2>1. CASE c.kind = "create"
    <3>1. type = "CREATED" /\ TablesFor(type) = {"node", "exist"}
      BY <2>1 DEF EventOf, TablesFor
    <3>2. /\ from_server' = IF c.path \in server.data THEN Append(from_server, Event("CREATED", c.path, z + 1))
                                                      ELSE from_server
          /\ server' = [server EXCEPT !.applied = z + 1, !.data = @ \ {c.path}]
      BY <2>1 DEF ServerApplies
    <3> HIDE DEF type, c, z
    <3> QED
      BY <1>1, <3>1, <3>2 DEF AtServer, Tables
  <2>2. CASE c.kind = "set"
    <3>1. type = "CHANGED" /\ TablesFor(type) = {"node", "exist"}
      BY <2>2 DEF EventOf, TablesFor
    <3>2. /\ from_server' = IF c.path \in server.data THEN Append(from_server, Event("CHANGED", c.path, z + 1))
                                                      ELSE from_server
          /\ server' = [server EXCEPT !.applied = z + 1, !.data = @ \ {c.path}]
      BY <2>2 DEF ServerApplies
    <3> HIDE DEF type, c, z
    <3> QED
      BY <1>1, <3>1, <3>2 DEF AtServer, Tables
  <2>3. CASE c.kind = "delete"
    <3>1. type = "DELETED" /\ TablesFor(type) = {"node", "exist", "child"}
      BY <2>3 DEF EventOf, TablesFor
    <3>2. /\ from_server' = IF c.path \in server.data \cup server.child
                            THEN Append(from_server, Event("DELETED", c.path, z + 1)) ELSE from_server
          /\ server' = [server EXCEPT !.applied = z + 1, !.data = @ \ {c.path}, !.child = @ \ {c.path}]
      BY <2>3 DEF ServerApplies
    <3> HIDE DEF type, c, z
    <3> QED
      BY <1>1, <3>1, <3>2 DEF AtServer, Tables
  <2>4. CASE c.kind = "child"
    <3>1. type = "CHILD" /\ TablesFor(type) = {"child"}
      BY <2>4 DEF EventOf, TablesFor
    <3>2. /\ from_server' = IF c.path \in server.child THEN Append(from_server, Event("CHILD", c.path, z + 1))
                                                       ELSE from_server
          /\ server' = [server EXCEPT !.applied = z + 1, !.child = @ \ {c.path}]
      BY <2>4 DEF ServerApplies
    <3> HIDE DEF type, c, z
    <3> QED
      BY <1>1, <3>1, <3>2 DEF AtServer, Tables
  <2> HIDE DEF c
  <2> QED
    BY <1>3, <2>1, <2>2, <2>3, <2>4 DEF Kinds
<1> QED
  BY <1>1, <1>3, <1>4, <1>5, <1>6

\* The server applies a change, and tells the watches that it finds.
LEMMA InvApplies == Inv /\ ServerApplies => Inv'
<1> SUFFICES ASSUME Inv, ServerApplies PROVE Inv'
  OBVIOUS
<1> DEFINE z == server.applied
           c == log[z + 1]
           type == EventOf(c.kind)
           e == Event(type, c.path, z + 1)
<1>1. BaseInv /\ BaseInv' /\ Asked' = Asked /\ Renewing' = Renewing
  BY BaseApplies DEF Inv
<1>2. /\ z \in Nat /\ c.kind \in Kinds /\ c.path \in Paths /\ LegalChange(log, z + 1)
      /\ type \in EventTypes
      /\ server'.applied = z + 1
      /\ from_server' = IF \E u \in TablesFor(type) : c.path \in AtServer(server, u)
                        THEN Append(from_server, e) ELSE from_server
      /\ \A u \in Tables : \A q \in AtServer(server, u) :
            q \in AtServer(server', u) \/ (q = c.path /\ u \in TablesFor(type))
      /\ UNCHANGED <<link, active, since, last_zxid, to_server, sent_requests, log>>
  BY <1>1, Applied
<1>3. Renewed' = Renewed
  BY <1>1, <1>2 DEF Renewed
<1>4. from_server \in Seq(Frames) /\ last_zxid \in Nat /\ last_zxid <= z
  BY <1>1 DEF BaseInv, TypeOK, LinkInv, ServerApplies
<1>5. ASSUME NEW t \in Tables, NEW p, NEW s \in Nat, s <= z, t # "exist" => There(log, p, s),
             NEW i \in 0 .. Len(from_server), Told(log, from_server, Renewed, server, t, p, s, i)
      PROVE  Told(log, from_server', Renewed, server', t, p, s, i)
  BY <1>2, <1>4, <1>5, ToldApplies
<1>6. e \in Frames /\ e.xid = "watch" /\ Len(from_server) \in Nat
  <2>1. z + 1 \in Nat
    BY <1>2
  <2> QED
    BY <1>2, <1>4, <2>1, FrameTypes DEF Event
<1> HIDE DEF z, c, type, e
<1>7. WatchInv'
  <2> SUFFICES ASSUME NEW t \in Tables, NEW p \in Paths, NEW w \in active[t][p]
               PROVE  /\ Fresh(log, t, p, since[t][p][w], last_zxid)
                      /\ Told(log, from_server', Renewed, server', t, p, since[t][p][w], 0)
    BY <1>2, <1>3 DEF WatchInv
  <2> DEFINE s == since[t][p][w]
  <2>1. /\ s \in Nat /\ Fresh(log, t, p, s, last_zxid) /\ s <= last_zxid /\ (t # "exist" => There(log, p, s))
        /\ Told(log, from_server, Renewed, server, t, p, s, 0)
    BY <1>1, WatchFields DEF Inv
  <2> HIDE DEF s
  <2>2. s <= z /\ 0 \in 0 .. Len(from_server)
    BY <1>2, <1>4, <1>6, <2>1
  <2> QED
    BY <1>5, <2>1, <2>2 DEF s
<1>8. PICK m : Answers(log, from_server, Renewed, server, sent_requests, Asked, m)
  BY DEF Inv
<1>9. Match(from_server, sent_requests, Asked, m)
  BY <1>8 DEF Answers
<1>10. Match(from_server', sent_requests, Asked, m)
  <2>1. Match(Append(from_server, e), sent_requests, Asked, m)
    BY <1>4, <1>6, <1>9, MatchEvent
  <2> QED
    BY <1>2, <1>9, <2>1
<1>11. ASSUME NEW k \in 1 .. Len(m)
       PROVE  Leaves(log, from_server', Renewed, server', sent_requests[k], from_server'[m[k]], m[k])
  <2> DEFINE f == from_server[m[k]]
             r == sent_requests[k]
  <2>1. /\ m[k] \in 1 .. Len(from_server) /\ f.zxid \in Nat /\ f.zxid <= z
        /\ f.rc \in {"ZOK", "ZNONODE"} /\ r.op \in Ops /\ r.path \in Paths
    BY <1>1, <1>9, AnswerFields DEF z
  <2>2. from_server'[m[k]] = f
    <3>1. Append(from_server, e)[m[k]] = f
      BY <1>4, <1>6, <2>1, AppendProperties
    <3> QED
      BY <1>2, <3>1
  <2>3. Leaves(log, from_server, Renewed, server, r, f, m[k])
    BY <1>8 DEF Answers
  <2> HIDE DEF f, r
  <2>4. ASSUME NEW t \in result_checker(r.op, f.rc)
        PROVE  Told(log, from_server', Renewed, server', t, r.path, f.zxid, m[k])
    <3>1. t \in Tables /\ (t # "exist" => There(log, r.path, f.zxid))
      BY <2>1, <2>3, CheckedTables DEF Leaves
    <3>2. Told(log, from_server, Renewed, server, t, r.path, f.zxid, m[k])
      BY <2>3 DEF Leaves
    <3>3. m[k] \in 0 .. Len(from_server)
      BY <1>6, <2>1
    <3> QED
      BY <1>5, <2>1, <3>1, <3>2, <3>3
  <2> QED
    BY <2>2, <2>3, <2>4 DEF Leaves, f, r
<1>12. Answers(log, from_server', Renewed, server', sent_requests, Asked, m)
  BY <1>10, <1>11 DEF Answers
<1>13. \E o : Answers(log', from_server', Renewed', server', sent_requests', Asked', o)
  BY <1>1, <1>2, <1>3, <1>12
<1> QED
  BY <1>1, <1>7, <1>13 DEF Inv

\* What the server does when it replies: it leaves the watch that the client
\* will put into its tables.
LEMMA Replied ==
    ASSUME BaseInv, ServerReplies
    PROVE  LET z == server.applied
               r == Head(to_server)
               rc == IF There(log, r.path, z) THEN "ZOK" ELSE "ZNONODE"
           IN  /\ z \in Nat /\ server'.applied = z
               /\ from_server' = Append(from_server, Reply(rc, z))
               /\ \A u \in Tables : AtServer(server, u) \subseteq AtServer(server', u)
               /\ \A u \in result_checker(r.op, rc) : r.path \in AtServer(server', u)
               /\ UNCHANGED <<link, active, since, last_zxid, sent_requests, log>>
<1> DEFINE z == server.applied
           r == Head(to_server)
           here == There(log, r.path, z)
           rc == IF here THEN "ZOK" ELSE "ZNONODE"
           data == r.op = "exists" \/ (r.op = "get" /\ here)
           child == r.op = "children" /\ here
<1>1. server \in [applied : Nat, data : SUBSET Paths, child : SUBSET Paths]
  BY DEF BaseInv, TypeOK
<1>2. r.op \in Ops
  BY BaseReplies
<1>3. Exists(r.path, z) <=> here
  BY OwnLog
<1>4. /\ from_server' = Append(from_server, Reply(rc, z))
      /\ server' = [server EXCEPT !.data  = IF data  THEN @ \cup {r.path} ELSE @,
                                  !.child = IF child THEN @ \cup {r.path} ELSE @]
  BY <1>3 DEF ServerReplies
<1>5. UNCHANGED <<link, active, since, last_zxid, sent_requests, log>>
  BY DEF ServerReplies, tableVars
<1> HIDE DEF here
<1>6. /\ server'.applied = z
      /\ server'.data = (IF data THEN server.data \cup {r.path} ELSE server.data)
      /\ server'.child = (IF child THEN server.child \cup {r.path} ELSE server.child)
  BY <1>1, <1>4
<1>7. \A u \in Tables : AtServer(server, u) \subseteq AtServer(server', u)
  BY <1>6 DEF AtServer
<1> HIDE DEF r
<1>8. ASSUME NEW u \in result_checker(r.op, rc) PROVE r.path \in AtServer(server', u)
  <2>1. /\ u \in Tables /\ (u = "exist" <=> rc # "ZOK")
        /\ u = "exist" => r.op = "exists"
        /\ u = "node" => r.op # "children"
        /\ u = "child" => r.op = "children"
    BY <1>2, CheckedTables
  <2>2. here <=> rc = "ZOK"
    OBVIOUS
  <2> QED
    BY <1>2, <1>6, <2>1, <2>2 DEF AtServer, Tables, Ops
<1> QED
  BY <1>1, <1>4, <1>5, <1>6, <1>7, <1>8 DEF r, here

\* The server replies: its reply leaves a watch that is already set.
LEMMA InvReplies == Inv /\ ServerReplies => Inv'
<1> SUFFICES ASSUME Inv, ServerReplies PROVE Inv'
  OBVIOUS
<1> DEFINE z == server.applied
           r == Head(to_server)
           rc == IF There(log, r.path, z) THEN "ZOK" ELSE "ZNONODE"
           e == Reply(rc, z)
           n == Len(from_server)
<1>1. /\ BaseInv /\ BaseInv' /\ ~Renewing /\ ~Renewing' /\ Asked = to_server /\ Asked' = Tail(to_server)
      /\ to_server # <<>> /\ r.op \in Ops /\ r.path \in Paths
  BY BaseReplies DEF Inv
<1>2. /\ z \in Nat /\ server'.applied = z
      /\ from_server' = Append(from_server, e)
      /\ \A u \in Tables : AtServer(server, u) \subseteq AtServer(server', u)
      /\ \A u \in result_checker(r.op, rc) : r.path \in AtServer(server', u)
      /\ UNCHANGED <<link, active, since, last_zxid, sent_requests, log>>
  BY <1>1, Replied
<1>3. Renewed /\ Renewed'
  BY <1>1, <1>2 DEF Renewed, ServerReplies
<1>4. /\ from_server \in Seq(Frames) /\ n \in Nat
      /\ e \in Frames /\ e.xid = "reply" /\ e.zxid = z /\ e.rc = rc
  <2>1. from_server \in Seq(Frames)
    BY <1>1 DEF BaseInv, TypeOK
  <2> QED
    BY <1>2, <2>1, FrameTypes DEF Reply
<1> HIDE DEF e, z, n
<1>5. ASSUME NEW t \in Tables, NEW p, NEW s, NEW i \in 0 .. n,
             Told(log, from_server, Renewed, server, t, p, s, i)
      PROVE  Told(log, from_server', Renewed', server', t, p, s, i)
  <2>1. Told(log, from_server, TRUE, server, t, p, s, i)
    BY <1>3, <1>5 DEF Told
  <2>2. Told(log, Append(from_server, e), TRUE, server', t, p, s, i)
    BY <1>2, <1>4, <2>1, ToldReplies DEF n, z
  <2> QED
    BY <1>2, <2>2 DEF Told
<1>6. WatchInv'
  <2> SUFFICES ASSUME NEW t \in Tables, NEW p \in Paths, NEW w \in active[t][p]
               PROVE  /\ Fresh(log, t, p, since[t][p][w], last_zxid)
                      /\ Told(log, from_server', Renewed', server', t, p, since[t][p][w], 0)
    BY <1>2 DEF WatchInv
  <2>1. /\ Fresh(log, t, p, since[t][p][w], last_zxid)
        /\ Told(log, from_server, Renewed, server, t, p, since[t][p][w], 0)
    BY <1>1, WatchFields DEF Inv
  <2>2. 0 \in 0 .. n
    BY <1>4
  <2> QED
    BY <1>5, <2>1, <2>2
<1>7. PICK m : Answers(log, from_server, Renewed, server, sent_requests, Asked, m)
  BY DEF Inv
<1> DEFINE o == Append(m, n + 1)
           k == Len(m)
<1>8. Match(from_server, sent_requests, Asked, m)
  BY <1>7 DEF Answers
<1>9. Match(from_server', sent_requests, Asked', o)
  <2>1. to_server \in Seq(Requests \cup Renewals)
    BY <1>1 DEF BaseInv, TypeOK
  <2>2. Match(Append(from_server, e), sent_requests, Tail(to_server), o)
    BY <1>1, <1>4, <1>8, <2>1, MatchReply DEF n
  <2> QED
    BY <1>1, <1>2, <2>2
<1>10. /\ k \in Nat /\ Len(o) = k + 1 /\ o[k + 1] = n + 1 /\ n + 1 \in Nat
       /\ \A j \in 1 .. k : o[j] = m[j]
       /\ from_server'[n + 1] = e /\ Len(from_server') = n + 1
       /\ \A j \in 1 .. n : from_server'[j] = from_server[j]
  <2>1. m \in Seq(Nat) /\ n + 1 \in Nat
    BY <1>4, <1>8 DEF Match
  <2>2. k \in Nat /\ Len(o) = k + 1 /\ o[k + 1] = n + 1 /\ \A j \in 1 .. k : o[j] = m[j]
    BY <2>1, AppendProperties
  <2>3. /\ from_server'[n + 1] = e /\ Len(from_server') = n + 1
        /\ \A j \in 1 .. n : from_server'[j] = from_server[j]
    BY <1>2, <1>4, AppendProperties DEF n
  <2> QED
    BY <2>1, <2>2, <2>3
<1>11. ASSUME NEW j \in 1 .. k
       PROVE  Leaves(log, from_server', Renewed', server', sent_requests[j], from_server'[m[j]], m[j])
  <2> DEFINE f == from_server[m[j]]
             q == sent_requests[j]
  <2>1. /\ m[j] \in 1 .. n /\ f.rc \in {"ZOK", "ZNONODE"} /\ q.op \in Ops
    BY <1>1, <1>8, AnswerFields DEF n
  <2>2. from_server'[m[j]] = f
    BY <1>10, <2>1
  <2>3. Leaves(log, from_server, Renewed, server, q, f, m[j])
    BY <1>7 DEF Answers
  <2> HIDE DEF f, q
  <2>4. ASSUME NEW t \in result_checker(q.op, f.rc)
        PROVE  Told(log, from_server', Renewed', server', t, q.path, f.zxid, m[j])
    <3>1. t \in Tables
      BY <2>1, CheckedTables
    <3>2. Told(log, from_server, Renewed, server, t, q.path, f.zxid, m[j])
      BY <2>3 DEF Leaves
    <3>3. m[j] \in 0 .. n
      BY <1>4, <2>1
    <3> QED
      BY <1>5, <3>1, <3>2, <3>3
  <2> QED
    BY <2>2, <2>3, <2>4 DEF Leaves, f, q
<1>12. Leaves(log, from_server', Renewed', server', sent_requests[k + 1], e, n + 1)
  <2> DEFINE q == sent_requests[k + 1]
  <2>1. q.op = r.op /\ q.path = r.path
    <3>1. to_server \in Seq(Requests \cup Renewals)
      BY <1>1 DEF BaseInv, TypeOK
    <3>2. 1 \in 1 .. Len(Asked) /\ Asked[1] = r
      BY <1>1, <3>1, EmptySeq
    <3> QED
      BY <1>8, <1>10, <3>2 DEF Match
  <2>2. rc = "ZOK" <=> There(log, r.path, z)
    OBVIOUS
  <2>3. rc \in {"ZOK", "ZNONODE"}
    OBVIOUS
  <2> HIDE DEF q, r, rc
  <2>4. ASSUME NEW t \in result_checker(r.op, rc)
        PROVE  Told(log, from_server', Renewed', server', t, r.path, z, n + 1)
    <3>1. t \in Tables /\ (t = "exist" => ~There(log, r.path, z))
      BY <1>1, <2>2, <2>3, CheckedTables
    <3>2. r.path \in AtServer(server', t)
      BY <1>2 DEF r, rc
    <3>3. z \in Nat /\ server'.applied = z
      BY <1>2
    <3>4. Len(from_server') \in Nat /\ Len(from_server') = n + 1
      BY <1>10
    <3>5. Told(log, from_server', Renewed', server', t, r.path, z, Len(from_server'))
      BY <3>1, <3>2, <3>3, <3>4, ToldLast
    <3> QED
      BY <3>4, <3>5
  <2> QED
    BY <1>4, <2>1, <2>2, <2>4 DEF Leaves, q
<1> HIDE DEF o, k
<1>13. ASSUME NEW j \in 1 .. Len(o)
       PROVE  Leaves(log, from_server', Renewed', server', sent_requests[j], from_server'[o[j]], o[j])
  <2>1. CASE j = k + 1
    BY <1>10, <1>12, <2>1
  <2>2. CASE j # k + 1
    <3>1. j \in 1 .. k /\ o[j] = m[j]
      BY <1>10, <2>2
    <3> QED
      BY <1>11, <3>1 DEF k
  <2> QED
    BY <2>1, <2>2
<1>14. Answers(log, from_server', Renewed', server', sent_requests, Asked', o)
  BY <1>9, <1>13 DEF Answers
<1>15. \E x : Answers(log', from_server', Renewed', server', sent_requests', Asked', x)
  BY <1>2, <1>14
<1> QED
  BY <1>1, <1>6, <1>15 DEF Inv

\* What the server sees of a path when it renews the watches, for a watch
\* that the client says it has: it sends the event that the watch missed and
\* that is younger than the watch, or it sets the watch.
LEMMA MissedTells ==
    ASSUME BaseInv, WatchInv, ServerSetsWatches,
           NEW t \in Tables, NEW p \in Paths, NEW w \in active[t][p]
    PROVE  LET z == server.applied
               M == MissedEvents(SetWatches, z)
               s == since[t][p][w]
           IN  /\ \A e \in M : Announces(e, t, p) => s < e.at
               /\ \/ \E e \in M : Announces(e, t, p)
                  \/ p \in AtServer(server', t) /\ ~Touched(log, t, p, s, z)
<1> DEFINE z == server.applied
           f == SetWatches
           M == MissedEvents(f, z)
           s == since[t][p][w]
           R == last_zxid
           There0(q) == There(log, q, R)
           There1(q) == There(log, q, z)
           mz(q) == Latest(log, q, {"create", "set"}, z)
           pz(q) == Latest(log, q, {"create", "child"}, z)
           dz(q) == Latest(log, q, {"delete"}, z)
           cz(q) == Latest(log, q, {"create"}, z)
<1>1. /\ z \in Nat /\ R \in Nat /\ R <= z
  BY BaseSetsWatches DEF BaseInv, TypeOK, LinkInv, ServerSetsWatches
<1>2. s \in Nat /\ s <= R /\ s <= z /\ ~Touched(log, t, p, s, R) /\ (t # "exist" => There(log, p, s))
  <2>1. s \in Nat /\ s <= R /\ ~Touched(log, t, p, s, R) /\ (t # "exist" => There(log, p, s))
    BY WatchFields DEF Fresh
  <2> QED
    BY <1>1, <2>1
<1>3. /\ f.relativeZxid = R
      /\ \A q \in Paths : /\ q \in f.dataWatches <=> active["node"][q] # {}
                          /\ q \in f.existWatches <=> active["exist"][q] # {}
                          /\ q \in f.childWatches <=> active["child"][q] # {}
      /\ f.dataWatches \subseteq Paths /\ f.existWatches \subseteq Paths /\ f.childWatches \subseteq Paths
  BY DEF SetWatches, collect_keys
<1>4. ASSUME NEW u \in Tables, NEW q \in Paths, active[u][q] # {}
      PROVE  IF u = "exist" THEN ~There0(q) ELSE There0(q)
  <2>1. PICK v \in active[u][q] : TRUE
    BY <1>4
  <2>2. /\ since[u][q][v] \in Nat /\ since[u][q][v] <= R /\ ~Touched(log, u, q, since[u][q][v], R)
        /\ u # "exist" => There(log, q, since[u][q][v])
    BY WatchFields DEF Fresh
  <2>3. CASE u = "exist"
    BY <2>2, <2>3 DEF Touched
  <2>4. CASE u # "exist"
    BY <1>1, <2>2, <2>4, Stays DEF Tables
  <2> QED
    BY <2>3, <2>4
<1>5. \A q \in Paths : /\ q \in f.dataWatches => There0(q)
                       /\ q \in f.existWatches => ~There0(q)
                       /\ q \in f.childWatches => There0(q)
  BY <1>3, <1>4 DEF Tables
<1>6. \A q : /\ Exists(q, z) <=> There1(q)
             /\ mzxid(q, z) = mz(q) /\ pzxid(q, z) = pz(q)
             /\ LastChange(q, {"delete"}, z) = dz(q) /\ LastChange(q, {"create"}, z) = cz(q)
  BY OwnLog DEF mzxid, pzxid
<1>7. Head(to_server) = f
  BY BaseSetsWatches
<1>8. mz(p) \in Nat /\ pz(p) \in Nat
  BY <1>1, LatestIs
<1> HIDE DEF There0, There1, mz, pz, dz, cz, f
<1>9. ASSUME NEW e \in M, Announces(e, t, p) PROVE s < e.at
  <2>0. e.path = p /\ t \in TablesFor(e.type)
    BY <1>9 DEF Announces
  <2>1. CASE \E q \in f.dataWatches \cup f.childWatches : ~There1(q) /\ e = Event("DELETED", q, dz(q))
    <3>1. p \in f.dataWatches \cup f.childWatches /\ ~There1(p) /\ e.at = dz(p)
      BY <2>0, <2>1 DEF Event
    <3>2. t # "exist"
      <4>1. There0(p)
        BY <1>5, <3>1
      <4> QED
        BY <1>4, <4>1
    <3>3. s < dz(p)
      BY <1>1, <1>2, <3>1, <3>2, GoneSince DEF There1, dz
    <3> QED
      BY <3>1, <3>3
  <2>2. CASE \E q \in f.dataWatches : There1(q) /\ mz(q) > R /\ e = Event("CHANGED", q, mz(q))
    <3>1. mz(p) > R /\ e.at = mz(p)
      BY <2>0, <2>2 DEF Event
    <3> QED
      BY <1>1, <1>2, <1>8, <3>1
  <2>3. CASE \E q \in f.existWatches : There1(q) /\ e = Event("CREATED", q, cz(q))
    <3>1. p \in f.existWatches /\ There1(p) /\ e.at = cz(p)
      BY <2>0, <2>3 DEF Event
    <3>2. ~There0(p)
      BY <1>5, <3>1
    <3>3. R < cz(p) /\ cz(p) \in Nat
      BY <1>1, <3>1, <3>2, CreatedSince, LatestIs DEF There1, There0, cz
    <3> QED
      BY <1>1, <1>2, <3>1, <3>3
  <2>4. CASE \E q \in f.childWatches : There1(q) /\ pz(q) > R /\ e = Event("CHILD", q, pz(q))
    <3>1. pz(p) > R /\ e.at = pz(p)
      BY <2>0, <2>4 DEF Event
    <3> QED
      BY <1>1, <1>2, <1>8, <3>1
  <2>5. \/ \E q \in f.dataWatches \cup f.childWatches : ~There1(q) /\ e = Event("DELETED", q, dz(q))
        \/ \E q \in f.dataWatches : There1(q) /\ mz(q) > R /\ e = Event("CHANGED", q, mz(q))
        \/ \E q \in f.existWatches : There1(q) /\ e = Event("CREATED", q, cz(q))
        \/ \E q \in f.childWatches : There1(q) /\ pz(q) > R /\ e = Event("CHILD", q, pz(q))
    BY <1>3, <1>6, <1>9 DEF MissedEvents
  <2> QED
    BY <2>1, <2>2, <2>3, <2>4, <2>5
<1>10. /\ p \in f.dataWatches \cup f.childWatches /\ ~There1(p) => Event("DELETED", p, dz(p)) \in M
       /\ p \in f.dataWatches /\ There1(p) /\ mz(p) > R => Event("CHANGED", p, mz(p)) \in M
       /\ p \in f.existWatches /\ There1(p) => Event("CREATED", p, cz(p)) \in M
       /\ p \in f.childWatches /\ There1(p) /\ pz(p) > R => Event("CHILD", p, pz(p)) \in M
  BY <1>3, <1>6 DEF MissedEvents
<1>11. /\ p \in f.dataWatches /\ There1(p) /\ mz(p) <= R => p \in server'.data
       /\ p \in f.existWatches /\ ~There1(p) => p \in server'.data
       /\ p \in f.childWatches /\ There1(p) /\ pz(p) <= R => p \in server'.child
  <2>1. server \in [applied : Nat, data : SUBSET Paths, child : SUBSET Paths]
    BY DEF BaseInv, TypeOK
  <2>2. server' = [server EXCEPT
           !.data = {q \in f.dataWatches : Exists(q, z) /\ mzxid(q, z) <= f.relativeZxid}
                    \cup {q \in f.existWatches : ~Exists(q, z)},
           !.child = {q \in f.childWatches : Exists(q, z) /\ pzxid(q, z) <= f.relativeZxid}]
    BY <1>7 DEF ServerSetsWatches
  <2> QED
    BY <1>3, <1>6, <2>1, <2>2
<1>12. \A u, q, at, type : t \in TablesFor(type) => Announces(Event(type, p, at), t, p)
  BY DEF Announces, Event
<1> HIDE DEF M, s, z
<1>13. (\E e \in M : Announces(e, t, p)) \/ (p \in AtServer(server', t) /\ ~Touched(log, t, p, s, z))
  <2>1. CASE t = "exist"
    <3>1. p \in f.existWatches
      BY <1>3, <2>1
    <3>2. CASE There1(p)
      <4>1. t \in TablesFor("CREATED")
        BY <2>1 DEF TablesFor
      <4> QED
        BY <1>10, <1>12, <3>1, <3>2, <4>1
    <3>3. CASE ~There1(p)
      <4>1. p \in AtServer(server', t)
        BY <1>11, <2>1, <3>1, <3>3 DEF AtServer
      <4>2. ~Touched(log, t, p, s, z)
        BY <2>1, <3>3 DEF Touched, There1
      <4> QED
        BY <4>1, <4>2
    <3> QED
      BY <3>2, <3>3
  <2>2. CASE t = "node"
    <3>1. p \in f.dataWatches
      BY <1>3, <2>2
    <3>2. t \in TablesFor("DELETED") /\ t \in TablesFor("CHANGED")
      BY <2>2 DEF TablesFor
    <3>3. CASE ~There1(p)
      BY <1>10, <1>12, <3>1, <3>2, <3>3
    <3>4. CASE There1(p) /\ mz(p) > R
      BY <1>10, <1>12, <3>1, <3>2, <3>4
    <3>5. CASE There1(p) /\ mz(p) <= R
      <4>1. p \in AtServer(server', t)
        BY <1>11, <2>2, <3>1, <3>5 DEF AtServer
      <4>2. ~Touched(log, t, p, s, z)
        BY <1>1, <1>2, <2>2, <3>5, QuietSince DEF There1, mz, z
      <4> QED
        BY <4>1, <4>2
    <3> QED
      BY <1>1, <1>8, <3>3, <3>4, <3>5
  <2>3. CASE t = "child"
    <3>1. p \in f.childWatches
      BY <1>3, <2>3
    <3>2. t \in TablesFor("DELETED") /\ t \in TablesFor("CHILD")
      BY <2>3 DEF TablesFor
    <3>3. CASE ~There1(p)
      BY <1>10, <1>12, <3>1, <3>2, <3>3
    <3>4. CASE There1(p) /\ pz(p) > R
      BY <1>10, <1>12, <3>1, <3>2, <3>4
    <3>5. CASE There1(p) /\ pz(p) <= R
      <4>1. p \in AtServer(server', t)
        BY <1>11, <2>3, <3>1, <3>5 DEF AtServer
      <4>2. ~Touched(log, t, p, s, z)
        BY <1>1, <1>2, <2>3, <3>5, QuietSince DEF There1, pz, z
      <4> QED
        BY <4>1, <4>2
    <3> QED
      BY <1>1, <1>8, <3>3, <3>4, <3>5
  <2> QED
    BY <2>1, <2>2, <2>3 DEF Tables
<1> QED
  BY <1>9, <1>13 DEF M, s, z, f

\* The server renews the watches.
LEMMA InvSetsWatches == Inv /\ ServerSetsWatches => Inv'
<1> SUFFICES ASSUME Inv, ServerSetsWatches PROVE Inv'
  OBVIOUS
<1> DEFINE z == server.applied
           M == MissedEvents(SetWatches, z)
           ms == SetToSeq(M)
           sw == [xid |-> "setWatches", zxid |-> z]
<1>1. /\ BaseInv /\ BaseInv' /\ Asked' = Asked /\ from_server = <<>> /\ from_server' = Append(ms, sw)
      /\ ms \in Seq(Frames)
      /\ \A i \in 1 .. Len(ms) : ms[i] \in M
      /\ \A e \in M : \E i \in 1 .. Len(ms) : ms[i] = e
  BY BaseSetsWatches DEF Inv
<1>2. UNCHANGED <<link, active, since, last_zxid, sent_requests, log>>
  BY DEF ServerSetsWatches, tableVars
<1>3. z \in Nat /\ server'.applied = z /\ Len(ms) \in Nat
  <2>1. server \in [applied : Nat, data : SUBSET Paths, child : SUBSET Paths]
    BY <1>1 DEF BaseInv, TypeOK
  <2> QED
    BY <1>1, <2>1 DEF ServerSetsWatches
<1>4. sw \in Frames /\ sw.xid = "setWatches" /\ sw.zxid = z
  BY <1>3, FrameTypes
<1>5. \A e \in M : e.xid = "watch"
  BY DEF MissedEvents, Event
<1>6. ASSUME NEW t \in Tables, NEW p \in Paths, NEW w \in active[t][p]
      PROVE  /\ \A e \in M : Announces(e, t, p) => since[t][p][w] < e.at
             /\ \/ \E e \in M : Announces(e, t, p)
                \/ p \in AtServer(server', t) /\ ~Touched(log, t, p, since[t][p][w], z)
  BY <1>1, MissedTells DEF Inv
<1> HIDE DEF M, ms, sw, z
<1>7. WatchInv'
  <2> SUFFICES ASSUME NEW t \in Tables, NEW p \in Paths, NEW w \in active[t][p]
               PROVE  /\ Fresh(log, t, p, since[t][p][w], last_zxid)
                      /\ Told(log, from_server', Renewed', server', t, p, since[t][p][w], 0)
    BY <1>2 DEF WatchInv
  <2> DEFINE s == since[t][p][w]
  <2>1. Fresh(log, t, p, s, last_zxid)
    BY <1>1, WatchFields DEF Inv
  <2>2. /\ \A e \in M : Announces(e, t, p) => s < e.at
        /\ (\E e \in M : Announces(e, t, p)) \/ (p \in AtServer(server', t) /\ ~Touched(log, t, p, s, z))
    BY <1>6
  <2> HIDE DEF s
  <2>3. InOrder(log, ms, t, p, s, 0)
    <3>1. \A i \in 0 + 1 .. Len(ms) : ms[i] \in M
      BY <1>1
    <3> QED
      BY <1>5, <2>2, <3>1 DEF InOrder
  <2>4. Comes(ms, t, p, 0) \/ (p \in AtServer(server', t) /\ ~Touched(log, t, p, s, z))
    <3>1. ASSUME NEW e \in M, Announces(e, t, p) PROVE Comes(ms, t, p, 0)
      <4>1. PICK i \in 1 .. Len(ms) : ms[i] = e
        BY <1>1
      <4>2. i \in 0 + 1 .. Len(ms)
        BY <1>3
      <4> QED
        BY <3>1, <4>1, <4>2 DEF Comes
    <3> QED
      BY <2>2, <3>1
  <2>5. /\ InOrder(log, Append(ms, sw), t, p, s, 0)
        /\ Comes(ms, t, p, 0) => Comes(Append(ms, sw), t, p, 0)
    <3>1. ~Announces(sw, t, p) /\ 0 \in 0 .. Len(ms)
      BY <1>3, <1>4 DEF Announces
    <3>2. Comes(ms, t, p, 0) \/ ~Touched(log, t, p, s, sw.zxid)
      BY <1>4, <2>4
    <3> QED
      BY <1>1, <1>4, <2>3, <3>1, <3>2, InOrderAppend
  <2>6. Told(log, Append(ms, sw), Renewed', server', t, p, s, 0)
    BY <1>3, <2>4, <2>5 DEF Told
  <2> QED
    BY <1>1, <2>1, <2>6 DEF s
<1>8. PICK m : Answers(log, from_server, Renewed, server, sent_requests, Asked, m)
  BY DEF Inv
<1>9. Match(from_server, sent_requests, Asked, m)
  BY <1>8 DEF Answers
<1>10. m \in Seq(Nat) /\ 1 .. Len(m) = {}
  <2>1. m \in Seq(Nat) /\ \A n \in 1 .. Len(m) : m[n] \in 1 .. Len(<<>>)
    BY <1>1, <1>9 DEF Match
  <2>2. \A n \in 1 .. Len(m) : m[n] \in {}
    BY <2>1
  <2> QED
    BY <2>1, <2>2
<1>11. \A i \in 1 .. Len(from_server') : from_server'[i].xid # "reply"
  <2>1. ASSUME NEW i \in 1 .. Len(from_server') PROVE from_server'[i].xid # "reply"
    <3>1. i \in 1 .. Len(ms) \/ i = Len(ms) + 1
      BY <1>1, <1>3, <1>4, AppendProperties
    <3>2. i \in 1 .. Len(ms) => from_server'[i] = ms[i]
      BY <1>1, <1>4, AppendProperties
    <3>3. i = Len(ms) + 1 => from_server'[i] = sw
      BY <1>1, <1>4, AppendProperties
    <3> QED
      BY <1>1, <1>4, <1>5, <3>1, <3>2, <3>3
  <2> QED
    BY <2>1
<1>12. Match(from_server', sent_requests, Asked, m)
  BY <1>9, <1>10, <1>11 DEF Match
<1>13. Answers(log, from_server', Renewed', server', sent_requests, Asked, m)
  BY <1>10, <1>12 DEF Answers
<1>14. \E o : Answers(log', from_server', Renewed', server', sent_requests', Asked', o)
  BY <1>1, <1>2, <1>13
<1> QED
  BY <1>1, <1>7, <1>14 DEF Inv

-----------------------------------------------------------------------------
(* The steps of the client.                                                *)

\* What has not been answered are frames to the server.
LEMMA AskedType == ASSUME BaseInv PROVE Asked \in Seq(Requests \cup Renewals) /\ Len(Asked) \in Nat
<1>1. to_server \in Seq(Requests \cup Renewals)
  BY DEF BaseInv, TypeOK
<1>2. Renewing => to_server # <<>>
  BY DEF Renewing
<1>3. to_server # <<>> => Tail(to_server) \in Seq(Requests \cup Renewals)
  BY <1>1, HeadTailProperties
<1>4. Asked \in Seq(Requests \cup Renewals)
  BY <1>1, <1>2, <1>3 DEF Asked
<1> QED
  BY <1>4

\* A request is queued: the watches and the answers stay what they are.
LEMMA InvRequest == Inv /\ Request => Inv'
<1> SUFFICES ASSUME Inv, Request PROVE Inv'
  OBVIOUS
<1>1. /\ BaseInv /\ BaseInv' /\ Renewing' = Renewing
      /\ UNCHANGED <<link, active, since, last_zxid, from_server, log, server>>
  BY BaseRequest DEF Inv
<1>2. PICK r \in Requests, s \in [op : Ops, path : Paths, watcher : Watchers] :
         /\ s.op = r.op /\ s.path = r.path
         /\ Asked' = Append(Asked, r) /\ sent_requests' = Append(sent_requests, s)
  BY BaseRequest DEF Inv
<1>3. Renewed' = Renewed
  BY <1>1 DEF Renewed
<1>4. WatchInv'
  BY <1>1, <1>3 DEF Inv, WatchInv
<1>5. PICK m : Answers(log, from_server, Renewed, server, sent_requests, Asked, m)
  BY DEF Inv
<1>6. Match(from_server, sent_requests, Asked, m)
  BY <1>5 DEF Answers
<1>7. /\ Asked \in Seq(Requests \cup Renewals) /\ Len(Asked) \in Nat
      /\ sent_requests \in Seq([op : Ops, path : Paths, watcher : Watchers])
      /\ r \in Requests \cup Renewals
  BY <1>1, AskedType DEF BaseInv, TypeOK
<1>8. Match(from_server, sent_requests', Asked', m)
  BY <1>2, <1>6, <1>7, MatchRequest
<1>9. \A k \in 1 .. Len(m) : sent_requests'[k] = sent_requests[k]
  <2>1. Len(sent_requests) = Len(m) + Len(Asked) /\ m \in Seq(Nat)
    BY <1>6 DEF Match
  <2>2. \A k \in 1 .. Len(m) : k \in 1 .. Len(sent_requests)
    BY <1>7, <2>1
  <2> QED
    BY <1>2, <1>7, <2>2, AppendProperties
<1>10. Answers(log, from_server, Renewed, server, sent_requests', Asked', m)
  BY <1>5, <1>8, <1>9 DEF Answers
<1>11. \E o : Answers(log', from_server', Renewed', server', sent_requests', Asked', o)
  BY <1>1, <1>3, <1>10
<1> QED
  BY <1>1, <1>4, <1>11 DEF Inv

\* A connection is made: until the watches are renewed nothing is promised.
LEMMA InvConnect == Inv /\ (PrimeConnection \/ Connected) => Inv'
<1> SUFFICES ASSUME Inv, PrimeConnection \/ Connected PROVE Inv'
  OBVIOUS
<1>1. /\ BaseInv /\ BaseInv' /\ Asked' = Asked /\ from_server = <<>> /\ from_server' = <<>>
      /\ (link' = "up" => Renewing')
      /\ UNCHANGED <<active, since, last_zxid, log, sent_requests>>
  BY BaseConnect DEF Inv
<1>2. Renewed' = FALSE
  BY <1>1 DEF Renewed
<1>3. WatchInv'
  <2> SUFFICES ASSUME NEW t \in Tables, NEW p \in Paths, NEW w \in active[t][p]
               PROVE  /\ Fresh(log, t, p, since[t][p][w], last_zxid)
                      /\ Told(log, <<>>, FALSE, server', t, p, since[t][p][w], 0)
    BY <1>1, <1>2 DEF WatchInv
  <2>1. 0 \in Nat
    OBVIOUS
  <2> QED
    BY <1>1, <2>1, WatchFields, ToldNothing DEF Inv
<1>4. PICK m : Answers(log, from_server, Renewed, server, sent_requests, Asked, m)
  BY DEF Inv
<1>5. Match(<<>>, sent_requests, Asked, m)
  BY <1>1, <1>4 DEF Answers
<1>6. 1 .. Len(m) = {}
  <2>1. m \in Seq(Nat) /\ \A n \in 1 .. Len(m) : m[n] \in 1 .. Len(<<>>)
    BY <1>5 DEF Match
  <2>2. \A n \in 1 .. Len(m) : m[n] \in {}
    BY <2>1
  <2> QED
    BY <2>2
<1>7. Answers(log, <<>>, FALSE, server', sent_requests, Asked, m)
  BY <1>5, <1>6 DEF Answers
<1>8. \E o : Answers(log', from_server', Renewed', server', sent_requests', Asked', o)
  BY <1>1, <1>2, <1>7
<1> QED
  BY <1>1, <1>3, <1>8 DEF Inv

\* A connection is lost: what was asked for failed, what is left is kept.
LEMMA InvDisconnected == Inv /\ Disconnected => Inv'
<1> SUFFICES ASSUME Inv, Disconnected PROVE Inv'
  OBVIOUS
<1>1. /\ BaseInv /\ BaseInv' /\ link' = "none"
      /\ Asked' = <<>> /\ from_server' = <<>> /\ sent_requests' = <<>>
      /\ UNCHANGED <<active, since, last_zxid, log>>
  BY BaseDisconnected DEF Inv
<1>2. Renewed' = FALSE
  BY <1>1 DEF Renewed
<1>3. WatchInv'
  <2> SUFFICES ASSUME NEW t \in Tables, NEW p \in Paths, NEW w \in active[t][p]
               PROVE  /\ Fresh(log, t, p, since[t][p][w], last_zxid)
                      /\ Told(log, <<>>, FALSE, server', t, p, since[t][p][w], 0)
    BY <1>1, <1>2 DEF WatchInv
  <2>1. 0 \in Nat
    OBVIOUS
  <2> QED
    BY <1>1, <2>1, WatchFields, ToldNothing DEF Inv
<1>4. Answers(log, <<>>, FALSE, server', <<>>, <<>>, <<>>)
  BY DEF Answers, Match
<1>5. \E o : Answers(log', from_server', Renewed', server', sent_requests', Asked', o)
  BY <1>1, <1>2, <1>4
<1> QED
  BY <1>1, <1>3, <1>5 DEF Inv

\* Watchers are called.
LEMMA InvDeliver == Inv /\ deliverWatchers => Inv'
<1> SUFFICES ASSUME Inv, deliverWatchers PROVE Inv'
  OBVIOUS
<1>1. /\ BaseInv' /\ Asked' = Asked /\ Renewing' = Renewing
      /\ UNCHANGED <<link, active, since, last_zxid, from_server, log, server, sent_requests>>
  BY BaseDeliver DEF Inv
<1>2. Renewed' = Renewed
  BY <1>1 DEF Renewed
<1>3. WatchInv'
  BY <1>1, <1>2 DEF Inv, WatchInv
<1>4. \E o : Answers(log', from_server', Renewed', server', sent_requests', Asked', o)
  BY <1>1, <1>2 DEF Inv
<1> QED
  BY <1>1, <1>3, <1>4 DEF Inv

\* A reply answers the first request, and there is one.
LEMMA FirstReply ==
    ASSUME Inv, ReadReply
    PROVE  sent_requests # <<>>
<1>1. BaseInv /\ from_server # <<>> /\ Head(from_server).xid = "reply"
  BY FrameRead DEF Inv, BaseInv, ReadReply
<1>2. PICK m : Match(from_server, sent_requests, Asked, m)
  BY DEF Inv, Answers
<1>3. /\ from_server \in Seq(Frames) /\ sent_requests \in Seq([op : Ops, path : Paths, watcher : Watchers])
      /\ Len(Asked) \in Nat
  BY <1>1, AskedType DEF BaseInv, TypeOK
<1> QED
  BY <1>1, <1>2, <1>3, MatchRead

\* What is kept of a frame read: a watch that is still there, since the same
\* zxid, was not announced by the frame.
LEMMA WatchRead ==
    ASSUME Inv, ReadReply \/ ReadWatchEvent \/ ReadSetWatches,
           NEW t \in Tables, NEW p \in Paths, NEW w \in active[t][p],
           ~Announces(Head(from_server), t, p)
    PROVE  /\ Fresh(log, t, p, since[t][p][w], last_zxid')
           /\ Told(log, from_server', Renewed', server', t, p, since[t][p][w], 0)
<1> DEFINE s == since[t][p][w]
           e == Head(from_server)
<1>1. /\ BaseInv /\ BaseInv' /\ ~Renewing /\ ~Renewing'
      /\ link = "up" /\ from_server # <<>>
      /\ from_server' = Tail(from_server)
      /\ last_zxid' = IF e.xid # "watch" THEN e.zxid ELSE last_zxid
      /\ last_zxid <= last_zxid'
      /\ UNCHANGED <<link, log, server>>
  BY BaseRead, FirstReply DEF Inv
<1>2. /\ from_server \in Seq(Frames) /\ last_zxid \in Nat /\ last_zxid' \in Nat /\ Len(from_server) \in Nat
  BY <1>1 DEF BaseInv, TypeOK
<1>3. s \in Nat /\ Fresh(log, t, p, s, last_zxid) /\ Told(log, from_server, Renewed, server, t, p, s, 0)
  BY <1>1, WatchFields DEF Inv
<1>4. Renewed' = Renewed
  BY <1>1 DEF Renewed
<1> DEFINE now == IF e.xid # "watch" THEN e.zxid ELSE last_zxid
<1>5. Fresh(log, t, p, s, now)
  <2>1. now \in Nat /\ last_zxid <= now
    BY <1>1, <1>2
  <2> HIDE DEF s
  <2> QED
    BY <1>1, <1>2, <1>3, <2>1, FreshTail
<1>6. Told(log, Tail(from_server), Renewed, server, t, p, s, 0)
  <2>1. 0 \in 0 .. Len(from_server) /\ 0 \in Nat
    BY <1>2
  <2> HIDE DEF s
  <2> QED
    BY <1>1, <1>2, <1>3, <2>1, ToldTail
<1> QED
  BY <1>1, <1>4, <1>5, <1>6

\* A reply behind the frame that is read still leaves its watch.
LEMMA LeavesRead ==
    ASSUME NEW l, NEW fs \in Seq(Frames), fs # <<>>, NEW rn, NEW sv, NEW r, NEW i \in 1 .. Len(fs),
           i > 1, NEW h, h = i - 1, Leaves(l, fs, rn, sv, r, fs[i], i)
    PROVE  Leaves(l, Tail(fs), rn, sv, r, Tail(fs)[h], h)
<1>1. /\ Len(fs) \in Nat \ {0} /\ \A j \in 1 .. Len(fs) - 1 : Tail(fs)[j] = fs[j + 1]
  BY HeadTailProperties, EmptySeq
<1>2. h \in Nat /\ h \in 1 .. Len(fs) - 1 /\ h + 1 = i /\ i \in 0 .. Len(fs) /\ i # 0
  BY <1>1
<1>3. Tail(fs)[h] = fs[i]
  BY <1>1, <1>2
<1>4. ASSUME NEW t \in result_checker(r.op, fs[i].rc)
      PROVE  Told(l, Tail(fs), rn, sv, t, r.path, fs[i].zxid, h)
  <2>1. Told(l, fs, rn, sv, t, r.path, fs[i].zxid, i)
    BY DEF Leaves
  <2>2. h = IF i = 0 THEN 0 ELSE i - 1
    BY <1>2
  <2> QED
    BY <1>2, <2>1, <2>2, ToldTail
<1> QED
  BY <1>3, <1>4 DEF Leaves

\* An event or the answer to SetWatches is read.
LEMMA InvReadEvent == Inv /\ (ReadWatchEvent \/ ReadSetWatches) => Inv'
<1> SUFFICES ASSUME Inv, ReadWatchEvent \/ ReadSetWatches PROVE Inv'
  OBVIOUS
<1> DEFINE e == Head(from_server)
<1>1. /\ BaseInv /\ BaseInv' /\ Asked' = Asked /\ ~Renewing /\ ~Renewing'
      /\ link = "up" /\ from_server # <<>> /\ e.xid # "reply"
      /\ from_server' = Tail(from_server)
      /\ UNCHANGED <<link, log, server>>
  BY BaseRead, FirstReply DEF Inv
<1>2. Renewed' = Renewed /\ UNCHANGED <<since, sent_requests>>
  BY <1>1 DEF Renewed, ReadWatchEvent, ReadSetWatches
<1>3. ASSUME NEW t \in Tables, NEW p \in Paths, NEW w \in active'[t][p]
      PROVE  w \in active[t][p] /\ ~Announces(e, t, p)
  <2>1. active \in [Tables -> [Paths -> SUBSET Watchers]]
    BY <1>1 DEF BaseInv, TypeOK
  <2>2. CASE ReadSetWatches
    <3>1. e.xid = "setWatches" /\ active' = active
      BY <2>2, BaseRead, FirstReply DEF Inv, ReadSetWatches
    <3> QED
      BY <1>3, <3>1 DEF Announces
  <2>3. CASE ReadWatchEvent
    <3>1. active' = [u \in Tables |-> IF u \in TablesFor(e.type)
                         THEN [active[u] EXCEPT ![e.path] = {}] ELSE active[u]]
      BY <2>3 DEF ReadWatchEvent, add_for_event
    <3>2. active'[t][p] = IF t \in TablesFor(e.type) /\ p = e.path THEN {} ELSE active[t][p]
      BY <2>1, <3>1
    <3> QED
      BY <1>3, <3>2 DEF Announces
  <2> QED
    BY <2>2, <2>3
<1>4. WatchInv'
  <2> SUFFICES ASSUME NEW t \in Tables, NEW p \in Paths, NEW w \in active'[t][p]
               PROVE  /\ Fresh(log, t, p, since[t][p][w], last_zxid')
                      /\ Told(log, from_server', Renewed', server', t, p, since[t][p][w], 0)
    BY <1>1, <1>2 DEF WatchInv
  <2> QED
    BY <1>3, WatchRead
<1>5. PICK m : Answers(log, from_server, Renewed, server, sent_requests, Asked, m)
  BY DEF Inv
<1>6. Match(from_server, sent_requests, Asked, m) /\ from_server \in Seq(Frames)
  BY <1>1, <1>5 DEF Answers, BaseInv, TypeOK
<1> DEFINE o == [n \in 1 .. Len(m) |-> m[n] - 1]
<1>7. /\ Match(Tail(from_server), sent_requests, Asked, o)
      /\ Len(o) = Len(m) /\ \A n \in 1 .. Len(m) : m[n] \in Nat /\ m[n] > 1 /\ o[n] = m[n] - 1
  BY <1>1, <1>6, MatchSkip
<1> HIDE DEF o
<1>8. ASSUME NEW n \in 1 .. Len(o)
      PROVE  Leaves(log, Tail(from_server), Renewed, server, sent_requests[n], Tail(from_server)[o[n]], o[n])
  <2>1. n \in 1 .. Len(m) /\ m[n] > 1 /\ o[n] = m[n] - 1
    BY <1>7
  <2>2. m[n] \in 1 .. Len(from_server)
    BY <1>6, <2>1 DEF Match
  <2>3. Leaves(log, from_server, Renewed, server, sent_requests[n], from_server[m[n]], m[n])
    BY <1>5, <2>1 DEF Answers
  <2> QED
    BY <1>1, <1>6, <2>1, <2>2, <2>3, LeavesRead
<1>9. Answers(log, Tail(from_server), Renewed, server, sent_requests, Asked, o)
  BY <1>7, <1>8 DEF Answers
<1>10. \E x : Answers(log', from_server', Renewed', server', sent_requests', Asked', x)
  BY <1>1, <1>2, <1>9
<1> QED
  BY <1>1, <1>4, <1>10 DEF Inv

\* A reply is read: the watch that it leaves is in the tables now.
LEMMA InvReadReply == Inv /\ ReadReply => Inv'
<1> SUFFICES ASSUME Inv, ReadReply PROVE Inv'
  OBVIOUS
<1> DEFINE e == Head(from_server)
           r == Head(sent_requests)
<1>1. /\ BaseInv /\ BaseInv' /\ Asked' = Asked /\ ~Renewing /\ ~Renewing'
      /\ link = "up" /\ from_server # <<>> /\ e \in Frames /\ e.xid = "reply"
      /\ from_server' = Tail(from_server)
      /\ last_zxid' = e.zxid
      /\ UNCHANGED <<link, log, server>>
  BY BaseRead, FirstReply DEF Inv
<1>2. Renewed' = Renewed /\ sent_requests' = Tail(sent_requests) /\ activateWatcher(r, e.rc, e.zxid)
  BY <1>1 DEF Renewed, ReadReply
<1>3. PICK m : Answers(log, from_server, Renewed, server, sent_requests, Asked, m)
  BY DEF Inv
<1>4. /\ Match(from_server, sent_requests, Asked, m) /\ from_server \in Seq(Frames)
      /\ sent_requests \in Seq([op : Ops, path : Paths, watcher : Watchers]) /\ Len(Asked) \in Nat
  BY <1>1, <1>3, AskedType DEF Answers, BaseInv, TypeOK
<1>5. /\ sent_requests # <<>> /\ Len(m) \in Nat \ {0} /\ m[1] = 1
      /\ \E o : MatchRest(from_server, sent_requests, Asked, m, o)
  <2>1. from_server # <<>> /\ Head(from_server).xid = "reply"
    BY <1>1
  <2> HIDE DEF r, e
  <2> QED
    BY <1>4, <2>1, MatchRead
<1>o. PICK o : MatchRest(from_server, sent_requests, Asked, m, o)
  BY <1>5
<1>6. /\ Len(from_server) \in Nat \ {0} /\ from_server[1] = e /\ sent_requests[1] = r
  BY <1>1, <1>4, <1>5, EmptySeq
<1>7. /\ e.zxid \in Nat /\ e.rc \in {"ZOK", "ZNONODE"}
      /\ r \in [op : Ops, path : Paths, watcher : Watchers]
      /\ r.op \in Ops /\ r.path \in Paths
      /\ Leaves(log, from_server, Renewed, server, r, e, 1)
  <2>1. 1 \in 1 .. Len(m)
    BY <1>5
  <2>2. /\ from_server[m[1]].zxid \in Nat /\ from_server[m[1]].rc \in {"ZOK", "ZNONODE"}
        /\ sent_requests[1] \in [op : Ops, path : Paths, watcher : Watchers]
        /\ sent_requests[1].op \in Ops /\ sent_requests[1].path \in Paths
    BY <1>1, <1>4, <2>1, AnswerFields
  <2>3. Leaves(log, from_server, Renewed, server, sent_requests[1], from_server[m[1]], m[1])
    BY <1>3, <2>1 DEF Answers
  <2> QED
    BY <1>5, <1>6, <2>2, <2>3
<1> DEFINE to == result_checker(r.op, e.rc)
<1>8. ASSUME NEW t \in to
      PROVE  /\ t \in Tables
             /\ Fresh(log, t, r.path, e.zxid, e.zxid)
             /\ Told(log, Tail(from_server), Renewed, server, t, r.path, e.zxid, 0)
  <2>1. t \in Tables /\ (t = "exist" <=> e.rc # "ZOK")
    BY <1>7, CheckedTables
  <2>2. (e.rc = "ZOK" <=> There(log, r.path, e.zxid))
        /\ Told(log, from_server, Renewed, server, t, r.path, e.zxid, 1)
    BY <1>7 DEF Leaves
  <2>3. ~Touched(log, t, r.path, e.zxid, e.zxid)
    <3>1. CASE t = "exist"
      BY <2>1, <2>2, <3>1 DEF Touched
    <3>2. CASE t # "exist"
      BY <1>7, <2>1, <3>2, Untouched DEF Tables
    <3> QED
      BY <3>1, <3>2
  <2>4. Fresh(log, t, r.path, e.zxid, e.zxid)
    BY <1>7, <2>1, <2>2, <2>3 DEF Fresh
  <2>5. Told(log, Tail(from_server), Renewed, server, t, r.path, e.zxid, 0)
    <3>1. 1 \in 0 .. Len(from_server) /\ 0 \in Nat /\ 0 = IF 1 = 0 THEN 0 ELSE 1 - 1
      BY <1>6
    <3> HIDE DEF e, r
    <3> QED
      BY <1>1, <1>4, <2>2, <3>1, ToldTail
  <2> QED
    BY <2>1, <2>4, <2>5
<1>9. ASSUME NEW t \in Tables, NEW p \in Paths, NEW w \in active'[t][p]
      PROVE  \/ t \in to /\ p = r.path /\ since'[t][p][w] = e.zxid
             \/ w \in active[t][p] /\ since'[t][p][w] = since[t][p][w]
  <2>1. active \in [Tables -> [Paths -> SUBSET Watchers]] /\ since \in [Tables -> [Paths -> [Watchers -> Nat]]]
        /\ active' \in [Tables -> [Paths -> SUBSET Watchers]]
    BY <1>1 DEF BaseInv, TypeOK
  <2>2. /\ active' = [u \in Tables |-> IF u \in to
                         THEN [active[u] EXCEPT ![r.path] = @ \cup {r.watcher}] ELSE active[u]]
        /\ since' = [u \in Tables |-> IF u \in to
                         THEN [since[u] EXCEPT ![r.path][r.watcher] = e.zxid] ELSE since[u]]
    BY <1>2 DEF activateWatcher
  <2>3. w \in Watchers /\ r.watcher \in Watchers
    BY <1>7, <1>9, <2>1
  <2> HIDE DEF to, r, e
  <2>4. active'[t][p] = IF t \in to /\ p = r.path THEN active[t][p] \cup {r.watcher} ELSE active[t][p]
    BY <1>7, <2>1, <2>2
  <2>5. since'[t][p][w] = IF t \in to /\ p = r.path /\ w = r.watcher THEN e.zxid ELSE since[t][p][w]
    BY <1>7, <2>1, <2>2, <2>3
  <2> QED
    BY <1>9, <2>4, <2>5
<1>10. WatchInv'
  <2> SUFFICES ASSUME NEW t \in Tables, NEW p \in Paths, NEW w \in active'[t][p]
               PROVE  /\ Fresh(log, t, p, since'[t][p][w], last_zxid')
                      /\ Told(log, from_server', Renewed', server', t, p, since'[t][p][w], 0)
    BY <1>1 DEF WatchInv
  <2>1. CASE t \in to /\ p = r.path /\ since'[t][p][w] = e.zxid
    BY <1>1, <1>2, <1>8, <2>1
  <2>2. CASE w \in active[t][p] /\ since'[t][p][w] = since[t][p][w]
    <3>1. ~Announces(e, t, p)
      BY <1>1 DEF Announces
    <3> QED
      BY <2>2, <3>1, WatchRead
  <2> QED
    BY <1>9, <2>1, <2>2
<1>11. ASSUME NEW n \in 1 .. Len(o)
       PROVE  Leaves(log, Tail(from_server), Renewed, server, Tail(sent_requests)[n],
                     Tail(from_server)[o[n]], o[n])
  <2>1. /\ n + 1 \in 1 .. Len(m) /\ m[n + 1] > 1 /\ o[n] = m[n + 1] - 1
        /\ Tail(sent_requests)[n] = sent_requests[n + 1]
    BY <1>o DEF MatchRest
  <2>2. m[n + 1] \in 1 .. Len(from_server)
    BY <1>4, <2>1 DEF Match
  <2>3. Leaves(log, from_server, Renewed, server, sent_requests[n + 1], from_server[m[n + 1]], m[n + 1])
    BY <1>3, <2>1 DEF Answers
  <2> QED
    BY <1>1, <1>4, <2>1, <2>2, <2>3, LeavesRead
<1>12. Answers(log, Tail(from_server), Renewed, server, Tail(sent_requests), Asked, o)
  BY <1>11, <1>o DEF Answers, MatchRest
<1>13. \E x : Answers(log', from_server', Renewed', server', sent_requests', Asked', x)
  BY <1>1, <1>2, <1>12
<1> QED
  BY <1>1, <1>10, <1>13 DEF Inv

-----------------------------------------------------------------------------
(* No watch is lost, and none fires for what is older than itself.         *)

\* Every step keeps the promise.
LEMMA InvStep == Inv /\ [Next]_vars => Inv'
<1> SUFFICES ASSUME Inv, [Next]_vars PROVE Inv'
  OBVIOUS
<1>1. CASE Next
  BY <1>1, InvTree, InvApplies, InvReplies, InvSetsWatches, InvRequest, InvConnect,
     InvDisconnected, InvDeliver, InvReadEvent, InvReadReply DEF Next, Client, Server
<1>2. CASE UNCHANGED vars
  <2>1. UNCHANGED <<link, active, last_zxid, since, registered, to_server, from_server, sent_requests,
                    completions, log, server, fired, requests, faults>>
    BY <1>2 DEF vars, tableVars, wireVars, serverVars
  <2>2. Renewing' = Renewing /\ SetWatches' = SetWatches /\ Asked' = Asked
    BY <2>1 DEF Renewing, SetWatches, collect_keys, Asked
  <2>3. BaseInv'
    BY <2>1, <2>2 DEF Inv, BaseInv, TypeOK, LogInv, LinkInv
  <2>4. Renewed' = Renewed
    BY <2>1, <2>2 DEF Renewed
  <2>5. WatchInv'
    BY <2>1, <2>4 DEF Inv, WatchInv
  <2>6. \E m : Answers(log', from_server', Renewed', server', sent_requests', Asked', m)
    BY <2>1, <2>2, <2>4 DEF Inv
  <2> QED
    BY <2>3, <2>5, <2>6 DEF Inv
<1> QED
  BY <1>1, <1>2

\* The inductive invariant.
LEMMA Invariant == Spec => []Inv
BY InvInit, InvStep, PTL DEF Spec

\* Every variable has its type: a reply is only read when a request waits for
\* it, and a frame is only read when there is one.
THEOREM TypeCorrect == Spec => []TypeOK
<1>1. Inv => TypeOK
  BY DEF Inv, BaseInv
<1> QED
  BY <1>1, Invariant, PTL

\* "If a watch is left, that client will be notified of the change": whatever
\* the order in which replies, events and SetWatches cross, and however often
\* the connection is lost, a watch has its event on the way, or is set at the
\* server, or is in the SetWatches that is queued or still to be sent.
THEOREM NeverLost == Spec => []NoWatchLost
<1>1. ASSUME Inv PROVE NoWatchLost
  <2> SUFFICES ASSUME NEW x \in Watching
               PROVE  LET t == x[1]
                          p == x[2]
                          z == since[t][p][x[3]]
                      IN  \/ Announced(t, p)
                          \/ /\ link # "up"
                             /\ ~Concerns(t, p, z, last_zxid)
                          \/ /\ link = "up" /\ to_server # <<>> /\ Head(to_server).xid = "setWatches"
                             /\ p \in KeysOf(t, Head(to_server))
                             /\ ~Concerns(t, p, z, Head(to_server).relativeZxid)
                          \/ /\ link = "up"
                             /\ p \in (IF t = "child" THEN server.child ELSE server.data)
                             /\ ~Concerns(t, p, z, server.applied)
    BY DEF NoWatchLost
  <2>1. PICK t \in Tables, p \in Paths, w \in Watchers : x = <<t, p, w>> /\ w \in active[t][p]
    BY DEF Watching
  <2>2. x[1] = t /\ x[2] = p /\ x[3] = w
    BY <2>1
  <2> DEFINE z == since[t][p][w]
  <2>3. /\ BaseInv /\ Fresh(log, t, p, z, last_zxid)
        /\ Told(log, from_server, Renewed, server, t, p, z, 0)
    BY <1>1, <2>1, WatchFields DEF Inv
  <2>4. \A upto : Concerns(t, p, z, upto) <=> Touched(log, t, p, z, upto)
    BY OwnLog
  <2> HIDE DEF z
  <2>5. CASE link # "up"
    <3>1. ~Concerns(t, p, z, last_zxid)
      BY <2>3, <2>4 DEF Fresh
    <3> QED
      BY <2>2, <2>5, <3>1 DEF z
  <2>6. CASE link = "up" /\ Renewing
    <3>1. Head(to_server) = SetWatches /\ to_server # <<>> /\ Head(to_server).xid = "setWatches"
      BY <2>3, <2>6 DEF BaseInv, LinkInv, Renewing
    <3>2. SetWatches.relativeZxid = last_zxid /\ p \in KeysOf(t, SetWatches)
      BY <2>1 DEF SetWatches, KeysOf, collect_keys, Tables
    <3>3. ~Concerns(t, p, z, Head(to_server).relativeZxid)
      BY <2>3, <2>4, <3>1, <3>2 DEF Fresh
    <3> QED
      BY <2>2, <2>6, <3>1, <3>2, <3>3 DEF z
  <2>7. CASE link = "up" /\ ~Renewing
    <3>1. Renewed
      BY <2>7 DEF Renewed
    <3>2. CASE Comes(from_server, t, p, 0)
      <4>1. PICK j \in 0 + 1 .. Len(from_server) : Announces(from_server[j], t, p)
        BY <3>2 DEF Comes
      <4>2. j \in DOMAIN from_server
        <5>1. from_server \in Seq(Frames)
          BY <2>3 DEF BaseInv, TypeOK
        <5> QED
          BY <5>1
      <4>3. Announced(t, p)
        BY <4>1, <4>2 DEF Announces, Announced
      <4> QED
        BY <2>2, <4>3
    <3>3. CASE p \in AtServer(server, t) /\ ~Touched(log, t, p, z, server.applied)
      <4>1. ~Concerns(t, p, z, server.applied)
        BY <2>4, <3>3
      <4>2. p \in (IF t = "child" THEN server.child ELSE server.data)
        BY <3>3 DEF AtServer
      <4> QED
        BY <2>2, <2>7, <4>1, <4>2 DEF z
    <3> QED
      BY <2>3, <3>1, <3>2, <3>3 DEF Told
  <2> QED
    BY <2>5, <2>6, <2>7
<1> QED
  BY <1>1, Invariant, PTL

\* A watcher is called only for a change that came after its registration,
\* even when the event and the reply that activates it cross.
THEOREM OnlyNews == Spec => []EventsAreNews
<1>1. ASSUME Inv PROVE EventsAreNews
  <2> SUFFICES ASSUME NEW i \in DOMAIN from_server, from_server[i].xid = "watch",
                      NEW t \in TablesFor(from_server[i].type),
                      NEW w \in active[t][from_server[i].path]
               PROVE  since[t][from_server[i].path][w] < from_server[i].at
    BY DEF EventsAreNews
  <2> DEFINE e == from_server[i]
  <2>1. from_server \in Seq(Frames) /\ BaseInv /\ WatchInv
    BY <1>1 DEF Inv, BaseInv, TypeOK
  <2>2. i \in 0 + 1 .. Len(from_server) /\ e \in Frames
    BY <2>1, ElementOfSeq
  <2>3. e.path \in Paths /\ t \in Tables
    <3>1. e.path \in Paths
      BY <2>2, FrameFields
    <3>2. t \in Tables
      BY DEF TablesFor, Tables
    <3> QED
      BY <3>1, <3>2
  <2>4. Announces(e, t, e.path)
    BY DEF Announces
  <2>5. InOrder(log, from_server, t, e.path, since[t][e.path][w], 0)
    BY <2>1, <2>3, WatchFields DEF Told
  <2> QED
    BY <2>2, <2>4, <2>5 DEF InOrder
<1> QED
  BY <1>1, Invariant, PTL

-----------------------------------------------------------------------------
(* A watch fires once.                                                     *)

\* The lists of the completion thread that are to call w for a change.
Lists == [type : EventTypes \cup {"SESSION"}, watchers : SUBSET Watchers]

ForChange(w) == {c \in Lists : c.type # "SESSION" /\ w \in c.watchers}

\* The watches that w has in the tables act.
Held(act, w) == {x \in Tables \X Paths \X Watchers : x[3] = w /\ w \in act[x[1]][x[2]]}

\* Each registration of w is a watch in the tables, a list that calls it, a
\* call that was made, or was of a watch that it already had.
FireInv ==
    \A w \in Watchers :
        fired[w] + Count(completions, ForChange(w)) + Cardinality(Held(active, w)) <= registered[w]

\* A watcher has finitely many watches, in whatever tables.
LEMMA HeldFinite ==
    ASSUME NEW act, NEW w
    PROVE  IsFiniteSet(Held(act, w)) /\ Cardinality(Held(act, w)) \in Nat
<1> DEFINE f(t) == [p \in Paths |-> <<t, p, w>>]
           F(t) == {f(t)[p] : p \in Paths}
<1>1. \A t : IsFiniteSet(F(t))
  <2> SUFFICES ASSUME NEW t PROVE IsFiniteSet(F(t))
    OBVIOUS
  <2>1. DOMAIN f(t) = Paths
    OBVIOUS
  <2> HIDE DEF f
  <2> QED
    BY <2>1, PathsAssumption, FiniteImage
<1>2. IsFiniteSet(F("node") \cup F("exist") \cup F("child"))
  <2> HIDE DEF F
  <2> QED
    BY <1>1, FS_Union
<1>3. Held(act, w) \subseteq F("node") \cup F("exist") \cup F("child")
  <2> SUFFICES ASSUME NEW x \in Held(act, w) PROVE x \in F("node") \cup F("exist") \cup F("child")
    OBVIOUS
  <2>1. PICK t \in Tables, p \in Paths : x = <<t, p, w>>
    BY DEF Held
  <2>2. x = f(t)[p]
    BY <2>1
  <2> QED
    BY <2>2 DEF Tables
<1> HIDE DEF F
<1>4. IsFiniteSet(Held(act, w))
  BY <1>2, <1>3, FS_Subset
<1> QED
  BY <1>4, FS_CardinalityType

\* Tables with at most one watch more, with no more, and with one less.
LEMMA HeldChange ==
    ASSUME NEW old, NEW new, NEW w
    PROVE  /\ \A x : Held(new, w) \subseteq Held(old, w) \cup {x} =>
                Cardinality(Held(new, w)) <= Cardinality(Held(old, w)) + 1
           /\ Held(new, w) \subseteq Held(old, w) =>
                Cardinality(Held(new, w)) <= Cardinality(Held(old, w))
           /\ \A x \in Held(old, w) : Held(new, w) \subseteq Held(old, w) \ {x} =>
                Cardinality(Held(new, w)) + 1 <= Cardinality(Held(old, w))
<1> DEFINE O == Held(old, w)
           N == Held(new, w)
           o == Cardinality(O)
           n == Cardinality(N)
<1>1. /\ IsFiniteSet(O) /\ o \in Nat /\ IsFiniteSet(N) /\ n \in Nat
  BY HeldFinite
<1> HIDE DEF O, N
<1>2. ASSUME NEW x, N \subseteq O \cup {x} PROVE n <= o + 1
  <2>1. IsFiniteSet(O \cup {x}) /\ Cardinality(O \cup {x}) = IF x \in O THEN o ELSE o + 1
    BY <1>1, FS_AddElement
  <2>2. n <= Cardinality(O \cup {x})
    BY <1>2, <2>1, FS_Subset
  <2> HIDE DEF o, n
  <2> QED
    BY <1>1, <2>1, <2>2
<1>3. N \subseteq O => n <= o
  BY <1>1, FS_Subset
<1>4. ASSUME NEW x \in O, N \subseteq O \ {x} PROVE n + 1 <= o
  <2>1. IsFiniteSet(O \ {x}) /\ Cardinality(O \ {x}) = o - 1
    BY <1>1, FS_RemoveElement
  <2>2. n <= Cardinality(O \ {x})
    BY <1>4, <2>1, FS_Subset
  <2> HIDE DEF o, n
  <2> QED
    BY <1>1, <2>1, <2>2
<1> QED
  BY <1>2, <1>3, <1>4 DEF O, N, o, n

\* The numbers of FireInv.
LEMMA FireNumbers ==
    ASSUME TypeOK, NEW w \in Watchers
    PROVE  /\ fired[w] \in Nat /\ registered[w] \in Nat
           /\ Count(completions, ForChange(w)) \in Nat /\ Cardinality(Held(active, w)) \in Nat
           /\ completions \in Seq(Lists)
<1>1. completions \in Seq(Lists)
  BY DEF TypeOK, Lists
<1> QED
  BY <1>1, CountType, HeldFinite DEF TypeOK

\* A reply is read: one registration, and one watch more at most.
LEMMA FireReply ==
    ASSUME Inv, FireInv, ReadReply
    PROVE  FireInv'
<1> DEFINE e == Head(from_server)
           r == Head(sent_requests)
           to == result_checker(r.op, e.rc)
<1>1. /\ TypeOK /\ sent_requests # <<>> /\ UNCHANGED <<fired, completions>>
      /\ activateWatcher(r, e.rc, e.zxid)
  BY FirstReply DEF Inv, BaseInv, ReadReply, ReadFrame
<1>2. r \in [op : Ops, path : Paths, watcher : Watchers]
  BY <1>1, HeadTailProperties DEF TypeOK
<1>3. /\ active' = [u \in Tables |-> IF u \in to
                      THEN [active[u] EXCEPT ![r.path] = @ \cup {r.watcher}] ELSE active[u]]
      /\ registered' = [registered EXCEPT ![r.watcher] = @ + Cardinality(to)]
  BY <1>1 DEF activateWatcher
<1>4. (to = {} /\ Cardinality(to) = 0) \/ \E u : to = {u} /\ Cardinality(to) = 1
  <2>1. to = {} \/ \E u : to = {u}
    BY DEF result_checker
  <2> HIDE DEF to
  <2> QED
    BY <2>1, FS_EmptySet, FS_Singleton
<1> HIDE DEF e, r, to
<1> SUFFICES ASSUME NEW w \in Watchers
             PROVE  fired[w] + Count(completions, ForChange(w)) + Cardinality(Held(active', w))
                       <= registered'[w]
  BY <1>1 DEF FireInv
<1> DEFINE a == fired[w]
           b == Count(completions, ForChange(w))
           h == Cardinality(Held(active, w))
           g == Cardinality(Held(active', w))
<1>5. /\ a \in Nat /\ b \in Nat /\ h \in Nat /\ g \in Nat /\ registered[w] \in Nat
      /\ a + b + h <= registered[w]
  BY <1>1, FireNumbers, HeldFinite DEF FireInv
<1>6. active \in [Tables -> [Paths -> SUBSET Watchers]] /\ registered \in [Watchers -> Nat]
  BY <1>1 DEF TypeOK
<1>7. \A t \in Tables, p \in Paths :
         active'[t][p] = IF t \in to /\ p = r.path THEN active[t][p] \cup {r.watcher} ELSE active[t][p]
  BY <1>2, <1>3, <1>6
<1>8. CASE w # r.watcher \/ to = {}
  <2>1. Held(active', w) \subseteq Held(active, w)
    <3> SUFFICES ASSUME NEW x \in Held(active', w) PROVE x \in Held(active, w)
      OBVIOUS
    <3>1. PICK t \in Tables, p \in Paths : x = <<t, p, w>> /\ w \in active'[t][p]
      BY DEF Held
    <3>2. w \in active[t][p]
      BY <1>7, <1>8, <3>1
    <3> QED
      BY <3>1, <3>2 DEF Held
  <2>2. g <= h
    BY <2>1, HeldChange
  <2>3. registered'[w] = registered[w]
    <3>1. CASE w # r.watcher
      BY <1>2, <1>3, <1>6, <3>1
    <3>2. CASE to = {}
      <4>1. Cardinality(to) = 0
        BY <3>2, FS_EmptySet
      <4> QED
        BY <1>2, <1>3, <1>6, <4>1
    <3> QED
      BY <1>8, <3>1, <3>2
  <2> HIDE DEF a, b, g, h
  <2>4. a + b + g <= registered[w]
    BY <1>5, <2>2
  <2> QED
    BY <2>3, <2>4 DEF a, b, g
<1>9. CASE w = r.watcher /\ to # {}
  <2>1. PICK u : to = {u} /\ Cardinality(to) = 1
    BY <1>4, <1>9
  <2>2. Held(active', w) \subseteq Held(active, w) \cup {<<u, r.path, w>>}
    <3> SUFFICES ASSUME NEW x \in Held(active', w), x # <<u, r.path, w>> PROVE x \in Held(active, w)
      OBVIOUS
    <3>1. PICK t \in Tables, p \in Paths : x = <<t, p, w>> /\ w \in active'[t][p]
      BY DEF Held
    <3>2. ~(t = u /\ p = r.path)
      BY <3>1
    <3>3. w \in active[t][p]
      BY <1>7, <2>1, <3>1, <3>2
    <3> QED
      BY <3>1, <3>3 DEF Held
  <2>3. g <= h + 1
    BY <2>2, HeldChange
  <2>4. registered'[w] = registered[w] + 1
    BY <1>2, <1>3, <1>6, <1>9, <2>1
  <2> HIDE DEF a, b, g, h
  <2>5. a + b + g <= registered[w] + 1
    BY <1>5, <2>3
  <2> QED
    BY <2>4, <2>5 DEF a, b, g
<1> QED
  BY <1>8, <1>9

\* An event is read: the watches that it is for move to a list, all that a
\* watcher has of them at once.
LEMMA FireEvent ==
    ASSUME Inv, FireInv, ReadWatchEvent
    PROVE  FireInv'
<1> DEFINE e == Head(from_server)
           from == TablesFor(e.type)
           c == [type |-> e.type, watchers |-> UNION {active[t][e.path] : t \in from}]
<1>1. /\ TypeOK /\ e \in Frames /\ e.xid = "watch" /\ UNCHANGED <<fired, registered>>
  BY FrameRead DEF Inv, BaseInv, ReadWatchEvent
<1>2. e.type \in EventTypes /\ e.path \in Paths
  BY <1>1, FrameFields
<1>3. completions' = Append(completions, c) /\ add_for_event(from, e.path)
  BY DEF ReadWatchEvent
<1>4. active \in [Tables -> [Paths -> SUBSET Watchers]]
  BY <1>1 DEF TypeOK
<1>5. from \subseteq Tables
  BY DEF TablesFor, Tables
<1>6. active' = [t \in Tables |-> IF t \in from THEN [active[t] EXCEPT ![e.path] = {}] ELSE active[t]]
  BY <1>3 DEF add_for_event
<1> HIDE DEF e, from
<1>7. \A t \in Tables, p \in Paths :
         active'[t][p] = IF t \in from /\ p = e.path THEN {} ELSE active[t][p]
  BY <1>2, <1>4, <1>6
<1>8. /\ c \in Lists
      /\ c.type # "SESSION"
      /\ \A w : w \in c.watchers <=> \E t \in from : w \in active[t][e.path]
  BY <1>2, <1>4, <1>5 DEF EventTypes, Lists
<1> HIDE DEF c
<1> SUFFICES ASSUME NEW w \in Watchers
             PROVE  fired[w] + Count(completions', ForChange(w)) + Cardinality(Held(active', w))
                       <= registered[w]
  BY <1>1 DEF FireInv
<1> DEFINE a == fired[w]
           b == Count(completions, ForChange(w))
           d == Count(completions', ForChange(w))
           h == Cardinality(Held(active, w))
           g == Cardinality(Held(active', w))
           q == registered[w]
<1>9. /\ a \in Nat /\ b \in Nat /\ h \in Nat /\ g \in Nat /\ q \in Nat /\ a + b + h <= q
  BY <1>1, FireNumbers, HeldFinite DEF FireInv
<1>10. c \in ForChange(w) <=> w \in c.watchers
  BY <1>8 DEF ForChange
<1>11. d = IF c \in ForChange(w) THEN b + 1 ELSE b
  <2>1. completions \in Seq(Lists)
    BY <1>1 DEF TypeOK, Lists
  <2> QED
    BY <1>3, <1>8, <2>1, CountAppend
<1>12. Held(active', w) \subseteq Held(active, w)
  <2> SUFFICES ASSUME NEW x \in Held(active', w) PROVE x \in Held(active, w)
    OBVIOUS
  <2>1. PICK t \in Tables, p \in Paths : x = <<t, p, w>> /\ w \in active'[t][p]
    BY DEF Held
  <2>2. w \in active[t][p]
    BY <1>7, <2>1
  <2> QED
    BY <2>1, <2>2 DEF Held
<1>13. CASE w \in c.watchers
  <2>1. PICK t \in from : w \in active[t][e.path]
    BY <1>8, <1>13
  <2> DEFINE x == <<t, e.path, w>>
  <2>2. x \in Held(active, w) /\ x \notin Held(active', w)
    BY <1>2, <1>5, <1>7, <2>1 DEF Held
  <2> HIDE DEF x
  <2>3. g + 1 <= h
    BY <1>12, <2>2, HeldChange
  <2>4. d = b + 1
    BY <1>10, <1>11, <1>13
  <2> HIDE DEF a, b, d, g, h, q
  <2>5. a + d + g <= q
    BY <1>9, <2>3, <2>4
  <2> QED
    BY <2>5 DEF a, d, g, q
<1>14. CASE w \notin c.watchers
  <2>1. g <= h
    BY <1>12, HeldChange
  <2>2. d = b
    BY <1>10, <1>11, <1>14
  <2> HIDE DEF a, b, d, g, h, q
  <2>3. a + d + g <= q
    BY <1>9, <2>1, <2>2
  <2> QED
    BY <2>3 DEF a, d, g, q
<1> QED
  BY <1>13, <1>14

\* The connection changes: a session event is for no change.
LEMMA FireSession ==
    ASSUME TypeOK, FireInv, UNCHANGED <<active, registered, fired>>,
           QueueSessionEvent \/ UNCHANGED completions
    PROVE  FireInv'
<1> SUFFICES ASSUME NEW w \in Watchers
             PROVE  Count(completions', ForChange(w)) = Count(completions, ForChange(w))
  BY DEF FireInv
<1>1. CASE QueueSessionEvent
  <2> DEFINE c == [type |-> "SESSION", watchers |-> collect_session_watchers]
  <2>1. c \in Lists
    BY DEF TypeOK, collect_session_watchers, Lists
  <2>2. c \notin ForChange(w)
    BY DEF ForChange
  <2>3. completions' = Append(completions, c)
    BY <1>1 DEF QueueSessionEvent
  <2>4. completions \in Seq(Lists)
    BY DEF TypeOK, Lists
  <2> HIDE DEF c
  <2> QED
    BY <2>1, <2>2, <2>3, <2>4, CountAppend
<1>2. CASE UNCHANGED completions
  BY <1>2
<1> QED
  BY <1>1, <1>2

\* The completion thread calls the watchers of a list, each once.
LEMMA FireDeliver ==
    ASSUME TypeOK, FireInv, deliverWatchers
    PROVE  FireInv'
<1> DEFINE c == Head(completions)
<1>1. /\ completions # <<>> /\ completions' = Tail(completions) /\ UNCHANGED <<active, registered>>
      /\ fired' = [w \in Watchers |->
                      IF c.type # "SESSION" /\ w \in c.watchers THEN fired[w] + 1 ELSE fired[w]]
  BY DEF deliverWatchers, tableVars
<1>2. /\ completions \in Seq(Lists)
      /\ c \in Lists
      /\ completions' \in Seq(Lists)
  <2>1. completions \in Seq(Lists)
    BY DEF TypeOK, Lists
  <2> QED
    BY <1>1, <2>1, HeadTailProperties
<1> SUFFICES ASSUME NEW w \in Watchers
             PROVE  fired'[w] + Count(completions', ForChange(w)) + Cardinality(Held(active, w))
                       <= registered[w]
  BY <1>1 DEF FireInv
<1> DEFINE a == fired[w]
           f == fired'[w]
           b == Count(completions, ForChange(w))
           d == Count(completions', ForChange(w))
           h == Cardinality(Held(active, w))
           q == registered[w]
<1>3. a \in Nat /\ b \in Nat /\ h \in Nat /\ q \in Nat /\ a + b + h <= q
  BY FireNumbers DEF FireInv
<1>4. d \in Nat
  BY <1>2, CountType
<1>5. c \in ForChange(w) <=> c.type # "SESSION" /\ w \in c.watchers
  BY <1>2 DEF ForChange
<1>6. b = IF c \in ForChange(w) THEN d + 1 ELSE d
  BY <1>1, <1>2, CountTail
<1>7. f = IF c \in ForChange(w) THEN a + 1 ELSE a
  BY <1>1, <1>5
<1> HIDE DEF a, b, d, f, h, q, c
<1>8. f + d + h <= q
  BY <1>3, <1>4, <1>6, <1>7
<1> QED
  BY <1>8 DEF d, f, h, q

\* "The notification is a one time trigger": for each time that a watcher was
\* registered it is called once at most, counting the lists on their way and
\* the watches that are still there.
THEOREM FiresOnce == Spec => []WatchesFireOnce
<1>1. Init => FireInv
  <2> SUFFICES ASSUME Init, NEW w \in Watchers
               PROVE  fired[w] + Count(completions, ForChange(w)) + Cardinality(Held(active, w))
                         <= registered[w]
    BY DEF FireInv
  <2>1. Held(active, w) = {}
    BY DEF Held, Init
  <2>2. Count(completions, ForChange(w)) = 0
    BY CountEmpty DEF Init
  <2>3. Cardinality(Held(active, w)) = 0
    BY <2>1, FS_EmptySet
  <2>4. fired[w] = 0 /\ registered[w] = 0
    BY DEF Init
  <2> QED
    BY <2>2, <2>3, <2>4
<1>2. Inv /\ FireInv /\ [Next]_vars => FireInv'
  <2> SUFFICES ASSUME Inv, FireInv, [Next]_vars PROVE FireInv'
    OBVIOUS
  <2>1. TypeOK
    BY DEF Inv, BaseInv
  <2>2. CASE ReadReply
    BY <2>2, FireReply
  <2>3. CASE ReadWatchEvent
    BY <2>3, FireEvent
  <2>4. CASE deliverWatchers
    BY <2>1, <2>4, FireDeliver
  <2>5. CASE Request \/ TreeChanges \/ Server \/ PrimeConnection \/ ReadSetWatches \/ UNCHANGED vars
    <3>1. UNCHANGED <<active, registered, fired, completions>>
      BY <2>5 DEF Request, TreeChanges, Server, ServerApplies, ServerReplies, ServerSetsWatches,
         PrimeConnection, ReadSetWatches, ReadFrame, vars, tableVars
    <3> QED
      BY <2>1, <3>1, FireSession
  <2>6. CASE Connected \/ Disconnected
    <3>1. UNCHANGED <<active, registered, fired>> /\ (QueueSessionEvent \/ UNCHANGED completions)
      BY <2>6, Zenon DEF Connected, Disconnected, tableVars
    <3> QED
      BY <2>1, <3>1, FireSession
  <2> QED
    BY <2>2, <2>3, <2>4, <2>5, <2>6 DEF Next, Client
<1>3. ASSUME TypeOK, FireInv PROVE WatchesFireOnce
  <2> SUFFICES ASSUME NEW w \in Watchers
               PROVE  fired[w]
                      + Cardinality({i \in DOMAIN completions :
                                        completions[i].type # "SESSION" /\ w \in completions[i].watchers})
                      + Cardinality({x \in Watching : x[3] = w}) <= registered[w]
    BY DEF WatchesFireOnce
  <2>1. completions \in Seq(Lists)
    BY <1>3 DEF TypeOK, Lists
  <2>2. {i \in DOMAIN completions : completions[i] \in ForChange(w)}
          = {i \in DOMAIN completions :
                completions[i].type # "SESSION" /\ w \in completions[i].watchers}
    <3>1. \A i \in DOMAIN completions : completions[i] \in Lists
      BY <2>1
    <3> QED
      BY <3>1 DEF ForChange
  <2>3. {x \in Watching : x[3] = w} = Held(active, w)
    BY DEF Watching, Held
  <2> QED
    BY <1>3, <2>2, <2>3 DEF FireInv, Count
<1> QED
  BY <1>1, <1>2, <1>3, Invariant, TypeCorrect, PTL DEF Spec
=============================================================================
