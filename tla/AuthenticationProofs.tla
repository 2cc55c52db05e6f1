------------------------ MODULE AuthenticationProofs ------------------------
(***************************************************************************)
(* Theorems about Authentication, for any threads, credentials and bounds. *)
(***************************************************************************)
EXTENDS Authentication, SequenceTheorems, TLAPS

\* The threads that have a credential in hand which is not on the list yet.
Appending(t) == pc[t] = "append"

\* A credential is added once: those in hand differ, and are not on the list.
CallersInv ==
    /\ DOMAIN pc = Callers /\ DOMAIN adding = Callers
    /\ \A t \in Callers : Appending(t) => adding[t] \in Credentials \ ToSet(auth_h)
    /\ \A t, u \in Callers : Appending(t) /\ Appending(u) /\ adding[t] = adding[u] => t = u

ListInv ==
    /\ auth_h \in Seq(Credentials)
    /\ pending \subseteq ToSet(auth_h) /\ callbacks \subseteq ToSet(auth_h)

\* Nobody is called whose credential is not on the list.
CalledInv ==
    /\ DOMAIN called = Credentials
    /\ \A c \in Credentials \ ToSet(auth_h) : called[c] = <<>>

AuthInv == CallersInv /\ ListInv /\ CalledInv /\ CompletionsCalledOnce

invVars == <<pc, adding, auth_h, pending, callbacks, called>>

-----------------------------------------------------------------------------
\* A list with one more element.
LEMMA AppendedSet ==
    ASSUME NEW S, NEW s \in Seq(S), NEW e \in S
    PROVE  Append(s, e) \in Seq(S) /\ ToSet(Append(s, e)) = ToSet(s) \cup {e}
<1>1. Append(s, e) \in Seq(S)
  OBVIOUS
<1>2. /\ DOMAIN Append(s, e) = DOMAIN s \cup {Len(s) + 1}
      /\ \A i \in DOMAIN s : Append(s, e)[i] = s[i]
      /\ Append(s, e)[Len(s) + 1] = e
  OBVIOUS
<1> QED
  BY <1>1, <1>2 DEF ToSet

\* The first call of a completion.
LEMMA FirstCall == ASSUME NEW e PROVE Len(Append(<<>>, e)) = 1
<1>1. <<>> \in Seq({e}) /\ Len(<<>>) = 0
  OBVIOUS
<1> QED
  BY <1>1

\* The invariants hold in the initial state ...
LEMMA InvInit == Init => AuthInv
<1>1. ToSet(<<>>) = {}
  BY DEF ToSet
<1> QED
  BY <1>1 DEF Init, AuthInv, CallersInv, ListInv, CalledInv, CompletionsCalledOnce, Appending

\* What the invariant does not mention may change.
LEMMA InvUnchanged == AuthInv /\ UNCHANGED invVars => AuthInv'
BY DEF AuthInv, CallersInv, ListInv, CalledInv, CompletionsCalledOnce, Appending, invVars

\* A caller that is past the list does not have to do with it any more.
LEMMA InvCallerMoves ==
    ASSUME AuthInv, NEW t \in Callers, NEW where, where # "append",
           pc' = [pc EXCEPT ![t] = where],
           UNCHANGED <<adding, auth_h, pending, callbacks, called>>
    PROVE  AuthInv'
<1>1. CallersInv'
  BY DEF AuthInv, CallersInv, Appending
<1>2. (ListInv /\ CalledInv /\ CompletionsCalledOnce)'
  BY DEF AuthInv, ListInv, CalledInv, CompletionsCalledOnce
<1> QED
  BY <1>1, <1>2 DEF AuthInv

\* zoo_add_auth is called with a credential that nobody has.
LEMMA InvAddAuth ==
    ASSUME AuthInv, NEW t \in Callers, NEW c \in Credentials, AddAuth(t, c)
    PROVE  AuthInv'
<1>1. /\ c \notin ToSet(auth_h) /\ \A u \in Callers : adding[u] # c
      /\ pc' = [pc EXCEPT ![t] = "append"] /\ adding' = [adding EXCEPT ![t] = c]
      /\ UNCHANGED <<auth_h, pending, callbacks, called>>
  BY DEF AddAuth, Started, listVars, ioVars, histVars, leftVars
<1>2. CallersInv'
  BY <1>1 DEF AuthInv, CallersInv, Appending
<1>3. (ListInv /\ CalledInv /\ CompletionsCalledOnce)'
  BY <1>1 DEF AuthInv, ListInv, CalledInv, CompletionsCalledOnce
<1> QED
  BY <1>2, <1>3 DEF AuthInv

\* It goes on the list, with its completion, which nobody has called.
LEMMA InvAddLastAuth ==
    ASSUME AuthInv, NEW t \in Callers, add_last_auth(t)
    PROVE  AuthInv'
<1> DEFINE c == adding[t]
<1>1. c \in Credentials \ ToSet(auth_h)
  BY DEF AuthInv, CallersInv, Appending, add_last_auth
<1>2. auth_h' \in Seq(Credentials) /\ ToSet(auth_h') = ToSet(auth_h) \cup {c}
  BY <1>1, AppendedSet DEF AuthInv, ListInv, add_last_auth
<1>3. /\ pending' = pending \cup {c} /\ pc' = [pc EXCEPT ![t] = "test"]
      /\ UNCHANGED <<adding, callbacks, called>>
  BY DEF add_last_auth, ioVars, histVars, leftVars
<1>4. CallersInv'
  BY <1>1, <1>2, <1>3 DEF AuthInv, CallersInv, Appending, add_last_auth
<1>5. ListInv'
  BY <1>2, <1>3 DEF AuthInv, ListInv
<1>6. CalledInv'
  BY <1>2, <1>3 DEF AuthInv, CalledInv
<1>7. called[c] = <<>> /\ c \notin callbacks
  BY <1>1 DEF AuthInv, CalledInv, ListInv
<1>8. CompletionsCalledOnce'
  BY <1>3, <1>7 DEF AuthInv, CompletionsCalledOnce
<1> QED
  BY <1>4, <1>5, <1>6, <1>8 DEF AuthInv

\* A reply or an error takes all completions that are left.
LEMMA InvTake ==
    ASSUME AuthInv, NEW rc, get_auth_completions(rc), UNCHANGED <<auth_h, pc, adding, called>>
    PROVE  AuthInv'
<1>1. callbacks' = pending /\ pending' = {}
  BY DEF get_auth_completions, TakePending
<1> QED
  BY <1>1 DEF AuthInv, CallersInv, Appending, ListInv, CalledInv, CompletionsCalledOnce

\* The next completion is called, which takes it off a_list.
LEMMA InvCall ==
    ASSUME AuthInv, CallCompletion
    PROVE  AuthInv'
<1>1. PICK i \in DOMAIN auth_h :
          /\ auth_h[i] \in callbacks
          /\ called' = [called EXCEPT ![auth_h[i]] = Append(@, reason)]
          /\ callbacks' = callbacks \ {auth_h[i]}
  BY DEF CallCompletion
<1> DEFINE c == auth_h[i]
<1>2. UNCHANGED <<auth_h, pending, pc, adding>>
  BY DEF CallCompletion, listVars, callerVars
<1>3. c \in callbacks /\ c \in ToSet(auth_h) /\ c \in Credentials /\ c \notin pending
  BY <1>1 DEF AuthInv, ListInv, CompletionsCalledOnce, ToSet
<1>4. called[c] = <<>>
  BY <1>3 DEF AuthInv, CompletionsCalledOnce
<1>5. DOMAIN called' = Credentials /\ \A d \in Credentials \ {c} : called'[d] = called[d]
  BY <1>1 DEF AuthInv, CalledInv
<1>6. Len(called'[c]) <= 1
  <2>1. called'[c] = Append(<<>>, reason)
    BY <1>1, <1>3, <1>4 DEF AuthInv, CalledInv
  <2> QED
    BY <2>1, FirstCall
<1>7. CompletionsCalledOnce'
  BY <1>1, <1>2, <1>3, <1>5, <1>6 DEF AuthInv, ListInv, CompletionsCalledOnce, ToSet
<1>8. CalledInv'
  BY <1>2, <1>3, <1>5 DEF AuthInv, CalledInv
<1>9. ListInv' /\ CallersInv'
  BY <1>1, <1>2 DEF AuthInv, ListInv, CallersInv, Appending
<1> QED
  BY <1>7, <1>8, <1>9 DEF AuthInv

\* ... and every step keeps them.
LEMMA InvNext == AuthInv /\ [Next]_vars => AuthInv'
<1> SUFFICES ASSUME AuthInv, [Next]_vars PROVE AuthInv'
  OBVIOUS
<1>1. CASE UNCHANGED vars
  BY <1>1, InvUnchanged DEF vars, invVars, listVars, callerVars, ioVars, histVars, leftVars
<1>2. ASSUME NEW t \in Callers, NEW c \in Credentials, AddAuth(t, c) PROVE AuthInv'
  BY <1>2, InvAddAuth
<1>3. ASSUME NEW t \in Callers, zoo_add_auth(t) PROVE AuthInv'
  <2>1. CASE add_last_auth(t)
    BY <2>1, InvAddLastAuth
  <2>2. CASE TestState(t)
    <3>1. UNCHANGED <<adding, auth_h, pending, callbacks, called>>
      BY <2>2 DEF TestState, TestStateVars, listVars, ioVars, histVars, leftVars
    <3>2. PICK where \in {"send", "idle"} : pc' = [pc EXCEPT ![t] = where]
      BY <2>2 DEF TestState
    <3> QED
      BY <3>1, <3>2, InvCallerMoves
  <2>3. CASE send_last_auth_info(t)
    <3>1. /\ pc' = [pc EXCEPT ![t] = "idle"]
          /\ UNCHANGED <<adding, auth_h, pending, callbacks, called>>
      BY <2>3 DEF send_last_auth_info, listVars, ioVars
    <3> QED
      BY <3>1, InvCallerMoves
  <2> QED
    BY <1>3, <2>1, <2>2, <2>3 DEF zoo_add_auth
<1>4. ASSUME NEW t \in Callers, Request(t) PROVE AuthInv'
  BY <1>4, InvUnchanged DEF Request, invVars, listVars, callerVars, ioVars, histVars, leftVars
<1>5. CASE IOStep
  <2>1. CASE prime_connection \/ Connected \/ send_auth_info
    BY <2>1, InvUnchanged
    DEF prime_connection, Connected, send_auth_info, invVars, listVars, callerVars, ioVars, histVars, leftVars
  <2>2. CASE flush_send_queue \/ CompletionsCalled
    BY <2>2, InvUnchanged
    DEF flush_send_queue, CompletionsCalled, invVars, listVars, callerVars, ioVars, histVars, leftVars
  <2>3. CASE auth_completion_func
    <3>1. UNCHANGED <<auth_h, pc, adding, called>> /\ get_auth_completions(Head(replies))
      BY <2>3 DEF auth_completion_func, callerVars, histVars, leftVars
    <3> QED
      BY <3>1, InvTake
  <2>4. CASE CallCompletion
    BY <2>4, InvCall
  <2>5. CASE HandleErrorClose \/ HandleErrorReset
    BY <2>5, InvUnchanged
    DEF HandleErrorClose, HandleErrorReset, invVars, listVars, callerVars, ioVars, histVars, leftVars
  <2>6. CASE CleanupBufs
    <3>1. /\ UNCHANGED <<auth_h, pc, adding, called>>
          /\ get_auth_completions(IF is_unrecoverable THEN "ZAUTHFAILED" ELSE "ZCONNECTIONLOSS")
      BY <2>6 DEF CleanupBufs, callerVars, histVars, leftVars
    <3> QED
      BY <3>1, InvTake
  <2> QED
    BY <1>5, <2>1, <2>2, <2>3, <2>4, <2>5, <2>6 DEF IOStep, handle_error
<1>6. CASE ConnectionLost \/ ServerStep
  BY <1>6, InvUnchanged
  DEF ConnectionLost, ServerStep, invVars, listVars, callerVars, ioVars, histVars, leftVars
<1> QED
  BY <1>1, <1>2, <1>3, <1>4, <1>5, <1>6 DEF Next

\* The completion of a call of zoo_add_auth is called once at most, however
\* many threads add credentials while replies and errors are handled.
THEOREM CompletionOnce == Spec => []CompletionsCalledOnce
<1>1. AuthInv => CompletionsCalledOnce
  BY DEF AuthInv
<1> QED
  BY InvInit, InvNext, <1>1, PTL DEF Spec

\* A handle whose credential was rejected stays in ZOO_AUTH_FAILED_STATE:
\* handle_error and the handshake, the only other places that set the state,
\* leave it alone.
THEOREM FailureFinal == Spec => AuthFailureIsFinal
<1>1. ASSUME [Next]_vars PROVE [is_unrecoverable => is_unrecoverable']_vars
  <2> SUFFICES ASSUME Next, state = "AUTH_FAILED" PROVE state' = "AUTH_FAILED"
    BY <1>1 DEF is_unrecoverable
  <2>1. ASSUME NEW t \in Callers, NEW c \in Credentials, AddAuth(t, c) PROVE state' = state
    BY <2>1 DEF AddAuth
  <2>2. ASSUME NEW t \in Callers, zoo_add_auth(t) \/ Request(t) PROVE state' = state
    BY <2>2 DEF zoo_add_auth, add_last_auth, TestState, TestStateVars, send_last_auth_info, Request
  <2>3. CASE IOStep
    <3>1. ~prime_connection /\ ~Connected
      BY DEF prime_connection, Connected
    <3>2. CASE send_auth_info \/ flush_send_queue \/ CallCompletion \/ CompletionsCalled
      BY <3>2 DEF send_auth_info, flush_send_queue, CallCompletion, CompletionsCalled
    <3>3. CASE auth_completion_func
      BY <3>3 DEF auth_completion_func
    <3>4. CASE handle_error
      BY <3>4 DEF handle_error, HandleErrorClose, CleanupBufs, HandleErrorReset, ResetState,
                  is_unrecoverable
    <3> QED
      BY <2>3, <3>1, <3>2, <3>3, <3>4 DEF IOStep
  <2>4. CASE ConnectionLost \/ ServerStep
    BY <2>4 DEF ConnectionLost, ServerStep
  <2> QED
    BY <2>1, <2>2, <2>3, <2>4 DEF Next
<1> QED
  BY <1>1, PTL DEF Spec, AuthFailureIsFinal
-----------------------------------------------------------------------------
(* TypeOK.  A completion is called with a code that get_auth_completions   *)
(* was given.                                                              *)

ReasonInv == ioPc \in {"callbacks", "failing"} => reason \in Codes

TypeInv == TypeOK /\ AuthInv /\ ReasonInv

(* RequestsCarryCredentials.  A request on its way finds each credential   *)
(* that it counts on at the server or in front of it.  That alone does not *)
(* say why a new request does, nor why those that outlive a connection do  *)
(* on the next one.                                                        *)

\* The credentials of the packets among the frames.
Carried(frames) == {c \in Credentials : \E i \in DOMAIN frames : IsAuth(frames[i], c)}

\* Every request finds its credentials, unless excused, at the server or ahead.
Covered(frames, served, excused) ==
    \A i \in DOMAIN frames : frames[i].type = "request" =>
        \A c \in frames[i].after \ excused : c \in served \/ Ahead(c, i, frames)

\* Packets are put in front and requests behind.
PacketsFirst(frames) ==
    \A i, j \in DOMAIN frames : frames[i].type = "request" /\ frames[j].type = "auth" => j < i

\* The credentials a new request counts on, and all that those on their way do.
Ready == {c \in ToSet(auth_h) : \A t \in Callers : adding[t] = c => pc[t] = "idle"}

CountsOn(frames, R) == \A i \in DOMAIN frames : frames[i].type = "request" => frames[i].after \subseteq R

\* The IO thread reads and writes: it has sent the credentials.
Serving == link /\ ioPc \in {"loop", "callbacks"}

\* A connection is up from the handshake to the error, and the first thing that
\* happens on it is send_auth_info.
LinkInv ==
    /\ link => state \in {"CONNECTED", "AUTH_FAILED"}
    /\ ioPc \in {"cleanup", "failing", "done", "waitsForItself"} => ~link
    /\ ioPc = "sendAuth" => link /\ wire = <<>> /\ server = {}

\* The list has the credentials that threads are about to send.
HandInv == \A t \in Callers : pc[t] \in {"test", "send"} => adding[t] \in ToSet(auth_h)

QueueInv == PacketsFirst(to_send) /\ CountsOn(wire \o to_send, Ready)

\* What is ready was sent on this connection, or left out.
SentInv ==
    Serving /\ ~is_unrecoverable =>
        \A c \in Ready \ (skipped \cup Rejected) : c \in server \cup Carried(wire \o to_send)

CoverInv == Serving => Covered(wire \o to_send, server, skipped \cup Rejected)

CarryInv == TypeInv /\ LinkInv /\ HandInv /\ QueueInv /\ SentInv /\ CoverInv

-----------------------------------------------------------------------------
(* Frames put in front of others, behind them, or taken off.               *)

\* Two lists, one behind the other.
LEMMA Concat ==
    ASSUME NEW S, NEW a \in Seq(S), NEW b \in Seq(S)
    PROVE  /\ a \o b \in Seq(S) /\ Len(a) \in Nat /\ Len(b) \in Nat
           /\ Len(a \o b) = Len(a) + Len(b)
           /\ \A i \in 1..Len(a) : (a \o b)[i] = a[i]
           /\ \A i \in 1..Len(b) : (a \o b)[Len(a) + i] = b[i]
OBVIOUS

\* What lies beyond m is some way beyond it.
LEMMA Beyond ==
    ASSUME NEW m \in Nat, NEW n \in Nat, NEW i \in Nat, i > m, i <= m + n
    PROVE  \E g \in 1..n : i = m + g
<1> WITNESS i - m \in 1..n
<1> QED
  OBVIOUS

\* p goes between w and q: every frame of the result is one of p, or one of
\* w and q with at least the same frames ahead.  Nothing gets lost.
Between(w, p, q) ==
    LET F == w \o q
        G == w \o (p \o q)
    IN  /\ \A i \in DOMAIN G :
              \/ \E g \in DOMAIN p : G[i] = p[g]
              \/ \E h \in DOMAIN F :
                    G[i] = F[h] /\ \A j \in 1..(h - 1) : \E g \in 1..(i - 1) : G[g] = F[j]
        /\ \A h \in DOMAIN F : \E i \in DOMAIN G : G[i] = F[h]
        /\ \A j \in DOMAIN p : \E i \in DOMAIN G : G[i] = p[j]

\* A list put in between is between.
LEMMA Inserted ==
    ASSUME NEW S, NEW w \in Seq(S), NEW p \in Seq(S), NEW q \in Seq(S)
    PROVE  Between(w, p, q)
<1> DEFINE F == w \o q
           G == w \o (p \o q)
<1>1. /\ F \in Seq(S) /\ G \in Seq(S) /\ p \o q \in Seq(S)
      /\ Len(w) \in Nat /\ Len(p) \in Nat /\ Len(q) \in Nat
      /\ DOMAIN p = 1..Len(p)
      /\ DOMAIN F = 1..(Len(w) + Len(q)) /\ DOMAIN G = 1..(Len(w) + Len(p) + Len(q))
  OBVIOUS
<1>2. /\ \A i \in 1..Len(w) : F[i] = w[i] /\ G[i] = w[i]
      /\ \A i \in 1..Len(q) : F[Len(w) + i] = q[i]
      /\ \A i \in 1..Len(p) : G[Len(w) + i] = p[i]
      /\ \A i \in 1..Len(q) : G[Len(w) + Len(p) + i] = q[i]
  OBVIOUS
<1> DEFINE m == Len(w)
           k == Len(p)
           n == Len(q)
<1> HIDE DEF F, G
<1>0. /\ m \in Nat /\ k \in Nat /\ n \in Nat
      /\ DOMAIN F = 1..(m + n) /\ DOMAIN G = 1..(m + k + n) /\ DOMAIN p = 1..k
  BY <1>1
<1>a. /\ \A i \in 1..m : F[i] = w[i] /\ G[i] = w[i]
      /\ \A i \in 1..n : F[m + i] = q[i]
      /\ \A i \in 1..k : G[m + i] = p[i]
      /\ \A i \in 1..n : G[m + k + i] = q[i]
  BY <1>2
<1> HIDE DEF m, k, n
<1>3. \A j \in DOMAIN p : m + j \in DOMAIN G /\ G[m + j] = p[j]
  BY <1>0, <1>a
<1> DEFINE At(h) == IF h <= m THEN h ELSE h + k
<1>4. \A h \in DOMAIN F : At(h) \in DOMAIN G /\ G[At(h)] = F[h]
  <2> SUFFICES ASSUME NEW h \in DOMAIN F PROVE At(h) \in DOMAIN G /\ G[At(h)] = F[h]
    OBVIOUS
  <2>1. CASE h <= m
    BY <2>1, <1>0, <1>a
  <2>2. CASE h > m
    <3>0. h \in Nat /\ h <= m + n
      BY <1>0
    <3>1. PICK g \in 1..n : h = m + g
      BY <2>2, <3>0, <1>0, Beyond
    <3>2. At(h) = m + k + g
      BY <3>1, <1>0
    <3>3. At(h) \in DOMAIN G /\ G[m + k + g] = q[g] /\ F[m + g] = q[g]
      BY <3>2, <1>0, <1>a
    <3> HIDE DEF At
    <3> QED
      BY <3>1, <3>2, <3>3
  <2> QED
    BY <2>1, <2>2, <1>0
<1>5. ASSUME NEW i \in DOMAIN G
      PROVE  \/ \E g \in DOMAIN p : G[i] = p[g]
             \/ \E h \in DOMAIN F :
                   /\ G[i] = F[h]
                   /\ \A j \in 1..(h - 1) : \E g \in 1..(i - 1) : G[g] = F[j]
  <2>1. CASE i <= m
    <3>1. i \in DOMAIN F /\ i = At(i)
      BY <2>1, <1>0
    <3>2. \A j \in 1..(i - 1) : j \in 1..m
      BY <2>1, <1>0
    <3>3. \A j \in 1..(i - 1) : \E g \in 1..(i - 1) : G[g] = F[j]
      BY <3>2, <1>a
    <3>4. G[i] = F[i]
      BY <3>1, <1>4
    <3> QED
      BY <3>1, <3>3, <3>4
  <2>2. CASE i > m /\ i <= m + k
    <3>0. i \in Nat
      BY <1>0
    <3>1. PICK g \in 1..k : i = m + g
      BY <2>2, <3>0, <1>0, Beyond
    <3> QED
      BY <3>1, <1>0, <1>3
  <2>3. CASE i > m + k
    <3>0. i \in Nat /\ m + k \in Nat /\ i <= m + k + n
      BY <1>0
    <3>a. PICK e \in 1..n : i = m + k + e
      BY <2>3, <3>0, <1>0, Beyond
    <3>b. PICK h \in Nat : h = m + e
      BY <3>a, <1>0
    <3>1. h \in DOMAIN F /\ i = h + k /\ h > m
      BY <3>a, <3>b, <1>0
    <3>2. i = At(h)
      BY <3>1, <1>0
    <3>3. \A j \in 1..(h - 1) : At(j) \in 1..(i - 1) /\ j \in DOMAIN F
      BY <3>1, <1>0
    <3> HIDE DEF At
    <3>5. G[i] = F[h]
      BY <3>1, <3>2, <1>4
    <3>6. \A j \in 1..(h - 1) : \E g \in 1..(i - 1) : G[g] = F[j]
      BY <3>3, <1>4
    <3> QED
      BY <3>1, <3>5, <3>6
  <2> QED
    BY <2>1, <2>2, <2>3, <1>0
<1>6. \A h \in DOMAIN F : \E i \in DOMAIN G : G[i] = F[h]
  BY <1>4
<1>7. \A j \in DOMAIN p : \E i \in DOMAIN G : G[i] = p[j]
  BY <1>3
<1> QED
  BY <1>5, <1>6, <1>7 DEF F, G, Between

\* A frame is moved from the queue to the wire.
LEMMA Moved ==
    ASSUME NEW S, NEW w \in Seq(S), NEW q \in Seq(S), q # <<>>
    PROVE  /\ Append(w, Head(q)) \in Seq(S) /\ Tail(q) \in Seq(S)
           /\ Append(w, Head(q)) \o Tail(q) = w \o q
<1>1. /\ Head(q) = q[1] /\ Head(q) \in S /\ Tail(q) \in Seq(S)
      /\ Len(q) \in Nat \ {0} /\ Len(Tail(q)) = Len(q) - 1 /\ Len(w) \in Nat
      /\ \A i \in 1..(Len(q) - 1) : Tail(q)[i] = q[i + 1]
  BY HeadTailProperties, LenProperties, EmptySeq
<1> DEFINE a == Append(w, Head(q))
           r == Tail(q)
<1>2. a \in Seq(S) /\ Len(a) = Len(w) + 1 /\ a[Len(w) + 1] = q[1] /\ \A i \in 1..Len(w) : a[i] = w[i]
  BY <1>1
<1>3. r \in Seq(S) /\ Len(r) = Len(q) - 1 /\ \A i \in 1..(Len(q) - 1) : r[i] = q[i + 1]
  BY <1>1
<1> HIDE DEF a, r
<1> DEFINE m == Len(w)
           n == Len(q)
           F == w \o q
           G == a \o r
<1>4. /\ F \in Seq(S) /\ Len(F) = m + n
      /\ \A i \in 1..m : F[i] = w[i]
      /\ \A i \in 1..n : F[m + i] = q[i]
  BY Concat
<1>5. /\ G \in Seq(S) /\ Len(G) = m + 1 + (n - 1)
      /\ \A i \in 1..(m + 1) : G[i] = a[i]
      /\ \A i \in 1..(n - 1) : G[m + 1 + i] = r[i]
  <2>1. /\ G \in Seq(S) /\ Len(G) = Len(a) + Len(r)
        /\ \A i \in 1..Len(a) : G[i] = a[i]
        /\ \A i \in 1..Len(r) : G[Len(a) + i] = r[i]
    <3>1. a \in Seq(S) /\ r \in Seq(S)
      BY <1>2, <1>3
    <3> QED
      BY <3>1, Concat
  <2> QED
    BY <2>1, <1>2, <1>3
<1>6. /\ m \in Nat /\ n \in Nat \ {0}
      /\ a[m + 1] = q[1]
      /\ \A i \in 1..m : a[i] = w[i]
      /\ \A i \in 1..(n - 1) : r[i] = q[i + 1]
  BY <1>1, <1>2, <1>3
<1> HIDE DEF m, n, F, G
<1>7. \A i \in 1..(m + n) : G[i] = F[i]
  <2> SUFFICES ASSUME NEW i \in 1..(m + n) PROVE G[i] = F[i]
    OBVIOUS
  <2>1. CASE i <= m
    <3>1. i \in 1..m /\ i \in 1..(m + 1)
      BY <2>1, <1>6
    <3> QED
      BY <3>1, <1>4, <1>5, <1>6
  <2>2. CASE i = m + 1
    <3>1. 1 \in 1..n /\ m + 1 \in 1..(m + 1)
      BY <1>6
    <3>2. F[m + 1] = q[1] /\ G[m + 1] = a[m + 1]
      BY <3>1, <1>4, <1>5
    <3> QED
      BY <3>2, <2>2, <1>6
  <2>3. CASE i > m + 1
    <3>1. PICK g \in 1..(n - 1) : i = m + 1 + g
      <4>1. m + 1 \in Nat /\ n - 1 \in Nat /\ i \in Nat /\ i <= m + 1 + (n - 1)
        BY <1>6
      <4> QED
        BY <2>3, <4>1, Beyond
    <3>2. PICK h \in 1..n : h = g + 1
      BY <1>6
    <3>3. i = m + h
      BY <3>1, <3>2, <1>6
    <3>4. F[m + h] = q[h] /\ r[g] = q[h] /\ G[m + 1 + g] = r[g]
      BY <3>2, <1>4, <1>5, <1>6
    <3> QED
      BY <3>1, <3>3, <3>4
  <2> QED
    BY <2>1, <2>2, <2>3, <1>6
<1>8. G = F
  <2>1. Len(G) = Len(F) /\ Len(F) = m + n
    BY <1>4, <1>5, <1>6
  <2>2. \A i \in 1..Len(G) : G[i] = F[i]
    BY <2>1, <1>7
  <2>3. F \in Seq(S) /\ G \in Seq(S)
    BY <1>4, <1>5
  <2> QED
    BY <2>1, <2>2, <2>3, SeqEqual
<1> QED
  BY <1>1, <1>2, <1>8 DEF a, r, F, G

\* A frame goes to the end.
LEMMA Queued ==
    ASSUME NEW S, NEW w \in Seq(S), NEW q \in Seq(S), NEW r \in S
    PROVE  /\ Append(q, r) \in Seq(S) /\ w \o q \in Seq(S)
           /\ w \o Append(q, r) \in Seq(S)
           /\ DOMAIN (w \o q) = 1..Len(w \o q) /\ Len(w \o q) \in Nat
           /\ DOMAIN (w \o Append(q, r)) = 1..(Len(w \o q) + 1)
           /\ \A i \in DOMAIN (w \o q) : (w \o Append(q, r))[i] = (w \o q)[i]
           /\ (w \o Append(q, r))[Len(w \o q) + 1] = r
OBVIOUS

\* A frame is read by the server.
LEMMA TakenOff ==
    ASSUME NEW S, NEW w \in Seq(S), NEW q \in Seq(S), w # <<>>
    PROVE  /\ Tail(w) \in Seq(S) /\ w \o q \in Seq(S) /\ Tail(w) \o q \in Seq(S)
           /\ (w \o q)[1] = Head(w) /\ 1 \in DOMAIN (w \o q) /\ Head(w) \in S
           /\ DOMAIN (w \o q) = 1..Len(w \o q) /\ Len(w \o q) \in Nat \ {0}
           /\ DOMAIN (Tail(w) \o q) = 1..(Len(w \o q) - 1)
           /\ \A i \in 1..(Len(w \o q) - 1) : (Tail(w) \o q)[i] = (w \o q)[i + 1]
<1>1. /\ Head(w) = w[1] /\ Head(w) \in S /\ Tail(w) \in Seq(S)
      /\ Len(w) \in Nat \ {0} /\ Len(Tail(w)) = Len(w) - 1 /\ Len(q) \in Nat
      /\ \A i \in 1..(Len(w) - 1) : Tail(w)[i] = w[i + 1]
  BY HeadTailProperties, LenProperties, EmptySeq
<1> DEFINE r == Tail(w)
<1> HIDE DEF r
<1>2. r \in Seq(S) /\ Len(r) = Len(w) - 1 /\ \A i \in 1..(Len(w) - 1) : r[i] = w[i + 1]
  BY <1>1 DEF r
<1> DEFINE m == Len(w)
           n == Len(q)
           F == w \o q
           G == r \o q
<1>3. /\ F \in Seq(S) /\ Len(F) = m + n
      /\ \A i \in 1..m : F[i] = w[i]
      /\ \A i \in 1..n : F[m + i] = q[i]
  BY Concat
<1>4. /\ G \in Seq(S) /\ Len(G) = m - 1 + n
      /\ \A i \in 1..(m - 1) : G[i] = r[i]
      /\ \A i \in 1..n : G[m - 1 + i] = q[i]
  <2>1. /\ G \in Seq(S) /\ Len(G) = Len(r) + Len(q)
        /\ \A i \in 1..Len(r) : G[i] = r[i]
        /\ \A i \in 1..Len(q) : G[Len(r) + i] = q[i]
    <3>1. r \in Seq(S)
      BY <1>2
    <3> QED
      BY <3>1, Concat
  <2> QED
    BY <2>1, <1>2
<1>5. m \in Nat \ {0} /\ n \in Nat /\ \A i \in 1..(m - 1) : r[i] = w[i + 1]
  BY <1>1, <1>2
<1>6. DOMAIN F = 1..(m + n) /\ DOMAIN G = 1..(m - 1 + n)
  BY <1>3, <1>4
<1> HIDE DEF m, n, F, G
<1>7. \A i \in 1..(m + n - 1) : G[i] = F[i + 1]
  <2> SUFFICES ASSUME NEW i \in 1..(m + n - 1) PROVE G[i] = F[i + 1]
    OBVIOUS
  <2>1. CASE i <= m - 1
    <3>1. i \in 1..(m - 1) /\ i + 1 \in 1..m
      BY <2>1, <1>5
    <3> QED
      BY <3>1, <1>3, <1>4, <1>5
  <2>2. CASE i > m - 1
    <3>1. PICK g \in 1..n : i = m - 1 + g
      <4>1. m - 1 \in Nat /\ i \in Nat /\ i <= m - 1 + n
        BY <1>5
      <4> QED
        BY <2>2, <4>1, <1>5, Beyond
    <3>2. i + 1 = m + g
      BY <3>1, <1>5
    <3> QED
      BY <3>1, <3>2, <1>3, <1>4
  <2> QED
    BY <2>1, <2>2, <1>5
<1>8. /\ DOMAIN F = 1..Len(F) /\ Len(F) \in Nat \ {0} /\ 1 \in DOMAIN F
      /\ DOMAIN G = 1..(Len(F) - 1) /\ Len(F) - 1 = m + n - 1 /\ F[1] = w[1]
  <2>1. Len(F) = m + n /\ 1 \in 1..m /\ m + n \in Nat \ {0} /\ m - 1 + n = m + n - 1
    BY <1>3, <1>5
  <2>2. 1 \in 1..(m + n) /\ F[1] = w[1]
    BY <2>1, <1>3, <1>5
  <2>3. DOMAIN F = 1..Len(F) /\ 1 \in DOMAIN F
    BY <2>1, <2>2, <1>6
  <2>4. DOMAIN G = 1..(Len(F) - 1)
    BY <2>1, <1>5, <1>6
  <2>5. Len(F) \in Nat \ {0} /\ Len(F) - 1 = m + n - 1
    BY <2>1, <1>5
  <2> QED
    BY <2>2, <2>3, <2>4, <2>5
<1>9. \A i \in 1..(Len(F) - 1) : G[i] = F[i + 1]
  BY <1>7, <1>8
<1> QED
  BY <1>1, <1>3, <1>4, <1>8, <1>9 DEF r, F, G

-----------------------------------------------------------------------------
(* What that does to packets and requests.                                 *)

\* Reading a frame.
LEMMA FrameKinds ==
    /\ \A f \in Frames : f.type \in {"auth", "request"}
    /\ \A f \in Frames : f.type = "auth" => f.cred \in Credentials
    /\ \A f \in Frames : f.type = "request" => f.after \subseteq Credentials
    /\ \A c \in Credentials : /\ Auth(c) \in Frames /\ Auth(c).type = "auth"
                              /\ \A d : IsAuth(Auth(c), d) <=> d = c
BY DEF Frames, Auth, IsAuth

\* send_info_packets puts one packet per credential in front.
LEMMA PacketsSent ==
    ASSUME NEW creds \in Seq(Credentials), NEW q \in Seq(Frames)
    PROVE  \E p \in Seq(Frames) :
              /\ send_info_packets(q, creds) = p \o q
              /\ \A j \in DOMAIN p : p[j].type = "auth"
              /\ \A i \in DOMAIN creds : \E j \in DOMAIN p : IsAuth(p[j], creds[i])
<1> DEFINE n == Len(creds)
           s == [i \in DOMAIN creds |-> Auth(creds[i])]
           p == [i \in 1..n |-> Auth(creds[n - i + 1])]
<1>1. n \in Nat /\ DOMAIN creds = 1..n /\ \A i \in 1..n : creds[i] \in Credentials
  OBVIOUS
<1>2. \A i \in 1..n : Auth(creds[i]) \in Frames /\ Auth(creds[i]).type = "auth" /\ IsAuth(Auth(creds[i]), creds[i])
  BY <1>1, FrameKinds
<1> HIDE DEF n
<1>3. \A i \in 1..n : n - i + 1 \in 1..n /\ n - (n - i + 1) + 1 = i
  BY <1>1
<1>4. DOMAIN s = 1..n /\ \A i \in 1..n : s[i] = Auth(creds[i])
  BY <1>1
<1>5. Len(s) = n
  <2>1. \A i \in 1..n : s[i] \in Frames
    BY <1>2, <1>4
  <2>2. s \in [1..n -> Frames]
    BY <1>1, <2>1
  <2> QED
    BY <2>2, <1>1
<1>6. Reverse(s) = p
  BY <1>3, <1>4, <1>5 DEF Reverse
<1>7. p \in Seq(Frames) /\ DOMAIN p = 1..n
  <2>1. \A i \in 1..n : Auth(creds[n - i + 1]) \in Frames
    BY <1>2, <1>3
  <2>2. p \in [1..n -> Frames]
    BY <2>1
  <2> QED
    BY <2>2, <1>1
<1>8. \A j \in DOMAIN p : p[j].type = "auth"
  BY <1>2, <1>3, <1>7
<1>9. \A i \in DOMAIN creds : \E j \in DOMAIN p : IsAuth(p[j], creds[i])
  <2> SUFFICES ASSUME NEW i \in 1..n PROVE \E j \in DOMAIN p : IsAuth(p[j], creds[i])
    BY <1>1
  <2>1. p[n - i + 1] = Auth(creds[i])
    BY <1>3
  <2> QED
    BY <2>1, <1>2, <1>3, <1>7
<1>10. send_info_packets(q, creds) = p \o q
  BY <1>6 DEF send_info_packets, queue_front
<1> QED
  BY <1>7, <1>8, <1>9, <1>10

\* A credential that is ahead of a frame stays ahead of it.
LEMMA StaysAhead ==
    ASSUME NEW F, NEW G, NEW h \in Nat, NEW i \in Nat, NEW c,
           \A j \in 1..(h - 1) : \E g \in 1..(i - 1) : G[g] = F[j],
           Ahead(c, h, F)
    PROVE  Ahead(c, i, G)
BY DEF Ahead

\* What is ahead of the frame after i is one of the first i.
LEMMA AheadOfNext ==
    ASSUME NEW F, NEW i \in Nat, NEW c, Ahead(c, i + 1, F)
    PROVE  \E j \in 1..i : IsAuth(F[j], c)
<1>1. (i + 1) - 1 = i
  OBVIOUS
<1>2. \A h : Ahead(c, h, F) => \E j \in 1..(h - 1) : IsAuth(F[j], c)
  BY DEF Ahead
<1>3. \E j \in 1..((i + 1) - 1) : IsAuth(F[j], c)
  BY <1>2, Zenon
<1> QED
  BY <1>1, <1>3

\* Packets in between leave what is covered covered.
LEMMA CoverInserted ==
    ASSUME NEW w \in Seq(Frames), NEW p \in Seq(Frames), NEW q \in Seq(Frames),
           NEW s, NEW k, NEW m,
           \A j \in DOMAIN p : p[j].type = "auth",
           Covered(w \o q, s, k),
           \A i \in DOMAIN (w \o q) : (w \o q)[i].type = "request" => (w \o q)[i].after \ m \subseteq (w \o q)[i].after \ k
    PROVE  Covered(w \o (p \o q), s, m)
<1> DEFINE F == w \o q
           G == w \o (p \o q)
<1>1. /\ DOMAIN F \subseteq Nat /\ DOMAIN G \subseteq Nat
      /\ \A i \in DOMAIN G :
            \/ \E g \in DOMAIN p : G[i] = p[g]
            \/ \E h \in DOMAIN F : /\ G[i] = F[h]
                                   /\ \A j \in 1..(h - 1) : \E g \in 1..(i - 1) : G[g] = F[j]
  <2>1. F \in Seq(Frames) /\ G \in Seq(Frames)
    OBVIOUS
  <2>2. DOMAIN F \subseteq Nat /\ DOMAIN G \subseteq Nat
    <3> HIDE DEF F, G
    <3> QED
      BY <2>1
  <2>3. \A i \in DOMAIN G :
            \/ \E g \in DOMAIN p : G[i] = p[g]
            \/ \E h \in DOMAIN F : /\ G[i] = F[h]
                                   /\ \A j \in 1..(h - 1) : \E g \in 1..(i - 1) : G[g] = F[j]
    <3>1. Between(w, p, q)
      BY Inserted
    <3> QED
      BY <3>1 DEF Between
  <2> QED
    BY <2>2, <2>3
<1> SUFFICES ASSUME NEW i \in DOMAIN G, G[i].type = "request", NEW c \in G[i].after \ m
             PROVE  c \in s \/ Ahead(c, i, G)
  BY DEF Covered
<1>2. ~\E g \in DOMAIN p : G[i] = p[g]
  OBVIOUS
<1>3. PICK h \in DOMAIN F : /\ G[i] = F[h]
                            /\ \A j \in 1..(h - 1) : \E g \in 1..(i - 1) : G[g] = F[j]
  BY <1>1, <1>2
<1> HIDE DEF F, G
<1>4. F[h].type = "request" /\ c \in F[h].after \ k
  BY <1>3 DEF F, G
<1>5. c \in s \/ Ahead(c, h, F)
  BY <1>4 DEF Covered, F
<1> QED
  BY <1>1, <1>3, <1>5, StaysAhead

\* The packets of send_auth_info cover what they are for, and what was queued
\* in front of a request before.
LEMMA CoverPrimed ==
    ASSUME NEW p \in Seq(Frames), NEW q \in Seq(Frames), NEW s, NEW k,
           PacketsFirst(q),
           \A i \in DOMAIN q : q[i].type = "request" =>
               \A c \in q[i].after \ k : \/ \E j \in DOMAIN p : IsAuth(p[j], c)
                                         \/ c \in Carried(q),
           \A j \in DOMAIN p : p[j].type = "auth"
    PROVE  Covered(p \o q, s, k)
<1> DEFINE G == p \o q
<1>1. /\ Len(p) \in Nat /\ Len(q) \in Nat
      /\ DOMAIN q = 1..Len(q) /\ DOMAIN p = 1..Len(p) /\ DOMAIN G = 1..(Len(p) + Len(q))
      /\ \A i \in 1..Len(p) : G[i] = p[i]
      /\ \A i \in 1..Len(q) : G[Len(p) + i] = q[i]
  OBVIOUS
<1> SUFFICES ASSUME NEW i \in DOMAIN G, G[i].type = "request", NEW c \in G[i].after \ k
             PROVE  Ahead(c, i, G)
  BY DEF Covered
<1> DEFINE m == Len(p)
           n == Len(q)
<1>2. /\ m \in Nat /\ n \in Nat /\ DOMAIN q = 1..n /\ DOMAIN p = 1..m /\ DOMAIN G = 1..(m + n)
      /\ \A j \in 1..m : G[j] = p[j]
      /\ \A j \in 1..n : G[m + j] = q[j]
      /\ G[i].type = "request" /\ c \in G[i].after \ k
  BY <1>1
<1> HIDE DEF m, n, G
<1>3. ~(i <= m)
  <2> SUFFICES ASSUME i <= m PROVE FALSE
    OBVIOUS
  <2>1. i \in 1..m
    BY <1>2
  <2> QED
    BY <2>1, <1>2
<1>4. PICK h \in 1..n : i = m + h
  <2>1. i \in Nat /\ i <= m + n /\ i > m
    BY <1>2, <1>3
  <2> QED
    BY <2>1, <1>2, Beyond
<1>5. G[i] = q[h] /\ h \in DOMAIN q
  BY <1>2, <1>4
<1>6. CASE \E j \in DOMAIN p : IsAuth(p[j], c)
  <2>1. PICK j \in 1..m : IsAuth(p[j], c)
    BY <1>2, <1>6
  <2>2. j \in 1..(i - 1)
    BY <1>2, <1>4
  <2> QED
    BY <2>1, <2>2, <1>2 DEF Ahead
<1>7. CASE c \in Carried(q)
  <2>1. PICK j \in DOMAIN q : IsAuth(q[j], c)
    BY <1>7 DEF Carried
  <2>2. j < h
    BY <2>1, <1>2, <1>5 DEF PacketsFirst, IsAuth
  <2>3. m + j \in 1..(i - 1) /\ G[m + j] = q[j]
    BY <2>1, <2>2, <1>2, <1>4
  <2> QED
    BY <2>1, <2>3 DEF Ahead
<1> QED
  BY <1>2, <1>5, <1>6, <1>7

\* A new request is covered by what is sent already, as it goes behind.
LEMMA CoverQueued ==
    ASSUME NEW w \in Seq(Frames), NEW q \in Seq(Frames), NEW r \in Frames, NEW s, NEW k,
           Covered(w \o q, s, k),
           \A c \in r.after \ k : c \in s \cup Carried(w \o q)
    PROVE  Covered(w \o Append(q, r), s, k)
<1> DEFINE F == w \o q
           G == w \o Append(q, r)
           n == Len(F)
<1>1. /\ n \in Nat /\ DOMAIN F = 1..n /\ DOMAIN G = 1..(n + 1)
      /\ G[n + 1] = r /\ \A i \in 1..n : G[i] = F[i]
  BY Queued
<1>2. Covered(F, s, k) /\ \A c \in r.after \ k : c \in s \cup Carried(F)
  OBVIOUS
<1> SUFFICES ASSUME NEW i \in DOMAIN G, G[i].type = "request", NEW c \in G[i].after \ k
             PROVE  c \in s \/ Ahead(c, i, G)
  BY DEF Covered
<1>a. G[i].type = "request" /\ c \in G[i].after \ k
  OBVIOUS
<1> HIDE DEF F, G, n
<1>3. CASE i \in 1..n
  <2>1. c \in s \/ Ahead(c, i, F)
    BY <1>1, <1>2, <1>3, <1>a DEF Covered
  <2>2. \A j \in 1..(i - 1) : \E g \in 1..(i - 1) : G[g] = F[j]
    BY <1>1, <1>3
  <2>3. i \in Nat
    BY <1>1, <1>3
  <2>4. Ahead(c, i, F) => Ahead(c, i, G)
    BY <2>2, <2>3, StaysAhead, ZenonT(30)
  <2> QED
    BY <2>1, <2>4
<1>4. CASE i = n + 1
  <2>1. c \in s \/ \E j \in 1..n : IsAuth(F[j], c)
    BY <1>1, <1>2, <1>4, <1>a DEF Carried
  <2> QED
    BY <2>1, <1>1, <1>4 DEF Ahead
<1> QED
  BY <1>1, <1>3, <1>4

\* What the server takes is at the server, if it does not reject it.
LEMMA CoverTaken ==
    ASSUME NEW w \in Seq(Frames), NEW q \in Seq(Frames), w # <<>>, NEW s, NEW k, NEW t,
           Covered(w \o q, s, k), s \subseteq t,
           \A c : IsAuth(Head(w), c) => c \in t \/ c \in k
    PROVE  Covered(Tail(w) \o q, t, k)
<1> DEFINE F == w \o q
           G == Tail(w) \o q
           n == Len(F)
<1>1. /\ n \in Nat \ {0} /\ DOMAIN F = 1..n /\ DOMAIN G = 1..(n - 1)
      /\ F[1] = Head(w) /\ \A i \in 1..(n - 1) : G[i] = F[i + 1]
  BY TakenOff
<1>2. Covered(F, s, k) /\ \A c : IsAuth(F[1], c) => c \in t \/ c \in k
  BY <1>1
<1> SUFFICES ASSUME NEW i \in DOMAIN G, G[i].type = "request", NEW c \in G[i].after \ k
             PROVE  c \in t \/ Ahead(c, i, G)
  BY DEF Covered
<1>a. G[i].type = "request" /\ c \in G[i].after \ k
  OBVIOUS
<1> HIDE DEF F, G, n
<1>3. i + 1 \in DOMAIN F /\ G[i] = F[i + 1]
  BY <1>1
<1>4. c \in s \/ Ahead(c, i + 1, F)
  BY <1>2, <1>3, <1>a DEF Covered
<1>5. CASE Ahead(c, i + 1, F)
  <2>1. PICK j \in 1..i : IsAuth(F[j], c)
    <3>1. i \in Nat
      BY <1>1
    <3> QED
      BY <3>1, <1>5, AheadOfNext
  <2>2. CASE j = 1
    BY <2>1, <2>2, <1>2, <1>a
  <2>3. CASE j > 1
    <3>1. PICK h \in Nat : h = j - 1
      BY <2>3, <1>1
    <3>2. h \in 1..(i - 1) /\ h \in 1..(n - 1) /\ h + 1 = j
      BY <3>1, <2>3, <1>1
    <3> QED
      BY <3>2, <2>1, <1>1 DEF Ahead
  <2> QED
    BY <2>1, <2>2, <2>3
<1> QED
  BY <1>4, <1>5

\* The credentials that are sent.
LEMMA CarriedInserted ==
    ASSUME NEW w \in Seq(Frames), NEW p \in Seq(Frames), NEW q \in Seq(Frames)
    PROVE  /\ Carried(w \o q) \subseteq Carried(w \o (p \o q))
           /\ \A c \in Credentials : (\E j \in DOMAIN p : IsAuth(p[j], c)) => c \in Carried(w \o (p \o q))
<1> DEFINE F == w \o q
           G == w \o (p \o q)
<1>1. /\ \A h \in DOMAIN F : \E i \in DOMAIN G : G[i] = F[h]
      /\ \A j \in DOMAIN p : \E i \in DOMAIN G : G[i] = p[j]
  <2>1. Between(w, p, q)
    BY Inserted
  <2> QED
    BY <2>1 DEF Between
<1> HIDE DEF F, G
<1>2. Carried(F) \subseteq Carried(G)
  BY <1>1 DEF Carried
<1>3. \A c \in Credentials : (\E j \in DOMAIN p : IsAuth(p[j], c)) => c \in Carried(G)
  BY <1>1 DEF Carried
<1> QED
  BY <1>2, <1>3 DEF F, G

\* What is carried stays carried when a frame is queued ...
LEMMA CarriedQueued ==
    ASSUME NEW w \in Seq(Frames), NEW q \in Seq(Frames), NEW r \in Frames
    PROVE  Carried(w \o q) \subseteq Carried(w \o Append(q, r))
<1>1. \A h \in DOMAIN (w \o q) : /\ h \in DOMAIN (w \o Append(q, r))
                                 /\ (w \o Append(q, r))[h] = (w \o q)[h]
  BY Queued
<1> QED
  BY <1>1 DEF Carried

\* ... and when the first frame is taken off, unless that is the packet.
LEMMA CarriedTaken ==
    ASSUME NEW w \in Seq(Frames), NEW q \in Seq(Frames), w # <<>>,
           NEW c \in Carried(w \o q)
    PROVE  IsAuth(Head(w), c) \/ c \in Carried(Tail(w) \o q)
<1> DEFINE F == w \o q
           G == Tail(w) \o q
           n == Len(F)
<1>1. /\ n \in Nat \ {0} /\ DOMAIN F = 1..n /\ DOMAIN G = 1..(n - 1)
      /\ F[1] = Head(w) /\ \A i \in 1..(n - 1) : G[i] = F[i + 1]
  BY TakenOff
<1>2. PICK j \in DOMAIN F : IsAuth(F[j], c)
  BY DEF Carried
<1>3. c \in Credentials
  BY DEF Carried
<1> HIDE DEF F, G, n
<1>4. CASE j > 1
  <2>1. PICK h \in 1..(n - 1) : j = 1 + h
    <3>1. j \in Nat /\ 1 \in Nat /\ n - 1 \in Nat /\ j <= 1 + (n - 1)
      BY <1>1
    <3> QED
      BY <3>1, <1>4, Beyond
  <2>2. G[h] = F[j] /\ h \in DOMAIN G
    BY <2>1, <1>1
  <2>3. c \in Carried(G)
    BY <2>2, <1>2, <1>3 DEF Carried
  <2> QED
    BY <2>3 DEF G
<1> QED
  BY <1>1, <1>2, <1>4

\* Packets stay in front of requests.
LEMMA PacketsInFront ==
    ASSUME NEW p \in Seq(Frames), NEW q \in Seq(Frames), PacketsFirst(q),
           \A j \in DOMAIN p : p[j].type = "auth"
    PROVE  PacketsFirst(p \o q)
<1> DEFINE G == p \o q
           m == Len(p)
           n == Len(q)
<1>1. /\ m \in Nat /\ n \in Nat /\ DOMAIN q = 1..n /\ DOMAIN p = 1..m /\ DOMAIN G = 1..(m + n)
      /\ \A j \in 1..m : G[j] = p[j]
      /\ \A j \in 1..n : G[m + j] = q[j]
  OBVIOUS
<1> SUFFICES ASSUME NEW i \in DOMAIN G, NEW j \in DOMAIN G, G[i].type = "request", G[j].type = "auth"
             PROVE  j < i
  BY DEF PacketsFirst
<1>a. G[i].type = "request" /\ G[j].type = "auth"
  OBVIOUS
<1> HIDE DEF G, m, n
<1>2. ~(i \in 1..m)
  BY <1>1, <1>a
<1>3. i \in Nat /\ j \in Nat /\ i <= m + n /\ j <= m + n /\ 1 <= i /\ 1 <= j
  BY <1>1
<1>4. i > m
  BY <1>1, <1>2, <1>3
<1>5. CASE j <= m
  BY <1>1, <1>3, <1>4, <1>5
<1>6. CASE j > m
  <2>1. PICK g \in 1..n : i = m + g
    BY <1>1, <1>3, <1>4, Beyond
  <2>2. PICK h \in 1..n : j = m + h
    BY <1>1, <1>3, <1>6, Beyond
  <2>3. q[g].type = "request" /\ q[h].type = "auth" /\ g \in DOMAIN q /\ h \in DOMAIN q
    BY <2>1, <2>2, <1>1, <1>a
  <2>4. h < g
    BY <2>3 DEF PacketsFirst
  <2> QED
    BY <2>1, <2>2, <2>4, <1>1
<1> QED
  BY <1>1, <1>3, <1>5, <1>6

\* Packets stay ahead of a request that is queued behind them ...
LEMMA RequestBehind ==
    ASSUME NEW q \in Seq(Frames), PacketsFirst(q), NEW r \in Frames, r.type = "request"
    PROVE  PacketsFirst(Append(q, r))
<1> DEFINE G == Append(q, r)
           n == Len(q)
<1>1. /\ n \in Nat /\ DOMAIN q = 1..n /\ DOMAIN G = 1..(n + 1) /\ G[n + 1] = r
      /\ \A j \in 1..n : G[j] = q[j]
  OBVIOUS
<1> SUFFICES ASSUME NEW i \in DOMAIN G, NEW j \in DOMAIN G, G[i].type = "request", G[j].type = "auth"
             PROVE  j < i
  BY DEF PacketsFirst
<1>a. G[i].type = "request" /\ G[j].type = "auth"
  OBVIOUS
<1> HIDE DEF G, n
<1>2. j \in 1..n
  BY <1>1, <1>a
<1>3. CASE i \in 1..n
  BY <1>1, <1>2, <1>3, <1>a DEF PacketsFirst
<1>4. CASE i = n + 1
  BY <1>1, <1>2, <1>4
<1> QED
  BY <1>1, <1>3, <1>4

\* ... and when the first frame is written.
LEMMA PacketsFlushed ==
    ASSUME NEW q \in Seq(Frames), PacketsFirst(q), q # <<>>
    PROVE  PacketsFirst(Tail(q))
<1> DEFINE G == Tail(q)
           n == Len(q)
<1>1. /\ n \in Nat \ {0} /\ DOMAIN q = 1..n /\ DOMAIN G = 1..(n - 1)
      /\ \A j \in 1..(n - 1) : G[j] = q[j + 1] /\ j + 1 \in 1..n
  <2>1. /\ G \in Seq(Frames) /\ n \in Nat \ {0} /\ Len(G) = n - 1
        /\ \A j \in 1..(n - 1) : G[j] = q[j + 1]
    BY HeadTailProperties, LenProperties, EmptySeq
  <2>2. DOMAIN q = 1..n /\ DOMAIN G = 1..(n - 1)
    BY <2>1
  <2> HIDE DEF G, n
  <2>3. \A j \in 1..(n - 1) : j + 1 \in 1..n
    BY <2>1
  <2> QED
    BY <2>1, <2>2, <2>3
<1> SUFFICES ASSUME NEW i \in DOMAIN G, NEW j \in DOMAIN G, G[i].type = "request", G[j].type = "auth"
             PROVE  j < i
  BY DEF PacketsFirst
<1>a. G[i].type = "request" /\ G[j].type = "auth"
  OBVIOUS
<1> HIDE DEF G, n
<1>2. j + 1 < i + 1
  BY <1>1, <1>a DEF PacketsFirst
<1> QED
  BY <1>1, <1>2

\* What requests count on.
LEMMA CountsInserted ==
    ASSUME NEW w \in Seq(Frames), NEW p \in Seq(Frames), NEW q \in Seq(Frames), NEW R, NEW T,
           CountsOn(w \o q, R), R \subseteq T, \A j \in DOMAIN p : p[j].type = "auth"
    PROVE  CountsOn(w \o (p \o q), T)
<1> DEFINE F == w \o q
           G == w \o (p \o q)
<1>1. \A i \in DOMAIN G : \/ \E g \in DOMAIN p : G[i] = p[g]
                          \/ \E h \in DOMAIN F : G[i] = F[h]
  <2>1. Between(w, p, q)
    BY Inserted
  <2> QED
    BY <2>1 DEF Between
<1>2. CountsOn(F, R)
  OBVIOUS
<1> HIDE DEF F, G
<1>3. CountsOn(G, T)
  BY <1>1, <1>2 DEF CountsOn
<1> QED
  BY <1>3 DEF G

\* A request that is queued counts the credentials handed over before it.
LEMMA CountsQueued ==
    ASSUME NEW w \in Seq(Frames), NEW q \in Seq(Frames), NEW r \in Frames, NEW R,
           CountsOn(w \o q, R), r.type = "request" => r.after \subseteq R
    PROVE  CountsOn(w \o Append(q, r), R)
<1> DEFINE F == w \o q
           G == w \o Append(q, r)
           n == Len(F)
<1>1. /\ n \in Nat /\ DOMAIN F = 1..n /\ DOMAIN G = 1..(n + 1)
      /\ G[n + 1] = r /\ \A i \in 1..n : G[i] = F[i]
  BY Queued
<1>2. CountsOn(F, R)
  OBVIOUS
<1> HIDE DEF F, G, n
<1>3. \A i \in 1..(n + 1) : i \in 1..n \/ i = n + 1
  BY <1>1
<1>4. CountsOn(G, R)
  BY <1>1, <1>2, <1>3 DEF CountsOn
<1> QED
  BY <1>4 DEF G

\* The counts stay when the first frame is taken off.
LEMMA CountsTaken ==
    ASSUME NEW w \in Seq(Frames), NEW q \in Seq(Frames), w # <<>>, NEW R, CountsOn(w \o q, R)
    PROVE  CountsOn(Tail(w) \o q, R)
<1> DEFINE F == w \o q
           G == Tail(w) \o q
           n == Len(F)
<1>1. /\ n \in Nat \ {0} /\ DOMAIN F = 1..n /\ DOMAIN G = 1..(n - 1)
      /\ \A i \in 1..(n - 1) : G[i] = F[i + 1]
  BY TakenOff
<1>2. CountsOn(F, R)
  OBVIOUS
<1> HIDE DEF F, G, n
<1>3. \A i \in 1..(n - 1) : i + 1 \in 1..n
  BY <1>1
<1>4. CountsOn(G, R)
  BY <1>1, <1>2, <1>3 DEF CountsOn
<1> QED
  BY <1>4 DEF G

\* The queue alone, or nothing at all.
LEMMA CountsRest ==
    ASSUME NEW w \in Seq(Frames), NEW q \in Seq(Frames), NEW R, CountsOn(w \o q, R)
    PROVE  CountsOn(<<>> \o q, R) /\ <<>> \o q = q /\ CountsOn(w \o <<>>, R) /\ w \o <<>> = w
<1>1. <<>> \o q = q /\ w \o <<>> = w
  BY ConcatEmptySeq
<1>2. CountsOn(q, R)
  <2> SUFFICES ASSUME NEW i \in DOMAIN q, q[i].type = "request" PROVE q[i].after \subseteq R
    BY DEF CountsOn
  <2> DEFINE F == w \o q
             g == Len(w) + i
  <2>1. g \in DOMAIN F /\ F[g] = q[i]
    OBVIOUS
  <2>2. CountsOn(F, R)
    OBVIOUS
  <2> HIDE DEF F, g
  <2> QED
    BY <2>1, <2>2 DEF CountsOn
<1>3. CountsOn(w, R)
  <2> SUFFICES ASSUME NEW i \in DOMAIN w, w[i].type = "request" PROVE w[i].after \subseteq R
    BY DEF CountsOn
  <2> DEFINE F == w \o q
  <2>1. i \in DOMAIN F /\ F[i] = w[i]
    OBVIOUS
  <2>2. CountsOn(F, R)
    OBVIOUS
  <2> HIDE DEF F
  <2> QED
    BY <2>1, <2>2 DEF CountsOn
<1> QED
  BY <1>1, <1>2, <1>3

-----------------------------------------------------------------------------
(* The types.                                                              *)

\* What a new request counts on is what is ready.
LEMMA NewRequest ==
    ASSUME TypeOK
    PROVE  /\ RequestFrame \in Frames /\ RequestFrame.type = "request" /\ RequestFrame.after = Ready
           /\ Ready \subseteq ToSet(auth_h) /\ Ready \subseteq Credentials
<1>1. ToSet(auth_h) \subseteq Credentials
  BY DEF TypeOK, ToSet
<1>2. RequestFrame.type = "request" /\ RequestFrame.after = Ready
  BY DEF RequestFrame, Ready
<1>3. Ready \subseteq ToSet(auth_h)
  BY DEF Ready
<1>4. RequestFrame = [type |-> "request", after |-> Ready]
  BY DEF RequestFrame, Ready
<1>5. RequestFrame \in Frames
  BY <1>1, <1>3, <1>4 DEF Frames
<1> QED
  BY <1>1, <1>2, <1>3, <1>5

\* The last credential of a list, and those in front of it.
LEMMA LastAndFront ==
    ASSUME NEW S, NEW s \in Seq(S), s # <<>>
    PROVE  /\ Last(s) \in S /\ Front(s) \in Seq(S) /\ <<Last(s)>> \in Seq(S)
           /\ Last(s) \in ToSet(s)
           /\ \A c \in ToSet(s) : c = Last(s) \/ \E i \in DOMAIN Front(s) : Front(s)[i] = c
<1> DEFINE n == Len(s)
           f == Front(s)
<1>1. n \in Nat \ {0} /\ DOMAIN s = 1..n /\ \A i \in 1..n : s[i] \in S
  <2>1. n \in Nat \ {0}
    BY EmptySeq
  <2> QED
    BY <2>1
<1>2. Last(s) = s[n]
  BY DEF Last
<1>3. f = [i \in 1..(n - 1) |-> s[i]]
  BY DEF Front
<1> HIDE DEF n, f
<1>4. n \in 1..n /\ \A i \in 1..(n - 1) : i \in 1..n
  BY <1>1
<1>5. f \in Seq(S) /\ DOMAIN f = 1..(n - 1) /\ \A i \in 1..(n - 1) : f[i] = s[i]
  <2>1. f \in [1..(n - 1) -> S] /\ n - 1 \in Nat
    BY <1>1, <1>3, <1>4
  <2> QED
    BY <2>1, <1>3
<1>6. \A i \in 1..n : i = n \/ i \in 1..(n - 1)
  BY <1>1
<1>7. ASSUME NEW c \in ToSet(s) PROVE c = Last(s) \/ \E i \in DOMAIN f : f[i] = c
  <2>1. PICK i \in 1..n : s[i] = c
    BY <1>1 DEF ToSet
  <2> QED
    BY <2>1, <1>2, <1>5, <1>6
<1>8. Last(s) \in S /\ Last(s) \in ToSet(s)
  BY <1>1, <1>2, <1>4 DEF ToSet
<1>9. <<Last(s)>> \in Seq(S)
  BY <1>8
<1> QED
  BY <1>5, <1>7, <1>8, <1>9 DEF f

\* What a caller sends.
LEMMA PacketsTyped ==
    ASSUME NEW creds \in Seq(Credentials), NEW q \in Seq(Frames)
    PROVE  send_info_packets(q, creds) \in Seq(Frames)
<1>1. PICK p \in Seq(Frames) : send_info_packets(q, creds) = p \o q
  BY PacketsSent
<1> QED
  BY <1>1, Concat

rest == <<state, link, told, replies, server, ioPc, reason, called>>

\* The steps of the callers.
LEMMA TypeCallers ==
    ASSUME TypeInv, AuthInv', HandInv, NEW t \in Callers,
           (\E c \in Credentials : AddAuth(t, c)) \/ zoo_add_auth(t) \/ Request(t)
    PROVE  TypeOK' /\ ReasonInv'
<1>1. UNCHANGED rest
  BY DEF AddAuth, zoo_add_auth, add_last_auth, TestState, TestStateVars, send_last_auth_info,
         Request, wireVars, ioVars, histVars, leftVars, rest
<1>2. ReasonInv'
  BY <1>1 DEF TypeInv, ReasonInv, rest
<1>3. /\ auth_h' \in Seq(Credentials) /\ pending' \subseteq ToSet(auth_h')
      /\ callbacks' \subseteq ToSet(auth_h')
  BY DEF AuthInv, ListInv
<1>4. DOMAIN pc = Callers /\ DOMAIN adding = Callers
  BY DEF TypeInv, AuthInv, CallersInv
<1>5. /\ \A u \in Callers : pc'[u] \in {"idle", "append", "test", "send"}
      /\ \A u \in Callers : pc'[u] # "idle" => adding'[u] \in Credentials
  <2>1. CASE \E c \in Credentials : AddAuth(t, c)
    BY <2>1, <1>4 DEF AddAuth, TypeInv, TypeOK
  <2>2. CASE zoo_add_auth(t)
    <3>1. adding' = adding /\ pc[t] # "idle"
          /\ \E h \in {"idle", "append", "test", "send"} : pc' = [pc EXCEPT ![t] = h]
      BY <2>2 DEF zoo_add_auth, add_last_auth, TestState, TestStateVars, send_last_auth_info
    <3> QED
      BY <3>1, <1>4 DEF TypeInv, TypeOK
  <2>3. CASE Request(t)
    BY <2>3, <1>4 DEF Request, callerVars, TypeInv, TypeOK
  <2> QED
    BY <2>1, <2>2, <2>3
<1>6. /\ to_send' \in Seq(Frames) /\ wire' \in Seq(Frames)
      /\ skipped' \subseteq Credentials /\ overtaken' \subseteq skipped'
  <2>1. CASE Request(t)
    <3>1. to_send' = Append(to_send, RequestFrame) /\ UNCHANGED <<wire, skipped, overtaken>>
      BY <2>1 DEF Request, wireVars, histVars, leftVars
    <3>2. RequestFrame \in Frames /\ to_send \in Seq(Frames)
      BY NewRequest DEF TypeInv, TypeOK
    <3> QED
      BY <3>1, <3>2, AppendProperties DEF TypeInv, TypeOK
  <2>2. CASE send_last_auth_info(t)
    <3>1. to_send' = send_info_packets(to_send, <<Last(auth_h)>>) /\ wire' = wire
      BY <2>2 DEF send_last_auth_info, wireVars
    <3>2. auth_h # <<>> /\ auth_h \in Seq(Credentials)
      <4>1. adding[t] \in ToSet(auth_h)
        BY <2>2 DEF send_last_auth_info, HandInv
      <4> QED
        BY <4>1 DEF TypeInv, TypeOK, ToSet
    <3>3. to_send' \in Seq(Frames)
      BY <3>1, <3>2, LastAndFront, PacketsTyped DEF TypeInv, TypeOK
    <3>4. adding[t] \in Credentials
      BY <2>2 DEF send_last_auth_info, TypeInv, TypeOK
    <3>5. \/ skipped' = skipped \ {adding[t]} /\ overtaken' = overtaken \ {adding[t]}
          \/ /\ skipped' = skipped \cup ({adding[t]} \ Sent)
             /\ overtaken' = overtaken \cup ({adding[t]} \ Sent)
      BY <2>2 DEF send_last_auth_info
    <3> QED
      BY <3>1, <3>3, <3>4, <3>5 DEF TypeInv, TypeOK
  <2>3. CASE (\E c \in Credentials : AddAuth(t, c)) \/ add_last_auth(t) \/ TestState(t)
    <3>1. UNCHANGED <<to_send, wire, skipped, overtaken>>
      BY <2>3 DEF AddAuth, add_last_auth, TestState, TestStateVars, wireVars, histVars, leftVars
    <3> QED
      BY <3>1 DEF TypeInv, TypeOK
  <2> QED
    BY <2>1, <2>2, <2>3 DEF zoo_add_auth
<1>7. TypeOK'
  BY <1>1, <1>3, <1>5, <1>6 DEF TypeInv, TypeOK, rest
<1> QED
  BY <1>2, <1>7

\* The first call of a completion has one code.
LEMMA CalledWith ==
    ASSUME NEW e PROVE ToSet(Append(<<>>, e)) = {e}
<1>1. <<>> \in Seq({e}) /\ ToSet(<<>>) = {} /\ e \in {e}
  BY DEF ToSet
<1>2. ToSet(Append(<<>>, e)) = ToSet(<<>>) \cup {e}
  BY <1>1, AppendedSet
<1> QED
  BY <1>1, <1>2

\* The steps of the IO thread that only move it on.
LEMMA TypeMoves ==
    ASSUME TypeInv, AuthInv',
           prime_connection \/ Connected \/ CompletionsCalled \/ HandleErrorClose \/ HandleErrorReset
             \/ ConnectionLost
    PROVE  TypeOK' /\ ReasonInv'
<1>1. UNCHANGED <<pc, adding, called, reason, auth_h>>
  BY DEF prime_connection, Connected, CompletionsCalled, HandleErrorClose, HandleErrorReset,
         ConnectionLost, listVars, callerVars, ioVars, histVars, leftVars
<1>2. /\ state' \in {state, "ASSOCIATING", "CONNECTED", "CONNECTING"} /\ link' \in {link, TRUE, FALSE}
      /\ ioPc' \in {"sendAuth", "loop", "error", "cleanup", "done"} \/ (ioPc' = ioPc /\ ioPc = "loop")
      /\ told' \in BOOLEAN
  <2>1. told' \in BOOLEAN
    BY Zenon DEF prime_connection, Connected, CompletionsCalled, HandleErrorClose, HandleErrorReset,
                 ConnectionLost, histVars, leftVars, TypeInv, TypeOK
  <2> QED
    BY <2>1 DEF prime_connection, Connected, CompletionsCalled, HandleErrorClose, HandleErrorReset,
                ConnectionLost, AfterReply, ResetState, ioVars
<1>3. /\ wire' \in {wire, <<>>} /\ to_send' = to_send /\ replies' \in {replies, <<>>}
      /\ server' \in {server, {}}
      /\ (UNCHANGED <<skipped, overtaken>>) \/ (skipped' = {} /\ overtaken' = {})
  BY DEF prime_connection, Connected, CompletionsCalled, HandleErrorClose, HandleErrorReset,
         ConnectionLost, wireVars, histVars, leftVars
<1>4. pending' \subseteq ToSet(auth_h') /\ callbacks' \subseteq ToSet(auth_h')
  BY DEF AuthInv, ListInv
<1>5. wire' \in Seq(Frames) /\ to_send' \in Seq(Frames) /\ replies' \in Seq(Codes)
  <2>1. /\ wire \in Seq(Frames) /\ to_send \in Seq(Frames) /\ replies \in Seq(Codes)
        /\ <<>> \in Seq(Frames) /\ <<>> \in Seq(Codes)
    BY DEF TypeInv, TypeOK
  <2> QED
    BY <1>3, <2>1
<1>6. state' \in {"CONNECTING", "ASSOCIATING", "CONNECTED", "AUTH_FAILED"}
  BY <1>2 DEF TypeInv, TypeOK
<1>7. link' \in BOOLEAN
  BY <1>2, Zenon DEF TypeInv, TypeOK
<1>8. TypeOK'
  BY <1>1, <1>2, <1>3, <1>4, <1>5, <1>6, <1>7 DEF TypeInv, TypeOK
<1>9. ReasonInv'
  BY <1>2 DEF ReasonInv
<1> QED
  BY <1>8, <1>9

\* Those that send and receive.
LEMMA TypeTraffic ==
    ASSUME TypeInv, AuthInv', send_auth_info \/ flush_send_queue \/ ServerStep
    PROVE  TypeOK' /\ ReasonInv'
<1>1. UNCHANGED <<pc, adding, called, reason, auth_h, state, link, told>>
  BY DEF send_auth_info, flush_send_queue, ServerStep, listVars, callerVars, ioVars, histVars, leftVars
<1>2. pending' \subseteq ToSet(auth_h') /\ callbacks' \subseteq ToSet(auth_h')
  BY DEF AuthInv, ListInv
<1>3. ioPc' \in {ioPc, "loop"}
  BY DEF send_auth_info, flush_send_queue, ServerStep, ioVars
<1>4. /\ wire' \in Seq(Frames) /\ to_send' \in Seq(Frames) /\ replies' \in Seq(Codes)
      /\ server' \subseteq Credentials
      /\ skipped' \subseteq Credentials /\ overtaken' \subseteq skipped'
  <2>0. /\ wire \in Seq(Frames) /\ to_send \in Seq(Frames) /\ replies \in Seq(Codes)
        /\ server \subseteq Credentials /\ auth_h \in Seq(Credentials)
        /\ skipped \subseteq Credentials /\ overtaken \subseteq skipped
    BY DEF TypeInv, TypeOK
  <2>1. CASE send_auth_info
    <3>1. UNCHANGED <<wire, replies, server>>
      BY <2>1 DEF send_auth_info, wireVars
    <3>2. CASE auth_h = <<>>
      BY <2>0, <2>1, <3>1, <3>2 DEF send_auth_info, leftVars
    <3>3. CASE auth_h # <<>>
      <4>1. /\ to_send' = send_info_packets(to_send, Front(auth_h))
            /\ skipped' = {Last(auth_h)} \ Sent /\ overtaken' = {}
        BY <2>1, <3>3 DEF send_auth_info
      <4>2. Front(auth_h) \in Seq(Credentials) /\ Last(auth_h) \in Credentials
        BY <2>0, <3>3, LastAndFront
      <4>3. to_send' \in Seq(Frames)
        BY <2>0, <4>1, <4>2, PacketsTyped
      <4> QED
        BY <2>0, <3>1, <4>1, <4>2, <4>3
    <3> QED
      BY <3>2, <3>3
  <2>2. CASE flush_send_queue
    <3>1. /\ to_send # <<>> /\ wire' = Append(wire, Head(to_send)) /\ to_send' = Tail(to_send)
          /\ UNCHANGED <<replies, server, skipped, overtaken>>
      BY <2>2 DEF flush_send_queue, histVars, leftVars
    <3>2. wire' \in Seq(Frames) /\ to_send' \in Seq(Frames)
      BY <2>0, <3>1, Moved
    <3> QED
      BY <2>0, <3>1, <3>2
  <2>3. CASE ServerStep
    <3>1. /\ wire # <<>> /\ wire' = Tail(wire) /\ UNCHANGED <<to_send, skipped, overtaken>>
          /\ \/ UNCHANGED <<replies, server>>
             \/ \E e \in {"ZAUTHFAILED", "ZOK"} :
                   /\ replies' = Append(replies, e)
                   /\ server' = server \/ (Head(wire).type # "request" /\ server' = server \cup {Head(wire).cred})
      BY <2>3 DEF ServerStep, histVars, leftVars
    <3>2. Head(wire) \in Frames /\ wire' \in Seq(Frames)
      BY <2>0, <3>1, TakenOff
    <3>3. Head(wire).type # "request" => Head(wire).cred \in Credentials
      BY <3>2, FrameKinds
    <3>4. server' \subseteq Credentials
      BY <2>0, <3>1, <3>3
    <3>5. replies' \in Seq(Codes)
      <4>1. \A e \in {"ZAUTHFAILED", "ZOK"} : e \in Codes
        BY DEF Codes
      <4>2. \A e \in Codes : Append(replies, e) \in Seq(Codes)
        BY <2>0, AppendProperties
      <4> QED
        BY <2>0, <3>1, <4>1, <4>2
    <3> QED
      BY <2>0, <3>1, <3>2, <3>4, <3>5
  <2> QED
    BY <2>1, <2>2, <2>3
<1>5. TypeOK'
  BY <1>1, <1>2, <1>3, <1>4 DEF TypeInv, TypeOK
<1>6. ReasonInv'
  BY <1>1, <1>3 DEF TypeInv, ReasonInv
<1> QED
  BY <1>5, <1>6

\* Those that take completions and call them.
LEMMA TypeCalls ==
    ASSUME TypeInv, AuthInv', auth_completion_func \/ CallCompletion \/ CleanupBufs
    PROVE  TypeOK' /\ ReasonInv'
<1>1. UNCHANGED <<pc, adding, auth_h, link, told, server, skipped, overtaken>>
  BY DEF auth_completion_func, CallCompletion, CleanupBufs, listVars, callerVars, wireVars, histVars, leftVars
<1>2. pending' \subseteq ToSet(auth_h') /\ callbacks' \subseteq ToSet(auth_h')
  BY DEF AuthInv, ListInv
<1>3. /\ state' \in {state, "AUTH_FAILED"}
      /\ ioPc' \in {"callbacks", "failing", "waitsForItself"}
  BY DEF auth_completion_func, CallCompletion, CleanupBufs
<1>4. wire' \in Seq(Frames) /\ to_send' \in Seq(Frames) /\ replies' \in Seq(Codes)
  <2>1. wire' = wire /\ to_send' \in {to_send, <<>>}
    BY DEF auth_completion_func, CallCompletion, CleanupBufs, wireVars
  <2>2. replies' = replies \/ (replies # <<>> /\ replies' = Tail(replies))
    BY DEF auth_completion_func, CallCompletion, CleanupBufs, wireVars
  <2>3. /\ wire \in Seq(Frames) /\ to_send \in Seq(Frames) /\ replies \in Seq(Codes)
        /\ <<>> \in Seq(Frames)
    BY DEF TypeInv, TypeOK
  <2>4. replies' \in Seq(Codes)
    BY <2>2, <2>3, HeadTailProperties
  <2> QED
    BY <2>1, <2>3, <2>4
<1>5. reason' \in Codes
  <2>1. CASE auth_completion_func
    <3>1. replies # <<>> /\ reason' = Head(replies)
      BY <2>1 DEF auth_completion_func, get_auth_completions
    <3> QED
      BY <3>1, HeadTailProperties DEF TypeInv, TypeOK
  <2>2. CASE CallCompletion
    BY <2>2 DEF CallCompletion, TypeInv, ReasonInv
  <2>3. CASE CleanupBufs
    BY <2>3 DEF CleanupBufs, get_auth_completions, Codes
  <2> QED
    BY <2>1, <2>2, <2>3
<1>6. \A c \in Credentials : ToSet(called'[c]) \subseteq Codes
  <2>1. CASE called' = called
    BY <2>1 DEF TypeInv, TypeOK
  <2>2. CASE CallCompletion
    <3>1. PICK i \in DOMAIN auth_h :
              /\ auth_h[i] \in callbacks
              /\ called' = [called EXCEPT ![auth_h[i]] = Append(@, reason)]
      BY <2>2 DEF CallCompletion
    <3>2. /\ auth_h[i] \in Credentials /\ called[auth_h[i]] = <<>> /\ DOMAIN called = Credentials
          /\ reason \in Codes
      BY <2>2, <3>1 DEF TypeInv, TypeOK, AuthInv, CalledInv, CompletionsCalledOnce, ReasonInv,
                        CallCompletion
    <3>3. called'[auth_h[i]] = Append(<<>>, reason) /\ \A c \in Credentials \ {auth_h[i]} : called'[c] = called[c]
      BY <3>1, <3>2
    <3>4. ToSet(called'[auth_h[i]]) \subseteq Codes
      BY <3>2, <3>3, CalledWith
    <3> QED
      BY <3>3, <3>4 DEF TypeInv, TypeOK
  <2> QED
    BY <2>1, <2>2 DEF auth_completion_func, CleanupBufs, histVars, leftVars
<1>7. state' \in {"CONNECTING", "ASSOCIATING", "CONNECTED", "AUTH_FAILED"}
  BY <1>3 DEF TypeInv, TypeOK
<1>8. TypeOK'
  BY <1>1, <1>2, <1>3, <1>4, <1>5, <1>6, <1>7 DEF TypeInv, TypeOK
<1> QED
  BY <1>5, <1>8 DEF ReasonInv

\* The list has what threads are about to send.
LEMMA HandNext == ASSUME TypeInv, HandInv, [Next]_vars PROVE HandInv'
<1>0. DOMAIN pc = Callers /\ DOMAIN adding = Callers
  BY DEF TypeInv, AuthInv, CallersInv
<1>1. ASSUME NEW t \in Callers, add_last_auth(t) PROVE HandInv'
  <2>1. /\ auth_h' = Append(auth_h, adding[t]) /\ adding' = adding
        /\ pc' = [pc EXCEPT ![t] = "test"] /\ adding[t] \in Credentials
    BY <1>1 DEF add_last_auth, TypeInv, TypeOK
  <2>2. ToSet(auth_h') = ToSet(auth_h) \cup {adding[t]}
    BY <2>1, AppendedSet DEF TypeInv, TypeOK
  <2> QED
    BY <1>0, <2>1, <2>2 DEF HandInv
<1>2. ASSUME NEW t \in Callers, (\E c \in Credentials : AddAuth(t, c)) \/ TestState(t)
                                  \/ send_last_auth_info(t) \/ Request(t)
      PROVE  HandInv'
  <2>1. auth_h' = auth_h
    BY <1>2 DEF AddAuth, TestState, TestStateVars, send_last_auth_info, Request, listVars
  <2>2. \A u \in Callers : pc'[u] \in {"test", "send"} => pc[u] \in {"test", "send"} /\ adding'[u] = adding[u]
    BY <1>0, <1>2 DEF AddAuth, TestState, TestStateVars, send_last_auth_info, Request, callerVars
  <2> QED
    BY <2>1, <2>2 DEF HandInv
<1>3. CASE IOStep \/ ConnectionLost \/ ServerStep \/ UNCHANGED vars
  <2>1. UNCHANGED <<auth_h, pc, adding>>
    BY <1>3 DEF IOStep, handle_error, prime_connection, Connected, send_auth_info,
                flush_send_queue, auth_completion_func, CallCompletion, CompletionsCalled,
                HandleErrorClose, CleanupBufs, HandleErrorReset, ConnectionLost, ServerStep, vars,
                listVars, callerVars
  <2> QED
    BY <2>1 DEF HandInv
<1> QED
  BY <1>1, <1>2, <1>3 DEF Next, zoo_add_auth

\* Every step keeps the types and what the threads hold.
LEMMA TypeNext == ASSUME TypeInv, HandInv, [Next]_vars PROVE TypeInv' /\ HandInv'
<1>1. AuthInv'
  BY InvNext DEF TypeInv
<1>2. HandInv'
  BY HandNext
<1>3. ASSUME UNCHANGED vars PROVE TypeOK' /\ ReasonInv'
  <2>1. /\ UNCHANGED <<state, auth_h, pending, to_send, wire, replies, server>>
        /\ UNCHANGED <<pc, adding, ioPc, callbacks, reason, called, skipped>>
        /\ UNCHANGED <<link, told, overtaken>>
    BY <1>3 DEF vars, listVars, wireVars, callerVars, ioVars, histVars, leftVars
  <2>2. TypeOK'
    BY <2>1 DEF TypeInv, TypeOK
  <2>3. ReasonInv'
    BY <2>1 DEF TypeInv, ReasonInv
  <2> QED
    BY <2>2, <2>3
<1>4. ASSUME NEW t \in Callers, (\E c \in Credentials : AddAuth(t, c)) \/ zoo_add_auth(t) \/ Request(t)
      PROVE  TypeOK' /\ ReasonInv'
  BY <1>1, <1>4, TypeCallers
<1>5. ASSUME IOStep \/ ConnectionLost \/ ServerStep PROVE TypeOK' /\ ReasonInv'
  BY <1>1, <1>5, TypeMoves, TypeTraffic, TypeCalls DEF IOStep, handle_error
<1> QED
  BY <1>1, <1>2, <1>3, <1>4, <1>5 DEF Next, TypeInv

\* The types hold in the initial state.
LEMMA TypeInit == Init => TypeInv /\ HandInv
<1> SUFFICES ASSUME Init PROVE TypeInv /\ HandInv
  OBVIOUS
<1>1. ToSet(<<>>) = {}
  BY DEF ToSet
<1>2. TypeOK
  <2>1. <<>> \in Seq(Frames) /\ <<>> \in Seq(Credentials) /\ <<>> \in Seq(Codes)
    OBVIOUS
  <2>2. \A c \in Credentials : ToSet(called[c]) \subseteq Codes
    BY <1>1 DEF Init
  <2> QED
    BY <1>1, <2>1, <2>2 DEF Init, TypeOK
<1> QED
  BY <1>2, InvInit DEF Init, TypeInv, ReasonInv, HandInv

\* Every variable keeps its type, a completion is called with one of three codes.
THEOREM TypeCorrect == Spec => []TypeOK
<1>1. TypeInv => TypeOK
  BY DEF TypeInv
<1> QED
  BY TypeInit, TypeNext, <1>1, PTL DEF Spec

-----------------------------------------------------------------------------
(* The steps of RequestsCarryCredentials.                                  *)

\* What is ready stays so: nobody adds a credential again.
LEMMA ReadyStays == ASSUME TypeInv, [Next]_vars PROVE Ready \subseteq Ready'
<1>0. DOMAIN pc = Callers /\ DOMAIN adding = Callers
  BY DEF TypeInv, AuthInv, CallersInv
<1>1. ASSUME NEW t \in Callers, NEW c \in Credentials, AddAuth(t, c) PROVE Ready \subseteq Ready'
  <2>1. /\ c \notin ToSet(auth_h) /\ auth_h' = auth_h
        /\ pc' = [pc EXCEPT ![t] = "append"] /\ adding' = [adding EXCEPT ![t] = c]
    BY <1>1 DEF AddAuth, Started, listVars
  <2> QED
    BY <1>0, <2>1 DEF Ready
<1>2. ASSUME NEW t \in Callers, zoo_add_auth(t) PROVE Ready \subseteq Ready'
  <2>1. adding' = adding /\ \A u \in Callers : pc[u] = "idle" => pc'[u] = "idle"
    BY <1>0, <1>2 DEF zoo_add_auth, add_last_auth, TestState, TestStateVars, send_last_auth_info
  <2>2. ToSet(auth_h) \subseteq ToSet(auth_h')
    <3>1. CASE add_last_auth(t)
      <4>1. auth_h' = Append(auth_h, adding[t]) /\ adding[t] \in Credentials
        BY <3>1 DEF add_last_auth, TypeInv, TypeOK
      <4> QED
        BY <4>1, AppendedSet DEF TypeInv, TypeOK
    <3>2. CASE TestState(t) \/ send_last_auth_info(t)
      BY <3>2 DEF TestState, TestStateVars, send_last_auth_info, listVars
    <3> QED
      BY <1>2, <3>1, <3>2 DEF zoo_add_auth
  <2> QED
    BY <2>1, <2>2 DEF Ready
<1>3. CASE (\E t \in Callers : Request(t)) \/ IOStep \/ ConnectionLost \/ ServerStep \/ UNCHANGED vars
  <2>1. UNCHANGED <<auth_h, pc, adding>>
    BY <1>3 DEF Request, IOStep, handle_error, prime_connection, Connected, send_auth_info,
                flush_send_queue, auth_completion_func, CallCompletion, CompletionsCalled,
                HandleErrorClose, CleanupBufs, HandleErrorReset, ConnectionLost, ServerStep, vars,
                listVars, callerVars
  <2> QED
    BY <2>1 DEF Ready
<1> QED
  BY <1>1, <1>2, <1>3 DEF Next

\* The connection.
LEMMA LinkNext == ASSUME TypeInv, LinkInv, [Next]_vars PROVE LinkInv'
<1>1. ASSUME UNCHANGED <<state, link, ioPc, wire, server>> PROVE LinkInv'
  BY <1>1 DEF LinkInv
<1>2. ASSUME NEW t \in Callers, (\E c \in Credentials : AddAuth(t, c)) \/ zoo_add_auth(t) \/ Request(t)
      PROVE  LinkInv'
  <2>1. UNCHANGED <<state, link, ioPc, wire, server>>
    BY <1>2 DEF AddAuth, zoo_add_auth, add_last_auth, TestState, TestStateVars, send_last_auth_info,
                Request, wireVars, ioVars
  <2> QED
    BY <1>1, <2>1
<1>3. CASE prime_connection \/ Connected \/ HandleErrorClose \/ HandleErrorReset
  BY <1>3 DEF prime_connection, Connected, HandleErrorClose, HandleErrorReset, ioVars, wireVars,
              LinkInv
<1>4. CASE send_auth_info \/ flush_send_queue \/ ServerStep
  BY <1>4 DEF send_auth_info, flush_send_queue, ServerStep, ioVars, wireVars, LinkInv
<1>5. CASE auth_completion_func \/ CallCompletion
  BY <1>5 DEF auth_completion_func, CallCompletion, inCritical, wireVars, LinkInv
<1>6. CASE CompletionsCalled \/ ConnectionLost \/ CleanupBufs
  BY <1>6 DEF CompletionsCalled, ConnectionLost, CleanupBufs, AfterReply, wireVars, LinkInv
<1>7. CASE UNCHANGED vars
  BY <1>1, <1>7 DEF vars, wireVars, ioVars
<1> QED
  BY <1>2, <1>3, <1>4, <1>5, <1>6, <1>7 DEF Next, IOStep, handle_error

\* Steps that leave the frames alone, or drop them.
LEMMA QueueKept ==
    ASSUME TypeInv, QueueInv, [Next]_vars, wire' \in {wire, <<>>}, to_send' \in {to_send, <<>>}
    PROVE  QueueInv'
<1>1. wire \in Seq(Frames) /\ to_send \in Seq(Frames)
  BY DEF TypeInv, TypeOK
<1>2. CountsOn(wire \o to_send, Ready) /\ PacketsFirst(to_send)
  BY DEF QueueInv
<1>3. PacketsFirst(to_send')
  BY <1>2 DEF PacketsFirst
<1>4. CountsOn(<<>> \o to_send, Ready) /\ CountsOn(wire \o <<>>, Ready)
  BY <1>1, <1>2, CountsRest
<1>5. CountsOn(<<>> \o <<>>, Ready)
  BY DEF CountsOn
<1>6. CountsOn(wire' \o to_send', Ready)
  BY <1>2, <1>4, <1>5
<1>7. Ready \subseteq Ready'
  BY ReadyStays
<1>8. CountsOn(wire' \o to_send', Ready')
  BY <1>6, <1>7 DEF CountsOn
<1> QED
  BY <1>3, <1>8 DEF QueueInv

\* Packets are put in front.
LEMMA QueueSent ==
    ASSUME TypeInv, QueueInv, [Next]_vars, wire' = wire,
           NEW p \in Seq(Frames), to_send' = p \o to_send, \A j \in DOMAIN p : p[j].type = "auth"
    PROVE  QueueInv'
<1>1. wire \in Seq(Frames) /\ to_send \in Seq(Frames)
  BY DEF TypeInv, TypeOK
<1>2. PacketsFirst(to_send')
  BY <1>1, PacketsInFront DEF QueueInv
<1>3. CountsOn(wire' \o to_send', Ready')
  BY <1>1, ReadyStays, CountsInserted DEF QueueInv
<1> QED
  BY <1>2, <1>3 DEF QueueInv

\* Every step keeps the order of the queue.
LEMMA QueueNext == ASSUME TypeInv, HandInv, QueueInv, [Next]_vars PROVE QueueInv'
<1>0. wire \in Seq(Frames) /\ to_send \in Seq(Frames) /\ auth_h \in Seq(Credentials)
  BY DEF TypeInv, TypeOK
<1>1. ASSUME NEW t \in Callers, Request(t) PROVE QueueInv'
  <2>1. to_send' = Append(to_send, RequestFrame) /\ wire' = wire /\ UNCHANGED <<auth_h, pc, adding>>
    BY <1>1 DEF Request, wireVars, listVars, callerVars
  <2>2. RequestFrame \in Frames /\ RequestFrame.type = "request" /\ RequestFrame.after = Ready
    BY NewRequest DEF TypeInv
  <2>3. CountsOn(wire \o Append(to_send, RequestFrame), Ready)
    BY <1>0, <2>2, CountsQueued DEF QueueInv
  <2>4. PacketsFirst(Append(to_send, RequestFrame))
    BY <1>0, <2>2, RequestBehind DEF QueueInv
  <2>5. Ready' = Ready
    BY <2>1 DEF Ready
  <2> QED
    BY <2>1, <2>3, <2>4, <2>5 DEF QueueInv
<1>2. ASSUME NEW t \in Callers, send_last_auth_info(t) PROVE QueueInv'
  <2>1. to_send' = send_info_packets(to_send, <<Last(auth_h)>>) /\ wire' = wire
    BY <1>2 DEF send_last_auth_info, wireVars
  <2>2. auth_h # <<>>
    <3>1. adding[t] \in ToSet(auth_h)
      BY <1>2 DEF send_last_auth_info, HandInv
    <3> QED
      BY <3>1 DEF ToSet
  <2>3. <<Last(auth_h)>> \in Seq(Credentials)
    BY <1>0, <2>2, LastAndFront
  <2>4. PICK p \in Seq(Frames) : to_send' = p \o to_send /\ \A j \in DOMAIN p : p[j].type = "auth"
    BY <1>0, <2>1, <2>3, PacketsSent
  <2> QED
    BY <2>1, <2>4, QueueSent
<1>3. CASE send_auth_info
  <2>1. CASE auth_h = <<>>
    BY <1>3, <2>1, QueueKept DEF send_auth_info, wireVars
  <2>2. CASE auth_h # <<>>
    <3>1. to_send' = send_info_packets(to_send, Front(auth_h)) /\ wire' = wire
      BY <1>3, <2>2 DEF send_auth_info, wireVars
    <3>2. Front(auth_h) \in Seq(Credentials)
      BY <1>0, <2>2, LastAndFront
    <3>3. PICK p \in Seq(Frames) : to_send' = p \o to_send /\ \A j \in DOMAIN p : p[j].type = "auth"
      BY <1>0, <3>1, <3>2, PacketsSent
    <3> QED
      BY <3>1, <3>3, QueueSent
  <2> QED
    BY <2>1, <2>2
<1>4. CASE flush_send_queue
  <2>1. /\ to_send # <<>> /\ wire' = Append(wire, Head(to_send)) /\ to_send' = Tail(to_send)
        /\ UNCHANGED <<auth_h, pc, adding>>
    BY <1>4 DEF flush_send_queue, listVars, callerVars
  <2>2. wire' \o to_send' = wire \o to_send
    BY <1>0, <2>1, Moved
  <2>3. PacketsFirst(to_send')
    BY <1>0, <2>1, PacketsFlushed DEF QueueInv
  <2> QED
    BY <2>1, <2>2, <2>3 DEF QueueInv, Ready
<1>5. CASE ServerStep
  <2>1. wire # <<>> /\ wire' = Tail(wire) /\ to_send' = to_send /\ UNCHANGED <<auth_h, pc, adding>>
    BY <1>5 DEF ServerStep, listVars, callerVars
  <2>2. CountsOn(Tail(wire) \o to_send, Ready)
    BY <1>0, <2>1, CountsTaken DEF QueueInv
  <2> QED
    BY <2>1, <2>2 DEF QueueInv, Ready
<1>6. CASE \E t \in Callers : (\E c \in Credentials : AddAuth(t, c)) \/ add_last_auth(t) \/ TestState(t)
  BY <1>6, QueueKept DEF AddAuth, add_last_auth, TestState, TestStateVars, wireVars
<1>7. CASE prime_connection \/ Connected \/ auth_completion_func \/ CallCompletion \/ CompletionsCalled
  BY <1>7, QueueKept DEF prime_connection, Connected, auth_completion_func, CallCompletion,
                         CompletionsCalled, wireVars
<1>8. CASE handle_error \/ ConnectionLost \/ UNCHANGED vars
  BY <1>8, QueueKept DEF handle_error, HandleErrorClose, CleanupBufs, HandleErrorReset,
                         ConnectionLost, vars, wireVars
<1> QED
  BY <1>1, <1>2, <1>3, <1>4, <1>5, <1>6, <1>7, <1>8 DEF Next, IOStep, zoo_add_auth

\* Steps that neither send nor read frames.
LEMMA CarryQuiet ==
    ASSUME SentInv, CoverInv, UNCHANGED <<to_send, wire, server, skipped>>,
           Serving' => Serving,
           Serving /\ ~is_unrecoverable' => ~is_unrecoverable /\ Ready' \subseteq Ready
    PROVE  SentInv' /\ CoverInv'
<1>1. SentInv'
  BY DEF SentInv
<1>2. CoverInv'
  BY DEF CoverInv
<1> QED
  BY <1>1, <1>2

\* A step of a caller keeps the invariant.
LEMMA CarryCallers ==
    ASSUME CarryInv, NEW t \in Callers,
           (\E c \in Credentials : AddAuth(t, c)) \/ add_last_auth(t) \/ TestState(t)
    PROVE  SentInv' /\ CoverInv'
<1>0. DOMAIN pc = Callers /\ DOMAIN adding = Callers
  BY DEF CarryInv, TypeInv, AuthInv, CallersInv
<1>1. UNCHANGED <<to_send, wire, server, skipped, state, link, ioPc>>
  BY DEF AddAuth, add_last_auth, TestState, TestStateVars, wireVars, ioVars, histVars, leftVars
<1>2. (Serving' <=> Serving) /\ (is_unrecoverable' <=> is_unrecoverable)
  BY <1>1, Zenon DEF Serving, is_unrecoverable
<1>3. ASSUME Serving, ~is_unrecoverable PROVE Ready' \subseteq Ready
  <2>1. CASE \E c \in Credentials : AddAuth(t, c)
    BY <2>1, <1>0 DEF AddAuth, listVars, Ready
  <2>2. CASE add_last_auth(t)
    <3>1. /\ auth_h' = Append(auth_h, adding[t]) /\ adding[t] \in Credentials
          /\ adding' = adding /\ pc' = [pc EXCEPT ![t] = "test"]
      BY <2>2 DEF add_last_auth, CarryInv, TypeInv, TypeOK
    <3>2. ToSet(auth_h') = ToSet(auth_h) \cup {adding[t]}
      BY <3>1, AppendedSet DEF CarryInv, TypeInv, TypeOK
    <3>3. adding[t] \notin Ready'
      BY <1>0, <3>1 DEF Ready
    <3>4. \A u \in Callers : pc'[u] = "idle" => pc[u] = "idle"
      BY <1>0, <3>1
    <3> QED
      BY <3>1, <3>2, <3>3, <3>4 DEF Ready
  <2>3. CASE TestState(t)
    <3>1. state = "CONNECTED"
      BY <1>3 DEF CarryInv, LinkInv, Serving, is_unrecoverable
    <3>2. pc[t] = "test" /\ pc' = [pc EXCEPT ![t] = "send"] /\ UNCHANGED <<adding, auth_h>>
      BY <2>3, <3>1 DEF TestState, TestStateVars, listVars
    <3> QED
      BY <1>0, <3>2 DEF Ready
  <2> QED
    BY <2>1, <2>2, <2>3
<1> QED
  BY <1>1, <1>2, <1>3, CarryQuiet DEF CarryInv

\* The packet of send_last_auth_info: the credential of the caller is sent, or
\* left out because another took the place of the last.
LEMMA CarrySendLast ==
    ASSUME CarryInv, NEW t \in Callers, send_last_auth_info(t)
    PROVE  SentInv' /\ CoverInv'
<1>0. /\ DOMAIN pc = Callers /\ DOMAIN adding = Callers
      /\ wire \in Seq(Frames) /\ to_send \in Seq(Frames) /\ auth_h \in Seq(Credentials)
  BY DEF CarryInv, TypeInv, TypeOK, AuthInv, CallersInv
<1>1. /\ to_send' = send_info_packets(to_send, <<Last(auth_h)>>)
      /\ pc[t] = "send" /\ pc' = [pc EXCEPT ![t] = "idle"]
      /\ skipped' = IF adding[t] = Last(auth_h) THEN skipped \ {adding[t]}
                    ELSE skipped \cup ({adding[t]} \ Sent)
      /\ UNCHANGED <<wire, server, adding, auth_h, state, link, ioPc>>
  BY DEF send_last_auth_info, wireVars, listVars, ioVars
<1>2. auth_h # <<>>
  <2>1. adding[t] \in ToSet(auth_h)
    BY <1>1 DEF CarryInv, HandInv
  <2> QED
    BY <2>1 DEF ToSet
<1>3. Last(auth_h) \in Credentials /\ <<Last(auth_h)>> \in Seq(Credentials)
  BY <1>0, <1>2, LastAndFront
<1>4. PICK p \in Seq(Frames) :
          /\ to_send' = p \o to_send /\ \A j \in DOMAIN p : p[j].type = "auth"
          /\ \E j \in DOMAIN p : IsAuth(p[j], Last(auth_h))
  <2> DEFINE creds == <<Last(auth_h)>>
  <2>1. 1 \in DOMAIN creds /\ creds[1] = Last(auth_h) /\ creds \in Seq(Credentials)
    BY <1>3
  <2> HIDE DEF creds
  <2>2. to_send' = send_info_packets(to_send, creds)
    BY <1>1 DEF creds
  <2>3. PICK p \in Seq(Frames) :
            /\ send_info_packets(to_send, creds) = p \o to_send
            /\ \A j \in DOMAIN p : p[j].type = "auth"
            /\ \A i \in DOMAIN creds : \E j \in DOMAIN p : IsAuth(p[j], creds[i])
    BY <1>0, <2>1, PacketsSent
  <2>4. \E j \in DOMAIN p : IsAuth(p[j], Last(auth_h))
    BY <2>1, <2>3
  <2> QED
    BY <2>2, <2>3, <2>4
<1> DEFINE F == wire \o to_send
           G == wire \o (p \o to_send)
<1>5. Carried(F) \subseteq Carried(G) /\ Last(auth_h) \in Carried(G)
  BY <1>0, <1>3, <1>4, CarriedInserted
<1>6. Sent = server \cup Carried(F)
  BY DEF Sent, Carried
<1>7. G = wire' \o to_send' /\ (Serving' <=> Serving) /\ (is_unrecoverable' <=> is_unrecoverable)
  <2>1. (Serving' <=> Serving) /\ (is_unrecoverable' <=> is_unrecoverable)
    BY <1>1, Zenon DEF Serving, is_unrecoverable
  <2> QED
    BY <2>1, <1>1, <1>4
<1>8. Ready' \subseteq Ready \cup {adding[t]} /\ adding[t] \notin Ready
  BY <1>0, <1>1 DEF Ready
<1>9. SentInv'
  <2> SUFFICES ASSUME Serving, ~is_unrecoverable, NEW c \in Ready' \ (skipped' \cup Rejected)
               PROVE  c \in server \cup Carried(G)
    BY <1>1, <1>7 DEF SentInv
  <2>1. \A d \in Ready \ (skipped \cup Rejected) : d \in server \cup Carried(F)
    BY DEF CarryInv, SentInv
  <2> HIDE DEF F, G
  <2>2. CASE c = adding[t]
    BY <2>2, <1>1, <1>5, <1>6
  <2>3. CASE c # adding[t]
    <3>1. c \in Ready /\ c \notin skipped /\ c \notin Rejected
      BY <2>3, <1>1, <1>8
    <3> QED
      BY <3>1, <2>1, <1>5
  <2> QED
    BY <2>2, <2>3
<1>10. CoverInv'
  <2> DEFINE k == skipped \cup Rejected
             m == skipped' \cup Rejected
  <2> SUFFICES ASSUME Serving PROVE Covered(G, server, m)
    BY <1>1, <1>7 DEF CoverInv
  <2>1. Covered(F, server, k)
    BY DEF CarryInv, CoverInv
  <2>2. CountsOn(F, Ready)
    BY DEF CarryInv, QueueInv
  <2>3. ASSUME NEW i \in DOMAIN F, F[i].type = "request"
        PROVE  F[i].after \ m \subseteq F[i].after \ k
    <3>1. F[i].after \subseteq Ready
      BY <2>2, <2>3 DEF CountsOn
    <3>2. skipped \subseteq skipped' \cup {adding[t]}
      BY <1>1
    <3> HIDE DEF F
    <3> QED
      BY <3>1, <3>2, <1>8
  <2> HIDE DEF k, m
  <2> QED
    BY <1>0, <1>4, <2>1, <2>3, CoverInserted
<1> QED
  BY <1>9, <1>10

\* The packets of send_auth_info: all but the last, which is left out unless a
\* caller has sent it, in front of what is queued.
LEMMA CarrySendAll ==
    ASSUME CarryInv, send_auth_info
    PROVE  SentInv' /\ CoverInv'
<1>0. wire = <<>> /\ server = {} /\ to_send \in Seq(Frames) /\ auth_h \in Seq(Credentials)
  BY DEF CarryInv, LinkInv, TypeInv, TypeOK, send_auth_info
<1>1. UNCHANGED <<wire, server, adding, auth_h, pc>>
  BY DEF send_auth_info, wireVars, listVars, callerVars
<1>2. Ready' = Ready /\ Ready \subseteq ToSet(auth_h)
  BY <1>1 DEF Ready
<1>3. CountsOn(to_send, Ready) /\ wire \o to_send = to_send
  BY <1>0, CountsRest DEF CarryInv, QueueInv
<1>4. CASE auth_h = <<>>
  <2>1. Ready = {} /\ to_send' = to_send
    BY <1>2, <1>4 DEF ToSet, send_auth_info
  <2>2. SentInv'
    BY <1>2, <2>1 DEF SentInv
  <2>3. CoverInv'
    BY <1>1, <1>3, <2>1 DEF CoverInv, Covered, CountsOn
  <2> QED
    BY <2>2, <2>3
<1>5. CASE auth_h # <<>>
  <2>1. /\ to_send' = send_info_packets(to_send, Front(auth_h))
        /\ skipped' = {Last(auth_h)} \ Sent
    BY <1>5 DEF send_auth_info
  <2>2. /\ Front(auth_h) \in Seq(Credentials) /\ Last(auth_h) \in Credentials
        /\ \A c \in ToSet(auth_h) : c = Last(auth_h) \/ \E i \in DOMAIN Front(auth_h) : Front(auth_h)[i] = c
    BY <1>0, <1>5, LastAndFront
  <2>3. PICK p \in Seq(Frames) :
            /\ to_send' = p \o to_send /\ \A j \in DOMAIN p : p[j].type = "auth"
            /\ \A i \in DOMAIN Front(auth_h) : \E j \in DOMAIN p : IsAuth(p[j], Front(auth_h)[i])
    BY <1>0, <2>1, <2>2, PacketsSent
  <2>4. wire' \o to_send' = p \o to_send
    <3>1. p \o to_send \in Seq(Frames)
      BY <1>0, Concat
    <3> QED
      BY <1>0, <1>1, <2>3, <3>1, ConcatEmptySeq
  <2>5. Sent = Carried(to_send)
    BY <1>0, <1>3 DEF Sent, Carried
  <2>6. ASSUME NEW c \in Ready \ skipped'
        PROVE  c \in Credentials /\ ((\E j \in DOMAIN p : IsAuth(p[j], c)) \/ c \in Carried(to_send))
    <3>1. c \in Credentials
      BY <1>0, <1>2 DEF ToSet
    <3>2. CASE c = Last(auth_h)
      BY <3>1, <3>2, <2>1, <2>5
    <3>3. CASE c # Last(auth_h)
      <4>1. PICK i \in DOMAIN Front(auth_h) : Front(auth_h)[i] = c
        BY <1>2, <2>2, <3>3
      <4> QED
        BY <3>1, <4>1, <2>3
    <3> QED
      BY <3>2, <3>3
  <2>7. Carried(to_send) \subseteq Carried(p \o to_send)
        /\ \A c \in Credentials : (\E j \in DOMAIN p : IsAuth(p[j], c)) => c \in Carried(p \o to_send)
    <3>1. <<>> \in Seq(Frames) /\ p \o to_send \in Seq(Frames)
      BY <1>0, Concat
    <3>2. <<>> \o to_send = to_send /\ <<>> \o (p \o to_send) = p \o to_send
      BY <1>0, <3>1, ConcatEmptySeq
    <3> QED
      BY <1>0, <3>1, <3>2, CarriedInserted
  <2>8. SentInv'
    BY <1>2, <2>4, <2>6, <2>7 DEF SentInv
  <2>9. CoverInv'
    <3> DEFINE k == skipped' \cup Rejected
    <3>1. ASSUME NEW i \in DOMAIN to_send, to_send[i].type = "request", NEW c \in to_send[i].after \ k
          PROVE  (\E j \in DOMAIN p : IsAuth(p[j], c)) \/ c \in Carried(to_send)
      BY <1>3, <2>6, <3>1 DEF CountsOn
    <3> HIDE DEF k
    <3>2. PacketsFirst(to_send)
      BY DEF CarryInv, QueueInv
    <3>3. Covered(p \o to_send, server', k)
      BY <1>0, <2>3, <3>1, <3>2, CoverPrimed
    <3> QED
      BY <2>4, <3>3 DEF CoverInv, k
  <2> QED
    BY <2>8, <2>9
<1> QED
  BY <1>4, <1>5

\* A new request is behind what it counts on.
LEMMA CarryRequest ==
    ASSUME CarryInv, NEW t \in Callers, Request(t)
    PROVE  SentInv' /\ CoverInv'
<1>0. wire \in Seq(Frames) /\ to_send \in Seq(Frames)
  BY DEF CarryInv, TypeInv, TypeOK
<1>1. /\ to_send' = Append(to_send, RequestFrame) /\ ~is_unrecoverable
      /\ UNCHANGED <<wire, server, adding, auth_h, pc, skipped, state, link, ioPc>>
  BY DEF Request, wireVars, listVars, callerVars, histVars, leftVars, ioVars
<1>2. RequestFrame \in Frames /\ RequestFrame.after = Ready /\ Ready' = Ready
  <2>1. RequestFrame \in Frames /\ RequestFrame.after = Ready
    BY NewRequest DEF CarryInv, TypeInv
  <2> QED
    BY <2>1, <1>1 DEF Ready
<1>3. (Serving' <=> Serving) /\ (is_unrecoverable' <=> is_unrecoverable)
  BY <1>1, Zenon DEF Serving, is_unrecoverable
<1>4. Serving => \A c \in Ready \ (skipped \cup Rejected) : c \in server \cup Carried(wire \o to_send)
  BY <1>1 DEF CarryInv, SentInv
<1>5. Carried(wire \o to_send) \subseteq Carried(wire \o Append(to_send, RequestFrame))
  BY <1>0, <1>2, CarriedQueued
<1>6. SentInv'
  BY <1>1, <1>2, <1>3, <1>4, <1>5 DEF SentInv
<1>7. CoverInv'
  <2> DEFINE k == skipped \cup Rejected
  <2> SUFFICES ASSUME Serving PROVE Covered(wire \o Append(to_send, RequestFrame), server, k)
    BY <1>1, <1>3 DEF CoverInv
  <2>1. Covered(wire \o to_send, server, k) /\ \A c \in Ready \ k : c \in server \cup Carried(wire \o to_send)
    BY <1>4 DEF CarryInv, CoverInv
  <2> HIDE DEF k
  <2> QED
    BY <1>0, <1>2, <2>1, CoverQueued
<1> QED
  BY <1>6, <1>7

\* The server takes a credential it does not reject.
LEMMA CarryServer ==
    ASSUME CarryInv, ServerStep
    PROVE  SentInv' /\ CoverInv'
<1>0. wire \in Seq(Frames) /\ to_send \in Seq(Frames)
  BY DEF CarryInv, TypeInv, TypeOK
<1>1. /\ wire # <<>> /\ wire' = Tail(wire)
      /\ UNCHANGED <<to_send, adding, auth_h, pc, skipped, state, link, ioPc>>
  BY DEF ServerStep, listVars, callerVars, histVars, leftVars, ioVars
<1>2. server \subseteq server' /\ \A c : IsAuth(Head(wire), c) => c \in server' \/ c \in skipped \cup Rejected
  BY DEF ServerStep, IsAuth
<1>3. (Serving' <=> Serving) /\ (is_unrecoverable' <=> is_unrecoverable) /\ Ready' = Ready
  <2>1. (Serving' <=> Serving) /\ (is_unrecoverable' <=> is_unrecoverable)
    BY <1>1, Zenon DEF Serving, is_unrecoverable
  <2> QED
    BY <2>1, <1>1 DEF Ready
<1>4. \A c \in Carried(wire \o to_send) : IsAuth(Head(wire), c) \/ c \in Carried(Tail(wire) \o to_send)
  BY <1>0, <1>1, CarriedTaken
<1>5. SentInv'
  <2> SUFFICES ASSUME Serving, ~is_unrecoverable, NEW c \in Ready \ (skipped \cup Rejected)
               PROVE  c \in server' \cup Carried(Tail(wire) \o to_send)
    BY <1>1, <1>3 DEF SentInv
  <2>1. c \in server \cup Carried(wire \o to_send)
    BY DEF CarryInv, SentInv
  <2> QED
    BY <2>1, <1>2, <1>4
<1>6. CoverInv'
  <2> DEFINE k == skipped \cup Rejected
  <2> SUFFICES ASSUME Serving PROVE Covered(Tail(wire) \o to_send, server', k)
    BY <1>1, <1>3 DEF CoverInv
  <2>1. Covered(wire \o to_send, server, k) /\ \A c : IsAuth(Head(wire), c) => c \in server' \/ c \in k
    BY <1>2 DEF CarryInv, CoverInv
  <2> HIDE DEF k
  <2> QED
    BY <1>0, <1>1, <1>2, <2>1, CoverTaken
<1> QED
  BY <1>5, <1>6

\* A flush only moves a frame on.
LEMMA CarryFlush ==
    ASSUME CarryInv, flush_send_queue
    PROVE  SentInv' /\ CoverInv'
<1>1. /\ to_send # <<>> /\ wire' = Append(wire, Head(to_send)) /\ to_send' = Tail(to_send)
      /\ UNCHANGED <<server, adding, auth_h, pc, skipped, state, link, ioPc>>
  BY DEF flush_send_queue, listVars, callerVars, histVars, leftVars, ioVars
<1>2. wire' \o to_send' = wire \o to_send
  <2>1. wire \in Seq(Frames) /\ to_send \in Seq(Frames)
    BY DEF CarryInv, TypeInv, TypeOK
  <2> QED
    BY <1>1, <2>1, Moved
<1>3. (Serving' <=> Serving) /\ (is_unrecoverable' <=> is_unrecoverable) /\ Ready' = Ready
  <2>1. (Serving' <=> Serving) /\ (is_unrecoverable' <=> is_unrecoverable)
    BY <1>1, Zenon DEF Serving, is_unrecoverable
  <2> QED
    BY <2>1, <1>1 DEF Ready
<1>4. SentInv'
  BY <1>1, <1>2, <1>3 DEF CarryInv, SentInv
<1>5. CoverInv'
  BY <1>1, <1>2, <1>3 DEF CarryInv, CoverInv
<1> QED
  BY <1>4, <1>5

\* Every step keeps the invariant.
LEMMA CarryNext == ASSUME CarryInv, [Next]_vars PROVE CarryInv'
<1>1. TypeInv' /\ HandInv' /\ LinkInv' /\ QueueInv'
  BY TypeNext, LinkNext, QueueNext DEF CarryInv
<1>2. ASSUME NEW t \in Callers, (\E c \in Credentials : AddAuth(t, c)) \/ zoo_add_auth(t) \/ Request(t)
      PROVE  SentInv' /\ CoverInv'
  BY <1>2, CarryCallers, CarrySendLast, CarryRequest DEF zoo_add_auth
<1>3. ASSUME send_auth_info \/ flush_send_queue \/ ServerStep
      PROVE  SentInv' /\ CoverInv'
  BY <1>3, CarrySendAll, CarryFlush, CarryServer
<1>4. ASSUME prime_connection \/ Connected \/ ConnectionLost \/ handle_error
      PROVE  SentInv' /\ CoverInv'
  <2>1. ~Serving'
    BY <1>4 DEF prime_connection, Connected, ConnectionLost, handle_error, HandleErrorClose, CleanupBufs,
                HandleErrorReset, ioVars, Serving, CarryInv, LinkInv
  <2> QED
    BY <2>1 DEF SentInv, CoverInv
<1>5. ASSUME auth_completion_func \/ CallCompletion \/ CompletionsCalled \/ UNCHANGED vars
      PROVE  SentInv' /\ CoverInv'
  <2>1. UNCHANGED <<to_send, wire, server, skipped, adding, auth_h, pc, link>>
    BY <1>5 DEF auth_completion_func, CallCompletion, CompletionsCalled, vars, wireVars, listVars,
                callerVars, histVars, leftVars
  <2>2. /\ ioPc' \in {"loop", "callbacks"} => ioPc \in {"loop", "callbacks"}
        /\ state' \in {state, "AUTH_FAILED"}
    BY <1>5 DEF auth_completion_func, CallCompletion, CompletionsCalled, vars, ioVars
  <2>3. (Serving' => Serving) /\ (~is_unrecoverable' => ~is_unrecoverable)
    BY <2>1, <2>2 DEF Serving, is_unrecoverable
  <2>4. Ready' = Ready
    BY <2>1 DEF Ready
  <2> QED
    BY <2>1, <2>3, <2>4, CarryQuiet DEF CarryInv
<1> QED
  BY <1>1, <1>2, <1>3, <1>4, <1>5 DEF Next, IOStep, CarryInv

\* The invariant holds in the initial state.
LEMMA CarryInit == Init => CarryInv
<1> SUFFICES ASSUME Init PROVE CarryInv
  OBVIOUS
<1>1. LinkInv /\ SentInv /\ CoverInv
  BY DEF Init, LinkInv, SentInv, CoverInv, Serving
<1>2. wire \o to_send = <<>>
  BY DEF Init
<1>3. QueueInv
  BY <1>2 DEF Init, QueueInv, PacketsFirst, CountsOn
<1> QED
  BY TypeInit, <1>1, <1>3 DEF CarryInv

\* A request that was made after zoo_add_auth returned finds the credential at
\* the server or in front of it, unless the credential was the last on the list
\* when the connection came up or was overtaken by another thread's.
THEOREM CredentialsFirst == Spec => []RequestsCarryCredentials
<1>1. CarryInv => RequestsCarryCredentials
  BY DEF CarryInv, CoverInv, Covered, Serving, RequestsCarryCredentials, Missing
<1> QED
  BY CarryInit, CarryNext, <1>1, PTL DEF Spec

-----------------------------------------------------------------------------
(* What is left out on a connection.                                       *)

\* The IO thread leaves out one credential at most.
LeftOutInv == \A c, d \in skipped \ overtaken : c = d

\* Every step keeps this: a caller only adds to both sets, or takes away.
LEMMA LeftOutNext ==
    ASSUME LeftOutInv, [Next]_vars
    PROVE  LeftOutInv'
<1>1. ASSUME NEW t \in Callers, NEW c \in Credentials, AddAuth(t, c) PROVE UNCHANGED leftVars
  BY <1>1 DEF AddAuth, histVars
<1>2. ASSUME NEW t \in Callers, add_last_auth(t) \/ TestState(t) \/ Request(t)
      PROVE  UNCHANGED leftVars
  BY <1>2 DEF add_last_auth, TestState, TestStateVars, Request, histVars
<1>3. ASSUME NEW t \in Callers, send_last_auth_info(t) PROVE LeftOutInv'
  <2>1. skipped' \ overtaken' \subseteq skipped \ overtaken
    BY <1>3 DEF send_last_auth_info
  <2> QED
    BY <2>1 DEF LeftOutInv
<1>4. CASE Connected
  BY <1>4 DEF Connected, LeftOutInv
<1>5. CASE send_auth_info
  <2>1. UNCHANGED leftVars \/ skipped' = {Last(auth_h)} \ Sent
    BY <1>5 DEF send_auth_info
  <2> QED
    BY <2>1 DEF LeftOutInv, leftVars
<1>6. CASE prime_connection \/ flush_send_queue \/ auth_completion_func \/ CallCompletion
           \/ CompletionsCalled \/ handle_error \/ ConnectionLost \/ ServerStep \/ UNCHANGED vars
  <2>1. UNCHANGED leftVars
    BY <1>6 DEF prime_connection, flush_send_queue, auth_completion_func, CallCompletion,
                CompletionsCalled, handle_error, HandleErrorClose, CleanupBufs, HandleErrorReset,
                ConnectionLost, ServerStep, vars, histVars
  <2> QED
    BY <2>1 DEF LeftOutInv, leftVars
<1>7. UNCHANGED leftVars => LeftOutInv'
  BY DEF LeftOutInv, leftVars
<1> QED
  BY <1>1, <1>2, <1>3, <1>4, <1>5, <1>6, <1>7 DEF Next, zoo_add_auth, IOStep

\* But for the overtaken ones, a connection lacks one credential at most, after
\* any number of reconnections: the last on the list when it came up.
THEOREM AtMostOneMissing == Spec => []OneIsMissing
<1>1. Init => LeftOutInv
  BY DEF Init, LeftOutInv
<1>2. RequestsCarryCredentials /\ LeftOutInv => OneIsMissing
  BY DEF LeftOutInv, RequestsCarryCredentials, OneIsMissing
<1> QED
  BY <1>1, LeftOutNext, <1>2, CredentialsFirst, PTL DEF Spec
=============================================================================
