--------------------------- MODULE RequestLedger ---------------------------
(***************************************************************************)
(* What the C client promises its callers, with no threads, queues, frames *)
(* or connections: requests are accepted in some order, every one is       *)
(* answered at most once, asynchronous answers are queued for the          *)
(* callbacks in the order the requests were accepted, and the callbacks    *)
(* see the state of the session change in a sensible order, with a         *)
(* successful answer or a watch event only while the last session event    *)
(* said CONNECTED, and a failed answer only while it did not.              *)
(***************************************************************************)
EXTENDS Integers, Sequences

CONSTANTS Callers, Codes

VARIABLES
    accepted,   \* the requests accepted so far: their kinds and callers, in order
    open,       \* the numbers of those not answered yet
    log,        \* what the callbacks are given, in order
    told        \* the state in the last session event of log, at first "CONNECTING"

vars == <<accepted, open, log, told>>

Init == accepted = <<>> /\ open = {} /\ log = <<>> /\ told = "CONNECTING"

Accept(kind, by) ==
    /\ accepted' = Append(accepted, [kind |-> kind, by |-> by])
    /\ open' = open \cup {Len(accepted) + 1}
    /\ UNCHANGED <<log, told>>

\* Which answers the session allows.
Allowed(code) == (code = "ZOK") <=> (told = "CONNECTED")

\* The oldest asynchronous request that is open is the one answered.
AnswerAsync(n, code) ==
    /\ n \in open /\ accepted[n].kind = "async"
    /\ \A m \in open : accepted[m].kind = "async" => n <= m
    /\ Allowed(code)
    /\ open' = open \ {n}
    /\ log' = Append(log, [kind |-> "reply", n |-> n, what |-> code])
    /\ UNCHANGED <<accepted, told>>

\* A synchronous answer goes to its caller, and a ping's to nobody.
AnswerOther(n) ==
    /\ n \in open /\ accepted[n].kind # "async"
    /\ open' = open \ {n}
    /\ UNCHANGED <<accepted, log, told>>

Notify ==
    /\ told = "CONNECTED"
    /\ log' = Append(log, [kind |-> "watch", n |-> 0, what |-> "ZOK"])
    /\ UNCHANGED <<accepted, open, told>>

\* CONNECTED, then CONNECTING when it is lost, and so on; an expired session
\* is found out while connecting, and is the last state.
SessionChange(s) ==
    /\ \/ s = "CONNECTED" /\ told = "CONNECTING"
       \/ s = "CONNECTING" /\ told = "CONNECTED"
       \/ s = "EXPIRED_SESSION" /\ told = "CONNECTING"
    /\ told' = s
    /\ log' = Append(log, [kind |-> "session", n |-> 0, what |-> s])
    /\ UNCHANGED <<accepted, open>>

Next ==
    \/ \E kind \in {"sync", "async", "ping"}, by \in Callers : Accept(kind, by)
    \/ \E n \in open : AnswerOther(n) \/ \E code \in Codes : AnswerAsync(n, code)
    \/ Notify
    \/ \E s \in {"CONNECTED", "CONNECTING", "EXPIRED_SESSION"} : SessionChange(s)

Spec == Init /\ [][Next]_vars
=============================================================================
