------------------------------ MODULE Watches -------------------------------
(***************************************************************************)
(* The watches of the client: the tables of zk_hashtable.c, filled when a  *)
(* reply is read (activateWatcher, through the result checkers) and        *)
(* emptied when an event is read (collectWatchers), and the SetWatches     *)
(* request that renews them on a new connection (send_set_watches), with   *)
(* last_zxid to tell the server what has been seen.                        *)
(*                                                                         *)
(* The server is external.  Its tree is a log of changes, the zxid of a    *)
(* change being its place in the log; each server has applied a prefix of  *)
(* it, and accepts a client that has not seen more than that.              *)
(***************************************************************************)
EXTENDS Integers, Sequences, FiniteSets, FiniteSetsExt, SequencesExt

CONSTANTS
    Paths,          \* the znodes watched
    Watchers,       \* watcher objects: a function and its context
    MaxRequests,    \* bound on requests that leave a watch
    MaxChanges,     \* bound on changes to the tree
    MaxFaults       \* bound on lost connections

ASSUME BoundsAssumption == MaxRequests \in Nat /\ MaxChanges \in Nat /\ MaxFaults \in Nat
ASSUME PathsAssumption  == IsFiniteSet(Paths)

VARIABLES
    link,           \* "none", "handshake" or "up"; zh->state is CONNECTED when it is up
    active,         \* the tables active_{node,exist,child}_watchers
    last_zxid,      \* zh->last_zxid
    to_server,      \* zh->to_send, and what is on the wire
    from_server,    \* replies and events on the wire
    sent_requests,  \* zh->sent_requests
    completions,    \* zh->completions_to_process: lists of watchers to call
    log,            \* external: the changes of the tree
    server,         \* external: the server of this connection
    since,          \* history: the zxid each watch was last registered at
    registered,     \* history: how often each watcher was registered
    fired,          \* history: how often each was called for a change
    requests, faults

tableVars   == <<active, last_zxid, since, registered>>
wireVars    == <<to_server, from_server, sent_requests>>
serverVars  == <<log, server>>
vars == <<link, tableVars, wireVars, completions, serverVars, fired, requests, faults>>

Tables == {"node", "exist", "child"}
Ops    == {"get", "exists", "children"}

NoServer == [applied |-> 0, data |-> {}, child |-> {}]

Init ==
    /\ link = "none"
    /\ active = [t \in Tables |-> [p \in Paths |-> {}]]
    /\ last_zxid = 0
    /\ to_server = <<>> /\ from_server = <<>> /\ sent_requests = <<>> /\ completions = <<>>
    /\ log = <<>> /\ server = NoServer
    /\ since = [t \in Tables |-> [p \in Paths |-> [w \in Watchers |-> 0]]]
    /\ registered = [w \in Watchers |-> 0] /\ fired = [w \in Watchers |-> 0]
    /\ requests = 0 /\ faults = 0

-----------------------------------------------------------------------------
(* The tree and the server (external).                                     *)

LastChange(p, kinds, z) ==
    Max({0} \cup {i \in 1..z : log[i].path = p /\ log[i].kind \in kinds})

Exists(p, z) == LastChange(p, {"create"}, z) > LastChange(p, {"delete"}, z)
mzxid(p, z)  == LastChange(p, {"create", "set"}, z)
pzxid(p, z)  == LastChange(p, {"create", "child"}, z)

Event(type, p, z) == [xid |-> "watch", zxid |-> -1, type |-> type, path |-> p, at |-> z]
Reply(rc, z)      == [xid |-> "reply", zxid |-> z, rc |-> rc]

\* Somebody changes the tree.
TreeChanges ==
    /\ Len(log) < MaxChanges
    /\ \E p \in Paths, kind \in {"create", "set", "delete", "child"} :
          /\ (kind = "create") # Exists(p, Len(log))
          /\ log' = Append(log, [path |-> p, kind |-> kind])
    /\ UNCHANGED <<link, tableVars, wireVars, completions, server, fired, requests, faults>>

\* The server of this connection applies the next change and triggers watches.
ServerApplies ==
    /\ link = "up" /\ server.applied < Len(log)
    /\ LET z == server.applied + 1
           c == log[z]
           p == c.path
           Trigger(type, watched) ==
               from_server' = IF watched THEN Append(from_server, Event(type, p, z))
                                         ELSE from_server
       IN  \/ /\ c.kind = "create"
              /\ Trigger("CREATED", p \in server.data)
              /\ server' = [server EXCEPT !.applied = z, !.data = @ \ {p}]
           \/ /\ c.kind = "set"
              /\ Trigger("CHANGED", p \in server.data)
              /\ server' = [server EXCEPT !.applied = z, !.data = @ \ {p}]
           \/ /\ c.kind = "delete"
              /\ Trigger("DELETED", p \in server.data \cup server.child)
              /\ server' = [server EXCEPT !.applied = z, !.data = @ \ {p}, !.child = @ \ {p}]
           \/ /\ c.kind = "child"
              /\ Trigger("CHILD", p \in server.child)
              /\ server' = [server EXCEPT !.applied = z, !.child = @ \ {p}]
    /\ UNCHANGED <<link, tableVars, to_server, sent_requests, completions, log, fired, requests,
                   faults>>

\* The server answers a request, and leaves the watch it asks for.
ServerReplies ==
    /\ link = "up" /\ to_server # <<>> /\ Head(to_server).xid = "request"
    /\ LET r == Head(to_server)
           here == Exists(r.path, server.applied)
           data  == r.op = "exists" \/ (r.op = "get" /\ here)
           child == r.op = "children" /\ here
       IN  /\ from_server' = Append(from_server,
                                    Reply(IF here THEN "ZOK" ELSE "ZNONODE", server.applied))
           /\ server' = [server EXCEPT !.data  = IF data  THEN @ \cup {r.path} ELSE @,
                                       !.child = IF child THEN @ \cup {r.path} ELSE @]
    /\ to_server' = Tail(to_server)
    /\ UNCHANGED <<link, tableVars, sent_requests, completions, log, fired, requests, faults>>

\* The events that the client of SetWatches f missed, if there was one after
\* relativeZxid.
MissedEvents(f, z) ==
    {Event("DELETED", p, LastChange(p, {"delete"}, z)) :
        p \in {q \in f.dataWatches \cup f.childWatches : ~Exists(q, z)}}
    \cup {Event("CHANGED", p, mzxid(p, z)) :
        p \in {q \in f.dataWatches : Exists(q, z) /\ mzxid(q, z) > f.relativeZxid}}
    \cup {Event("CREATED", p, LastChange(p, {"create"}, z)) :
        p \in {q \in f.existWatches : Exists(q, z)}}
    \cup {Event("CHILD", p, pzxid(p, z)) :
        p \in {q \in f.childWatches : Exists(q, z) /\ pzxid(q, z) > f.relativeZxid}}

\* The server renews the watches of SetWatches, or sends those events.
ServerSetsWatches ==
    /\ link = "up" /\ to_server # <<>> /\ Head(to_server).xid = "setWatches"
    /\ LET f == Head(to_server)
           z == server.applied
       IN  /\ from_server' = from_server \o SetToSeq(MissedEvents(f, z))
                               \o <<[xid |-> "setWatches", zxid |-> z]>>
           /\ server' = [server EXCEPT
                 !.data = {p \in f.dataWatches : Exists(p, z) /\ mzxid(p, z) <= f.relativeZxid}
                          \cup {p \in f.existWatches : ~Exists(p, z)},
                 !.child = {p \in f.childWatches : Exists(p, z) /\ pzxid(p, z) <= f.relativeZxid}]
    /\ to_server' = Tail(to_server)
    /\ UNCHANGED <<link, tableVars, sent_requests, completions, log, fired, requests, faults>>

-----------------------------------------------------------------------------
(* The tables: zk_hashtable.c.                                             *)

\* exists_result_checker, data_result_checker and child_result_checker: the
\* table the watch of a request goes to, if any.
result_checker(op, rc) ==
    IF rc = "ZOK" THEN (IF op = "children" THEN {"child"} ELSE {"node"})
    ELSE IF op = "exists" THEN {"exist"} ELSE {}

activateWatcher(r, rc, zxid) ==
    LET to == result_checker(r.op, rc)
    IN  /\ active' = [t \in Tables |-> IF t \in to
                         THEN [active[t] EXCEPT ![r.path] = @ \cup {r.watcher}] ELSE active[t]]
        /\ since' = [t \in Tables |-> IF t \in to
                         THEN [since[t] EXCEPT ![r.path][r.watcher] = zxid] ELSE since[t]]
        /\ registered' = [registered EXCEPT ![r.watcher] = @ + Cardinality(to)]

ChildWatchesStay(type) ==                   \* faulty variant: a deleted node keeps its child watches
    IF type = "CHILD" THEN {"child"} ELSE {"node", "exist"}
TablesFor(type) ==
    IF type = "CHILD" THEN {"child"}
    ELSE IF type = "DELETED" THEN {"node", "exist", "child"}
    ELSE {"node", "exist"}

CopyForEvent(from, p) == UNCHANGED active   \* faulty variant: watchers are copied, not moved
add_for_event(from, p) ==
    active' = [t \in Tables |-> IF t \in from THEN [active[t] EXCEPT ![p] = {}] ELSE active[t]]

\* Session events go to every watcher there is, and leave it in its table.
collect_session_watchers == UNION {active[t][p] : t \in Tables, p \in Paths}

QueueSessionEvent ==
    completions' = Append(completions, [type |-> "SESSION", watchers |-> collect_session_watchers])

-----------------------------------------------------------------------------
(* The client.                                                             *)

\* zoo_awget, zoo_awexists and zoo_awget_children.
Request ==
    /\ requests < MaxRequests /\ requests' = requests + 1
    /\ \E op \in Ops, p \in Paths, w \in Watchers :
          /\ to_server' = Append(to_server, [xid |-> "request", op |-> op, path |-> p])
          /\ sent_requests' = Append(sent_requests, [op |-> op, path |-> p, watcher |-> w])
    /\ UNCHANGED <<link, tableVars, from_server, completions, serverVars, fired, faults>>

\* The TCP connection is up and the connect request, with lastZxidSeen, sent
\* to a server that has seen as much.
PrimeConnection ==
    /\ link = "none"
    /\ link' = "handshake"
    /\ \E z \in last_zxid..Len(log) : server' = [NoServer EXCEPT !.applied = z]
    /\ UNCHANGED <<tableVars, wireVars, completions, log, fired, requests, faults>>

collect_keys(t) == {p \in Paths : active[t][p] # {}}

QueueBack(f)    == Append(to_server, f)     \* faulty variant: SetWatches waits its turn
queue_front(f)  == <<f>> \o to_server

ForgetChildren ==                           \* faulty variant: child watches are left out
    [xid |-> "setWatches", relativeZxid |-> last_zxid, dataWatches |-> collect_keys("node"),
     existWatches |-> collect_keys("exist"), childWatches |-> {}]
SetWatches ==
    [xid |-> "setWatches", relativeZxid |-> last_zxid, dataWatches |-> collect_keys("node"),
     existWatches |-> collect_keys("exist"), childWatches |-> collect_keys("child")]

send_set_watches == to_server' = queue_front(SetWatches)

\* The server accepts the session.
Connected ==
    /\ link = "handshake"
    /\ link' = "up"
    /\ send_set_watches
    /\ QueueSessionEvent
    /\ UNCHANGED <<tableVars, from_server, sent_requests, serverVars, fired, requests, faults>>

\* handle_error: every outstanding request fails; its watch is not activated.
Disconnected ==
    /\ link # "none" /\ faults < MaxFaults /\ faults' = faults + 1
    /\ link' = "none"
    /\ to_server' = <<>> /\ from_server' = <<>> /\ sent_requests' = <<>>
    /\ server' = NoServer
    /\ IF link = "up" THEN QueueSessionEvent ELSE UNCHANGED completions
    /\ UNCHANGED <<tableVars, log, fired, requests>>

SeeZxid(f)    == last_zxid' = IF f.zxid > 0 THEN f.zxid ELSE last_zxid

ReadFrame(xid) ==
    /\ link = "up" /\ from_server # <<>> /\ Head(from_server).xid = xid
    /\ SeeZxid(Head(from_server))
    /\ from_server' = Tail(from_server)
    /\ UNCHANGED <<link, to_server, serverVars, fired, requests, faults>>

ReadReply ==
    /\ ReadFrame("reply")
    /\ activateWatcher(Head(sent_requests), Head(from_server).rc, Head(from_server).zxid)
    /\ sent_requests' = Tail(sent_requests)
    /\ UNCHANGED completions

\* collectWatchers: the watchers move from the tables to a list for the
\* completion thread.
ReadWatchEvent ==
    /\ ReadFrame("watch")
    /\ LET e == Head(from_server)
           from == TablesFor(e.type)
       IN  /\ completions' = Append(completions,
                 [type |-> e.type, watchers |-> UNION {active[t][e.path] : t \in from}])
           /\ add_for_event(from, e.path)
    /\ UNCHANGED <<since, registered, sent_requests>>

ReadSetWatches ==
    /\ ReadFrame("setWatches")
    /\ UNCHANGED <<active, since, registered, sent_requests, completions>>

\* The completion thread calls the watchers of the next list.
deliverWatchers ==
    /\ completions # <<>>
    /\ completions' = Tail(completions)
    /\ LET e == Head(completions)
       IN  fired' = [w \in Watchers |->
                        IF e.type # "SESSION" /\ w \in e.watchers THEN fired[w] + 1 ELSE fired[w]]
    /\ UNCHANGED <<link, tableVars, wireVars, serverVars, requests, faults>>

-----------------------------------------------------------------------------
Server == ServerApplies \/ ServerReplies \/ ServerSetsWatches
Client == PrimeConnection \/ Connected \/ ReadReply \/ ReadWatchEvent \/ ReadSetWatches

Next == Request \/ Client \/ Disconnected \/ deliverWatchers \/ TreeChanges \/ Server

Spec == Init /\ [][Next]_vars

\* The IO thread and the completion thread are scheduled, a live server works
\* through its log and its requests; nobody has to change the tree, to make
\* requests, or to lose the connection.
FairSpec == Spec /\ WF_vars(Client) /\ WF_vars(deliverWatchers) /\ WF_vars(Server)

-----------------------------------------------------------------------------
(* What must hold.                                                         *)

EventTypes == {"CREATED", "CHANGED", "DELETED", "CHILD"}

\* What is on the wire: of the client, and of the server.
Requests == [xid : {"request"}, op : Ops, path : Paths]
Renewals == [xid : {"setWatches"}, relativeZxid : Nat, dataWatches : SUBSET Paths,
             existWatches : SUBSET Paths, childWatches : SUBSET Paths]
Frames   == [xid : {"watch"}, zxid : {-1}, type : EventTypes, path : Paths, at : Nat]
            \cup [xid : {"reply"}, zxid : Nat, rc : {"ZOK", "ZNONODE"}]
            \cup [xid : {"setWatches"}, zxid : Nat]

TypeOK ==
    /\ link \in {"none", "handshake", "up"}
    /\ active \in [Tables -> [Paths -> SUBSET Watchers]]
    /\ last_zxid \in Nat
    /\ to_server \in Seq(Requests \cup Renewals) /\ from_server \in Seq(Frames)
    /\ sent_requests \in Seq([op : Ops, path : Paths, watcher : Watchers])
    /\ completions \in Seq([type : EventTypes \cup {"SESSION"}, watchers : SUBSET Watchers])
    /\ log \in Seq([path : Paths, kind : {"create", "set", "delete", "child"}])
    /\ server \in [applied : Nat, data : SUBSET Paths, child : SUBSET Paths]
    /\ since \in [Tables -> [Paths -> [Watchers -> Nat]]]
    /\ registered \in [Watchers -> Nat] /\ fired \in [Watchers -> Nat]
    /\ requests \in Nat /\ faults \in Nat

Watching == {x \in Tables \X Paths \X Watchers : x[3] \in active[x[1]][x[2]]}

\* "The notification is a one time trigger" (zookeeper.h:40): each
\* registration of a watcher calls it once at most, whatever the events,
\* the duplicates of SetWatches and the lists not yet delivered.
WatchesFireOnce ==
    \A w \in Watchers :
        fired[w]
        + Cardinality({i \in DOMAIN completions :
                          completions[i].type # "SESSION" /\ w \in completions[i].watchers})
        + Cardinality({x \in Watching : x[3] = w}) <= registered[w]

\* A watcher is called only for a change after it was registered: none of the
\* events on their way finds a watch that is younger than its change.
EventsAreNews ==
    \A i \in DOMAIN from_server : from_server[i].xid = "watch" =>
        LET e == from_server[i]
        IN  \A t \in TablesFor(e.type) : \A w \in active[t][e.path] : since[t][e.path][w] < e.at

\* What happened to p after zxid z and up to upto concerns a watch in table t.
Concerns(t, p, z, upto) ==
    IF t = "exist" THEN Exists(p, upto)
    ELSE LastChange(p, IF t = "node" THEN {"create", "set", "delete"}
                                     ELSE {"create", "child", "delete"}, upto) > z

Announced(t, p) ==
    \E i \in DOMAIN from_server : /\ from_server[i].xid = "watch"
                                  /\ from_server[i].path = p /\ t \in TablesFor(from_server[i].type)

KeysOf(t, f) ==
    IF t = "node" THEN f.dataWatches ELSE IF t = "exist" THEN f.existWatches ELSE f.childWatches

\* "If a watch is left, that client will be notified of the change"
\* (zookeeper.h:39): every watch in the tables has its event on the way, or
\* is set at the server, or is in the SetWatches that is queued or yet to be
\* sent; and no change that concerns it is older than what those look at.
NoWatchLost ==
    \A x \in Watching :
        LET t == x[1]
            p == x[2]
            z == since[t][p][x[3]]
        IN  \/ Announced(t, p)
            \/ /\ link # "up"
               /\ ~Concerns(t, p, z, last_zxid)
            \/ /\ link = "up" /\ to_server # <<>> /\ Head(to_server).xid = "setWatches"
               /\ p \in KeysOf(t, Head(to_server))
               /\ ~Concerns(t, p, z, Head(to_server).relativeZxid)
            \/ /\ link = "up"
               /\ p \in (IF t = "child" THEN server.child ELSE server.data)
               /\ ~Concerns(t, p, z, server.applied)

\* A change that concerns a watch is told to it, over any lost connections
\* (unless a node watched for existence is gone again).
ChangesAreTold ==
    \A x \in Tables \X Paths \X Watchers :
        (x \in Watching /\ Concerns(x[1], x[2], since[x[1]][x[2]][x[3]], Len(log)))
            ~> (x \notin Watching \/ ~Concerns(x[1], x[2], since[x[1]][x[2]][x[3]], Len(log)))
=============================================================================
