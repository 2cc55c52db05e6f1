---------------------------- MODULE MCRubyClient ----------------------------
EXTENDS RubyClient, TLC

CONSTANTS r1, r2, r3, strings, acl, watcher

\* A get_children and a set_acl with a callback, and a synchronous exists with a watcher.
MCCallOf ==
    (r1 :> [op |-> "get_children", callback |-> strings, watcher |-> Nobody])
    @@ (r2 :> [op |-> "set_acl", callback |-> acl, watcher |-> Nobody])
    @@ (r3 :> [op |-> "exists", callback |-> Nobody, watcher |-> watcher])

MCClassOf ==
    (strings :> "StringsCallback") @@ (acl :> "ACLCallback") @@ (watcher :> "WatcherCallback")
=============================================================================
