----------------------------- MODULE MCClientApi -----------------------------
EXTENDS ClientApi

\* Every path of at most three characters, and some longer ones.
Characters3 == {Slash, Dot, 97, 30}
ShortPaths == UNION {[1 .. n -> Characters3] : n \in 0 .. 3}
LongPaths == {<<47, 97, 47, 46, 46>>, <<47, 97, 46, 46, 97>>, <<47, 97, 47, 46, 47, 97>>,
              <<47, 46, 46, 46>>, <<47, 97, 47, 98, 47>>}
SomePaths == {<<47>>, <<47, 97>>, <<97, 98>>, <<47, 97, 47>>}

World == [perms |-> 31, scheme |-> <<119>>, id |-> <<97, 110>>]
Reader == [perms |-> 1, scheme |-> <<105>>, id |-> <<>>]

Data == {NULL, [bytes |-> <<>>, chars |-> 0], [bytes |-> <<100, 101, 102>>, chars |-> 3],
         [bytes |-> <<200, 201, 100>>, chars |-> 2]}

Call(op, path, mode) ==
    [op |-> op, path |-> path, mode |-> mode, watch |-> 0, version |-> -1, data |-> NULL,
     acl |-> <<World>>, ephemeral |-> FALSE, sequence |-> "no"]

MCCalls ==
    {Call("delete", p, "async") : p \in ShortPaths}
    \cup {[Call("create", p, "sync") EXCEPT !.sequence = "true"] : p \in ShortPaths \cup LongPaths}
    \cup {[Call("create", p, m) EXCEPT !.sequence = s, !.ephemeral = e, !.data = d, !.acl = a] :
             p \in SomePaths, m \in {"sync", "async"}, s \in {"no", "true", "truthy"},
             e \in BOOLEAN, d \in Data, a \in {<<>>, <<World, Reader>>}}
    \cup {[Call("set", p, m) EXCEPT !.data = d, !.version = v] :
             p \in SomePaths, m \in {"sync", "async", "wrong"}, d \in Data, v \in {-1, 3}}
    \cup {[Call(op, p, m) EXCEPT !.watch = w] :
             op \in {"get", "exists", "get_children"}, p \in SomePaths,
             m \in {"sync", "async", "wrong"}, w \in {0, 1}}
    \cup {[Call(op, p, m) EXCEPT !.version = 5, !.acl = <<Reader, World>>] :
             op \in {"delete", "get_acl", "set_acl"}, p \in SomePaths,
             m \in {"sync", "async", "wrong"}}
    \cup {Call("sync", p, "async") : p \in SomePaths}

MCChroots == {<<>>, <<47>>, <<47, 99>>, <<47, 99, 47>>}
MCXids == {-8, -4, -2, -1, 7, 15}

MCStored ==
    [data |-> {NULL, <<>>, <<100>>, <<100, 0, 101>>, <<100, 101, 102, 103, 104>>},
     children |-> {<<>>, <<[data |-> <<97>>]>>, <<[data |-> <<97, 98>>], [data |-> <<99>>]>>},
     acl |-> {<<>>, <<World>>, <<World, Reader>>},
     errors |-> {-101, -102, -110, -118}]
=============================================================================
