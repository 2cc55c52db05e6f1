\* Three calls, three callback objects and a watch event.
CONSTANTS
    r1 = r1
    r2 = r2
    r3 = r3
    strings = strings
    acl = acl
    watcher = watcher
    Requests = {r1, r2, r3}
    CallOf <- MCCallOf
    Callbacks = {strings, acl, watcher}
    ClassOf <- MCClassOf
    Events = {e1}
    Nobody = Nobody
    GARBAGE = GARBAGE
SPECIFICATION Spec
INVARIANTS
    CompletedTellsTheReply
PROPERTIES
    CallersHearBack
CHECK_DEADLOCK FALSE
