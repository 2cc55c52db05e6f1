\* A call racing the expiry of the session: it may never return.
SPECIFICATION FairSpec
CONSTANTS
    a1 = a1
    a2 = a2
    App <- Apps1
    Completion = Completion
    IO = IO
    NAddrs = 1
    MaxRequests = 1
    MaxFaults = 1
    MaxChatter = 0
CHECK_DEADLOCK FALSE
PROPERTIES
    SyncCallsAlwaysReturn
