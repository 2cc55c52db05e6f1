\* One request at a time, a ping or watch event, and a fault: everything is answered or the session expired.
SPECIFICATION FairSpec
CONSTANTS
    a1 = a1
    a2 = a2
    App <- Apps1
    Completion = Completion
    IO = IO
    NAddrs = 1
    MaxRequests = 1
    MaxFaults = 1
    MaxChatter = 1
CHECK_DEADLOCK FALSE
PROPERTIES
    RequestsAnswered
    SyncCallsReturn
    Reconnects
