\* Two application threads, the callbacks, two requests and a fault: the invariants and the refinement.
SPECIFICATION Spec
CONSTANTS
    a1 = a1
    a2 = a2
    App <- Apps2
    Completion = Completion
    IO = IO
    NAddrs = 1
    MaxRequests = 2
    MaxFaults = 1
    MaxChatter = 0
SYMMETRY Symmetry
CHECK_DEADLOCK FALSE
INVARIANTS
    TypeOK
    CallbacksInOrder
    RequestsAccountedFor
    SyncCallersWait
    WireMatchesSent
    SuccessWasExecuted
    CallbacksAgreeWithSession
    NoLostWakeup
PROPERTIES
    LedgerSpec
