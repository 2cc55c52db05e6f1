\* The application or a callback closes the handle; a reply may be out of order.
SPECIFICATION FairSpec
CONSTANTS
    App = App
    IO = IO
    Completion = Completion
    Closers = {App, Completion}
    MaxCalls = 2
    MaxEvents = 3
    MaxMisreplies = 1
CHECK_DEADLOCK FALSE
INVARIANTS
    TypeOK
    RefCounterAgrees
    DestroyedAfterThreads
    InitReturnsHeldHandle
    FreedByLastUser
PROPERTIES
    CloseReturns
    ClosedHandleIsFreed
    SyncCallReturnsOnClose
