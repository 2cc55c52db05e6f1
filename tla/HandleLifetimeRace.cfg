\* A callback closes the handle while the application is in a call.
SPECIFICATION Spec
CONSTANTS
    App = App
    IO = IO
    Completion = Completion
    Closers = {Completion}
    MaxCalls = 1
    MaxEvents = 1
    MaxMisreplies = 0
CHECK_DEADLOCK FALSE
INVARIANTS
    NoUseAfterFree
