\* A completion that calls the API, and one fault.
SPECIFICATION Spec
CONSTANTS
    Callers = {t1}
    Credentials = {c1, c2}
    Rejected = {}
    CallbackCalls = TRUE
    MaxRequests = 0
    MaxFaults = 1
INVARIANT
    NoSelfDeadlock
SYMMETRY Symmetry
CHECK_DEADLOCK FALSE
