\* Two threads, a good and a bad credential, a request and two faults.
SPECIFICATION FairSpec
CONSTANTS
    Callers = {t1, t2}
    Credentials = {c1, c2}
    Rejected = {c2}
    CallbackCalls = FALSE
    MaxRequests = 1
    MaxFaults = 2
INVARIANTS
    CompletionsCalledOnce
    RequestsCarryCredentials
PROPERTIES
    AuthFailureIsFinal
    AuthFailureIsReported
    CompletionsAreCalled
CHECK_DEADLOCK FALSE
