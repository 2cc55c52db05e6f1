\* One call at a time: every operation on the paths, chroots, identifiers and payloads of MCClientApi.
CONSTANTS
    NULL = NULL
    NoPath = NoPath
    GARBAGE = GARBAGE
    InitialLength = 8
    Calls <- MCCalls
    Chroots <- MCChroots
    Xids <- MCXids
    XidBits = 5
    Now = 3
    Stored <- MCStored
    GetRoom = 4
    SeqDigits = 2
    Variants = 4
SPECIFICATION Spec
INVARIANTS
    CallReachesServer
    AnswerReachesCaller
    RecordsSurvive
CHECK_DEADLOCK FALSE
