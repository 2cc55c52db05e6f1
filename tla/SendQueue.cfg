\* Frames of one and two bytes, three of the client and one of the server, and a lost connection.
CONSTANTS
    Lengths = {1, 2}
    PrimerLength = 1
    MaxFrames = 3
    MaxServed = 1
    MaxLosses = 1
SPECIFICATION Spec
INVARIANTS
    WireIsFramed
    RequestsKeepOrder
    InputIsFramed
CHECK_DEADLOCK FALSE
