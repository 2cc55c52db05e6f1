\* One server, two session timeouts, two requests: answers, pings and a connection that dies.
CONSTANTS
    Timeouts = {18, 21}
    AddrsCount = 1
    MaxDelay = 1
    MaxLag = 1
    MaxRequests = 2
SPECIFICATION FairSpec
INVARIANTS
    ConnectedWithinSession
    PromptServerIsKept
PROPERTY
    DeadLinkIsLeft
CHECK_DEADLOCK FALSE
