\* A path and a watcher, two requests, three changes of the tree and a lost connection.
SPECIFICATION FairSpec
CONSTANTS
    Paths = {p1}
    Watchers = {w1}
    MaxRequests = 2
    MaxChanges = 3
    MaxFaults = 1
INVARIANTS
    WatchesFireOnce
    EventsAreNews
    NoWatchLost
PROPERTY
    ChangesAreTold
CHECK_DEADLOCK FALSE
