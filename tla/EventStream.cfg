SPECIFICATION FairSpec
CONSTANTS
    Clients = {c1}
    MaxEvents = 3
    Limit = 2
    MaxDrops = 2
INVARIANTS
    TypeOK
    LogGapFree
    NoDuplicates
    ShownIsCommitted
    ResumePointIsNewest
    NoLossWhileConnected
PROPERTIES
    KeepsFeed
    EventuallyCaughtUp
CHECK_DEADLOCK FALSE
