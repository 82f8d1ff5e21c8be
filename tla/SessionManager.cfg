SPECIFICATION FairSpec
CONSTANTS
    Sessions = {s1, s2}
    Conns = {c1, c2}
    Modes = {"interactive", "auto"}
    MaxLive = 1
    MaxPatches = 1
    MaxDeletes = 1
    None = None
INVARIANTS
    TypeOK
    AttachedHasRuntime
    FanOutReachesUnlessRaced
    IdleHasTimer
PROPERTIES
    IdleIsFreed
CHECK_DEADLOCK FALSE
