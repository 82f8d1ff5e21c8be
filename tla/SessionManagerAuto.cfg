SPECIFICATION Spec
CONSTANTS
    Sessions = {s1, s2}
    Conns = {c1, c2, c3}
    Modes = {"interactive", "auto"}
    MaxLive = 1
    MaxPatches = 1
    MaxDeletes = 0
    None = None
PROPERTIES
    AutoNeverEvicted
CHECK_DEADLOCK FALSE
