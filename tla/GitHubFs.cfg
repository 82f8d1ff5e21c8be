SPECIFICATION Spec
CONSTANTS
    a = a
    r = r
    d = d
    Files = {a, r}
    Dirs = {d}
    DirOf <- InDirectory
    Reserved = {r}
    Chunks = {x, y}
    Base = main
    Branches = {main, feature}
    Ops = {o1}
    Flushes = {u1, u2}
    MaxEdits = 2
    MaxFlushes = 2
    MaxPushes = 1
    Deleted = Deleted
    None = None
SYMMETRY Symmetry
INVARIANTS
    TypeOK
    EditsKeptUnlessRaced
PROPERTIES
    ReservedStaysHome
    PushesSurvive
CHECK_DEADLOCK FALSE
