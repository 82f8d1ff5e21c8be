SPECIFICATION FairSpec
CONSTANTS
    Requests = {r1}
    Tabs = {t1, t2}
    Modes = {"planning", "auto"}
    Kinds = {"permission", "plan", "question"}
    MaxGens = 2
    MaxClicks = 2
    MaxRestarts = 1
    None = None
INVARIANTS
    TypeOK
    WaitingIsOnTheClock
    CardTellsTheAnswer
PROPERTIES
    KeepsVerdicts
    EveryRequestSettles
CHECK_DEADLOCK FALSE
