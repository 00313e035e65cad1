CONSTANTS
    Objects = {m1, m2}
    Main = Main
    Ids = {i1, i2}
    MainId = MainId
    None = None
    Careful = TRUE
SPECIFICATION FairSpec
INVARIANTS
    TypeOK
    FoundIsOwnOrDead
    SafeWhenCareful
    OneLateRun
PROPERTIES
    ExitEnds
    BeginRuns
CHECK_DEADLOCK FALSE
