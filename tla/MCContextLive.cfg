CONSTANTS
    Clients = {k1}
    Links <- Publish
    Signals = TRUE
    None = None
    MaxQueue = 2
SPECIFICATION FairSpec
INVARIANTS
    ReadBeforeGone
PROPERTIES
    ClosedClientsGo
    TerminateReturns
CHECK_DEADLOCK FALSE
