CONSTANTS
    Clients = {k1}
    Links <- Publish
    Signals = FALSE
    None = None
    MaxQueue = 0
SPECIFICATION FairSpec
PROPERTIES
    TerminateWaitsForClose
CHECK_DEADLOCK FALSE
