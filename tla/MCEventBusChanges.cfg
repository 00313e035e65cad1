CONSTANTS
    Types <- OneType
    Prefixes <- OnePrefix
    Clients = {c1, c2}
    Hwm = 2
    MaxOps = 5
    MaxPublish = 0
SPECIFICATION FairSpec
INVARIANTS
    TypeOK
    MirrorChain
PROPERTIES
    EventuallyMirrored
CHECK_DEADLOCK FALSE
