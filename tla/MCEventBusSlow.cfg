CONSTANTS
    Types <- OneType
    Prefixes <- OnePrefix
    Clients = {c1, c2}
    Hwm = 3
    MaxOps = 1
    MaxPublish = 4
SPECIFICATION FairSpec
INVARIANT
    QueuesBounded
PROPERTIES
    DropsOnlyWhenBehind
    EventuallyAccounted
    EventuallyMirrored
CHECK_DEADLOCK FALSE
