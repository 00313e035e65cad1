CONSTANTS
    Types <- MCTypes
    Prefixes <- MCPrefixes
    Clients = {c1, c2}
    Hwm = 3
    MaxOps = 2
    MaxPublish = 2
SYMMETRY Symmetry
SPECIFICATION Spec
INVARIANTS
    AgreedOrder
    PublisherOrder
    Accounted
    MirrorChain
PROPERTIES
    ImplementsBroadcast
CHECK_DEADLOCK FALSE
