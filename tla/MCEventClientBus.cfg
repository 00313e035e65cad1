CONSTANTS
    Types <- MCTypes
    Prefixes <- MCPrefixes
    Targets = {o1, o2}
    End = End
    MaxInserts = 3
    MaxDepth = 2
SYMMETRY Symmetry
SPECIFICATION Spec
INVARIANT
    BusCallsSubscribersOnly
