CONSTANTS
    None = None
    MaxCalls = 4
SPECIFICATION Spec
INVARIANTS
    WholeMessages
    MixedOnlyAfterFailure
    InStep
CHECK_DEADLOCK FALSE
