CONSTANTS
    Clients = {k1, k2}
    Links <- Subscribe
    Signals = FALSE
    None = None
    MaxQueue = 0
SPECIFICATION Spec
INVARIANTS
    AssertionsHold
    NoCommandToTheDead
    NothingNamesTheDead
    OutpipeLive
SYMMETRY Symmetry
CHECK_DEADLOCK FALSE
