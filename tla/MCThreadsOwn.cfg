CONSTANTS
    Objects = {m1, m2}
    Main = Main
    Ids = {i1, i2}
    MainId = MainId
    None = None
    Careful = TRUE
SYMMETRY Symmetry
SPECIFICATION Spec
INVARIANT
    FoundIsOwn
CHECK_DEADLOCK FALSE
