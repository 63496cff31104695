SPECIFICATION SetSpec
CONSTANTS
    Keys = {1, 2, 3, 4, 5, 6}
    MallocFails = FALSE
    Nil = Nil
    Others = {}
    Dangling = Dangling
INVARIANT Balanced
CHECK_DEADLOCK FALSE
