SPECIFICATION SetSpec
CONSTANTS
    Keys = {1, 2, 3, 4}
    MallocFails = TRUE
    Nil = Nil
    Others = {}
    Dangling = Dangling
INVARIANT SetFound
CHECK_DEADLOCK FALSE
