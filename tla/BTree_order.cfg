SPECIFICATION BTreeSpec
CONSTANTS
    Keys = {1, 2, 3, 4, 5, 6}
    MallocFails = FALSE
    Nil = Nil
    BTreeKeys = {1, 2, 3, 4, 5, 6}
    Ascending = FALSE
INVARIANTS
    BTreeKeeps
CHECK_DEADLOCK FALSE
