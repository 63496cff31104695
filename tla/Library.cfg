SPECIFICATION LibrarySpec
CONSTANTS
    Keys = {1, 2, 3, 4, 5, 6, 7, 8, 9}
    MallocFails = FALSE
    Nil = Nil
    Others <- MCOthers
    Dangling = Dangling
    BTreeKeys = {1, 2, 3, 4, 5, 6, 7, 8, 9, 10, 11, 12}
    Ascending = TRUE
    Values = {v1, v2}
    Junk = Junk
    ElemStep = 3
    MaxLength = 6
    Bytes = {1, 2}
    Zero = 0
    Lengths = {0, 1, 3}
    Capacity = 4
    UintMod = 16
    MaxSize = 7
    Items = {1, 2, 3}
    MaxItems = 4
    Maxhashv = 2
    Letters = {1, 2}
    Payloads = {7, 8}
    Large = {8}
    Inline = 0
    MaxKeyLen = 2
    MaxStored = 2
    Tags = {7, 8}
    MaxNested = 5
    MaxDepth = 3
INVARIANTS
    SetFound Threaded HeightsExact Algebra
    BTreeFound BTreeIterates BTreeEven
    VectorIntact StringIntact ListIntact ListInv CopyIntact MapFound MapInv TrieFound TrieInv RoundTrip
PROPERTY IteratorsSurvive
CHECK_DEADLOCK FALSE
