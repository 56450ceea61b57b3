SPECIFICATION Spec
CONSTANTS
    CbufOrder = 2
    CbufBytes = {1, 2}
    BipSize = 4
    BipBytes = {1, 2}
    QueueNodes = 4
    QueueItems = {1, 2, 3}
    HeapCapacity = 3
    HeapMaxSize = 6
    HeapItems = {1, 2, 3}
    ChunkyMax = 6
    ListCapacity = 2
    ListMaxIndex = 4
    ListItems = {1, 2}
    LogCapacity = 3
    LogIds = {0, 1, 2}
    LogMaxBase = 3
    LlmapCapacity = 4
    LlmapMaxSize = 8
    LlmapKeys = {1, 2, 9, 17}
    LlmapVals = {1, 2}
    QmapCapacity = 4
    QmapMaxSize = 8
    QmapMaxDeficit = 0
    QmapKeys = {1, 5, 9}
    QmapVals = {1, 2}
    AvlSize = 40
    AvlKeys = {1, 2, 3, 4, 5, 6, 7}
    AvlVals = {1}
    SplayKeys = {1, 2, 3, 4, 5}
    SplayVals = {1, 2}
    AtlasWidth = 3
    AtlasMaxPush = 5
    BencodeDepth = 2
    BencodeTokens = 5
    BencodeInts <- Ints
    BencodeStrs <- Strs
INVARIANTS
    QueuesInOrder    
CHECK_DEADLOCK FALSE
