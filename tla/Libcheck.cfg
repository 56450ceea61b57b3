SPECIFICATION Spec
CONSTANTS
    CkTests = 2
    CkSignals = {0, 9, 11}
    CkExits = {0, 1, 3}
    CkMaxMsgs = 8
    CK_MAX_MSG_SIZE = 7
    PackMessages = 5
    LstVals = {1, 2}
    LstMax = 5
INVARIANTS
    CkTestsSettled ReadInOrder LstHolds
PROPERTIES
    CkTestEnds
CHECK_DEADLOCK FALSE
