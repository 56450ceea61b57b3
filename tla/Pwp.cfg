SPECIFICATION Spec
CONSTANTS
    Peers = {"a", "b"}
    Pieces = {0}
    PieceLen = 3
    Completed <- Seeds
    Blocks <- Asked
    Pipeline = 2
    ReqTimeout = 1
    MaxWire = 2
    MaxReqs = 1
    MaxCalls = 2
    MsgNumPieces = 10
    MsgStreams <- Streams
    HsNames <- Names
    PROTOCOL_NAME <- Name
    HsHashes <- Hashes
    expected_ih <- Hash
    HsTrailing <- Trailing
    WordBits = 4
    StreamWords = 3
INVARIANTS
    RequestsSettled  ChokesRespected  
CHECK_DEADLOCK FALSE
