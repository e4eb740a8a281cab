CONSTANTS
    Args <- MCArgs
    MaxDevs = 2
    MaxConns = 2
    MaxIds = 2
    MaxCount = 3
    MaxLen = 2
    MaxTimeout = 3
    Bufs = {b1, b2, b3}
    BufLens = {2}
    SizeMod = 16
    MAX_CMSG_BUF_SIZE = 4
    ShortMod = 16
    FieldN = 4
    FieldMax = 3
    ArgN = 3
    LenMax = 3
    FeedMax = 5
    Requests = 5
    IMax = 27
    DigitMax = 1
    ZigZagMax = 9
    StringMax = 5
    AtoiLen = 4
SPECIFICATION RSpec
SYMMETRY AnyElements
INVARIANTS
    TransferIsExact
    ListsAreSound
    MessagesAreUnderstood
    RequestsAreAnswered
    RightAnswers
    NoRequestLost
    Reregisters
    ConnectionsAreListed
PROPERTIES
    RequestsEnd
\* The functions return, and 'q' ends the agent.
CHECK_DEADLOCK FALSE
