CONSTANTS
    Names <- MCNames
    UNKNOWN = "unknown"
    Texts = {}
    SEND_FAILS = FALSE
    Inputs = {}
    s_MAX_MSG_SIZE = 7
    Tests <- MCTests
    JITTER = 40
    STARTUP = 150
    QUEUE_LIMIT = 3
    CLIENT_HANGS = TRUE
SPECIFICATION TestsSpec
INVARIANTS
    AllTestsPass
    NoUnreadError
PROPERTY
    FinishesOrBlocks
CHECK_DEADLOCK FALSE
