CONSTANTS
    ID_SPACE = 8
    MAX_RETRANS = 3
    CONFIRM_TIMEOUT = 250
    given = given
    Addrs <- MCAddrs
    SERVER_ADDR = given
    Names <- MCNames
    UNKNOWN = "unknown"
    SEND_FAILS = FALSE
    Inputs = {}
    Tests <- MCAllTests
    JITTER = 40
    STARTUP = 150
    QUEUE_LIMIT = 3
    CLIENT_HANGS = TRUE
SPECIFICATION TestsSpec
INVARIANTS
    AllTestsPass
    NoUnreadError
    OneLineAtATime
    ConfirmedInTime
PROPERTY
    TestsFinish
CHECK_DEADLOCK FALSE
