CONSTANTS
    ID_SPACE = 2
    MAX_RETRANS = 1
    CONFIRM_TIMEOUT = 250
    welcome = welcome
    fresh = fresh
    unknown = unknown
    alice = alice
    Addrs <- MCAddrs
    SERVER_ADDR = welcome
    Names <- MCNames
    UNKNOWN = unknown
    SEND_FAILS = TRUE
    Inputs <- MCInputs
SPECIFICATION Spec
INVARIANTS
    TypeOK
    NeverStalled
    TimerHasPurpose
    ClosingIsFinal
    DisplayedOnce
    JoinAwaitsReply
    RetransmissionBound
PROPERTY
    QuietAfterClosing
CHECK_DEADLOCK FALSE
