CONSTANTS
    ID_SPACE = 4
    MAX_RETRANS = 1
    CONFIRM_TIMEOUT = 250
    welcome = welcome
    dynamic = dynamic
    unknown = unknown
    alice = alice
    Addrs <- MCAddrs
    SERVER_ADDR = welcome
    SESSION_ADDR = dynamic
    Names <- MCNames
    UNKNOWN = unknown
    SEND_FAILS = TRUE
    Inputs <- MCInputs
    REPLY_DUPLICATES = FALSE
    STDIN_IS_PIPE = TRUE
    WRAP_IDS = FALSE
    MAX_INPUT_ID = 3
    MAX_INTERRUPTS = 1
    MAX_SERVER_IDS = 3
SPECIFICATION SafetySpec
INVARIANTS
    SingleInput
    SignedIn
    CleanExit
    FullBudget
    ReplyRecognised
PROPERTIES
    SignedInAsNamed
    DeliveredInOrder
    DuplicateIsConfirmed
CHECK_DEADLOCK FALSE
