CONSTANTS
    unknown = unknown
    alice = alice
    text = text
    Names = {unknown, alice}
    UNKNOWN = unknown
    Texts = {text}
    SEND_FAILS = TRUE
    Inputs <- MCInputs
    IS_TTY = TRUE
    Lines = {"AUTH", "JOIN", "MSG", "RENAME", "HELP", "EOF"}
    MAX_LINES = 4
SPECIFICATION StdinSpec
INVARIANTS
    TimerMeansReply
    ReplyStates
    NothingLost
PROPERTIES
    OpensByReply
    EveryLineHandled
\* The program ends.
CHECK_DEADLOCK FALSE
