CONSTANTS
    alice = alice
    text = text
    Names = {alice}
    UNKNOWN = alice
    Texts = {text}
    SEND_FAILS = TRUE
    Inputs <- MCInputs
    s_MAX_MSG_SIZE = 2
    Sizes <- MCSizes
    MAX_SENT = 3
SPECIFICATION SessionSpec
INVARIANT
    BufferBound
PROPERTIES
    InOrder
    EverythingHandled
    ReplyEnds
\* The program ends.
CHECK_DEADLOCK FALSE
