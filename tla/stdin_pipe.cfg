CONSTANTS
    unknown = unknown
    alice = alice
    text = text
    Names = {unknown, alice}
    UNKNOWN = unknown
    Texts = {text}
    SEND_FAILS = TRUE
    Inputs <- MCInputs
    IS_TTY = FALSE
    Lines = {"AUTH", "JOIN", "MSG", "RENAME", "HELP"}
    MAX_LINES = 4
SPECIFICATION StdinSpec
PROPERTY
    EveryLineHandled
\* The program ends.
CHECK_DEADLOCK FALSE
