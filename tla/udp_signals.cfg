CONSTANTS
    ID_SPACE = 4
    MAX_RETRANS = 1
    CONFIRM_TIMEOUT = 250
    welcome = welcome
    alice = alice
    Addrs = {welcome}
    SERVER_ADDR = welcome
    Names = {alice}
    UNKNOWN = alice
    SEND_FAILS = FALSE
    Inputs <- MCInputs
    MAX_SIGNALS = 2
SPECIFICATION InterruptSpec
INVARIANT
    AwakeBetweenHandlers
\* The program ends.
CHECK_DEADLOCK FALSE
