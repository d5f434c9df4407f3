---------------------------- MODULE MCTcpSession ----------------------------
(* TcpSession with messages of one byte, of the largest size and longer.    *)
EXTENDS TcpSession

CONSTANTS alice, text

MCSizes == {1, s_MAX_MSG_SIZE, s_MAX_MSG_SIZE + 2}

\* A REPLY, a MSG, and something that is no message of the protocol.
MCInputs ==
    {[type |-> type, ok |-> TRUE, valid |-> type # "UNKNOWN", name |-> alice, text |-> text] :
        type \in {"REPLY", "MSG", "UNKNOWN"}}
=============================================================================
