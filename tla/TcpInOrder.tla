----------------------------- MODULE TcpInOrder -----------------------------
(***************************************************************************)
(* What the TCP client promises: it behaves as if the server handed it     *)
(* whole messages, one at a time, in the order they were sent.             *)
(***************************************************************************)
EXTENDS TcpClient

VARIABLE inbox     \* messages that were sent and not handled yet, with their sizes

CONSTANTS
    LIMIT,         \* size of the longest message that is accepted
    Sizes          \* sizes of the messages the server sends

inOrderVars == <<vars, inbox>>

InOrderInit == Init /\ inbox = << >>

serverSends ==
    /\ \E m \in Inputs, size \in Sizes : inbox' = Append(inbox, [msg |-> m, size |-> size])
    /\ UNCHANGED vars

\* The oldest message is handled or, if it is too long, ends the client.
clientHandles ==
    /\ status = CONTINUE /\ inbox # << >>
    /\ IF Head(inbox).size > LIMIT THEN tooLong ELSE processMessageFromServer(Head(inbox).msg)
    /\ inbox' = IF status' = CONTINUE THEN Tail(inbox) ELSE inbox

\* The server's close is seen only when every message has been handled; a broken
\* connection may be seen at any time.
connectionEnds ==
    /\ status = CONTINUE
    /\ (inbox = << >> /\ connectionClosed) \/ recvFails
    /\ UNCHANGED inbox

otherEvents == localEvent /\ UNCHANGED inbox

InOrderNext == serverSends \/ clientHandles \/ connectionEnds \/ otherEvents

InOrderSpec == InOrderInit /\ [][InOrderNext]_inOrderVars
=============================================================================
