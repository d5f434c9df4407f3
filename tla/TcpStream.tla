----------------------------- MODULE TcpStream -----------------------------
(***************************************************************************)
(* TcpClient with the buffer m_msg_from_server in which messages are put   *)
(* together: Tcp_client::processSocketEvent.                               *)
(*                                                                         *)
(* The stream is a sequence of bytes; of a byte the model keeps the        *)
(* message it belongs to and whether it is the last one, the LF of the     *)
(* CRLF.  recv() returns any number of them up to s_MAX_MSG_SIZE + 1.      *)
(*                                                                         *)
(* One step is one iteration of the while loop of the handler.  Between    *)
(* them ("in_handler") no other event is handled, but SIGINT may come.     *)
(***************************************************************************)
EXTENDS TcpClient

CONSTANT s_MAX_MSG_SIZE     \* 60035 in the code

ASSUME SizeAssumption == s_MAX_MSG_SIZE \in Nat \ {0}

VARIABLES
    m_msg_from_server,      \* the buffer
    in_handler              \* is processSocketEvent() in its loop?

buffer == <<m_msg_from_server, in_handler>>
streamVars == <<vars, buffer>>

Byte == [msg : Inputs, last : BOOLEAN]

StreamInit == Init /\ m_msg_from_server = << >> /\ in_handler = FALSE

\* m_msg_from_server.find(s_END_OF_MESSAGE)
ends == {i \in DOMAIN m_msg_from_server : m_msg_from_server[i].last}
isFirst(i) == \A j \in ends : i <= j

\* What recv() returned is appended to the buffer.
receiveSegment(segment) ==
    /\ status = CONTINUE /\ ~in_handler
    /\ Len(segment) \in 1 .. (s_MAX_MSG_SIZE + 1)
    /\ m_msg_from_server' = m_msg_from_server \o segment
    /\ in_handler' = TRUE
    /\ UNCHANGED vars

\* single_msg is too long, or it is processed.
handleMessage(size) ==
    \/ size > s_MAX_MSG_SIZE /\ tooLong
    \/ size <= s_MAX_MSG_SIZE /\ processMessageFromServer(m_msg_from_server[size].msg)

\* The buffer after erase(0, i - 1).
bufferFrom(i) == SubSeq(m_msg_from_server, i, Len(m_msg_from_server))

\* Fault: one message per event of the socket, "if" for "while".
processFirstMessageOnly ==
    /\ status = CONTINUE /\ in_handler
    /\ \E i \in ends :
           /\ isFirst(i)
           /\ handleMessage(i)
           /\ m_msg_from_server' = IF status' = CONTINUE THEN bufferFrom(i + 1) ELSE m_msg_from_server
    /\ in_handler' = FALSE

\* The first complete message is checked, handled and erased.
processFirstMessage ==
    /\ status = CONTINUE /\ in_handler
    /\ \E i \in ends :
           /\ isFirst(i)
           /\ handleMessage(i)
           /\ m_msg_from_server' = IF status' = CONTINUE THEN bufferFrom(i + 1) ELSE m_msg_from_server
    /\ UNCHANGED in_handler

\* Fault: the limit for an incomplete message is one byte too small.
keepRestShort ==
    /\ status = CONTINUE /\ in_handler
    /\ ends = {}
    /\ \/ Len(m_msg_from_server) >= s_MAX_MSG_SIZE - 1 /\ tooLong
       \/ Len(m_msg_from_server) < s_MAX_MSG_SIZE - 1 /\ UNCHANGED vars
    /\ in_handler' = FALSE
    /\ UNCHANGED m_msg_from_server

\* Fault: an incomplete message may be of any length.
keepRestUnlimited ==
    /\ status = CONTINUE /\ in_handler
    /\ ends = {}
    /\ in_handler' = FALSE
    /\ UNCHANGED <<vars, m_msg_from_server>>

\* No complete message is left: the rest stays, unless it is too long already.
keepRest ==
    /\ status = CONTINUE /\ in_handler
    /\ ends = {}
    /\ \/ Len(m_msg_from_server) >= s_MAX_MSG_SIZE /\ tooLong
       \/ Len(m_msg_from_server) < s_MAX_MSG_SIZE /\ UNCHANGED vars
    /\ in_handler' = FALSE
    /\ UNCHANGED m_msg_from_server

\* recv() returns 0 or -1.
receiveNothing ==
    /\ status = CONTINUE /\ ~in_handler
    /\ connectionClosed \/ recvFails
    /\ UNCHANGED buffer

\* The handlers of the other events run between two calls of processSocketEvent().
betweenHandlers(event) == ~in_handler /\ event /\ UNCHANGED buffer

StreamNext ==
    \/ \E segment \in Seq(Byte) : receiveSegment(segment)
    \/ processFirstMessage
    \/ keepRest
    \/ receiveNothing
    \/ betweenHandlers(processTimerEvent)
    \/ betweenHandlers(processUserInput)
    \/ betweenHandlers(processStdinHangup)
    \/ betweenHandlers(processStdinError)
    \/ sigintHandler /\ UNCHANGED buffer

StreamSpec == StreamInit /\ [][StreamNext]_streamVars

-----------------------------------------------------------------------------
(* Properties.                                                               *)

\* The buffer is bounded whatever the server sends, a message without an end
\* included: what is kept for the next recv() is shorter than the longest message.
BufferBound ==
    /\ Len(m_msg_from_server) <= 2 * s_MAX_MSG_SIZE
    /\ running /\ ~in_handler => Len(m_msg_from_server) < s_MAX_MSG_SIZE
=============================================================================
