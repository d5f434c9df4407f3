----------------------------- MODULE TcpSession -----------------------------
(***************************************************************************)
(* TcpStream connected to a server that writes any messages of Inputs, of  *)
(* any of the sizes in Sizes, and may close the connection.  TCP hands the *)
(* bytes over in order, in segments of its own choosing.                   *)
(***************************************************************************)
EXTENDS TcpStream

CONSTANTS
    Sizes,        \* sizes of the messages the server writes
    MAX_SENT      \* bound: messages the server writes

ASSUME SessionAssumption == Sizes \subseteq Nat \ {0} /\ MAX_SENT \in Nat

VARIABLES
    wire,         \* bytes on the way to the client
    written,      \* messages the server has written
    closed,       \* has the server closed the connection?
    pending       \* history: messages written and not handled yet, with their sizes

network == <<wire, written, closed, pending>>
sessionVars == <<streamVars, network>>

SessionInit == StreamInit /\ wire = << >> /\ written = 0 /\ closed = FALSE /\ pending = << >>

\* What the server does after the client has ended is of no interest.
serverWrites(m, size) ==
    /\ status = CONTINUE /\ ~closed /\ written < MAX_SENT
    /\ wire' = wire \o [i \in 1 .. size |-> [msg |-> m, last |-> i = size]]
    /\ written' = written + 1
    /\ pending' = Append(pending, [msg |-> m, size |-> size])
    /\ UNCHANGED <<streamVars, closed>>

serverCloses ==
    /\ status = CONTINUE /\ ~closed
    /\ closed' = TRUE
    /\ UNCHANGED <<streamVars, wire, written, pending>>

\* recv() takes a part of what has arrived.
deliver(n) ==
    /\ receiveSegment(SubSeq(wire, 1, n))
    /\ wire' = SubSeq(wire, n + 1, Len(wire))
    /\ UNCHANGED <<written, closed, pending>>

\* The end of the stream comes after its bytes, a reset may overtake them.
connectionLost ==
    /\ status = CONTINUE /\ ~in_handler
    /\ (closed /\ wire = << >> /\ connectionClosed) \/ (SEND_FAILS /\ recvFails)
    /\ UNCHANGED <<buffer, network>>

inLoop ==
    /\ processFirstMessage \/ keepRest
    /\ pending' = IF UNCHANGED m_msg_from_server THEN pending ELSE Tail(pending)
    /\ UNCHANGED <<wire, written, closed>>

local(event) == betweenHandlers(event) /\ UNCHANGED network

SessionNext ==
    \/ \E m \in Inputs, size \in Sizes : serverWrites(m, size)
    \/ serverCloses
    \/ \E n \in 1 .. Len(wire) : deliver(n)
    \/ inLoop
    \/ connectionLost
    \/ local(processTimerEvent)
    \/ local(processUserInput)
    \/ local(processStdinHangup)
    \/ local(processStdinError)
    \/ sigintHandler /\ UNCHANGED <<buffer, network>>

\* epoll reports a readable socket and an expired timer until they are handled.
SessionSpec ==
    /\ SessionInit /\ [][SessionNext]_sessionVars
    /\ WF_sessionVars(\E n \in 1 .. Len(wire) : deliver(n))
    /\ WF_sessionVars(inLoop)
    /\ WF_sessionVars(local(processTimerEvent))

-----------------------------------------------------------------------------
(* Properties.                                                               *)

Abstract == INSTANCE TcpInOrder WITH inbox <- pending, LIMIT <- s_MAX_MSG_SIZE

\* However TCP cuts the stream, the client does what it would do if it were handed
\* whole messages one by one: none is lost, repeated, reordered, cut or refused for
\* another reason than its own size.
InOrder == Abstract!InOrderSpec

\* Every message is handled in the end, also the ones that came in one segment with
\* others and after which the server is silent.
EverythingHandled == pending # << >> ~> pending = << >> \/ ~running

\* A request is answered, or the client gives up after s_MAX_REPLY_WAIT_TIME,
\* whatever else the server sends meanwhile.
ReplyEnds == m_is_waiting_for_reply ~> ~m_is_waiting_for_reply \/ ~running
=============================================================================
