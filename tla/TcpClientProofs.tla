-------------------------- MODULE TcpClientProofs --------------------------
(***************************************************************************)
(* What TLAPS proves about the TCP client, for every set of names, texts   *)
(* and messages and every size limit:                                      *)
(*                                                                         *)
(*   - IInv is an inductive invariant of TcpClient, hence TimerMeansReply  *)
(*     and ReplyStates hold;                                               *)
(*   - the session is opened by an awaited REPLY only (OpensByReply);      *)
(*   - TcpStream implements TcpClient: however recv() cuts the stream, the *)
(*     client does nothing that the message-at-a-time client cannot do.    *)
(***************************************************************************)
EXTENDS TcpStream, TLAPS

Line == Names \cup Texts \cup Labels

\* The lines that are printed are sequences of parts.
LEMMA LineTypes ==
    /\ << >> \in Seq(Line)
    /\ \A a \in Line : <<a>> \in Seq(Line)
    /\ \A a, b \in Line : <<a, b>> \in Seq(Line)
    /\ \A a, b, c \in Line : <<a, b, c>> \in Seq(Line)
  OBVIOUS

\* The parts of the messages the server may send have their types.
LEMMA InputTypes ==
    ASSUME NEW m \in Inputs
    PROVE  /\ m.type \in ServerMsgType /\ m.ok \in BOOLEAN /\ m.valid \in BOOLEAN
           /\ m.name \in Names /\ m.text \in Texts
  BY ConstantsAssumption DEF Message

\* Nothing is sent or printed at the start.
LEMMA InitInv == Init => IInv
  <1> SUFFICES ASSUME Init PROVE IInv
    OBVIOUS
  <1>1. TypeOK
    BY ConstantsAssumption, LineTypes
    DEF Init, TypeOK, Nothing, NoOutput, CONTINUE, FSM_state, ClientMsgType, Line, REPLY_TIMEOUT
  <1>2. TimerMeansReply /\ ReplyStates
    BY DEF Init, TimerMeansReply, ReplyStates
  <1> QED
    BY <1>1, <1>2 DEF IInv

\* A step that leaves the members alone, and ends the client or not.
LEMMA QuietStep ==
    ASSUME IInv, UNCHANGED members,
           status' \in {CONTINUE, EXIT_SUCCESS, EXIT_FAILURE, KILLED},
           sent'.type \in ClientMsgType \cup {"NONE"}, sent'.name \in Names,
           printed' \in Seq(Line)
    PROVE  IInv'
  BY DEF IInv, TypeOK, TimerMeansReply, ReplyStates, members, session, epoll, Line

\* The client ends, or goes on, without a word to the server.
LEMMA SilentStep ==
    ASSUME IInv, UNCHANGED members, sent' = Nothing, printed' \in Seq(Line),
           status' \in {CONTINUE, EXIT_SUCCESS, EXIT_FAILURE, KILLED}
    PROVE  IInv'
  <1>1. sent'.type = "NONE" /\ sent'.name \in Names
    BY ConstantsAssumption DEF Nothing
  <1> QED
    BY <1>1, QuietStep

\* The message cannot be sent, and the client ends.
sendFails ==
    /\ \/ status' = EXIT_FAILURE /\ printed' = <<"ERROR", "send">>
       \/ status' = KILLED /\ printed' = NoOutput
    /\ sent' = Nothing /\ UNCHANGED members

LEMMA SendFailsStep == IInv /\ sendFails => IInv'
  <1> "ERROR" \in Line /\ "send" \in Line
    BY DEF Line, Labels, Reasons
  <1>1. sendFails => printed' \in Seq(Line)
    BY LineTypes DEF sendFails, NoOutput
  <1> QED
    BY <1>1, SilentStep DEF sendFails

\* The client reports an error to the server and ends.
LEMMA ErrStep ==
    ASSUME IInv, NEW text \in Reasons, sendErrMsgAndTerminate(text)
    PROVE  IInv'
  <1> USE DEF EXIT_SUCCESS, EXIT_FAILURE, CONTINUE, KILLED
  <1> m_user_display_name \in Names
    BY DEF IInv, TypeOK
  <1>1. CASE /\ sent' = [type |-> "ERR", name |-> m_user_display_name, text |-> text]
             /\ status' = EXIT_FAILURE
             /\ printed' = <<"ERROR", text>> /\ UNCHANGED members
    <2>1. sent'.type = "ERR" /\ sent'.name \in Names
      BY <1>1
    <2> "ERROR" \in Line /\ text \in Line
      BY DEF Line, Labels, Reasons
    <2>2. printed' \in Seq(Line)
      BY <1>1, LineTypes
    <2> QED
      BY <1>1, <2>1, <2>2, QuietStep DEF ClientMsgType
  <1>2. CASE sendFails
    BY <1>2, SendFailsStep
  <1> QED
    BY <1>1, <1>2 DEF sendErrMsgAndTerminate, sendMsgToServer, sendFails

\* The client says BYE and ends.
LEMMA ByeStep ==
    ASSUME IInv, NEW outcomes \in SUBSET {EXIT_SUCCESS, KILLED}, sendByeMsgAndTerminate(outcomes)
    PROVE  IInv'
  <1> USE DEF EXIT_SUCCESS, EXIT_FAILURE, CONTINUE, KILLED
  <1> m_user_display_name \in Names
    BY DEF IInv, TypeOK
  <1>1. CASE /\ sent' = [type |-> "BYE", name |-> m_user_display_name, text |-> ""]
             /\ status' \in outcomes
             /\ printed' = NoOutput /\ UNCHANGED members
    <2>1. sent'.type = "BYE" /\ sent'.name \in Names
      BY <1>1
    <2>2. printed' \in Seq(Line)
      BY <1>1, LineTypes DEF NoOutput
    <2> QED
      BY <1>1, <2>1, <2>2, QuietStep DEF ClientMsgType
  <1>2. CASE sendFails
    BY <1>2, SendFailsStep
  <1> QED
    BY <1>1, <1>2 DEF sendByeMsgAndTerminate, sendMsgToServer, sendFails

\* An accepted REPLY stops the timer, unblocks the user and leaves S_JOIN.
LEMMA ReplyStep ==
    ASSUME IInv, status = CONTINUE, NEW m \in Inputs, m_is_waiting_for_reply, acceptReply(m)
    PROVE  IInv'
  <1> USE DEF CONTINUE
  <1>1. sent'.type = "NONE" /\ sent'.name \in Names
    BY ConstantsAssumption DEF acceptReply, Nothing
  <1>2. printed' \in Seq(Line)
    <2> "Success" \in Line /\ "Failure" \in Line /\ m.text \in Line
      BY InputTypes DEF Line, Labels
    <2> QED
      BY LineTypes DEF acceptReply
  <1>3. m_current_state' \in FSM_state /\ m_current_state' # "S_JOIN"
    BY DEF acceptReply, IInv, TypeOK, FSM_state
  <1>4. TypeOK'
    BY <1>1, <1>2, <1>3 DEF acceptReply, IInv, TypeOK, Line
  <1>5. TimerMeansReply' /\ ReplyStates'
    BY <1>1, <1>3 DEF acceptReply, TimerMeansReply, ReplyStates
  <1> QED
    BY <1>4, <1>5 DEF IInv

\* A handler that only prints a line.
LEMMA OutputStep ==
    ASSUME IInv, NEW line \in Seq(Line), outputOnly(line)
    PROVE  IInv'
  BY SilentStep DEF outputOnly, IInv, TypeOK

\* Every message of the server.
LEMMA MessageStep ==
    ASSUME IInv, status = CONTINUE, NEW m \in Inputs, processMessageFromServer(m)
    PROVE  IInv'
  <1> USE InputTypes DEF Reasons, EXIT_SUCCESS, EXIT_FAILURE, CONTINUE, KILLED
  <1> /\ m.name \in Line /\ m.text \in Line /\ "ERROR FROM" \in Line
    BY DEF Line, Labels, Reasons
  <1>1. CASE processServerReplyMsg(m)
    BY <1>1, ReplyStep, ErrStep DEF processServerReplyMsg
  <1>2. CASE processServerMsgMsg(m)
    <2>1. <<m.name, m.text>> \in Seq(Line)
      BY LineTypes
    <2> QED
      BY <1>2, <2>1, OutputStep, ErrStep DEF processServerMsgMsg
  <1>3. CASE processServerByeMsg(m)
    BY <1>3, LineTypes, SilentStep, ErrStep DEF processServerByeMsg, NoOutput
  <1>4. CASE processServerErrMsg(m)
    <2>1. <<"ERROR FROM", m.name, m.text>> \in Seq(Line)
      BY LineTypes
    <2> QED
      BY <1>4, <2>1, SilentStep, ErrStep DEF processServerErrMsg
  <1>5. CASE sendErrMsgAndTerminate("unknown type") \/ sendErrMsgAndTerminate("unexpected type")
    BY <1>5, ErrStep
  <1> QED
    BY <1>1, <1>2, <1>3, <1>4, <1>5 DEF processMessageFromServer

\* The socket: a message, the end of the connection or an error.
LEMMA ReceiveStep ==
    ASSUME IInv, receives
    PROVE  IInv'
  <1> USE DEF Reasons, EXIT_SUCCESS, EXIT_FAILURE, CONTINUE, KILLED
  <1>1. CASE connectionClosed
    BY <1>1, LineTypes, SilentStep DEF connectionClosed, NoOutput
  <1> QED
    BY <1>1, MessageStep, ErrStep DEF receives, tooLong, recvFails

\* A request of the user blocks standard input and starts the timer.
LEMMA RequestStep ==
    ASSUME IInv, status = CONTINUE, stdin_enabled,
           NEW type \in {"AUTH", "JOIN", "MSG"}, NEW name \in Names, NEW text \in Texts,
           userRequest(type, name, text)
    PROVE  IInv'
  <1> USE DEF CONTINUE, EXIT_FAILURE, KILLED
  <1>1. CASE sendFails
    BY <1>1, SendFailsStep
  <1>2. CASE /\ sent' = [type |-> type, name |-> name, text |-> text]
             /\ canSendMessageType(type)
             /\ m_user_display_name' = name
             /\ m_current_state' = IF type = "JOIN" THEN "S_JOIN"
                                   ELSE IF m_current_state = "S_START" THEN "S_AUTH"
                                   ELSE m_current_state
             /\ stdin_enabled' = IF type \in {"AUTH", "JOIN"} THEN FALSE ELSE stdin_enabled
             /\ timer' = IF type \in {"AUTH", "JOIN"} THEN REPLY_TIMEOUT ELSE timer
             /\ m_is_waiting_for_reply' = (type \in {"AUTH", "JOIN"} \/ m_is_waiting_for_reply)
             /\ printed' = NoOutput
             /\ UNCHANGED status
    <2>1. sent'.type = type /\ sent'.name = name
      BY <1>2
    <2>2. m_current_state \in FSM_state /\ timer \in {0, REPLY_TIMEOUT} /\ ~m_is_waiting_for_reply
      BY DEF IInv, TypeOK, TimerMeansReply
    <2>3. TypeOK'
      BY <1>2, <2>1, <2>2, LineTypes DEF TypeOK, FSM_state, ClientMsgType, NoOutput, Line
    <2>4. TimerMeansReply'
      <3>1. CASE type \in {"AUTH", "JOIN"}
        <4>1. timer' = REPLY_TIMEOUT /\ m_is_waiting_for_reply' = TRUE /\ stdin_enabled' = FALSE
          BY <1>2, <3>1
        <4> QED
          BY <4>1 DEF TimerMeansReply, REPLY_TIMEOUT
      <3>2. CASE type = "MSG"
        <4>1. /\ timer' = timer /\ m_is_waiting_for_reply' = m_is_waiting_for_reply
              /\ stdin_enabled' = stdin_enabled
          BY <1>2, <2>2, <3>2 DEF IInv, TypeOK
        <4> QED
          BY <4>1 DEF IInv, TimerMeansReply
      <3> QED
        BY <3>1, <3>2
    <2>5. ReplyStates'
      BY <1>2, <2>2 DEF IInv, ReplyStates, canSendMessageType, FSM_state
    <2> QED
      BY <2>3, <2>4, <2>5 DEF IInv
  <1> QED
    BY <1>1, <1>2 DEF userRequest, sendMsgToServer, sendFails

\* A new display name.
LEMMA RenameStep ==
    ASSUME IInv, status = CONTINUE, NEW name \in Names, userRename(name)
    PROVE  IInv'
  <1> USE DEF CONTINUE
  <1>1. sent'.type = "NONE" /\ sent'.name \in Names
    BY ConstantsAssumption DEF userRename, Nothing
  <1>2. TypeOK'
    BY <1>1, LineTypes DEF userRename, IInv, TypeOK, epoll, NoOutput, Line
  <1>3. TimerMeansReply' /\ ReplyStates'
    BY <1>1 DEF userRename, IInv, TimerMeansReply, ReplyStates, epoll
  <1> QED
    BY <1>2, <1>3 DEF IInv

\* The timer, the lines of the user and the signals.
LEMMA LocalStep ==
    ASSUME IInv, localEvent
    PROVE  IInv'
  <1> USE DEF Reasons, EXIT_SUCCESS, EXIT_FAILURE, CONTINUE, KILLED
  <1>1. /\ <<"ERROR", "timer">> \in Seq(Line) /\ <<"ERROR", "stdin">> \in Seq(Line)
        /\ <<"ERROR", "input">> \in Seq(Line) /\ <<"Supported commands">> \in Seq(Line)
    <2> /\ "ERROR" \in Line /\ "timer" \in Line /\ "stdin" \in Line
        /\ "input" \in Line /\ "Supported commands" \in Line
      BY DEF Line, Labels, Reasons
    <2> QED
      BY LineTypes
  <1>2. CASE processTimerEvent
    BY <1>1, <1>2, ErrStep, SilentStep DEF processTimerEvent
  <1>3. CASE processUserInput
    <2>1. CASE endOfFile
      BY <2>1, ByeStep DEF endOfFile
    <2>2. CASE userHelp \/ userRefused
      BY <1>1, <2>2, OutputStep DEF userHelp, userRefused
    <2> QED
      BY <1>3, <2>1, <2>2, RequestStep, RenameStep DEF processUserInput
  <1>4. CASE processStdinHangup
    BY <1>4, ByeStep DEF processStdinHangup
  <1>5. CASE processStdinError
    BY <1>1, <1>5, SilentStep DEF processStdinError
  <1>6. CASE sigintHandler
    BY <1>6, ByeStep DEF sigintHandler
  <1> QED
    BY <1>2, <1>3, <1>4, <1>5, <1>6 DEF localEvent

\* Nothing happens.
LEMMA StutterStep == IInv /\ UNCHANGED vars => IInv'
  BY DEF vars, members, session, epoll, IInv, TypeOK, TimerMeansReply, ReplyStates

\* IInv holds in every state of the client: the timer runs exactly while a REPLY is
\* awaited and the user is blocked, and S_JOIN is never left waiting for nothing.
THEOREM Invariance == Spec => []IInv
  <1>1. IInv /\ [Next]_vars => IInv'
    BY ReceiveStep, LocalStep, StutterStep DEF Next
  <1> QED
    BY InitInv, <1>1, PTL DEF Spec

\* processTimerEvent never finds that nothing was awaited, and no REPLY is awaited
\* without a timer or with standard input enabled.
THEOREM TimerCorrect == Spec => []TimerMeansReply
  <1>1. IInv => TimerMeansReply
    BY DEF IInv
  <1> QED
    BY Invariance, <1>1, PTL

\* S_JOIN always has a REPLY to wait for, also when the send() of the JOIN fails.
THEOREM ReplyStatesCorrect == Spec => []ReplyStates
  <1>1. IInv => ReplyStates
    BY DEF IInv
  <1> QED
    BY Invariance, <1>1, PTL

\* Only an accepted REPLY leads to S_OPEN, and only an awaited one is accepted.
LEMMA OpensStep ==
    ASSUME Next, m_current_state' = "S_OPEN", m_current_state # "S_OPEN"
    PROVE  m_is_waiting_for_reply /\ printed'[1] \in {"Success", "Failure"}
  <1>1. ~UNCHANGED members
    BY DEF members, session
  <1>2. ~sendErrMsgAndTerminate("unknown type") /\ ~sendErrMsgAndTerminate("unexpected type")
    BY <1>1 DEF sendErrMsgAndTerminate, sendMsgToServer
  <1>3. CASE receives
    <2>1. ~tooLong /\ ~recvFails /\ ~connectionClosed
      BY <1>1 DEF tooLong, recvFails, connectionClosed, sendErrMsgAndTerminate, sendMsgToServer
    <2>2. PICK m \in Inputs : processMessageFromServer(m)
      BY <1>3, <2>1 DEF receives
    <2>3. ~processServerByeMsg(m) /\ ~processServerErrMsg(m) /\ ~processServerMsgMsg(m)
      BY <1>1 DEF processServerByeMsg, processServerErrMsg, processServerMsgMsg, outputOnly,
                  sendErrMsgAndTerminate, sendMsgToServer
    <2>4. processServerReplyMsg(m)
      BY <1>2, <2>2, <2>3 DEF processMessageFromServer
    <2>5. m_is_waiting_for_reply /\ acceptReply(m)
      BY <1>1, <2>4 DEF processServerReplyMsg, sendErrMsgAndTerminate, sendMsgToServer
    <2> QED
      BY <2>5 DEF acceptReply
  <1>4. CASE localEvent
    <2>1. /\ ~processTimerEvent /\ ~processStdinHangup /\ ~processStdinError /\ ~sigintHandler
          /\ ~endOfFile /\ ~userHelp /\ ~userRefused
      BY <1>1 DEF processTimerEvent, processStdinHangup, processStdinError, sigintHandler, endOfFile,
                  userHelp, userRefused, outputOnly, sendByeMsgAndTerminate,
                  sendErrMsgAndTerminate, sendMsgToServer
    <2>2. ASSUME NEW name \in Names, userRename(name) PROVE FALSE
      BY <2>2 DEF userRename
    <2>3. ASSUME NEW type \in {"AUTH", "JOIN", "MSG"}, NEW name \in Names, NEW text \in Texts,
                 userRequest(type, name, text)
          PROVE  FALSE
      BY <1>1, <2>3 DEF userRequest, sendMsgToServer
    <2> QED
      BY <1>4, <2>1, <2>2, <2>3 DEF localEvent, processUserInput
  <1> QED
    BY <1>3, <1>4 DEF Next

\* The session is opened only by a valid REPLY the client has asked for.
THEOREM OpensByReplyCorrect == Spec => OpensByReply
  <1>1. [Next]_vars =>
            [m_current_state' = "S_OPEN" /\ m_current_state # "S_OPEN"
                => m_is_waiting_for_reply /\ printed'[1] \in {"Success", "Failure"}]_vars
    BY OpensStep
  <1> QED
    BY <1>1, PTL DEF Spec, OpensByReply

-----------------------------------------------------------------------------
(* The stream.                                                               *)

\* The buffer holds bytes of messages of Inputs.
BufferOK == m_msg_from_server \in Seq(Byte)

LEMMA BufferInit == StreamInit => BufferOK
  BY DEF StreamInit, BufferOK

\* Segments are appended to the buffer, and its beginning is erased.
LEMMA BufferStep == BufferOK /\ [StreamNext]_streamVars => BufferOK'
  <1> SUFFICES ASSUME BufferOK, [StreamNext]_streamVars PROVE BufferOK'
    OBVIOUS
  <1>1. ASSUME NEW segment \in Seq(Byte), receiveSegment(segment) PROVE BufferOK'
    BY <1>1 DEF receiveSegment, BufferOK
  <1>2. CASE processFirstMessage
    <2>1. PICK i \in ends :
              m_msg_from_server' = IF status' = CONTINUE THEN bufferFrom(i + 1) ELSE m_msg_from_server
      BY <1>2 DEF processFirstMessage
    <2>2. i \in 1 .. Len(m_msg_from_server)
      BY DEF ends, BufferOK
    <2>3. bufferFrom(i + 1) \in Seq(Byte)
      BY <2>2 DEF bufferFrom, BufferOK
    <2> QED
      BY <2>1, <2>3 DEF BufferOK
  <1>3. CASE UNCHANGED m_msg_from_server
    BY <1>3 DEF BufferOK
  <1> QED
    BY <1>1, <1>2, <1>3 DEF StreamNext, keepRest, receiveNothing, betweenHandlers, buffer, streamVars

\* A message that is too long is the client's last.
LEMMA TooLongEnds == tooLong => status' # CONTINUE
  <1>1. tooLong => status' \in {EXIT_FAILURE, KILLED}
    BY Zenon DEF tooLong, sendErrMsgAndTerminate, sendMsgToServer
  <1> QED
    BY <1>1 DEF CONTINUE, EXIT_FAILURE, KILLED

LEMMA BoundStep == BufferOK /\ BufferBound /\ [StreamNext]_streamVars => BufferBound'
  <1> SUFFICES ASSUME BufferOK, BufferBound, [StreamNext]_streamVars PROVE BufferBound'
    OBVIOUS
  <1> DEFINE max == s_MAX_MSG_SIZE
  <1>0. PICK n \in Nat : n = Len(m_msg_from_server)
    BY DEF BufferOK
  <1>1. ASSUME NEW segment \in Seq(Byte), receiveSegment(segment) PROVE BufferBound'
    <2>1. n < max
      BY <1>0, <1>1 DEF receiveSegment, BufferBound, running
    <2>2. Len(m_msg_from_server') = n + Len(segment) /\ Len(segment) <= max + 1
      BY <1>0, <1>1, SizeAssumption DEF receiveSegment, BufferOK
    <2>3. in_handler' = TRUE
      BY <1>1 DEF receiveSegment
    <2> QED
      BY <1>0, <2>1, <2>2, <2>3, SizeAssumption DEF BufferBound
  <1>2. CASE processFirstMessage
    <2>1. PICK i \in ends :
              m_msg_from_server' = IF status' = CONTINUE THEN bufferFrom(i + 1) ELSE m_msg_from_server
      BY <1>2 DEF processFirstMessage
    <2>2. i \in 1 .. n
      BY <1>0 DEF ends, BufferOK
    <2>3. Len(bufferFrom(i + 1)) <= n
      BY <1>0, <2>2 DEF bufferFrom, BufferOK
    <2>4. Len(bufferFrom(i + 1)) \in Nat
      BY <1>0, <2>2 DEF bufferFrom, BufferOK
    <2>5. in_handler' = TRUE
      BY <1>2, Zenon DEF processFirstMessage
    <2> QED
      BY <1>0, <2>1, <2>3, <2>4, <2>5, SizeAssumption DEF BufferBound
  <1>3. CASE keepRest
    <2>1. status' = CONTINUE => n < max
      BY <1>0, <1>3, TooLongEnds, Zenon DEF keepRest
    <2>2. m_msg_from_server' = m_msg_from_server
      BY <1>3, Zenon DEF keepRest
    <2> QED
      BY <1>0, <2>1, <2>2, Zenon DEF BufferBound, running
  <1>4. CASE UNCHANGED buffer /\ (running' => running)
    BY <1>4, Zenon DEF BufferBound, buffer
  <1>5. CASE \/ receiveNothing \/ betweenHandlers(processTimerEvent)
             \/ betweenHandlers(processUserInput) \/ betweenHandlers(processStdinHangup)
             \/ betweenHandlers(processStdinError) \/ (sigintHandler /\ UNCHANGED buffer)
    <2>1. running /\ UNCHANGED buffer
      BY <1>5, Zenon DEF receiveNothing, betweenHandlers, processTimerEvent, processUserInput,
         processStdinHangup, processStdinError, sigintHandler, running
    <2> QED
      BY <1>4, <2>1, Zenon
  <1>6. CASE UNCHANGED streamVars
    BY <1>4, <1>6, Zenon DEF streamVars, vars, running
  <1> QED
    BY <1>1, <1>2, <1>3, <1>5, <1>6, Zenon DEF StreamNext

\* Whatever the server sends and however it is cut, the buffer of processSocketEvent()
\* never holds more than two messages of the largest size.
THEOREM BufferBoundCorrect == StreamSpec => []BufferBound
  <1>1. StreamInit => BufferBound
    BY SizeAssumption DEF StreamInit, BufferBound
  <1> QED
    BY <1>1, BufferInit, BufferStep, BoundStep, PTL DEF StreamSpec

\* A step of the stream is a step of the client, or nothing happens to the client.
LEMMA StreamStep ==
    ASSUME BufferOK, [StreamNext]_streamVars
    PROVE  [Next]_vars
  <1>1. ASSUME NEW segment \in Seq(Byte), receiveSegment(segment) PROVE UNCHANGED vars
    BY <1>1 DEF receiveSegment
  <1>2. CASE processFirstMessage
    <2>1. PICK i \in ends : handleMessage(i)
      BY <1>2 DEF processFirstMessage
    <2> i \in 1 .. Len(m_msg_from_server)
      BY DEF ends, BufferOK
    <2> m_msg_from_server[i] \in Byte
      BY DEF BufferOK
    <2>2. m_msg_from_server[i].msg \in Inputs
      BY DEF Byte
    <2> QED
      BY <1>2, <2>1, <2>2 DEF processFirstMessage, handleMessage, Next, receives
  <1>3. CASE keepRest
    BY <1>3 DEF keepRest, Next, receives
  <1>4. CASE receiveNothing
    BY <1>4 DEF receiveNothing, Next, receives
  <1>5. ASSUME NEW event, betweenHandlers(event) PROVE event
    BY <1>5 DEF betweenHandlers
  <1> QED
    BY <1>1, <1>2, <1>3, <1>4, <1>5 DEF StreamNext, streamVars, Next, localEvent, betweenHandlers

\* TcpStream implements TcpClient: whatever recv() returns, the handlers run as if
\* whole messages had been received.
THEOREM StreamImplementsClient == StreamSpec => Spec
  <1>1. StreamInit => Init
    BY DEF StreamInit
  <1>2. BufferOK /\ [StreamNext]_streamVars => [Next]_vars
    BY StreamStep
  <1> QED
    BY <1>1, <1>2, BufferInit, BufferStep, PTL DEF StreamSpec, Spec

\* So the invariants of the client hold for every segmentation of the stream.
THEOREM StreamTimerCorrect == StreamSpec => []TimerMeansReply
  BY StreamImplementsClient, TimerCorrect, PTL
=============================================================================
