----------------------------- MODULE TcpClient -----------------------------
(***************************************************************************)
(* The TCP variant of the IPK25-CHAT client (src/src/tcp-client.cpp on top *)
(* of the event loop of src/src/client.cpp): its handlers, one message of  *)
(* the server at a time.  TcpStream adds the buffer in which messages are  *)
(* put together from the segments of the stream.                           *)
(*                                                                         *)
(* The environment is unconstrained: any message of Inputs, any line of    *)
(* standard input, a timer expiry or a signal may come next.  Payload text *)
(* is kept as an atom; "valid" says whether the message matches the regex  *)
(* and the length checks of its type.                                      *)
(***************************************************************************)
EXTENDS Integers, Sequences

CONSTANTS
    Names,        \* display names
    UNKNOWN,      \* the initial display name "unknown"
    Texts,        \* payloads
    SEND_FAILS,   \* may send() fail?
    Inputs        \* the messages the environment may send

ServerMsgType == {"REPLY", "MSG", "ERR", "BYE", "UNKNOWN"}

\* A message up to its CRLF.  "ok" is read in a REPLY only, "name" in MSG and ERR.
Message == [type : ServerMsgType, ok : BOOLEAN, valid : BOOLEAN, name : Names, text : Texts]

ASSUME ConstantsAssumption ==
    /\ UNKNOWN \in Names
    /\ SEND_FAILS \in BOOLEAN
    /\ Inputs \subseteq Message

FSM_state == {"S_START", "S_AUTH", "S_OPEN", "S_JOIN"}
ClientMsgType == {"AUTH", "JOIN", "MSG", "ERR", "BYE"}

EXIT_SUCCESS == 0
EXIT_FAILURE == 1
CONTINUE == 2
KILLED == 3       \* ended by a signal: SIGPIPE, or SIGABRT of std::terminate

REPLY_TIMEOUT == 5 * 1000   \* s_MAX_REPLY_WAIT_TIME in ms

VARIABLES
    status,                   \* CONTINUE, or how the program ended
    m_current_state,
    m_is_waiting_for_reply,
    m_user_display_name,
    stdin_enabled,            \* is EPOLLIN set in m_stdin_event?
    timer,                    \* timerfd: 0 when disarmed, else its duration in ms
    sent,                     \* message sent by the last step
    printed                   \* line printed by the last step

session == <<m_current_state, m_is_waiting_for_reply, m_user_display_name>>
epoll == <<stdin_enabled, timer>>
members == <<session, epoll>>
vars == <<status, members, sent, printed>>

Nothing == [type |-> "NONE", name |-> UNKNOWN, text |-> ""]
NoOutput == << >>

Init ==
    /\ status = CONTINUE
    /\ m_current_state = "S_START"
    /\ m_is_waiting_for_reply = FALSE
    /\ m_user_display_name = UNKNOWN
    /\ stdin_enabled = TRUE
    /\ timer = 0
    /\ sent = Nothing
    /\ printed = NoOutput

-----------------------------------------------------------------------------
(* Sending.                                                                  *)

\* sendMsgToServer(): the handler goes on with After, or send() fails: with an
\* exception that main() prints, or with the SIGPIPE that nobody masks.  The members
\* of a program that has ended are left as they were.
sendMsgToServer(type, name, text, After) ==
    \/ sent' = [type |-> type, name |-> name, text |-> text] /\ After
    \/ /\ SEND_FAILS
       /\ \/ status' = EXIT_FAILURE /\ printed' = <<"ERROR", "send">>
          \/ status' = KILLED /\ printed' = NoOutput
       /\ sent' = Nothing /\ UNCHANGED members

\* The exception is caught by main(), which prints its text.
sendErrMsgAndTerminate(text) ==
    sendMsgToServer("ERR", m_user_display_name, text,
        status' = EXIT_FAILURE /\ printed' = <<"ERROR", text>> /\ UNCHANGED members)

\* Fault: main() prints the exception although it has no text.
sendByeMsgAndTerminateLoudly(outcomes) ==
    sendMsgToServer("BYE", m_user_display_name, "",
        status' \in outcomes /\ printed' = <<"ERROR", "">> /\ UNCHANGED members)

\* sendByeMsgToServer() followed by throw Exception{""}.
sendByeMsgAndTerminate(outcomes) ==
    sendMsgToServer("BYE", m_user_display_name, "",
        status' \in outcomes /\ printed' = NoOutput /\ UNCHANGED members)

\* A handler that only prints.
outputOnly(line) == printed' = line /\ sent' = Nothing /\ UNCHANGED <<status, members>>

-----------------------------------------------------------------------------
(* Messages from the server.                                                 *)

\* Fault: the timer keeps running after the REPLY.
acceptReplyTimerRuns(m) ==
    /\ m_current_state' = IF m_current_state = "S_JOIN" \/ m.ok THEN "S_OPEN" ELSE m_current_state
    /\ m_is_waiting_for_reply' = FALSE
    /\ stdin_enabled' = TRUE
    /\ printed' = <<IF m.ok THEN "Success" ELSE "Failure", m.text>>
    /\ sent' = Nothing
    /\ UNCHANGED <<status, timer, m_user_display_name>>

\* Fault: standard input stays blocked after the REPLY.
acceptReplyStdinBlocked(m) ==
    /\ timer' = 0
    /\ m_current_state' = IF m_current_state = "S_JOIN" \/ m.ok THEN "S_OPEN" ELSE m_current_state
    /\ m_is_waiting_for_reply' = FALSE
    /\ printed' = <<IF m.ok THEN "Success" ELSE "Failure", m.text>>
    /\ sent' = Nothing
    /\ UNCHANGED <<status, stdin_enabled, m_user_display_name>>

\* A positive answer, or any answer to a JOIN, leads to S_OPEN.
acceptReply(m) ==
    /\ timer' = 0
    /\ m_current_state' = IF m_current_state = "S_JOIN" \/ m.ok THEN "S_OPEN" ELSE m_current_state
    /\ m_is_waiting_for_reply' = FALSE
    /\ stdin_enabled' = TRUE
    /\ printed' = <<IF m.ok THEN "Success" ELSE "Failure", m.text>>
    /\ sent' = Nothing
    /\ UNCHANGED <<status, m_user_display_name>>

\* Fault: any REPLY is taken for the awaited one.
processServerReplyMsgUnasked(m) ==
    \/ m.valid /\ acceptReply(m)
    \/ ~m.valid /\ sendErrMsgAndTerminate("malformed REPLY")

processServerReplyMsg(m) ==
    \/ m_is_waiting_for_reply /\ m.valid /\ acceptReply(m)
    \/ m_is_waiting_for_reply /\ ~m.valid /\ sendErrMsgAndTerminate("malformed REPLY")
    \/ ~m_is_waiting_for_reply /\ sendErrMsgAndTerminate("unexpected REPLY")

processServerMsgMsg(m) ==
    \/ m.valid /\ outputOnly(<<m.name, m.text>>)
    \/ ~m.valid /\ sendErrMsgAndTerminate("malformed MSG")

\* run() returns with the result of the handler.
processServerByeMsg(m) ==
    \/ /\ m.valid /\ status' = EXIT_SUCCESS
       /\ printed' = NoOutput /\ sent' = Nothing /\ UNCHANGED members
    \/ ~m.valid /\ sendErrMsgAndTerminate("malformed BYE")

processServerErrMsg(m) ==
    \/ /\ m.valid /\ status' = EXIT_FAILURE
       /\ printed' = <<"ERROR FROM", m.name, m.text>> /\ sent' = Nothing /\ UNCHANGED members
    \/ ~m.valid /\ sendErrMsgAndTerminate("malformed ERR")

\* Fault: messages of other users are not expected while a JOIN is pending.
expectedTypesQuietJoin ==
    [S_START |-> {}, S_AUTH |-> {"REPLY"}, S_OPEN |-> {"MSG"}, S_JOIN |-> {"REPLY"}]

\* The message types each state of the FSM takes, besides BYE and ERR.
expectedTypes ==
    [S_START |-> {}, S_AUTH |-> {"REPLY"}, S_OPEN |-> {"MSG"}, S_JOIN |-> {"REPLY", "MSG"}]

processMessageFromServer(m) ==
    \/ m.type = "UNKNOWN" /\ sendErrMsgAndTerminate("unknown type")
    \/ m.type = "BYE" /\ processServerByeMsg(m)
    \/ m.type = "ERR" /\ processServerErrMsg(m)
    \/ m.type = "REPLY" /\ "REPLY" \in expectedTypes[m_current_state] /\ processServerReplyMsg(m)
    \/ m.type = "MSG" /\ "MSG" \in expectedTypes[m_current_state] /\ processServerMsgMsg(m)
    \/ /\ m.type \in {"REPLY", "MSG"} \ expectedTypes[m_current_state]
       /\ sendErrMsgAndTerminate("unexpected type")

\* The other results of recv() and of the checks on the buffer.
tooLong == sendErrMsgAndTerminate("too long")
recvFails == sendErrMsgAndTerminate("recv")
connectionClosed ==
    status' = EXIT_SUCCESS /\ printed' = NoOutput /\ sent' = Nothing /\ UNCHANGED members

receives ==
    /\ status = CONTINUE
    /\ \/ \E m \in Inputs : processMessageFromServer(m)
       \/ tooLong
       \/ recvFails
       \/ connectionClosed

-----------------------------------------------------------------------------
(* Timer, standard input and SIGINT.                                         *)

\* The reply is overdue, or (never, see TimerMeansReply) nothing was awaited.
processTimerEvent ==
    /\ status = CONTINUE
    /\ timer > 0
    /\ \/ m_is_waiting_for_reply /\ sendErrMsgAndTerminate("reply timeout")
       \/ /\ ~m_is_waiting_for_reply
          /\ status' = EXIT_FAILURE
          /\ printed' = <<"ERROR", "timer">> /\ sent' = Nothing /\ UNCHANGED members

canSendMessageType(type) ==
    IF type = "AUTH" THEN m_current_state \in {"S_START", "S_AUTH"}
                     ELSE m_current_state = "S_OPEN"

\* Fault: the timer is not started.
userRequestNoTimer(type, name, text) ==
    /\ canSendMessageType(type)
    /\ type # "AUTH" => name = m_user_display_name
    /\ LET asks == type \in {"AUTH", "JOIN"}
       IN  sendMsgToServer(type, name, text,
               /\ m_user_display_name' = name
               /\ m_current_state' = IF type = "JOIN" THEN "S_JOIN"
                                     ELSE IF m_current_state = "S_START" THEN "S_AUTH"
                                     ELSE m_current_state
               /\ stdin_enabled' = IF asks THEN FALSE ELSE stdin_enabled
               /\ m_is_waiting_for_reply' = (asks \/ m_is_waiting_for_reply)
               /\ printed' = NoOutput
               /\ UNCHANGED <<status, timer>>)

\* Fault: a failing send() is swallowed, after the state of a JOIN has been entered.
userRequestSwallows(type, name, text) ==
    /\ canSendMessageType(type)
    /\ type # "AUTH" => name = m_user_display_name
    /\ m_user_display_name' = name
    /\ printed' = NoOutput /\ UNCHANGED status
    /\ \/ /\ sent' = [type |-> type, name |-> name, text |-> text]
          /\ m_current_state' = [AUTH |-> "S_AUTH", JOIN |-> "S_JOIN", MSG |-> "S_OPEN"][type]
          /\ m_is_waiting_for_reply' = (type # "MSG") /\ stdin_enabled' = (type = "MSG")
          /\ timer' = IF type = "MSG" THEN timer ELSE REPLY_TIMEOUT
       \/ /\ SEND_FAILS /\ sent' = Nothing
          /\ m_current_state' = IF type = "JOIN" THEN "S_JOIN" ELSE m_current_state
          /\ UNCHANGED <<m_is_waiting_for_reply, epoll>>

\* A line that is sent.  AUTH and JOIN block the user and start the timer; a MSG
\* expects no answer.
userRequest(type, name, text) ==
    /\ canSendMessageType(type)
    /\ type # "AUTH" => name = m_user_display_name
    /\ LET asks == type \in {"AUTH", "JOIN"}
       IN  sendMsgToServer(type, name, text,
               /\ m_user_display_name' = name
               /\ m_current_state' = IF type = "JOIN" THEN "S_JOIN"
                                     ELSE IF m_current_state = "S_START" THEN "S_AUTH"
                                     ELSE m_current_state
               /\ stdin_enabled' = IF asks THEN FALSE ELSE stdin_enabled
               /\ timer' = IF asks THEN REPLY_TIMEOUT ELSE timer
               /\ m_is_waiting_for_reply' = (asks \/ m_is_waiting_for_reply)
               /\ printed' = NoOutput
               /\ UNCHANGED status)

\* /rename
userRename(name) ==
    /\ m_current_state # "S_JOIN"
    /\ m_user_display_name' = name
    /\ printed' = NoOutput /\ sent' = Nothing
    /\ UNCHANGED <<status, m_current_state, m_is_waiting_for_reply, epoll>>

userHelp == outputOnly(<<"Supported commands">>)
userRefused == outputOnly(<<"ERROR", "input">>)

\* End of file is reported with a readable standard input.
endOfFile == sendByeMsgAndTerminate({EXIT_SUCCESS})

processUserInput ==
    /\ status = CONTINUE
    /\ stdin_enabled
    /\ \/ endOfFile
       \/ \E type \in {"AUTH", "JOIN", "MSG"}, name \in Names, text \in Texts :
              userRequest(type, name, text)
       \/ \E name \in Names : userRename(name)
       \/ userHelp
       \/ userRefused

\* EPOLLHUP and EPOLLERR are reported even when EPOLLIN is disabled.
processStdinHangup == status = CONTINUE /\ sendByeMsgAndTerminate({EXIT_SUCCESS})
processStdinError ==
    /\ status = CONTINUE
    /\ status' = EXIT_FAILURE
    /\ printed' = <<"ERROR", "stdin">> /\ sent' = Nothing /\ UNCHANGED members

\* The exception leaves the handler of a signal, which C++ does not define: it
\* reaches main(), or std::terminate() aborts the program.
sigintHandler == status = CONTINUE /\ sendByeMsgAndTerminate({EXIT_SUCCESS, KILLED})

\* The events of run() but those of the socket.
localEvent ==
    \/ processTimerEvent
    \/ processUserInput
    \/ processStdinHangup
    \/ processStdinError
    \/ sigintHandler

Next == receives \/ localEvent

Spec == Init /\ [][Next]_vars

-----------------------------------------------------------------------------
(* Properties.                                                               *)

running == status = CONTINUE

\* The error texts and the other fixed parts of the lines that are printed.
Reasons ==
    {"malformed REPLY", "unexpected REPLY", "malformed MSG", "malformed BYE", "malformed ERR",
     "unknown type", "unexpected type", "too long", "recv", "reply timeout", "timer", "stdin", "input",
     "send"}
Labels == {"ERROR", "ERROR FROM", "Success", "Failure", "Supported commands"} \cup Reasons

\* Every variable has its type.
TypeOK ==
    /\ status \in {CONTINUE, EXIT_SUCCESS, EXIT_FAILURE, KILLED}
    /\ m_current_state \in FSM_state
    /\ m_is_waiting_for_reply \in BOOLEAN
    /\ m_user_display_name \in Names
    /\ stdin_enabled \in BOOLEAN
    /\ timer \in {0, REPLY_TIMEOUT}
    /\ sent.type \in ClientMsgType \cup {"NONE"} /\ sent.name \in Names
    /\ printed \in Seq(Names \cup Texts \cup Labels)

\* The timer runs exactly while a REPLY is awaited, and exactly then the user is
\* blocked: processTimerEvent never reaches "timer event, but waiting_for_reply is
\* false", no reply is awaited without end, no second request is sent meanwhile.
TimerMeansReply ==
    /\ timer > 0 <=> m_is_waiting_for_reply
    /\ stdin_enabled <=> ~m_is_waiting_for_reply

\* A REPLY is awaited in S_AUTH and S_JOIN only, and always in S_JOIN: no line of
\* the user leads out of that state, which a JOIN enters before it is sent.
ReplyStates ==
    /\ m_is_waiting_for_reply => m_current_state \in {"S_AUTH", "S_JOIN"}
    /\ m_current_state = "S_JOIN" => m_is_waiting_for_reply

IInv == TypeOK /\ TimerMeansReply /\ ReplyStates

\* The client becomes a member of a channel only by a valid REPLY that it asked for:
\* no message of the server and no line of the user opens the session otherwise.
OpensByReply ==
    [][m_current_state' = "S_OPEN" /\ m_current_state # "S_OPEN"
          => m_is_waiting_for_reply /\ printed'[1] \in {"Success", "Failure"}]_vars
=============================================================================
