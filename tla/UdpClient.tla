----------------------------- MODULE UdpClient -----------------------------
(***************************************************************************)
(* The UDP variant of the IPK25-CHAT client (src/src/udp-client.cpp on top *)
(* of the event loop of src/src/client.cpp) as a state machine.            *)
(*                                                                         *)
(* One step is one iteration of Client::run: epoll_wait hands the loop ONE *)
(* event (a datagram, a line of standard input, a timer expiry) and its    *)
(* handler runs to completion; a SIGINT runs the handler of the signal     *)
(* between two iterations.  Every handler transmits at most one datagram,  *)
(* which the variable "sent" shows.  The environment is unconstrained: any *)
(* datagram of Datagram and any line of standard input may come next.      *)
(*                                                                         *)
(* Payload text is not modelled: a datagram says only whether it passes    *)
(* the length and regex checks of its type (field "valid").                *)
(***************************************************************************)
EXTENDS Integers

CONSTANTS
    ID_SPACE,         \* number of message ids: UINT16_MAX + 1 in the code
    MAX_RETRANS,      \* m_args.getUdpMaxRetransCount(), a uint8_t  (-r)
    CONFIRM_TIMEOUT,  \* m_args.getUdpConfirmTimeout(), a uint16_t in ms (-d)
    Addrs,            \* transport addresses a datagram may come from
    SERVER_ADDR,      \* the address given by -s and -p
    Names,            \* display names
    UNKNOWN,          \* the initial display name "unknown"
    SEND_FAILS,       \* may a system call that sends fail?
    Inputs            \* the datagrams the environment may send

MsgId == 0 .. (ID_SPACE - 1)

ServerMsgType == {"CONFIRM", "REPLY", "MSG", "PING", "ERR", "BYE", "OTHER"}

\* What recvfrom() returns.  "OTHER" stands for every other first byte, for a
\* datagram longer than s_MAX_MSG_SIZE and for a failed recvfrom(): all of them
\* end in sendErrMsg.  "ref" and "ok" are read in a REPLY only.
Datagram == [type : ServerMsgType, id : MsgId, ref : MsgId,
             ok : BOOLEAN, valid : BOOLEAN, from : Addrs]

ASSUME ConstantsAssumption ==
    /\ ID_SPACE \in Nat \ {0, 1}
    /\ MAX_RETRANS \in 0 .. 255
    /\ CONFIRM_TIMEOUT \in 0 .. 65535
    /\ SERVER_ADDR \in Addrs
    /\ UNKNOWN \in Names
    /\ SEND_FAILS \in BOOLEAN
    /\ Inputs \subseteq Datagram

FSM_state == {"S_START", "S_AUTH", "S_OPEN", "S_JOIN"}
ClientMsgType == {"AUTH", "JOIN", "MSG", "ERR", "BYE"}

EXIT_SUCCESS == 0
EXIT_FAILURE == 1
CONTINUE == 2         \* "client's loop needs to be continued"
KILLED == 3           \* ended by SIGABRT of std::terminate

REPLY_TIMEOUT == 5 * 1000   \* s_MAX_REPLY_WAIT_TIME in ms

VARIABLES
    status,                       \* CONTINUE, or the exit code of main()
    m_current_state,
    m_is_waiting_for_reply,
    m_is_waiting_for_confirm,
    m_is_waiting_for_bye_confirm,
    m_msg_to_server,              \* the message last built, kept for retransmission
    m_msg_to_server_id,           \* uint16_t
    m_allowed_retransmissions,    \* uint8_t
    m_confirmed_server_messages,  \* bitset, as the set of its 1 bits
    m_server_addr,                \* member of m_args
    m_user_display_name,
    stdin_enabled,                \* is EPOLLIN set in m_stdin_event?
    timer,                        \* timerfd: 0 when disarmed, else its duration in ms
    sent,                         \* datagram transmitted by the last step (a CONFIRM has no name)
    displayed,                    \* history: times a server message id was printed
    copies                        \* history: transmissions of m_msg_to_server

flags == <<m_is_waiting_for_reply, m_is_waiting_for_confirm,
           m_is_waiting_for_bye_confirm>>
outgoing == <<m_msg_to_server, m_msg_to_server_id, m_allowed_retransmissions, copies>>
incoming == <<m_confirmed_server_messages, m_server_addr>>
session == <<m_current_state, m_user_display_name>>
epoll == <<stdin_enabled, timer>>
members == <<flags, outgoing, incoming, session, epoll>>
vars == <<status, sent, displayed, members>>

NoDatagram == [type |-> "NONE", id |-> 0, name |-> UNKNOWN, to |-> SERVER_ADDR]
NoMessage == [type |-> "NONE", id |-> 0, name |-> UNKNOWN]

\* The member initialisers and the constructors Client::Client, Udp_client::Udp_client.
Init ==
    /\ status = CONTINUE
    /\ m_current_state = "S_START"
    /\ m_is_waiting_for_reply = FALSE
    /\ m_is_waiting_for_confirm = FALSE
    /\ m_is_waiting_for_bye_confirm = FALSE
    /\ m_msg_to_server = NoMessage
    /\ m_msg_to_server_id = 0
    /\ m_allowed_retransmissions = MAX_RETRANS
    /\ m_confirmed_server_messages = {}
    /\ m_server_addr = SERVER_ADDR
    /\ m_user_display_name = UNKNOWN
    /\ stdin_enabled = TRUE
    /\ timer = 0
    /\ sent = NoDatagram
    /\ displayed = [i \in MsgId |-> 0]
    /\ copies = 0

-----------------------------------------------------------------------------
(* The timer, epoll and socket primitives the handlers are made of.          *)

\* timerfd_settime: a zero time disarms the timer, and setting it discards an
\* expiry that has not been read yet.
startTimer(time) == timer' = time
stopTimer == timer' = 0

enableStdinEvents == stdin_enabled' = TRUE
disableStdinEvents == stdin_enabled' = FALSE

\* Fault: the id is wider than the two bytes it is sent in.
NextIdNoWrap(id) == id + 1

\* ++m_msg_to_server_id on a uint16_t
NextId(id) == (id + 1) % ID_SPACE

\* run() returns, or an exception reaches main(): the members are destroyed.
\* The model leaves them at their last value.
leave(code) == status' = code /\ UNCHANGED members

throwException == leave(EXIT_FAILURE) /\ sent' = NoDatagram

\* sendto(): the datagram leaves and the handler goes on with After, or the
\* call fails and the exception ends the program.
sendto(type, id, name, addr, After) ==
    \/ sent' = [type |-> type, id |-> id, name |-> name, to |-> addr] /\ After
    \/ SEND_FAILS /\ throwException

\* A handler that changes nothing and sends nothing.
noEffect == sent' = NoDatagram /\ UNCHANGED <<status, displayed, members>>

-----------------------------------------------------------------------------
(* Messages the client builds.                                               *)

\* The build* functions followed by sendMsgToServer, disableStdinEvents and
\* startTimer: the message becomes m_msg_to_server and leaves once.
buildAndSend(type, id, name, After) ==
    /\ UNCHANGED displayed
    /\ sendto(type, id, name, m_server_addr,
              /\ m_msg_to_server' = [type |-> type, id |-> id, name |-> name]
              /\ m_msg_to_server_id' = id
              /\ copies' = 1
              /\ disableStdinEvents
              /\ startTimer(CONFIRM_TIMEOUT)
              /\ UNCHANGED <<status, incoming>>
              /\ After)

\* Fault: the reply that was awaited is not given up.
sendErrMsgKeepsReply ==
    buildAndSend("ERR", NextId(m_msg_to_server_id), m_user_display_name,
        /\ m_is_waiting_for_confirm' = TRUE
        /\ UNCHANGED <<m_is_waiting_for_reply, m_is_waiting_for_bye_confirm,
                       m_allowed_retransmissions, session>>)

\* buildErrMsg takes the next id before it builds; the retransmission budget is
\* whatever the previous message left.
sendErrMsg ==
    buildAndSend("ERR", NextId(m_msg_to_server_id), m_user_display_name,
        /\ m_is_waiting_for_confirm' = TRUE
        /\ m_is_waiting_for_reply' = FALSE
        /\ UNCHANGED <<m_is_waiting_for_bye_confirm, m_allowed_retransmissions, session>>)

\* buildByeMsg takes the next id before it builds.
sendByeMsgToServer ==
    buildAndSend("BYE", NextId(m_msg_to_server_id), m_user_display_name,
        /\ m_is_waiting_for_confirm' = FALSE
        /\ m_is_waiting_for_reply' = FALSE
        /\ m_is_waiting_for_bye_confirm' = TRUE
        /\ m_allowed_retransmissions' = MAX_RETRANS
        /\ UNCHANGED session)

-----------------------------------------------------------------------------
(* Messages from the server.                                                 *)

\* Fault: the confirmation is sent but not remembered.
sendConfirmMsgForgets(d, addr, After) ==
    \/ /\ sent' = [type |-> "CONFIRM", id |-> d.id, name |-> UNKNOWN, to |-> addr]
       /\ UNCHANGED m_confirmed_server_messages
       /\ After
    \/ SEND_FAILS /\ throwException

sendConfirmMsg(d, addr, After) ==
    sendto("CONFIRM", d.id, UNKNOWN, addr,
           /\ m_confirmed_server_messages' = m_confirmed_server_messages \cup {d.id}
           /\ After)

\* A MSG or REPLY is printed unless its id has been confirmed before.
outputOnce(d) ==
    displayed' = IF d.id \in m_confirmed_server_messages THEN displayed
                 ELSE [displayed EXCEPT ![d.id] = @ + 1]

\* Fault: the user may type again before the REPLY has come.
confirmedRequestUnblocks(state) ==
    /\ m_is_waiting_for_confirm' = FALSE
    /\ m_is_waiting_for_reply' = TRUE
    /\ m_allowed_retransmissions' = MAX_RETRANS
    /\ m_msg_to_server_id' = NextId(m_msg_to_server_id)
    /\ m_current_state' = state
    /\ startTimer(REPLY_TIMEOUT)
    /\ enableStdinEvents
    /\ sent' = NoDatagram
    /\ UNCHANGED <<status, displayed, m_is_waiting_for_bye_confirm, m_msg_to_server,
                   copies, incoming, m_user_display_name>>

\* An AUTH or JOIN is confirmed: the next id is taken, the wait for the REPLY starts.
confirmedRequest(state) ==
    /\ m_is_waiting_for_confirm' = FALSE
    /\ m_is_waiting_for_reply' = TRUE
    /\ m_allowed_retransmissions' = MAX_RETRANS
    /\ m_msg_to_server_id' = NextId(m_msg_to_server_id)
    /\ m_current_state' = state
    /\ startTimer(REPLY_TIMEOUT)
    /\ sent' = NoDatagram
    /\ UNCHANGED <<status, displayed, m_is_waiting_for_bye_confirm, m_msg_to_server,
                   copies, incoming, m_user_display_name, stdin_enabled>>

\* Fault: standard input stays blocked after the confirmation.
confirmedMsgStdinBlocked ==
    /\ stopTimer
    /\ m_is_waiting_for_confirm' = FALSE
    /\ m_allowed_retransmissions' = MAX_RETRANS
    /\ m_msg_to_server_id' = NextId(m_msg_to_server_id)
    /\ sent' = NoDatagram
    /\ UNCHANGED <<status, displayed, m_is_waiting_for_reply, m_is_waiting_for_bye_confirm,
                   m_msg_to_server, copies, incoming, session, stdin_enabled>>

\* Fault: the retransmissions of a message are charged to the next one.
confirmedMsgKeepsBudget ==
    /\ stopTimer
    /\ m_is_waiting_for_confirm' = FALSE
    /\ m_msg_to_server_id' = NextId(m_msg_to_server_id)
    /\ enableStdinEvents
    /\ sent' = NoDatagram
    /\ UNCHANGED <<status, displayed, m_is_waiting_for_reply, m_is_waiting_for_bye_confirm,
                   m_msg_to_server, m_allowed_retransmissions, copies, incoming, session>>

\* A MSG is confirmed: the user may type again.
confirmedMsg ==
    /\ stopTimer
    /\ m_is_waiting_for_confirm' = FALSE
    /\ m_allowed_retransmissions' = MAX_RETRANS
    /\ m_msg_to_server_id' = NextId(m_msg_to_server_id)
    /\ enableStdinEvents
    /\ sent' = NoDatagram
    /\ UNCHANGED <<status, displayed, m_is_waiting_for_reply, m_is_waiting_for_bye_confirm,
                   m_msg_to_server, copies, incoming, session>>

\* Fault: any CONFIRM ends the wait, whatever message it refers to.
matchesAnyConfirm(d) == TRUE

\* getMsgId(confirm_msg) == m_msg_to_server_id
matchesConfirm(d) == d.id = m_msg_to_server_id

\* Which message a CONFIRM confirms is read off the first byte of m_msg_to_server,
\* whether or not a confirmation is awaited.
processServerConfirmMsg(d) ==
    \/ ~d.valid /\ sendErrMsg
    \/ d.valid /\ ~matchesConfirm(d) /\ noEffect
    \/ /\ d.valid /\ matchesConfirm(d)
       /\ LET type == m_msg_to_server.type
          IN  \/ type = "BYE" /\ leave(EXIT_SUCCESS) /\ UNCHANGED displayed /\ sent' = NoDatagram
              \/ type = "ERR" /\ leave(EXIT_FAILURE) /\ UNCHANGED displayed /\ sent' = NoDatagram
              \/ type = "AUTH" /\ m_current_state = "S_AUTH" /\ confirmedRequest("S_AUTH")
              \/ type = "JOIN" /\ m_current_state = "S_OPEN" /\ confirmedRequest("S_JOIN")
              \/ type = "MSG" /\ m_current_state = "S_OPEN" /\ confirmedMsg
              \/ /\ type \notin {"BYE", "ERR"}
                 /\ <<m_current_state, type>> \notin
                      {<<"S_AUTH", "AUTH">>, <<"S_OPEN", "JOIN">>, <<"S_OPEN", "MSG">>}
                 /\ noEffect

\* Fault: the increment of the id on the CONFIRM is forgotten.
answersRequestOffByOne(d) == m_is_waiting_for_reply /\ m_msg_to_server_id = d.ref

\* A REPLY is the answer to the pending request when it refers to the id before
\* the current one.  The subtraction is done on int: it does not wrap to 65535.
answersRequest(d) == m_is_waiting_for_reply /\ m_msg_to_server_id - 1 = d.ref

\* Fault: the reply timer keeps running.
acceptReplyTimerRuns(d, addr) ==
    /\ outputOnce(d)
    /\ sendConfirmMsg(d, addr,
           /\ m_server_addr' = addr
           /\ m_current_state' = IF m_current_state = "S_JOIN" \/ d.ok THEN "S_OPEN"
                                 ELSE m_current_state
           /\ m_is_waiting_for_reply' = FALSE
           /\ enableStdinEvents
           /\ UNCHANGED <<status, timer, m_is_waiting_for_confirm, m_is_waiting_for_bye_confirm,
                          outgoing, m_user_display_name>>)

\* Fault: a refused JOIN does not lead back to the open state.
acceptReplyJoinRefused(d, addr) ==
    /\ outputOnce(d)
    /\ sendConfirmMsg(d, addr,
           /\ stopTimer
           /\ m_server_addr' = addr
           /\ m_current_state' = IF d.ok THEN "S_OPEN" ELSE m_current_state
           /\ m_is_waiting_for_reply' = FALSE
           /\ enableStdinEvents
           /\ UNCHANGED <<status, m_is_waiting_for_confirm, m_is_waiting_for_bye_confirm,
                          outgoing, m_user_display_name>>)

\* Fault: the result of the REPLY is not looked at.
acceptReplyAnyResult(d, addr) ==
    /\ outputOnce(d)
    /\ sendConfirmMsg(d, addr,
           /\ stopTimer
           /\ m_server_addr' = addr
           /\ m_current_state' = "S_OPEN"
           /\ m_is_waiting_for_reply' = FALSE
           /\ enableStdinEvents
           /\ UNCHANGED <<status, m_is_waiting_for_confirm, m_is_waiting_for_bye_confirm,
                          outgoing, m_user_display_name>>)

\* The REPLY is printed and confirmed (to the address it came from, during
\* authentication) and the user may type again.
acceptReply(d, addr) ==
    /\ outputOnce(d)
    /\ sendConfirmMsg(d, addr,
           /\ stopTimer
           /\ m_server_addr' = addr
           /\ m_current_state' = IF m_current_state = "S_JOIN" \/ d.ok THEN "S_OPEN"
                                 ELSE m_current_state
           /\ m_is_waiting_for_reply' = FALSE
           /\ enableStdinEvents
           /\ UNCHANGED <<status, m_is_waiting_for_confirm, m_is_waiting_for_bye_confirm,
                          outgoing, m_user_display_name>>)

\* Every valid REPLY received while authenticating moves the server address,
\* also one that is then ignored.
processServerReplyMsg(d) ==
    LET addr == IF m_current_state = "S_AUTH" THEN d.from ELSE m_server_addr
    IN  \/ ~d.valid /\ sendErrMsg
        \/ d.valid /\ answersRequest(d) /\ acceptReply(d, addr)
        \/ /\ d.valid /\ ~answersRequest(d)
           /\ m_server_addr' = addr
           /\ sent' = NoDatagram
           /\ UNCHANGED <<status, displayed, flags, outgoing, m_confirmed_server_messages,
                          session, epoll>>

\* isValidMsgMsg prints the message while it validates it.
processServerMsgMsg(d) ==
    \/ ~d.valid /\ sendErrMsg
    \/ /\ d.valid
       /\ outputOnce(d)
       /\ sendConfirmMsg(d, m_server_addr,
              UNCHANGED <<status, flags, outgoing, m_server_addr, session, epoll>>)

processServerPingMsg(d) ==
    \/ ~d.valid /\ sendErrMsg
    \/ /\ d.valid
       /\ sendConfirmMsg(d, m_server_addr,
              UNCHANGED <<status, flags, outgoing, m_server_addr, session, epoll>>)
       /\ UNCHANGED displayed

\* A valid BYE (exit code 0) or ERR (exit code 1) is confirmed and ends run().
\* Errors of the server are printed each time: they are not counted in "displayed".
endedByServer(d, code) ==
    \/ ~d.valid /\ sendErrMsg
    \/ /\ d.valid
       /\ sendConfirmMsg(d, m_server_addr,
              /\ status' = code
              /\ UNCHANGED <<flags, outgoing, m_server_addr, session, epoll>>)
       /\ UNCHANGED displayed

processServerByeMsg(d) == endedByServer(d, EXIT_SUCCESS)
processServerErrMsg(d) == endedByServer(d, EXIT_FAILURE)

\* Fault: messages of other users are not expected while a JOIN is pending.
expectedTypesQuietJoin ==
    [S_START |-> {"CONFIRM"},
     S_AUTH  |-> {"CONFIRM", "REPLY", "PING"},
     S_OPEN  |-> {"CONFIRM", "MSG", "PING"},
     S_JOIN  |-> {"CONFIRM", "PING", "REPLY"}]

\* The message types each state of the FSM takes, besides BYE and ERR.
expectedTypes ==
    [S_START |-> {"CONFIRM"},
     S_AUTH  |-> {"CONFIRM", "REPLY", "PING"},
     S_OPEN  |-> {"CONFIRM", "MSG", "PING"},
     S_JOIN  |-> {"CONFIRM", "MSG", "PING", "REPLY"}]

processMessageFromServer(d) ==
    LET expected(type) == d.type = type /\ type \in expectedTypes[m_current_state]
    IN  \/ d.type = "BYE" /\ processServerByeMsg(d)
        \/ d.type = "ERR" /\ processServerErrMsg(d)
        \/ expected("CONFIRM") /\ processServerConfirmMsg(d)
        \/ expected("REPLY") /\ processServerReplyMsg(d)
        \/ expected("MSG") /\ processServerMsgMsg(d)
        \/ expected("PING") /\ processServerPingMsg(d)
        \/ /\ d.type \notin {"BYE", "ERR"} \cup expectedTypes[m_current_state]
           /\ sendErrMsg

processSocketEvent(d) == status = CONTINUE /\ processMessageFromServer(d)

-----------------------------------------------------------------------------
(* Timer, standard input and SIGINT.                                         *)

\* Fault: retransmissions are not counted.
retransmitForever ==
    sendto(m_msg_to_server.type, m_msg_to_server.id, m_msg_to_server.name, m_server_addr,
           /\ startTimer(CONFIRM_TIMEOUT)
           /\ copies' = copies + 1
           /\ UNCHANGED <<status, flags, m_msg_to_server, m_msg_to_server_id,
                          m_allowed_retransmissions, incoming, session, stdin_enabled>>)

\* Fault: the one-shot timer is not started again.
retransmitOnce ==
    sendto(m_msg_to_server.type, m_msg_to_server.id, m_msg_to_server.name, m_server_addr,
           /\ stopTimer
           /\ m_allowed_retransmissions' = m_allowed_retransmissions - 1
           /\ copies' = copies + 1
           /\ UNCHANGED <<status, flags, m_msg_to_server, m_msg_to_server_id,
                          incoming, session, stdin_enabled>>)

retransmit ==
    sendto(m_msg_to_server.type, m_msg_to_server.id, m_msg_to_server.name, m_server_addr,
           /\ startTimer(CONFIRM_TIMEOUT)
           /\ m_allowed_retransmissions' = m_allowed_retransmissions - 1
           /\ copies' = copies + 1
           /\ UNCHANGED <<status, flags, m_msg_to_server, m_msg_to_server_id,
                          incoming, session, stdin_enabled>>)

\* The timer expires: a CONFIRM is overdue, or a REPLY, or (never, see
\* TimerHasPurpose) nothing is.
processTimerEvent ==
    /\ status = CONTINUE
    /\ timer > 0
    /\ LET confirmOverdue == m_is_waiting_for_confirm \/ m_is_waiting_for_bye_confirm
       IN  \/ confirmOverdue /\ m_allowed_retransmissions = 0 /\ throwException /\ UNCHANGED displayed
           \/ confirmOverdue /\ m_allowed_retransmissions > 0 /\ retransmit /\ UNCHANGED displayed
           \/ ~confirmOverdue /\ m_is_waiting_for_reply /\ sendErrMsg
           \/ ~confirmOverdue /\ ~m_is_waiting_for_reply /\ throwException /\ UNCHANGED displayed

canSendMessageType(type) ==
    IF type = "AUTH" THEN m_current_state \in {"S_START", "S_AUTH"}
                     ELSE m_current_state = "S_OPEN"

\* A line that is sent.  It carries the current id, and leaves the
\* retransmission budget alone.  Only /auth brings a display name.
userRequest(type, name) ==
    /\ canSendMessageType(type)
    /\ type # "AUTH" => name = m_user_display_name
    /\ buildAndSend(type, m_msg_to_server_id, name,
           /\ m_user_display_name' = name
           /\ m_current_state' = IF m_current_state = "S_START" THEN "S_AUTH"
                                 ELSE m_current_state
           /\ m_is_waiting_for_confirm' = TRUE
           /\ m_is_waiting_for_reply' = (type \in {"AUTH", "JOIN"})
           /\ UNCHANGED <<m_is_waiting_for_bye_confirm, m_allowed_retransmissions>>)

\* /rename
userRename(name) ==
    /\ m_current_state # "S_JOIN"
    /\ m_user_display_name' = name
    /\ sent' = NoDatagram
    /\ UNCHANGED <<status, displayed, flags, outgoing, incoming, m_current_state, epoll>>

\* A readable standard input: end of file, a line that is sent, a local command,
\* or (also /help) a line that is refused with a message on the terminal.
processUserInput ==
    /\ status = CONTINUE
    /\ stdin_enabled
    /\ \/ sendByeMsgToServer
       \/ \E type \in {"AUTH", "JOIN", "MSG"}, name \in Names : userRequest(type, name)
       \/ \E name \in Names : userRename(name)
       \/ noEffect

\* EPOLLHUP and EPOLLERR are reported even when EPOLLIN is disabled.
processStdinHangup == status = CONTINUE /\ sendByeMsgToServer
processStdinError == status = CONTINUE /\ throwException /\ UNCHANGED displayed

\* The exception of a failing sendto() leaves the handler of the signal, and no
\* handler of it may be found from there.
terminate == SEND_FAILS /\ leave(KILLED) /\ sent' = NoDatagram /\ UNCHANGED displayed

\* SIGINT while the loop is in epoll_wait, which then fails with EINTR.
sigintHandler == status = CONTINUE /\ (sendByeMsgToServer \/ terminate)

\* The events of run().
localEvent ==
    \/ processTimerEvent
    \/ processUserInput
    \/ processStdinHangup
    \/ processStdinError
    \/ sigintHandler

Next == localEvent \/ \E d \in Inputs : processSocketEvent(d)

Spec == Init /\ [][Next]_vars

-----------------------------------------------------------------------------
(* Properties.                                                               *)

ControlType ==
    /\ status \in {CONTINUE, EXIT_SUCCESS, EXIT_FAILURE, KILLED}
    /\ m_current_state \in FSM_state
    /\ m_user_display_name \in Names
    /\ timer \in Nat
FlagsType ==
    /\ m_is_waiting_for_reply \in BOOLEAN
    /\ m_is_waiting_for_confirm \in BOOLEAN
    /\ m_is_waiting_for_bye_confirm \in BOOLEAN
    /\ stdin_enabled \in BOOLEAN
OutgoingType ==
    /\ m_msg_to_server \in [type : ClientMsgType \cup {"NONE"}, id : MsgId, name : Names]
    /\ m_msg_to_server_id \in MsgId
    /\ m_allowed_retransmissions \in 0 .. MAX_RETRANS
    /\ copies \in Nat
IncomingType ==
    /\ m_confirmed_server_messages \subseteq MsgId
    /\ m_server_addr \in Addrs
    /\ displayed \in [MsgId -> Nat]
SentType == sent \in [type : ClientMsgType \cup {"NONE", "CONFIRM"}, id : MsgId,
                      name : Names, to : Addrs]

\* Every variable has its type; in particular both ids and the retransmission
\* budget stay in the range of the uint16_t and uint8_t that hold them.
TypeOK == ControlType /\ FlagsType /\ OutgoingType /\ IncomingType /\ SentType

running == status = CONTINUE
closing == m_msg_to_server.type \in {"ERR", "BYE"}
awaitingConfirm == m_is_waiting_for_confirm \/ m_is_waiting_for_bye_confirm

\* The loop never blocks for good on a silent server: while it runs, it listens
\* to the user or a timer will wake it (given a confirmation timeout other than 0).
NeverStalled == running /\ CONFIRM_TIMEOUT > 0 => stdin_enabled \/ timer > 0

\* The same without the premise on the timeout: "the timer is started every time
\* client sends some message to the server and waits for its confirmation".  The
\* code does not keep it for a timeout of 0 (README.md, zero_timeout).
AlwaysWakes == running => stdin_enabled \/ timer > 0

\* A timer is armed only for something that is awaited, so processTimerEvent
\* never reaches its last branch, the exception "timer event, but ... are false".
TimerHasPurpose == timer > 0 => awaitingConfirm \/ m_is_waiting_for_reply

\* Once an ERR or a BYE is built the client only finishes: it reads no more
\* lines, gives up the REPLY, and it awaits the CONFIRM of exactly that message.
ClosingIsFinal ==
    /\ m_is_waiting_for_bye_confirm => closing
    /\ closing => /\ ~stdin_enabled
                  /\ ~m_is_waiting_for_reply
                  /\ awaitingConfirm
                  /\ m_msg_to_server.id = m_msg_to_server_id
                  /\ timer = CONFIRM_TIMEOUT

\* No server message id is printed twice, however often its datagram arrives
\* and in whatever states (outputIncomingMsg, outputIncomingReply).
DisplayedOnce == \A i \in MsgId : displayed[i] <= 1

\* In the JOIN state, where no line of the user can leave, a REPLY is awaited
\* under a timer unless the client is closing: the state is never a dead end.
JoinAwaitsReply ==
    m_current_state = "S_JOIN" => closing \/ (m_is_waiting_for_reply /\ timer = REPLY_TIMEOUT)

\* A message that awaits its CONFIRM was transmitted at most 1 + MAX_RETRANS
\* times, counting those still allowed.
RetransmissionBound == awaitingConfirm => copies + m_allowed_retransmissions <= MAX_RETRANS + 1

\* The inductive strengthening of the invariants above.  What a printed id adds is
\* that it has been confirmed (unless the confirmation failed and ended the
\* program); what the JOIN state adds is that no retransmission can replace the
\* reply timer by the shorter confirmation timer.
PrintedIsConfirmed ==
    running => \A i \in MsgId : displayed[i] > 0 => i \in m_confirmed_server_messages
JoinIsConfirmed == m_current_state = "S_JOIN" /\ ~closing => ~awaitingConfirm

IInv ==
    /\ TypeOK
    /\ TimerHasPurpose /\ NeverStalled
    /\ ClosingIsFinal
    /\ DisplayedOnce /\ PrintedIsConfirmed
    /\ JoinAwaitsReply /\ JoinIsConfirmed
    /\ RetransmissionBound

\* After an ERR or a BYE the client transmits nothing but closing messages and
\* confirmations, and it stays closing until it exits.
quiet == closing' /\ sent'.type \in {"NONE", "CONFIRM", "ERR", "BYE"}
QuietAfterClosing == [][closing => quiet]_vars
=============================================================================
