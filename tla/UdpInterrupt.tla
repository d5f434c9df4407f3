---------------------------- MODULE UdpInterrupt ----------------------------
(***************************************************************************)
(* UdpClient with SIGINT in the middle of a handler.  The handler of the   *)
(* signal runs sendByeMsgToServer on the members at once, wherever the     *)
(* interrupted handler stands, which then goes on.                         *)
(*                                                                         *)
(* The two handlers with the longest tails of assignments are cut into     *)
(* their statements: processStdinEvent for a line that is sent, and        *)
(* processServerReplyMsg for the answer to a request.  The others run in   *)
(* one step.  A signal inside a statement (say, in the middle of an        *)
(* assignment to m_msg_to_server) is undefined and left out; the signal is *)
(* blocked while its own handler runs.                                     *)
(***************************************************************************)
EXTENDS UdpClient, Sequences

CONSTANT MAX_SIGNALS    \* bound: number of signals

ASSUME InterruptAssumption == MAX_SIGNALS \in Nat

VARIABLES
    todo,       \* statements the interrupted or running handler still has to execute
    input,      \* user_input, or the REPLY: what these statements are about
    signals     \* number of signals so far

interruptVars == <<vars, todo, input, signals>>

InterruptInit == Init /\ todo = << >> /\ input = NoMessage /\ signals = 0

-----------------------------------------------------------------------------
(* The statements.                                                           *)

\* What a statement leaves alone when it sends nothing.
silently == sent' = NoDatagram /\ UNCHANGED <<status, displayed>>

\* m_user_display_name = user_input[3]; buildUserMsgToServer(user_input);
buildMsg ==
    /\ silently
    /\ m_user_display_name' = input.name
    /\ m_msg_to_server' = [type |-> input.type, id |-> m_msg_to_server_id, name |-> input.name]
    /\ copies' = 0
    /\ UNCHANGED <<flags, incoming, m_current_state, epoll, m_msg_to_server_id, m_allowed_retransmissions>>

\* sendMsgToServer(): whatever m_msg_to_server holds by now.
sendMsgToServer ==
    /\ UNCHANGED displayed
    /\ sendto(m_msg_to_server.type, m_msg_to_server.id, m_msg_to_server.name, m_server_addr,
           /\ copies' = copies + 1
           /\ UNCHANGED <<status, flags, incoming, session, epoll,
                          m_msg_to_server, m_msg_to_server_id, m_allowed_retransmissions>>)

setState(state) ==
    /\ silently
    /\ m_current_state' = state
    /\ UNCHANGED <<flags, outgoing, incoming, m_user_display_name, epoll>>

setFlags(confirm, reply) ==
    /\ silently
    /\ m_is_waiting_for_confirm' = confirm /\ m_is_waiting_for_reply' = reply
    /\ UNCHANGED <<m_is_waiting_for_bye_confirm, outgoing, incoming, session, epoll>>

setEpoll(effect) == silently /\ effect /\ UNCHANGED <<flags, outgoing, incoming, session>>

\* outputIncomingReply(...); sendConfirmMsg(reply_msg_id);
outputAndConfirm ==
    /\ outputOnce(input)
    /\ sendConfirmMsg(input, m_server_addr,
           UNCHANGED <<status, flags, outgoing, m_server_addr, session, epoll>>)

Effect(statement) ==
    \/ statement = "build" /\ buildMsg
    \/ statement = "send" /\ sendMsgToServer
    \/ statement = "auth state" /\ setState(IF m_current_state = "S_START" THEN "S_AUTH" ELSE m_current_state)
    \/ statement = "disableStdinEvents" /\ setEpoll(disableStdinEvents /\ UNCHANGED timer)
    \/ statement = "await confirm" /\ setFlags(TRUE, m_is_waiting_for_reply)
    \/ statement = "await reply" /\ setFlags(m_is_waiting_for_confirm, input.type \in {"AUTH", "JOIN"})
    \/ statement = "startTimer" /\ setEpoll(startTimer(CONFIRM_TIMEOUT) /\ UNCHANGED stdin_enabled)
    \/ statement = "stopTimer" /\ setEpoll(stopTimer /\ UNCHANGED stdin_enabled)
    \/ statement = "confirm" /\ outputAndConfirm
    \/ statement = "open" /\ setState(IF m_current_state = "S_JOIN" \/ input.ok THEN "S_OPEN" ELSE m_current_state)
    \/ statement = "got reply" /\ setFlags(m_is_waiting_for_confirm, FALSE)
    \/ statement = "enableStdinEvents" /\ setEpoll(enableStdinEvents /\ UNCHANGED timer)

StdinStatements ==
    <<"build", "send", "auth state", "disableStdinEvents", "await confirm", "await reply", "startTimer">>
ReplyStatements == <<"stopTimer", "confirm", "open", "got reply", "enableStdinEvents">>

-----------------------------------------------------------------------------
(* The handlers.                                                             *)

\* processStdinEvent() up to the first assignment.
beginRequest(type, name) ==
    /\ status = CONTINUE /\ todo = << >> /\ stdin_enabled
    /\ canSendMessageType(type)
    /\ type # "AUTH" => name = m_user_display_name
    /\ todo' = StdinStatements
    /\ input' = [type |-> type, name |-> name]
    /\ silently /\ UNCHANGED <<members, signals>>

\* The conditions of processServerReplyMsg() on the pending request.
isAnswer(d) ==
    d.type = "REPLY" /\ d.valid /\ m_current_state \in {"S_AUTH", "S_JOIN"} /\ answersRequest(d)

\* processServerReplyMsg() up to them.
beginReply(d) ==
    /\ status = CONTINUE /\ todo = << >>
    /\ isAnswer(d)
    /\ todo' = ReplyStatements
    /\ input' = d
    /\ m_server_addr' = IF m_current_state = "S_AUTH" THEN d.from ELSE m_server_addr
    /\ silently
    /\ UNCHANGED <<flags, outgoing, m_confirmed_server_messages, session, epoll, signals>>

nextStatement ==
    /\ status = CONTINUE /\ todo # << >>
    /\ Effect(Head(todo))
    /\ todo' = Tail(todo)
    /\ UNCHANGED <<input, signals>>

\* The handlers that run in one step.
wholeHandler(event) == todo = << >> /\ event /\ UNCHANGED <<todo, input, signals>>

signal ==
    /\ signals < MAX_SIGNALS
    /\ signals' = signals + 1
    /\ sigintHandler
    /\ UNCHANGED <<todo, input>>

InterruptNext ==
    \/ \E type \in {"AUTH", "JOIN", "MSG"}, name \in Names : beginRequest(type, name)
    \/ \E d \in Inputs : beginReply(d)
    \/ nextStatement
    \/ \E d \in Inputs : ~isAnswer(d) /\ wholeHandler(processSocketEvent(d))
    \/ wholeHandler(processTimerEvent)
    \/ signal

InterruptSpec == InterruptInit /\ [][InterruptNext]_interruptVars

-----------------------------------------------------------------------------
(* Properties.                                                               *)

\* A BYE that awaits its confirmation is retransmitted: "Otherwise, the message is
\* retransmitted and the timer is started again".  Between two handlers, the timer
\* runs and the message it sends again is the BYE (or an ERR that followed it).
\* The code does not keep it (README.md, udp_interrupt).
ByeRetransmitted ==
    running /\ todo = << >> /\ m_is_waiting_for_bye_confirm => closing /\ timer > 0

\* Wherever the signal comes, no handler leaves the loop with nothing that wakes it:
\* the statement that stops the timer is followed by the one that admits the user,
\* the one that blocks the user by the one that starts the timer.
AwakeBetweenHandlers == running /\ todo = << >> => stdin_enabled \/ timer > 0
=============================================================================
