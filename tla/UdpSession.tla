----------------------------- MODULE UdpSession -----------------------------
(***************************************************************************)
(* A session of the UDP client with a server that follows the protocol,    *)
(* over a network that loses, delays, reorders and duplicates datagrams.   *)
(*                                                                         *)
(* A datagram that was sent stays in its set and may be delivered at any   *)
(* later time, any number of times, or never: this covers the network's    *)
(* faults and the retransmissions of the server.  A REPLY comes again      *)
(* until the client has confirmed it, and afterwards only if               *)
(* REPLY_DUPLICATES holds: the CONFIRM was lost, or the network repeats.   *)
(*                                                                         *)
(* The server is not part of the repository: it is modelled from what the  *)
(* handlers of the client rely on.  It confirms every datagram, acts on    *)
(* each message id once, answers AUTH and JOIN with one REPLY, and talks   *)
(* from a port of its own (SESSION_ADDR) once it has answered.             *)
(***************************************************************************)
EXTENDS UdpClient, Sequences

CONSTANTS
    REPLY_DUPLICATES,  \* may a REPLY that was confirmed arrive again?
    STDIN_IS_PIPE,     \* may standard input hang up?
    WRAP_IDS,          \* may the client's ids wrap around?
    SESSION_ADDR,      \* the port the server continues on
    MAX_INPUT_ID,      \* bound: the user types while the id is below it
    MAX_INTERRUPTS,    \* bound: number of SIGINT, end-of-file and hang-up events
    MAX_SERVER_IDS     \* bound: number of messages of the server

ASSUME SessionAssumption ==
    /\ REPLY_DUPLICATES \in BOOLEAN /\ STDIN_IS_PIPE \in BOOLEAN /\ WRAP_IDS \in BOOLEAN
    /\ SESSION_ADDR \in Addrs
    /\ MAX_INPUT_ID \in Nat /\ MAX_INTERRUPTS \in Nat
    /\ MAX_SERVER_IDS \in 0 .. ID_SPACE

VARIABLES
    toServer, toClient,   \* datagrams that may be delivered
    srv_seen,             \* ids of the client the server has acted on
    srv_name,             \* {}, or the name the server authenticated, as a singleton
    srv_log,              \* MSG messages the server has taken: <<id, name>>
    srv_next,             \* next message id of the server
    stdin_closed,         \* has the writer of the pipe closed it?
    interrupts,           \* number of these events so far
    log,                  \* history: MSG messages the user typed
    acked                 \* history: number of them that were confirmed

server == <<srv_seen, srv_name, srv_log, srv_next>>
user == <<stdin_closed, interrupts>>
sessionVars == <<vars, toServer, toClient, server, user, log, acked>>

SessionInit ==
    /\ Init
    /\ toServer = {} /\ toClient = {}
    /\ srv_seen = {} /\ srv_name = {} /\ srv_log = << >> /\ srv_next = 0
    /\ stdin_closed = FALSE /\ interrupts = 0
    /\ log = << >> /\ acked = 0

-----------------------------------------------------------------------------
(* The client.                                                               *)

entry(m) == <<m.id, m.name>>

\* What the client transmits is in flight; its CONFIRMs only stop
\* retransmissions of the server and are dropped.
transmit ==
    /\ toServer' = toServer \cup {m \in {sent'} : m.type \in ClientMsgType}
    /\ WRAP_IDS \/ m_msg_to_server_id' >= m_msg_to_server_id

\* A REPLY the server need not send again.
isSettled(d) == d.type = "REPLY" /\ d.id \in m_confirmed_server_messages'

clientReceives(d) ==
    /\ d \in toClient
    /\ processSocketEvent(d)
    /\ transmit
    /\ toClient' = IF isSettled(d) /\ ~REPLY_DUPLICATES THEN toClient \ {d} ELSE toClient
    /\ acked' = IF /\ m_msg_to_server.type = "MSG"
                   /\ m_is_waiting_for_confirm /\ ~m_is_waiting_for_confirm'
                THEN acked + 1 ELSE acked
    /\ UNCHANGED <<server, user, log>>

clientTimer ==
    /\ processTimerEvent
    /\ transmit
    /\ UNCHANGED <<toClient, server, user, log, acked>>

\* A line is typed; the end of file counts as an interrupt.
userTypes ==
    /\ ~stdin_closed
    /\ m_msg_to_server_id < MAX_INPUT_ID
    /\ processUserInput
    /\ transmit
    /\ interrupts' = IF sent'.type = "BYE" THEN interrupts + 1 ELSE interrupts
    /\ interrupts' <= MAX_INTERRUPTS
    /\ log' = IF sent'.type = "MSG" THEN Append(log, entry(sent')) ELSE log
    /\ UNCHANGED <<toClient, server, stdin_closed, acked>>

userInterrupts ==
    /\ interrupts < MAX_INTERRUPTS
    /\ interrupts' = interrupts + 1
    /\ sigintHandler
    /\ transmit
    /\ UNCHANGED <<toClient, server, stdin_closed, log, acked>>

pipeCloses ==
    /\ STDIN_IS_PIPE /\ ~stdin_closed
    /\ interrupts < MAX_INTERRUPTS
    /\ interrupts' = interrupts + 1
    /\ stdin_closed' = TRUE
    /\ UNCHANGED <<vars, toServer, toClient, server, log, acked>>

\* Level-triggered: epoll reports the hang-up again after every handler.
stdinHangsUp ==
    /\ stdin_closed
    /\ processStdinHangup
    /\ transmit
    /\ UNCHANGED <<toClient, server, user, log, acked>>

-----------------------------------------------------------------------------
(* The server (external).                                                    *)

datagram(type, id, ref, ok, addr) ==
    [type |-> type, id |-> id, ref |-> ref, ok |-> ok, valid |-> TRUE, from |-> addr]

confirmOf(m) == datagram("CONFIRM", m.id, 0, TRUE, m.to)

\* A datagram whose id was seen before is confirmed again, nothing more.
serverSeesAgain(m) ==
    /\ m.id \in srv_seen
    /\ toClient' = toClient \cup {confirmOf(m)}
    /\ UNCHANGED <<srv_name, srv_log, srv_next>>

\* AUTH and JOIN are answered from the session's port.
serverAnswers(m, ok) ==
    /\ m.id \notin srv_seen
    /\ m.type \in {"AUTH", "JOIN"}
    /\ srv_next < MAX_SERVER_IDS
    /\ ok => (m.type = "AUTH" <=> srv_name = {})
    /\ srv_name' = IF ok /\ m.type = "AUTH" THEN {m.name} ELSE srv_name
    /\ srv_next' = srv_next + 1
    /\ toClient' = toClient \cup {confirmOf(m), datagram("REPLY", srv_next, m.id, ok, SESSION_ADDR)}
    /\ UNCHANGED srv_log

\* MSG is taken from an authenticated client; ERR and BYE need no answer.
serverTakes(m) ==
    /\ m.id \notin srv_seen
    /\ m.type \in {"MSG", "ERR", "BYE"}
    /\ srv_log' = IF m.type = "MSG" /\ srv_name # {} THEN Append(srv_log, entry(m)) ELSE srv_log
    /\ toClient' = toClient \cup {confirmOf(m)}
    /\ UNCHANGED <<srv_name, srv_next>>

serverReceives(m) ==
    /\ m \in toServer
    /\ srv_seen' = srv_seen \cup {m.id}
    /\ \/ serverSeesAgain(m)
       \/ \E ok \in BOOLEAN : serverAnswers(m, ok)
       \/ serverTakes(m)
    /\ UNCHANGED <<vars, toServer, user, log, acked>>

\* To an authenticated client the server passes messages on, or says good bye.
serverTalks(type) ==
    /\ srv_name # {}
    /\ srv_next < MAX_SERVER_IDS
    /\ srv_next' = srv_next + 1
    /\ toClient' = toClient \cup {datagram(type, srv_next, 0, TRUE, SESSION_ADDR)}
    /\ UNCHANGED <<vars, toServer, srv_seen, srv_name, srv_log, user, log, acked>>

SessionNext ==
    \/ \E d \in toClient : clientReceives(d)
    \/ clientTimer
    \/ userTypes
    \/ userInterrupts
    \/ pipeCloses
    \/ stdinHangsUp
    \/ \E m \in toServer : serverReceives(m)
    \/ \E type \in {"MSG", "PING", "BYE"} : serverTalks(type)

SafetySpec == SessionInit /\ [][SessionNext]_sessionVars

\* An armed timer of the kernel expires, epoll reports every ready descriptor in
\* turn, and the server answers what reaches it.
SessionSpec ==
    /\ SafetySpec
    /\ WF_sessionVars(clientTimer)
    /\ WF_sessionVars(stdinHangsUp)
    /\ WF_sessionVars(\E d \in toClient : clientReceives(d))
    /\ WF_sessionVars(\E m \in toServer : serverReceives(m))

-----------------------------------------------------------------------------
(* Properties.                                                               *)

\* While the user may type, nothing he typed before is still under way:
\* "the client must simultaneously process only a single user input".
SingleInput == running /\ stdin_enabled => ~awaitingConfirm /\ ~m_is_waiting_for_reply

\* The client believes it is signed in only if the server signed it in, and then
\* it talks to the port the server answered from.
SignedIn ==
    m_current_state \in {"S_OPEN", "S_JOIN"} => srv_name # {} /\ m_server_addr = SESSION_ADDR

\* The server signed the client in under the name of the AUTH the client believes
\* was accepted.
SignedInAsNamed ==
    [][m_current_state = "S_AUTH" /\ m_current_state' = "S_OPEN"
          => srv_name = {m_msg_to_server.name}]_sessionVars

\* The client exits with success only if the server got its BYE, or said BYE.
CleanExit ==
    status = EXIT_SUCCESS => \/ \E m \in toServer : m.type = "BYE" /\ m.id \in srv_seen
                             \/ \E d \in toClient : d.type = "BYE"

\* A message that is not an ERR is given up only after 1 + MAX_RETRANS copies:
\* whatever was retransmitted before it, its own budget is full.
FullBudget ==
    awaitingConfirm /\ m_msg_to_server.type # "ERR"
        => copies + m_allowed_retransmissions = MAX_RETRANS + 1

\* The same of every message the client sends, ERR included.  The code does not
\* keep it (README.md, err_budget).
FullBudgetAlways == awaitingConfirm => copies + m_allowed_retransmissions = MAX_RETRANS + 1

\* A message of these types that was confirmed before is confirmed again when it comes
\* again, to where the client sends by now, and has no other effect; or sendto() fails
\* and the program ends.
ignoredButConfirmed(types) ==
    \A d \in toClient :
        d.type \in types /\ d.id \in m_confirmed_server_messages /\ clientReceives(d)
        => \/ /\ sent'.type = "CONFIRM" /\ sent'.id = d.id /\ sent'.to = m_server_addr
              /\ UNCHANGED <<status, displayed, members>>
           \/ status' = EXIT_FAILURE /\ sent'.type = "NONE" /\ UNCHANGED <<displayed, members>>

\* "The client ignores duplicated messages from the server but confirms them": so it
\* does with MSG and PING in every state, also after an ERR or a BYE of its own.
DuplicateIsConfirmed == [][ignoredButConfirmed({"MSG", "PING"})]_sessionVars

\* The same of a REPLY.  The code does not keep it (README.md, duplicate_reply).
DuplicateReplyIsConfirmed == [][ignoredButConfirmed({"REPLY"})]_sessionVars

\* Once a request is confirmed, the REPLY that refers to it, whenever it comes, is taken
\* for its answer: "when reply is received, stdin events are enabled".  Otherwise the user
\* stays blocked until the timer ends the session.
ReplyRecognised ==
    running /\ m_is_waiting_for_reply /\ ~m_is_waiting_for_confirm =>
        \A d \in toClient : d.type = "REPLY" /\ d.ref = m_msg_to_server.id
            => "REPLY" \in expectedTypes[m_current_state] /\ answersRequest(d)

\* Lines typed by the user reach the server in order, once, and are acknowledged
\* only then.
Delivery == INSTANCE ChatDelivery WITH
    Lines <- MsgId \X Names, submitted <- log, delivered <- srv_log, acked <- acked

DeliveredInOrder == Delivery!DeliverySpec

\* Whatever is lost, a request of the user is resolved or the client exits.
Resolved == running /\ ~stdin_enabled ~> ~running \/ stdin_enabled

\* Closing standard input ends the program.  The code does not keep it (README.md,
\* hangup).
HangupTerminates == stdin_closed ~> ~running
=============================================================================
