-------------------------- MODULE UdpSessionProofs --------------------------
(***************************************************************************)
(* What TLAPS proves about the UDP client in a session with a server, over *)
(* a network that loses, delays, reorders and repeats datagrams, for every *)
(* number of retransmissions, every set of names and every length of the   *)
(* session.                                                                *)
(*                                                                         *)
(* BaseInv needs no hypothesis: the server answers from the port of the    *)
(* session, so the client that takes itself for signed in is.  Nor does    *)
(* SeenInv: what is confirmed is expected as long as it may come again     *)
(* (Seen), REPLYs apart.                                                   *)
(*                                                                         *)
(* IdInv needs that the ids do not wrap: they are in order (OrderedIds),   *)
(* the server answers what it has got and a request once (Answered), and a *)
(* REPLY is awaited for the last message only (Waits).                     *)
(*                                                                         *)
(* ExchangeInv relates the client's message, id and waits to what is in    *)
(* flight: an id stands for one message (Numbered), one exchange is over   *)
(* before the next begins (Turn, Settled), and its budget of               *)
(* retransmissions is its own (Budget).  It needs besides that a REPLY     *)
(* does not come again once it is confirmed; without that SingleInput,     *)
(* FullBudget, SignedInAsNamed and DeliveredInOrder are false.             *)
(*                                                                         *)
(* The proof has two halves: what each handler of the client does to the   *)
(* members the invariant is about (Effect), and that each such effect      *)
(* keeps each part of the invariant.                                       *)
(***************************************************************************)
EXTENDS UdpSession, UdpClientProofs

\* A message of the client that is on its way; and the ones the server answers with a REPLY.
Outgoing == [type : ClientMsgType, id : MsgId, name : Names, to : Addrs]
Requests == {"AUTH", "JOIN"}

\* What is on its way has its type, and the server keeps to the protocol.
InFlight ==
    /\ toServer \subseteq Outgoing
    /\ toClient \subseteq Datagram
    /\ srv_next \in Nat /\ srv_next <= MAX_SERVER_IDS
    /\ awaitingConfirm => m_msg_to_server.type \in ClientMsgType

\* What the server sends: a REPLY comes from the port of the session, an accepting one
\* only from a server that has signed the client in.
FromServer ==
    \A d \in toClient :
        /\ d.valid
        /\ d.type \notin {"ERR", "OTHER"}
        /\ d.type = "REPLY" => d.from = SESSION_ADDR /\ (d.ok => srv_name # {})

\* The ids of what has been sent go up to the next one, and that of a BYE is its own.
OrderedIds ==
    /\ \A m \in toServer : m.id <= m_msg_to_server_id
    /\ awaitingConfirm => m_msg_to_server.id = m_msg_to_server_id
    /\ ~awaitingConfirm => \A m \in toServer : m.id < m_msg_to_server_id
    /\ \A m \in toServer : m.id = m_msg_to_server.id /\ m_msg_to_server.type = "BYE" => m.type = "BYE"

\* An id stands for one message.
Numbered ==
    /\ OrderedIds
    /\ \A m \in toServer : m.id = m_msg_to_server.id
           => m.type = m_msg_to_server.type /\ m.name = m_msg_to_server.name
    /\ \A m, n \in toServer : m.id = n.id => m.type = n.type /\ m.name = n.name

\* The server answers what it has got, and a request once.
Answered ==
    /\ \A i \in srv_seen : \E m \in toServer : m.id = i
    /\ \A d \in toClient : d.type = "CONFIRM" => d.id \in srv_seen
    /\ \A d \in toClient : d.type = "REPLY" =>
           /\ d.ref \in srv_seen
           /\ \E m \in toServer : m.id = d.ref /\ m.type \in Requests
    /\ \A d, e \in toClient : d.type = "REPLY" /\ e.type = "REPLY" /\ d.ref = e.ref => d = e

\* A REPLY is awaited for the message sent last only, in a state that expects it.
Waits ==
    /\ m_is_waiting_for_reply => m_msg_to_server.type \in Requests
    /\ m_is_waiting_for_reply /\ ~m_is_waiting_for_confirm =>
           /\ m_msg_to_server_id = m_msg_to_server.id + 1
           /\ m_current_state \in {"S_AUTH", "S_JOIN"}

\* One exchange at a time: the user's turn comes when nothing is awaited.
Turn ==
    /\ Waits
    /\ stdin_enabled => ~awaitingConfirm /\ ~m_is_waiting_for_reply
    /\ m_msg_to_server.type \in {"JOIN", "MSG"} => m_current_state \in {"S_OPEN", "S_JOIN"}

\* While the user may type or waits for the CONFIRM of a request, no REPLY to the message
\* before is under way or can still be sent.
Settled ==
    stdin_enabled \/ (m_is_waiting_for_reply /\ m_is_waiting_for_confirm) =>
        /\ \A d \in toClient : d.type = "REPLY" => d.ref # m_msg_to_server_id - 1
        /\ \A m \in toServer :
               m.id = m_msg_to_server_id - 1 /\ m.type \in Requests => m.id \in srv_seen

\* Between two messages the budget is full.
Budget == FullBudget /\ (~awaitingConfirm => m_allowed_retransmissions = MAX_RETRANS)

\* The REPLY that accepts an AUTH stands for the name of that AUTH.
Accepted ==
    \A d \in toClient, m \in toServer :
        d.type = "REPLY" /\ d.ok /\ m.type = "AUTH" /\ m.id = d.ref => srv_name = {m.name}

\* The ids of the server are its own, and a MSG or a PING that is confirmed is of a type
\* the client still expects.
Seen ==
    /\ \A i \in m_confirmed_server_messages : i < srv_next
    /\ \A d \in toClient : d.type # "CONFIRM" => d.id < srv_next
    /\ \A d, e \in toClient : d.type # "CONFIRM" /\ e.type # "CONFIRM" /\ d.id = e.id => d = e
    /\ \A d \in toClient :
           d.type \in {"MSG", "PING"} /\ d.id \in m_confirmed_server_messages
           => d.type \in expectedTypes[m_current_state]

BaseInv == IInv /\ InFlight /\ FromServer /\ SignedIn
SeenInv == BaseInv /\ Seen

\* What holds even when a confirmed REPLY comes again.
IdInv == BaseInv /\ OrderedIds /\ Answered /\ Waits /\ CleanExit

ExchangeInv ==
    /\ BaseInv
    /\ Numbered /\ Answered /\ Turn /\ Settled
    /\ Budget /\ Accepted /\ CleanExit

-----------------------------------------------------------------------------
(* What a step of the client does to the members the invariant is about.     *)

\* Nothing but a CONFIRM leaves, and no wait begins or ends.
idle ==
    /\ UNCHANGED <<m_current_state, m_is_waiting_for_reply, m_is_waiting_for_confirm,
                   m_is_waiting_for_bye_confirm, m_msg_to_server, m_msg_to_server_id,
                   m_allowed_retransmissions, copies, stdin_enabled>>
    /\ sent'.type \in {"NONE", "CONFIRM"}
    /\ m_current_state # "S_AUTH" => UNCHANGED m_server_addr

\* A new message leaves.
sends(type, id, name) ==
    /\ sent' = [type |-> type, id |-> id, name |-> name, to |-> m_server_addr]
    /\ m_msg_to_server' = [type |-> type, id |-> id, name |-> name]
    /\ m_msg_to_server_id' = id
    /\ copies' = 1
    /\ stdin_enabled' = FALSE
    /\ UNCHANGED m_server_addr

\* It is a request of the user.
asks(type, name) ==
    /\ stdin_enabled /\ canSendMessageType(type)
    /\ sends(type, m_msg_to_server_id, name)
    /\ m_current_state' = IF m_current_state = "S_START" THEN "S_AUTH" ELSE m_current_state
    /\ m_is_waiting_for_confirm' = TRUE
    /\ m_is_waiting_for_reply' = (type \in Requests)
    /\ UNCHANGED <<m_is_waiting_for_bye_confirm, m_allowed_retransmissions>>

\* It is an ERR or a BYE.
closes(type) ==
    /\ sends(type, NextId(m_msg_to_server_id), m_user_display_name)
    /\ m_is_waiting_for_reply' = FALSE
    /\ m_is_waiting_for_confirm' \/ m_is_waiting_for_bye_confirm'
    /\ type = "ERR" => m_is_waiting_for_confirm'
    /\ type = "BYE" => m_allowed_retransmissions' = MAX_RETRANS
    /\ UNCHANGED m_current_state

\* The message leaves again.
repeats ==
    /\ sent' = [type |-> m_msg_to_server.type, id |-> m_msg_to_server.id,
                name |-> m_msg_to_server.name, to |-> m_server_addr]
    /\ awaitingConfirm
    /\ m_allowed_retransmissions > 0
    /\ m_allowed_retransmissions' = m_allowed_retransmissions - 1
    /\ copies' = copies + 1
    /\ UNCHANGED <<m_current_state, m_is_waiting_for_reply, m_is_waiting_for_confirm,
                   m_is_waiting_for_bye_confirm, m_msg_to_server, m_msg_to_server_id,
                   stdin_enabled, m_server_addr>>

\* The CONFIRM d of a message: the next id is taken.
confirmsBy(d) ==
    /\ d.type = "CONFIRM" /\ d.id = m_msg_to_server_id
    /\ m_is_waiting_for_confirm' = FALSE
    /\ m_allowed_retransmissions' = MAX_RETRANS
    /\ m_msg_to_server_id' = NextId(m_msg_to_server_id)
    /\ sent' = NoDatagram
    /\ UNCHANGED <<m_is_waiting_for_bye_confirm, m_msg_to_server, copies, m_server_addr>>

\* It was a request, whose REPLY is awaited from now on.
confirmsRequest(d) ==
    /\ confirmsBy(d)
    /\ m_is_waiting_for_reply' = TRUE
    /\ \/ m_msg_to_server.type = "AUTH" /\ m_current_state = "S_AUTH" /\ m_current_state' = "S_AUTH"
       \/ m_msg_to_server.type = "JOIN" /\ m_current_state = "S_OPEN" /\ m_current_state' = "S_JOIN"
    /\ UNCHANGED stdin_enabled

\* It was a MSG, and the user may type again.
confirmsMsg(d) ==
    /\ confirmsBy(d)
    /\ m_msg_to_server.type = "MSG"
    /\ stdin_enabled' = TRUE
    /\ UNCHANGED <<m_is_waiting_for_reply, m_current_state>>

\* The REPLY d answers the request.
resolves(d) ==
    /\ d.type = "REPLY" /\ m_current_state \in {"S_AUTH", "S_JOIN"}
    /\ m_is_waiting_for_reply /\ m_msg_to_server_id - 1 = d.ref
    /\ m_is_waiting_for_reply' = FALSE
    /\ stdin_enabled' = TRUE
    /\ sent'.type = "CONFIRM" /\ d.id \in m_confirmed_server_messages'
    /\ m_server_addr' = IF m_current_state = "S_AUTH" THEN d.from ELSE m_server_addr
    /\ m_current_state' = IF m_current_state = "S_JOIN" \/ d.ok THEN "S_OPEN" ELSE m_current_state
    /\ UNCHANGED <<m_is_waiting_for_confirm, m_is_waiting_for_bye_confirm, m_msg_to_server,
                   m_msg_to_server_id, m_allowed_retransmissions, copies>>

LEMMA NothingIsNone == NoDatagram.type = "NONE"
BY SMT DEF NoDatagram

LEMMA IdleThrow == throwException => idle
<1> SUFFICES ASSUME throwException PROVE idle
    OBVIOUS
<1>1. UNCHANGED members /\ sent' = NoDatagram
    BY Zenon DEF throwException, leave
<1> QED
    BY <1>1, NothingIsNone, Zenon DEF idle, members, flags, outgoing, incoming, session, epoll

LEMMA IdleTerminate == terminate => idle
<1> SUFFICES ASSUME terminate PROVE idle
    OBVIOUS
<1>1. UNCHANGED members /\ sent' = NoDatagram
    BY Zenon DEF terminate, leave
<1> QED
    BY <1>1, NothingIsNone, Zenon DEF idle, members, flags, outgoing, incoming, session, epoll

LEMMA IdleNoEffect == noEffect => idle
<1> SUFFICES ASSUME noEffect PROVE idle
    OBVIOUS
<1>1. UNCHANGED members /\ sent' = NoDatagram
    BY Zenon DEF noEffect
<1> QED
    BY <1>1, NothingIsNone, Zenon DEF idle, members, flags, outgoing, incoming, session, epoll

LEMMA ErrCloses == sendErrMsg => idle \/ closes("ERR")
<1>1. sendErrMsg /\ ~throwException => closes("ERR")
    BY Zenon DEF sendErrMsg, buildAndSend, sendto, disableStdinEvents, startTimer, incoming,
                 session, closes, sends
<1> QED
    BY <1>1, IdleThrow, Zenon

LEMMA ByeCloses == sendByeMsgToServer => idle \/ closes("BYE")
<1>1. sendByeMsgToServer /\ ~throwException => closes("BYE")
    BY Zenon DEF sendByeMsgToServer, buildAndSend, sendto, disableStdinEvents, startTimer,
                 incoming, session, closes, sends
<1> QED
    BY <1>1, IdleThrow, Zenon

\* A line of the user.
LEMMA UserEffect ==
    ASSUME processUserInput
    PROVE  \/ idle
           \/ closes("BYE")
           \/ \E type \in {"AUTH", "JOIN", "MSG"}, name \in Names : asks(type, name)
<1>1. CASE sendByeMsgToServer \/ noEffect
    BY <1>1, ByeCloses, IdleNoEffect, Zenon
<1>2. ASSUME NEW type \in {"AUTH", "JOIN", "MSG"}, NEW name \in Names, userRequest(type, name),
             stdin_enabled
      PROVE  idle \/ asks(type, name)
  <2>1. CASE throwException
      BY <2>1, IdleThrow, Zenon
  <2>2. CASE ~throwException
      BY <1>2, <2>2, Zenon DEF userRequest, buildAndSend, sendto, disableStdinEvents, startTimer,
                               incoming, asks, sends, Requests
  <2> QED
      BY <2>1, <2>2, Zenon
<1>3. ASSUME NEW name \in Names, userRename(name) PROVE idle
    BY <1>3, NothingIsNone, Zenon DEF userRename, idle, flags, outgoing, incoming, epoll
<1> QED
    BY <1>1, <1>2, <1>3, Zenon DEF processUserInput

\* The timer.
LEMMA TimerEffect == processTimerEvent => idle \/ closes("ERR") \/ repeats
<1> SUFFICES ASSUME processTimerEvent PROVE idle \/ closes("ERR") \/ repeats
    OBVIOUS
<1>1. CASE throwException \/ sendErrMsg
    BY <1>1, IdleThrow, ErrCloses, Zenon
<1>2. CASE retransmit /\ ~throwException /\ awaitingConfirm /\ m_allowed_retransmissions > 0
    BY <1>2, Zenon DEF retransmit, sendto, startTimer, flags, incoming, session, repeats
<1> QED
    BY <1>1, <1>2, Zenon DEF processTimerEvent, awaitingConfirm

\* A datagram of the server.
LEMMA SocketEffect ==
    ASSUME NEW d, processSocketEvent(d), m_current_state \in FSM_state
    PROVE  \/ idle
           \/ closes("ERR")
           \/ confirmsRequest(d)
           \/ confirmsMsg(d)
           \/ resolves(d)
<1>1. processMessageFromServer(d)
    BY Zenon DEF processSocketEvent
<1>2. CASE sendErrMsg \/ throwException \/ noEffect
    BY <1>2, ErrCloses, IdleThrow, IdleNoEffect, Zenon
<1>3. CASE ~sendErrMsg /\ ~throwException /\ ~noEffect
  <2> DEFINE confirming(addr) == [type |-> "CONFIRM", id |-> d.id, name |-> UNKNOWN, to |-> addr]
  <2>0. \A addr : confirming(addr).type = "CONFIRM"
      BY SMT
  <2> HIDE DEF confirming
  <2>1. CASE processServerByeMsg(d) \/ processServerErrMsg(d)
    <3>1. /\ sent' = confirming(m_server_addr)
          /\ UNCHANGED <<flags, outgoing, m_server_addr, session, epoll>>
        BY <1>3, <2>1, Zenon DEF processServerByeMsg, processServerErrMsg, endedByServer,
                                 sendConfirmMsg, sendto, confirming
    <3> QED
        BY <2>0, <3>1, Zenon DEF idle, flags, outgoing, session, epoll
  <2>2. CASE processServerMsgMsg(d) \/ processServerPingMsg(d)
    <3>1. /\ sent' = confirming(m_server_addr)
          /\ UNCHANGED <<flags, outgoing, m_server_addr, session, epoll>>
        BY <1>3, <2>2, Zenon DEF processServerMsgMsg, processServerPingMsg, sendConfirmMsg,
           sendto,
                                 confirming
    <3> QED
        BY <2>0, <3>1, Zenon DEF idle, flags, outgoing, session, epoll
  <2>3. CASE d.type = "REPLY" /\ d.type \in expectedTypes[m_current_state] /\ processServerReplyMsg(d)
    <3> DEFINE addr == IF m_current_state = "S_AUTH" THEN d.from ELSE m_server_addr
    <3>1. CASE answersRequest(d) /\ acceptReply(d, addr)
      <4>1. m_current_state \in {"S_AUTH", "S_JOIN"}
          BY <2>3, SMT DEF expectedTypes, FSM_state
      <4>2. /\ sent' = confirming(addr)
            /\ d.id \in m_confirmed_server_messages'
            /\ m_server_addr' = addr
            /\ m_current_state' = IF m_current_state = "S_JOIN" \/ d.ok THEN "S_OPEN" ELSE m_current_state
            /\ m_is_waiting_for_reply' = FALSE
            /\ stdin_enabled' = TRUE
            /\ UNCHANGED <<m_is_waiting_for_confirm, m_is_waiting_for_bye_confirm, outgoing>>
          BY <1>3, <3>1, Zenon DEF acceptReply, sendConfirmMsg, sendto, confirming,
             enableStdinEvents
      <4> QED
          BY <2>0, <2>3, <3>1, <4>1, <4>2, Zenon DEF resolves, answersRequest, outgoing
    <3>2. CASE /\ m_server_addr' = addr /\ sent' = NoDatagram
               /\ UNCHANGED <<flags, outgoing, session, epoll>>
        BY <3>2, NothingIsNone, Zenon DEF idle, flags, outgoing, session, epoll
    <3> QED
        BY <1>3, <2>3, <3>1, <3>2, Zenon DEF processServerReplyMsg
  <2>4. CASE d.type = "CONFIRM" /\ processServerConfirmMsg(d)
    <3>1. CASE \E code : leave(code) /\ sent' = NoDatagram
        BY <3>1, NothingIsNone, Zenon DEF leave, idle, members, flags, outgoing, incoming,
           session, epoll
    <3>2. CASE d.id = m_msg_to_server_id
               /\ \/ /\ m_msg_to_server.type = "AUTH" /\ m_current_state = "S_AUTH"
                     /\ confirmedRequest("S_AUTH")
                  \/ /\ m_msg_to_server.type = "JOIN" /\ m_current_state = "S_OPEN"
                     /\ confirmedRequest("S_JOIN")
        BY <2>4, <3>2, Zenon DEF confirmedRequest, confirmsRequest, confirmsBy, incoming
    <3>3. CASE d.id = m_msg_to_server_id /\ m_msg_to_server.type = "MSG" /\ confirmedMsg
        BY <2>4, <3>3, Zenon DEF confirmedMsg, confirmsMsg, confirmsBy, incoming, session,
                                 enableStdinEvents
    <3> QED
        BY <1>3, <2>4, <3>1, <3>2, <3>3, Zenon DEF processServerConfirmMsg, matchesConfirm
  <2> QED
      BY <1>1, <1>3, <2>1, <2>2, <2>3, <2>4, Zenon DEF processMessageFromServer
<1> QED
    BY <1>2, <1>3, Zenon

-----------------------------------------------------------------------------
(* The same of a step of the session.                                        *)

\* Nothing that the invariant is about changes on the side of the client.
keeps ==
    /\ UNCHANGED <<m_current_state, m_is_waiting_for_reply, m_is_waiting_for_confirm,
                   m_is_waiting_for_bye_confirm, m_msg_to_server, m_msg_to_server_id,
                   m_allowed_retransmissions, copies, stdin_enabled>>
    /\ m_current_state # "S_AUTH" => UNCHANGED m_server_addr
    /\ UNCHANGED <<toServer, log, acked>>

\* The datagram that was sent is in flight.
posted == toServer' = toServer \cup {sent'}

clientEffect ==
    /\ UNCHANGED <<srv_seen, srv_name, srv_log, srv_next>>
    /\ toClient' \subseteq toClient
    /\ WRAP_IDS \/ m_msg_to_server_id' >= m_msg_to_server_id
    /\ \/ keeps
       \/ /\ \E type \in {"AUTH", "JOIN", "MSG"}, name \in Names : asks(type, name)
          /\ posted
          /\ log' = IF m_msg_to_server'.type = "MSG"
                    THEN Append(log, entry(m_msg_to_server')) ELSE log
          /\ UNCHANGED acked
       \/ (\E type \in {"ERR", "BYE"} : closes(type)) /\ posted /\ UNCHANGED <<log, acked>>
       \/ repeats /\ posted /\ UNCHANGED <<log, acked>>
       \/ (\E d \in toClient : confirmsRequest(d)) /\ UNCHANGED <<toServer, log, acked>>
       \/ /\ \E d \in toClient : confirmsMsg(d)
          /\ acked' = IF m_is_waiting_for_confirm THEN acked + 1 ELSE acked
          /\ UNCHANGED <<toServer, log>>
       \/ /\ \E d \in toClient : resolves(d) /\ (REPLY_DUPLICATES \/ d \notin toClient')
          /\ UNCHANGED <<toServer, log, acked>>

LEMMA Transmitted ==
    ASSUME transmit
    PROVE  /\ sent'.type \in ClientMsgType => posted
           /\ sent'.type \notin ClientMsgType => UNCHANGED toServer
           /\ WRAP_IDS \/ m_msg_to_server_id' >= m_msg_to_server_id
BY SMT DEF transmit, posted

LEMMA NotPosted == {"NONE", "CONFIRM"} \cap ClientMsgType = {}
BY SMT DEF ClientMsgType

LEMMA IdleKeeps ==
    ASSUME idle, transmit, UNCHANGED <<log, acked>>
    PROVE  keeps
<1>1. UNCHANGED toServer
    BY Transmitted, NotPosted, Zenon DEF idle
<1> QED
    BY <1>1, Zenon DEF idle, keeps

LEMMA ClosesPosts ==
    ASSUME NEW type \in {"ERR", "BYE"}, closes(type), transmit
    PROVE  posted /\ sent'.type = type
<1>1. sent'.type = type /\ type \in ClientMsgType
    BY SMT DEF closes, sends, ClientMsgType
<1> QED
    BY <1>1, Transmitted, Zenon

LEMMA ReceivesEffect ==
    ASSUME NEW d \in toClient, clientReceives(d), IInv
    PROVE  clientEffect
<1>1. /\ processSocketEvent(d) /\ transmit
      /\ toClient' = IF isSettled(d) /\ ~REPLY_DUPLICATES THEN toClient \ {d} ELSE toClient
      /\ acked' = IF /\ m_msg_to_server.type = "MSG"
                     /\ m_is_waiting_for_confirm /\ ~m_is_waiting_for_confirm'
                  THEN acked + 1 ELSE acked
      /\ UNCHANGED <<srv_seen, srv_name, srv_log, srv_next, log>>
    BY Zenon DEF clientReceives, server
<1>2. m_current_state \in FSM_state
    BY TypeFacts, Zenon
<1>3. toClient' \subseteq toClient
    BY <1>1, SMT
<1>4. WRAP_IDS \/ m_msg_to_server_id' >= m_msg_to_server_id
    BY <1>1, Transmitted, Zenon
<1>5. CASE idle
  <2>1. UNCHANGED acked
      BY <1>1, <1>5, Zenon DEF idle
  <2> QED
      BY <1>1, <1>3, <1>4, <1>5, <2>1, IdleKeeps, Zenon DEF clientEffect
<1>6. CASE closes("ERR")
  <2>1. UNCHANGED acked
      BY <1>1, <1>6, Zenon DEF closes
  <2> QED
      BY <1>1, <1>3, <1>4, <1>6, <2>1, ClosesPosts, Zenon DEF clientEffect
<1>7. CASE confirmsRequest(d)
  <2>1. UNCHANGED acked
      BY <1>1, <1>7, SMT DEF confirmsRequest
  <2>2. UNCHANGED toServer
      BY <1>1, <1>7, Transmitted, NotPosted, NothingIsNone, Zenon DEF confirmsRequest, confirmsBy
  <2> QED
      BY <1>1, <1>3, <1>4, <1>7, <2>1, <2>2, Zenon DEF clientEffect
<1>8. CASE confirmsMsg(d)
  <2>1. acked' = IF m_is_waiting_for_confirm THEN acked + 1 ELSE acked
      BY <1>1, <1>8, Zenon DEF confirmsMsg, confirmsBy
  <2>2. UNCHANGED toServer
      BY <1>1, <1>8, Transmitted, NotPosted, NothingIsNone, Zenon DEF confirmsMsg, confirmsBy
  <2> QED
      BY <1>1, <1>3, <1>4, <1>8, <2>1, <2>2, Zenon DEF clientEffect
<1>9. CASE resolves(d)
  <2>1. UNCHANGED acked
      BY <1>1, <1>9, Zenon DEF resolves
  <2>2. UNCHANGED toServer
      BY <1>1, <1>9, Transmitted, NotPosted, Zenon DEF resolves
  <2>3. REPLY_DUPLICATES \/ d \notin toClient'
      BY <1>1, <1>9, SMT DEF resolves, isSettled
  <2> QED
      BY <1>1, <1>3, <1>4, <1>9, <2>1, <2>2, <2>3, Zenon DEF clientEffect
<1> QED
    BY <1>1, <1>2, <1>5, <1>6, <1>7, <1>8, <1>9, SocketEffect, Zenon

LEMMA ClientTimerEffect == InFlight /\ clientTimer => clientEffect
<1> SUFFICES ASSUME InFlight, clientTimer PROVE clientEffect
    OBVIOUS
<1>1. /\ processTimerEvent /\ transmit
      /\ UNCHANGED <<toClient, srv_seen, srv_name, srv_log, srv_next, log, acked>>
    BY Zenon DEF clientTimer, server
<1>2. toClient' \subseteq toClient /\ (WRAP_IDS \/ m_msg_to_server_id' >= m_msg_to_server_id)
    BY <1>1, Transmitted, Zenon
<1>3. CASE idle
    BY <1>1, <1>2, <1>3, IdleKeeps, Zenon DEF clientEffect
<1>4. CASE closes("ERR")
    BY <1>1, <1>2, <1>4, ClosesPosts, Zenon DEF clientEffect
<1>5. CASE repeats
  <2>1. sent'.type = m_msg_to_server.type
      BY <1>5, SMT DEF repeats
  <2>2. posted
      BY <1>1, <1>5, <2>1, Transmitted, Zenon DEF repeats, InFlight
  <2> QED
      BY <1>1, <1>2, <1>5, <2>2, Zenon DEF clientEffect
<1> QED
    BY <1>1, <1>3, <1>4, <1>5, TimerEffect, Zenon

LEMMA UserTypesEffect == userTypes => clientEffect
<1> SUFFICES ASSUME userTypes PROVE clientEffect
    OBVIOUS
<1>1. /\ processUserInput /\ transmit
      /\ log' = IF sent'.type = "MSG" THEN Append(log, entry(sent')) ELSE log
      /\ UNCHANGED <<toClient, srv_seen, srv_name, srv_log, srv_next, acked>>
    BY Zenon DEF userTypes, server
<1>2. toClient' \subseteq toClient /\ (WRAP_IDS \/ m_msg_to_server_id' >= m_msg_to_server_id)
    BY <1>1, Transmitted, Zenon
<1>3. CASE idle
  <2>1. sent'.type # "MSG"
      BY <1>3, SMT DEF idle
  <2> QED
      BY <1>1, <1>2, <1>3, <2>1, IdleKeeps, Zenon DEF clientEffect
<1>4. CASE closes("BYE")
  <2>1. posted /\ sent'.type # "MSG"
      BY <1>1, <1>4, ClosesPosts, SMT
  <2> QED
      BY <1>1, <1>2, <1>4, <2>1, Zenon DEF clientEffect
<1>5. ASSUME NEW type \in {"AUTH", "JOIN", "MSG"}, NEW name \in Names, asks(type, name)
      PROVE  clientEffect
  <2>1. /\ sent'.type = type /\ type \in ClientMsgType
        /\ m_msg_to_server'.type = type /\ entry(sent') = entry(m_msg_to_server')
      BY <1>5, SMT DEF asks, sends, ClientMsgType, entry
  <2>2. posted
      BY <1>1, <2>1, Transmitted, Zenon
  <2> QED
      BY <1>1, <1>2, <1>5, <2>1, <2>2, Zenon DEF clientEffect
<1> QED
    BY <1>1, <1>3, <1>4, <1>5, UserEffect, Zenon

LEMMA InterruptEffect == userInterrupts \/ stdinHangsUp => clientEffect
<1> SUFFICES ASSUME userInterrupts \/ stdinHangsUp PROVE clientEffect
    OBVIOUS
<1>1. /\ sendByeMsgToServer \/ terminate
      /\ transmit
      /\ UNCHANGED <<toClient, srv_seen, srv_name, srv_log, srv_next, log, acked>>
    BY Zenon DEF userInterrupts, stdinHangsUp, sigintHandler, processStdinHangup, server
<1>2. toClient' \subseteq toClient /\ (WRAP_IDS \/ m_msg_to_server_id' >= m_msg_to_server_id)
    BY <1>1, Transmitted, Zenon
<1>3. CASE idle
    BY <1>1, <1>2, <1>3, IdleKeeps, Zenon DEF clientEffect
<1>4. CASE closes("BYE")
    BY <1>1, <1>2, <1>4, ClosesPosts, Zenon DEF clientEffect
<1> QED
    BY <1>1, <1>3, <1>4, ByeCloses, IdleTerminate, Zenon

\* The writer of the pipe closes it, or nothing happens.
LEMMA PipeEffect ==
    ASSUME IInv, pipeCloses \/ UNCHANGED sessionVars
    PROVE  clientEffect
<1>1. UNCHANGED <<vars, toServer, toClient, srv_seen, srv_name, srv_log, srv_next, log, acked>>
    BY Zenon DEF pipeCloses, sessionVars, server
<1>2. keeps
    BY <1>1, Zenon DEF vars, members, flags, outgoing, incoming, session, epoll, keeps
<1>3. m_msg_to_server_id >= m_msg_to_server_id
    BY TypeFacts, SMT DEF MsgId
<1> QED
    BY <1>1, <1>2, <1>3, Zenon DEF clientEffect, keeps

\* Every step of the session is one of the client or one of the server.
LEMMA StepEffect ==
    ASSUME IInv, InFlight, [SessionNext]_sessionVars
    PROVE  \/ clientEffect
           \/ \E m \in toServer : serverReceives(m)
           \/ \E type \in {"MSG", "PING", "BYE"} : serverTalks(type)
BY ReceivesEffect, ClientTimerEffect, UserTypesEffect, InterruptEffect, PipeEffect, Zenon
   DEF SessionNext

\* The server answers with datagrams.
LEMMA ServerDatagrams ==
    ASSUME InFlight
    PROVE  /\ \A m \in toServer : confirmOf(m) \in Datagram
           /\ \A m \in toServer, ok \in BOOLEAN : srv_next < MAX_SERVER_IDS
                  => datagram("REPLY", srv_next, m.id, ok, SESSION_ADDR) \in Datagram
           /\ \A type \in {"MSG", "PING", "BYE"} : srv_next < MAX_SERVER_IDS
                  => datagram(type, srv_next, 0, TRUE, SESSION_ADDR) \in Datagram
<1>1. srv_next < MAX_SERVER_IDS => srv_next \in MsgId
    BY SessionAssumption, ConstantsAssumption, SMT DEF InFlight, MsgId
<1>2. 0 \in MsgId /\ SESSION_ADDR \in Addrs
    BY ConstantFacts, SessionAssumption, Zenon
<1>3. \A m \in toServer : m.id \in MsgId /\ m.to \in Addrs
    BY SMT DEF InFlight, Outgoing
<1> QED
    BY <1>1, <1>2, <1>3, SMT DEF confirmOf, datagram, Datagram, ServerMsgType

\* The invariant of the client survives in the session.
LEMMA ClientInv ==
    ASSUME IInv, InFlight, [SessionNext]_sessionVars
    PROVE  IInv'
<1>1. ASSUME NEW d \in toClient, clientReceives(d) PROVE IInv'
  <2>1. d \in Datagram /\ processSocketEvent(d)
      BY <1>1, Zenon DEF InFlight, clientReceives
  <2> QED
      BY <2>1, SocketStep, Zenon
<1>2. CASE clientTimer \/ userTypes \/ userInterrupts \/ stdinHangsUp
    BY <1>2, LocalStep, Zenon DEF clientTimer, userTypes, userInterrupts, stdinHangsUp, localEvent
<1>3. CASE UNCHANGED vars
    BY <1>3, StutterStep, Zenon
<1> QED
    BY <1>1, <1>2, <1>3, Zenon DEF SessionNext, pipeCloses, serverReceives, serverTalks,
       sessionVars

\* What is posted is a message of the client.
LEMMA PostedOutgoing ==
    ASSUME IInv, IInv', InFlight, clientEffect
    PROVE  toServer' \subseteq Outgoing
<1>1. ASSUME sent'.type \in ClientMsgType, posted PROVE toServer' \subseteq Outgoing
  <2>1. sent' \in [type : ClientMsgType \cup {"NONE", "CONFIRM"}, id : MsgId, name : Names, to : Addrs]
      BY Zenon DEF IInv, TypeOK, SentType
  <2>2. sent' \in Outgoing
      BY <1>1, <2>1, SMT DEF Outgoing
  <2> QED
      BY <1>1, <2>2, SMT DEF posted, InFlight
<1>2. ASSUME NEW type \in {"AUTH", "JOIN", "MSG"}, NEW name, asks(type, name)
      PROVE  sent'.type \in ClientMsgType
    BY <1>2, SMT DEF asks, sends, ClientMsgType
<1>3. ASSUME NEW type \in {"ERR", "BYE"}, closes(type)
      PROVE  sent'.type \in ClientMsgType
    BY <1>3, SMT DEF closes, sends, ClientMsgType
<1>4. repeats => sent'.type \in ClientMsgType
    BY SMT DEF repeats, InFlight
<1>5. CASE UNCHANGED toServer
    BY <1>5, Zenon DEF InFlight
<1> QED
    BY <1>1, <1>2, <1>3, <1>4, <1>5, Zenon DEF clientEffect, keeps

\* A message that awaits its confirmation has been built.
LEMMA PendingType ==
    ASSUME IInv, InFlight, clientEffect, awaitingConfirm'
    PROVE  m_msg_to_server'.type \in ClientMsgType
<1>1. ASSUME NEW type \in {"AUTH", "JOIN", "MSG"}, NEW name, asks(type, name)
      PROVE  m_msg_to_server'.type \in ClientMsgType
    BY <1>1, SMT DEF asks, sends, ClientMsgType
<1>2. ASSUME NEW type \in {"ERR", "BYE"}, closes(type)
      PROVE  m_msg_to_server'.type \in ClientMsgType
    BY <1>2, SMT DEF closes, sends, ClientMsgType
<1>3. ASSUME NEW d, confirmsBy(d) PROVE awaitingConfirm /\ UNCHANGED m_msg_to_server
    BY <1>3, Zenon DEF confirmsBy, awaitingConfirm
<1>4. ASSUME NEW d, resolves(d) PROVE awaitingConfirm /\ UNCHANGED m_msg_to_server
    BY <1>4, Zenon DEF resolves, awaitingConfirm
<1>5. CASE keeps \/ repeats
    BY <1>5, Zenon DEF keeps, repeats, awaitingConfirm, InFlight
<1> QED
    BY <1>1, <1>2, <1>3, <1>4, <1>5, Zenon DEF clientEffect, InFlight, confirmsRequest,
       confirmsMsg

LEMMA InFlightStep ==
    ASSUME IInv, InFlight, [SessionNext]_sessionVars
    PROVE  InFlight'
<1>1. CASE clientEffect
  <2>1. toServer' \subseteq Outgoing
      BY <1>1, ClientInv, PostedOutgoing, Zenon
  <2>2. toClient' \subseteq Datagram
      BY <1>1, SMT DEF clientEffect, InFlight
  <2> QED
      BY <1>1, <2>1, <2>2, PendingType, Zenon DEF clientEffect, InFlight
<1>2. CASE UNCHANGED <<vars, toServer>>
  <2>1. awaitingConfirm' => m_msg_to_server'.type \in ClientMsgType
      BY <1>2, Zenon DEF InFlight, awaitingConfirm, vars, members, flags, outgoing
  <2>2. ASSUME NEW m \in toServer, serverReceives(m)
        PROVE  toClient' \subseteq Datagram /\ srv_next' \in Nat /\ srv_next' <= MAX_SERVER_IDS
    <3>1. CASE serverSeesAgain(m) \/ serverTakes(m)
        BY <3>1, ServerDatagrams, Zenon DEF serverSeesAgain, serverTakes, InFlight
    <3>2. ASSUME NEW ok \in BOOLEAN, serverAnswers(m, ok)
          PROVE  toClient' \subseteq Datagram /\ srv_next' \in Nat /\ srv_next' <= MAX_SERVER_IDS
      <4>1. /\ srv_next < MAX_SERVER_IDS /\ srv_next' = srv_next + 1
            /\ toClient' = toClient \cup {confirmOf(m), datagram("REPLY", srv_next, m.id, ok, SESSION_ADDR)}
          BY <3>2, Zenon DEF serverAnswers
      <4>2. srv_next' \in Nat /\ srv_next' <= MAX_SERVER_IDS
          BY <4>1, SessionAssumption, SMT DEF InFlight
      <4>3. toClient' \subseteq Datagram
          BY <4>1, ServerDatagrams, Zenon DEF InFlight
      <4> QED
          BY <4>2, <4>3
    <3> QED
        BY <2>2, <3>1, <3>2, Zenon DEF serverReceives
  <2>3. ASSUME NEW type \in {"MSG", "PING", "BYE"}, serverTalks(type)
        PROVE  toClient' \subseteq Datagram /\ srv_next' \in Nat /\ srv_next' <= MAX_SERVER_IDS
    <3>1. /\ srv_next < MAX_SERVER_IDS /\ srv_next' = srv_next + 1
          /\ toClient' = toClient \cup {datagram(type, srv_next, 0, TRUE, SESSION_ADDR)}
        BY <2>3, Zenon DEF serverTalks
    <3>2. srv_next' \in Nat /\ srv_next' <= MAX_SERVER_IDS
        BY <3>1, SessionAssumption, SMT DEF InFlight
    <3>3. toClient' \subseteq Datagram
        BY <3>1, ServerDatagrams, Zenon DEF InFlight
    <3> QED
        BY <3>2, <3>3
  <2>4. CASE ~clientEffect
    <3>1. toServer' \subseteq Outgoing
        BY <1>2, Zenon DEF InFlight
    <3>2. toClient' \subseteq Datagram /\ srv_next' \in Nat /\ srv_next' <= MAX_SERVER_IDS
        BY <2>2, <2>3, <2>4, StepEffect, Zenon
    <3> QED
        BY <2>1, <3>1, <3>2, Zenon DEF InFlight
  <2> QED
      BY <1>1, <2>4
<1> QED
    BY <1>1, <1>2, StepEffect, Zenon DEF serverReceives, serverTalks

\* The datagrams of the server.
replyTo(m, ok) == datagram("REPLY", srv_next, m.id, ok, SESSION_ADDR)
said(type) == datagram(type, srv_next, 0, TRUE, SESSION_ADDR)

LEMMA ConfirmFields ==
    \A m : confirmOf(m).type = "CONFIRM" /\ confirmOf(m).id = m.id /\ confirmOf(m).valid = TRUE
BY SMT DEF datagram, confirmOf

LEMMA ReplyFields ==
    \A m, ok : /\ replyTo(m, ok).type = "REPLY" /\ replyTo(m, ok).id = srv_next
               /\ replyTo(m, ok).ref = m.id /\ replyTo(m, ok).ok = ok
               /\ replyTo(m, ok).valid = TRUE /\ replyTo(m, ok).from = SESSION_ADDR
BY SMT DEF datagram, replyTo

LEMMA SaidFields ==
    \A type : said(type).type = type /\ said(type).id = srv_next /\ said(type).valid = TRUE
BY SMT DEF datagram, said

\* What the server does in a step: it confirms, it answers a request, it takes another
\* message, it says something of its own.
confirmsAgain(m) ==
    /\ m.id \in srv_seen
    /\ srv_seen' = srv_seen
    /\ toClient' = toClient \cup {confirmOf(m)}
    /\ UNCHANGED <<srv_name, srv_log, srv_next>>

answers(m, ok) ==
    /\ m.id \notin srv_seen /\ m.type \in Requests
    /\ srv_seen' = srv_seen \cup {m.id}
    /\ ok => (m.type = "AUTH" <=> srv_name = {})
    /\ srv_name' = IF ok /\ m.type = "AUTH" THEN {m.name} ELSE srv_name
    /\ srv_next' = srv_next + 1
    /\ toClient' = toClient \cup {confirmOf(m), replyTo(m, ok)}
    /\ UNCHANGED srv_log

takes(m) ==
    /\ m.id \notin srv_seen /\ m.type \in {"MSG", "ERR", "BYE"}
    /\ srv_seen' = srv_seen \cup {m.id}
    /\ srv_log' = IF m.type = "MSG" /\ srv_name # {} THEN Append(srv_log, entry(m)) ELSE srv_log
    /\ toClient' = toClient \cup {confirmOf(m)}
    /\ UNCHANGED <<srv_name, srv_next>>

talks(type) ==
    /\ srv_name # {}
    /\ srv_next' = srv_next + 1
    /\ toClient' = toClient \cup {said(type)}
    /\ UNCHANGED <<srv_seen, srv_name, srv_log>>

serverEffect ==
    /\ UNCHANGED <<status, m_current_state, m_is_waiting_for_reply, m_is_waiting_for_confirm,
                   m_is_waiting_for_bye_confirm, m_msg_to_server, m_msg_to_server_id,
                   m_allowed_retransmissions, m_confirmed_server_messages, m_server_addr,
                   copies, stdin_enabled, toServer, log, acked>>
    /\ \/ \E m \in toServer : confirmsAgain(m) \/ takes(m)
       \/ \E m \in toServer, ok \in BOOLEAN : answers(m, ok)
       \/ \E type \in {"MSG", "PING", "BYE"} : talks(type)

LEMMA ServerEffect ==
    ASSUME \/ \E m \in toServer : serverReceives(m)
           \/ \E type \in {"MSG", "PING", "BYE"} : serverTalks(type)
    PROVE  serverEffect
<1>1. UNCHANGED <<vars, toServer, log, acked>>
    BY Zenon DEF serverReceives, serverTalks
<1>2. ASSUME NEW m \in toServer, serverReceives(m)
      PROVE  confirmsAgain(m) \/ takes(m) \/ \E ok \in BOOLEAN : answers(m, ok)
  <2>1. CASE serverSeesAgain(m)
    <3>1. srv_seen' = srv_seen
        BY <1>2, <2>1, SMT DEF serverReceives, serverSeesAgain
    <3> QED
        BY <2>1, <3>1, Zenon DEF serverSeesAgain, confirmsAgain
  <2>2. CASE serverTakes(m)
      BY <1>2, <2>2, Zenon DEF serverReceives, serverTakes, takes
  <2>3. ASSUME NEW ok \in BOOLEAN, serverAnswers(m, ok) PROVE answers(m, ok)
      BY <1>2, <2>3, Zenon DEF serverReceives, serverAnswers, answers, Requests, replyTo
  <2> QED
      BY <1>2, <2>1, <2>2, <2>3, Zenon DEF serverReceives
<1>3. ASSUME NEW type \in {"MSG", "PING", "BYE"}, serverTalks(type) PROVE talks(type)
    BY <1>3, Zenon DEF serverTalks, talks, said
<1> QED
    BY <1>1, <1>2, <1>3, Zenon
       DEF serverEffect, vars, members, flags, outgoing, incoming, session, epoll

LEMMA Effect ==
    ASSUME IInv, InFlight, [SessionNext]_sessionVars
    PROVE  clientEffect \/ serverEffect
BY StepEffect, ServerEffect, Zenon

-----------------------------------------------------------------------------
(* The server keeps to the protocol, and signs the client in.                *)

LEMMA FromServerStep ==
    ASSUME FromServer, clientEffect \/ serverEffect
    PROVE  FromServer'
<1>1. CASE clientEffect
    BY <1>1, Zenon DEF clientEffect, FromServer
<1>2. ASSUME NEW m \in toServer, confirmsAgain(m) \/ takes(m) PROVE FromServer'
  <2>1. toClient' = toClient \cup {confirmOf(m)} /\ srv_name' = srv_name
      BY <1>2, Zenon DEF confirmsAgain, takes
  <2> QED
      BY <2>1, ConfirmFields, Zenon DEF FromServer
<1>3. ASSUME NEW m \in toServer, NEW ok \in BOOLEAN, answers(m, ok) PROVE FromServer'
  <2>1. {m.name} # {}
      BY SMT
  <2>2. (srv_name # {} => srv_name' # {}) /\ (ok => srv_name' # {})
      BY <1>3, <2>1, Zenon DEF answers
  <2>3. \A d \in toClient' : d \in toClient \/ d = confirmOf(m) \/ d = replyTo(m, ok)
      BY <1>3, Zenon DEF answers
  <2>4. "REPLY" \notin {"ERR", "OTHER"} /\ "CONFIRM" \notin {"ERR", "OTHER"} /\ "CONFIRM" # "REPLY"
      BY SMT
  <2>5. /\ confirmOf(m).valid /\ confirmOf(m).type = "CONFIRM"
        /\ replyTo(m, ok).valid /\ replyTo(m, ok).type = "REPLY"
        /\ replyTo(m, ok).from = SESSION_ADDR /\ replyTo(m, ok).ok = ok
      BY ConfirmFields, ReplyFields, Zenon
  <2> QED
      BY <2>2, <2>3, <2>4, <2>5, Zenon DEF FromServer
<1>4. ASSUME NEW type \in {"MSG", "PING", "BYE"}, talks(type) PROVE FromServer'
    BY <1>4, SaidFields, Zenon DEF FromServer, talks
<1> QED
    BY <1>1, <1>2, <1>3, <1>4, Zenon DEF serverEffect

LEMMA SignedInStep ==
    ASSUME IInv, FromServer, SignedIn, clientEffect \/ serverEffect
    PROVE  SignedIn'
<1>1. CASE clientEffect
  <2>1. CASE UNCHANGED m_current_state /\ (m_current_state # "S_AUTH" => UNCHANGED m_server_addr)
    <3>1. m_current_state \in {"S_OPEN", "S_JOIN"} => m_current_state # "S_AUTH"
        BY SMT
    <3> QED
        BY <1>1, <2>1, <3>1, Zenon DEF clientEffect, SignedIn
  <2>2. ASSUME NEW type \in {"AUTH", "JOIN", "MSG"}, NEW name, asks(type, name)
        PROVE  SignedIn'
    <3>1. m_current_state' \in {"S_OPEN", "S_JOIN"} => m_current_state \in {"S_OPEN", "S_JOIN"}
        BY <2>2, SMT DEF asks
    <3> QED
        BY <1>1, <2>2, <3>1, Zenon DEF clientEffect, asks, sends, SignedIn
  <2>3. ASSUME NEW d, confirmsRequest(d) PROVE SignedIn'
    <3>1. m_current_state' \in {"S_OPEN", "S_JOIN"} => m_current_state \in {"S_OPEN", "S_JOIN"}
        BY <2>3, SMT DEF confirmsRequest
    <3> QED
        BY <1>1, <2>3, <3>1, Zenon DEF clientEffect, confirmsRequest, confirmsBy, SignedIn
  <2>4. ASSUME NEW d \in toClient, resolves(d) PROVE SignedIn'
    <3>1. CASE m_current_state = "S_AUTH"
        BY <1>1, <2>4, <3>1, SMT DEF clientEffect, resolves, SignedIn, FromServer
    <3>2. CASE m_current_state # "S_AUTH"
        BY <1>1, <2>4, <3>2, SMT DEF clientEffect, resolves, SignedIn
    <3> QED
        BY <3>1, <3>2
  <2> QED
      BY <1>1, <2>1, <2>2, <2>3, <2>4, Zenon
         DEF clientEffect, keeps, closes, sends, repeats, confirmsMsg, confirmsBy
<1>2. CASE serverEffect
  <2>1. srv_name # {} => srv_name' # {}
    <3>1. \A m, ok : answers(m, ok) /\ srv_name # {} => srv_name' # {}
        BY SMT DEF answers
    <3> QED
        BY <1>2, <3>1, Zenon DEF serverEffect, confirmsAgain, takes, talks
  <2> QED
      BY <1>2, <2>1, Zenon DEF serverEffect, SignedIn
<1> QED
    BY <1>1, <1>2

LEMMA BaseInit == SessionInit => BaseInv
<1> SUFFICES ASSUME SessionInit PROVE BaseInv
    OBVIOUS
<1>1. Init /\ toServer = {} /\ toClient = {} /\ srv_next = 0
    BY Zenon DEF SessionInit
<1>2. ~awaitingConfirm /\ m_current_state \notin {"S_OPEN", "S_JOIN"}
    BY <1>1, SMT DEF Init, awaitingConfirm
<1>3. InFlight
    BY <1>1, <1>2, SessionAssumption, SMT DEF InFlight
<1>4. FromServer /\ SignedIn
    BY <1>1, <1>2, Zenon DEF FromServer, SignedIn
<1> QED
    BY <1>1, <1>3, <1>4, InitIInv, Zenon DEF BaseInv

LEMMA BaseStep == BaseInv /\ [SessionNext]_sessionVars => BaseInv'
BY ClientInv, InFlightStep, Effect, FromServerStep, SignedInStep, Zenon DEF BaseInv

\* Over any network, also one that repeats a REPLY, and with ids that wrap: the client is
\* in S_OPEN or S_JOIN (processServerReplyMsg) only if the server has signed it in, and then
\* its datagrams go to the port the server answered from.
THEOREM SignedInCorrect == SafetySpec => []SignedIn
<1>1. BaseInv => SignedIn
    BY Zenon DEF BaseInv
<1> QED
    BY BaseInit, BaseStep, <1>1, PTL DEF SafetySpec

\* Every invariant of UdpClient holds in the session: what the server sends is a datagram
\* the client is proved for.
THEOREM ClientInvariance == SafetySpec => []IInv
<1>1. BaseInv => IInv
    BY Zenon DEF BaseInv
<1> QED
    BY BaseInit, BaseStep, <1>1, PTL DEF SafetySpec

-----------------------------------------------------------------------------
(* Ids that are not used again, replies that arrive once.                    *)

\* The next id is one more unless it wraps.
LEMMA NoWrap ==
    ASSUME IInv, ~WRAP_IDS, clientEffect, m_msg_to_server_id' = NextId(m_msg_to_server_id)
    PROVE  m_msg_to_server_id' = m_msg_to_server_id + 1
<1>1. m_msg_to_server_id \in 0 .. ID_SPACE - 1
    BY TypeFacts, Zenon DEF MsgId
<1>2. m_msg_to_server_id' >= m_msg_to_server_id
    BY Zenon DEF clientEffect
<1>3. CASE m_msg_to_server_id + 1 < ID_SPACE
    BY <1>1, <1>3, ConstantsAssumption, SMT DEF NextId
<1>4. CASE m_msg_to_server_id + 1 = ID_SPACE
  <2>1. NextId(m_msg_to_server_id) = 0
      BY <1>1, <1>4, ConstantsAssumption, SMT DEF NextId
  <2> QED
      BY <1>1, <1>2, <1>4, <2>1, ConstantsAssumption, SMT
<1> QED
    BY <1>1, <1>3, <1>4, ConstantsAssumption, SMT

LEMMA IdsAreNumbers ==
    ASSUME IInv, InFlight
    PROVE  /\ m_msg_to_server_id \in Int /\ m_msg_to_server.id \in Int
           /\ \A m \in toServer : m.id \in Int
<1>1. m_msg_to_server_id \in MsgId /\ m_msg_to_server.id \in MsgId
    BY SMT DEF IInv, TypeOK, OutgoingType
<1>2. \A m \in toServer : m.id \in MsgId
    BY SMT DEF InFlight, Outgoing
<1> QED
    BY <1>1, <1>2, ConstantsAssumption, SMT DEF MsgId

LEMMA PostedCases ==
    ASSUME posted
    PROVE  \A m \in toServer' : m \in toServer \/ m = sent'
BY Zenon DEF posted

\* A CONFIRM with the current id can only come while a message awaits it.
LEMMA ConfirmAwaited ==
    ASSUME IInv, InFlight, OrderedIds, Answered, NEW d \in toClient,
           d.type = "CONFIRM", d.id = m_msg_to_server_id
    PROVE  /\ awaitingConfirm
           /\ m_msg_to_server.id = m_msg_to_server_id
<1>1. PICK m \in toServer : m.id = m_msg_to_server_id
    BY Zenon DEF Answered
<1>2. ~(m.id < m_msg_to_server_id)
    BY <1>1, IdsAreNumbers, SMT
<1> QED
    BY <1>2, Zenon DEF OrderedIds

\* The confirmation of a request or a MSG ends the wait for confirmations.
LEMMA ConfirmEndsWait ==
    ASSUME IInv, NEW d, confirmsRequest(d) \/ confirmsMsg(d)
    PROVE  /\ ~awaitingConfirm'
           /\ m_msg_to_server.type \in {"AUTH", "JOIN", "MSG"}
           /\ confirmsBy(d)
<1>1. m_msg_to_server.type \in {"AUTH", "JOIN", "MSG"} /\ confirmsBy(d)
    BY Zenon DEF confirmsRequest, confirmsMsg
<1>2. ~closing
    BY <1>1, SMT DEF closing
<1> QED
    BY <1>1, <1>2, NotClosing, Zenon DEF confirmsBy, awaitingConfirm

\* A REPLY is the answer only after the CONFIRM.
LEMMA ResolvesConfirmed ==
    ASSUME IInv, Settled, NEW d \in toClient, resolves(d)
    PROVE  ~awaitingConfirm
<1>1. ~closing
    BY Zenon DEF IInv, ClosingIsFinal, resolves
<1>2. ~m_is_waiting_for_confirm
    BY Zenon DEF Settled, resolves
<1> QED
    BY <1>1, <1>2, NotClosing, Zenon DEF awaitingConfirm

\* A new message has an id of its own.
LEMMA NumberedSends ==
    ASSUME IInv, InFlight, Numbered, NEW type, NEW id, NEW name, sends(type, id, name), posted,
           id \in Int, \A m \in toServer : m.id < id, awaitingConfirm'
    PROVE  Numbered'
<1>1. /\ sent'.type = type /\ sent'.id = id /\ sent'.name = name
      /\ m_msg_to_server'.type = type /\ m_msg_to_server'.id = id /\ m_msg_to_server'.name = name
      /\ m_msg_to_server_id' = id
    BY SMT DEF sends
<1>2. \A m \in toServer : m.id <= id /\ m.id # id
    BY IdsAreNumbers, SMT
<1>3. id <= id
    BY SMT
<1>4. \A m \in toServer' : m \in toServer \/ m = sent'
    BY PostedCases, Zenon
<1>5. \A m, n \in toServer : m.id = n.id => m.type = n.type /\ m.name = n.name
    BY Zenon DEF Numbered, OrderedIds
<1>6. \A m, n \in toServer' : m.id = n.id => m.type = n.type /\ m.name = n.name
    BY <1>1, <1>2, <1>4, <1>5, Zenon
<1> QED
    BY <1>1, <1>2, <1>3, <1>4, <1>6, Zenon DEF Numbered, OrderedIds

LEMMA NumberedStep ==
    ASSUME IInv, InFlight, Numbered, Answered, Turn, ~WRAP_IDS, clientEffect \/ serverEffect
    PROVE  Numbered'
<1>1. CASE keeps \/ serverEffect \/ \E d : resolves(d) /\ UNCHANGED toServer
  <2>1. UNCHANGED <<m_is_waiting_for_confirm, m_is_waiting_for_bye_confirm, m_msg_to_server,
                    m_msg_to_server_id, toServer>>
      BY <1>1, Zenon DEF keeps, resolves, serverEffect
  <2> QED
      BY <2>1, Zenon DEF Numbered, OrderedIds, awaitingConfirm
<1>2. ASSUME NEW type, NEW name, asks(type, name), posted PROVE Numbered'
  <2>1. \A m \in toServer : m.id < m_msg_to_server_id
      BY <1>2, Zenon DEF asks, Turn, Waits, Numbered, OrderedIds
  <2>2. sends(type, m_msg_to_server_id, name) /\ awaitingConfirm'
      BY <1>2, Zenon DEF asks, awaitingConfirm
  <2> QED
      BY <1>2, <2>1, <2>2, IdsAreNumbers, NumberedSends, Zenon
<1>3. ASSUME NEW type, closes(type), posted, clientEffect PROVE Numbered'
  <2>1. sends(type, NextId(m_msg_to_server_id), m_user_display_name) /\ awaitingConfirm'
      BY <1>3, Zenon DEF closes, awaitingConfirm
  <2>2. NextId(m_msg_to_server_id) = m_msg_to_server_id + 1
      BY <1>3, <2>1, NoWrap, Zenon DEF sends
  <2>3. /\ NextId(m_msg_to_server_id) \in Int
        /\ \A m \in toServer : m.id < NextId(m_msg_to_server_id)
      BY <2>2, IdsAreNumbers, SMT DEF Numbered, OrderedIds
  <2> QED
      BY <1>3, <2>1, <2>3, NumberedSends, Zenon
<1>4. CASE repeats /\ posted
  <2>1. /\ sent'.type = m_msg_to_server.type /\ sent'.id = m_msg_to_server.id
        /\ sent'.name = m_msg_to_server.name
      BY <1>4, SMT DEF repeats
  <2>2. m_msg_to_server_id <= m_msg_to_server_id
      BY IdsAreNumbers, SMT
  <2>3. \A m \in toServer' : m \in toServer \/ m = sent'
      BY <1>4, PostedCases, Zenon
  <2>4. awaitingConfirm /\ awaitingConfirm'
      BY <1>4, Zenon DEF repeats, awaitingConfirm
  <2>5. \A m, n \in toServer' : m.id = n.id => m.type = n.type /\ m.name = n.name
      BY <2>1, <2>3, Zenon DEF Numbered, OrderedIds
  <2> QED
      BY <1>4, <2>1, <2>2, <2>3, <2>4, <2>5, Zenon DEF Numbered, OrderedIds, repeats
<1>5. ASSUME NEW d \in toClient, confirmsRequest(d) \/ confirmsMsg(d), UNCHANGED toServer, clientEffect
      PROVE  Numbered'
  <2>1. confirmsBy(d) /\ ~awaitingConfirm'
      BY <1>5, ConfirmEndsWait, Zenon
  <2>2. m_msg_to_server_id' = m_msg_to_server_id + 1
      BY <1>5, <2>1, NoWrap, Zenon DEF confirmsBy
  <2>3. \A m \in toServer : m.id <= m_msg_to_server_id' /\ m.id < m_msg_to_server_id'
      BY <2>2, IdsAreNumbers, SMT DEF Numbered, OrderedIds
  <2> QED
      BY <1>5, <2>1, <2>3, Zenon DEF Numbered, OrderedIds, confirmsBy
<1> QED
    BY <1>1, <1>2, <1>3, <1>4, <1>5, Zenon DEF clientEffect

LEMMA AnsweredStep ==
    ASSUME Answered, clientEffect \/ serverEffect
    PROVE  Answered'
<1>1. CASE clientEffect
  <2>1. toServer \subseteq toServer'
      BY <1>1, Zenon DEF clientEffect, keeps, posted
  <2> QED
      BY <1>1, <2>1, Zenon DEF clientEffect, Answered
<1>2. ASSUME NEW m \in toServer, confirmsAgain(m) \/ takes(m), UNCHANGED toServer PROVE Answered'
  <2>1. /\ \A d \in toClient' : d \in toClient \/ d = confirmOf(m)
        /\ \A i \in srv_seen' : i \in srv_seen \/ i = m.id
        /\ srv_seen \subseteq srv_seen' /\ m.id \in srv_seen'
      BY <1>2, Zenon DEF confirmsAgain, takes
  <2>2. confirmOf(m).type = "CONFIRM" /\ confirmOf(m).id = m.id /\ "CONFIRM" # "REPLY"
      BY ConfirmFields, SMT
  <2> QED
      BY <1>2, <2>1, <2>2, Zenon DEF Answered
<1>3. ASSUME NEW m \in toServer, NEW ok \in BOOLEAN, answers(m, ok), UNCHANGED toServer PROVE Answered'
  <2> DEFINE reply == replyTo(m, ok)
  <2>1. /\ \A d \in toClient' : d \in toClient \/ d = confirmOf(m) \/ d = reply
        /\ \A i \in srv_seen' : i \in srv_seen \/ i = m.id
        /\ srv_seen \subseteq srv_seen' /\ m.id \in srv_seen'
        /\ m.id \notin srv_seen /\ m.type \in Requests
      BY <1>3, Zenon DEF answers
  <2>2. /\ confirmOf(m).type = "CONFIRM" /\ confirmOf(m).id = m.id /\ "CONFIRM" # "REPLY"
        /\ reply.type = "REPLY" /\ reply.ref = m.id
      BY ConfirmFields, ReplyFields, SMT
  <2> HIDE DEF reply
  <2>3. \A d \in toClient' : d.type = "REPLY" => (d \in toClient \/ d = reply)
      BY <2>1, <2>2, Zenon
  <2>4. \A d \in toClient : d.type = "REPLY" => d.ref # m.id
      BY <2>1, Zenon DEF Answered
  <2>5. \A d, e \in toClient' : d.type = "REPLY" /\ e.type = "REPLY" /\ d.ref = e.ref => d = e
      BY <2>2, <2>3, <2>4, Zenon DEF Answered
  <2>6. \A d \in toClient' : d.type = "CONFIRM" => d.id \in srv_seen'
      BY <2>1, <2>2, Zenon DEF Answered
  <2>7. \A d \in toClient' : d.type = "REPLY" =>
             d.ref \in srv_seen' /\ \E n \in toServer' : n.id = d.ref /\ n.type \in Requests
      BY <1>3, <2>1, <2>2, <2>3, Zenon DEF Answered
  <2> QED
      BY <1>3, <2>1, <2>5, <2>6, <2>7, Zenon DEF Answered
<1>4. ASSUME NEW type \in {"MSG", "PING", "BYE"}, talks(type), UNCHANGED toServer PROVE Answered'
  <2>1. said(type).type # "REPLY" /\ said(type).type # "CONFIRM"
      BY SaidFields, SMT
  <2>2. \A d \in toClient' : d \in toClient \/ d = said(type)
      BY <1>4, Zenon DEF talks
  <2> QED
      BY <1>4, <2>1, <2>2, Zenon DEF Answered, talks
<1> QED
    BY <1>1, <1>2, <1>3, <1>4, Zenon DEF serverEffect

\* The ids, also when the user types a line before the last one is confirmed.
LEMMA OrderedStep ==
    ASSUME IInv, InFlight, OrderedIds, Answered, ~WRAP_IDS, clientEffect \/ serverEffect
    PROVE  OrderedIds'
<1>1. CASE keeps \/ serverEffect \/ \E d : resolves(d) /\ UNCHANGED toServer
  <2>1. UNCHANGED <<m_is_waiting_for_confirm, m_is_waiting_for_bye_confirm, m_msg_to_server,
                    m_msg_to_server_id, toServer>>
      BY <1>1, Zenon DEF keeps, resolves, serverEffect
  <2> QED
      BY <2>1, Zenon DEF OrderedIds, awaitingConfirm
<1>2. ASSUME NEW type \in {"AUTH", "JOIN", "MSG"}, NEW name, asks(type, name), posted PROVE OrderedIds'
  <2>1. /\ sent'.id = m_msg_to_server_id /\ m_msg_to_server'.id = m_msg_to_server_id
        /\ m_msg_to_server'.type # "BYE" /\ UNCHANGED m_msg_to_server_id
      BY <1>2, SMT DEF asks, sends
  <2>2. awaitingConfirm' /\ m_msg_to_server_id <= m_msg_to_server_id
      BY <1>2, IdsAreNumbers, SMT DEF asks, awaitingConfirm
  <2>3. \A m \in toServer' : m \in toServer \/ m = sent'
      BY <1>2, PostedCases, Zenon
  <2> QED
      BY <2>1, <2>2, <2>3, Zenon DEF OrderedIds
<1>3. ASSUME NEW type, closes(type), posted, clientEffect PROVE OrderedIds'
  <2>1. m_msg_to_server_id' = NextId(m_msg_to_server_id) /\ awaitingConfirm'
      BY <1>3, Zenon DEF closes, sends, awaitingConfirm
  <2>2. m_msg_to_server_id' = m_msg_to_server_id + 1
      BY <1>3, <2>1, NoWrap, Zenon
  <2>3. \A m \in toServer : m.id <= m_msg_to_server_id' /\ m.id # m_msg_to_server_id'
      BY <2>2, IdsAreNumbers, SMT DEF OrderedIds
  <2>4. /\ sent'.id = m_msg_to_server_id' /\ m_msg_to_server'.id = m_msg_to_server_id'
        /\ sent'.type = m_msg_to_server'.type
      BY <1>3, SMT DEF closes, sends
  <2>5. m_msg_to_server_id' <= m_msg_to_server_id'
      BY <2>2, IdsAreNumbers, SMT
  <2>6. \A m \in toServer' : m \in toServer \/ m = sent'
      BY <1>3, PostedCases, Zenon
  <2> QED
      BY <2>1, <2>3, <2>4, <2>5, <2>6, Zenon DEF OrderedIds
<1>4. CASE repeats /\ posted
  <2>1. sent'.type = m_msg_to_server.type /\ sent'.id = m_msg_to_server.id
      BY <1>4, SMT DEF repeats
  <2>2. m_msg_to_server_id <= m_msg_to_server_id
      BY IdsAreNumbers, SMT
  <2>3. \A m \in toServer' : m \in toServer \/ m = sent'
      BY <1>4, PostedCases, Zenon
  <2>4. awaitingConfirm /\ awaitingConfirm'
      BY <1>4, Zenon DEF repeats, awaitingConfirm
  <2> QED
      BY <1>4, <2>1, <2>2, <2>3, <2>4, Zenon DEF OrderedIds, repeats
<1>5. ASSUME NEW d \in toClient, confirmsRequest(d) \/ confirmsMsg(d), UNCHANGED toServer, clientEffect
      PROVE  OrderedIds'
  <2>1. confirmsBy(d) /\ ~awaitingConfirm'
      BY <1>5, ConfirmEndsWait, Zenon
  <2>2. m_msg_to_server_id' = m_msg_to_server_id + 1
      BY <1>5, <2>1, NoWrap, Zenon DEF confirmsBy
  <2>3. \A m \in toServer : m.id <= m_msg_to_server_id' /\ m.id < m_msg_to_server_id'
      BY <2>2, IdsAreNumbers, SMT DEF OrderedIds
  <2> QED
      BY <1>5, <2>1, <2>3, Zenon DEF OrderedIds, confirmsBy
<1> QED
    BY <1>1, <1>2, <1>3, <1>4, <1>5, Zenon DEF clientEffect

\* What is awaited, also when the user types a line before the last one is answered.
LEMMA WaitsStep ==
    ASSUME IInv, InFlight, OrderedIds, Answered, Waits, ~WRAP_IDS, clientEffect \/ serverEffect
    PROVE  Waits'
<1>1. CASE keeps \/ serverEffect \/ repeats
  <2>1. UNCHANGED <<m_is_waiting_for_reply, m_is_waiting_for_confirm, m_msg_to_server,
                    m_msg_to_server_id, m_current_state>>
      BY <1>1, Zenon DEF keeps, repeats, serverEffect
  <2> QED
      BY <2>1, Zenon DEF Waits
<1>2. ASSUME NEW type, NEW name, asks(type, name) PROVE Waits'
  <2>1. m_msg_to_server'.type = type
      BY <1>2, SMT DEF asks, sends
  <2> QED
      BY <1>2, <2>1, Zenon DEF Waits, asks
<1>3. ASSUME NEW x, closes(x) \/ resolves(x) PROVE Waits'
    BY <1>3, Zenon DEF Waits, closes, resolves
<1>4. ASSUME NEW d \in toClient, confirmsRequest(d), clientEffect PROVE Waits'
  <2>1. m_msg_to_server.id = m_msg_to_server_id
      BY <1>4, ConfirmAwaited, Zenon DEF confirmsRequest, confirmsBy
  <2>2. m_msg_to_server_id' = m_msg_to_server.id + 1 /\ UNCHANGED m_msg_to_server
      BY <1>4, <2>1, NoWrap, Zenon DEF confirmsRequest, confirmsBy
  <2>3. m_msg_to_server.type \in Requests /\ m_current_state' \in {"S_AUTH", "S_JOIN"}
      BY <1>4, SMT DEF confirmsRequest, Requests
  <2> QED
      BY <2>2, <2>3, Zenon DEF Waits
<1>5. ASSUME NEW d \in toClient, confirmsMsg(d) PROVE Waits'
  <2>1. m_msg_to_server.type \notin Requests
      BY <1>5, SMT DEF confirmsMsg, Requests
  <2> QED
      BY <1>5, <2>1, Zenon DEF Waits, confirmsMsg
<1> QED
    BY <1>1, <1>2, <1>3, <1>4, <1>5, Zenon DEF clientEffect

\* Whose turn it is.
LEMMA TurnStep ==
    ASSUME IInv, InFlight, Numbered, Answered, Turn, Settled, ~WRAP_IDS, clientEffect \/ serverEffect
    PROVE  Turn'
<1>1. CASE keeps \/ serverEffect \/ repeats
  <2>1. UNCHANGED <<m_is_waiting_for_reply, m_is_waiting_for_confirm, m_is_waiting_for_bye_confirm,
                    m_msg_to_server, m_msg_to_server_id, stdin_enabled, m_current_state>>
      BY <1>1, Zenon DEF keeps, repeats, serverEffect
  <2> QED
      BY <2>1, Zenon DEF Turn, Waits, awaitingConfirm
<1>2. ASSUME NEW type \in {"AUTH", "JOIN", "MSG"}, NEW name, asks(type, name) PROVE Turn'
  <2>1. m_msg_to_server'.type = type
      BY <1>2, SMT DEF asks, sends
  <2>2. type \in {"JOIN", "MSG"} => m_current_state' \in {"S_OPEN", "S_JOIN"}
      BY <1>2, SMT DEF asks, canSendMessageType
  <2> QED
      BY <1>2, <2>1, <2>2, Zenon DEF Turn, Waits, asks, sends
<1>3. ASSUME NEW type \in {"ERR", "BYE"}, closes(type) PROVE Turn'
  <2>1. m_msg_to_server'.type \notin {"JOIN", "MSG"}
      BY <1>3, SMT DEF closes, sends
  <2> QED
      BY <1>3, <2>1, Zenon DEF Turn, Waits, closes, sends
<1>4. ASSUME NEW d \in toClient, confirmsRequest(d), clientEffect PROVE Turn'
  <2>1. awaitingConfirm /\ m_msg_to_server.id = m_msg_to_server_id
      BY <1>4, ConfirmAwaited, Zenon DEF Numbered, confirmsRequest, confirmsBy
  <2>2. ~stdin_enabled' /\ UNCHANGED m_msg_to_server
      BY <1>4, <2>1, Zenon DEF Turn, Waits, confirmsRequest, confirmsBy
  <2>3. m_msg_to_server_id' = m_msg_to_server.id + 1
      BY <1>4, <2>1, NoWrap, Zenon DEF confirmsRequest, confirmsBy
  <2>4. /\ m_msg_to_server.type \in Requests
        /\ m_current_state' \in {"S_AUTH", "S_JOIN"}
        /\ m_msg_to_server.type \in {"JOIN", "MSG"} => m_current_state' \in {"S_OPEN", "S_JOIN"}
      BY <1>4, SMT DEF confirmsRequest, Requests
  <2> QED
      BY <2>2, <2>3, <2>4, Zenon DEF Turn, Waits
<1>5. ASSUME NEW d \in toClient, confirmsMsg(d) PROVE Turn'
  <2>1. ~awaitingConfirm' /\ UNCHANGED <<m_msg_to_server, m_current_state, m_is_waiting_for_reply>>
      BY <1>5, ConfirmEndsWait, Zenon DEF confirmsMsg, confirmsBy
  <2>2. m_msg_to_server.type \notin Requests
      BY <1>5, SMT DEF confirmsMsg, Requests
  <2>3. ~m_is_waiting_for_reply'
      BY <2>1, <2>2, Zenon DEF Turn, Waits
  <2> QED
      BY <2>1, <2>3, Zenon DEF Turn, Waits
<1>6. ASSUME NEW d \in toClient, resolves(d) PROVE Turn'
  <2>1. ~awaitingConfirm /\ ~awaitingConfirm' /\ ~m_is_waiting_for_reply' /\ UNCHANGED m_msg_to_server
      BY <1>6, ResolvesConfirmed, Zenon DEF resolves, awaitingConfirm
  <2>2. m_current_state \in {"S_OPEN", "S_JOIN"} => m_current_state' \in {"S_OPEN", "S_JOIN"}
      BY <1>6, SMT DEF resolves
  <2> QED
      BY <2>1, <2>2, Zenon DEF Turn, Waits
<1> QED
    BY <1>1, <1>2, <1>3, <1>4, <1>5, <1>6, Zenon DEF clientEffect

\* No REPLY to an earlier request is left when the user may type the next one.
LEMMA SettledStep ==
    ASSUME IInv, InFlight, Numbered, Answered, Turn, Settled, ~WRAP_IDS, ~REPLY_DUPLICATES,
           clientEffect \/ serverEffect
    PROVE  Settled'
<1> DEFINE past(n) == /\ \A d \in toClient : d.type = "REPLY" => d.ref # n
                      /\ \A m \in toServer : m.id = n /\ m.type \in Requests => m.id \in srv_seen
<1>0. /\ Settled <=> (stdin_enabled \/ (m_is_waiting_for_reply /\ m_is_waiting_for_confirm)
                         => past(m_msg_to_server_id - 1))
      /\ Settled' <=> (stdin_enabled' \/ (m_is_waiting_for_reply' /\ m_is_waiting_for_confirm')
                         => past(m_msg_to_server_id - 1)')
    BY Zenon DEF Settled
<1>1. CASE clientEffect
  <2>1. toClient' \subseteq toClient /\ UNCHANGED srv_seen
      BY <1>1, Zenon DEF clientEffect
  <2>2. CASE keeps
    <3>1. UNCHANGED <<stdin_enabled, m_is_waiting_for_reply, m_is_waiting_for_confirm,
                      m_msg_to_server_id, toServer>>
        BY <2>2, Zenon DEF keeps
    <3> QED
        BY <2>1, <3>1, Zenon DEF Settled
  <2>3. ASSUME posted, sent'.id = m_msg_to_server_id, UNCHANGED m_msg_to_server_id,
               past(m_msg_to_server_id - 1)
        PROVE  past(m_msg_to_server_id - 1)'
    <3>1. sent'.id # m_msg_to_server_id - 1
        BY <2>3, IdsAreNumbers, SMT
    <3>2. \A m \in toServer' : m \in toServer \/ m = sent'
        BY <2>3, PostedCases, Zenon
    <3> QED
        BY <2>1, <2>3, <3>1, <3>2, Zenon
  <2>4. ASSUME NEW type, NEW name, asks(type, name), posted PROVE Settled'
    <3>1. sent'.id = m_msg_to_server_id /\ UNCHANGED m_msg_to_server_id
        BY <2>4, SMT DEF asks, sends
    <3>2. past(m_msg_to_server_id - 1)
        BY <1>0, <2>4, Zenon DEF asks
    <3> QED
        BY <1>0, <2>3, <2>4, <3>1, <3>2, Zenon
  <2>5. CASE repeats /\ posted
    <3>1. sent'.id = m_msg_to_server.id
        BY <2>5, SMT DEF repeats
    <3>2. /\ sent'.id = m_msg_to_server_id
          /\ UNCHANGED <<m_msg_to_server_id, stdin_enabled, m_is_waiting_for_reply, m_is_waiting_for_confirm>>
        BY <2>5, <3>1, Zenon DEF repeats, Numbered, OrderedIds
    <3> QED
        BY <1>0, <2>3, <2>5, <3>2, Zenon
  <2>6. ASSUME NEW type, closes(type) PROVE Settled'
      BY <2>6, Zenon DEF closes, sends, Settled
  <2>7. ASSUME NEW d \in toClient, confirmsRequest(d) PROVE Settled'
    <3>1. awaitingConfirm
        BY <2>7, ConfirmAwaited, Zenon DEF Numbered, confirmsRequest, confirmsBy
    <3> QED
        BY <2>7, <3>1, Zenon DEF Turn, Waits, Settled, confirmsRequest, confirmsBy
  <2>8. ASSUME NEW d \in toClient, confirmsMsg(d), UNCHANGED toServer PROVE Settled'
    <3>1. m_msg_to_server.id = m_msg_to_server_id
        BY <2>8, ConfirmAwaited, Zenon DEF Numbered, confirmsMsg, confirmsBy
    <3>2. m_msg_to_server.type \notin Requests
        BY <2>8, SMT DEF confirmsMsg, Requests
    <3>3. m_msg_to_server_id' = m_msg_to_server_id + 1
        BY <1>1, <2>8, NoWrap, Zenon DEF confirmsMsg, confirmsBy
    <3>4. m_msg_to_server_id' - 1 = m_msg_to_server_id
        BY <3>3, IdsAreNumbers, SMT
    <3>5. \A m \in toServer : m.id = m_msg_to_server_id => m.type \notin Requests
        BY <3>1, <3>2, Zenon DEF Numbered, OrderedIds
    <3>6. \A e \in toClient : e.type = "REPLY" => e.ref # m_msg_to_server_id
        BY <3>5, Zenon DEF Answered
    <3> QED
        BY <2>1, <2>8, <3>4, <3>5, <3>6, Zenon DEF Settled
  <2>9. ASSUME NEW d \in toClient, resolves(d), d \notin toClient', UNCHANGED toServer PROVE Settled'
    <3>1. /\ d.type = "REPLY" /\ d.ref = m_msg_to_server_id - 1 /\ d.ref \in srv_seen
          /\ UNCHANGED m_msg_to_server_id
        BY <2>9, Zenon DEF resolves, Answered
    <3>2. \A e \in toClient' : e.type = "REPLY" => e.ref # m_msg_to_server_id - 1
        BY <2>1, <2>9, <3>1, Zenon DEF Answered
    <3> QED
        BY <2>1, <2>9, <3>1, <3>2, Zenon DEF Settled
  <2> QED
      BY <1>1, <2>2, <2>4, <2>5, <2>6, <2>7, <2>8, <2>9, Zenon DEF clientEffect
<1>2. CASE serverEffect
  <2>1. UNCHANGED <<stdin_enabled, m_is_waiting_for_reply, m_is_waiting_for_confirm,
                    m_msg_to_server_id, toServer>>
      BY <1>2, Zenon DEF serverEffect
  <2>2. srv_seen \subseteq srv_seen'
      BY <1>2, Zenon DEF serverEffect, confirmsAgain, takes, talks, answers
  <2>3. ASSUME NEW n, past(n) PROVE \A d \in toClient' : d.type = "REPLY" => d.ref # n
    <3>1. ASSUME NEW m \in toServer, confirmsAgain(m) \/ takes(m)
          PROVE  \A d \in toClient' : d.type = "REPLY" => d.ref # n
      <4>1. \A d \in toClient' : d \in toClient \/ d = confirmOf(m)
          BY <3>1, Zenon DEF confirmsAgain, takes
      <4>2. confirmOf(m).type # "REPLY"
          BY ConfirmFields, SMT
      <4> QED
          BY <2>3, <4>1, <4>2, Zenon
    <3>2. ASSUME NEW m \in toServer, NEW ok \in BOOLEAN, answers(m, ok)
          PROVE  \A d \in toClient' : d.type = "REPLY" => d.ref # n
      <4>1. \A d \in toClient' : d \in toClient \/ d = confirmOf(m) \/ d = replyTo(m, ok)
          BY <3>2, Zenon DEF answers
      <4>2. confirmOf(m).type # "REPLY" /\ replyTo(m, ok).ref = m.id
          BY ConfirmFields, ReplyFields, SMT
      <4>3. m.id # n
          BY <2>3, <3>2, Zenon DEF answers
      <4> QED
          BY <2>3, <4>1, <4>2, <4>3, Zenon
    <3>3. ASSUME NEW type \in {"MSG", "PING", "BYE"}, talks(type)
          PROVE  \A d \in toClient' : d.type = "REPLY" => d.ref # n
      <4>1. \A d \in toClient' : d \in toClient \/ d = said(type)
          BY <3>3, Zenon DEF talks
      <4>2. said(type).type # "REPLY"
          BY SaidFields, SMT
      <4> QED
          BY <2>3, <4>1, <4>2, Zenon
    <3> QED
        BY <1>2, <3>1, <3>2, <3>3, Zenon DEF serverEffect
  <2> QED
      BY <1>0, <2>1, <2>2, <2>3, Zenon
<1> QED
    BY <1>1, <1>2

LEMMA BudgetStep ==
    ASSUME IInv, Turn, Budget, clientEffect \/ serverEffect
    PROVE  Budget'
<1>1. CASE keeps \/ serverEffect \/ \E d : resolves(d)
  <2>1. UNCHANGED <<m_is_waiting_for_confirm, m_is_waiting_for_bye_confirm, m_msg_to_server, copies,
                    m_allowed_retransmissions>>
      BY <1>1, Zenon DEF keeps, resolves, serverEffect
  <2> QED
      BY <2>1, Zenon DEF Budget, FullBudget, awaitingConfirm
<1>2. ASSUME NEW type, NEW name, asks(type, name) PROVE Budget'
  <2>1. m_allowed_retransmissions = MAX_RETRANS
      BY <1>2, Zenon DEF asks, Turn, Waits, Budget
  <2>2. awaitingConfirm' /\ copies' = 1 /\ m_allowed_retransmissions' = MAX_RETRANS
      BY <1>2, <2>1, Zenon DEF asks, sends, awaitingConfirm
  <2>3. 1 + MAX_RETRANS = MAX_RETRANS + 1
      BY ConstantFacts, SMT
  <2> QED
      BY <2>2, <2>3, Zenon DEF Budget, FullBudget
<1>3. ASSUME NEW type \in {"ERR", "BYE"}, closes(type) PROVE Budget'
  <2>1. awaitingConfirm' /\ copies' = 1 /\ (type = "BYE" => m_allowed_retransmissions' = MAX_RETRANS)
      BY <1>3, Zenon DEF closes, sends, awaitingConfirm
  <2>2. m_msg_to_server'.type = type
      BY <1>3, SMT DEF closes, sends
  <2>3. 1 + MAX_RETRANS = MAX_RETRANS + 1
      BY ConstantFacts, SMT
  <2> QED
      BY <2>1, <2>2, <2>3, Zenon DEF Budget, FullBudget
<1>4. CASE repeats
  <2>1. awaitingConfirm' /\ awaitingConfirm /\ UNCHANGED m_msg_to_server
      BY <1>4, Zenon DEF repeats, awaitingConfirm
  <2>2. copies \in Nat /\ m_allowed_retransmissions \in 0 .. MAX_RETRANS
      BY Zenon DEF IInv, TypeOK, OutgoingType
  <2>3. copies' + m_allowed_retransmissions' = copies + m_allowed_retransmissions
      BY <1>4, <2>2, ConstantFacts, SMT DEF repeats
  <2> QED
      BY <2>1, <2>3, Zenon DEF Budget, FullBudget
<1>5. ASSUME NEW d, confirmsRequest(d) \/ confirmsMsg(d) PROVE Budget'
  <2>1. ~awaitingConfirm' /\ m_allowed_retransmissions' = MAX_RETRANS
      BY <1>5, ConfirmEndsWait, Zenon DEF confirmsBy
  <2> QED
      BY <2>1, Zenon DEF Budget, FullBudget
<1> QED
    BY <1>1, <1>2, <1>3, <1>4, <1>5, Zenon DEF clientEffect

\* The name the server signed in is that of the AUTH it accepted.
LEMMA AcceptedStep ==
    ASSUME Numbered, Answered, Accepted, Numbered', clientEffect \/ serverEffect
    PROVE  Accepted'
<1>1. CASE clientEffect
  <2>1. toClient' \subseteq toClient /\ UNCHANGED srv_name
      BY <1>1, Zenon DEF clientEffect
  <2>2. toServer \subseteq toServer'
      BY <1>1, Zenon DEF clientEffect, keeps, posted
  <2>3. ASSUME NEW d \in toClient', NEW m \in toServer', d.type = "REPLY", d.ok,
               m.type = "AUTH", m.id = d.ref
        PROVE  srv_name = {m.name}
    <3>1. PICK n \in toServer : n.id = d.ref
        BY <2>1, <2>3, Zenon DEF Answered
    <3>2. n.type = "AUTH" /\ n.name = m.name
      <4>1. \A i, j \in toServer' : i.id = j.id => i.type = j.type /\ i.name = j.name
          BY Zenon DEF Numbered, OrderedIds
      <4>2. n \in toServer' /\ n.id = m.id
          BY <2>2, <2>3, <3>1, Zenon
      <4>3. n.type = m.type /\ n.name = m.name
          BY <2>3, <4>1, <4>2, Zenon
      <4> QED
          BY <2>3, <4>3, Zenon
    <3> QED
        BY <2>1, <2>3, <3>1, <3>2, Zenon DEF Accepted
  <2> QED
      BY <2>1, <2>3, Zenon DEF Accepted
<1>2. CASE serverEffect
  <2>1. UNCHANGED toServer
      BY <1>2, Zenon DEF serverEffect
  <2>2. ASSUME NEW m \in toServer, confirmsAgain(m) \/ takes(m) PROVE Accepted'
    <3>1. \A d \in toClient' : d \in toClient \/ d = confirmOf(m)
        BY <2>2, Zenon DEF confirmsAgain, takes
    <3>2. confirmOf(m).type # "REPLY" /\ UNCHANGED srv_name
        BY <2>2, ConfirmFields, SMT DEF confirmsAgain, takes
    <3> QED
        BY <2>1, <3>1, <3>2, Zenon DEF Accepted
  <2>3. ASSUME NEW m \in toServer, NEW ok \in BOOLEAN, answers(m, ok) PROVE Accepted'
    <3>1. \A d \in toClient' : d \in toClient \/ d = confirmOf(m) \/ d = replyTo(m, ok)
        BY <2>3, Zenon DEF answers
    <3>2. confirmOf(m).type # "REPLY" /\ replyTo(m, ok).ref = m.id /\ replyTo(m, ok).ok = ok
        BY ConfirmFields, ReplyFields, SMT
    <3>3. ASSUME NEW d \in toClient, NEW n \in toServer, d.type = "REPLY", d.ok,
                 n.type = "AUTH", n.id = d.ref
          PROVE  srv_name' = {n.name}
      <4>1. srv_name = {n.name}
          BY <3>3, Zenon DEF Accepted
      <4>2. srv_name # {}
          BY <4>1, SMT
      <4> QED
          BY <2>3, <4>1, <4>2, Zenon DEF answers
    <3>4. ASSUME NEW n \in toServer, ok, n.type = "AUTH", n.id = m.id
          PROVE  srv_name' = {n.name}
      <4>1. m.type = "AUTH" /\ m.name = n.name
          BY <3>4, Zenon DEF Numbered, OrderedIds
      <4> QED
          BY <2>3, <3>4, <4>1, Zenon DEF answers
    <3> QED
        BY <2>1, <3>1, <3>2, <3>3, <3>4, Zenon DEF Accepted
  <2>4. ASSUME NEW type \in {"MSG", "PING", "BYE"}, talks(type) PROVE Accepted'
    <3>1. \A d \in toClient' : d \in toClient \/ d = said(type)
        BY <2>4, Zenon DEF talks
    <3>2. said(type).type # "REPLY" /\ UNCHANGED srv_name
        BY <2>4, SaidFields, SMT DEF talks
    <3> QED
        BY <2>1, <3>1, <3>2, Zenon DEF Accepted
  <2> QED
      BY <1>2, <2>2, <2>3, <2>4, Zenon DEF serverEffect
<1> QED
    BY <1>1, <1>2

-----------------------------------------------------------------------------
(* How the client exits, and what it confirms.                               *)

LEMMA StatusDistinct ==
    /\ EXIT_SUCCESS # CONTINUE /\ EXIT_SUCCESS # EXIT_FAILURE /\ EXIT_FAILURE # CONTINUE
    /\ EXIT_SUCCESS # KILLED
BY SMT DEF EXIT_SUCCESS, EXIT_FAILURE, CONTINUE, KILLED

\* A regular exit of a handler has two causes.
LEMMA ExitCause ==
    ASSUME NEW d, processSocketEvent(d), status' = EXIT_SUCCESS
    PROVE  d.type = "BYE" \/ (d.type = "CONFIRM" /\ d.id = m_msg_to_server_id /\ m_msg_to_server.type = "BYE")
<1>1. status = CONTINUE /\ processMessageFromServer(d)
    BY Zenon DEF processSocketEvent
<1>2. ~sendErrMsg /\ ~throwException /\ ~noEffect
    BY <1>1, StatusDistinct, Zenon DEF sendErrMsg, buildAndSend, sendto, throwException, leave,
       noEffect
<1>3. ~processServerReplyMsg(d)
    BY <1>1, <1>2, StatusDistinct, Zenon DEF processServerReplyMsg, acceptReply, sendConfirmMsg,
       sendto
<1>4. ~processServerMsgMsg(d) /\ ~processServerPingMsg(d)
    BY <1>1, <1>2, StatusDistinct, Zenon
       DEF processServerMsgMsg, processServerPingMsg, sendConfirmMsg, sendto
<1>5. ~processServerErrMsg(d)
    BY <1>1, <1>2, StatusDistinct, Zenon DEF processServerErrMsg, endedByServer, sendConfirmMsg,
       sendto
<1>6. ASSUME processServerConfirmMsg(d) PROVE d.id = m_msg_to_server_id /\ m_msg_to_server.type = "BYE"
    BY <1>1, <1>2, <1>6, StatusDistinct, Zenon
       DEF processServerConfirmMsg, matchesConfirm, confirmedRequest, confirmedMsg, leave
<1> QED
    BY <1>1, <1>2, <1>3, <1>4, <1>5, <1>6, Zenon DEF processMessageFromServer

\* No other handler ends the program without an error.
LEMMA LocalNoExit ==
    ASSUME localEvent
    PROVE  status = CONTINUE /\ status' # EXIT_SUCCESS
<1>1. status = CONTINUE
    BY Zenon DEF localEvent, processTimerEvent, processUserInput, processStdinHangup,
                 processStdinError, sigintHandler
<1>2. throwException \/ terminate \/ noEffect \/ sendErrMsg \/ sendByeMsgToServer \/ retransmit
          => status' # EXIT_SUCCESS
    BY <1>1, StatusDistinct, Zenon
       DEF throwException, terminate, leave, noEffect, sendErrMsg, sendByeMsgToServer, buildAndSend, sendto,
           retransmit
<1>3. \A type, name : userRequest(type, name) \/ userRename(name) => status' # EXIT_SUCCESS
    BY <1>1, <1>2, StatusDistinct, Zenon DEF userRequest, userRename, buildAndSend, sendto
<1> QED
    BY <1>1, <1>2, <1>3, Zenon
       DEF localEvent, processTimerEvent, processUserInput, processStdinHangup, processStdinError,
           sigintHandler

LEMMA CleanExitStep ==
    ASSUME IInv, InFlight, OrderedIds, Answered, CleanExit, [SessionNext]_sessionVars
    PROVE  CleanExit'
<1>1. ASSUME NEW d \in toClient, clientReceives(d) PROVE CleanExit'
  <2>1. processSocketEvent(d) /\ transmit /\ UNCHANGED srv_seen
      BY <1>1, Zenon DEF clientReceives, server
  <2>2. CASE d.type = "BYE"
    <3>1. d \in toClient'
        BY <1>1, <2>2, SMT DEF clientReceives, isSettled
    <3> QED
        BY <2>2, <3>1, Zenon DEF CleanExit
  <2>3. CASE d.type = "CONFIRM" /\ d.id = m_msg_to_server_id /\ m_msg_to_server.type = "BYE"
    <3>1. d.id \in srv_seen
        BY <2>3, Zenon DEF Answered
    <3>2. PICK m \in toServer : m.id = d.id
        BY <3>1, Zenon DEF Answered
    <3>3. m_msg_to_server.id = m_msg_to_server_id
        BY <2>3, ConfirmAwaited, Zenon
    <3>4. m.type = "BYE"
        BY <2>3, <3>2, <3>3, Zenon DEF OrderedIds
    <3>5. m \in toServer'
        BY <2>1, Zenon DEF transmit
    <3> QED
        BY <2>1, <3>1, <3>2, <3>4, <3>5, Zenon DEF CleanExit
  <2>4. CASE status' # EXIT_SUCCESS
      BY <2>4, Zenon DEF CleanExit
  <2> QED
      BY <2>1, <2>2, <2>3, <2>4, ExitCause, Zenon
<1>2. CASE clientTimer \/ userTypes \/ userInterrupts \/ stdinHangsUp
  <2>1. localEvent
      BY <1>2, Zenon DEF clientTimer, userTypes, userInterrupts, stdinHangsUp, localEvent
  <2> QED
      BY <2>1, LocalNoExit, Zenon DEF CleanExit
<1>3. CASE UNCHANGED <<status, toServer>> /\ srv_seen \subseteq srv_seen' /\ toClient \subseteq toClient'
    BY <1>3, Zenon DEF CleanExit
<1>4. CASE pipeCloses \/ UNCHANGED sessionVars
  <2>1. UNCHANGED <<status, toServer, srv_seen, toClient>>
      BY <1>4, Zenon DEF pipeCloses, sessionVars, server, vars
  <2> QED
      BY <1>3, <2>1, Zenon
<1>5. CASE serverEffect
    BY <1>3, <1>5, Zenon DEF serverEffect, confirmsAgain, takes, answers, talks
<1> QED
    BY <1>1, <1>2, <1>4, <1>5, ServerEffect, Zenon DEF SessionNext

\* A handler confirms only what it expects.
LEMMA ConfirmedEffect ==
    ASSUME NEW d, processSocketEvent(d)
    PROVE  \/ UNCHANGED m_confirmed_server_messages
           \/ /\ m_confirmed_server_messages' = m_confirmed_server_messages \cup {d.id}
              /\ d.type # "CONFIRM"
              /\ d.type \in {"MSG", "PING"} => d.type \in expectedTypes[m_current_state]
<1>1. processMessageFromServer(d)
    BY Zenon DEF processSocketEvent
<1>2. CASE sendErrMsg \/ throwException \/ noEffect
  <2>1. UNCHANGED m_confirmed_server_messages
      BY <1>2, Zenon DEF sendErrMsg, buildAndSend, sendto, throwException, leave, noEffect,
         members, incoming
  <2> QED
      BY <2>1
<1>3. CASE ~sendErrMsg /\ ~throwException /\ ~noEffect
  <2>1. CASE d.type \in {"BYE", "ERR"} /\ (processServerByeMsg(d) \/ processServerErrMsg(d))
    <3>1. d.type \notin {"CONFIRM", "REPLY", "MSG", "PING"}
        BY <2>1, SMT
    <3>2. m_confirmed_server_messages' = m_confirmed_server_messages \cup {d.id}
        BY <1>3, <2>1, Zenon DEF processServerByeMsg, processServerErrMsg, endedByServer,
           sendConfirmMsg, sendto
    <3> QED
        BY <3>1, <3>2, Zenon
  <2>2. CASE /\ d.type \in {"MSG", "PING"} /\ d.type \in expectedTypes[m_current_state]
             /\ processServerMsgMsg(d) \/ processServerPingMsg(d)
    <3>1. d.type # "CONFIRM"
        BY <2>2, SMT
    <3>2. m_confirmed_server_messages' = m_confirmed_server_messages \cup {d.id}
        BY <1>3, <2>2, Zenon DEF processServerMsgMsg, processServerPingMsg, sendConfirmMsg, sendto
    <3> QED
        BY <2>2, <3>1, <3>2, Zenon
  <2>3. CASE d.type = "REPLY" /\ d.type \in expectedTypes[m_current_state] /\ processServerReplyMsg(d)
    <3>1. d.type # "CONFIRM"
        BY <2>3, SMT
    <3> QED
        BY <1>3, <2>3, <3>1, Zenon DEF processServerReplyMsg, acceptReply, sendConfirmMsg, sendto
  <2>4. CASE processServerConfirmMsg(d)
      BY <1>3, <2>4, Zenon DEF processServerConfirmMsg, confirmedRequest, confirmedMsg, leave,
         members, incoming
  <2> QED
      BY <1>1, <1>3, <2>1, <2>2, <2>3, <2>4, Zenon DEF processMessageFromServer
<1> QED
    BY <1>2, <1>3

\* Nothing else changes what is confirmed.
LEMMA LocalConfirmsNothing == localEvent => UNCHANGED m_confirmed_server_messages
<1>1. throwException \/ terminate \/ noEffect \/ sendErrMsg \/ sendByeMsgToServer \/ retransmit
          => UNCHANGED m_confirmed_server_messages
    BY Zenon DEF throwException, terminate, leave, noEffect, sendErrMsg, sendByeMsgToServer, buildAndSend,
       sendto,
                 retransmit, members, incoming
<1>2. \A type, name : userRequest(type, name) \/ userRename(name) => UNCHANGED m_confirmed_server_messages
    BY <1>1, Zenon DEF userRequest, userRename, buildAndSend, sendto, incoming
<1> QED
    BY <1>1, <1>2, Zenon
       DEF localEvent, processTimerEvent, processUserInput, processStdinHangup, processStdinError,
           sigintHandler

\* What the client expects it goes on expecting, but for replies.
LEMMA StillExpected ==
    ASSUME IInv, IInv', clientEffect, NEW type \in {"MSG", "PING"}, type \in expectedTypes[m_current_state]
    PROVE  type \in expectedTypes[m_current_state']
<1>1. m_current_state \in FSM_state
    BY TypeFacts, Zenon
<1>2. CASE UNCHANGED m_current_state
    BY <1>2, Zenon
<1>3. CASE m_current_state = "S_AUTH" /\ m_current_state' = "S_OPEN"
    BY <1>3, SMT DEF expectedTypes
<1>4. CASE m_current_state = "S_START"
    BY <1>4, SMT DEF expectedTypes
<1>5. CASE m_current_state \in {"S_OPEN", "S_JOIN"} /\ m_current_state' \in {"S_OPEN", "S_JOIN"}
    BY <1>5, SMT DEF expectedTypes
<1>6. ASSUME NEW t, NEW name, asks(t, name) PROVE UNCHANGED m_current_state \/ m_current_state = "S_START"
    BY <1>6, Zenon DEF asks
<1>7. ASSUME NEW d, confirmsRequest(d)
      PROVE  \/ UNCHANGED m_current_state
             \/ m_current_state \in {"S_OPEN", "S_JOIN"} /\ m_current_state' \in {"S_OPEN", "S_JOIN"}
    BY <1>7, Zenon DEF confirmsRequest
<1>8. ASSUME NEW d, resolves(d)
      PROVE  \/ UNCHANGED m_current_state
             \/ m_current_state = "S_AUTH" /\ m_current_state' = "S_OPEN"
             \/ m_current_state \in {"S_OPEN", "S_JOIN"} /\ m_current_state' \in {"S_OPEN", "S_JOIN"}
    BY <1>8, Zenon DEF resolves
<1> QED
    BY <1>2, <1>3, <1>4, <1>5, <1>6, <1>7, <1>8, Zenon
       DEF clientEffect, keeps, closes, repeats, confirmsMsg

LEMMA SeenClientStep ==
    ASSUME IInv, IInv', Seen, clientEffect,
           \/ UNCHANGED m_confirmed_server_messages
           \/ \E d \in toClient :
                  /\ m_confirmed_server_messages' = m_confirmed_server_messages \cup {d.id}
                  /\ d.type # "CONFIRM"
                  /\ d.type \in {"MSG", "PING"} => d.type \in expectedTypes[m_current_state]
    PROVE  Seen'
<1>1. toClient' \subseteq toClient /\ UNCHANGED srv_next
    BY Zenon DEF clientEffect
<1>2. \A i \in m_confirmed_server_messages' : i < srv_next
  <2>1. \A i \in m_confirmed_server_messages' :
            i \in m_confirmed_server_messages \/ \E d \in toClient : d.type # "CONFIRM" /\ i = d.id
      BY Zenon
  <2> QED
      BY <2>1, Zenon DEF Seen
<1>3. ASSUME NEW e \in toClient', e.type \in {"MSG", "PING"}, e.id \in m_confirmed_server_messages'
      PROVE  e.type \in expectedTypes[m_current_state']
  <2>1. e.type # "CONFIRM" /\ e \in toClient
      BY <1>1, <1>3, SMT
  <2>2. e.type \in expectedTypes[m_current_state]
    <3>1. CASE e.id \in m_confirmed_server_messages
        BY <1>3, <2>1, <3>1, Zenon DEF Seen
    <3>2. CASE e.id \notin m_confirmed_server_messages
      <4>1. PICK d \in toClient :
                  /\ e.id = d.id
                  /\ d.type # "CONFIRM"
                  /\ d.type \in {"MSG", "PING"} => d.type \in expectedTypes[m_current_state]
          BY <1>3, <3>2, Zenon
      <4>2. e = d
          BY <2>1, <4>1, Zenon DEF Seen
      <4> QED
          BY <1>3, <4>1, <4>2, Zenon
    <3> QED
        BY <3>1, <3>2, Zenon
  <2> QED
      BY <1>3, <2>2, StillExpected, Zenon
<1> QED
    BY <1>1, <1>2, <1>3, Zenon DEF Seen

\* The server's ids are its own.
LEMMA SeenServerStep ==
    ASSUME InFlight, IInv, Seen, serverEffect
    PROVE  Seen'
<1>1. UNCHANGED <<m_confirmed_server_messages, m_current_state>>
    BY Zenon DEF serverEffect
<1>2. ASSUME NEW new, new.type # "CONFIRM", new.id = srv_next, srv_next' = srv_next + 1,
             \A d \in toClient' : d.type # "CONFIRM" => d \in toClient \/ d = new
      PROVE  Seen'
  <2>1. /\ \A i \in m_confirmed_server_messages : i \in Int /\ i < srv_next
        /\ \A d \in toClient : d.type # "CONFIRM" => d.id \in Int /\ d.id < srv_next
        /\ srv_next \in Int
    <3>1. /\ \A i \in m_confirmed_server_messages : i \in MsgId
          /\ \A d \in toClient : d.id \in MsgId
        BY SMT DEF InFlight, Datagram, IInv, TypeOK, IncomingType
    <3>2. \A i \in MsgId : i \in Int
        BY ConstantsAssumption, SMT DEF MsgId
    <3>3. srv_next \in Int
        BY SMT DEF InFlight
    <3> QED
        BY <3>1, <3>2, <3>3, Zenon DEF Seen
  <2>2. /\ \A i \in m_confirmed_server_messages : i < srv_next' /\ i # srv_next
        /\ \A d \in toClient : d.type # "CONFIRM" => d.id < srv_next' /\ d.id # srv_next
        /\ new.id < srv_next'
      BY <1>2, <2>1, SMT
  <2>3. \A d, e \in toClient' : d.type # "CONFIRM" /\ e.type # "CONFIRM" /\ d.id = e.id => d = e
      BY <1>2, <2>2, Zenon DEF Seen
  <2>4. ASSUME NEW d \in toClient', d.type \in {"MSG", "PING"}, d.id \in m_confirmed_server_messages
        PROVE  d.type \in expectedTypes[m_current_state]
    <3>1. d.type # "CONFIRM"
        BY <2>4, SMT
    <3>2. d \in toClient
        BY <1>2, <2>2, <2>4, <3>1, Zenon
    <3> QED
        BY <2>4, <3>2, Zenon DEF Seen
  <2>5. \A d \in toClient' : d.type # "CONFIRM" => d.id < srv_next'
      BY <1>2, <2>2, Zenon
  <2>6. \A i \in m_confirmed_server_messages' : i < srv_next'
      BY <1>1, <2>2, Zenon
  <2> QED
      BY <1>1, <2>3, <2>4, <2>5, <2>6, Zenon DEF Seen
<1>3. ASSUME NEW m \in toServer, confirmsAgain(m) \/ takes(m) PROVE Seen'
  <2>1. \A d \in toClient' : d \in toClient \/ d = confirmOf(m)
      BY <1>3, Zenon DEF confirmsAgain, takes
  <2>2. confirmOf(m).type = "CONFIRM" /\ "CONFIRM" \notin {"MSG", "PING"} /\ UNCHANGED srv_next
      BY <1>3, ConfirmFields, SMT DEF confirmsAgain, takes
  <2>3. \A d \in toClient' : d.type # "CONFIRM" => d \in toClient
      BY <2>1, <2>2, Zenon
  <2> QED
      BY <1>1, <2>1, <2>2, <2>3, Zenon DEF Seen
<1>4. ASSUME NEW m \in toServer, NEW ok \in BOOLEAN, answers(m, ok) PROVE Seen'
  <2>1. \A d \in toClient' : d \in toClient \/ d = confirmOf(m) \/ d = replyTo(m, ok)
      BY <1>4, Zenon DEF answers
  <2>2. confirmOf(m).type = "CONFIRM" /\ replyTo(m, ok).type # "CONFIRM" /\ replyTo(m, ok).id = srv_next
      BY ConfirmFields, ReplyFields, SMT
  <2>3. \A d \in toClient' : d.type # "CONFIRM" => d \in toClient \/ d = replyTo(m, ok)
      BY <2>1, <2>2, Zenon
  <2>4. srv_next' = srv_next + 1
      BY <1>4, Zenon DEF answers
  <2> QED
      BY <1>2, <2>2, <2>3, <2>4, Zenon
<1>5. ASSUME NEW type \in {"MSG", "PING", "BYE"}, talks(type) PROVE Seen'
  <2>1. \A d \in toClient' : d \in toClient \/ d = said(type)
      BY <1>5, Zenon DEF talks
  <2>2. said(type).type # "CONFIRM" /\ said(type).id = srv_next
      BY SaidFields, SMT
  <2>3. srv_next' = srv_next + 1
      BY <1>5, Zenon DEF talks
  <2> QED
      BY <1>2, <2>1, <2>2, <2>3, Zenon
<1> QED
    BY <1>3, <1>4, <1>5, Zenon DEF serverEffect

LEMMA SeenStep ==
    ASSUME IInv, InFlight, Seen, [SessionNext]_sessionVars
    PROVE  Seen'
<1>1. IInv'
    BY ClientInv, Zenon
<1>2. ASSUME NEW d \in toClient, clientReceives(d) PROVE Seen'
  <2>1. processSocketEvent(d)
      BY <1>2, Zenon DEF clientReceives
  <2> QED
      BY <1>1, <1>2, <2>1, ConfirmedEffect, ReceivesEffect, SeenClientStep, Zenon
<1>3. CASE clientTimer \/ userTypes \/ userInterrupts \/ stdinHangsUp
  <2>1. UNCHANGED m_confirmed_server_messages
      BY <1>3, LocalConfirmsNothing, Zenon
         DEF clientTimer, userTypes, userInterrupts, stdinHangsUp, localEvent
  <2>2. clientEffect
      BY <1>3, ClientTimerEffect, UserTypesEffect, InterruptEffect, Zenon
  <2> QED
      BY <1>1, <2>1, <2>2, SeenClientStep, Zenon
<1>4. CASE pipeCloses \/ UNCHANGED sessionVars
  <2>1. UNCHANGED m_confirmed_server_messages
      BY <1>4, Zenon DEF pipeCloses, sessionVars, vars, members, incoming
  <2>2. clientEffect
      BY <1>4, PipeEffect, Zenon
  <2> QED
      BY <1>1, <2>1, <2>2, SeenClientStep, Zenon
<1>5. CASE serverEffect
    BY <1>5, SeenServerStep, Zenon
<1> QED
    BY <1>2, <1>3, <1>4, <1>5, ServerEffect, Zenon DEF SessionNext

-----------------------------------------------------------------------------
(* The theorems.                                                             *)

LEMMA IdInit == SessionInit => IdInv
<1> SUFFICES ASSUME SessionInit PROVE IdInv
    OBVIOUS
<1>1. /\ toServer = {} /\ toClient = {} /\ srv_seen = {} /\ status = CONTINUE
      /\ m_is_waiting_for_reply = FALSE /\ m_is_waiting_for_confirm = FALSE
      /\ m_is_waiting_for_bye_confirm = FALSE
    BY Zenon DEF SessionInit, Init
<1>2. OrderedIds /\ Answered /\ Waits /\ CleanExit
    BY <1>1, StatusDistinct, Zenon DEF OrderedIds, awaitingConfirm, Answered, Waits, CleanExit
<1> QED
    BY <1>2, BaseInit, Zenon DEF IdInv

LEMMA IdStep ==
    ASSUME ~WRAP_IDS, IdInv, [SessionNext]_sessionVars
    PROVE  IdInv'
<1>1. IInv /\ InFlight /\ BaseInv /\ BaseInv'
    BY BaseStep, Zenon DEF IdInv, BaseInv
<1>2. clientEffect \/ serverEffect
    BY <1>1, Effect, Zenon
<1>3. OrderedIds' /\ Answered' /\ Waits'
    BY <1>1, <1>2, OrderedStep, AnsweredStep, WaitsStep, Zenon DEF IdInv
<1>4. CleanExit'
    BY <1>1, CleanExitStep, Zenon DEF IdInv
<1> QED
    BY <1>1, <1>3, <1>4, Zenon DEF IdInv

\* While the ids do not wrap, and even if a confirmed REPLY comes again: the ids of the client's
\* messages are in order, the server's answers refer to them, and a REPLY is awaited for
\* the last one only.
THEOREM IdInvariance ==
    ASSUME ~WRAP_IDS
    PROVE  SafetySpec => []IdInv
<1>1. IdInv /\ [SessionNext]_sessionVars => IdInv'
    BY IdStep, Zenon
<1> QED
    BY IdInit, <1>1, PTL DEF SafetySpec

LEMMA ExchangeInit == SessionInit => ExchangeInv
<1> SUFFICES ASSUME SessionInit PROVE ExchangeInv
    OBVIOUS
<1>1. BaseInv
    BY BaseInit, Zenon
<1>2. /\ toServer = {} /\ toClient = {} /\ srv_seen = {}
      /\ m_msg_to_server = NoMessage
      /\ m_is_waiting_for_reply = FALSE /\ m_is_waiting_for_confirm = FALSE
      /\ m_is_waiting_for_bye_confirm = FALSE /\ m_allowed_retransmissions = MAX_RETRANS
      /\ status = CONTINUE
    BY Zenon DEF SessionInit, Init
<1>3. ~awaitingConfirm /\ m_msg_to_server.type \notin {"JOIN", "MSG"}
    BY <1>2, SMT DEF awaitingConfirm, NoMessage
<1>4. Numbered /\ Answered /\ Turn /\ Settled /\ Accepted
    BY <1>2, <1>3, Zenon DEF Numbered, OrderedIds, Answered, Turn, Waits, Settled, Accepted
<1>5. Budget /\ CleanExit
    BY <1>2, <1>3, StatusDistinct, Zenon DEF Budget, FullBudget, CleanExit
<1> QED
    BY <1>1, <1>4, <1>5, Zenon DEF ExchangeInv

LEMMA ExchangeStep ==
    ASSUME ~WRAP_IDS, ~REPLY_DUPLICATES, ExchangeInv, [SessionNext]_sessionVars
    PROVE  ExchangeInv'
<1>1. IInv /\ InFlight /\ BaseInv /\ BaseInv'
    BY BaseStep, Zenon DEF ExchangeInv, BaseInv
<1>2. clientEffect \/ serverEffect
    BY <1>1, Effect, Zenon
<1>3. Numbered'
    BY <1>1, <1>2, NumberedStep, Zenon DEF ExchangeInv
<1>4. Answered'
    BY <1>2, AnsweredStep, Zenon DEF ExchangeInv
<1>5. Turn' /\ Settled'
    BY <1>1, <1>2, TurnStep, SettledStep, Zenon DEF ExchangeInv
<1>6. Budget' /\ Accepted'
    BY <1>1, <1>2, <1>3, BudgetStep, AcceptedStep, Zenon DEF ExchangeInv
<1>7. CleanExit'
    BY <1>1, CleanExitStep, Zenon DEF ExchangeInv, Numbered
<1> QED
    BY <1>1, <1>3, <1>4, <1>5, <1>6, <1>7, Zenon DEF ExchangeInv

\* While the ids do not wrap and no confirmed REPLY comes again, ExchangeInv holds: message, ids and
\* waits of Udp_client agree at every step with what is in flight and with the server.
THEOREM ExchangeInvariance ==
    ASSUME ~WRAP_IDS, ~REPLY_DUPLICATES
    PROVE  SafetySpec => []ExchangeInv
<1>1. ExchangeInv /\ [SessionNext]_sessionVars => ExchangeInv'
    BY ExchangeStep, Zenon
<1> QED
    BY ExchangeInit, <1>1, PTL DEF SafetySpec

\* The client reads a line of the user (stdin enabled in epoll) only when neither a CONFIRM
\* nor a REPLY to an earlier line is awaited, for sessions whose ids do not wrap and where
\* no confirmed REPLY comes again.  One that does breaks it (run stale_reply).
THEOREM SingleInputCorrect ==
    ASSUME ~WRAP_IDS, ~REPLY_DUPLICATES
    PROVE  SafetySpec => []SingleInput
<1>1. ExchangeInv => SingleInput
    BY Zenon DEF ExchangeInv, Turn, Waits, SingleInput
<1> QED
    BY ExchangeInvariance, <1>1, PTL

\* Each AUTH, JOIN, MSG and BYE is sent 1 + MAX_RETRANS times before processTimerEvent gives
\* it up: no retransmission of an earlier message is charged to it.  Same hypotheses.
THEOREM FullBudgetCorrect ==
    ASSUME ~WRAP_IDS, ~REPLY_DUPLICATES
    PROVE  SafetySpec => []FullBudget
<1>1. ExchangeInv => FullBudget
    BY Zenon DEF ExchangeInv, Budget
<1> QED
    BY ExchangeInvariance, <1>1, PTL

\* The process exits with success only after the server has got its BYE or has sent one:
\* no late or repeated CONFIRM of another message is taken for the one of the BYE
\* (processServerConfirmMsg).  Also if a confirmed REPLY comes again.
THEOREM CleanExitCorrect ==
    ASSUME ~WRAP_IDS
    PROVE  SafetySpec => []CleanExit
<1>1. IdInv => CleanExit
    BY Zenon DEF IdInv
<1> QED
    BY IdInvariance, <1>1, PTL

-----------------------------------------------------------------------------
(* What a step may never do.                                                 *)

LEMMA OpensAsNamed ==
    ASSUME ExchangeInv, [SessionNext]_sessionVars, m_current_state = "S_AUTH", m_current_state' = "S_OPEN"
    PROVE  srv_name = {m_msg_to_server.name}
<1>1. IInv /\ InFlight /\ Numbered /\ Answered /\ Turn /\ Settled /\ Accepted
    BY Zenon DEF ExchangeInv, BaseInv
<1>2. "S_AUTH" # "S_OPEN" /\ "S_AUTH" # "S_START" /\ "S_AUTH" \notin {"S_OPEN", "S_JOIN"}
    BY SMT
<1>3. PICK d \in toClient : resolves(d)
  <2>1. ASSUME NEW d, confirmsRequest(d) PROVE FALSE
      BY <2>1, SMT DEF confirmsRequest
  <2>2. ASSUME NEW type, NEW name, asks(type, name) PROVE FALSE
      BY <2>2, SMT DEF asks
  <2>3. ASSUME NEW d, confirmsMsg(d) PROVE FALSE
      BY <1>2, <2>3, Zenon DEF confirmsMsg
  <2>4. ASSUME NEW type, closes(type) PROVE FALSE
      BY <1>2, <2>4, Zenon DEF closes
  <2>5. ~keeps /\ ~repeats /\ ~serverEffect
      BY <1>2, Zenon DEF keeps, repeats, serverEffect
  <2> QED
      BY <1>1, <2>1, <2>2, <2>3, <2>4, <2>5, Effect, Zenon DEF clientEffect
<1>4. d.type = "REPLY" /\ d.ok /\ m_is_waiting_for_reply /\ m_msg_to_server_id - 1 = d.ref
    BY <1>2, <1>3, SMT DEF resolves
<1>5. ~m_is_waiting_for_confirm
    BY <1>1, <1>3, ResolvesConfirmed, Zenon DEF awaitingConfirm
<1>6. m_msg_to_server_id = m_msg_to_server.id + 1 /\ m_msg_to_server.type \in Requests
    BY <1>1, <1>4, <1>5, Zenon DEF Turn, Waits
<1>7. d.ref = m_msg_to_server.id
    BY <1>1, <1>4, <1>6, IdsAreNumbers, SMT
<1>8. m_msg_to_server.type = "AUTH"
    BY <1>1, <1>2, <1>6, Zenon DEF Turn, Waits, Requests
<1>9. PICK m \in toServer : m.id = d.ref
    BY <1>1, <1>4, Zenon DEF Answered
<1>10. m.type = "AUTH" /\ m.name = m_msg_to_server.name
    BY <1>1, <1>7, <1>8, <1>9, Zenon DEF Numbered, OrderedIds
<1> QED
    BY <1>1, <1>4, <1>9, <1>10, Zenon DEF Accepted

\* The step from S_AUTH to S_OPEN in processServerReplyMsg is taken only when the server has
\* signed the client in under the name of the last AUTH, also after AUTHs that were
\* refused and retransmitted.  Same hypotheses.
THEOREM SignedInAsNamedCorrect ==
    ASSUME ~WRAP_IDS, ~REPLY_DUPLICATES
    PROVE  SafetySpec => SignedInAsNamed
<1>1. ExchangeInv /\ [SessionNext]_sessionVars =>
          [m_current_state = "S_AUTH" /\ m_current_state' = "S_OPEN"
              => srv_name = {m_msg_to_server.name}]_sessionVars
    BY OpensAsNamed, Zenon
<1> QED
    BY ExchangeInvariance, <1>1, PTL DEF SafetySpec, SignedInAsNamed

\* The REPLY that refers to the confirmed request passes the tests of
\* processMessageFromServer and processServerReplyMsg, in whatever order datagrams come and
\* also if a confirmed REPLY comes again; an id that wraps breaks it.
THEOREM ReplyRecognisedCorrect ==
    ASSUME ~WRAP_IDS
    PROVE  SafetySpec => []ReplyRecognised
<1>1. IdInv => ReplyRecognised
  <2> SUFFICES ASSUME IdInv, m_is_waiting_for_reply, ~m_is_waiting_for_confirm,
                      NEW d \in toClient, d.type = "REPLY", d.ref = m_msg_to_server.id
               PROVE  "REPLY" \in expectedTypes[m_current_state] /\ answersRequest(d)
      BY Zenon DEF ReplyRecognised
  <2>1. IInv /\ InFlight /\ Waits
      BY Zenon DEF IdInv, BaseInv
  <2>2. m_msg_to_server_id = m_msg_to_server.id + 1 /\ m_current_state \in {"S_AUTH", "S_JOIN"}
      BY <2>1, Zenon DEF Waits
  <2>3. m_msg_to_server_id - 1 = d.ref
      BY <2>1, <2>2, IdsAreNumbers, SMT
  <2>4. "REPLY" \in expectedTypes[m_current_state]
      BY <2>2, SMT DEF expectedTypes
  <2> QED
      BY <2>3, <2>4, Zenon DEF answersRequest
<1> QED
    BY IdInvariance, <1>1, PTL

LEMMA DuplicateConfirmed ==
    ASSUME SeenInv, NEW d \in toClient, d.type \in {"MSG", "PING"},
           d.id \in m_confirmed_server_messages, clientReceives(d)
    PROVE  \/ /\ sent'.type = "CONFIRM" /\ sent'.id = d.id /\ sent'.to = m_server_addr
              /\ UNCHANGED <<status, displayed, members>>
           \/ status' = EXIT_FAILURE /\ sent'.type = "NONE" /\ UNCHANGED <<displayed, members>>
<1>1. d.valid /\ d.type \in expectedTypes[m_current_state]
    BY Zenon DEF SeenInv, BaseInv, FromServer, Seen
<1>2. processServerMsgMsg(d) \/ processServerPingMsg(d)
  <2>1. processMessageFromServer(d)
      BY Zenon DEF clientReceives, processSocketEvent
  <2>2. d.type \notin {"BYE", "ERR", "CONFIRM", "REPLY"}
      BY SMT
  <2> QED
      BY <1>1, <2>1, <2>2, Zenon DEF processMessageFromServer
<1>3. UNCHANGED displayed
    BY <1>1, <1>2, Zenon DEF processServerMsgMsg, processServerPingMsg, outputOnce
<1>4. CASE throwException
  <2>1. status' = EXIT_FAILURE /\ sent' = NoDatagram /\ UNCHANGED members
      BY <1>4, Zenon DEF throwException, leave
  <2> QED
      BY <1>3, <2>1, NothingIsNone, Zenon
<1>5. CASE ~throwException
  <2>1. /\ sent' = [type |-> "CONFIRM", id |-> d.id, name |-> UNKNOWN, to |-> m_server_addr]
        /\ m_confirmed_server_messages' = m_confirmed_server_messages \cup {d.id}
        /\ UNCHANGED <<status, flags, outgoing, m_server_addr, session, epoll>>
      BY <1>1, <1>2, <1>5, Zenon DEF processServerMsgMsg, processServerPingMsg, sendConfirmMsg, sendto
  <2>2. sent'.type = "CONFIRM" /\ sent'.id = d.id /\ sent'.to = m_server_addr
      BY <2>1, SMT
  <2>3. UNCHANGED m_confirmed_server_messages
      BY <2>1, SMT
  <2>4. UNCHANGED <<status, members>>
      BY <2>1, <2>3, Zenon DEF members, incoming
  <2> QED
      BY <1>3, <2>2, <2>4, Zenon
<1> QED
    BY <1>4, <1>5

LEMMA SeenInit == SessionInit => SeenInv
<1> SUFFICES ASSUME SessionInit PROVE SeenInv
    OBVIOUS
<1>1. toClient = {} /\ m_confirmed_server_messages = {}
    BY Zenon DEF SessionInit, Init
<1> QED
    BY <1>1, BaseInit, Zenon DEF SeenInv, Seen

\* A MSG or PING that was confirmed before is confirmed again when it comes again, without
\* any other effect, and never answered with an ERR: processMessageFromServer finds its type
\* expected in every state the client may have reached since.  No hypothesis is needed: ids
\* may wrap, and REPLYs may come again.
THEOREM DuplicateIsConfirmedCorrect == SafetySpec => DuplicateIsConfirmed
<1>1. SeenInv /\ [SessionNext]_sessionVars => SeenInv'
    BY BaseStep, SeenStep, Zenon DEF SeenInv, BaseInv
<1>2. SeenInv => ignoredButConfirmed({"MSG", "PING"})
    BY DuplicateConfirmed, Zenon DEF ignoredButConfirmed
<1>3. SeenInv /\ [SessionNext]_sessionVars => [ignoredButConfirmed({"MSG", "PING"})]_sessionVars
    BY <1>2, Zenon
<1> QED
    BY SeenInit, <1>1, <1>3, PTL DEF SafetySpec, DuplicateIsConfirmed

-----------------------------------------------------------------------------
(* The session implements ChatDelivery: whatever the network loses, delays,  *)
(* reorders and repeats, the lines of the user reach the server in order and *)
(* once.                                                                     *)

\* A MSG awaits its confirmation.
awaitingMsg == m_is_waiting_for_confirm /\ m_msg_to_server.type = "MSG"

\* The lines the server has not got yet: none, or the last one, which is under way.
Missing ==
    \A m \in toServer : m.type = "MSG" =>
        /\ srv_name # {}
        /\ m.id \notin srv_seen => Len(log) = Len(srv_log) + 1 /\ log[Len(log)] = entry(m)

\* While the last line awaits its confirmation, all lines before it are acknowledged.
Pending ==
    awaitingMsg =>
        /\ Len(log) = acked + 1
        /\ log[Len(log)] = entry(m_msg_to_server)
        /\ m_msg_to_server_id \in srv_seen => Len(srv_log) = Len(log)
        /\ m_msg_to_server_id \notin srv_seen => Len(srv_log) = acked

\* When no line is under way, all of them are acknowledged.
UpToDate == ~awaitingMsg /\ ~closing => acked = Len(log) /\ Len(srv_log) = Len(log)

LogType ==
    /\ log \in Seq(MsgId \X Names) /\ srv_log \in Seq(MsgId \X Names) /\ acked \in Nat

DeliveryInv == ExchangeInv /\ LogType /\ Missing /\ Pending /\ UpToDate

LEMMA EntryFields ==
    ASSUME NEW m, NEW n, entry(m) = entry(n)
    PROVE  m.id = n.id
BY SMT DEF entry

\* A message with the current id is the one that was built last.
LEMMA SameId ==
    ASSUME ExchangeInv, awaitingMsg, NEW m \in toServer, m.id = m_msg_to_server_id
    PROVE  m.type = "MSG"
<1>1. awaitingConfirm /\ Numbered
    BY Zenon DEF awaitingMsg, awaitingConfirm, ExchangeInv
<1> QED
    BY <1>1, Zenon DEF Numbered, OrderedIds, awaitingMsg

\* A message of the user that awaits its confirmation is a MSG or a request.
LEMMA MsgAwaited ==
    ASSUME ExchangeInv, awaitingConfirm, m_msg_to_server.type = "MSG"
    PROVE  awaitingMsg /\ m_msg_to_server.id = m_msg_to_server_id /\ srv_name # {}
<1>1. ~closing
    BY SMT DEF closing
<1>2. awaitingMsg
    BY <1>1, NotClosing, Zenon DEF awaitingMsg, awaitingConfirm, ExchangeInv, BaseInv
<1>3. m_current_state \in {"S_OPEN", "S_JOIN"}
    BY Zenon DEF ExchangeInv, Turn, Waits
<1> QED
    BY <1>2, <1>3, Zenon DEF ExchangeInv, BaseInv, Numbered, OrderedIds, SignedIn

-----------------------------------------------------------------------------
(* Steps that leave the three histories alone.                               *)

LEMMA KeepsDelivery ==
    ASSUME LogType, Missing, Pending, UpToDate,
           UNCHANGED <<m_is_waiting_for_confirm, m_msg_to_server, m_msg_to_server_id, log, srv_log,
                       acked, toServer, srv_seen>>,
           srv_name # {} => srv_name' # {}
    PROVE  LogType' /\ Missing' /\ Pending' /\ UpToDate'
BY Zenon DEF LogType, Missing, Pending, UpToDate, awaitingMsg, closing

\* An ERR or a BYE.
LEMMA ClosesDelivery ==
    ASSUME LogType, Missing, NEW type \in {"ERR", "BYE"}, closes(type), posted,
           UNCHANGED <<log, srv_log, acked, srv_seen, srv_name>>
    PROVE  LogType' /\ Missing' /\ Pending' /\ UpToDate'
<1>1. sent'.type # "MSG" /\ m_msg_to_server'.type # "MSG" /\ m_msg_to_server'.type \in {"ERR", "BYE"}
    BY SMT DEF closes, sends
<1>2. \A m \in toServer' : m \in toServer \/ m = sent'
    BY PostedCases, Zenon
<1> QED
    BY <1>1, <1>2, Zenon DEF LogType, Missing, Pending, UpToDate, awaitingMsg, closing

\* A retransmission.
LEMMA RepeatsDelivery ==
    ASSUME ExchangeInv, LogType, Missing, Pending, UpToDate, repeats, posted,
           UNCHANGED <<log, srv_log, acked, srv_seen, srv_name>>
    PROVE  LogType' /\ Missing' /\ Pending' /\ UpToDate'
<1>1. /\ sent'.type = m_msg_to_server.type /\ sent'.id = m_msg_to_server.id
      /\ entry(sent') = entry(m_msg_to_server)
    BY SMT DEF repeats, entry
<1>2. \A m \in toServer' : m \in toServer \/ m = sent'
    BY PostedCases, Zenon
<1>3. UNCHANGED <<m_is_waiting_for_confirm, m_msg_to_server, m_msg_to_server_id>> /\ awaitingConfirm
    BY Zenon DEF repeats
<1>4. ASSUME m_msg_to_server.type = "MSG"
      PROVE  /\ srv_name # {}
             /\ sent'.id \notin srv_seen => Len(log) = Len(srv_log) + 1 /\ log[Len(log)] = entry(sent')
    BY <1>1, <1>3, <1>4, MsgAwaited, Zenon DEF Pending
<1>5. Missing'
    BY <1>1, <1>2, <1>4, Zenon DEF Missing
<1> QED
    BY <1>3, <1>5, Zenon DEF LogType, Pending, UpToDate, awaitingMsg, closing

\* The state in which the user may type.
LEMMA ReadyForLine ==
    ASSUME ExchangeInv, Missing, UpToDate, LogType, stdin_enabled
    PROVE  /\ acked = Len(log) /\ Len(srv_log) = Len(log)
           /\ \A m \in toServer : m.type = "MSG" => m.id \in srv_seen
           /\ m_msg_to_server_id \notin srv_seen
<1>1. ~awaitingConfirm /\ ~closing /\ ~awaitingMsg
    BY Zenon DEF ExchangeInv, BaseInv, IInv, ClosingIsFinal, Turn, Waits, awaitingConfirm, awaitingMsg
<1>2. acked = Len(log) /\ Len(srv_log) = Len(log)
    BY <1>1, Zenon DEF UpToDate
<1>3. Len(log) # Len(srv_log) + 1
    BY <1>2, SMT DEF LogType
<1>4. \A m \in toServer : m.id < m_msg_to_server_id
    BY <1>1, Zenon DEF ExchangeInv, Numbered, OrderedIds
<1>5. \A m \in toServer : m.id # m_msg_to_server_id
    BY <1>4, IdsAreNumbers, SMT DEF ExchangeInv, BaseInv
<1> QED
    BY <1>2, <1>3, <1>5, Zenon DEF Missing, ExchangeInv, Answered

\* A request of the user, or a line.
LEMMA AsksDelivery ==
    ASSUME ExchangeInv, LogType, Missing, UpToDate,
           NEW type \in {"AUTH", "JOIN", "MSG"}, NEW name \in Names, asks(type, name), posted,
           log' = IF m_msg_to_server'.type = "MSG" THEN Append(log, entry(m_msg_to_server')) ELSE log,
           UNCHANGED <<srv_log, acked, srv_seen, srv_name>>
    PROVE  LogType' /\ Missing' /\ Pending' /\ UpToDate'
<1>1. /\ sent'.type = type /\ sent'.id = m_msg_to_server_id /\ m_msg_to_server'.type = type
      /\ entry(sent') = entry(m_msg_to_server')
      /\ entry(m_msg_to_server') = <<m_msg_to_server_id, name>>
      /\ m_msg_to_server_id' = m_msg_to_server_id /\ m_is_waiting_for_confirm' = TRUE
    BY SMT DEF asks, sends, entry
<1>2. \A m \in toServer' : m \in toServer \/ m = sent'
    BY PostedCases, Zenon
<1>3. /\ acked = Len(log) /\ Len(srv_log) = Len(log)
      /\ \A m \in toServer : m.type = "MSG" => m.id \in srv_seen
      /\ m_msg_to_server_id \notin srv_seen
    BY ReadyForLine, Zenon DEF asks
<1>4. ~closing'
    BY <1>1, SMT DEF closing
<1>5. CASE type # "MSG"
    BY <1>1, <1>2, <1>3, <1>5, Zenon DEF LogType, Missing, Pending, UpToDate, awaitingMsg
<1>6. CASE type = "MSG"
  <2>1. log' = Append(log, <<m_msg_to_server_id, name>>) /\ <<m_msg_to_server_id, name>> \in MsgId \X Names
    <3>1. m_msg_to_server_id \in MsgId
        BY TypeFacts, Zenon DEF ExchangeInv, BaseInv
    <3> QED
        BY <1>1, <1>6, <3>1, SMT
  <2>2. /\ log' \in Seq(MsgId \X Names)
        /\ Len(log') = Len(srv_log) + 1 /\ Len(log') = acked + 1
        /\ log'[Len(log')] = <<m_msg_to_server_id, name>>
      BY <1>3, <2>1, SMT DEF LogType
  <2>3. srv_name # {}
    <3>1. m_current_state \in {"S_OPEN", "S_JOIN"}
        BY <1>6, SMT DEF asks, canSendMessageType
    <3> QED
        BY <3>1, Zenon DEF ExchangeInv, BaseInv, SignedIn
  <2>4. Len(srv_log) = acked
      BY <1>3, Zenon
  <2>5. Missing'
      BY <1>1, <1>2, <1>3, <2>2, <2>3, Zenon DEF Missing
  <2>6. LogType' /\ Pending'
      BY <1>1, <1>3, <2>2, <2>4, Zenon DEF LogType, Pending
  <2>7. UpToDate'
      BY <1>1, <1>6, Zenon DEF UpToDate, awaitingMsg
  <2> QED
      BY <2>5, <2>6, <2>7
<1> QED
    BY <1>5, <1>6

\* The confirmation of a request.
LEMMA ConfirmsRequestDelivery ==
    ASSUME ExchangeInv, LogType, Missing, UpToDate, NEW d \in toClient, confirmsRequest(d),
           UNCHANGED <<log, srv_log, acked, toServer, srv_seen, srv_name>>
    PROVE  LogType' /\ Missing' /\ Pending' /\ UpToDate'
<1>1. m_msg_to_server.type # "MSG" /\ m_msg_to_server.type \notin {"ERR", "BYE"}
    BY SMT DEF confirmsRequest
<1>2. UNCHANGED m_msg_to_server
    BY Zenon DEF confirmsRequest, confirmsBy
<1> QED
    BY <1>1, <1>2, Zenon DEF LogType, Missing, Pending, UpToDate, awaitingMsg, closing

\* The confirmation of a line: the server has it.
LEMMA ConfirmsMsgDelivery ==
    ASSUME ExchangeInv, LogType, Missing, Pending, NEW d \in toClient, confirmsMsg(d),
           acked' = IF m_is_waiting_for_confirm THEN acked + 1 ELSE acked,
           UNCHANGED <<log, srv_log, toServer, srv_seen, srv_name>>
    PROVE  /\ LogType' /\ Missing' /\ Pending' /\ UpToDate'
           /\ acked' = acked + 1 /\ acked < Len(srv_log)
<1>1. IInv /\ InFlight /\ Numbered /\ Answered
    BY Zenon DEF ExchangeInv, BaseInv
<1>2. /\ d.type = "CONFIRM" /\ d.id = m_msg_to_server_id /\ m_msg_to_server.type = "MSG"
      /\ UNCHANGED m_msg_to_server /\ m_is_waiting_for_confirm' = FALSE
    BY Zenon DEF confirmsMsg, confirmsBy
<1>3. awaitingConfirm
    BY <1>1, <1>2, ConfirmAwaited, Zenon DEF Numbered
<1>4. awaitingMsg
    BY <1>2, <1>3, MsgAwaited, Zenon
<1>5. m_msg_to_server_id \in srv_seen
    BY <1>1, <1>2, Zenon DEF Answered
<1>6. Len(log) = acked + 1 /\ Len(srv_log) = Len(log) /\ acked' = acked + 1
    BY <1>4, <1>5, Zenon DEF Pending, awaitingMsg
<1>7. acked' \in Nat /\ acked < Len(srv_log) /\ acked' = Len(log)
    BY <1>6, SMT DEF LogType
<1>8. ~awaitingMsg'
    BY <1>2, Zenon DEF awaitingMsg
<1>9. LogType' /\ Missing' /\ Pending' /\ UpToDate'
    BY <1>6, <1>7, <1>8, Zenon DEF LogType, Missing, Pending, UpToDate
<1> QED
    BY <1>6, <1>7, <1>9

-----------------------------------------------------------------------------
(* The server.                                                               *)

\* A request, an ERR or a BYE reaches the server: no line is concerned.
LEMMA OtherDelivery ==
    ASSUME ExchangeInv, LogType, Missing, Pending, UpToDate, NEW m \in toServer, m.type # "MSG",
           srv_seen' = srv_seen \cup {m.id}, srv_name # {} => srv_name' # {},
           UNCHANGED <<m_is_waiting_for_confirm, m_msg_to_server, m_msg_to_server_id, log, srv_log,
                       acked, toServer>>
    PROVE  LogType' /\ Missing' /\ Pending' /\ UpToDate'
<1>1. awaitingMsg => m_msg_to_server_id # m.id
    BY SameId, Zenon
<1>2. Missing'
    BY Zenon DEF Missing
<1>3. Pending'
    BY <1>1, Zenon DEF Pending, awaitingMsg
<1>4. LogType' /\ UpToDate'
    BY Zenon DEF LogType, UpToDate, awaitingMsg, closing
<1> QED
    BY <1>2, <1>3, <1>4

\* A line the server has not seen: it is the next one, and the last.
LEMMA LineDelivery ==
    ASSUME ExchangeInv, LogType, Missing, Pending, UpToDate,
           NEW m \in toServer, m.type = "MSG", takes(m),
           UNCHANGED <<m_is_waiting_for_confirm, m_msg_to_server, m_msg_to_server_id, log, acked,
                       toServer>>
    PROVE  /\ LogType' /\ Missing' /\ Pending' /\ UpToDate'
           /\ Len(srv_log) < Len(log)
           /\ srv_log' = Append(srv_log, log[Len(srv_log) + 1])
<1>1. /\ m.id \notin srv_seen
      /\ srv_seen' = srv_seen \cup {m.id}
      /\ UNCHANGED srv_name
    BY Zenon DEF takes
<1>2. srv_name # {} /\ Len(log) = Len(srv_log) + 1 /\ log[Len(log)] = entry(m)
    BY <1>1, Zenon DEF Missing
<1>3. srv_log' = Append(srv_log, entry(m))
    BY <1>2, Zenon DEF takes
<1>4. /\ Len(srv_log) < Len(log) /\ entry(m) \in MsgId \X Names
      /\ Len(srv_log) # Len(log)
      /\ srv_log' \in Seq(MsgId \X Names) /\ Len(srv_log') = Len(log)
    BY <1>2, <1>3, SMT DEF LogType
<1>5. \A n \in toServer : n.type = "MSG" /\ n.id \notin srv_seen => n.id = m.id
  <2> SUFFICES ASSUME NEW n \in toServer, n.type = "MSG", n.id \notin srv_seen PROVE n.id = m.id
      OBVIOUS
  <2>1. entry(n) = entry(m)
      BY <1>2, Zenon DEF Missing
  <2> QED
      BY <2>1, EntryFields, Zenon
<1>6. Missing'
    BY <1>1, <1>2, <1>5, Zenon DEF Missing
<1>7. awaitingMsg => m_msg_to_server_id = m.id
  <2> SUFFICES ASSUME awaitingMsg PROVE m_msg_to_server_id = m.id
      OBVIOUS
  <2>1. entry(m_msg_to_server) = entry(m)
      BY <1>2, Zenon DEF Pending
  <2>2. m_msg_to_server.id = m_msg_to_server_id
      BY MsgAwaited, Zenon DEF awaitingMsg, awaitingConfirm
  <2>3. m_msg_to_server.id = m.id
      BY <2>1, EntryFields, Zenon
  <2> QED
      BY <2>2, <2>3, Zenon
<1>8. Pending'
    BY <1>1, <1>4, <1>7, Zenon DEF Pending, awaitingMsg
<1>9. UpToDate'
    BY <1>4, Zenon DEF UpToDate, awaitingMsg, closing
<1>10. LogType'
    BY <1>4, Zenon DEF LogType
<1> QED
    BY <1>2, <1>3, <1>4, <1>6, <1>8, <1>9, <1>10, Zenon

-----------------------------------------------------------------------------
(* The invariant, and the step of ChatDelivery that each step is.            *)

LEMMA DeliveryStart == SessionInit => DeliveryInv /\ Delivery!DeliveryInit
<1> SUFFICES ASSUME SessionInit PROVE DeliveryInv /\ Delivery!DeliveryInit
    OBVIOUS
<1>1. /\ toServer = {} /\ log = << >> /\ srv_log = << >> /\ acked = 0
      /\ m_is_waiting_for_confirm = FALSE
    BY Zenon DEF SessionInit, Init
<1>2. LogType /\ acked = Len(log) /\ Len(srv_log) = Len(log)
    BY <1>1, SMT DEF LogType
<1>3. Missing /\ Pending /\ UpToDate
    BY <1>1, <1>2, Zenon DEF Missing, Pending, UpToDate, awaitingMsg
<1> QED
    BY <1>1, <1>2, <1>3, ExchangeInit, Zenon DEF DeliveryInv, Delivery!DeliveryInit

\* A step of the client submits a line, acknowledges one, or neither.
LEMMA ClientDelivers ==
    ASSUME DeliveryInv, clientEffect
    PROVE  /\ LogType' /\ Missing' /\ Pending' /\ UpToDate'
           /\ [Delivery!DeliveryNext]_(Delivery!deliveryVars)
<1>1. ExchangeInv /\ LogType /\ Missing /\ Pending /\ UpToDate
    BY Zenon DEF DeliveryInv
<1>2. UNCHANGED <<srv_seen, srv_name, srv_log>>
    BY Zenon DEF clientEffect
<1>3. UNCHANGED <<log, acked>> => UNCHANGED Delivery!deliveryVars
    BY <1>2, Zenon DEF Delivery!deliveryVars
<1>4. CASE keeps
    BY <1>1, <1>2, <1>3, <1>4, KeepsDelivery, Zenon DEF keeps
<1>5. ASSUME NEW type \in {"AUTH", "JOIN", "MSG"}, NEW name \in Names, asks(type, name), posted,
             log' = IF m_msg_to_server'.type = "MSG" THEN Append(log, entry(m_msg_to_server')) ELSE log,
             UNCHANGED acked
      PROVE  /\ LogType' /\ Missing' /\ Pending' /\ UpToDate'
             /\ [Delivery!DeliveryNext]_(Delivery!deliveryVars)
  <2>1. LogType' /\ Missing' /\ Pending' /\ UpToDate'
      BY <1>1, <1>2, <1>5, AsksDelivery, Zenon
  <2>2. CASE log' = log
      BY <1>3, <1>5, <2>1, <2>2, Zenon
  <2>3. CASE log' = Append(log, entry(m_msg_to_server'))
    <3>1. acked = Len(log)
        BY <1>1, <1>5, ReadyForLine, Zenon DEF asks
    <3>2. entry(m_msg_to_server') = <<m_msg_to_server_id, name>>
        BY <1>5, SMT DEF asks, sends, entry
    <3>3. m_msg_to_server_id \in MsgId
        BY <1>1, TypeFacts, Zenon DEF ExchangeInv, BaseInv
    <3>4. entry(m_msg_to_server') \in MsgId \X Names
        BY <3>2, <3>3, SMT
    <3>5. Delivery!Submit
        BY <1>2, <1>5, <2>3, <3>1, <3>4, Zenon DEF Delivery!Submit
    <3> QED
        BY <2>1, <3>5, Zenon DEF Delivery!DeliveryNext
  <2> QED
      BY <1>5, <2>2, <2>3, Zenon
<1>6. CASE (\E type \in {"ERR", "BYE"} : closes(type)) /\ posted /\ UNCHANGED <<log, acked>>
    BY <1>1, <1>2, <1>3, <1>6, ClosesDelivery, Zenon
<1>7. CASE repeats /\ posted /\ UNCHANGED <<log, acked>>
    BY <1>1, <1>2, <1>3, <1>7, RepeatsDelivery, Zenon
<1>8. CASE (\E d \in toClient : confirmsRequest(d)) /\ UNCHANGED <<toServer, log, acked>>
    BY <1>1, <1>2, <1>3, <1>8, ConfirmsRequestDelivery, Zenon
<1>9. CASE /\ \E d \in toClient : confirmsMsg(d)
           /\ acked' = IF m_is_waiting_for_confirm THEN acked + 1 ELSE acked
           /\ UNCHANGED <<toServer, log>>
  <2>1. /\ LogType' /\ Missing' /\ Pending' /\ UpToDate'
        /\ acked' = acked + 1 /\ acked < Len(srv_log)
      BY <1>1, <1>2, <1>9, ConfirmsMsgDelivery, Zenon
  <2>2. Delivery!Acknowledge
      BY <1>2, <1>9, <2>1, Zenon DEF Delivery!Acknowledge
  <2> QED
      BY <2>1, <2>2, Zenon DEF Delivery!DeliveryNext
<1>10. CASE (\E d \in toClient : resolves(d)) /\ UNCHANGED <<toServer, log, acked>>
    BY <1>1, <1>2, <1>3, <1>10, KeepsDelivery, Zenon DEF resolves
<1> QED
    BY <1>4, <1>5, <1>6, <1>7, <1>8, <1>9, <1>10, Zenon DEF clientEffect

\* A step of the server delivers the next line, or none.
LEMMA ServerDelivers ==
    ASSUME DeliveryInv, serverEffect
    PROVE  /\ LogType' /\ Missing' /\ Pending' /\ UpToDate'
           /\ [Delivery!DeliveryNext]_(Delivery!deliveryVars)
<1>1. ExchangeInv /\ LogType /\ Missing /\ Pending /\ UpToDate
    BY Zenon DEF DeliveryInv
<1>2. UNCHANGED <<m_is_waiting_for_confirm, m_msg_to_server, m_msg_to_server_id, log, acked, toServer>>
    BY Zenon DEF serverEffect
<1>3. UNCHANGED srv_log => UNCHANGED Delivery!deliveryVars
    BY <1>2, Zenon DEF Delivery!deliveryVars
<1>4. ASSUME NEW m \in toServer, confirmsAgain(m)
      PROVE  /\ LogType' /\ Missing' /\ Pending' /\ UpToDate' /\ UNCHANGED srv_log
    BY <1>1, <1>2, <1>4, KeepsDelivery, Zenon DEF confirmsAgain
<1>5. ASSUME NEW type, talks(type)
      PROVE  /\ LogType' /\ Missing' /\ Pending' /\ UpToDate' /\ UNCHANGED srv_log
    BY <1>1, <1>2, <1>5, KeepsDelivery, Zenon DEF talks
<1>6. ASSUME NEW m \in toServer, NEW ok \in BOOLEAN, answers(m, ok)
      PROVE  /\ LogType' /\ Missing' /\ Pending' /\ UpToDate' /\ UNCHANGED srv_log
  <2>1. m.type # "MSG"
      BY <1>6, SMT DEF answers, Requests
  <2>2. srv_name # {} => srv_name' # {}
      BY <1>6, SMT DEF answers
  <2>3. srv_seen' = srv_seen \cup {m.id} /\ UNCHANGED srv_log
      BY <1>6, Zenon DEF answers
  <2> QED
      BY <1>1, <1>2, <2>1, <2>2, <2>3, OtherDelivery, Zenon
<1>7. ASSUME NEW m \in toServer, takes(m), m.type # "MSG"
      PROVE  /\ LogType' /\ Missing' /\ Pending' /\ UpToDate' /\ UNCHANGED srv_log
  <2>1. srv_seen' = srv_seen \cup {m.id} /\ UNCHANGED <<srv_log, srv_name>>
      BY <1>7, Zenon DEF takes
  <2> QED
      BY <1>1, <1>2, <1>7, <2>1, OtherDelivery, Zenon
<1>8. ASSUME NEW m \in toServer, takes(m), m.type = "MSG"
      PROVE  LogType' /\ Missing' /\ Pending' /\ UpToDate' /\ Delivery!Deliver
    BY <1>1, <1>2, <1>8, LineDelivery, Zenon DEF Delivery!Deliver
<1> QED
    BY <1>3, <1>4, <1>5, <1>6, <1>7, <1>8, Zenon DEF serverEffect, Delivery!DeliveryNext

LEMMA DeliveryStep ==
    ASSUME ~WRAP_IDS, ~REPLY_DUPLICATES, DeliveryInv, [SessionNext]_sessionVars
    PROVE  DeliveryInv' /\ [Delivery!DeliveryNext]_(Delivery!deliveryVars)
<1>1. IInv /\ InFlight /\ ExchangeInv /\ ExchangeInv'
    BY ExchangeStep, Zenon DEF DeliveryInv, ExchangeInv, BaseInv
<1>2. clientEffect \/ serverEffect
    BY <1>1, Effect, Zenon
<1>3. /\ LogType' /\ Missing' /\ Pending' /\ UpToDate'
      /\ [Delivery!DeliveryNext]_(Delivery!deliveryVars)
    BY <1>2, ClientDelivers, ServerDelivers, Zenon
<1> QED
    BY <1>1, <1>3, Zenon DEF DeliveryInv

\* The session implements ChatDelivery (DeliveredInOrder).  While the ids of the client do
\* not wrap and no confirmed REPLY comes again, each MSG the user types (udp-client.cpp,
\* processStdinEvent and sendMsgToServer) is taken by the server once and in order,
\* whatever is lost, delayed, repeated or retransmitted, and counts as acknowledged only
\* after the server has it.
THEOREM DeliveredInOrderCorrect ==
    ASSUME ~WRAP_IDS, ~REPLY_DUPLICATES
    PROVE  SafetySpec => DeliveredInOrder
<1>1. DeliveryInv /\ [SessionNext]_sessionVars
          => DeliveryInv' /\ [Delivery!DeliveryNext]_(Delivery!deliveryVars)
    BY DeliveryStep, Zenon
<1> QED
    BY DeliveryStart, <1>1, PTL DEF SafetySpec, DeliveredInOrder, Delivery!DeliverySpec
=============================================================================
