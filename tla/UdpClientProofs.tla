-------------------------- MODULE UdpClientProofs --------------------------
(***************************************************************************)
(* Proofs about UdpClient, for every id space, retransmission budget,      *)
(* confirmation timeout, address set, name set and set of input datagrams. *)
(* The invariants are proved together, as the inductive invariant IInv:    *)
(* one lemma per operation the handlers are made of, one per handler.      *)
(***************************************************************************)
EXTENDS UdpClient, TLAPS

-----------------------------------------------------------------------------
(* Constants, ids and printing.                                              *)

\* What the assumption on the constants gives the steps below.
LEMMA ConstantFacts ==
    /\ CONFIRM_TIMEOUT \in Nat /\ MAX_RETRANS \in Nat /\ REPLY_TIMEOUT \in Nat
    /\ REPLY_TIMEOUT > 0
    /\ 0 \in MsgId /\ SERVER_ADDR \in Addrs /\ UNKNOWN \in Names
    /\ NoDatagram \in [type : ClientMsgType \cup {"NONE", "CONFIRM"}, id : MsgId,
                     name : Names, to : Addrs]
<1>1. 0 \in MsgId
    BY ConstantsAssumption, SMT DEF MsgId
<1> QED
    BY <1>1, ConstantsAssumption, SMT DEF REPLY_TIMEOUT, NoDatagram

\* The increment of the uint16_t id stays within its range.
LEMMA NextIdInRange == \A id \in MsgId : NextId(id) \in MsgId
BY ConstantsAssumption, SMT DEF MsgId, NextId

\* Printing unless the id is confirmed never prints an id a second time.
LEMMA PrintOnce ==
    ASSUME NEW d, d.id \in MsgId, IInv, running, outputOnce(d)
    PROVE  /\ displayed' \in [MsgId -> Nat]
           /\ DisplayedOnce'
           /\ \A i \in MsgId : displayed'[i] > 0 => i \in m_confirmed_server_messages \cup {d.id}
<1>1. /\ displayed \in [MsgId -> Nat]
      /\ \A i \in MsgId : displayed[i] <= 1
      /\ \A i \in MsgId : displayed[i] > 0 => i \in m_confirmed_server_messages
    BY Zenon DEF IInv, TypeOK, IncomingType, DisplayedOnce, PrintedIsConfirmed
<1>2. CASE d.id \in m_confirmed_server_messages
    BY <1>1, <1>2, SMT DEF outputOnce, DisplayedOnce
<1>3. CASE d.id \notin m_confirmed_server_messages
  <2>1. displayed' = [displayed EXCEPT ![d.id] = @ + 1]
      BY <1>3, Zenon DEF outputOnce
  <2>2. displayed[d.id] = 0
      BY <1>1, <1>3, SMT
  <2> QED
      BY <1>1, <2>1, <2>2, SMT DEF DisplayedOnce
<1> QED
    BY <1>2, <1>3, Zenon

\* The constructors establish the invariant.
LEMMA InitIInv == Init => IInv
<1> SUFFICES ASSUME Init PROVE IInv
    OBVIOUS
<1>0. FlagsType
    BY Zenon DEF Init, FlagsType
<1>1. ControlType
    BY ConstantFacts, SMT DEF Init, ControlType, FSM_state
<1>2. OutgoingType
    BY ConstantFacts, SMT DEF Init, OutgoingType, NoMessage
<1>3. IncomingType /\ SentType
    BY ConstantFacts, SMT DEF Init, IncomingType, SentType
<1>4. TimerHasPurpose /\ NeverStalled
    BY SMT DEF Init, TimerHasPurpose, NeverStalled
<1>5. ~closing /\ ~awaitingConfirm
    BY SMT DEF Init, closing, NoMessage, awaitingConfirm
<1>6. ClosingIsFinal /\ JoinAwaitsReply /\ JoinIsConfirmed /\ RetransmissionBound
    BY <1>5, SMT DEF Init, ClosingIsFinal, JoinAwaitsReply, JoinIsConfirmed,
           RetransmissionBound
<1>7. DisplayedOnce /\ PrintedIsConfirmed
    BY SMT DEF Init, DisplayedOnce, PrintedIsConfirmed
<1> QED
    BY <1>0, <1>1, <1>2, <1>3, <1>4, <1>6, <1>7, Zenon DEF IInv, TypeOK

-----------------------------------------------------------------------------
(* Steps that leave the members alone.                                       *)

\* No effect, an exit, an exception: the invariant survives.
LEMMA MembersUnchanged ==
    ASSUME IInv, UNCHANGED <<members, displayed>>,
           status' \in {CONTINUE, EXIT_SUCCESS, EXIT_FAILURE, KILLED},
           status' = CONTINUE => status = CONTINUE,
           SentType'
    PROVE  IInv'
<1>1. UNCHANGED <<m_current_state, m_is_waiting_for_reply, m_is_waiting_for_confirm,
                  m_is_waiting_for_bye_confirm, m_msg_to_server, m_msg_to_server_id,
                  m_allowed_retransmissions, m_confirmed_server_messages, m_server_addr,
                  m_user_display_name, stdin_enabled, timer, displayed, copies>>
    BY Zenon DEF members, flags, outgoing, incoming, session, epoll
<1>2. TypeOK'
    BY <1>1, Zenon DEF IInv, TypeOK, ControlType, FlagsType, OutgoingType, IncomingType
<1>3. TimerHasPurpose' /\ NeverStalled' /\ ClosingIsFinal'
    BY <1>1, Zenon DEF IInv, TimerHasPurpose, NeverStalled, ClosingIsFinal, running, closing,
                       awaitingConfirm
<1>4. DisplayedOnce' /\ PrintedIsConfirmed'
    BY <1>1, Zenon DEF IInv, DisplayedOnce, PrintedIsConfirmed, running
<1>5. JoinAwaitsReply' /\ JoinIsConfirmed' /\ RetransmissionBound'
    BY <1>1, Zenon DEF IInv, JoinAwaitsReply, JoinIsConfirmed, RetransmissionBound, closing,
                       awaitingConfirm
<1> QED
    BY <1>2, <1>3, <1>4, <1>5, Zenon DEF IInv

LEMMA NothingSent == sent' = NoDatagram => SentType'
BY ConstantFacts, Zenon DEF SentType

\* run() returns.
LEMMA ExitStep ==
    ASSUME IInv, NEW code \in {EXIT_SUCCESS, EXIT_FAILURE, KILLED}, leave(code), UNCHANGED displayed,
           sent' = NoDatagram
    PROVE  IInv'
<1>1. status' = code /\ UNCHANGED members
    BY Zenon DEF leave
<1>2. code # CONTINUE
    BY SMT DEF CONTINUE, EXIT_SUCCESS, EXIT_FAILURE, KILLED
<1> QED
    BY <1>1, <1>2, NothingSent, MembersUnchanged, Zenon

LEMMA ThrowStep == IInv /\ throwException /\ UNCHANGED displayed => IInv'
BY ExitStep, Zenon DEF throwException

LEMMA NoEffectStep == IInv /\ noEffect => IInv'
<1> SUFFICES ASSUME IInv, noEffect PROVE IInv'
    OBVIOUS
<1>1. UNCHANGED <<status, displayed, members>> /\ sent' = NoDatagram
    BY Zenon DEF noEffect
<1>2. status \in {CONTINUE, EXIT_SUCCESS, EXIT_FAILURE, KILLED}
    BY Zenon DEF IInv, TypeOK, ControlType
<1> QED
    BY <1>1, <1>2, NothingSent, MembersUnchanged, Zenon

-----------------------------------------------------------------------------
(* Messages the client builds.                                               *)

\* buildAndSend either sends or ends the program; what holds after it has sent.
LEMMA BuildAndSendEffect ==
    ASSUME NEW type \in ClientMsgType, NEW id \in MsgId, NEW name \in Names, IInv,
           /\ sent' = [type |-> type, id |-> id, name |-> name, to |-> m_server_addr]
           /\ m_msg_to_server' = [type |-> type, id |-> id, name |-> name]
           /\ m_msg_to_server_id' = id
           /\ copies' = 1
           /\ stdin_enabled' = FALSE
           /\ timer' = CONFIRM_TIMEOUT
           /\ m_allowed_retransmissions' \in 0 .. MAX_RETRANS
           /\ m_is_waiting_for_reply' \in BOOLEAN
           /\ m_is_waiting_for_confirm' \in BOOLEAN
           /\ m_is_waiting_for_bye_confirm' \in BOOLEAN
           /\ m_current_state' \in FSM_state
           /\ m_user_display_name' \in Names
           /\ UNCHANGED <<status, displayed, m_confirmed_server_messages, m_server_addr>>,
           awaitingConfirm',
           type \in {"ERR", "BYE"} => ~m_is_waiting_for_reply',
           m_is_waiting_for_bye_confirm' => type \in {"ERR", "BYE"},
           m_current_state' = "S_JOIN" => type \in {"ERR", "BYE"}
    PROVE  IInv'
<1>1. ControlType'
  <2>1. status' \in {CONTINUE, EXIT_SUCCESS, EXIT_FAILURE, KILLED}
      BY Zenon DEF IInv, TypeOK, ControlType
  <2>2. timer' \in Nat
      BY ConstantFacts, Zenon
  <2> QED
      BY <2>1, <2>2, Zenon DEF ControlType
<1>2. FlagsType'
    BY Zenon DEF FlagsType
<1>3. OutgoingType' /\ SentType'
    BY SMT DEF IInv, TypeOK, OutgoingType, SentType, IncomingType
<1>4. IncomingType' /\ DisplayedOnce' /\ PrintedIsConfirmed'
    BY Zenon DEF IInv, TypeOK, IncomingType, DisplayedOnce, PrintedIsConfirmed, running
<1>5. TimerHasPurpose' /\ NeverStalled'
    BY SMT DEF TimerHasPurpose, NeverStalled
<1>6. closing' <=> type \in {"ERR", "BYE"}
    BY SMT DEF closing
<1>7. m_msg_to_server'.id = m_msg_to_server_id'
    BY SMT
<1>8. ClosingIsFinal' /\ JoinAwaitsReply' /\ JoinIsConfirmed'
    BY <1>6, <1>7, Zenon DEF ClosingIsFinal, JoinAwaitsReply, JoinIsConfirmed
<1>9. RetransmissionBound'
  <2>1. \A r \in 0 .. MAX_RETRANS : 1 + r <= MAX_RETRANS + 1
      BY ConstantFacts, SMT
  <2> QED
      BY <2>1, Zenon DEF RetransmissionBound
<1> QED
    BY <1>1, <1>2, <1>3, <1>4, <1>5, <1>8, <1>9, Zenon DEF IInv, TypeOK

\* Facts about the members that the three messages below share.
LEMMA TypeFacts ==
    ASSUME IInv
    PROVE  /\ m_msg_to_server_id \in MsgId /\ NextId(m_msg_to_server_id) \in MsgId
           /\ m_user_display_name \in Names
           /\ m_current_state \in FSM_state
           /\ m_allowed_retransmissions \in 0 .. MAX_RETRANS
           /\ m_is_waiting_for_reply \in BOOLEAN
           /\ m_is_waiting_for_confirm \in BOOLEAN
           /\ m_is_waiting_for_bye_confirm \in BOOLEAN
<1>1. m_msg_to_server_id \in MsgId
    BY Zenon DEF IInv, TypeOK, OutgoingType
<1> QED
    BY <1>1, NextIdInRange, Zenon DEF IInv, TypeOK, OutgoingType, FlagsType, ControlType

\* An ERR is built and sent, in any state.
LEMMA ErrStep == IInv /\ sendErrMsg => IInv'
<1> SUFFICES ASSUME IInv, sendErrMsg PROVE IInv'
    OBVIOUS
<1>1. CASE throwException /\ UNCHANGED displayed
    BY <1>1, ThrowStep, Zenon
<1>2. CASE ~throwException
  <2>1. /\ sent' = [type |-> "ERR", id |-> NextId(m_msg_to_server_id),
                    name |-> m_user_display_name, to |-> m_server_addr]
        /\ m_msg_to_server' = [type |-> "ERR", id |-> NextId(m_msg_to_server_id),
                               name |-> m_user_display_name]
        /\ m_msg_to_server_id' = NextId(m_msg_to_server_id)
        /\ copies' = 1
        /\ stdin_enabled' = FALSE
        /\ timer' = CONFIRM_TIMEOUT
        /\ m_is_waiting_for_confirm' = TRUE
        /\ m_is_waiting_for_reply' = FALSE
        /\ UNCHANGED <<status, displayed, m_is_waiting_for_bye_confirm,
                       m_allowed_retransmissions, m_confirmed_server_messages, m_server_addr,
                       m_current_state, m_user_display_name>>
      BY <1>2, Zenon DEF sendErrMsg, buildAndSend, sendto, disableStdinEvents, startTimer,
                         incoming, session
  <2>2. "ERR" \in ClientMsgType
      BY Zenon DEF ClientMsgType
  <2>3. awaitingConfirm' /\ ~m_is_waiting_for_reply'
      BY <2>1, Zenon DEF awaitingConfirm
  <2>4. /\ m_is_waiting_for_confirm' \in BOOLEAN /\ m_is_waiting_for_reply' \in BOOLEAN
      BY <2>1, Zenon
  <2> QED
      BY <2>1, <2>2, <2>3, <2>4, TypeFacts, BuildAndSendEffect, Zenon
<1> QED
    BY <1>1, <1>2, Zenon DEF sendErrMsg, buildAndSend

\* A BYE is built and sent, in any state.
LEMMA ByeStep == IInv /\ sendByeMsgToServer => IInv'
<1> SUFFICES ASSUME IInv, sendByeMsgToServer PROVE IInv'
    OBVIOUS
<1>1. CASE throwException /\ UNCHANGED displayed
    BY <1>1, ThrowStep, Zenon
<1>2. CASE ~throwException
  <2>1. /\ sent' = [type |-> "BYE", id |-> NextId(m_msg_to_server_id),
                    name |-> m_user_display_name, to |-> m_server_addr]
        /\ m_msg_to_server' = [type |-> "BYE", id |-> NextId(m_msg_to_server_id),
                               name |-> m_user_display_name]
        /\ m_msg_to_server_id' = NextId(m_msg_to_server_id)
        /\ copies' = 1
        /\ stdin_enabled' = FALSE
        /\ timer' = CONFIRM_TIMEOUT
        /\ m_is_waiting_for_confirm' = FALSE
        /\ m_is_waiting_for_reply' = FALSE
        /\ m_is_waiting_for_bye_confirm' = TRUE
        /\ m_allowed_retransmissions' = MAX_RETRANS
        /\ UNCHANGED <<status, displayed, m_confirmed_server_messages, m_server_addr,
                       m_current_state, m_user_display_name>>
      BY <1>2, Zenon DEF sendByeMsgToServer, buildAndSend, sendto, disableStdinEvents,
                         startTimer, incoming, session
  <2>2. "BYE" \in ClientMsgType
      BY Zenon DEF ClientMsgType
  <2>3. awaitingConfirm' /\ ~m_is_waiting_for_reply'
      BY <2>1, Zenon DEF awaitingConfirm
  <2>4. /\ m_is_waiting_for_confirm' \in BOOLEAN /\ m_is_waiting_for_reply' \in BOOLEAN
        /\ m_is_waiting_for_bye_confirm' \in BOOLEAN
      BY <2>1, Zenon
  <2>5. m_allowed_retransmissions' \in 0 .. MAX_RETRANS
      BY <2>1, ConstantFacts, SMT
  <2> QED
      BY <2>1, <2>2, <2>3, <2>4, <2>5, TypeFacts, BuildAndSendEffect, Zenon
<1> QED
    BY <1>1, <1>2, Zenon DEF sendByeMsgToServer, buildAndSend

\* A line of the user is sent; standard input was enabled, so nothing is closing.
LEMMA RequestStep ==
    ASSUME NEW type \in {"AUTH", "JOIN", "MSG"}, NEW name \in Names, IInv, stdin_enabled,
           userRequest(type, name)
    PROVE  IInv'
<1>1. CASE throwException /\ UNCHANGED displayed
    BY <1>1, ThrowStep, Zenon
<1>2. CASE ~throwException
  <2>1. /\ sent' = [type |-> type, id |-> m_msg_to_server_id, name |-> name,
                    to |-> m_server_addr]
        /\ m_msg_to_server' = [type |-> type, id |-> m_msg_to_server_id, name |-> name]
        /\ m_msg_to_server_id' = m_msg_to_server_id
        /\ copies' = 1
        /\ stdin_enabled' = FALSE
        /\ timer' = CONFIRM_TIMEOUT
        /\ m_user_display_name' = name
        /\ m_current_state' = IF m_current_state = "S_START" THEN "S_AUTH" ELSE m_current_state
        /\ m_is_waiting_for_confirm' = TRUE
        /\ m_is_waiting_for_reply' = (type \in {"AUTH", "JOIN"})
        /\ UNCHANGED <<status, displayed, m_is_waiting_for_bye_confirm,
                       m_allowed_retransmissions, m_confirmed_server_messages, m_server_addr>>
      BY <1>2, Zenon DEF userRequest, buildAndSend, sendto, disableStdinEvents, startTimer,
                         incoming
  <2>2. type \in ClientMsgType /\ type \notin {"ERR", "BYE"}
      BY SMT DEF ClientMsgType
  <2>3. awaitingConfirm'
      BY <2>1, Zenon DEF awaitingConfirm
  <2>4. /\ m_is_waiting_for_confirm' \in BOOLEAN /\ m_is_waiting_for_reply' \in BOOLEAN
        /\ m_is_waiting_for_bye_confirm' \in BOOLEAN
    <3>1. (type \in {"AUTH", "JOIN"}) \in BOOLEAN
        BY SMT
    <3> QED
        BY <2>1, <3>1, TypeFacts, Zenon
  <2>5. ~m_is_waiting_for_bye_confirm'
      BY <2>1, Zenon DEF IInv, ClosingIsFinal
  <2>6. m_current_state' \in FSM_state /\ m_current_state' # "S_JOIN"
      BY <2>1, TypeFacts, SMT DEF userRequest, canSendMessageType, FSM_state
  <2>7. /\ m_allowed_retransmissions' \in 0 .. MAX_RETRANS
        /\ m_user_display_name' \in Names
        /\ m_msg_to_server_id \in MsgId
      BY <2>1, TypeFacts, Zenon
  <2> QED
      BY <2>1, <2>2, <2>3, <2>4, <2>5, <2>6, <2>7, BuildAndSendEffect, Zenon
<1> QED
    BY <1>1, <1>2, Zenon DEF userRequest, buildAndSend

\* /rename, at any moment the user may type.
LEMMA RenameStep ==
    ASSUME NEW name \in Names, IInv, userRename(name)
    PROVE  IInv'
<1>1. /\ m_user_display_name' = name
      /\ sent' = NoDatagram
      /\ UNCHANGED <<status, m_current_state, m_is_waiting_for_reply, m_is_waiting_for_confirm,
                     m_is_waiting_for_bye_confirm, m_msg_to_server, m_msg_to_server_id,
                     m_allowed_retransmissions, m_confirmed_server_messages, m_server_addr,
                     stdin_enabled, timer, displayed, copies>>
    BY Zenon DEF userRename, flags, outgoing, incoming, epoll
<1>2. TypeOK'
    BY <1>1, NothingSent, Zenon
       DEF IInv, TypeOK, ControlType, FlagsType, OutgoingType, IncomingType
<1>3. TimerHasPurpose' /\ NeverStalled' /\ ClosingIsFinal'
    BY <1>1, Zenon DEF IInv, TimerHasPurpose, NeverStalled, ClosingIsFinal, running, closing,
                       awaitingConfirm
<1>4. DisplayedOnce' /\ PrintedIsConfirmed'
    BY <1>1, Zenon DEF IInv, DisplayedOnce, PrintedIsConfirmed, running
<1>5. JoinAwaitsReply' /\ JoinIsConfirmed' /\ RetransmissionBound'
    BY <1>1, Zenon DEF IInv, JoinAwaitsReply, JoinIsConfirmed, RetransmissionBound, closing,
                       awaitingConfirm
<1> QED
    BY <1>2, <1>3, <1>4, <1>5, Zenon DEF IInv

-----------------------------------------------------------------------------
(* CONFIRM.                                                                  *)

\* While neither an ERR nor a BYE is outstanding no BYE confirmation is awaited.
LEMMA NotClosing == IInv /\ ~closing => ~m_is_waiting_for_bye_confirm
BY Zenon DEF IInv, ClosingIsFinal

\* The CONFIRM of an AUTH or a JOIN starts the wait for the REPLY.
LEMMA ConfirmedRequestStep ==
    ASSUME NEW state \in FSM_state, IInv, ~closing, confirmedRequest(state)
    PROVE  IInv'
<1>1. /\ m_is_waiting_for_confirm' = FALSE
      /\ m_is_waiting_for_reply' = TRUE
      /\ m_allowed_retransmissions' = MAX_RETRANS
      /\ m_msg_to_server_id' = NextId(m_msg_to_server_id)
      /\ m_current_state' = state
      /\ timer' = REPLY_TIMEOUT
      /\ sent' = NoDatagram
      /\ UNCHANGED <<status, displayed, m_is_waiting_for_bye_confirm, m_msg_to_server, copies,
                     m_confirmed_server_messages, m_server_addr, m_user_display_name,
                     stdin_enabled>>
    BY Zenon DEF confirmedRequest, startTimer, incoming
<1>2. ~awaitingConfirm' /\ ~closing'
    BY <1>1, NotClosing, Zenon DEF awaitingConfirm, closing
<1>3. ControlType' /\ SentType'
    BY <1>1, ConstantFacts, NothingSent, Zenon DEF IInv, TypeOK, ControlType
<1>4. FlagsType'
    BY <1>1, Zenon DEF IInv, TypeOK, FlagsType
<1>5. OutgoingType'
  <2>1. MAX_RETRANS \in 0 .. MAX_RETRANS
      BY ConstantFacts, SMT
  <2> QED
      BY <1>1, <2>1, TypeFacts, Zenon DEF IInv, TypeOK, OutgoingType
<1>6. IncomingType' /\ DisplayedOnce' /\ PrintedIsConfirmed'
    BY <1>1, Zenon DEF IInv, TypeOK, IncomingType, DisplayedOnce, PrintedIsConfirmed, running
<1>7. TimerHasPurpose' /\ NeverStalled'
    BY <1>1, ConstantFacts, Zenon DEF TimerHasPurpose, NeverStalled
<1>8. ClosingIsFinal' /\ JoinAwaitsReply' /\ JoinIsConfirmed' /\ RetransmissionBound'
    BY <1>1, <1>2, Zenon DEF ClosingIsFinal, JoinAwaitsReply, JoinIsConfirmed,
                             RetransmissionBound, awaitingConfirm
<1> QED
    BY <1>3, <1>4, <1>5, <1>6, <1>7, <1>8, Zenon DEF IInv, TypeOK

\* The CONFIRM of a MSG gives the turn back to the user.
LEMMA ConfirmedMsgStep ==
    ASSUME IInv, ~closing, m_current_state = "S_OPEN", confirmedMsg
    PROVE  IInv'
<1>1. /\ timer' = 0
      /\ m_is_waiting_for_confirm' = FALSE
      /\ m_allowed_retransmissions' = MAX_RETRANS
      /\ m_msg_to_server_id' = NextId(m_msg_to_server_id)
      /\ stdin_enabled' = TRUE
      /\ sent' = NoDatagram
      /\ UNCHANGED <<status, displayed, m_is_waiting_for_reply, m_is_waiting_for_bye_confirm,
                     m_msg_to_server, copies, m_confirmed_server_messages, m_server_addr,
                     m_current_state, m_user_display_name>>
    BY Zenon DEF confirmedMsg, stopTimer, enableStdinEvents, incoming, session
<1>2. ~awaitingConfirm' /\ ~closing'
    BY <1>1, NotClosing, Zenon DEF awaitingConfirm, closing
<1>3. ControlType' /\ SentType'
  <2>1. 0 \in Nat
      BY SMT
  <2> QED
      BY <1>1, <2>1, NothingSent, Zenon DEF IInv, TypeOK, ControlType
<1>4. FlagsType'
    BY <1>1, Zenon DEF IInv, TypeOK, FlagsType
<1>5. OutgoingType'
  <2>1. MAX_RETRANS \in 0 .. MAX_RETRANS
      BY ConstantFacts, SMT
  <2> QED
      BY <1>1, <2>1, TypeFacts, Zenon DEF IInv, TypeOK, OutgoingType
<1>6. IncomingType' /\ DisplayedOnce' /\ PrintedIsConfirmed'
    BY <1>1, Zenon DEF IInv, TypeOK, IncomingType, DisplayedOnce, PrintedIsConfirmed, running
<1>7. TimerHasPurpose' /\ NeverStalled'
    BY <1>1, SMT DEF TimerHasPurpose, NeverStalled
<1>8. m_current_state' # "S_JOIN"
    BY <1>1, SMT
<1>9. ClosingIsFinal' /\ JoinAwaitsReply' /\ JoinIsConfirmed' /\ RetransmissionBound'
    BY <1>1, <1>2, <1>8, Zenon DEF ClosingIsFinal, JoinAwaitsReply, JoinIsConfirmed,
                                   RetransmissionBound, awaitingConfirm
<1> QED
    BY <1>3, <1>4, <1>5, <1>6, <1>7, <1>9, Zenon DEF IInv, TypeOK

\* The whole handler of a CONFIRM.
LEMMA ConfirmStep ==
    ASSUME NEW d, IInv, processServerConfirmMsg(d)
    PROVE  IInv'
<1>1. CASE sendErrMsg \/ noEffect
    BY <1>1, ErrStep, NoEffectStep, Zenon
<1>2. CASE \E code \in {EXIT_SUCCESS, EXIT_FAILURE} :
              leave(code) /\ UNCHANGED displayed /\ sent' = NoDatagram
    BY <1>2, ExitStep, Zenon
<1>3. CASE m_msg_to_server.type = "AUTH" /\ confirmedRequest("S_AUTH")
  <2>1. "S_AUTH" \in FSM_state /\ ~closing
      BY <1>3, SMT DEF FSM_state, closing
  <2> QED
      BY <1>3, <2>1, ConfirmedRequestStep, Zenon
<1>4. CASE m_msg_to_server.type = "JOIN" /\ confirmedRequest("S_JOIN")
  <2>1. "S_JOIN" \in FSM_state /\ ~closing
      BY <1>4, SMT DEF FSM_state, closing
  <2> QED
      BY <1>4, <2>1, ConfirmedRequestStep, Zenon
<1>5. CASE m_msg_to_server.type = "MSG" /\ m_current_state = "S_OPEN" /\ confirmedMsg
  <2>1. ~closing
      BY <1>5, SMT DEF closing
  <2> QED
      BY <1>5, <2>1, ConfirmedMsgStep, Zenon
<1> QED
    BY <1>1, <1>2, <1>3, <1>4, <1>5, Zenon DEF processServerConfirmMsg

-----------------------------------------------------------------------------
(* REPLY, MSG, PING, BYE and ERR.                                            *)

\* A message is printed and then the confirmation cannot be sent.
LEMMA PrintAndThrow ==
    ASSUME NEW d, d.id \in MsgId, IInv, running, outputOnce(d), throwException
    PROVE  IInv'
<1>1. /\ status' = EXIT_FAILURE
      /\ sent' = NoDatagram
      /\ UNCHANGED <<m_current_state, m_is_waiting_for_reply, m_is_waiting_for_confirm,
                     m_is_waiting_for_bye_confirm, m_msg_to_server, m_msg_to_server_id,
                     m_allowed_retransmissions, m_confirmed_server_messages, m_server_addr,
                     m_user_display_name, stdin_enabled, timer, copies>>
    BY Zenon DEF throwException, leave, members, flags, outgoing, incoming, session, epoll
<1>2. ~running'
    BY <1>1, SMT DEF running, CONTINUE, EXIT_FAILURE
<1>3. TypeOK' /\ DisplayedOnce'
    BY <1>1, PrintOnce, NothingSent, Zenon
       DEF IInv, TypeOK, ControlType, FlagsType, OutgoingType, IncomingType
<1>4. NeverStalled' /\ PrintedIsConfirmed'
    BY <1>2, Zenon DEF NeverStalled, PrintedIsConfirmed
<1>5. TimerHasPurpose' /\ ClosingIsFinal'
    BY <1>1, Zenon DEF IInv, TimerHasPurpose, ClosingIsFinal, closing, awaitingConfirm
<1>6. JoinAwaitsReply' /\ JoinIsConfirmed' /\ RetransmissionBound'
    BY <1>1, Zenon DEF IInv, JoinAwaitsReply, JoinIsConfirmed, RetransmissionBound, closing,
                       awaitingConfirm
<1> QED
    BY <1>3, <1>4, <1>5, <1>6, Zenon DEF IInv

\* A confirmation is sent, after printing or not, and nothing else changes but
\* possibly the status.
LEMMA ConfirmSentStep ==
    ASSUME NEW d, d.id \in MsgId, IInv, running, outputOnce(d) \/ UNCHANGED displayed,
           status' \in {CONTINUE, EXIT_SUCCESS, EXIT_FAILURE, KILLED},
           sent' = [type |-> "CONFIRM", id |-> d.id, name |-> UNKNOWN, to |-> m_server_addr],
           m_confirmed_server_messages' = m_confirmed_server_messages \cup {d.id},
           UNCHANGED <<flags, outgoing, m_server_addr, session, epoll>>
    PROVE  IInv'
<1>1. UNCHANGED <<m_current_state, m_is_waiting_for_reply, m_is_waiting_for_confirm,
                  m_is_waiting_for_bye_confirm, m_msg_to_server, m_msg_to_server_id,
                  m_allowed_retransmissions, m_server_addr,
                  m_user_display_name, stdin_enabled, timer, copies>>
    BY Zenon DEF flags, outgoing, session, epoll
<1>2. /\ displayed' \in [MsgId -> Nat]
      /\ DisplayedOnce'
      /\ \A i \in MsgId : displayed'[i] > 0 => i \in m_confirmed_server_messages \cup {d.id}
  <2>1. CASE outputOnce(d)
      BY <2>1, PrintOnce, Zenon
  <2>2. CASE UNCHANGED displayed
      BY <2>2, Zenon DEF IInv, TypeOK, IncomingType, DisplayedOnce, PrintedIsConfirmed
  <2> QED
      BY <2>1, <2>2, Zenon
<1>3. SentType' /\ IncomingType'
  <2>1. m_server_addr \in Addrs /\ m_confirmed_server_messages \subseteq MsgId
      BY Zenon DEF IInv, TypeOK, IncomingType
  <2>2. IncomingType'
      BY <1>1, <1>2, <2>1, SMT DEF IncomingType
  <2>3. SentType'
      BY <2>1, ConstantFacts, SMT DEF SentType
  <2> QED
      BY <2>2, <2>3, Zenon
<1>4. ControlType' /\ FlagsType' /\ OutgoingType'
    BY <1>1, Zenon DEF IInv, TypeOK, ControlType, FlagsType, OutgoingType
<1>5. PrintedIsConfirmed'
    BY <1>2, Zenon DEF PrintedIsConfirmed
<1>6. TimerHasPurpose' /\ NeverStalled' /\ ClosingIsFinal'
    BY <1>1, Zenon DEF IInv, TimerHasPurpose, NeverStalled, ClosingIsFinal, running, closing,
                       awaitingConfirm
<1>7. JoinAwaitsReply' /\ JoinIsConfirmed' /\ RetransmissionBound'
    BY <1>1, Zenon DEF IInv, JoinAwaitsReply, JoinIsConfirmed, RetransmissionBound, closing,
                       awaitingConfirm
<1> QED
    BY <1>2, <1>3, <1>4, <1>5, <1>6, <1>7, Zenon DEF IInv, TypeOK

\* The handler of a MSG.
LEMMA MsgStep ==
    ASSUME NEW d, d.id \in MsgId, IInv, running, processServerMsgMsg(d)
    PROVE  IInv'
<1>1. CASE sendErrMsg
    BY <1>1, ErrStep, Zenon
<1>2. CASE outputOnce(d) /\ throwException
    BY <1>2, PrintAndThrow, Zenon
<1>3. CASE /\ outputOnce(d)
           /\ sent' = [type |-> "CONFIRM", id |-> d.id, name |-> UNKNOWN, to |-> m_server_addr]
           /\ m_confirmed_server_messages' = m_confirmed_server_messages \cup {d.id}
           /\ UNCHANGED <<status, flags, outgoing, m_server_addr, session, epoll>>
  <2>1. status' \in {CONTINUE, EXIT_SUCCESS, EXIT_FAILURE, KILLED}
      BY <1>3, Zenon DEF IInv, TypeOK, ControlType
  <2> QED
      BY <1>3, <2>1, ConfirmSentStep, Zenon
<1> QED
    BY <1>1, <1>2, <1>3, Zenon DEF processServerMsgMsg, sendConfirmMsg, sendto

\* The handler of a PING.
LEMMA PingStep ==
    ASSUME NEW d, d.id \in MsgId, IInv, running, processServerPingMsg(d)
    PROVE  IInv'
<1>1. CASE sendErrMsg
    BY <1>1, ErrStep, Zenon
<1>2. CASE throwException /\ UNCHANGED displayed
    BY <1>2, ThrowStep, Zenon
<1>3. CASE /\ UNCHANGED displayed
           /\ sent' = [type |-> "CONFIRM", id |-> d.id, name |-> UNKNOWN, to |-> m_server_addr]
           /\ m_confirmed_server_messages' = m_confirmed_server_messages \cup {d.id}
           /\ UNCHANGED <<status, flags, outgoing, m_server_addr, session, epoll>>
  <2>1. status' \in {CONTINUE, EXIT_SUCCESS, EXIT_FAILURE, KILLED}
      BY <1>3, Zenon DEF IInv, TypeOK, ControlType
  <2> QED
      BY <1>3, <2>1, ConfirmSentStep, Zenon
<1> QED
    BY <1>1, <1>2, <1>3, Zenon DEF processServerPingMsg, sendConfirmMsg, sendto

\* The handlers of a BYE and of an ERR.
LEMMA EndedByServerStep ==
    ASSUME NEW d, d.id \in MsgId, NEW code \in {EXIT_SUCCESS, EXIT_FAILURE}, IInv, running,
           endedByServer(d, code)
    PROVE  IInv'
<1>1. CASE sendErrMsg
    BY <1>1, ErrStep, Zenon
<1>2. CASE throwException /\ UNCHANGED displayed
    BY <1>2, ThrowStep, Zenon
<1>3. CASE /\ UNCHANGED displayed
           /\ sent' = [type |-> "CONFIRM", id |-> d.id, name |-> UNKNOWN, to |-> m_server_addr]
           /\ m_confirmed_server_messages' = m_confirmed_server_messages \cup {d.id}
           /\ status' = code
           /\ UNCHANGED <<flags, outgoing, m_server_addr, session, epoll>>
  <2>1. status' \in {CONTINUE, EXIT_SUCCESS, EXIT_FAILURE, KILLED}
      BY <1>3, Zenon
  <2> QED
      BY <1>3, <2>1, ConfirmSentStep, Zenon
<1> QED
    BY <1>1, <1>2, <1>3, Zenon DEF endedByServer, sendConfirmMsg, sendto

\* A REPLY that answers the request is printed and confirmed; nothing is closing
\* then, because a REPLY is awaited.
LEMMA AcceptReplyStep ==
    ASSUME NEW d, d.id \in MsgId, NEW addr \in Addrs, IInv, running, m_is_waiting_for_reply,
           acceptReply(d, addr)
    PROVE  IInv'
<1>1. CASE throwException
    BY <1>1, PrintAndThrow, Zenon DEF acceptReply
<1>2. CASE ~throwException
  <2>1. /\ outputOnce(d)
        /\ sent' = [type |-> "CONFIRM", id |-> d.id, name |-> UNKNOWN, to |-> addr]
        /\ m_confirmed_server_messages' = m_confirmed_server_messages \cup {d.id}
        /\ timer' = 0
        /\ m_server_addr' = addr
        /\ m_current_state' = IF m_current_state = "S_JOIN" \/ d.ok THEN "S_OPEN"
                              ELSE m_current_state
        /\ m_is_waiting_for_reply' = FALSE
        /\ stdin_enabled' = TRUE
        /\ UNCHANGED <<status, m_is_waiting_for_confirm, m_is_waiting_for_bye_confirm,
                       m_msg_to_server, m_msg_to_server_id, m_allowed_retransmissions, copies,
                       m_user_display_name>>
      BY <1>2, Zenon DEF acceptReply, sendConfirmMsg, sendto, stopTimer, enableStdinEvents,
                         outgoing
  <2>2. ~closing'
      BY <2>1, Zenon DEF IInv, ClosingIsFinal, closing
  <2>3. m_current_state' \in FSM_state /\ m_current_state' # "S_JOIN"
      BY <2>1, TypeFacts, SMT DEF FSM_state
  <2>4. ControlType' /\ FlagsType' /\ OutgoingType'
    <3>1. 0 \in Nat
        BY SMT
    <3> QED
        BY <2>1, <2>3, <3>1, Zenon DEF IInv, TypeOK, ControlType, FlagsType, OutgoingType
  <2>5. SentType'
      BY <2>1, ConstantFacts, SMT DEF SentType
  <2>6. IncomingType' /\ DisplayedOnce' /\ PrintedIsConfirmed'
    <3>1. /\ displayed' \in [MsgId -> Nat]
          /\ DisplayedOnce'
          /\ \A i \in MsgId : displayed'[i] > 0 => i \in m_confirmed_server_messages \cup {d.id}
        BY <2>1, PrintOnce, Zenon
    <3>2. m_confirmed_server_messages' \subseteq MsgId
        BY <2>1, SMT DEF IInv, TypeOK, IncomingType
    <3> QED
        BY <2>1, <3>1, <3>2, Zenon DEF IncomingType, PrintedIsConfirmed
  <2>7. TimerHasPurpose' /\ NeverStalled'
      BY <2>1, SMT DEF TimerHasPurpose, NeverStalled
  <2>8. ClosingIsFinal' /\ JoinAwaitsReply' /\ JoinIsConfirmed'
      BY <2>1, <2>2, <2>3, Zenon
         DEF IInv, ClosingIsFinal, JoinAwaitsReply, JoinIsConfirmed, closing
  <2>9. RetransmissionBound'
      BY <2>1, Zenon DEF IInv, RetransmissionBound, awaitingConfirm
  <2> QED
      BY <2>4, <2>5, <2>6, <2>7, <2>8, <2>9, Zenon DEF IInv, TypeOK
<1> QED
    BY <1>1, <1>2, Zenon

\* A REPLY that answers nothing: at most the server address changes.
LEMMA IgnoredReplyStep ==
    ASSUME IInv, m_server_addr' \in Addrs, sent' = NoDatagram,
           UNCHANGED <<status, displayed, flags, outgoing, m_confirmed_server_messages,
                       session, epoll>>
    PROVE  IInv'
<1>1. UNCHANGED <<status, m_current_state, m_is_waiting_for_reply, m_is_waiting_for_confirm,
                  m_is_waiting_for_bye_confirm, m_msg_to_server, m_msg_to_server_id,
                  m_allowed_retransmissions, m_confirmed_server_messages,
                  m_user_display_name, stdin_enabled, timer, displayed, copies>>
    BY Zenon DEF flags, outgoing, session, epoll
<1>2. TypeOK'
    BY <1>1, NothingSent, Zenon
       DEF IInv, TypeOK, ControlType, FlagsType, OutgoingType, IncomingType
<1>3. TimerHasPurpose' /\ NeverStalled' /\ ClosingIsFinal'
    BY <1>1, Zenon DEF IInv, TimerHasPurpose, NeverStalled, ClosingIsFinal, running, closing,
                       awaitingConfirm
<1>4. DisplayedOnce' /\ PrintedIsConfirmed'
    BY <1>1, Zenon DEF IInv, DisplayedOnce, PrintedIsConfirmed, running
<1>5. JoinAwaitsReply' /\ JoinIsConfirmed' /\ RetransmissionBound'
    BY <1>1, Zenon DEF IInv, JoinAwaitsReply, JoinIsConfirmed, RetransmissionBound, closing,
                       awaitingConfirm
<1> QED
    BY <1>2, <1>3, <1>4, <1>5, Zenon DEF IInv

\* The handler of a REPLY.
LEMMA ReplyStep ==
    ASSUME NEW d, d.id \in MsgId, d.from \in Addrs, IInv, running, processServerReplyMsg(d)
    PROVE  IInv'
<1> DEFINE addr == IF m_current_state = "S_AUTH" THEN d.from ELSE m_server_addr
<1>1. addr \in Addrs
    BY Zenon DEF IInv, TypeOK, IncomingType
<1>2. CASE sendErrMsg
    BY <1>2, ErrStep, Zenon
<1>3. CASE answersRequest(d) /\ acceptReply(d, addr)
    BY <1>1, <1>3, AcceptReplyStep, Zenon DEF answersRequest
<1>4. CASE /\ m_server_addr' = addr
           /\ sent' = NoDatagram
           /\ UNCHANGED <<status, displayed, flags, outgoing, m_confirmed_server_messages,
                          session, epoll>>
    BY <1>1, <1>4, IgnoredReplyStep, Zenon
<1> QED
    BY <1>2, <1>3, <1>4, Zenon DEF processServerReplyMsg

\* Whatever datagram arrives, the invariant survives its handler.
LEMMA SocketStep ==
    ASSUME NEW d \in Datagram, IInv, processSocketEvent(d)
    PROVE  IInv'
<1>1. d.id \in MsgId /\ d.from \in Addrs
    BY SMT DEF Datagram
<1>2. running /\ processMessageFromServer(d)
    BY Zenon DEF processSocketEvent, running
<1>3. CASE processServerByeMsg(d) \/ processServerErrMsg(d)
    BY <1>1, <1>2, <1>3, EndedByServerStep, Zenon DEF processServerByeMsg, processServerErrMsg
<1>4. CASE processServerConfirmMsg(d)
    BY <1>4, ConfirmStep, Zenon
<1>5. CASE processServerReplyMsg(d)
    BY <1>1, <1>2, <1>5, ReplyStep, Zenon
<1>6. CASE processServerMsgMsg(d)
    BY <1>1, <1>2, <1>6, MsgStep, Zenon
<1>7. CASE processServerPingMsg(d)
    BY <1>1, <1>2, <1>7, PingStep, Zenon
<1>8. CASE sendErrMsg
    BY <1>8, ErrStep, Zenon
<1> QED
    BY <1>2, <1>3, <1>4, <1>5, <1>6, <1>7, <1>8, Zenon DEF processMessageFromServer

-----------------------------------------------------------------------------
(* Timer, standard input, SIGINT.                                            *)

\* A retransmission takes one from the budget.  Outside closing it cannot happen
\* in the JOIN state, whose timer is the one of the REPLY.
LEMMA RetransmitStep ==
    ASSUME IInv, awaitingConfirm, m_allowed_retransmissions > 0, retransmit,
           UNCHANGED displayed
    PROVE  IInv'
<1>1. CASE throwException
    BY <1>1, ThrowStep, Zenon
<1>2. CASE ~throwException
  <2>1. /\ sent' = [type |-> m_msg_to_server.type, id |-> m_msg_to_server.id,
                    name |-> m_msg_to_server.name, to |-> m_server_addr]
        /\ timer' = CONFIRM_TIMEOUT
        /\ m_allowed_retransmissions' = m_allowed_retransmissions - 1
        /\ copies' = copies + 1
        /\ UNCHANGED <<status, displayed, m_is_waiting_for_reply, m_is_waiting_for_confirm,
                       m_is_waiting_for_bye_confirm, m_msg_to_server, m_msg_to_server_id,
                       m_confirmed_server_messages, m_server_addr, m_current_state,
                       m_user_display_name, stdin_enabled>>
      BY <1>2, Zenon DEF retransmit, sendto, startTimer, flags, incoming, session
  <2>2. /\ m_allowed_retransmissions \in 0 .. MAX_RETRANS
        /\ copies \in Nat
        /\ m_msg_to_server \in [type : ClientMsgType \cup {"NONE"}, id : MsgId, name : Names]
        /\ m_server_addr \in Addrs
        /\ copies + m_allowed_retransmissions <= MAX_RETRANS + 1
      BY Zenon DEF IInv, TypeOK, OutgoingType, IncomingType, RetransmissionBound
  <2>3. /\ m_allowed_retransmissions' \in 0 .. MAX_RETRANS
        /\ copies' \in Nat
        /\ copies' + m_allowed_retransmissions' <= MAX_RETRANS + 1
      BY <2>1, <2>2, ConstantFacts, SMT
  <2>4. SentType'
      BY <2>1, <2>2, SMT DEF SentType
  <2>5. ControlType' /\ FlagsType' /\ OutgoingType' /\ IncomingType'
      BY <2>1, <2>3, ConstantFacts, Zenon
         DEF IInv, TypeOK, ControlType, FlagsType, OutgoingType, IncomingType
  <2>6. awaitingConfirm'
      BY <2>1, Zenon DEF awaitingConfirm
  <2>7. TimerHasPurpose' /\ RetransmissionBound'
      BY <2>3, <2>6, Zenon DEF TimerHasPurpose, RetransmissionBound
  <2>8. NeverStalled'
      BY <2>1, Zenon DEF NeverStalled
  <2>9. ClosingIsFinal' /\ JoinAwaitsReply' /\ JoinIsConfirmed'
      BY <2>1, <2>6, Zenon
         DEF IInv, ClosingIsFinal, JoinAwaitsReply, JoinIsConfirmed, closing
  <2>10. DisplayedOnce' /\ PrintedIsConfirmed'
      BY <2>1, Zenon DEF IInv, DisplayedOnce, PrintedIsConfirmed, running
  <2> QED
      BY <2>4, <2>5, <2>7, <2>8, <2>9, <2>10, Zenon DEF IInv, TypeOK
<1> QED
    BY <1>1, <1>2, Zenon

\* The handler of the timer.
LEMMA TimerStep == IInv /\ processTimerEvent => IInv'
<1> SUFFICES ASSUME IInv, processTimerEvent PROVE IInv'
    OBVIOUS
<1>1. CASE throwException /\ UNCHANGED displayed
    BY <1>1, ThrowStep, Zenon
<1>2. CASE /\ awaitingConfirm /\ m_allowed_retransmissions > 0
           /\ retransmit /\ UNCHANGED displayed
    BY <1>2, RetransmitStep, Zenon
<1>3. CASE sendErrMsg
    BY <1>3, ErrStep, Zenon
<1> QED
    BY <1>1, <1>2, <1>3, Zenon DEF processTimerEvent, awaitingConfirm

\* The handlers of standard input and of SIGINT.
LEMMA LocalStep == IInv /\ localEvent => IInv'
<1> SUFFICES ASSUME IInv, localEvent PROVE IInv'
    OBVIOUS
<1>1. CASE processTimerEvent
    BY <1>1, TimerStep, Zenon
<1>2. CASE processUserInput
  <2>1. CASE sendByeMsgToServer \/ noEffect
      BY <2>1, ByeStep, NoEffectStep, Zenon
  <2>2. CASE \E type \in {"AUTH", "JOIN", "MSG"}, name \in Names : userRequest(type, name)
      BY <1>2, <2>2, RequestStep, Zenon DEF processUserInput
  <2>3. CASE \E name \in Names : userRename(name)
      BY <2>3, RenameStep, Zenon
  <2> QED
      BY <1>2, <2>1, <2>2, <2>3, Zenon DEF processUserInput
<1>3. CASE processStdinHangup \/ sigintHandler
    BY <1>3, ByeStep, ExitStep, Zenon DEF processStdinHangup, sigintHandler, terminate
<1>4. CASE processStdinError
    BY <1>4, ThrowStep, Zenon DEF processStdinError
<1> QED
    BY <1>1, <1>2, <1>3, <1>4, Zenon DEF localEvent

\* A step that changes no variable.
LEMMA StutterStep == IInv /\ UNCHANGED vars => IInv'
<1> SUFFICES ASSUME IInv, UNCHANGED vars PROVE IInv'
    OBVIOUS
<1>1. UNCHANGED <<status, sent, displayed, members>>
    BY Zenon DEF vars
<1>2. SentType' /\ status' \in {CONTINUE, EXIT_SUCCESS, EXIT_FAILURE, KILLED}
    BY <1>1, Zenon DEF IInv, TypeOK, SentType, ControlType
<1> QED
    BY <1>1, <1>2, MembersUnchanged, Zenon

-----------------------------------------------------------------------------
(* The theorems.                                                             *)

\* IInv is an invariant of the UDP client, whatever datagrams arrive.
THEOREM Invariance == Spec => []IInv
<1>1. IInv /\ [Next]_vars => IInv'
  <2> SUFFICES ASSUME IInv, [Next]_vars PROVE IInv'
      OBVIOUS
  <2>1. CASE localEvent
      BY <2>1, LocalStep, Zenon
  <2>2. CASE \E d \in Inputs : processSocketEvent(d)
    <3>1. PICK d \in Inputs : processSocketEvent(d)
        BY <2>2, Zenon
    <3>2. d \in Datagram
        BY ConstantsAssumption, SMT
    <3> QED
        BY <3>1, <3>2, SocketStep, Zenon
  <2>3. CASE UNCHANGED vars
      BY <2>3, StutterStep, Zenon
  <2> QED
      BY <2>1, <2>2, <2>3, Zenon DEF Next
<1> QED
    BY InitIInv, <1>1, PTL DEF Spec

\* Every variable of the UDP client keeps its type and its width.
THEOREM TypeCorrect == Spec => []TypeOK
<1>1. IInv => TypeOK
    BY Zenon DEF IInv
<1> QED
    BY Invariance, <1>1, PTL

\* The loop of the UDP client always has something to wake it, and no timer
\* event reaches the branch that throws for a timer nobody asked for.
THEOREM NeverStuck == Spec => [](NeverStalled /\ TimerHasPurpose)
<1>1. IInv => NeverStalled /\ TimerHasPurpose
    BY Zenon DEF IInv
<1> QED
    BY Invariance, <1>1, PTL

\* processTimerEvent of the UDP client never throws for a timer nobody asked for.
THEOREM TimerWanted == Spec => []TimerHasPurpose
<1>1. IInv => TimerHasPurpose
    BY Zenon DEF IInv
<1> QED
    BY Invariance, <1>1, PTL

\* The JOIN state, which no line of the user leaves, always awaits its REPLY under
\* the reply timer, or the client is closing.
THEOREM JoinAnswered == Spec => []JoinAwaitsReply
<1>1. IInv => JoinAwaitsReply
    BY Zenon DEF IInv
<1> QED
    BY Invariance, <1>1, PTL

\* A message of the server is printed at most once.
THEOREM PrintedAtMostOnce == Spec => []DisplayedOnce
<1>1. IInv => DisplayedOnce
    BY Zenon DEF IInv
<1> QED
    BY Invariance, <1>1, PTL

\* The state an ERR or a BYE puts the client in, in every reachable state.
THEOREM ClosingDiscipline == Spec => []ClosingIsFinal
<1>1. IInv => ClosingIsFinal
    BY Zenon DEF IInv
<1> QED
    BY Invariance, <1>1, PTL

\* A message is transmitted at most once more than -r allows retransmissions,
\* and the JOIN state always awaits its REPLY under the reply timer.
THEOREM BoundedWaiting == Spec => [](RetransmissionBound /\ JoinAwaitsReply)
<1>1. IInv => RetransmissionBound /\ JoinAwaitsReply
    BY Zenon DEF IInv
<1> QED
    BY Invariance, <1>1, PTL

-----------------------------------------------------------------------------
(* What a closing client may still do.                                       *)

\* A step that keeps the message and sends nothing or a CONFIRM is quiet.
LEMMA QuietIfKept ==
    ASSUME closing, m_msg_to_server' = m_msg_to_server, sent'.type \in {"NONE", "CONFIRM"}
    PROVE  quiet
BY Zenon DEF quiet, closing

LEMMA QuietThrow == closing /\ throwException => quiet
<1> SUFFICES ASSUME closing, throwException PROVE quiet
    OBVIOUS
<1>1. m_msg_to_server' = m_msg_to_server /\ sent' = NoDatagram
    BY Zenon DEF throwException, leave, members, outgoing
<1>2. sent'.type = "NONE"
    BY <1>1, SMT DEF NoDatagram
<1> QED
    BY <1>1, <1>2, QuietIfKept, Zenon

LEMMA QuietNoEffect == closing /\ noEffect => quiet
<1> SUFFICES ASSUME closing, noEffect PROVE quiet
    OBVIOUS
<1>1. m_msg_to_server' = m_msg_to_server /\ sent' = NoDatagram
    BY Zenon DEF noEffect, members, outgoing
<1>2. sent'.type = "NONE"
    BY <1>1, SMT DEF NoDatagram
<1> QED
    BY <1>1, <1>2, QuietIfKept, Zenon

LEMMA QuietTerminate == closing /\ terminate => quiet
<1> SUFFICES ASSUME closing, terminate PROVE quiet
    OBVIOUS
<1>1. sent' = NoDatagram /\ UNCHANGED m_msg_to_server
    BY Zenon DEF terminate, leave, members, outgoing
<1>2. sent'.type = "NONE"
    BY <1>1, SMT DEF NoDatagram
<1> QED
    BY <1>1, <1>2, QuietIfKept, Zenon

\* A new ERR or BYE is closing itself.
LEMMA QuietBuild ==
    ASSUME NEW type \in {"ERR", "BYE"}, NEW id, NEW name, NEW addr,
           sent' = [type |-> type, id |-> id, name |-> name, to |-> addr],
           m_msg_to_server' = [type |-> type, id |-> id, name |-> name]
    PROVE  quiet
BY SMT DEF quiet, closing

LEMMA QuietErrAndBye == closing /\ (sendErrMsg \/ sendByeMsgToServer) => quiet
<1> SUFFICES ASSUME closing, sendErrMsg \/ sendByeMsgToServer PROVE quiet
    OBVIOUS
<1>1. CASE throwException
    BY <1>1, QuietThrow, Zenon
<1>2. CASE ~throwException
  <2>1. CASE sendErrMsg
      BY <1>2, <2>1, QuietBuild, Zenon DEF sendErrMsg, buildAndSend, sendto
  <2>2. CASE sendByeMsgToServer
      BY <1>2, <2>2, QuietBuild, Zenon DEF sendByeMsgToServer, buildAndSend, sendto
  <2> QED
      BY <2>1, <2>2, Zenon
<1> QED
    BY <1>1, <1>2, Zenon

\* A confirmation of a server message that leaves the outgoing message alone.
LEMMA QuietConfirm ==
    ASSUME NEW d, NEW addr, closing, UNCHANGED outgoing,
           sent' = [type |-> "CONFIRM", id |-> d.id, name |-> UNKNOWN, to |-> addr]
    PROVE  quiet
<1>1. m_msg_to_server' = m_msg_to_server
    BY Zenon DEF outgoing
<1>2. sent'.type = "CONFIRM"
    BY SMT
<1> QED
    BY <1>1, <1>2, QuietIfKept, Zenon

\* No datagram makes a closing client send a request.
LEMMA QuietSocket ==
    ASSUME NEW d, IInv, closing, processSocketEvent(d)
    PROVE  quiet
<1>1. processMessageFromServer(d) /\ ~m_is_waiting_for_reply
    BY Zenon DEF processSocketEvent, IInv, ClosingIsFinal
<1>2. CASE sendErrMsg
    BY <1>2, QuietErrAndBye, Zenon
<1>3. CASE throwException
    BY <1>3, QuietThrow, Zenon
<1>4. CASE ~sendErrMsg /\ ~throwException
  <2>1. CASE processServerByeMsg(d) \/ processServerErrMsg(d)
      BY <1>4, <2>1, QuietConfirm, Zenon
         DEF processServerByeMsg, processServerErrMsg, endedByServer, sendConfirmMsg, sendto
  <2>2. CASE processServerMsgMsg(d) \/ processServerPingMsg(d)
      BY <1>4, <2>2, QuietConfirm, Zenon
         DEF processServerMsgMsg, processServerPingMsg, sendConfirmMsg, sendto
  <2>3. CASE processServerReplyMsg(d)
    <3>1. sent' = NoDatagram /\ m_msg_to_server' = m_msg_to_server
        BY <1>1, <1>4, <2>3, Zenon DEF processServerReplyMsg, answersRequest, outgoing
    <3>2. sent'.type = "NONE"
        BY <3>1, SMT DEF NoDatagram
    <3> QED
        BY <3>1, <3>2, QuietIfKept, Zenon
  <2>4. CASE processServerConfirmMsg(d)
    <3>1. m_msg_to_server.type \notin {"AUTH", "JOIN", "MSG"}
        BY SMT DEF closing
    <3>2. CASE noEffect
        BY <3>2, QuietNoEffect, Zenon
    <3>3. CASE \E code : leave(code) /\ sent' = NoDatagram
      <4>1. m_msg_to_server' = m_msg_to_server
          BY <3>3, Zenon DEF leave, members, outgoing
      <4>2. sent'.type = "NONE"
          BY <3>3, SMT DEF NoDatagram
      <4> QED
          BY <4>1, <4>2, QuietIfKept, Zenon
    <3> QED
        BY <1>4, <2>4, <3>1, <3>2, <3>3, Zenon DEF processServerConfirmMsg
  <2> QED
      BY <1>1, <1>4, <2>1, <2>2, <2>3, <2>4, Zenon DEF processMessageFromServer
<1> QED
    BY <1>2, <1>3, <1>4, Zenon

\* Neither does the timer, the user (standard input is disabled) or a signal.
LEMMA QuietLocal == IInv /\ closing /\ localEvent => quiet
<1> SUFFICES ASSUME IInv, closing, localEvent PROVE quiet
    OBVIOUS
<1>1. ~stdin_enabled
    BY Zenon DEF IInv, ClosingIsFinal
<1>2. CASE sendErrMsg \/ sendByeMsgToServer
    BY <1>2, QuietErrAndBye, Zenon
<1>3. CASE throwException
    BY <1>3, QuietThrow, Zenon
<1>4. CASE terminate
    BY <1>4, QuietTerminate, Zenon
<1>5. CASE retransmit /\ ~throwException
  <2>1. /\ sent' = [type |-> m_msg_to_server.type, id |-> m_msg_to_server.id,
                    name |-> m_msg_to_server.name, to |-> m_server_addr]
        /\ m_msg_to_server' = m_msg_to_server
      BY <1>5, Zenon DEF retransmit, sendto
  <2>2. sent'.type \in {"ERR", "BYE"}
      BY <2>1, SMT DEF closing
  <2> QED
      BY <2>1, <2>2, Zenon DEF quiet, closing
<1> QED
    BY <1>1, <1>2, <1>3, <1>4, <1>5, Zenon
       DEF localEvent, processTimerEvent, processUserInput, processStdinHangup,
           processStdinError, sigintHandler

\* Once an ERR or a BYE has been sent, no request of the user follows it.
THEOREM QuietClosing == Spec => QuietAfterClosing
<1>1. IInv /\ [Next]_vars => [closing => quiet]_vars
  <2> SUFFICES ASSUME IInv, Next, closing PROVE quiet
      BY Zenon
  <2>1. CASE localEvent
      BY <2>1, QuietLocal, Zenon
  <2>2. CASE \E d \in Inputs : processSocketEvent(d)
      BY <2>2, QuietSocket, Zenon
  <2> QED
      BY <2>1, <2>2, Zenon DEF Next
<1> QED
    BY Invariance, <1>1, PTL DEF Spec, QuietAfterClosing
=============================================================================
