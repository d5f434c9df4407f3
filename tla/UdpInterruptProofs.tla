------------------------- MODULE UdpInterruptProofs -------------------------
(***************************************************************************)
(* What TLAPS proves about SIGINT in the middle of a handler: for every    *)
(* number of signals, wherever they come, no handler leaves the loop with  *)
(* nothing that wakes it (AwakeBetweenHandlers).                           *)
(*                                                                         *)
(* IInv of UdpClient is no invariant here, since the interrupted handler   *)
(* goes on with members the signal has changed.  What remains is that the  *)
(* last statement of each handler that was cut wakes the loop by itself.   *)
(***************************************************************************)
EXTENDS UdpInterrupt, UdpClientProofs

\* The statements the two handlers are cut into.
Statements ==
    {"build", "send", "auth state", "disableStdinEvents", "await confirm", "await reply",
     "startTimer", "stopTimer", "confirm", "open", "got reply", "enableStdinEvents"}

\* The statements that wake the loop whatever the state they are executed in.
Waking == {"startTimer", "enableStdinEvents"}

\* A handler that is not finished ends with one of them.
EndsAwake ==
    /\ todo \in Seq(Statements)
    /\ todo # << >> => todo[Len(todo)] \in Waking

AwakeInv == EndsAwake /\ AwakeBetweenHandlers

-----------------------------------------------------------------------------
(* The handlers.                                                             *)

\* The loop ends, or something wakes it, or what woke it before still does.
wakes == status' # CONTINUE \/ stdin_enabled' \/ timer' > 0 \/ UNCHANGED epoll

LEMMA ExitCodes == EXIT_SUCCESS # CONTINUE /\ EXIT_FAILURE # CONTINUE /\ KILLED # CONTINUE
BY SMT DEF EXIT_SUCCESS, EXIT_FAILURE, CONTINUE, KILLED

LEMMA ThrowWakes == throwException => wakes
BY ExitCodes, Zenon DEF throwException, leave, wakes

LEMMA NoEffectWakes == noEffect => wakes
BY Zenon DEF noEffect, members, wakes

\* The timer of a message that is sent.
LEMMA SendWakes ==
    ASSUME CONFIRM_TIMEOUT > 0, sendErrMsg \/ sendByeMsgToServer
    PROVE  wakes
BY ThrowWakes, Zenon
   DEF sendErrMsg, sendByeMsgToServer, buildAndSend, sendto, startTimer, wakes

LEMMA ConfirmWakes ==
    ASSUME CONFIRM_TIMEOUT > 0, NEW d, processServerConfirmMsg(d)
    PROVE  wakes
<1>1. CASE sendErrMsg \/ noEffect
    BY <1>1, SendWakes, NoEffectWakes, Zenon
<1>2. CASE leave(EXIT_SUCCESS) \/ leave(EXIT_FAILURE)
    BY <1>2, ExitCodes, Zenon DEF leave, wakes
<1>3. ASSUME NEW state, confirmedRequest(state) PROVE wakes
    BY <1>3, ConstantFacts, Zenon DEF confirmedRequest, startTimer, wakes
<1>4. CASE confirmedMsg
    BY <1>4, Zenon DEF confirmedMsg, enableStdinEvents, wakes
<1> QED
    BY <1>1, <1>2, <1>3, <1>4, Zenon DEF processServerConfirmMsg

LEMMA ReplyWakes ==
    ASSUME CONFIRM_TIMEOUT > 0, NEW d, processServerReplyMsg(d)
    PROVE  wakes
<1>1. ASSUME NEW addr, acceptReply(d, addr) PROVE wakes
    BY <1>1, ThrowWakes, Zenon DEF acceptReply, sendConfirmMsg, sendto, enableStdinEvents, wakes
<1>2. CASE sendErrMsg \/ UNCHANGED epoll
    BY <1>2, SendWakes, Zenon DEF wakes
<1> QED
    BY <1>1, <1>2, Zenon DEF processServerReplyMsg

LEMMA SocketWakes ==
    ASSUME CONFIRM_TIMEOUT > 0, NEW d, processSocketEvent(d)
    PROVE  wakes
<1>1. CASE sendErrMsg
    BY <1>1, SendWakes, Zenon
<1>2. CASE processServerMsgMsg(d) \/ processServerPingMsg(d)
    BY <1>1, <1>2, ThrowWakes, Zenon
       DEF processServerMsgMsg, processServerPingMsg, sendConfirmMsg, sendto, wakes
<1>3. CASE processServerByeMsg(d) \/ processServerErrMsg(d)
    BY <1>1, <1>3, ThrowWakes, Zenon
       DEF processServerByeMsg, processServerErrMsg, endedByServer, sendConfirmMsg, sendto, wakes
<1> QED
    BY <1>1, <1>2, <1>3, ConfirmWakes, ReplyWakes, Zenon
       DEF processSocketEvent, processMessageFromServer

LEMMA TimerWakes ==
    ASSUME CONFIRM_TIMEOUT > 0, processTimerEvent
    PROVE  wakes
<1>1. CASE retransmit
    BY <1>1, ThrowWakes, Zenon DEF retransmit, sendto, startTimer, wakes
<1> QED
    BY <1>1, ThrowWakes, SendWakes, Zenon DEF processTimerEvent

-----------------------------------------------------------------------------
(* The statements.                                                           *)

\* The last statement of a handler that was cut.
LEMMA WakingStatement ==
    ASSUME CONFIRM_TIMEOUT > 0, NEW statement \in Waking, Effect(statement)
    PROVE  stdin_enabled' \/ timer' > 0
<1>1. CASE statement = "startTimer"
  <2>1. timer' = CONFIRM_TIMEOUT
      BY <1>1, SMT DEF Effect, setEpoll, startTimer
  <2> QED
      BY <2>1
<1>2. CASE statement = "enableStdinEvents"
  <2>1. stdin_enabled' = TRUE
      BY <1>2, SMT DEF Effect, setEpoll, enableStdinEvents
  <2> QED
      BY <2>1
<1> QED
    BY <1>1, <1>2, Zenon DEF Waking

\* Executing a statement leaves the last one in its place, or has executed it.
LEMMA TailEndsAwake ==
    ASSUME EndsAwake, todo # << >>, todo' = Tail(todo)
    PROVE  EndsAwake' /\ (todo' = << >> => Head(todo) \in Waking)
<1>1. todo \in Seq(Statements) /\ todo[Len(todo)] \in Waking
    BY Zenon DEF EndsAwake
<1>2. todo' \in Seq(Statements) /\ Len(todo') = Len(todo) - 1 /\ Len(todo) \in Nat \ {0}
    BY <1>1, SMT
<1>3. \A k \in 1 .. Len(todo') : todo'[k] = todo[k + 1]
    BY <1>1, SMT
<1>4. CASE Len(todo) = 1
  <2>1. todo' = << >> /\ Head(todo) = todo[Len(todo)]
      BY <1>1, <1>2, <1>4, SMT
  <2> QED
      BY <1>1, <1>2, <2>1, Zenon DEF EndsAwake
<1>5. CASE Len(todo) # 1
  <2>1. Len(todo') \in 1 .. Len(todo') /\ Len(todo') + 1 = Len(todo) /\ Len(todo') # 0
      BY <1>2, <1>5, SMT
  <2>3. todo' # << >>
    <3>1. Len(<< >>) = 0
        BY SMT
    <3> QED
        BY <2>1, <3>1, Zenon
  <2>2. todo'[Len(todo')] = todo[Len(todo)]
      BY <1>3, <2>1, Zenon
  <2> QED
      BY <1>1, <1>2, <2>2, <2>3, Zenon DEF EndsAwake
<1> QED
    BY <1>4, <1>5

LEMMA Tuple5 ==
    ASSUME NEW S, NEW a \in S, NEW b \in S, NEW c \in S, NEW d \in S, NEW e \in S
    PROVE  <<a, b, c, d, e>> \in Seq(S)
BY SMT

LEMMA Tuple7 ==
    ASSUME NEW S, NEW a \in S, NEW b \in S, NEW c \in S, NEW d \in S, NEW e \in S, NEW f \in S,
           NEW g \in S
    PROVE  <<a, b, c, d, e, f, g>> \in Seq(S)
BY SMT

\* Both handlers that were cut end with a statement that wakes the loop.
LEMMA StatementsEndAwake ==
    \A s \in {StdinStatements, ReplyStatements} :
        s \in Seq(Statements) /\ s # << >> /\ s[Len(s)] \in Waking
<1> DEFINE good(s) == s \in Seq(Statements) /\ s # << >> /\ s[Len(s)] \in Waking
<1>1. good(StdinStatements)
  <2>1. StdinStatements \in Seq(Statements)
    <3>1. /\ "build" \in Statements /\ "send" \in Statements /\ "auth state" \in Statements
          /\ "disableStdinEvents" \in Statements
          /\ "await confirm" \in Statements /\ "await reply" \in Statements
          /\ "startTimer" \in Statements
        BY SMT DEF Statements
    <3> QED
        BY <3>1, Tuple7, Zenon DEF StdinStatements
  <2>3. StdinStatements # << >>
      BY SMT DEF StdinStatements
  <2>2. Len(StdinStatements) = 7 /\ StdinStatements[7] = "startTimer"
      BY SMT DEF StdinStatements
  <2> QED
      BY <2>1, <2>2, <2>3, SMT DEF Waking
<1>2. good(ReplyStatements)
  <2>1. ReplyStatements \in Seq(Statements)
    <3>1. /\ "stopTimer" \in Statements /\ "confirm" \in Statements /\ "open" \in Statements
          /\ "got reply" \in Statements
          /\ "enableStdinEvents" \in Statements
        BY SMT DEF Statements
    <3> QED
        BY <3>1, Tuple5, Zenon DEF ReplyStatements
  <2>3. ReplyStatements # << >>
      BY SMT DEF ReplyStatements
  <2>2. Len(ReplyStatements) = 5 /\ ReplyStatements[5] = "enableStdinEvents"
      BY SMT DEF ReplyStatements
  <2> QED
      BY <2>1, <2>2, <2>3, SMT DEF Waking
<1> QED
    BY <1>1, <1>2

-----------------------------------------------------------------------------
(* The invariant.                                                            *)

LEMMA AwakeInit == InterruptInit => AwakeInv
<1> SUFFICES ASSUME InterruptInit PROVE AwakeInv
    OBVIOUS
<1>1. todo = << >> /\ stdin_enabled = TRUE
    BY Zenon DEF InterruptInit, Init
<1>2. << >> \in Seq(Statements)
    BY SMT
<1> QED
    BY <1>1, <1>2, Zenon DEF AwakeInv, EndsAwake, AwakeBetweenHandlers

\* A handler in one step, and a signal: the loop is awake as before.
LEMMA WholeStep ==
    ASSUME AwakeInv, status = CONTINUE, UNCHANGED todo,
           wakes
    PROVE  AwakeInv'
<1>1. EndsAwake'
    BY Zenon DEF AwakeInv, EndsAwake
<1>2. AwakeBetweenHandlers'
    BY Zenon DEF AwakeInv, AwakeBetweenHandlers, wakes, running, epoll
<1> QED
    BY <1>1, <1>2, Zenon DEF AwakeInv

LEMMA AwakeStep ==
    ASSUME CONFIRM_TIMEOUT > 0, AwakeInv, [InterruptNext]_interruptVars
    PROVE  AwakeInv'
<1>1. CASE \/ \E type \in {"AUTH", "JOIN", "MSG"}, name \in Names : beginRequest(type, name)
           \/ \E d \in Inputs : beginReply(d)
  <2>1. todo' \in {StdinStatements, ReplyStatements}
      BY <1>1, Zenon DEF beginRequest, beginReply
  <2>2. todo' \in Seq(Statements) /\ todo' # << >> /\ todo'[Len(todo')] \in Waking
      BY <2>1, StatementsEndAwake, Zenon
  <2> QED
      BY <2>2, Zenon DEF AwakeInv, EndsAwake, AwakeBetweenHandlers
<1>2. CASE nextStatement
  <2>1. todo # << >> /\ Effect(Head(todo)) /\ todo' = Tail(todo)
      BY <1>2, Zenon DEF nextStatement
  <2>2. EndsAwake' /\ (todo' = << >> => Head(todo) \in Waking)
      BY <2>1, TailEndsAwake, Zenon DEF AwakeInv
  <2>3. todo' = << >> => stdin_enabled' \/ timer' > 0
      BY <2>1, <2>2, WakingStatement, Zenon
  <2> QED
      BY <2>2, <2>3, Zenon DEF AwakeInv, AwakeBetweenHandlers
<1>3. ASSUME NEW d, wholeHandler(processSocketEvent(d)) PROVE AwakeInv'
    BY <1>3, SocketWakes, WholeStep, Zenon DEF wholeHandler, processSocketEvent
<1>4. CASE wholeHandler(processTimerEvent)
    BY <1>4, TimerWakes, WholeStep, Zenon DEF wholeHandler, processTimerEvent
<1>5. CASE signal
  <2>1. wakes
      BY <1>5, SendWakes, ExitCodes, Zenon DEF signal, sigintHandler, terminate, leave, wakes
  <2> QED
      BY <1>5, <2>1, WholeStep, Zenon DEF signal, sigintHandler
<1>6. CASE UNCHANGED interruptVars
  <2>1. UNCHANGED <<todo, status, stdin_enabled, timer>>
      BY <1>6, Zenon DEF interruptVars, vars, members, epoll
  <2> QED
      BY <2>1, Zenon DEF AwakeInv, EndsAwake, AwakeBetweenHandlers, running
<1> QED
    BY <1>1, <1>2, <1>3, <1>4, <1>5, <1>6, Zenon DEF InterruptNext

\* Wherever SIGINT comes, also between the statements of processStdinEvent and
\* processServerReplyMsg, run() goes back to epoll_wait with the user admitted or the
\* timer armed.  A confirmation timeout of 0 (-d 0) would disarm the timer instead.
THEOREM AwakeBetweenHandlersCorrect ==
    ASSUME CONFIRM_TIMEOUT > 0
    PROVE  InterruptSpec => []AwakeBetweenHandlers
<1>1. AwakeInv /\ [InterruptNext]_interruptVars => AwakeInv'
    BY AwakeStep, Zenon
<1>2. AwakeInv => AwakeBetweenHandlers
    BY Zenon DEF AwakeInv
<1> QED
    BY AwakeInit, <1>1, <1>2, PTL DEF InterruptSpec
=============================================================================
