------------------------- MODULE StdinBufferProofs -------------------------
(***************************************************************************)
(* What TLAPS proves about the lines of standard input, for a terminal and *)
(* a pipe, every set of lines and every number of them:                    *)
(*                                                                         *)
(*   - blocking standard input while a REPLY is awaited loses, repeats and *)
(*     reorders no line (NothingLost);                                     *)
(*   - StdinBuffer implements TcpClient, so whatever is typed ahead the    *)
(*     invariants of the client hold.                                      *)
(***************************************************************************)
EXTENDS StdinBuffer, TcpClientProofs

\* The lines on their way are lines, and none is missing.
LinesInv ==
    /\ typed \in Seq(Lines) /\ kernel \in Seq(Lines) /\ cin \in Seq(Lines) /\ handled \in Seq(Lines)
    /\ NothingLost

-----------------------------------------------------------------------------
(* Sequences.                                                                *)

\* An element more at the end of the last of three sequences.
LEMMA AppendLast ==
    ASSUME NEW S, NEW s \in Seq(S), NEW t \in Seq(S), NEW u \in Seq(S), NEW e \in S
    PROVE  s \o t \o Append(u, e) = Append(s \o t \o u, e)
  OBVIOUS

\* The head of the second sequence moves to the end of the first.
LEMMA MoveHead ==
    ASSUME NEW S, NEW s \in Seq(S), NEW t \in Seq(S), t # << >>
    PROVE  Append(s, Head(t)) \o Tail(t) = s \o t
  <1> DEFINE l == Append(s, Head(t)) \o Tail(t)
             r == s \o t
  <1>1. Head(t) = t[1] /\ t[1] \in S /\ Tail(t) \in Seq(S) /\ Len(Tail(t)) = Len(t) - 1 /\ Len(t) >= 1
    OBVIOUS
  <1>2. \A i \in 1 .. Len(t) - 1 : Tail(t)[i] = t[i + 1]
    OBVIOUS
  <1>3. /\ Append(s, Head(t)) \in Seq(S) /\ Len(Append(s, Head(t))) = Len(s) + 1
        /\ \A i \in 1 .. Len(s) : Append(s, Head(t))[i] = s[i]
        /\ Append(s, Head(t))[Len(s) + 1] = t[1]
    BY <1>1
  <1>4. l \in Seq(S) /\ r \in Seq(S) /\ Len(l) = Len(s) + Len(t) /\ Len(r) = Len(s) + Len(t)
    BY <1>1, <1>3
  <1>5. ASSUME NEW i \in 1 .. Len(s) + Len(t) PROVE l[i] = r[i]
    <2>1. CASE i <= Len(s) + 1
      BY <1>1, <1>3, <2>1
    <2>2. CASE i > Len(s) + 1
      BY <1>1, <1>2, <1>3, <2>2
    <2> QED
      BY <2>1, <2>2
  <1> HIDE DEF l, r
  <1>6. l = r
    BY <1>4, <1>5
  <1> QED
    BY <1>6 DEF l, r

\* A read cuts the kernel's lines u: the first is taken, n - 1 more are kept aside.
LEMMA CutHead ==
    ASSUME NEW S, NEW u \in Seq(S), NEW n \in 1 .. Len(u)
    PROVE  /\ SubSeq(u, 2, n) \in Seq(S) /\ SubSeq(u, n + 1, Len(u)) \in Seq(S)
           /\ SubSeq(u, 2, n) \o SubSeq(u, n + 1, Len(u)) = Tail(u)
  <1> DEFINE a == SubSeq(u, 2, n)
             b == SubSeq(u, n + 1, Len(u))
             l == a \o b
             r == Tail(u)
  <1>1. a \in Seq(S) /\ Len(a) = n - 1 /\ \A i \in 1 .. n - 1 : a[i] = u[i + 1]
    OBVIOUS
  <1>2. b \in Seq(S) /\ Len(b) = Len(u) - n /\ \A i \in 1 .. Len(u) - n : b[i] = u[i + n]
    OBVIOUS
  <1>3. r \in Seq(S) /\ Len(r) = Len(u) - 1 /\ \A i \in 1 .. Len(u) - 1 : r[i] = u[i + 1]
    OBVIOUS
  <1> HIDE DEF a, b, r
  <1>4. l \in Seq(S) /\ Len(l) = Len(u) - 1
    BY <1>1, <1>2
  <1>5. ASSUME NEW i \in 1 .. Len(u) - 1 PROVE l[i] = r[i]
    <2>1. l[i] = IF i <= Len(a) THEN a[i] ELSE b[i - Len(a)]
      BY <1>1, <1>2
    <2> HIDE DEF l
    <2>2. CASE i <= n - 1
      BY <1>1, <1>3, <2>1, <2>2
    <2>3. CASE i > n - 1
      BY <1>1, <1>2, <1>3, <2>1, <2>3
    <2> QED
      BY <2>2, <2>3
  <1> HIDE DEF l
  <1>6. l = r
    BY <1>3, <1>4, <1>5
  <1> QED
    BY <1>1, <1>2, <1>6 DEF a, b, l, r

LEMMA Associative ==
    ASSUME NEW S, NEW s \in Seq(S), NEW t \in Seq(S), NEW u \in Seq(S)
    PROVE  (s \o t) \o u = s \o (t \o u)
  OBVIOUS

-----------------------------------------------------------------------------
(* The steps.                                                                *)

LEMMA LinesInit == StdinInit => LinesInv
  BY DEF StdinInit, LinesInv, NothingLost

\* A line is typed.
LEMMA TypeStep ==
    ASSUME LinesInv, NEW line \in Lines, typeLine(line)
    PROVE  LinesInv'
  <1>1. /\ typed' = Append(typed, line) /\ kernel' = Append(kernel, line)
        /\ UNCHANGED <<cin, handled>>
    BY DEF typeLine
  <1>2. typed' \in Seq(Lines) /\ kernel' \in Seq(Lines)
    BY <1>1 DEF LinesInv
  <1>3. handled \o cin \o Append(kernel, line) = Append(handled \o cin \o kernel, line)
    <2>1. \A s, t, u \in Seq(Lines) : s \o t \o Append(u, line) = Append(s \o t \o u, line)
      BY AppendLast
    <2> QED
      BY <2>1, Zenon DEF LinesInv
  <1> QED
    BY <1>1, <1>2, <1>3 DEF LinesInv, NothingLost

\* getline() takes the first line that waits, wherever it waits.
LEMMA GetlineStep ==
    ASSUME LinesInv, kernel # << >>, NEW line \in Lines, getline(line),
           handled' = Append(handled, line), UNCHANGED typed
    PROVE  LinesInv'
  <1>0. handled' \in Seq(Lines) /\ typed' \in Seq(Lines)
    BY DEF LinesInv
  <1>1. CASE cin # << >> /\ line = Head(cin) /\ cin' = Tail(cin) /\ UNCHANGED kernel
    <2>1. cin' \in Seq(Lines) /\ kernel' \in Seq(Lines)
      BY <1>1 DEF LinesInv
    <2>2. handled' \o cin' = handled \o cin
      BY <1>1, MoveHead DEF LinesInv
    <2> QED
      BY <1>0, <1>1, <2>1, <2>2 DEF LinesInv, NothingLost
  <1>2. CASE /\ cin = << >> /\ line = Head(kernel)
             /\ cin' = SubSeq(kernel, 2, readable)
             /\ kernel' = SubSeq(kernel, readable + 1, Len(kernel))
    <2>1. kernel \in Seq(Lines) /\ handled \in Seq(Lines)
      BY DEF LinesInv
    <2>2. readable \in 1 .. Len(kernel)
      BY <2>1, StdinAssumption DEF readable
    <2>3. cin' \in Seq(Lines) /\ kernel' \in Seq(Lines) /\ cin' \o kernel' = Tail(kernel)
      BY <1>2, <2>1, <2>2, CutHead
    <2>4. handled' \o (cin' \o kernel') = handled \o kernel
      BY <1>2, <2>1, <2>3, MoveHead
    <2>5. (handled' \o cin') \o kernel' = handled' \o (cin' \o kernel')
      <3>1. \A s, t, u \in Seq(Lines) : (s \o t) \o u = s \o (t \o u)
        BY Associative
      <3> QED
        BY <1>0, <2>3, <3>1, Zenon
    <2>6. handled \o cin = handled
      BY <1>2, <2>1
    <2> QED
      BY <1>0, <2>3, <2>4, <2>5, <2>6 DEF LinesInv, NothingLost
  <1> QED
    BY <1>1, <1>2 DEF getline

LEMMA LinesStep == LinesInv /\ [StdinNext]_stdinVars => LinesInv'
  <1> SUFFICES ASSUME LinesInv, [StdinNext]_stdinVars PROVE LinesInv'
    OBVIOUS
  <1>1. CASE \E line \in Lines : typeLine(line)
    BY <1>1, TypeStep
  <1>2. CASE readLine
    BY <1>2, GetlineStep DEF readLine
  <1>3. CASE UNCHANGED <<typed, kernel, cin, handled>>
    BY <1>3 DEF LinesInv, NothingLost
  <1> QED
    BY <1>1, <1>2, <1>3 DEF StdinNext, other, stdinVars

\* What is typed is processed, in the buffer of std::cin or in the kernel, in this order
\* and once: Client::disableStdinEvents only stops epoll from reporting standard input,
\* and std::getline in parseUserInput takes the lines one at a time.
THEOREM NothingLostCorrect == StdinSpec => []NothingLost
  <1>1. LinesInv => NothingLost
    BY DEF LinesInv
  <1> QED
    BY LinesInit, LinesStep, <1>1, PTL DEF StdinSpec

-----------------------------------------------------------------------------
(* StdinBuffer and TcpClient.                                                *)

\* A line from the buffer is one of the lines the client may get.
LEMMA LineIsInput ==
    ASSUME status = CONTINUE, stdin_enabled, NEW line, processLine(line)
    PROVE  processUserInput
  BY DEF processLine, processUserInput

LEMMA StdinStep == [StdinNext]_stdinVars => [Next]_vars
  <1> SUFFICES ASSUME [StdinNext]_stdinVars PROVE [Next]_vars
    OBVIOUS
  <1>1. CASE readLine
    BY <1>1, LineIsInput DEF readLine, Next, localEvent
  <1>2. ASSUME NEW line, typeLine(line) PROVE UNCHANGED vars
    BY <1>2 DEF typeLine
  <1>3. CASE UNCHANGED stdinVars
    BY <1>3 DEF stdinVars
  <1> QED
    BY <1>1, <1>2, <1>3 DEF StdinNext, other, Next, localEvent

\* StdinBuffer implements TcpClient: to its handlers, lines that were typed ahead and come
\* from the buffer of std::cin are lines like any other.
THEOREM StdinImplementsClient == StdinSpec => Spec
  <1>1. StdinInit => Init
    BY DEF StdinInit
  <1> QED
    BY <1>1, StdinStep, PTL DEF StdinSpec, Spec

\* Whatever waits in the buffer and in the kernel, the timer runs exactly while a REPLY is
\* awaited and exactly then standard input is disabled: a line that was typed ahead is
\* never sent while the request before it is unanswered (TcpClient.processStdinEvent).
THEOREM StdinTimerCorrect == StdinSpec => []TimerMeansReply
  BY StdinImplementsClient, TimerCorrect, PTL
=============================================================================
