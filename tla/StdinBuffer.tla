---------------------------- MODULE StdinBuffer ----------------------------
(***************************************************************************)
(* TcpClient with the lines of standard input on their way: typed by the   *)
(* user or written by a program, waiting in the kernel, read into the      *)
(* buffer behind std::cin, taken by std::getline in parseUserInput.        *)
(*                                                                         *)
(* epoll looks at the kernel's side only; getline() looks at the buffer    *)
(* first.  A read of a terminal returns one line, a read of a pipe returns *)
(* all that is there (lines are short: they fit in the buffer).            *)
(***************************************************************************)
EXTENDS TcpClient

CONSTANTS
    IS_TTY,       \* is standard input a terminal?
    Lines,        \* a type of message, a local command, "EOF": ^D on a terminal
    MAX_LINES     \* bound: lines that are typed

ASSUME StdinAssumption ==
    /\ IS_TTY \in BOOLEAN
    /\ Lines \subseteq {"AUTH", "JOIN", "MSG", "RENAME", "HELP", "EOF"}
    /\ IS_TTY \/ "EOF" \notin Lines    \* a closed pipe is EPOLLHUP: processStdinHangup
    /\ MAX_LINES \in Nat

VARIABLES
    typed,        \* history: the lines so far
    kernel,       \* lines nobody has read
    cin,          \* lines in the buffer of std::cin
    handled       \* history: lines that were processed

stdinVars == <<vars, typed, kernel, cin, handled>>

StdinInit == Init /\ typed = << >> /\ kernel = << >> /\ cin = << >> /\ handled = << >>

\* The user or the program before the pipe does not wait for the client.
typeLine(line) ==
    /\ status = CONTINUE /\ Len(typed) < MAX_LINES
    /\ typed' = Append(typed, line)
    /\ kernel' = Append(kernel, line)
    /\ UNCHANGED <<vars, cin, handled>>

\* How many lines one read() returns.
readable == IF IS_TTY THEN 1 ELSE Len(kernel)

\* std::getline(): from the buffer, which is filled when it is empty.
getline(line) ==
    \/ /\ cin # << >>
       /\ line = Head(cin)
       /\ cin' = Tail(cin)
       /\ UNCHANGED kernel
    \/ /\ cin = << >>
       /\ line = Head(kernel)
       /\ cin' = SubSeq(kernel, 2, readable)
       /\ kernel' = SubSeq(kernel, readable + 1, Len(kernel))

\* A line is sent, refused, answered on the terminal, or it ends the input.
processLine(line) ==
    \/ \E name \in Names, text \in Texts :
           line \in {"AUTH", "JOIN", "MSG"} /\ userRequest(line, name, text)
    \/ line \in {"AUTH", "JOIN", "MSG"} /\ ~canSendMessageType(line) /\ userRefused
    \/ \E name \in Names : line = "RENAME" /\ userRename(name)
    \/ line = "HELP" /\ userHelp
    \/ line = "EOF" /\ endOfFile

\* Fault: what was typed ahead is thrown away.
readLineFlushes ==
    /\ status = CONTINUE /\ stdin_enabled
    /\ kernel # << >>
    /\ \E line \in Lines :
           /\ cin = << >> /\ line = Head(kernel)
           /\ kernel' = << >> /\ UNCHANGED cin
           /\ processLine(line)
           /\ handled' = Append(handled, line)
    /\ UNCHANGED typed

\* epoll reports a readable descriptor; the handler takes one line.
readLine ==
    /\ status = CONTINUE /\ stdin_enabled
    /\ kernel # << >>
    /\ \E line \in Lines :
           /\ getline(line)
           /\ processLine(line)
           /\ handled' = Append(handled, line)
    /\ UNCHANGED typed

other(event) == event /\ UNCHANGED <<typed, kernel, cin, handled>>

StdinNext ==
    \/ \E line \in Lines : typeLine(line)
    \/ readLine
    \/ other(receives)
    \/ other(processTimerEvent)
    \/ other(processStdinHangup)
    \/ other(processStdinError)
    \/ other(sigintHandler)

\* epoll reports a readable standard input and an expired timer until they are
\* handled; nobody has to type a line or to answer one.
StdinSpec ==
    /\ StdinInit /\ [][StdinNext]_stdinVars
    /\ WF_stdinVars(readLine)
    /\ WF_stdinVars(other(processTimerEvent))

-----------------------------------------------------------------------------
(* Properties.                                                               *)

\* Blocking standard input loses, repeats and reorders nothing: what is typed while
\* a REPLY is awaited is kept, as README.md says, without a queue of commands.
NothingLost == handled \o cin \o kernel = typed

\* "Processing of additional user input is deferred until after the previous action
\* has been completed": every line is processed in the end, unless the client ends.
EveryLineHandled == handled # typed ~> handled = typed \/ ~running
=============================================================================
