# TLA+ verification of the IPK25-CHAT client

The repository holds a C++ chat client for the IPK25-CHAT protocol with a TCP
and a UDP variant, and Python test suites that drive it as a black box. This
directory holds TLA+ modules that model the client and its test program, TLC
configurations that model-check them on small instances, and theorems whose
proofs TLAPS checks for every value of the constants.

Contents: [inventory](#inventory) · [modules](#modules) · [model and code](#how-the-model-corresponds-to-the-code) ·
[runs](#runs) · [bounds](#bounds) · [fairness](#fairness) · [proofs](#proofs) ·
[findings](#where-the-code-disagrees-with-its-documentation) · [limits](#what-is-not-modelled) · [plan](#plan)

## Inventory

| Component | State | Operations | Correct when |
|---|---|---|---|
| `Client` (`client.cpp`) | FSM state, display name, "waiting for reply", epoll set (stdin mask, timerfd, socket), static instance pointer for the signal handler | `run` (one event per iteration), `startTimer`/`stopTimer`, `enableStdinEvents`/`disableStdinEvents`, `parseUserInput`, `canSendMessageType`, `sigintHandler` | something can always wake the loop; one user input is under way at a time; no line is forgotten |
| `Udp_client` (`udp-client.cpp`) | message last built, its id, retransmission budget, "waiting for confirm", "waiting for BYE confirm", bitset of confirmed server ids, server address | one handler per datagram type, `processTimerEvent`, `processStdinEvent`, `sendErrMsg`, `sendByeMsgToServer`, `sendConfirmMsg` | messages are delivered once and in order over a network that loses and repeats; server messages are printed once; closing is final and bounded |
| `Tcp_client` (`tcp-client.cpp`) | receive buffer, reply timer | handlers for REPLY, MSG, ERR and BYE lines, stream reassembly, BYE on end of file or SIGINT | what the client does is independent of how the stream is cut; REPLY arrives or the client leaves with an error |
| `Args` (`args.cpp`) | protocol, address, port, timeout (uint16), retransmissions (uint8) | parse the command line, resolve the host | values are those given; a bad command line ends with EXIT_FAILURE |
| FSM and message types (`fsm.h`, `protocol-msg-type.h`) | none | enumerations | — |
| `main`, `Exception`, errors | exit code | build the variant, run it, map exceptions to exit codes | exit code tells how the session ended |
| `ExecutableTester` (`testo.py`) | process, pipes, sockets, accept thread, reader thread, queue of lines | `setup`, `execute`, `teardown`, `receive_message`, `send_message`, `get_stdout`, … | every test case gets a verdict and leaves no process behind |
| UDP and TCP test cases (`testo.py`, `UDPMessages.py`, `UDPTranslator.py`, `test-tcp-stream.py`) | — | 4 functions about the command line, 31 UDP and 45 TCP test cases, a script that cuts messages | a correct client passes whatever the interleaving; a wrong one does not |
| Test runner (`testo.py`) | lists of test cases, options, results | decorator `testcase`, command line, `run_tests` | "all passed" means that what was selected ran and passed |
| `hobza-tests/` | — | the older suite `testo.py` grew out of | — |
| `pseudo-servers/` | — | interactive servers | — |

*Interaction.* The client is one thread. `Client::run` asks `epoll_wait` for a
single event and calls the virtual handler of the variant; the handler runs to
completion and changes the epoll set (stdin mask, timer). Blocking the user is done
by taking EPOLLIN out of the mask of standard input. SIGINT runs a handler that
calls `sendByeMsgToServer` on the same members, wherever the program stands.
Exceptions leave `run` and become exit code 1 in `main`. The tester is a second
process with three threads that shares with the client two pipes, a socket and the
clock.

*What is hard.* UDP: CONFIRM and REPLY are separate datagrams that race each other;
the id is advanced by the CONFIRM for a user request but *before* building an ERR
or a BYE; one timer and one budget serve every message; answers may be lost,
late, repeated or belong to the previous request. TCP: one `recv` returns parts of
several messages, and a message that ends the client leaves the rest unread. Both:
a hang-up or an interrupt comes at any moment; `getline` buffers what epoll cannot
see. Tester: a confirmation must be sent before the client's timer expires, output
is moved by a thread, and a blocking call on the wrong socket never returns.
`PROJECT.json` lists these hazards with their lines and the properties aimed at
each.

## Modules

| Module | Content |
|---|---|
| `UdpClient` | the UDP client in an open environment: any datagram, any input, any timing |
| `UdpClientProofs` | theorems about `UdpClient` and their lemmas |
| `ChatDelivery` | abstract specification: what a user is promised about typed lines |
| `UdpSession` | `UdpClient` composed with a faulty network, a server and a user; implements `ChatDelivery` |
| `UdpSessionProofs` | theorems about `UdpSession`, and that it implements `ChatDelivery` |
| `UdpInterrupt` | `UdpClient` with SIGINT between the statements of its two longest handlers |
| `UdpInterruptProofs` | theorem about `UdpInterrupt` |
| `TcpClient` | the TCP client in an open environment, one message of the server at a time |
| `TcpStream` | `TcpClient` with the buffer in which messages are put together |
| `TcpInOrder` | abstract specification: the client that is handed each message the server wrote, whole and in order |
| `TcpSession` | `TcpStream` composed with a server and a stream that is cut anywhere; implements `TcpInOrder` |
| `TcpClientProofs` | theorems about `TcpClient` and `TcpStream`, and that `TcpStream` implements `TcpClient` |
| `TcpSessionProofs` | that `TcpSession` implements `TcpInOrder` and `TcpStream` |
| `StdinBuffer` | `TcpClient` with the lines of standard input in the kernel and in the buffer of `std::cin` |
| `StdinBufferProofs` | theorems about `StdinBuffer`, and that it implements `TcpClient` |
| `Args` | the constructor of `Args` |
| `ArgsProofs` | theorems about `Args` |
| `ExecutableTester` | the test harness: statements of a test case, threads, pipes, sockets, time |
| `UdpTests` | the UDP test cases and the ones of the command line, run against `UdpClient` |
| `TcpTests` | the TCP test cases and `test-tcp-stream.py`, run against `TcpStream` |
| `TestRunner` | registration, command line and summary of the test program |
| `TestRunnerProofs` | theorems about `TestRunner` |
| `MC…` | small instances of the module of that name (of `TcpClient`: `MCStdinBuffer`) |

`TcpSession` → `TcpStream` → `TcpClient` and `UdpSession` → `UdpClient` are chains
of EXTENDS; `UdpTests` and `TcpTests` extend the harness *and* the client they
drive, so the test cases meet the same actions the other runs check.

Operators introduced by a comment "Fault:" are wrong variants of the definition
that follows them, each a bug that could plausibly be written there. They are not
used by any specification; they serve to confirm that each property fails when
the code is broken in that way.

## How the model corresponds to the code

### UDP

**State.** The variables of `UdpClient` that start with `m_` are the members of
the same name. `timer` is the duration the timerfd was armed with (0: disarmed,
which is also what `timerfd_settime` makes of a zero time), `stdin_enabled` the
EPOLLIN bit of `m_stdin_event`, `status` tells whether `run` goes on or with which
code the program ended, `sent` the datagram transmitted by the last step.
`displayed` and `copies` are history variables: no action reads them.

**Actions.** One step is one iteration of the loop. `processSocketEvent(d)`
dispatches on the FSM state and the type of the datagram as
`processMessageFromServer` does (`expectedTypes` is its nested switch), then runs
`processServer…Msg` whole: validation, printing, the confirmation, timer and mask
changes. `processTimerEvent`, `processUserInput`, `processStdinHangup`,
`processStdinError` and `sigintHandler` are the other events. `buildAndSend` is the
common tail of all messages the client originates. Every `sendto` may fail, which
throws: the step then ends the program with code 1 and keeps what the handler had
printed. A `sendto` that fails inside the handler of SIGINT throws out of a signal
handler, which may also end in `std::terminate` (`KILLED`).

**Data.** A datagram says its type, ids, result, sender and whether it passes the
length and regex checks (`valid`); a line of input is sent, local, refused or end
of file. Payload text and the wording of output are left out. Ids are arithmetic
modulo `ID_SPACE` where the code stores them in a `uint16_t`, and plain integers
where it computes on `int`.

**Session.** `UdpSession` keeps two sets of datagrams in flight. A datagram is
never removed by delivery, so it may arrive late, out of order, again, or never;
this also stands for the server's retransmissions. A REPLY stays until the client
has confirmed it; whether it can come again after that (its CONFIRM was lost, the
network repeated it) is the constant `REPLY_DUPLICATES`. The server is outside the repository and is modelled
from what the client relies on: it confirms everything, acts once per id, answers
AUTH and JOIN once (accepting or refusing), and answers from a new port.

**Interrupts.** `UdpClient` and `TcpClient` let SIGINT in between two iterations of
the loop. In `UdpInterrupt` the handlers `processStdinEvent` (for a line that is
sent) and `processServerReplyMsg` are sequences of statements in `todo`, and the
signal may come between any two of them. It is blocked while its own handler runs,
as POSIX says. A signal inside a statement is undefined behaviour and left out.

### TCP

`TcpClient` has one action per handler. A message says its type, result, sender,
text and whether it matches the regular expressions and limits of its type.
`status` also tells that the program was `KILLED`: an exception that leaves the
signal handler reaches `std::terminate` unless it unwinds through `main`'s try, and
a `send` on a reset connection raises SIGPIPE.

`TcpStream` adds `m_msg_from_server`. Of a byte the model keeps the message it
belongs to and whether it is the LF that ends it. `receiveSegment` is the `recv` at
the head of `processSocketEvent`; then each step is one iteration of its `while`
loop (`in_handler`), so that SIGINT can come between two messages of one segment.
`TcpSession` adds the wire: segments have any length up to the size of the receive
buffer, the end of the stream comes after its bytes, a reset may overtake them. `pending` is a
history variable: the messages that were written and not handled yet. No guard reads
it; it is what `TcpInOrder` calls the inbox.

### Standard input, command line

`StdinBuffer` separates the kernel's side of standard input, which epoll watches,
from the buffer behind `std::cin`, which `getline` looks at first. A `read` of a
terminal returns one line, a `read` of a pipe all that is there. End of file is a
token in the input on a terminal only (^D); the closed end of a pipe is reported as
EPOLLHUP, the action `processStdinHangup`.

`Args` takes two words per iteration like the loop in the constructor. Words are
atoms; `Number` says what `std::stoi` makes of one and the assignment cuts it to the
width of the member. `argv[argc]` is NULL, and so is the address until `-s` is met;
where the code hands NULL to `strcmp` or `inet_pton` the outcome is a fault.

### Test program

A test case is a sequence of statements, one for each call of a method of
`ExecutableTester` and each assertion, with the arguments the Python code gives it.
The tester runs one statement, or one phase of a statement that waits, per step:
a sleep, `recvfrom` under `settimeout`, `join` with a timeout and `wait` have a
deadline. The accept thread and the thread that moves the client's output to the
queue are actions of their own. Sockets carry the messages of the client models, so
the translation by `UDPTranslator` and `UDPMessages` is a mapping between the fields
the test cases name and the fields of a datagram. The output of the client is a
sequence of lines of which the kind (`MSG`, `ERR`, `Action Success`, …) and the
texts are kept, as far as an assertion asks for them.

Time is counted in ms and passes only when neither the tester nor the client has
anything to do, up to the next deadline. The slowness of the machine is in two
constants: `STARTUP`, up to which the process is not yet in its event loop, and
`JITTER`, by which a sleep may overrun. Timers of the client expire in time.

`TestRunner` treats a test case as something that returns True or False, and models
the rest of `testo.py`: the decorator that puts a function into a list by its name,
the command line with its early exits, the loop of `run_tests` and the summary.
Of `str.lower` it keeps that `-p UDP` means `-p udp`.

## Runs

| Run | Result | What it shows |
|---|---|---|
| `client` | holds, 38,948 states | against every sequence of datagrams: types and widths; the loop is never left with neither timer nor input (`NeverStalled`); the timer branch that throws "timer event, but …" is unreachable (`TimerHasPurpose`); an ERR or BYE is final (`ClosingIsFinal`, `QuietAfterClosing`); nothing printed twice (`DisplayedOnce`); JOIN is no dead end (`JoinAwaitsReply`); retransmissions bounded (`RetransmissionBound`) |
| `session` | holds, 981,036 states | with a correct server, and a standard input that may hang up: one user input at a time (`SingleInput`), client and server agree that and under which name the user is signed in (`SignedIn`, `SignedInAsNamed`), exit code 0 means an orderly end (`CleanExit`), each message has its whole retransmission budget (`FullBudget`), a repeated MSG or PING is confirmed and has no other effect (`DuplicateIsConfirmed`), the REPLY to a confirmed request is recognised (`ReplyRecognised`), typed lines are delivered once and in order (`DeliveredInOrder`, the refinement of `ChatDelivery`) |
| `session_live` | holds, 34,586 states | a request of the user is resolved or the client exits (`Resolved`) |
| `udp_signals` | holds, 6,038 states | with SIGINT between any two statements of the two longest handlers no handler leaves the loop with nothing that wakes it (`AwakeBetweenHandlers`) |
| `tcp_client` | holds, 195,880 states | the client on a terminal, against every sequence of messages: timer, blocked user and awaited REPLY are the same thing (`TimerMeansReply`), a REPLY is awaited only where the FSM allows it and always in S_JOIN, also when a send fails (`ReplyStates`), only a REPLY that was asked for opens the session (`OpensByReply`), lines typed while the user is blocked are kept in order (`NothingLost`) and processed (`EveryLineHandled`) |
| `tcp_session` | holds, 148,720 states | however the stream is cut, the client does what `TcpInOrder` does (`InOrder`); its buffer never holds more than two messages of the largest size (`BufferBound`); every complete message is handled (`EverythingHandled`); an awaited REPLY comes or the client ends (`ReplyEnds`) |
| `args` | holds, 48,938 states | the client starts with the value of the last occurrence of each option or its default, as far as it fits (`LastOneCounts`); the program faults only where a word is missing (`FaultOnlyIfIncomplete`) |
| `udp_tests` | holds, 3,917 states | all 31 UDP test cases and the 4 of the command line pass (`AllTestsPass`) whatever the interleaving; no error of the client goes unread (`NoUnreadError`); the pipe to the client never holds a second line (`OneLineAtATime`), so the buffer behind `getline` cannot strand one; each message is confirmed before its timer expires unless the test case withholds the CONFIRM (`ConfirmedInTime`); every test case gets a verdict and the process is ended, also with a client that does nothing (`TestsFinish`) |
| `tcp_tests` | holds, 5,016 states | the 45 TCP test cases and `test-tcp-stream.py` pass, however the stream is cut and the threads interleave; no error goes unread; with a client that does nothing a test case gets a verdict or blocks in `recv` on the connection, and nowhere else (`FinishesOrBlocks`) |
| `test_runner` | holds, 12,555 states | a green summary means that the selected test cases ran and passed (`GreenMeansPassed`), `-t` runs one function (`OnlyNamed`) |
| `stale_reply` | violated | `SingleInput` when a confirmed REPLY may arrive again, see [below](#where-the-code-disagrees-with-its-documentation) |
| `stdin_pipe` | violated | `EveryLineHandled` when standard input is a pipe |

`CHECK_DEADLOCK FALSE` is set everywhere because the programs end: after `status`
leaves CONTINUE no client action is enabled.

## Bounds

* `ID_SPACE` is 65536 in the code. The open-environment run uses 2, which makes ids
  collide and wrap constantly; the sessions use 4 or 5 so that ids stay distinct
  (for the wrap-around see `id_wrap` [below](#where-the-code-disagrees-with-its-documentation)).
* `MAX_RETRANS = 1` gives the three cases of a budget: full, used, exhausted. The
  theorems hold for every value.
* `MAX_INPUT_ID` 2 or 3: the user sends as long as the id is below it, enough for a
  refused AUTH, an accepted AUTH and a MSG or JOIN in one session.
* `MAX_INTERRUPTS = 1`: one SIGINT, end of file or hang-up. `MAX_SERVER_IDS` up to 3:
  a REPLY to each request and a message of the server's own.
* `WRAP_IDS = FALSE` leaves out steps that would wrap the id. As the user stops
  typing at `MAX_INPUT_ID`, these are only closing messages: the one after three
  confirmed requests (shorter sessions do close), an ERR sent because the same
  unexpected datagram arrived once more, a BYE because the hang-up was reported
  again. For `Resolved` this means that a network that repeats one unexpected datagram for ever, and so restarts the
  confirmation timer for ever, is not considered.
* `s_MAX_MSG_SIZE` is 60035 in the code; 2 in `tcp_session` with messages of 1, 2 and
  4 bytes, so that a message is one segment, is cut in any place, shares a segment
  with the next, exactly fits, and is too long with and without its end in the
  buffer. `MAX_SENT = 3`: a REPLY, a message after it, and one in the next segment.
  In `tcp_tests` it is 7, enough for the messages the script cuts.
* `MAX_SIGNALS = 2`: an interrupt and a second one while the first BYE is under way.
* `MAX_LINES = 4`: an AUTH, a line that waits for its REPLY, a JOIN and another line.
* `JITTER = 40`, `STARTUP = 150` in the test runs. `execute` sleeps 200 ms and the
  client retransmits after 250 ms, so a test case has 50 ms to spare and the
  start-up must fit in the 200 ms; [below](#where-the-code-disagrees-with-its-documentation)
  is what happens beyond.
  The datagrams of the tests use ids below `ID_SPACE = 8`.
* `QUEUE_LIMIT = 3`: messages in a socket of the tester; no test case lets more
  pile up.
* `MCArgs` has every command line of up to four of eleven words and all pairs of
  options after `-s localhost`; `MCTestRunner` every one of up to three of twelve words
  and the longer ones with both options, with four functions of which two share a
  name.

## Fairness

`SessionSpec` assumes weak fairness of `clientTimer` (the kernel expires an armed
timer and the loop is in `epoll_wait`), of `clientReceives` and `stdinHangsUp`
(epoll reports ready descriptors in turn), and of `serverReceives` (a datagram in
flight is not held back for ever from a server that runs). None is assumed of the
user, of SIGINT or of the server's own messages. `clientReceives` is fair as a
whole: nothing guarantees that a particular datagram arrives, only that arriving
ones are handled. Loss is therefore possible for each datagram.

`TcpSession` assumes weak fairness of the delivery of bytes (TCP retransmits), of the
loop in the handler and of the timer; none of the server's writing. `StdinBuffer`
assumes that a readable line is read and the timer expires. In the test runs each of
the tester, the client and the passing of time is fair: they are threads and
processes the system schedules.

## Proofs

### The UDP client

`UdpClientProofs` proves, for every value of the constants that satisfies
`ConstantsAssumption` (at least two ids; budget and timeout within the widths of
their members; `Inputs` any set of datagrams):

| Theorem | Statement |
|---|---|
| `Invariance` | `Spec => []IInv` |
| `TypeCorrect` | `Spec => []TypeOK` |
| `NeverStuck` | `NeverStalled` and `TimerHasPurpose` always hold |
| `PrintedAtMostOnce` | `Spec => []DisplayedOnce` |
| `ClosingDiscipline` | `Spec => []ClosingIsFinal` |
| `BoundedWaiting` | `RetransmissionBound` and `JoinAwaitsReply` always hold |
| `TimerWanted`, `JoinAnswered` | the parts of the two pairs above by themselves |
| `QuietClosing` | `Spec => QuietAfterClosing` |

The environment of `Spec` is unconstrained, so these hold with any server and any
network, hence also in `UdpSession`.

*The argument.* `IInv` is the conjunction of the invariants and of two facts that
make it inductive. `PrintedIsConfirmed`: a printed id is in the bitset of confirmed
ids while the program runs. Without it `DisplayedOnce` does not survive a second
arrival; it may fail only in the step in which the confirmation cannot be sent,
and that step ends the program. `JoinIsConfirmed`: in S_JOIN no CONFIRM is awaited
unless the client is closing. Without it a retransmission could replace the reply
timer in S_JOIN and `JoinAwaitsReply` would break. The proof follows the structure
of the model: lemmas about the primitives (`buildAndSend`, leaving the program,
sending a confirmation), one lemma per handler, then the case split over `Next`.
`QuietClosing` uses `ClosingIsFinal`: when a closing message is under way standard
input is disabled and no REPLY is awaited, so the only messages that can leave are
retransmissions of it, confirmations and further closing messages.

### The TCP client

`TcpClientProofs` proves, for every value of the constants that satisfies
`ConstantsAssumption` and `SizeAssumption`:

| Theorem | Statement |
|---|---|
| `Invariance` | `Spec => []IInv` |
| `TimerCorrect` | `Spec => []TimerMeansReply` |
| `ReplyStatesCorrect` | `Spec => []ReplyStates` |
| `OpensByReplyCorrect` | `Spec => OpensByReply` |
| `StreamImplementsClient` | `StreamSpec => Spec` |
| `StreamTimerCorrect` | `StreamSpec => []TimerMeansReply` |
| `BufferBoundCorrect` | `StreamSpec => []BufferBound` |

`TcpSessionProofs` proves, with `SessionAssumption` besides (messages have at least one
byte), about the client connected to a server, for every size limit, every set of sizes
and streams of any length:

| Theorem | Statement |
|---|---|
| `InOrderCorrect` | `SessionSpec => InOrder` (`TcpSession` implements `TcpInOrder`) |
| `NothingLeftBehind` | `SessionSpec => [](~in_handler /\ wire = << >> => pending = << >>)` |
| `SessionImplementsStream` | `SessionSpec => StreamSpec` |
| `SessionInvariance` | `SessionSpec => [](IInv /\ BufferBound)` |

*The argument.* `IInv` is `TypeOK`, `TimerMeansReply` and `ReplyStates`
together: each handler starts or stops the timer, masks standard input and sets
"waiting for reply" in one go, and none of the three alone is enough, because the
handler of the timer relies on a REPLY being awaited and the state changes of JOIN
rely on the timer. `StreamImplementsClient` says that the client with its buffer
never does a thing the client with whole messages could not do: a step that only
moves bytes stutters, a step that handles a message does so with a message of
`Inputs`. For the latter it needs `BufferOK` (the buffer holds bytes of such
messages), which is invariant under the three steps that change the buffer.
`StreamTimerCorrect` follows from the two. `BufferBound` is inductive by itself: what
is left when the handler returns is shorter than the limit, or the client has ended, and
one `recv` adds at most the limit and one byte.

`InOrderCorrect` says the opposite direction of `StreamImplementsClient`: the client does
*everything* the client with whole messages does, in order. Its invariant has two parts.
`Framed`: the bytes in the buffer and on the wire, taken together, are the bytes of the
pending messages, that is, there are places p[1] < p[2] < … at which exactly the last
bytes are, the k-th message ends at p[k] and is p[k] - p[k-1] bytes long. `Drained`:
outside the handler no end of a message is in the buffer. From `Framed` follows that the
first end `find()` meets is the one of the oldest message (`FirstMessage`), that a rest of
n bytes without an end belongs to a message longer than n (`RestRefused`: this is where
`>=` for the rest and `>` for a whole message fit together), and that bytes without an end
mean that nothing is pending. With `Drained` the last gives `NothingLeftBehind`, and that
the server's close is seen only after its messages. The lemmas `FrameAppend` and
`FrameTail` say how the places change when a message is written and when one is erased;
`deliver` moves bytes from the wire to the buffer and changes no place.

### The UDP session

`UdpSessionProofs` proves, about the client together with a
correct server and a network that loses, delays, reorders and repeats datagrams, for
every number of ids, retransmissions, names and steps:

| Theorem | Statement | Hypotheses |
|---|---|---|
| `ClientInvariance` | `SafetySpec => []IInv` (of `UdpClient`) | none |
| `SignedInCorrect` | `SafetySpec => []SignedIn` | none |
| `DuplicateIsConfirmedCorrect` | `SafetySpec => DuplicateIsConfirmed` | none |
| `IdInvariance` | `SafetySpec => []IdInv` | `~WRAP_IDS` |
| `CleanExitCorrect` | `SafetySpec => []CleanExit` | `~WRAP_IDS` |
| `ReplyRecognisedCorrect` | `SafetySpec => []ReplyRecognised` | `~WRAP_IDS` |
| `ExchangeInvariance` | `SafetySpec => []ExchangeInv` | `~WRAP_IDS`, `~REPLY_DUPLICATES` |
| `SingleInputCorrect` | `SafetySpec => []SingleInput` | the same |
| `FullBudgetCorrect` | `SafetySpec => []FullBudget` | the same |
| `SignedInAsNamedCorrect` | `SafetySpec => SignedInAsNamed` | the same |
| `DeliveredInOrderCorrect` | `SafetySpec => DeliveredInOrder` | the same |

The hypotheses are those of the runs `session` and `session_live`, and the code needs
them: with a confirmed REPLY that comes again TLC violates `SingleInput`
(`stale_reply`), `FullBudget`, `SignedInAsNamed` and `DeliveredInOrder` (`lost_line`),
with ids that wrap `ReplyRecognised` (`id_wrap`). A REPLY that comes again *before* it
is confirmed is covered by all of them.
`DuplicateIsConfirmed` is about MSG and PING, for which the code does what the test
cases say, also when the client's ids wrap and a REPLY repeats; for a REPLY it fails
(`duplicate_reply`).
`~WRAP_IDS` says that the session has fewer than `ID_SPACE` messages of the client;
`MAX_INPUT_ID` and the other bounds of the runs are arbitrary.

*The argument.* `BaseInv` extends the `IInv` of `UdpClient` by the types of what is in
flight and by `FromServer`: an accepting REPLY comes from the port of the session and
from a server that has signed the client in. That is all `SignedIn` needs. `SeenInv`
adds `Seen`: the server uses an id once, and a MSG or PING that was confirmed is of a
type the client expects in every later state; from it follows `DuplicateIsConfirmed`. `IdInv` adds
what is true of the ids even if a repeated REPLY lets the user type too early, when two
requests may share an id:

* `OrderedIds`: no message in flight has an id above the client's, and while nothing
  awaits its CONFIRM they are all below it; the id of a BYE is that of no other message.
* `Answered`: a CONFIRM or a REPLY refers to a message the server has seen, a REPLY to
  a request, and a request has one REPLY.
* `Waits`: a REPLY is awaited for the last message only, its id is then one below the
  next, and the state of the FSM expects it.

The rest needs `ExchangeInv`:

* `Numbered`: an id stands for one message. Without it a CONFIRM could be about another
  message with the same id.
* `Turn`: standard input is enabled only if nothing is awaited.
* `Settled`: while the user may type, or a request still awaits its CONFIRM, no REPLY
  to the message *before* is in flight or can still be sent. This is what keeps the
  test `id - 1 == ref` from taking an old REPLY for the new one, and it is the part
  that fails when a REPLY comes twice.
* `Budget`, `Accepted`: the retransmission budget is full between two messages; the
  accepting REPLY stands for the name of its AUTH.

`Effect` reduces the client's side to seven cases (nothing, a request, a closing
message, a retransmission, the CONFIRM of a request or a MSG, the REPLY); one
lemma per part of the invariant then goes through them and through the server's steps.

The refinement adds `DeliveryInv`: the server lacks at most the last line, and then
that line is in flight (`Missing`); while it is unconfirmed all lines before it are
acknowledged (`Pending`); otherwise the three logs agree (`UpToDate`). Every step of
the session is then a step of `ChatDelivery` or a stutter.

### Interrupts, standard input

| Theorem | Statement |
|---|---|
| `AwakeBetweenHandlersCorrect` | `CONFIRM_TIMEOUT > 0` implies `InterruptSpec => []AwakeBetweenHandlers` |
| `NothingLostCorrect` | `StdinSpec => []NothingLost` |
| `StdinImplementsClient` | `StdinSpec => Spec` (of `TcpClient`) |
| `StdinTimerCorrect` | `StdinSpec => []TimerMeansReply` |

`AwakeInv` says besides the property that the statements an interrupted handler still
has to run end with the timer armed or the user admitted (`EndsAwake`); that no
sequence of statements and signals undoes it is what the proof shows. A timeout of 0
(`-d 0`) disarms the timer (`zero_timeout`), hence the hypothesis. `LinesInv` adds to
`NothingLost` the types of the sequences. The refinement hands the theorems about
`TcpClient` on to `StdinBuffer`.

### Command line and test runner

| Theorem | Statement |
|---|---|
| `LastOneCountsCorrect` | `ArgsSpec => []LastOneCounts` |
| `FaultOnlyIfIncompleteCorrect` | `ArgsSpec => []FaultOnlyIfIncomplete` |
| `GreenMeansPassedCorrect` | `RunnerSpec => []GreenMeansPassed` |
| `OnlyNamedCorrect` | `RunnerSpec => []OnlyNamed` |

They hold for command lines of any length and number. `ArgsAssumption` says that the
words of a command line are strings other than NULL, and that NULL is neither a
host nor a number; `RunnerAssumption` that a test function has a name and a set of
protocol words. `LoopInv` is the loop invariant of the constructor: after the
words before `i`, each member has the value of the last occurrence *among them*.
`RunnerInv` says that each list holds the functions of its protocol among those the
import has come past (`Registered`), and that what has run followed by what is left is
the selection (`InStep`); a green summary then counts as many passed results as there
are results, so all of them have passed.

### Only model-checked

* Liveness (`Resolved`, `EveryLineHandled`, `EverythingHandled`, `ReplyEnds`,
  `TestsFinish`, `FinishesOrBlocks`): it rests on fairness and ENABLED, which the proof system does not
  handle. Of `EverythingHandled` the safety part is proved
  (`NothingLeftBehind`).
* The test cases (`AllTestsPass`, `NoUnreadError`, `OneLineAtATime`,
  `ConfirmedInTime`): they are about some eighty fixed scripts with fixed times, so
  there is no constant to generalise over and TLC decides them.

## Where the code disagrees with its documentation

Two of these have a run; `PROJECT.json` quotes the documents they contradict.

* `stale_reply` — while the CONFIRM of a second AUTH is awaited, a repeated refusal
  of the first one passes the test `id - 1 == ref`; the user may type with a request
  under way.
* `stdin_pipe` — several lines written to a pipe at once are moved to the buffer of
  `std::cin` by one `read`; epoll sees an empty descriptor, and the lines wait until
  more input comes.

The others are claims the models state and the code does not keep. The table says
which values make TLC show it: change them in the configuration of the run and put
the property in the place of the run's properties.

| Claim | Run, values, property | What happens |
|---|---|---|
| duplicate_reply | `session`, `REPLY_DUPLICATES = TRUE`, `DuplicateReplyIsConfirmed` | a REPLY that was confirmed and comes again is dropped without a CONFIRM in S_AUTH; in S_OPEN it falls into the default branch and is answered with an ERR, and the session ends. `testo.py:769`: "the client ignores duplicated messages from the server but confirms them" (it tests MSG) |
| lost_line | `session`, `REPLY_DUPLICATES = TRUE`, `DeliveredInOrder` | a repeated REPLY that accepts the first AUTH is taken for the answer to the second while that one awaits its CONFIRM; the next line has the id of the second AUTH, and its confirmation is that of the AUTH: the line counts as acknowledged and the server has not taken it |
| err_budget | `session`, `FullBudgetAlways` | `sendErrMsg` does not reset the retransmission budget, so an ERR inherits what its predecessor left of it |
| id_wrap | `session`, `STDIN_IS_PIPE = FALSE`, `ID_SPACE = 2`, `MAX_SERVER_IDS = 2`, `WRAP_IDS = TRUE`, `ReplyRecognised` | `m_msg_to_server_id - 1` is computed on `int`: the REPLY to the request with id 65535 is never recognised and the user stays blocked. `src/README.md:87`: "when reply is received, _stdin_ events are enabled (unblocked)" |
| zero_timeout | `client`, `CONFIRM_TIMEOUT = 0`, `AlwaysWakes` | `-d 0` disarms the timer, so nothing is retransmitted and a lost datagram blocks the client. `src/README.md:93`: "the message is retransmitted and the timer is started again" |
| hangup | `session_live`, `STDIN_IS_PIPE = TRUE`, `WRAP_IDS = TRUE`, `HangupTerminates` | EPOLLHUP cannot be masked and is level-triggered: each report sends a BYE with a new id, and the confirmations of older ones are ignored. The counterexample needs an unlucky but fair order of events |
| udp_interrupt | `udp_signals`, `ByeRetransmitted` | SIGINT in the middle of `processStdinEvent` or `processServerReplyMsg`: the interrupted handler goes on, overwrites the BYE with the request (and its id), or stops the BYE's timer |
| args_type | `args`, `TypeRequired` | `-s localhost` starts a UDP client. `testo.py:291`: "the program exits with a non-zero exit code when the -t argument is not provided" |
| args_fault | `args`, `EndsByItself` | it faults when `-s` is missing, or when `-t` or `-s` is the last word |
| args_width | `args`, `AsProvided` | `-s localhost -r 256` means 0. `src/README.md:94`: "UDP maximal retransmission (provided in the program's arguments, default value is 3)" |
| slow_tester | `udp_tests`, `JITTER = 60`, `AllTestsPass` | the test cases have 50 ms between the sleep in `execute` and the client's retransmission; on a loaded machine a correct client fails |
| tcp_hung_client | `tcp_tests`, `TestsFinish` | the timeout of `receive_message` (`testo.py:126`) is set on the listening socket, not on the connection: a TCP test case blocks for ever with a silent client, and `raise TimeoutError` (`testo.py:140`) is not reached |
| arg_tests | `udp_tests`, `JudgedByExitCode` | the test cases of the command line that ask for a non-zero exit code compare one that is still None |
| unregistered | `test_runner`, `AllRegistered` | these test cases have neither "udp" nor "tcp" in their name, so they are in no list and cannot be selected |

One more is outside the models: `client.cpp:37` tests the length of the display name
with `<<` where `<=` was meant, so only lengths that are multiples of 4096 are refused.

## What is not modelled

* The regular expressions and the length checks: a line or a message passes them or
  does not. Payload text, formatting of output,
  name resolution.
* A signal inside a statement (undefined behaviour), and SIGINT between the
  statements of the shorter handlers.
* Server ids that wrap around against the bitset, which is never cleared: nothing in
  the repository says what should happen after 65536 messages.
* `hobza-tests/`: the suite `testo.py` grew out of, with the same harness and runner
  and fewer test cases. A model of it would repeat these modules.
* The pseudo-servers: they send what a person types and promise nothing.
* `dump` (it prints) and the pseudo-terminal that `testo.py` uses on macOS.

## Plan

1. Which theorems about the session survive ids that wrap. A REPLY that comes twice is
   settled: `SignedIn`, `CleanExit` and `ReplyRecognised` are proved with it, the others
   are false.
2. `ChatFsm`: the abstract protocol FSM, implemented by both clients.
