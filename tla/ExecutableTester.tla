-------------------------- MODULE ExecutableTester --------------------------
(***************************************************************************)
(* The harness of the black-box tests: class ExecutableTester and the      *)
(* decorator testcase of src/malashchuk-hobza-tests/testo.py.              *)
(*                                                                         *)
(* A test case is a sequence of statements (Tests[test]); the tester runs  *)
(* one statement, or one phase of a statement that waits, per step.  Two   *)
(* threads run beside it: the one that accepts the TCP connection and the  *)
(* one that moves the client's output from the pipe to a queue.  The       *)
(* client is the other process: a module that extends this one supplies    *)
(* its steps.                                                              *)
(*                                                                         *)
(* Time is counted in ms.  It passes only when nobody has anything to do,  *)
(* up to the next deadline: computing takes no time, and all the slowness  *)
(* of the machine is in JITTER and STARTUP.                                *)
(***************************************************************************)
EXTENDS Integers, Sequences

CONSTANTS
    Tests,        \* name of a test case -> its statements
    JITTER,       \* ms by which a sleep may overrun
    STARTUP,      \* ms the process may need until it runs its event loop
    QUEUE_LIMIT,  \* bound: messages a socket of the tester can hold
    CLIENT_HANGS  \* may the program under test be one that does nothing once it runs?

ASSUME TesterAssumption ==
    /\ JITTER \in Nat /\ STARTUP \in Nat
    /\ QUEUE_LIMIT \in Nat \ {0}
    /\ CLIENT_HANGS \in BOOLEAN

VARIABLES
    test, step,           \* the test case and its next statement
    verdict,              \* "RUNNING", then PASSED, FAILED, TIMEOUT or ERROR by testcase()
    server_socket,        \* port it is bound to, NoSocket: None
    connection_socket,    \* TCP: has the connection been accepted?
    client_address,       \* UDP: is the address of the client known?
    send_confirm,
    received,             \* what receive_message has returned so far
    process,              \* "none", "starting", "running" or "exited"
    args_port,            \* the port given to the client with -p
    return_code,          \* NoCode: None, or the exit code once teardown has stored it
    stdin, stdin_open,    \* pipe to the client, in lines
    stdout,               \* pipe from the client, in lines
    stdout_queue,
    to_client, to_server, \* what is in the receive buffers of the two sides
    wait,                 \* ms left of the sleep or receive under way
    timer_left,           \* ms left of the timer of the client
    start_left,           \* ms left until the process runs its event loop
    hung                  \* is the program under test one that does nothing?

script == <<test, step, verdict>>
sockets == <<server_socket, connection_socket, client_address, send_confirm, received>>
launched == <<process, args_port, return_code>>
pipes == <<stdin, stdin_open, stdout, stdout_queue>>
wires == <<to_client, to_server>>
clock == <<wait, timer_left, start_left>>
testerVars == <<script, sockets, launched, pipes, wires, clock, hung>>

Ports == {1234, 4321, 4567}
NoSocket == 0
NOT_WAITING == -1
NoCode == -1
SIGTERM == -15   \* returncode of a process that was terminated
SIGSEGV == -11   \* or that faulted

\* ExecutableTester(executable_path): run_tests makes a new one for every test.
TesterInit ==
    /\ test \in DOMAIN Tests
    /\ step = 1
    /\ verdict = "RUNNING"
    /\ server_socket = NoSocket /\ connection_socket = FALSE
    /\ client_address = FALSE /\ send_confirm = TRUE /\ received = << >>
    /\ process = "none" /\ args_port = 0 /\ return_code = NoCode
    /\ stdin = << >> /\ stdin_open = TRUE /\ stdout = << >> /\ stdout_queue = << >>
    /\ to_client = << >> /\ to_server = [p \in Ports |-> << >>]
    /\ wait = NOT_WAITING /\ timer_left = 0 /\ start_left = 0
    /\ hung \in {FALSE, CLIENT_HANGS}

-----------------------------------------------------------------------------
(* The statements test cases are made of.                                    *)

start_server(port) == [op |-> "start_server", port |-> port]
setup(port) == [op |-> "setup", port |-> port]
execute(line) == [op |-> "execute", line |-> line]
sleep(ms) == [op |-> "sleep", ms |-> ms]
send_message(items) == [op |-> "send_message", items |-> items]
receive_message(timeout) == [op |-> "receive_message", timeout |-> timeout]
confirm == [op |-> "confirm"]
send_signal == [op |-> "send_signal"]
send_eof == [op |-> "send_eof"]
set_send_confirm(value) == [op |-> "set_send_confirm", value |-> value]

\* The asserts: the message received last starts with these fields, it has the id
\* of the one before, the process has exited, get_return_code() is one of these.
assert_message(fields) == [op |-> "assert_message", fields |-> fields]
assert_same_id == [op |-> "assert_same_id"]
assert_exited == [op |-> "assert_exited"]
assert_return_code(codes) == [op |-> "assert_return_code", codes |-> codes]

\* The asserts on get_stdout(): all these lines are in it, they follow one another in
\* it, it is exactly these lines, a line is in it once, it has a line "ERROR: ...",
\* it is not empty.
stdout_has(lines) == [op |-> "assert_stdout", how |-> "has", lines |-> lines]
stdout_adjacent(lines) == [op |-> "assert_stdout", how |-> "adjacent", lines |-> lines]
stdout_is(lines) == [op |-> "assert_stdout", how |-> "is", lines |-> lines]
stdout_once(line) == [op |-> "assert_stdout", how |-> "once", lines |-> <<line>>]
stdout_error == [op |-> "assert_stdout", how |-> "error", lines |-> << >>]
stdout_some == [op |-> "assert_stdout", how |-> "some", lines |-> << >>]

\* message = tester.receive_message(); assert message == ...
expect(fields) == <<receive_message(5000), assert_message(fields)>>

stmt == Tests[test][step]
at(op) == verdict = "RUNNING" /\ step <= Len(Tests[test]) /\ stmt.op = op

proceed == step' = step + 1 /\ UNCHANGED <<test, verdict>>

\* An exception that testcase() catches: AssertionError, TimeoutError or another.
raise(outcome) == verdict' = outcome /\ UNCHANGED <<test, step>>

check(condition) == IF condition THEN proceed ELSE raise("FAILED")

\* time.sleep(ms): the call may return late.
startSleep(ms) == \E late \in {0, JITTER} : wait' = ms + late

-----------------------------------------------------------------------------
(* Starting and stopping.                                                    *)

StartServer ==
    /\ at("start_server")
    /\ server_socket' = stmt.port
    /\ proceed
    /\ UNCHANGED <<connection_socket, client_address, send_confirm, received,
                   launched, pipes, wires, clock>>

\* The thread of accept_connection: the connection of the client is in the backlog
\* as soon as the client runs.
inBacklog == process = "running" /\ server_socket # NoSocket /\ ~connection_socket

AcceptConnection ==
    /\ inBacklog
    /\ connection_socket' = TRUE
    /\ UNCHANGED <<script, server_socket, client_address, send_confirm, received,
                   launched, pipes, wires, clock>>

\* Popen, then "Give some time for the process to start".  Port 0 stands for a command
\* line without a server.  No test case calls setup() a second time, so there is no
\* process to tear down first.
Setup ==
    /\ at("setup") /\ wait = NOT_WAITING
    /\ process' = "starting" /\ args_port' = stmt.port /\ return_code' = NoCode
    /\ stdout_queue' = << >>
    /\ start_left' \in {0, STARTUP}
    /\ startSleep(200)
    /\ UNCHANGED <<script, sockets, stdin, stdin_open, stdout, wires, timer_left>>

Finish ==
    /\ verdict = "RUNNING" /\ step > Len(Tests[test])
    /\ verdict' = "PASSED"
    /\ UNCHANGED <<test, step, sockets, launched, pipes, wires, clock>>

\* Fault: teardown waits for the process without ending it.
TeardownWaits(code) ==
    /\ verdict # "RUNNING" /\ process = "exited"
    /\ process' = "none"
    /\ return_code' = code
    /\ server_socket' = NoSocket /\ connection_socket' = FALSE
    /\ UNCHANGED <<script, client_address, send_confirm, received, args_port,
                   pipes, wires, clock>>

\* SIGTERM, wait(), stop_server(): called by testcase() whatever the verdict.
Teardown(code) ==
    /\ verdict # "RUNNING" /\ process # "none"
    /\ process' = "none"
    /\ return_code' = IF process = "exited" THEN code ELSE SIGTERM
    /\ server_socket' = NoSocket /\ connection_socket' = FALSE
    /\ UNCHANGED <<script, client_address, send_confirm, received, args_port,
                   pipes, wires, clock>>

-----------------------------------------------------------------------------
(* Standard input and output of the client.                                  *)

\* Fault: the tester lets the client wait longer.
ExecuteSlow ==
    /\ at("execute") /\ wait = NOT_WAITING
    /\ \/ /\ process # "exited"
          /\ stdin' = Append(stdin, stmt.line)
          /\ startSleep(300)
          /\ UNCHANGED script
       \/ process = "exited" /\ raise("ERROR") /\ UNCHANGED <<stdin, wait>>
    /\ UNCHANGED <<sockets, launched, stdin_open, stdout, stdout_queue, wires,
                   timer_left, start_left>>

\* Fault: the tester writes without waiting.
ExecuteAtOnce ==
    /\ at("execute") /\ wait = NOT_WAITING
    /\ \/ /\ process # "exited"
          /\ stdin' = Append(stdin, stmt.line)
          /\ startSleep(0)
          /\ UNCHANGED script
       \/ process = "exited" /\ raise("ERROR") /\ UNCHANGED <<stdin, wait>>
    /\ UNCHANGED <<sockets, launched, stdin_open, stdout, stdout_queue, wires,
                   timer_left, start_left>>

\* A write to a process that has exited raises BrokenPipeError.
Execute ==
    /\ at("execute") /\ wait = NOT_WAITING
    /\ \/ /\ process # "exited"
          /\ stdin' = Append(stdin, stmt.line)
          /\ startSleep(200)
          /\ UNCHANGED script
       \/ process = "exited" /\ raise("ERROR") /\ UNCHANGED <<stdin, wait>>
    /\ UNCHANGED <<sockets, launched, stdin_open, stdout, stdout_queue, wires,
                   timer_left, start_left>>

Sleep ==
    /\ at("sleep") /\ wait = NOT_WAITING
    /\ startSleep(stmt.ms)
    /\ UNCHANGED <<script, sockets, launched, pipes, wires, timer_left, start_left>>

\* The sleep at the end of setup() or execute(), or of the test case, is over.
Awake ==
    /\ \E op \in {"setup", "execute", "sleep"} : at(op)
    /\ wait = 0
    /\ wait' = NOT_WAITING
    /\ proceed
    /\ UNCHANGED <<sockets, launched, pipes, wires, timer_left, start_left>>

\* The thread of read_stdout.
ReadStdout ==
    /\ stdout # << >>
    /\ stdout' = Tail(stdout)
    /\ stdout_queue' = Append(stdout_queue, Head(stdout))
    /\ UNCHANGED <<script, sockets, launched, stdin, stdin_open, wires, clock>>

isIn(line, output) == \E i \in DOMAIN output : output[i] = line

outputMatches(output) ==
    CASE stmt.how = "has" -> \A i \in DOMAIN stmt.lines : isIn(stmt.lines[i], output)
      [] stmt.how = "adjacent" ->
             \E k \in 0 .. Len(output) : SubSeq(output, k + 1, k + Len(stmt.lines)) = stmt.lines
      [] stmt.how = "is" -> output = stmt.lines
      [] stmt.how = "once" -> Len(SelectSeq(output, LAMBDA x : x = stmt.lines[1])) = 1
      [] stmt.how = "error" -> \E i \in DOMAIN output : output[i][1] = "ERROR"
      [] stmt.how = "some" -> output # << >>

\* get_stdout() empties the queue; the test case then looks at what it returned.
AssertStdout ==
    /\ at("assert_stdout")
    /\ stdout_queue' = << >>
    /\ check(outputMatches(stdout_queue))
    /\ UNCHANGED <<sockets, launched, stdin, stdin_open, stdout, wires, clock>>

SendEof ==
    /\ at("send_eof")
    /\ stdin_open' = FALSE
    /\ proceed
    /\ UNCHANGED <<sockets, launched, stdin, stdout, stdout_queue, wires, clock>>

AssertExited ==
    /\ at("assert_exited")
    /\ check(process = "exited")
    /\ UNCHANGED <<sockets, launched, pipes, wires, clock>>

\* get_return_code(): None before teardown() has stored the code.
AssertReturnCode ==
    /\ at("assert_return_code")
    /\ check(return_code \in stmt.codes)
    /\ UNCHANGED <<sockets, launched, pipes, wires, clock>>

-----------------------------------------------------------------------------
(* Messages.  "items" is what the message is on the wire: a datagram, or     *)
(* pieces of a stream.                                                       *)

\* Without a connection or an address the message is dropped silently.
SendMessage(items) ==
    /\ at("send_message")
    /\ to_client' = IF connection_socket \/ (server_socket # NoSocket /\ client_address)
                    THEN to_client \o items ELSE to_client
    /\ proceed
    /\ UNCHANGED <<sockets, launched, pipes, to_server, clock>>

\* getMessageId, and the datagram b"\x00" + id that confirm() sends.
getMessageId(m) == m.id
confirmation(m) ==
    [type |-> "CONFIRM", id |-> getMessageId(m), ref |-> 0, ok |-> TRUE, valid |-> TRUE,
     from |-> server_socket, name |-> "", text |-> ""]

\* connection_socket.recv(): what has arrived, nothing once the client has closed
\* the connection.  The timeout was set on the other socket, so it may block.
receiveStream ==
    LET arrived == to_server[server_socket]
    IN  /\ arrived # << >> \/ process = "exited"
        /\ received' = Append(received, arrived)
        /\ to_server' = [to_server EXCEPT ![server_socket] = << >>]
        /\ proceed
        /\ UNCHANGED <<client_address, to_client, wait>>

\* server_socket.recvfrom() with the timeout; anything but a CONFIRM is confirmed
\* at once unless the test case has switched that off.
receiveDatagram ==
    LET arrived == to_server[server_socket]
    IN  \/ /\ arrived # << >>
           /\ received' = Append(received, Head(arrived))
           /\ to_server' = [to_server EXCEPT ![server_socket] = Tail(arrived)]
           /\ client_address' = TRUE
           /\ to_client' = IF Head(arrived).type # "CONFIRM" /\ send_confirm
                           THEN Append(to_client, confirmation(Head(arrived))) ELSE to_client
           /\ wait' = NOT_WAITING
           /\ proceed
        \/ /\ arrived = << >> /\ wait = NOT_WAITING
           /\ wait' = stmt.timeout
           /\ UNCHANGED <<script, client_address, received, wires>>
        \/ /\ arrived = << >> /\ wait = 0
           /\ raise("TIMEOUT")
           /\ UNCHANGED <<client_address, received, wires, wait>>

\* recvfrom() on a listening socket raises OSError.
receiveUnconnected ==
    raise("ERROR") /\ UNCHANGED <<client_address, received, wires, wait>>

receiveRest ==
    UNCHANGED <<server_socket, connection_socket, send_confirm, launched, pipes,
                timer_left, start_left>>

AssertMessage(seen) ==
    /\ at("assert_message")
    /\ check(/\ Len(stmt.fields) <= Len(seen)
             /\ SubSeq(seen, 1, Len(stmt.fields)) = stmt.fields)
    /\ UNCHANGED <<sockets, launched, pipes, wires, clock>>

message == received[Len(received)]

AssertSameId ==
    /\ at("assert_same_id")
    /\ check(getMessageId(message) = getMessageId(received[Len(received) - 1]))
    /\ UNCHANGED <<sockets, launched, pipes, wires, clock>>

Confirm ==
    /\ at("confirm")
    /\ to_client' = Append(to_client, confirmation(message))
    /\ proceed
    /\ UNCHANGED <<sockets, launched, pipes, to_server, clock>>

SetSendConfirm ==
    /\ at("set_send_confirm")
    /\ send_confirm' = stmt.value
    /\ proceed
    /\ UNCHANGED <<server_socket, connection_socket, client_address, received,
                   launched, pipes, wires, clock>>

\* The steps that both protocols use and that do not touch the client.
testerStep ==
    \/ StartServer \/ Setup \/ Execute \/ Sleep \/ Awake
    \/ AssertStdout \/ SendEof \/ AssertExited
    \/ Finish
    \/ ReadStdout

-----------------------------------------------------------------------------
(* Time.                                                                     *)

\* Does the program under test still react?
alive == process = "running" /\ ~hung

waitingToReceive ==
    at("receive_message") /\ server_socket # NoSocket /\ to_server[server_socket] = << >>

\* Can the tester or one of its threads do something now?  recv() on the connection
\* does not look at the timeout.
testerReady ==
    \/ stdout # << >>
    \/ verdict # "RUNNING" /\ process # "none"
    \/ verdict = "RUNNING" /\ wait = 0
    \/ /\ verdict = "RUNNING" /\ wait = NOT_WAITING
       /\ waitingToReceive /\ connection_socket => process = "exited"
    \/ verdict = "RUNNING" /\ wait > 0 /\ at("receive_message") /\ ~waitingToReceive

deadlines == {t \in {wait, timer_left, start_left} : t > 0}
nearest == CHOOSE t \in deadlines : \A u \in deadlines : t <= u
after(t) == IF t > 0 THEN t - nearest ELSE t

\* Nobody is ready: time passes to the nearest deadline.
Tick(clientReady) ==
    /\ ~testerReady /\ ~clientReady
    /\ deadlines # {}
    /\ wait' = after(wait) /\ timer_left' = after(timer_left) /\ start_left' = after(start_left)
    /\ UNCHANGED <<script, sockets, launched, pipes, wires>>

-----------------------------------------------------------------------------
(* Properties of every suite.                                                *)

\* Every test case passes, however its threads and the client interleave and
\* whichever sleeps overrun: "All tests pass as well."
AllTestsPass == ~hung => verdict \in {"RUNNING", "PASSED"}

\* A test that passes has read every error the client printed: none is hidden in
\* the queue or in the pipe when the verdict falls.
NoUnreadError ==
    verdict = "PASSED" => \A i \in DOMAIN (stdout_queue \o stdout) :
                              (stdout_queue \o stdout)[i][1] # "ERROR"

\* Every line is read before the next one is written: the buffer behind getline,
\* which epoll does not see, never holds a second line.
OneLineAtATime == Len(stdin) <= 1

finished == verdict # "RUNNING" /\ process = "none"

\* Every test case gets a verdict and the process is gone, whatever the program does:
\* receive_message() raises TimeoutError when nothing arrives in time.  The tests of UDP
\* keep it; those of TCP do not (README.md, tcp_hung_client).
TestsFinish == <>finished

\* What the tests of TCP keep: a test case finishes unless it waits in recv(), without
\* a timeout, for a program that hangs.
FinishesOrBlocks == <>(finished \/ (hung /\ connection_socket /\ waitingToReceive))
=============================================================================
