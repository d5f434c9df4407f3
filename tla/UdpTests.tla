------------------------------ MODULE UdpTests ------------------------------
(***************************************************************************)
(* The UDP test cases of testo.py, run by ExecutableTester against         *)
(* UdpClient over the loopback interface, where nothing is lost and        *)
(* datagrams arrive in order.                                              *)
(*                                                                         *)
(* A test case of this module is the Python function of the same name.     *)
(* Texts are kept as they are written there; a line of output is the tuple *)
(* of its parts, <<"Success", "jojo">> for "Action Success: jojo".         *)
(***************************************************************************)
EXTENDS UdpClient, ExecutableTester

VARIABLES
    content,         \* payload of m_msg_to_server
    tmp_socket       \* the second socket of udp_auth_port_change, a port or NoSocket

testsVars == <<vars, testerVars, content, tmp_socket>>

-----------------------------------------------------------------------------
(* UDPMessages and UDPTranslator.                                            *)

\* ids, flags and payload of a datagram of the server; "ref" and "from" are filled
\* in when it is sent.
serverDatagram(type, id, ok, name, text) ==
    [type |-> type, id |-> id, ref |-> 0, ok |-> ok, valid |-> TRUE, from |-> NoSocket,
     name |-> name, text |-> text]

reply(id, result, text) == serverDatagram("REPLY", id, result, "", text)
msg(id, name, text) == serverDatagram("MSG", id, TRUE, name, text)
err(id, name, text) == serverDatagram("ERR", id, TRUE, name, text)
bye(id, name) == serverDatagram("BYE", id, TRUE, name, "")
ping(id) == serverDatagram("PING", id, TRUE, "", "")

\* b"\x06\x00\x01": a type the protocol does not know.
invalid(id) == serverDatagram("OTHER", id, TRUE, "", "")

\* The text of a message, without its id.
translateMessage(m) == <<m.type, m.name, m.text>>

\* The test cases compare a CONFIRM byte by byte, with its id, and anything else by
\* its translation.
seen(m) == IF m.type = "CONFIRM" THEN <<"CONFIRM", getMessageId(m)>> ELSE translateMessage(m)

-----------------------------------------------------------------------------
(* Test cases.                                                               *)

\* Lines of standard input.
auth(username, secret, name) == [cmd |-> "AUTH", name |-> name, text |-> <<username, secret>>]
join(channel) == [cmd |-> "JOIN", name |-> "", text |-> channel]
rename(name) == [cmd |-> "RENAME", name |-> name, text |-> ""]
say(text) == [cmd |-> "MSG", name |-> "", text |-> text]
help == [cmd |-> "HELP", name |-> "", text |-> ""]
unknownCommand(text) == [cmd |-> "INVALID", name |-> "", text |-> text]

answer(datagram) == <<send_message(<<datagram>>), sleep(200)>>

launch == <<start_server(4567), setup(4567)>>
authAs(name) == <<execute(auth("a", "b", name))>> \o expect(<<"AUTH", name, <<"a", "b">>>>)

auth_and_reply ==
    launch \o authAs("c") \o answer(reply(0, TRUE, "jojo"))
    \o <<stdout_has(<<<<"Success", "jojo">>>>)>> \o expect(<<"CONFIRM", 0>>)

udp_help_command == auth_and_reply \o <<execute(help), sleep(200), stdout_some>>

udp_hello == <<setup(4567), execute(say("Hello")), stdout_error>>

udp_not_auth == launch \o <<execute(unknownCommand("/join")), stdout_error>>

udp_invalid_command == <<setup(4567), execute(unknownCommand("/pepe")), stdout_error>>

udp_auth == launch \o authAs("c")

udp_auth_port == <<start_server(1234), setup(1234)>> \o authAs("c")

udp_auth_nok ==
    launch \o authAs("c") \o answer(reply(0, FALSE, "nene"))
    \o <<stdout_has(<<<<"Failure", "nene">>>>)>> \o expect(<<"CONFIRM", 0>>)

udp_rename_multiple ==
    auth_and_reply
    \o <<execute(rename("user1")), sleep(200), execute(rename("user2")), sleep(200),
         execute(say("message after rename"))>>
    \o expect(<<"MSG", "user2", "message after rename">>)

udp_auth_nok_ok ==
    udp_auth_nok
    \o authAs("c") \o answer(reply(1, TRUE, "yes"))
    \o <<stdout_has(<<<<"Success", "yes">>>>)>> \o expect(<<"CONFIRM", 1>>)

\* The AUTH is confirmed from the port of -p, the REPLY comes from the other one.
udp_auth_port_change ==
    <<[op |-> "tmp_bind", port |-> 1234], start_server(4567), setup(1234),
      execute(auth("a", "b", "c")),
      [op |-> "tmp_recvfrom", timeout |-> 10000], assert_message(<<"AUTH", "c", <<"a", "b">>>>)>>
    \o answer(reply(0, TRUE, "jojo"))
    \o <<stdout_has(<<<<"Success", "jojo">>>>)>> \o expect(<<"CONFIRM", 0>>)

udp_auth_ok == auth_and_reply

udp_msg == auth_and_reply \o <<execute(say("ahojky"))>> \o expect(<<"MSG", "c", "ahojky">>)

udp_svr_msg ==
    auth_and_reply \o answer(msg(1, "smrt", "ahojky"))
    \o <<stdout_has(<<<<"smrt", "ahojky">>>>)>> \o expect(<<"CONFIRM", 1>>)

udp_ping == auth_and_reply \o <<send_message(<<ping(1)>>)>> \o expect(<<"CONFIRM", 1>>)

udp_bye1 == auth_and_reply \o <<send_signal>> \o expect(<<"BYE", "c">>)

udp_bye2 == auth_and_reply \o <<send_eof>> \o expect(<<"BYE", "c">>)

udp_server_bye ==
    auth_and_reply \o answer(bye(1, "c")) \o <<assert_exited>> \o expect(<<"CONFIRM", 1>>)

\* One line of the client and one message of the server with the given id.
exchange(id, line, text) ==
    <<execute(say(line))>> \o expect(<<"MSG", "c", line>>)
    \o answer(msg(id, "server", text))
    \o <<stdout_has(<<<<"server", text>>>>)>> \o expect(<<"CONFIRM", id>>)

udp_send_receive_multiple ==
    auth_and_reply \o exchange(1, "client msg 1", "server msg 1")
    \o exchange(2, "client msg 2", "server msg 2")

\* The same message is received twice, with one id, and then confirmed.
retransmitted(fields) ==
    <<receive_message(1000), assert_message(fields),
      receive_message(3000), assert_message(fields), assert_same_id, confirm>>

udp_retransmit_missing_confirm1 ==
    auth_and_reply
    \o <<set_send_confirm(FALSE), execute(say("test retransmit message"))>>
    \o retransmitted(<<"MSG", "c", "test retransmit message">>)

udp_retransmit_missing_confirm2 ==
    launch \o <<execute(auth("a", "b", "c")), set_send_confirm(FALSE)>>
    \o retransmitted(<<"AUTH", "c", <<"a", "b">>>>)

udp_ignore_duplicate_server_msg ==
    auth_and_reply
    \o answer(msg(1, "server", "duplicate test")) \o answer(msg(1, "server", "duplicate test"))
    \o <<stdout_once(<<"server", "duplicate test">>)>>
    \o expect(<<"CONFIRM", 1>>) \o expect(<<"CONFIRM", 1>>)

udp_server_err1 ==
    launch \o authAs("c") \o <<sleep(200)>> \o answer(err(0, "server", "chyba"))
    \o <<stdout_has(<<<<"ERROR FROM", "server", "chyba">>>>)>> \o expect(<<"CONFIRM", 0>>)

udp_server_err2 ==
    auth_and_reply \o answer(err(1, "server", "chyba"))
    \o <<stdout_has(<<<<"ERROR FROM", "server", "chyba">>>>)>> \o expect(<<"CONFIRM", 1>>)

joinAnswered(result, kind, text) ==
    auth_and_reply
    \o <<execute(rename("user")), execute(join("channel"))>>
    \o expect(<<"JOIN", "user", "channel">>)
    \o answer(reply(1, result, text))
    \o <<stdout_has(<<<<kind, text>>>>)>> \o expect(<<"CONFIRM", 1>>)

udp_join_ok == joinAnswered(TRUE, "Success", "jojo")

udp_join_nok == joinAnswered(FALSE, "Failure", "nene")

udp_multiple_auth == auth_and_reply \o <<execute(auth("d", "e", "f")), sleep(200), stdout_error>>

udp_invalid_msg == auth_and_reply \o answer(invalid(1)) \o <<stdout_error>> \o expect(<<"ERR", "c">>)

udp_auth_err ==
    launch \o authAs("c") \o answer(err(1, "server", "ajaj"))
    \o <<stdout_has(<<<<"ERROR FROM", "server", "ajaj">>>>)>> \o expect(<<"CONFIRM", 1>>)

udp_reports_error_when_missing_confirmation ==
    auth_and_reply
    \o <<set_send_confirm(FALSE), execute(say("Hello!")), sleep(2000), stdout_error>>

udp_reply_5_sec_error_auth ==
    launch \o authAs("c") \o <<sleep(5100), stdout_error>> \o expect(<<"ERR", "c">>)

udp_reply_5_sec_error_join ==
    auth_and_reply \o <<execute(join("abc"))>> \o expect(<<"JOIN", "c", "abc">>)
    \o <<sleep(5100)>> \o expect(<<"ERR", "c">>) \o <<stdout_error>>

\* The test cases with "udp" in their name, in which order they run does not matter.
udp_test_cases ==
    [udp_help_command |-> udp_help_command, udp_hello |-> udp_hello,
     udp_not_auth |-> udp_not_auth, udp_invalid_command |-> udp_invalid_command,
     udp_auth |-> udp_auth, udp_auth_port |-> udp_auth_port, udp_auth_nok |-> udp_auth_nok,
     udp_rename_multiple |-> udp_rename_multiple, udp_auth_nok_ok |-> udp_auth_nok_ok,
     udp_auth_port_change |-> udp_auth_port_change, udp_auth_ok |-> udp_auth_ok,
     udp_msg |-> udp_msg, udp_svr_msg |-> udp_svr_msg, udp_ping |-> udp_ping,
     udp_bye1 |-> udp_bye1, udp_bye2 |-> udp_bye2, udp_server_bye |-> udp_server_bye,
     udp_send_receive_multiple |-> udp_send_receive_multiple,
     udp_retransmit_missing_confirm1 |-> udp_retransmit_missing_confirm1,
     udp_retransmit_missing_confirm2 |-> udp_retransmit_missing_confirm2,
     udp_ignore_duplicate_server_msg |-> udp_ignore_duplicate_server_msg,
     udp_server_err1 |-> udp_server_err1, udp_server_err2 |-> udp_server_err2,
     udp_join_ok |-> udp_join_ok, udp_join_nok |-> udp_join_nok,
     udp_multiple_auth |-> udp_multiple_auth, udp_invalid_msg |-> udp_invalid_msg,
     udp_auth_err |-> udp_auth_err,
     udp_reports_error_when_missing_confirmation |-> udp_reports_error_when_missing_confirmation,
     udp_reply_5_sec_error_auth |-> udp_reply_5_sec_error_auth,
     udp_reply_5_sec_error_join |-> udp_reply_5_sec_error_join]

\* The test cases of the command line.  None, the value of a code that nobody has
\* asked for, is not 0 either.
nonZero == {NoCode, EXIT_FAILURE, SIGTERM, SIGSEGV}

no_args == <<setup(0), assert_return_code(nonZero)>>
no_type_arg == <<setup(4567), assert_return_code(nonZero)>>
no_hostname == <<setup(0), assert_return_code(nonZero)>>
all_args == <<setup(4567), send_eof, assert_return_code({NoCode})>>

arg_test_cases ==
    [no_args |-> no_args, no_type_arg |-> no_type_arg, no_hostname |-> no_hostname,
     all_args |-> all_args]

-----------------------------------------------------------------------------
(* The client as a process of the tester.                                    *)

\* Ports of the tester and addresses of the client: SERVER_ADDR is the one of -p.
addrOf(port) == IF port = args_port THEN SERVER_ADDR ELSE port
portOf(addr) == IF addr = SERVER_ADDR THEN args_port ELSE addr

bound(port) == port \in {server_socket, tmp_socket}

\* What the last step transmitted reaches the socket that is bound to the port.
transmit ==
    LET port == portOf(sent'.to)
        packet == [type |-> sent'.type, id |-> sent'.id, name |-> sent'.name, text |-> content']
    IN  to_server' = IF /\ sent'.type # "NONE" /\ bound(port)
                        /\ Len(to_server[port]) < QUEUE_LIMIT
                     THEN [to_server EXCEPT ![port] = Append(@, packet)]
                     ELSE to_server

\* timerfd_settime starts the time anew; every message that is built or repeated
\* does that, and so does the wait for a REPLY.
trackTimer ==
    timer_left' = IF timer' = 0 THEN 0
                  ELSE IF timer' # timer \/ outgoing' # outgoing THEN timer'
                  ELSE timer_left

\* The part of a step of the client that the tester can observe.
observed(lines) ==
    /\ transmit
    /\ trackTimer
    /\ stdout' = stdout \o lines
    /\ process' = IF status' = CONTINUE THEN process ELSE "exited"
    /\ UNCHANGED <<script, sockets, args_port, return_code, stdin_open, stdout_queue,
                   wait, start_left, tmp_socket>>

\* main() and the constructors: UDP and port 4567 are the defaults, without -s the
\* program faults (see Args).
clientStarts ==
    /\ process = "starting" /\ start_left = 0
    /\ \/ args_port # 0 /\ process' = "running" /\ UNCHANGED status
       \/ args_port = 0 /\ process' = "exited" /\ status' = SIGSEGV
    /\ UNCHANGED <<script, sockets, args_port, return_code, pipes, wires, clock,
                   sent, displayed, members, content, tmp_socket>>

\* Fault: a datagram that shows nothing is reported as an error.
printedForNothing(d) ==
    IF d.type = "ERR" THEN <<<<"ERROR FROM", d.name, d.text>>>>
    ELSE IF sent'.type = "ERR" \/ displayed' = displayed THEN <<<<"ERROR">>>>
    ELSE IF d.type = "REPLY" THEN <<<<IF d.ok THEN "Success" ELSE "Failure", d.text>>>>
    ELSE <<<<d.name, d.text>>>>

\* outputIncomingReply, outputIncomingMsg, printErrFromServer, printErrMsg
printedFor(d) ==
    IF d.type = "ERR" THEN <<<<"ERROR FROM", d.name, d.text>>>>
    ELSE IF sent'.type = "ERR" THEN <<<<"ERROR">>>>
    ELSE IF displayed' = displayed THEN << >>
    ELSE IF d.type = "REPLY" THEN <<<<IF d.ok THEN "Success" ELSE "Failure", d.text>>>>
    ELSE <<<<d.name, d.text>>>>

clientReceives ==
    /\ alive /\ to_client # << >>
    /\ LET d == [Head(to_client) EXCEPT !.from = addrOf(@)]
       IN  /\ processSocketEvent(d)
           /\ content' = IF sent'.type = "ERR" THEN "" ELSE content
           /\ observed(printedFor(d))
    /\ to_client' = Tail(to_client)
    /\ UNCHANGED stdin

\* A failed exchange is reported by sendErrMsg or, with the exception, by main().
clientTimer ==
    /\ alive /\ timer_left = 0
    /\ processTimerEvent
    /\ content' = IF m_msg_to_server' # m_msg_to_server THEN "" ELSE content
    /\ observed(IF status' # CONTINUE \/ m_msg_to_server' # m_msg_to_server
                THEN <<<<"ERROR">>>> ELSE << >>)
    /\ UNCHANGED <<stdin, to_client>>

refused == noEffect /\ UNCHANGED content /\ observed(<<<<"ERROR">>>>)

\* parseUserInput and processStdinEvent on one line.
processLine(line) ==
    \/ /\ line.cmd \in {"AUTH", "JOIN", "MSG"} /\ canSendMessageType(line.cmd)
       /\ userRequest(line.cmd, IF line.cmd = "AUTH" THEN line.name ELSE m_user_display_name)
       /\ content' = line.text
       /\ observed(<< >>)
    \/ line.cmd \in {"AUTH", "JOIN", "MSG"} /\ ~canSendMessageType(line.cmd) /\ refused
    \/ line.cmd = "RENAME" /\ userRename(line.name) /\ UNCHANGED content /\ observed(<< >>)
    \/ line.cmd = "RENAME" /\ m_current_state = "S_JOIN" /\ refused
    \/ line.cmd = "HELP" /\ noEffect /\ UNCHANGED content /\ observed(<<<<"Supported commands">>>>)
    \/ line.cmd = "INVALID" /\ refused

\* A pipe that was closed is reported as a hang-up, whatever it still holds.
clientReadsLine ==
    /\ alive /\ stdin_open /\ stdin_enabled /\ stdin # << >>
    /\ processLine(Head(stdin))
    /\ stdin' = Tail(stdin)
    /\ UNCHANGED to_client

clientHangup ==
    /\ alive /\ ~stdin_open
    /\ processStdinHangup
    /\ content' = ""
    /\ observed(<< >>)
    /\ UNCHANGED <<stdin, to_client>>

clientReady ==
    \/ process = "starting" /\ start_left = 0
    \/ alive /\ (to_client # << >> \/ ~stdin_open \/ (timer > 0 /\ timer_left = 0))
    \/ alive /\ stdin_enabled /\ stdin # << >>

-----------------------------------------------------------------------------
(* The tester.                                                               *)

\* The handler of SIGINT is installed by the constructor: before that the signal
\* kills the process.
SendSignal ==
    /\ at("send_signal")
    /\ proceed
    /\ \/ /\ alive /\ sigintHandler /\ content' = ""
          /\ transmit /\ trackTimer /\ UNCHANGED process
       \/ /\ process = "starting" /\ process' = "exited"
          /\ UNCHANGED <<vars, content, to_server, timer_left>>
       \/ /\ process # "starting" /\ ~alive
          /\ UNCHANGED <<vars, content, to_server, timer_left, process>>
    /\ UNCHANGED <<sockets, args_port, return_code, pipes, to_client, wait, start_left, tmp_socket, hung>>

\* A REPLY refers to the message received last; a datagram comes from server_socket.
onTheWire(items) ==
    [i \in DOMAIN items |->
        [items[i] EXCEPT !.from = server_socket,
                         !.ref = IF items[i].type = "REPLY" THEN getMessageId(message) ELSE 0]]

ReceiveMessage == at("receive_message") /\ receiveDatagram /\ receiveRest

TmpBind ==
    /\ at("tmp_bind")
    /\ tmp_socket' = stmt.port
    /\ proceed
    /\ UNCHANGED <<sockets, launched, pipes, wires, clock>>

\* recvfrom with a timeout of its own, whose exception is no TimeoutError of testo.py;
\* sendto and setClientAddress.
TmpReceive ==
    /\ at("tmp_recvfrom")
    /\ \/ /\ to_server[tmp_socket] # << >>
          /\ LET packet == Head(to_server[tmp_socket])
             IN  /\ received' = Append(received, packet)
                 /\ to_client' = Append(to_client, [confirmation(packet) EXCEPT !.from = tmp_socket])
          /\ to_server' = [to_server EXCEPT ![tmp_socket] = Tail(@)]
          /\ client_address' = TRUE
          /\ wait' = NOT_WAITING
          /\ proceed
       \/ /\ to_server[tmp_socket] = << >> /\ wait = NOT_WAITING
          /\ wait' = stmt.timeout
          /\ UNCHANGED <<script, client_address, received, wires>>
       \/ /\ to_server[tmp_socket] = << >> /\ wait = 0
          /\ raise("ERROR")
          /\ UNCHANGED <<client_address, received, wires, wait>>
    /\ receiveRest
    /\ UNCHANGED tmp_socket

tmpReady == at("tmp_recvfrom") /\ wait > 0 /\ to_server[tmp_socket] # << >>

testerActs ==
    \/ testerStep /\ UNCHANGED tmp_socket
    \/ Teardown(status) /\ UNCHANGED tmp_socket
    \/ at("send_message") /\ SendMessage(onTheWire(stmt.items)) /\ UNCHANGED tmp_socket
    \/ ReceiveMessage /\ UNCHANGED tmp_socket
    \/ at("assert_message") /\ AssertMessage(seen(message)) /\ UNCHANGED tmp_socket
    \/ AssertSameId /\ UNCHANGED tmp_socket
    \/ Confirm /\ UNCHANGED tmp_socket
    \/ SetSendConfirm /\ UNCHANGED tmp_socket
    \/ AssertReturnCode /\ UNCHANGED tmp_socket
    \/ TmpBind
    \/ TmpReceive

clientActs ==
    /\ clientStarts \/ clientReceives \/ clientTimer \/ clientReadsLine \/ clientHangup
    /\ UNCHANGED hung

timePasses == Tick(clientReady \/ tmpReady) /\ UNCHANGED <<vars, content, tmp_socket, hung>>

TestsInit == Init /\ TesterInit /\ content = "" /\ tmp_socket = NoSocket

TestsNext ==
    \/ testerActs /\ UNCHANGED <<vars, content, hung>>
    \/ SendSignal
    \/ clientActs
    \/ timePasses

\* The interpreter, its threads and the client are all scheduled, and time passes.
TestsSpec ==
    /\ TestsInit /\ [][TestsNext]_testsVars
    /\ WF_testsVars(testerActs /\ UNCHANGED <<vars, content, hung>>)
    /\ WF_testsVars(SendSignal)
    /\ WF_testsVars(clientActs)
    /\ WF_testsVars(timePasses)

-----------------------------------------------------------------------------
(* Properties.                                                               *)

\* execute() and the reaction of the tester stay within the confirmation timeout of
\* the client: nothing is retransmitted unless the test withholds the CONFIRM.
ConfirmedInTime == copies > 1 => ~send_confirm \/ verdict # "RUNNING"

\* A test case that asks for an exit code passes only after it has seen one:
\* "Test that the program exits with a non-zero exit code when no arguments are provided".
\* The code does not keep it (README.md, arg_tests).
JudgedByExitCode ==
    test \in {"no_args", "no_type_arg", "no_hostname"} /\ verdict = "PASSED" => return_code # NoCode
=============================================================================
