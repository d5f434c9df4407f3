------------------------------ MODULE TcpTests ------------------------------
(***************************************************************************)
(* The TCP test cases of testo.py, run by ExecutableTester against         *)
(* TcpStream over the loopback interface, and the script                   *)
(* src/python-scripts/test-tcp-stream.py.                                  *)
(*                                                                         *)
(* A test case of this module is the Python function of the same name.     *)
(* Texts are kept as they are written there, but the error texts of the    *)
(* client, which are the atoms of TcpClient.  A message that is sent in    *)
(* one piece has one byte, one that is sent in n pieces has n; the lengths *)
(* around the limit are counted from s_MAX_MSG_SIZE.                       *)
(***************************************************************************)
EXTENDS TcpStream, ExecutableTester

testsVars == <<streamVars, testerVars>>

-----------------------------------------------------------------------------
(* The messages of the test cases.  The keywords are case insensitive, so    *)
(* "RepLy Nok iS" is a REPLY like any other.                                 *)

serverMessage(type, ok, name, text) ==
    [type |-> type, ok |-> ok, valid |-> type # "UNKNOWN", name |-> name, text |-> text]

reply(ok, text) == serverMessage("REPLY", ok, "", text)
msg(name, text) == serverMessage("MSG", TRUE, name, text)
err(name, text) == serverMessage("ERR", TRUE, name, text)
bye(name) == serverMessage("BYE", TRUE, name, "")
garbage == serverMessage("UNKNOWN", TRUE, "", "")

\* A piece of a message without and with its end, and a message of n bytes.
part(m) == <<[msg |-> m, last |-> FALSE]>>
end(m) == <<[msg |-> m, last |-> TRUE]>>
long(n) == [i \in 1 .. n |-> [msg |-> garbage, last |-> i = n]]
longWithoutEnd(n) == [i \in 1 .. n |-> [msg |-> garbage, last |-> FALSE]]

send(pieces) == <<send_message(pieces), sleep(200)>>
answer(m) == send(end(m))

\* message == "...": exactly one whole message was received.
seen(arrived) ==
    IF Len(arrived) = 1 THEN <<arrived[1].type, arrived[1].name, arrived[1].text>> ELSE << >>

-----------------------------------------------------------------------------
(* Test cases.                                                               *)

\* Lines of standard input.
auth(username, secret, name) == [cmd |-> "AUTH", name |-> name, text |-> <<username, secret>>]
join(channel) == [cmd |-> "JOIN", name |-> "", text |-> channel]
rename(name) == [cmd |-> "RENAME", name |-> name, text |-> ""]
say(text) == [cmd |-> "MSG", name |-> "", text |-> text]
help == [cmd |-> "HELP", name |-> "", text |-> ""]
unknownCommand(text) == [cmd |-> "INVALID", name |-> "", text |-> text]

launch == <<start_server(4567), setup(4567)>>
authAs(user, secret, name) ==
    <<execute(auth(user, secret, name))>> \o expect(<<"AUTH", name, <<user, secret>>>>)
authAsC == launch \o authAs("a", "b", "c")

Success(text) == <<stdout_has(<<<<"Success", text>>>>)>>
Failure(text) == <<stdout_has(<<<<"Failure", text>>>>)>>
shown(name, text) == <<stdout_has(<<<<name, text>>>>)>>

tcp_auth_and_reply == authAsC \o answer(reply(TRUE, "vsechno cajk")) \o Success("vsechno cajk")

tcp_sigint == tcp_auth_and_reply \o <<send_signal>> \o expect(<<"BYE", "c">>)

tcp_sigint_and_bye == launch \o <<send_signal>> \o expect(<<"BYE", "unknown">>)

tcp_server_bye == tcp_auth_and_reply \o answer(bye("server")) \o <<assert_exited>>

tcp_rename ==
    tcp_auth_and_reply
    \o <<execute(rename("user1")), sleep(200), execute(say("message after rename"))>>
    \o expect(<<"MSG", "user1", "message after rename">>)

tcp_rename_multiple ==
    tcp_auth_and_reply
    \o <<execute(rename("user1")), sleep(200), execute(rename("user2")), sleep(200),
         execute(say("message after rename"))>>
    \o expect(<<"MSG", "user2", "message after rename">>)

tcp_help_command == tcp_auth_and_reply \o <<execute(help), sleep(1000), stdout_some>>

exchange(line, text) ==
    <<execute(say(line))>> \o expect(<<"MSG", "c", line>>)
    \o answer(msg("server", text)) \o shown("server", text)

tcp_send_receive_multiple ==
    tcp_auth_and_reply \o exchange("client msg 1", "server msg 1")
    \o exchange("client msg 2", "server msg 2")

tcp_multiple_messages_single_segment ==
    tcp_auth_and_reply
    \o <<send_message(end(msg("server1", "msg1")) \o end(msg("server2", "msg2"))), sleep(1000),
         stdout_has(<<<<"server1", "msg1">>, <<"server2", "msg2">>>>)>>

tcp_single_message_multiple_segments2 ==
    LET m == msg("server", "okeyBroChill")
    IN  tcp_auth_and_reply
        \o send(part(m)) \o send(part(m)) \o send(part(m)) \o send(part(m)) \o send(part(m))
        \o send(part(m)) \o send(end(m)) \o shown("server", "okeyBroChill")

tcp_single_message_multiple_segments ==
    LET m == msg("server", "part1part2")
    IN  tcp_auth_and_reply \o send(part(m)) \o send(end(m)) \o shown("server", "part1part2")

tcp_receive_two_messages_within_3_segments ==
    LET m1 == msg("teSter", "message1")
        m2 == msg("teSte", "message2")
    IN  tcp_auth_and_reply \o send(part(m1)) \o send(end(m1) \o part(m2)) \o send(end(m2))
        \o <<stdout_adjacent(<<<<"teSter", "message1">>, <<"teSte", "message2">>>>)>>

tcp_hello == launch \o <<execute(say("Hello")), stdout_error>>

tcp_not_auth == launch \o <<execute(unknownCommand("/join")), stdout_error>>

tcp_invalid_command == launch \o <<execute(unknownCommand("/pepe")), stdout_error>>

tcp_auth == authAsC

\* Defined twice; both functions are registered and run.
tcp_auth_ok == authAsC \o answer(reply(TRUE, "vsechno cajk")) \o Success("vsechno cajk")
tcp_auth_ok_again == tcp_auth_and_reply

tcp_auth_nok == authAsC \o answer(reply(FALSE, "nic cajk")) \o Failure("nic cajk")

tcp_auth_port == <<start_server(4321), setup(4321)>> \o authAs("a", "b", "c")

tcp_auth_nok_ok ==
    tcp_auth_nok \o authAs("d", "e", "f")
    \o answer(reply(TRUE, "vsechno cajk")) \o Success("vsechno cajk")

tcp_msg == tcp_auth_and_reply \o <<execute(say("ahojky"))>> \o expect(<<"MSG", "c", "ahojky">>)

tcp_svr_msg ==
    tcp_auth_and_reply \o answer(msg("SeverusSnape", "ahojky")) \o shown("SeverusSnape", "ahojky")

tcp_bye == tcp_auth_and_reply \o <<send_eof>> \o expect(<<"BYE", "c">>)

tcp_bye_in_auth == launch \o <<send_eof>> \o expect(<<"BYE", "unknown">>)

\* The ERR is sent without a look at the AUTH.
errShown(name, text) ==
    <<send_message(end(err(name, text))), sleep(400),
      stdout_has(<<<<"ERROR FROM", name, text>>>>)>>

tcp_server_err1 == launch \o <<execute(auth("a", "b", "c"))>> \o errShown("jetovp", "rdeli")

tcp_server_err2 == tcp_auth_and_reply \o errShown("chuj", "bobr")

joinAsUser ==
    tcp_auth_and_reply \o <<execute(rename("user")), execute(join("channel"))>>
    \o expect(<<"JOIN", "user", "channel">>)

tcp_join_ok ==
    joinAsUser \o answer(reply(TRUE, "takjo brasko ale bud hodnej"))
    \o Success("takjo brasko ale bud hodnej")

tcp_join_nok == joinAsUser \o answer(reply(FALSE, "minus boiiii")) \o Failure("minus boiiii")

tcp_multiple_auth ==
    tcp_auth_and_reply \o <<execute(auth("d", "e", "f")), sleep(200), stdout_error>>

\* Two receives, of which the second finds the connection closed.
tcp_invalid_msg ==
    tcp_auth_and_reply \o answer(garbage)
    \o <<stdout_error, receive_message(500), receive_message(500),
         [op |-> "assert_received", fields |-> <<"ERR", "c">>], send_eof, sleep(200)>>

tcp_auth_err ==
    authAsC \o answer(err("server", "ajaj"))
    \o <<stdout_has(<<<<"ERROR FROM", "server", "ajaj">>>>)>>

\* The error is printed and sent.
reported(name, text) ==
    <<stdout_has(<<<<"ERROR", text>>>>)>> \o expect(<<"ERR", name, text>>)

tcp_too_long_msg_minus_one ==
    launch \o send(long(s_MAX_MSG_SIZE)) \o reported("unknown", "unknown type")

tcp_too_long_server_msg ==
    launch \o send(long(s_MAX_MSG_SIZE + 1)) \o reported("unknown", "too long")

tcp_too_long_server_msg_plus_one ==
    launch \o send(long(s_MAX_MSG_SIZE + 2)) \o reported("unknown", "too long")

tcp_too_long_server_msg_plus_one_without_end ==
    launch \o send(longWithoutEnd(s_MAX_MSG_SIZE + 1)) \o reported("unknown", "too long")

tcp_auth_reply_timeout == authAsC \o <<sleep(5200)>> \o reported("c", "reply timeout")

\* Authenticated with another text, and the JOIN that follows.
welcomed(text) == authAsC \o answer(reply(TRUE, text)) \o Success(text)
joins(channel) == <<execute(join(channel))>> \o expect(<<"JOIN", "c", channel>>)

tcp_join_reply_timeout ==
    welcomed("takjo brasko ale bud hodnej") \o joins("abc1")
    \o <<sleep(5100)>> \o expect(<<"ERR", "c", "reply timeout">>)
    \o <<stdout_has(<<<<"ERROR", "reply timeout">>>>)>>

refusedWithErr(m) ==
    launch \o answer(m) \o expect(<<"ERR", "unknown", "unknown type">>)
    \o <<stdout_has(<<<<"ERROR", "unknown type">>>>)>>

tcp_invalid_message_type == refusedWithErr(garbage)

\* JOIN is not a type that servers send.
tcp_unexpected_message_type == refusedWithErr(garbage)

late == "something wrong has happened."
refusedLate == answer(reply(FALSE, late)) \o Failure(late)

tcp_auth_reply_delay == authAsC \o <<sleep(4200)>> \o refusedLate

tcp_join_reply_delay ==
    welcomed("takjo brasko ale bud hodnej") \o <<execute(join("abc1")), sleep(4700)>> \o refusedLate

tcp_processing_server_messages_while_joining ==
    welcomed("takjo brasko ale bud hodnej")
    \o <<execute(join("abc1")),
         send_message(end(msg("server1", "msg from server 1."))),
         send_message(end(msg("server2", "msg from server 2."))), sleep(2500),
         send_message(end(msg("server3", "msg from server 3."))), sleep(1800)>>
    \o answer(reply(TRUE, "something is something :))))."))
    \o <<stdout_is(<<<<"server1", "msg from server 1.">>, <<"server2", "msg from server 2.">>,
                     <<"server3", "msg from server 3.">>,
                     <<"Success", "something is something :)))).">>>>)>>

kawasaki ==
    answer(msg("user1234", "elchin krasavs kawasaki")) \o shown("user1234", "elchin krasavs kawasaki")

tcp_all_good_after_auth_reply_delay ==
    authAsC \o <<sleep(4200)>> \o refusedLate \o <<sleep(6000)>>
    \o authAs("x", "y", "z") \o answer(reply(TRUE, "allright")) \o Success("allright") \o kawasaki

tcp_all_good_after_join_reply_delay ==
    welcomed(late) \o joins("someshi") \o <<sleep(4200)>> \o refusedLate \o <<sleep(6000)>> \o kawasaki

tcp_grammar_is_case_insensitive ==
    authAsC \o answer(reply(TRUE, "authenticated")) \o Success("authenticated")
    \o answer(msg("teSter", "message")) \o shown("teSter", "message")
    \o answer(err("teSter", "message"))
    \o <<stdout_has(<<<<"ERROR FROM", "teSter", "message">>>>)>>

\* The test cases with "tcp" in their name.
tcp_test_cases ==
    [tcp_sigint |-> tcp_sigint, tcp_sigint_and_bye |-> tcp_sigint_and_bye,
     tcp_server_bye |-> tcp_server_bye, tcp_rename |-> tcp_rename,
     tcp_rename_multiple |-> tcp_rename_multiple, tcp_help_command |-> tcp_help_command,
     tcp_send_receive_multiple |-> tcp_send_receive_multiple,
     tcp_multiple_messages_single_segment |-> tcp_multiple_messages_single_segment,
     tcp_single_message_multiple_segments2 |-> tcp_single_message_multiple_segments2,
     tcp_single_message_multiple_segments |-> tcp_single_message_multiple_segments,
     tcp_receive_two_messages_within_3_segments |-> tcp_receive_two_messages_within_3_segments,
     tcp_hello |-> tcp_hello, tcp_not_auth |-> tcp_not_auth,
     tcp_invalid_command |-> tcp_invalid_command, tcp_auth |-> tcp_auth,
     tcp_auth_ok |-> tcp_auth_ok, tcp_auth_ok_again |-> tcp_auth_ok_again,
     tcp_auth_nok |-> tcp_auth_nok, tcp_auth_port |-> tcp_auth_port,
     tcp_auth_nok_ok |-> tcp_auth_nok_ok, tcp_msg |-> tcp_msg, tcp_svr_msg |-> tcp_svr_msg,
     tcp_bye |-> tcp_bye, tcp_bye_in_auth |-> tcp_bye_in_auth,
     tcp_server_err1 |-> tcp_server_err1, tcp_server_err2 |-> tcp_server_err2,
     tcp_join_ok |-> tcp_join_ok, tcp_join_nok |-> tcp_join_nok,
     tcp_multiple_auth |-> tcp_multiple_auth, tcp_invalid_msg |-> tcp_invalid_msg,
     tcp_auth_err |-> tcp_auth_err,
     tcp_too_long_msg_minus_one |-> tcp_too_long_msg_minus_one,
     tcp_too_long_server_msg |-> tcp_too_long_server_msg,
     tcp_too_long_server_msg_plus_one |-> tcp_too_long_server_msg_plus_one,
     tcp_too_long_server_msg_plus_one_without_end |-> tcp_too_long_server_msg_plus_one_without_end,
     tcp_auth_reply_timeout |-> tcp_auth_reply_timeout,
     tcp_join_reply_timeout |-> tcp_join_reply_timeout,
     tcp_invalid_message_type |-> tcp_invalid_message_type,
     tcp_unexpected_message_type |-> tcp_unexpected_message_type,
     tcp_auth_reply_delay |-> tcp_auth_reply_delay, tcp_join_reply_delay |-> tcp_join_reply_delay,
     tcp_processing_server_messages_while_joining |-> tcp_processing_server_messages_while_joining,
     tcp_all_good_after_auth_reply_delay |-> tcp_all_good_after_auth_reply_delay,
     tcp_all_good_after_join_reply_delay |-> tcp_all_good_after_join_reply_delay,
     tcp_grammar_is_case_insensitive |-> tcp_grammar_is_case_insensitive]

\* test-tcp-stream.py: the pieces of the stream, each sent when Enter is pressed, to
\* a client whose user has typed /auth.  The asserts at the end are what the person at
\* the terminal looks for.
test_tcp_stream ==
    LET ok == reply(TRUE, "oK")
        m(n) == msg(n, n)
    IN  launch \o <<execute(auth("a", "b", "c"))>>
        \o send(part(ok)) \o send(end(ok))
        \o send(end(m("2")) \o end(m("3")) \o end(m("4")))
        \o send(end(m("5")) \o end(m("6")) \o part(m("7"))) \o send(end(m("7")))
        \o send(part(m("8"))) \o send(end(m("8"))) \o answer(bye("xd"))
        \o <<stdout_is(<<<<"Success", "oK">>, <<"2", "2">>, <<"3", "3">>, <<"4", "4">>,
                         <<"5", "5">>, <<"6", "6">>, <<"7", "7">>, <<"8", "8">>>>),
             assert_exited>>

-----------------------------------------------------------------------------
(* The client as a process of the tester.                                    *)

lineSent(m) == IF m.type = "NONE" THEN << >> ELSE <<m>>
linePrinted(line) == IF line = NoOutput THEN << >> ELSE <<line>>

\* What the tester can observe of a handler that has run ("acted"), or of a step that
\* only moved bytes.
observed(acted) ==
    /\ to_server' = IF acted THEN [to_server EXCEPT ![args_port] = @ \o lineSent(sent')]
                             ELSE to_server
    /\ stdout' = IF acted THEN stdout \o linePrinted(printed') ELSE stdout
    /\ timer_left' = IF timer' = 0 THEN 0 ELSE IF timer = 0 THEN timer' ELSE timer_left
    /\ process' = IF status' = CONTINUE THEN process ELSE "exited"
    /\ UNCHANGED <<script, sockets, args_port, return_code, stdin_open, stdout_queue,
                   wait, start_left>>

\* main() and the constructors: the tester listens before it starts the client.
clientStarts ==
    /\ process = "starting" /\ start_left = 0
    /\ process' = "running"
    /\ UNCHANGED <<streamVars, script, sockets, args_port, return_code, pipes, wires, clock>>

\* recv() returns what has arrived, or a part of it.
clientReceives ==
    /\ alive /\ to_client # << >>
    /\ \E n \in 1 .. Len(to_client) :
           /\ receiveSegment(SubSeq(to_client, 1, n))
           /\ to_client' = SubSeq(to_client, n + 1, Len(to_client))
    /\ observed(FALSE)
    /\ UNCHANGED stdin

clientHandles ==
    /\ alive
    /\ \/ processFirstMessage /\ observed(TRUE)
       \/ keepRest /\ observed(status' # CONTINUE)
    /\ UNCHANGED <<stdin, to_client>>

clientTimer ==
    /\ alive /\ timer_left = 0
    /\ betweenHandlers(processTimerEvent)
    /\ observed(TRUE)
    /\ UNCHANGED <<stdin, to_client>>

\* parseUserInput and processStdinEvent on one line.
processLine(line) ==
    \/ /\ line.cmd \in {"AUTH", "JOIN", "MSG"}
       /\ userRequest(line.cmd, IF line.cmd = "AUTH" THEN line.name ELSE m_user_display_name, line.text)
    \/ line.cmd \in {"AUTH", "JOIN", "MSG"} /\ ~canSendMessageType(line.cmd) /\ userRefused
    \/ line.cmd = "RENAME" /\ userRename(line.name)
    \/ line.cmd = "RENAME" /\ m_current_state = "S_JOIN" /\ userRefused
    \/ line.cmd = "HELP" /\ userHelp
    \/ line.cmd = "INVALID" /\ userRefused

\* A pipe that was closed is reported as a hang-up, whatever it still holds.
clientReadsLine ==
    /\ alive /\ status = CONTINUE /\ stdin_open /\ stdin_enabled /\ stdin # << >>
    /\ betweenHandlers(processLine(Head(stdin)))
    /\ observed(TRUE)
    /\ stdin' = Tail(stdin)
    /\ UNCHANGED to_client

clientHangup ==
    /\ alive /\ ~stdin_open
    /\ betweenHandlers(processStdinHangup)
    /\ observed(TRUE)
    /\ UNCHANGED <<stdin, to_client>>

clientReady ==
    \/ process = "starting" /\ start_left = 0
    \/ inBacklog
    \/ alive /\ (in_handler \/ to_client # << >> \/ ~stdin_open \/ (timer > 0 /\ timer_left = 0))
    \/ alive /\ stdin_enabled /\ stdin # << >>

-----------------------------------------------------------------------------
(* The tester.                                                               *)

\* SIGINT: handled by the client, fatal before its constructor has run, or lost.
SendSignal ==
    /\ at("send_signal")
    /\ step' = step + 1
    /\ \/ /\ alive /\ sigintHandler
          /\ to_server' = [to_server EXCEPT ![args_port] = @ \o lineSent(sent')]
          /\ timer_left' = 0 /\ process' = "exited"
       \/ /\ process = "starting" /\ process' = "exited"
          /\ UNCHANGED <<vars, to_server, timer_left>>
       \/ /\ process # "starting" /\ ~alive
          /\ UNCHANGED <<vars, to_server, timer_left, process>>
    /\ UNCHANGED <<buffer, test, verdict, sockets, args_port, return_code, pipes, to_client,
                   wait, start_left, hung>>

\* Before the connection is accepted the tester takes the listening socket for one
\* of UDP.
ReceiveMessage ==
    /\ at("receive_message")
    /\ \/ connection_socket /\ receiveStream
       \/ ~connection_socket /\ receiveUnconnected
    /\ receiveRest

\* re.search() in what the two receives have returned together.
AssertReceived ==
    /\ at("assert_received")
    /\ LET both == received[Len(received) - 1] \o message
       IN  check(\E i \in DOMAIN both : <<both[i].type, both[i].name>> = stmt.fields)
    /\ UNCHANGED <<sockets, launched, pipes, wires, clock>>

testerActs ==
    \/ testerStep
    \/ AcceptConnection
    \/ Teardown(status)
    \/ at("send_message") /\ SendMessage(stmt.items)
    \/ ReceiveMessage
    \/ at("assert_message") /\ AssertMessage(seen(message))
    \/ AssertReceived

clientActs ==
    /\ \/ clientStarts \/ clientReceives \/ clientHandles
       \/ clientTimer \/ clientReadsLine \/ clientHangup
    /\ UNCHANGED hung

timePasses == Tick(clientReady) /\ UNCHANGED <<streamVars, hung>>

TestsInit == StreamInit /\ TesterInit

TestsNext ==
    \/ testerActs /\ UNCHANGED <<streamVars, hung>>
    \/ SendSignal
    \/ clientActs
    \/ timePasses

\* The interpreter, its threads and the client are all scheduled, and time passes.
TestsSpec ==
    /\ TestsInit /\ [][TestsNext]_testsVars
    /\ WF_testsVars(testerActs /\ UNCHANGED <<streamVars, hung>>)
    /\ WF_testsVars(SendSignal)
    /\ WF_testsVars(clientActs)
    /\ WF_testsVars(timePasses)
=============================================================================
