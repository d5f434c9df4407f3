----------------------------- MODULE MCUdpTests -----------------------------
(* The UDP test cases of testo.py with the addresses and names they use.     *)
EXTENDS UdpTests, TLC

CONSTANT given

MCAddrs == {given} \cup Ports
MCNames == {"unknown", "c", "f", "user", "user1", "user2"}

\* With the test cases of the command line, which no protocol selects.
MCAllTests == udp_test_cases @@ arg_test_cases
=============================================================================
