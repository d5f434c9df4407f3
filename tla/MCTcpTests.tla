----------------------------- MODULE MCTcpTests -----------------------------
(* The TCP test cases of testo.py and the script of test-tcp-stream.py.      *)
EXTENDS TcpTests, TLC

MCNames == {"unknown"}

MCTests == tcp_test_cases @@ [test_tcp_stream |-> test_tcp_stream]
=============================================================================
