---------------------------- MODULE MCTestRunner ----------------------------
(* One test case of UDP and of the command line, and a name defined twice.   *)
EXTENDS TestRunner

MCFunctions ==
    <<[name |-> "no_args", words |-> {}], [name |-> "udp_auth", words |-> {"udp"}],
      [name |-> "tcp_auth_ok", words |-> {"tcp"}], [name |-> "tcp_auth_ok", words |-> {"tcp"}]>>

MCWords ==
    {"-h", "-d", "-t", "-p", "udp", "UDP", "tcp", "TCP", "no_args", "udp_auth", "tcp_auth_ok", "client"}

\* Every command line of up to three words, and the longer ones with both options.
MCCommandLines ==
    UNION {[1 .. n -> MCWords] : n \in 0 .. 3}
    \cup {<<"-t", name, "-p", protocol, "client">> :
              name \in {"udp_auth", "tcp_auth_ok"}, protocol \in {"udp", "tcp"}}
    \cup {<<"-p", "udp", "-p", "tcp", "client">>}
=============================================================================
