------------------------------- MODULE MCArgs -------------------------------
(* Args with every command line of up to four words, and some longer ones.   *)
EXTENDS Args

MCWords == {"-t", "-s", "-p", "-d", "-r", "-h", "udp", "tcp", "localhost", "7", "256"}

MCNumber == [w \in {"7", "256"} |-> IF w = "7" THEN 7 ELSE 256]

MCHosts == {"localhost"}

options == {<<flag, word>> : flag \in {"-t", "-p", "-d", "-r"}, word \in {"udp", "tcp", "7", "256"}}

MCCommandLines ==
    UNION {[1 .. n -> MCWords] : n \in 0 .. 4}
    \cup {<<"-s", "localhost">> \o first \o second : first \in options, second \in options}
=============================================================================
