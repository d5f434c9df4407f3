-------------------------------- MODULE Args --------------------------------
(***************************************************************************)
(* The constructor of class Args (src/src/args.cpp): the loop over the     *)
(* command line and the lookup of the server.  Words are atoms: Number     *)
(* says what std::stoi makes of one, Hosts which of them name a server.    *)
(***************************************************************************)
EXTENDS Integers, Sequences

CONSTANTS
    CommandLines,   \* the sequences argv[1 .. argc - 1] may be
    Number,         \* word -> the int std::stoi returns; it throws for the others
    Hosts           \* words inet_pton or getaddrinfo finds an address for

VARIABLES
    argv, i,
    server_addr, m_is_tcp, m_server_port, m_udp_confirm_timeout, m_udp_max_retrans_count,
    outcome         \* "" while parsing; then "client": main() creates the client,
                    \* "help", "failure": exception, EXIT_FAILURE, "crash": SIGSEGV

values == <<server_addr, m_is_tcp, m_server_port, m_udp_confirm_timeout, m_udp_max_retrans_count>>
argsVars == <<argv, i, values, outcome>>

NULL == "NULL"      \* argv[argc], and server_addr until -s is met

\* No word is the null pointer.
ASSUME ArgsAssumption ==
    /\ CommandLines \subseteq Seq(STRING \ {NULL})
    /\ NULL \notin Hosts /\ NULL \notin DOMAIN Number

ArgsInit ==
    /\ argv \in CommandLines
    /\ i = 1
    /\ server_addr = NULL /\ m_is_tcp = FALSE
    /\ m_server_port = 4567 /\ m_udp_confirm_timeout = 250 /\ m_udp_max_retrans_count = 3
    /\ outcome = ""

\* argv[i + 1]
value == IF i < Len(argv) THEN argv[i + 1] ELSE NULL

proceed == i' = i + 2 /\ UNCHANGED <<argv, outcome>>
stop(end) == outcome' = end /\ UNCHANGED <<argv, i, values>>

\* strcmp() with a null pointer is undefined; here it faults.
parseType ==
    /\ argv[i] = "-t"
    /\ \/ /\ value \in {"tcp", "udp"}
          /\ m_is_tcp' = (value = "tcp")
          /\ proceed
          /\ UNCHANGED <<server_addr, m_server_port, m_udp_confirm_timeout, m_udp_max_retrans_count>>
       \/ value \notin {"tcp", "udp", NULL} /\ stop("failure")
       \/ value = NULL /\ stop("crash")

parseServer ==
    /\ argv[i] = "-s"
    /\ server_addr' = value
    /\ proceed
    /\ UNCHANGED <<m_is_tcp, m_server_port, m_udp_confirm_timeout, m_udp_max_retrans_count>>

\* Fault: -d and -r store in each other's member.
parseNumberSwapped ==
    /\ argv[i] \in {"-p", "-d", "-r"}
    /\ \/ /\ value \in DOMAIN Number
          /\ m_server_port' = IF argv[i] = "-p" THEN Number[value] % 2^16 ELSE m_server_port
          /\ m_udp_confirm_timeout' = IF argv[i] = "-r" THEN Number[value] % 2^16 ELSE m_udp_confirm_timeout
          /\ m_udp_max_retrans_count' = IF argv[i] = "-d" THEN Number[value] % 2^8 ELSE m_udp_max_retrans_count
          /\ proceed
          /\ UNCHANGED <<server_addr, m_is_tcp>>
       \/ value \notin DOMAIN Number /\ stop("failure")

\* Fault: strtol() for std::stoi, which reads through the null pointer.
parseNumberFaults ==
    /\ argv[i] \in {"-p", "-d", "-r"}
    /\ \/ /\ value \in DOMAIN Number
          /\ m_server_port' = IF argv[i] = "-p" THEN Number[value] % 2^16 ELSE m_server_port
          /\ m_udp_confirm_timeout' = IF argv[i] = "-d" THEN Number[value] % 2^16 ELSE m_udp_confirm_timeout
          /\ m_udp_max_retrans_count' = IF argv[i] = "-r" THEN Number[value] % 2^8 ELSE m_udp_max_retrans_count
          /\ proceed
          /\ UNCHANGED <<server_addr, m_is_tcp>>
       \/ value \notin DOMAIN Number \cup {NULL} /\ stop("failure")
       \/ value = NULL /\ stop("crash")

\* The int is cut to the width of the member.  A std::string made of a null pointer
\* throws, like std::stoi of a word that is no int.
parseNumber ==
    /\ argv[i] \in {"-p", "-d", "-r"}
    /\ \/ /\ value \in DOMAIN Number
          /\ m_server_port' = IF argv[i] = "-p" THEN Number[value] % 2^16 ELSE m_server_port
          /\ m_udp_confirm_timeout' = IF argv[i] = "-d" THEN Number[value] % 2^16 ELSE m_udp_confirm_timeout
          /\ m_udp_max_retrans_count' = IF argv[i] = "-r" THEN Number[value] % 2^8 ELSE m_udp_max_retrans_count
          /\ proceed
          /\ UNCHANGED <<server_addr, m_is_tcp>>
       \/ value \notin DOMAIN Number /\ stop("failure")

parseHelp == argv[i] = "-h" /\ stop("help")

\* Any other word is passed over, together with the one after it.
parseOther == argv[i] \notin {"-t", "-s", "-p", "-d", "-r", "-h"} /\ proceed /\ UNCHANGED values

\* inet_pton() with a null pointer is undefined; here it faults.
processServerAddress ==
    /\ outcome = "" /\ i > Len(argv)
    /\ \/ server_addr = NULL /\ stop("crash")
       \/ server_addr \in Hosts /\ stop("client")
       \/ server_addr \notin Hosts \cup {NULL} /\ stop("failure")

parseArgument ==
    /\ outcome = "" /\ i <= Len(argv)
    /\ parseType \/ parseServer \/ parseNumber \/ parseHelp \/ parseOther

ArgsNext == parseArgument \/ processServerAddress

ArgsSpec == ArgsInit /\ [][ArgsNext]_argsVars

-----------------------------------------------------------------------------
(* Properties.                                                               *)

\* Where an option stands: flags and values alternate.
positions(flag) == {k \in DOMAIN argv : k % 2 = 1 /\ argv[k] = flag}
given(flag) == positions(flag) # {}
last(flag) == argv[(CHOOSE k \in positions(flag) : \A l \in positions(flag) : l <= k) + 1]
number(flag, default) == IF given(flag) THEN Number[last(flag)] ELSE default

UINT16 == 0 .. 2^16 - 1
UINT8 == 0 .. 2^8 - 1

\* The client starts with what the last occurrence of each option says, wherever it
\* stands and whatever stands between.  A number that does not fit its member and a
\* missing -t are left to AsProvided and TypeRequired.
LastOneCounts ==
    outcome = "client" =>
        /\ server_addr = last("-s")
        /\ given("-t") => m_is_tcp = (last("-t") = "tcp")
        /\ number("-p", 4567) \in UINT16 => m_server_port = number("-p", 4567)
        /\ number("-d", 250) \in UINT16 => m_udp_confirm_timeout = number("-d", 250)
        /\ number("-r", 3) \in UINT8 => m_udp_max_retrans_count = number("-r", 3)

\* The fault of a null pointer strikes only where a word is missing: -s, or the value
\* of a -t or -s that ends the command line.  Every other mistake throws, and main()
\* returns EXIT_FAILURE.
FaultOnlyIfIncomplete ==
    outcome = "crash" => \/ ~given("-s")
                         \/ Len(argv) \in positions("-t") \cup positions("-s")

\* Three claims the code does not keep (README.md, args_type, args_fault, args_width).

\* "Test that the program exits with a non-zero exit code when the -t argument is not
\* provided": no client starts without it.
TypeRequired == outcome = "client" => given("-t")

\* main() returns "EXIT_SUCCESS on successful execution, EXIT_FAILURE otherwise": the
\* program ends by itself, not by a fault.
EndsByItself == outcome # "crash"

\* The number of retransmissions is the one "provided in the program's arguments".
AsProvided == outcome = "client" => m_udp_max_retrans_count = number("-r", 3)
=============================================================================
