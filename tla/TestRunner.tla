----------------------------- MODULE TestRunner -----------------------------
(***************************************************************************)
(* The rest of testo.py: the decorator testcase as it registers functions, *)
(* the command line, and run_tests.  What a test case does is modelled by  *)
(* ExecutableTester; here it passes or it does not.                        *)
(***************************************************************************)
EXTENDS Integers, Sequences, FiniteSets

CONSTANTS
    Functions,     \* decorated functions in order: [name, words], words \subseteq {"udp", "tcp"}
    CommandLines   \* the sequences sys.argv[1:] may be

Protocols == {"udp", "tcp"}

Test == [name : STRING, words : SUBSET Protocols]

ASSUME RunnerAssumption == Functions \in Seq(Test)

VARIABLES
    defined,          \* functions the import has come past
    udp_test_cases, tcp_test_cases,
    args,             \* arguments not parsed yet
    udp, tcp, test_case, executable_path,
    started,          \* has run_tests been called?
    left,             \* test cases it still has to run
    results,          \* what the test cases returned
    outcome           \* "" while running, else what was printed last

lists == <<udp_test_cases, tcp_test_cases>>
options == <<udp, tcp, test_case, executable_path>>
progress == <<started, left, results>>
runnerVars == <<defined, lists, args, options, progress, outcome>>

NotGiven == "None"

RunnerInit ==
    /\ defined = 0
    /\ udp_test_cases = << >> /\ tcp_test_cases = << >>
    /\ args \in CommandLines
    /\ udp = TRUE /\ tcp = TRUE /\ test_case = NotGiven /\ executable_path = NotGiven
    /\ started = FALSE /\ left = << >>
    /\ results = << >>
    /\ outcome = ""

\* @testcase: the list is chosen by the name of the function, "udp" first.
register ==
    /\ defined < Len(Functions)
    /\ defined' = defined + 1
    /\ LET f == Functions[defined']
       IN  /\ udp_test_cases' = IF "udp" \in f.words THEN Append(udp_test_cases, f) ELSE udp_test_cases
           /\ tcp_test_cases' = IF f.words = {"tcp"} THEN Append(tcp_test_cases, f) ELSE tcp_test_cases
    /\ UNCHANGED <<args, options, progress, outcome>>

-----------------------------------------------------------------------------
(* The command line.                                                         *)

imported == defined = Len(Functions)
namesIn(list) == {list[i].name : i \in DOMAIN list}

\* sys.exit(...)
stop(reason) == outcome' = reason /\ UNCHANGED <<args, options>>

\* next(args), None when there is none.
value == IF Len(args) > 1 THEN args[2] ELSE NotGiven

parseTestOption ==
    /\ Head(args) = "-t"
    /\ \/ /\ value \notin namesIn(udp_test_cases) \cup namesIn(tcp_test_cases)
          /\ stop("usage error")
       \/ /\ value \in namesIn(udp_test_cases) \cup namesIn(tcp_test_cases)
          /\ test_case' = value
          /\ args' = Tail(Tail(args))
          /\ UNCHANGED <<udp, tcp, executable_path, outcome>>

\* str.lower(), of the words that become a protocol: "UDP" stands for every other
\* spelling of "udp".
lower(word) == IF word = "UDP" THEN "udp" ELSE IF word = "TCP" THEN "tcp" ELSE word

parseProtocolOption ==
    /\ Head(args) = "-p"
    /\ \/ lower(value) \notin Protocols /\ stop("usage error")
       \/ /\ lower(value) \in Protocols
          /\ tcp' = (tcp /\ lower(value) # "udp")
          /\ udp' = (udp /\ lower(value) # "tcp")
          /\ args' = Tail(Tail(args))
          /\ UNCHANGED <<test_case, executable_path, outcome>>

parseRest ==
    /\ Head(args) \notin {"-t", "-p"}
    /\ \/ /\ Head(args) = "-d" /\ args' = Tail(args)
          /\ UNCHANGED <<options, outcome>>
       \/ /\ Head(args) # "-d" /\ executable_path = NotGiven
          /\ executable_path' = Head(args) /\ args' = Tail(args)
          /\ UNCHANGED <<udp, tcp, test_case, outcome>>
       \/ Head(args) # "-d" /\ executable_path # NotGiven /\ stop("usage error")

\* One iteration of the loop; "-h" anywhere comes first.
parseArgument ==
    /\ imported /\ outcome = "" /\ args # << >>
    /\ IF \E i \in DOMAIN args : args[i] = "-h"
       THEN stop("usage")
       ELSE parseTestOption \/ parseProtocolOption \/ parseRest
    /\ UNCHANGED <<defined, lists, progress>>

-----------------------------------------------------------------------------
(* run_tests.                                                                *)

\* The first function of the list with the name.
found(list) == {i \in DOMAIN list : list[i].name = test_case}
\* Fault: the loop goes on after the first function with the name.
firstFoundAndMore(list) == SelectSeq(list, LAMBDA f : f.name = test_case)

firstFound(list) == <<list[CHOOSE i \in found(list) : \A j \in found(list) : i <= j]>>

\* All the test cases of the protocols, or the named one.
chosen ==
    IF test_case = NotGiven
    THEN (IF udp THEN udp_test_cases ELSE << >>) \o (IF tcp THEN tcp_test_cases ELSE << >>)
    ELSE IF udp /\ found(udp_test_cases) # {} THEN firstFound(udp_test_cases)
    ELSE IF tcp /\ found(tcp_test_cases) # {} THEN firstFound(tcp_test_cases)
    ELSE << >>

choose ==
    /\ imported /\ outcome = "" /\ args = << >> /\ ~started
    /\ started' = TRUE
    /\ \/ executable_path = NotGiven /\ outcome' = "usage error" /\ UNCHANGED left
       \/ /\ executable_path # NotGiven
          /\ left' = chosen
          /\ outcome' = IF test_case # NotGiven /\ chosen = << >> THEN "not found" ELSE ""
    /\ UNCHANGED <<defined, lists, args, options, results>>

\* test(tester) with a new tester; the wrapper returns whether it passed.
runTest ==
    /\ outcome = "" /\ left # << >>
    /\ \E passed \in BOOLEAN : results' = Append(results, [test |-> Head(left), passed |-> passed])
    /\ left' = Tail(left)
    /\ UNCHANGED <<defined, lists, args, options, started, outcome>>

test_cases_passed == Cardinality({i \in DOMAIN results : results[i].passed})
total_cases == Len(results)

\* Fault: the summary is green as soon as a test case has passed.
summarizeGenerously ==
    /\ outcome = "" /\ started /\ left = << >>
    /\ outcome' = IF test_cases_passed > 0 THEN "green" ELSE "red"
    /\ UNCHANGED <<defined, lists, args, options, progress>>

summarize ==
    /\ outcome = "" /\ started /\ left = << >>
    /\ outcome' = IF test_cases_passed = total_cases THEN "green" ELSE "red"
    /\ UNCHANGED <<defined, lists, args, options, progress>>

RunnerNext == register \/ parseArgument \/ choose \/ runTest \/ summarize

RunnerSpec == RunnerInit /\ [][RunnerNext]_runnerVars

-----------------------------------------------------------------------------
(* Properties.                                                               *)

ran(f) == \E i \in DOMAIN results : results[i].test = f /\ results[i].passed

\* A green summary means that every function with the selected word in its name, or
\* one with the name given by -t, has run and passed.
GreenMeansPassed ==
    outcome = "green" =>
        IF test_case # NotGiven
        THEN \E i \in DOMAIN Functions : Functions[i].name = test_case /\ ran(Functions[i])
        ELSE \A i \in DOMAIN Functions :
                 \/ udp /\ "udp" \in Functions[i].words
                 \/ tcp /\ Functions[i].words = {"tcp"}
                 => ran(Functions[i])

\* -t runs one function of that name, also when the name is defined twice or is
\* looked for in both lists.
OnlyNamed ==
    test_case # NotGiven =>
        Len(results) <= 1 /\ \A i \in DOMAIN results : results[i].test.name = test_case

\* "Define a global list to hold all test case functions": none is left out.  The
\* code does not keep it (README.md, unregistered).
AllRegistered ==
    imported => \A i \in DOMAIN Functions :
                    Functions[i].name \in namesIn(udp_test_cases) \cup namesIn(tcp_test_cases)
=============================================================================
