----------------------------- MODULE ArgsProofs -----------------------------
(***************************************************************************)
(* What TLAPS proves about the constructor of Args, for command lines of   *)
(* any length: the last occurrence of each option counts (LastOneCounts),  *)
(* and a null pointer is read only where a word is missing                 *)
(* (FaultOnlyIfIncomplete).                                                *)
(*                                                                         *)
(* The loop invariant says the same of the part of the command line the    *)
(* loop has come past.  It names the position of the last occurrence; that *)
(* it exists is carried along, and no induction over argv is needed.       *)
(***************************************************************************)
EXTENDS Args, TLAPS

parsing == outcome = ""

\* The word at position k, argv[argc] included.
word(k) == IF k <= Len(argv) THEN argv[k] ELSE NULL

\* No option of this name stands before the loop; the last one stands at k.
none(flag) == \A l \in positions(flag) : l >= i
latest(flag, k) ==
    /\ k \in positions(flag) /\ k < i
    /\ \A l \in positions(flag) : l < i => l <= k

\* A number that was converted was there to be converted.
counted(flag, k, member, width) ==
    latest(flag, k) /\ k < Len(argv) /\ member = Number[argv[k + 1]] % width

LoopType == argv \in Seq(STRING \ {NULL}) /\ i \in Nat \ {0} /\ i % 2 = 1

ServerSoFar ==
    \/ none("-s") /\ server_addr = NULL
    \/ \E k : latest("-s", k) /\ server_addr = word(k + 1)
TypeSoFar ==
    \/ none("-t") /\ m_is_tcp = FALSE
    \/ \E k : latest("-t", k) /\ k < Len(argv) /\ m_is_tcp = (argv[k + 1] = "tcp")
PortSoFar ==
    \/ none("-p") /\ m_server_port = 4567
    \/ \E k : counted("-p", k, m_server_port, 2^16)
TimeoutSoFar ==
    \/ none("-d") /\ m_udp_confirm_timeout = 250
    \/ \E k : counted("-d", k, m_udp_confirm_timeout, 2^16)
RetransSoFar ==
    \/ none("-r") /\ m_udp_max_retrans_count = 3
    \/ \E k : counted("-r", k, m_udp_max_retrans_count, 2^8)

\* Once parsing has ended, it has come past the whole command line if there is a client.
Ended == outcome = "client" => i > Len(argv) /\ server_addr \in Hosts

LoopInv ==
    /\ LoopType
    /\ ServerSoFar /\ TypeSoFar /\ PortSoFar /\ TimeoutSoFar /\ RetransSoFar
    /\ Ended /\ FaultOnlyIfIncomplete

-----------------------------------------------------------------------------
(* Positions.                                                                *)

LEMMA Numbers == LoopType => Len(argv) \in Nat /\ i \in Nat
BY SMT DEF LoopType

LEMMA PositionsAreNumbers ==
    ASSUME LoopType, NEW flag
    PROVE  \A k \in positions(flag) : k \in 1 .. Len(argv) /\ k % 2 = 1 /\ argv[k] = flag
BY SMT DEF LoopType, positions

\* The loop comes past an option of another name, or past none.
LEMMA PassOther ==
    ASSUME LoopType, NEW flag, argv[i] # flag, i' = i + 2, argv' = argv
    PROVE  /\ none(flag) => none(flag)'
           /\ \A k : latest(flag, k) => latest(flag, k)'
<1>1. \A l \in positions(flag) : l \in Nat /\ (l < i' <=> l < i)
  <2> SUFFICES ASSUME NEW l \in positions(flag) PROVE l \in Nat /\ (l < i' <=> l < i)
      OBVIOUS
  <2>1. l \in Nat /\ l % 2 = 1 /\ argv[l] = flag
      BY PositionsAreNumbers, SMT
  <2>2. l # i
      BY <2>1, Zenon
  <2> QED
      BY <2>1, <2>2, SMT DEF LoopType
<1>2. positions(flag)' = positions(flag)
    BY Zenon DEF positions
<1>3. i \in Nat /\ i' \in Nat
    BY SMT DEF LoopType
<1>4. none(flag) => none(flag)'
    BY <1>1, <1>2, <1>3, SMT DEF none
<1>5. ASSUME NEW k, latest(flag, k) PROVE latest(flag, k)'
    BY <1>1, <1>2, <1>5, Zenon DEF latest
<1> QED
    BY <1>4, <1>5

\* The loop comes past an option of this name.
LEMMA PassFlag ==
    ASSUME LoopType, NEW flag, argv[i] = flag, NEW k, k = i, i <= Len(argv), i' = i + 2, argv' = argv
    PROVE  latest(flag, k)'
<1>1. k \in positions(flag) /\ k < i'
    BY SMT DEF LoopType, positions
<1>2. \A l \in positions(flag) : l < i' => l <= k
  <2> SUFFICES ASSUME NEW l \in positions(flag), l < i' PROVE l <= k
      OBVIOUS
  <2>1. l \in Nat /\ l % 2 = 1
      BY PositionsAreNumbers, SMT
  <2> QED
      BY <2>1, SMT DEF LoopType
<1>3. positions(flag)' = positions(flag)
    BY Zenon DEF positions
<1> QED
    BY <1>1, <1>2, <1>3, Zenon DEF latest

LEMMA TypePasses ==
    ASSUME LoopType, i' = i + 2, argv' = argv
    PROVE  LoopType'
BY SMT DEF LoopType

-----------------------------------------------------------------------------
(* The members.                                                              *)

\* A member stays as it is when the loop comes past another option.
LEMMA KeepsServer ==
    ASSUME LoopType, argv[i] # "-s", i' = i + 2, UNCHANGED <<argv, server_addr>>, ServerSoFar
    PROVE  ServerSoFar'
<1>1. \A k : word(k + 1)' = word(k + 1)
    BY Zenon DEF word
<1> QED
    BY <1>1, PassOther, Zenon DEF ServerSoFar

LEMMA KeepsType ==
    ASSUME LoopType, argv[i] # "-t", i' = i + 2, UNCHANGED <<argv, m_is_tcp>>, TypeSoFar
    PROVE  TypeSoFar'
BY PassOther, Zenon DEF TypeSoFar

LEMMA KeepsPort ==
    ASSUME LoopType, argv[i] # "-p", i' = i + 2, UNCHANGED <<argv, m_server_port>>, PortSoFar
    PROVE  PortSoFar'
<1>1. /\ none("-p") => none("-p")'
      /\ \A k : latest("-p", k) => latest("-p", k)'
    BY PassOther, Zenon
<1> QED
    BY <1>1, SMT DEF PortSoFar, counted

LEMMA KeepsTimeout ==
    ASSUME LoopType, argv[i] # "-d", i' = i + 2, UNCHANGED <<argv, m_udp_confirm_timeout>>, TimeoutSoFar
    PROVE  TimeoutSoFar'
<1>1. /\ none("-d") => none("-d")'
      /\ \A k : latest("-d", k) => latest("-d", k)'
    BY PassOther, Zenon
<1> QED
    BY <1>1, SMT DEF TimeoutSoFar, counted

LEMMA KeepsRetrans ==
    ASSUME LoopType, argv[i] # "-r", i' = i + 2, UNCHANGED <<argv, m_udp_max_retrans_count>>, RetransSoFar
    PROVE  RetransSoFar'
<1>1. /\ none("-r") => none("-r")'
      /\ \A k : latest("-r", k) => latest("-r", k)'
    BY PassOther, Zenon
<1> QED
    BY <1>1, SMT DEF RetransSoFar, counted

\* The number after the option is in its place.
LEMMA NumberThere ==
    ASSUME LoopType, value \in DOMAIN Number
    PROVE  i < Len(argv) /\ value = argv[i + 1]
BY ArgsAssumption, SMT DEF value

\* While the loop runs there is nothing to show of its end.
LEMMA NotEnded == parsing' => Ended' /\ FaultOnlyIfIncomplete'
<1>1. "" # "client" /\ "" # "crash"
    BY SMT
<1> QED
    BY <1>1, Zenon DEF parsing, Ended, FaultOnlyIfIncomplete

LEMMA FlagsDiffer ==
    /\ "-s" \notin {"-t", "-p", "-d", "-r"} /\ "-t" \notin {"-s", "-p", "-d", "-r"}
    /\ "-p" \notin {"-s", "-t", "-d", "-r"} /\ "-d" \notin {"-s", "-t", "-p", "-r"}
    /\ "-r" \notin {"-s", "-t", "-p", "-d"}
BY SMT

-----------------------------------------------------------------------------
(* The iterations.                                                           *)

LEMMA ServerIteration ==
    ASSUME LoopInv, parsing, i <= Len(argv), parseServer
    PROVE  LoopInv'
<1>1. /\ argv[i] = "-s" /\ server_addr' = value /\ i' = i + 2 /\ parsing'
      /\ UNCHANGED <<argv, m_is_tcp, m_server_port, m_udp_confirm_timeout, m_udp_max_retrans_count>>
    BY Zenon DEF parseServer, proceed, parsing
<1>2. LoopType /\ LoopType'
    BY <1>1, TypePasses, Zenon DEF LoopInv
<1>3. PICK k \in Nat : k = i
    BY <1>2, Numbers, Zenon
<1>4. latest("-s", k)'
    BY <1>1, <1>2, <1>3, PassFlag, Zenon
<1>5. server_addr' = word(k + 1)'
  <2>1. Len(argv) \in Nat /\ i \in Nat
      BY <1>2, Numbers, Zenon
  <2>2. k + 1 <= Len(argv) <=> i < Len(argv)
      BY <1>3, <2>1, SMT
  <2> QED
      BY <1>1, <1>3, <2>2, Zenon DEF word, value
<1>6. ServerSoFar'
    BY <1>4, <1>5, Zenon DEF ServerSoFar
<1>7. TypeSoFar' /\ PortSoFar' /\ TimeoutSoFar' /\ RetransSoFar'
  <2>1. argv[i] # "-t" /\ argv[i] # "-p" /\ argv[i] # "-d" /\ argv[i] # "-r"
      BY <1>1, FlagsDiffer, Zenon
  <2> QED
      BY <1>1, <1>2, <2>1, KeepsType, KeepsPort, KeepsTimeout, KeepsRetrans, Zenon DEF LoopInv
<1>8. Ended' /\ FaultOnlyIfIncomplete'
    BY <1>1, NotEnded, Zenon
<1> QED
    BY <1>2, <1>6, <1>7, <1>8, Zenon DEF LoopInv

LEMMA TypeIteration ==
    ASSUME LoopInv, parsing, i <= Len(argv), argv[i] = "-t", value \in {"tcp", "udp"},
           m_is_tcp' = (value = "tcp"), proceed,
           UNCHANGED <<server_addr, m_server_port, m_udp_confirm_timeout, m_udp_max_retrans_count>>
    PROVE  LoopInv'
<1>1. i' = i + 2 /\ argv' = argv /\ parsing'
    BY Zenon DEF proceed, parsing
<1>2. LoopType /\ LoopType'
    BY <1>1, TypePasses, Zenon DEF LoopInv
<1>3. PICK k \in Nat : k = i
    BY <1>2, Numbers, Zenon
<1>4. latest("-t", k)'
    BY <1>1, <1>2, <1>3, PassFlag, Zenon
<1>5. k < Len(argv) /\ value = argv[k + 1]
  <2>1. NULL \notin {"tcp", "udp"}
      BY SMT DEF NULL
  <2> QED
      BY <1>3, <2>1, Zenon DEF value
<1>6. TypeSoFar'
    BY <1>1, <1>4, <1>5, Zenon DEF TypeSoFar
<1>7. ServerSoFar' /\ PortSoFar' /\ TimeoutSoFar' /\ RetransSoFar'
  <2>1. argv[i] # "-s" /\ argv[i] # "-p" /\ argv[i] # "-d" /\ argv[i] # "-r"
      BY FlagsDiffer, Zenon
  <2> QED
      BY <1>1, <1>2, <2>1, KeepsServer, KeepsPort, KeepsTimeout, KeepsRetrans, Zenon DEF LoopInv
<1>8. Ended' /\ FaultOnlyIfIncomplete'
    BY <1>1, NotEnded, Zenon
<1> QED
    BY <1>2, <1>6, <1>7, <1>8, Zenon DEF LoopInv

LEMMA NumberIteration ==
    ASSUME LoopInv, parsing, i <= Len(argv), argv[i] \in {"-p", "-d", "-r"}, value \in DOMAIN Number,
           m_server_port' = IF argv[i] = "-p" THEN Number[value] % 2^16 ELSE m_server_port,
           m_udp_confirm_timeout' =
               IF argv[i] = "-d" THEN Number[value] % 2^16 ELSE m_udp_confirm_timeout,
           m_udp_max_retrans_count' =
               IF argv[i] = "-r" THEN Number[value] % 2^8 ELSE m_udp_max_retrans_count,
           proceed, UNCHANGED <<server_addr, m_is_tcp>>
    PROVE  LoopInv'
<1>1. i' = i + 2 /\ argv' = argv /\ parsing'
    BY Zenon DEF proceed, parsing
<1>2. LoopType /\ LoopType'
    BY <1>1, TypePasses, Zenon DEF LoopInv
<1>3. PICK k \in Nat : k = i
    BY <1>2, Numbers, Zenon
<1>4. \A flag : argv[i] = flag => latest(flag, k)'
    BY <1>1, <1>2, <1>3, PassFlag, Zenon
<1>5. k < Len(argv') /\ value = argv'[k + 1]
    BY <1>1, <1>2, <1>3, NumberThere, Zenon
<1>6. PortSoFar'
  <2>1. CASE argv[i] = "-p"
    <3>1. m_server_port' = Number[argv'[k + 1]] % 2^16
        BY <1>5, <2>1, SMT
    <3>2. counted("-p", k, m_server_port, 2^16)'
        BY <1>4, <1>5, <2>1, <3>1, SMT DEF counted
    <3> QED
        BY <3>2 DEF PortSoFar
  <2>2. CASE argv[i] # "-p"
    <3>1. m_server_port' = m_server_port
        BY <2>2, SMT
    <3> QED
        BY <1>1, <1>2, <2>2, <3>1, KeepsPort, Zenon DEF LoopInv
  <2> QED
      BY <2>1, <2>2
<1>7. TimeoutSoFar'
  <2>1. CASE argv[i] = "-d"
    <3>1. m_udp_confirm_timeout' = Number[argv'[k + 1]] % 2^16
        BY <1>5, <2>1, SMT
    <3>2. counted("-d", k, m_udp_confirm_timeout, 2^16)'
        BY <1>4, <1>5, <2>1, <3>1, SMT DEF counted
    <3> QED
        BY <3>2 DEF TimeoutSoFar
  <2>2. CASE argv[i] # "-d"
    <3>1. m_udp_confirm_timeout' = m_udp_confirm_timeout
        BY <2>2, SMT
    <3> QED
        BY <1>1, <1>2, <2>2, <3>1, KeepsTimeout, Zenon DEF LoopInv
  <2> QED
      BY <2>1, <2>2
<1>8. RetransSoFar'
  <2>1. CASE argv[i] = "-r"
    <3>1. m_udp_max_retrans_count' = Number[argv'[k + 1]] % 2^8
        BY <1>5, <2>1, SMT
    <3>2. counted("-r", k, m_udp_max_retrans_count, 2^8)'
        BY <1>4, <1>5, <2>1, <3>1, SMT DEF counted
    <3> QED
        BY <3>2 DEF RetransSoFar
  <2>2. CASE argv[i] # "-r"
    <3>1. m_udp_max_retrans_count' = m_udp_max_retrans_count
        BY <2>2, SMT
    <3> QED
        BY <1>1, <1>2, <2>2, <3>1, KeepsRetrans, Zenon DEF LoopInv
  <2> QED
      BY <2>1, <2>2
<1>9. ServerSoFar' /\ TypeSoFar'
  <2>1. argv[i] # "-s" /\ argv[i] # "-t"
      BY FlagsDiffer, Zenon
  <2> QED
      BY <1>1, <1>2, <2>1, KeepsServer, KeepsType, Zenon DEF LoopInv
<1>10. Ended' /\ FaultOnlyIfIncomplete'
    BY <1>1, NotEnded, Zenon
<1> QED
    BY <1>2, <1>6, <1>7, <1>8, <1>9, <1>10, Zenon DEF LoopInv

\* Any other word.
LEMMA OtherIteration ==
    ASSUME LoopInv, parsing, parseOther
    PROVE  LoopInv'
<1>1. /\ i' = i + 2 /\ argv' = argv /\ parsing'
      /\ UNCHANGED <<server_addr, m_is_tcp, m_server_port, m_udp_confirm_timeout,
                     m_udp_max_retrans_count>>
    BY Zenon DEF parseOther, proceed, parsing, values
<1>2. LoopType /\ LoopType'
    BY <1>1, TypePasses, Zenon DEF LoopInv
<1>3. argv[i] # "-t" /\ argv[i] # "-s" /\ argv[i] # "-p" /\ argv[i] # "-d" /\ argv[i] # "-r"
    BY Zenon DEF parseOther
<1>4. ServerSoFar' /\ TypeSoFar' /\ PortSoFar' /\ TimeoutSoFar' /\ RetransSoFar'
    BY <1>1, <1>2, <1>3, KeepsServer, KeepsType, KeepsPort, KeepsTimeout, KeepsRetrans, Zenon
       DEF LoopInv
<1>5. Ended' /\ FaultOnlyIfIncomplete'
    BY <1>1, NotEnded, Zenon
<1> QED
    BY <1>2, <1>4, <1>5, Zenon DEF LoopInv

\* The loop ends: the members stay as they are.
LEMMA Stops ==
    ASSUME LoopInv, UNCHANGED <<argv, i, values>>, Ended', FaultOnlyIfIncomplete'
    PROVE  LoopInv'
<1>1. UNCHANGED <<argv, i, server_addr, m_is_tcp, m_server_port, m_udp_confirm_timeout,
                  m_udp_max_retrans_count>>
    BY Zenon DEF values
<1>2. LoopType' /\ ServerSoFar' /\ TypeSoFar'
    BY <1>1, Zenon DEF LoopInv, LoopType, ServerSoFar, TypeSoFar, none, latest, positions, word
<1>3. \A flag : /\ none(flag) => none(flag)'
                /\ \A k : latest(flag, k) => latest(flag, k)'
    BY <1>1, Zenon DEF none, latest, positions
<1>4. PortSoFar'
    BY <1>1, <1>3, SMT DEF LoopInv, PortSoFar, counted
<1>5. TimeoutSoFar'
    BY <1>1, <1>3, SMT DEF LoopInv, TimeoutSoFar, counted
<1>6. RetransSoFar'
    BY <1>1, <1>3, SMT DEF LoopInv, RetransSoFar, counted
<1> QED
    BY <1>2, <1>4, <1>5, <1>6, Zenon DEF LoopInv

-----------------------------------------------------------------------------
(* The ends of the loop.                                                     *)

LEMMA NoClient ==
    ASSUME outcome' \in {"failure", "help"}
    PROVE  Ended' /\ FaultOnlyIfIncomplete'
<1>1. "client" \notin {"failure", "help"} /\ "crash" \notin {"failure", "help"}
    BY SMT
<1> QED
    BY <1>1, Zenon DEF Ended, FaultOnlyIfIncomplete

\* Words that are there are no null pointers.
LEMMA WordsAreThere ==
    ASSUME LoopType, NEW k \in 1 .. Len(argv)
    PROVE  argv[k] # NULL
<1>1. argv[k] \in STRING \ {NULL}
    BY SMT DEF LoopType
<1> QED
    BY <1>1

LEMMA CrashAllowed ==
    ASSUME UNCHANGED argv, outcome' = "crash",
           ~given("-s") \/ Len(argv) \in positions("-t") \cup positions("-s")
    PROVE  Ended' /\ FaultOnlyIfIncomplete'
<1>1. "crash" # "client"
    BY SMT
<1> QED
    BY <1>1, Zenon DEF Ended, FaultOnlyIfIncomplete, given, positions

\* -t is the last word.
LEMMA TypeMissing ==
    ASSUME LoopType, i <= Len(argv), argv[i] = "-t", value = NULL
    PROVE  Len(argv) \in positions("-t")
<1>1. Len(argv) \in Nat /\ i \in Nat /\ i >= 1
    BY Numbers, SMT DEF LoopType
<1>2. CASE i < Len(argv)
  <2>1. i + 1 \in 1 .. Len(argv)
      BY <1>1, <1>2, SMT
  <2> QED
      BY <1>2, <2>1, WordsAreThere, Zenon DEF value
<1>3. CASE ~(i < Len(argv))
  <2>1. i = Len(argv)
      BY <1>1, <1>3, SMT
  <2> QED
      BY <2>1, SMT DEF LoopType, positions
<1> QED
    BY <1>2, <1>3

\* -s is missing, or it is the last word.
LEMMA ServerMissing ==
    ASSUME LoopType, ServerSoFar, i > Len(argv), server_addr = NULL
    PROVE  ~given("-s") \/ Len(argv) \in positions("-s")
<1>1. Len(argv) \in Nat /\ i \in Nat
    BY Numbers, Zenon
<1>2. CASE none("-s")
  <2>1. ASSUME NEW l \in positions("-s") PROVE FALSE
    <3>1. l \in 1 .. Len(argv)
        BY PositionsAreNumbers, Zenon
    <3>2. l >= i
        BY <1>2, Zenon DEF none
    <3> QED
        BY <1>1, <3>1, <3>2, SMT
  <2> QED
      BY <2>1, Zenon DEF given
<1>3. ASSUME NEW k, latest("-s", k), server_addr = word(k + 1) PROVE Len(argv) \in positions("-s")
  <2>1. k \in positions("-s") /\ k \in 1 .. Len(argv)
      BY <1>3, PositionsAreNumbers, Zenon DEF latest
  <2>2. CASE k = Len(argv)
      BY <2>1, <2>2, Zenon
  <2>3. CASE k # Len(argv)
    <3>1. k + 1 \in 1 .. Len(argv) /\ k + 1 <= Len(argv)
        BY <1>1, <2>1, <2>3, SMT
    <3> QED
        BY <1>3, <3>1, WordsAreThere, Zenon DEF word
  <2> QED
      BY <2>2, <2>3
<1> QED
    BY <1>2, <1>3, Zenon DEF ServerSoFar

-----------------------------------------------------------------------------
(* The invariant of the loop.                                                *)

LEMMA LoopInit == ArgsInit => LoopInv
<1> SUFFICES ASSUME ArgsInit PROVE LoopInv
    OBVIOUS
<1>1. /\ argv \in CommandLines /\ i = 1 /\ server_addr = NULL /\ m_is_tcp = FALSE
      /\ m_server_port = 4567 /\ m_udp_confirm_timeout = 250 /\ m_udp_max_retrans_count = 3
      /\ outcome \notin {"client", "crash"}
  <2>1. "" \notin {"client", "crash"}
      BY SMT
  <2> QED
      BY <2>1, Zenon DEF ArgsInit
<1>2. argv \in Seq(STRING \ {NULL})
    BY <1>1, ArgsAssumption, Zenon
<1>3. LoopType
    BY <1>1, <1>2, SMT DEF LoopType
<1>4. ASSUME NEW flag PROVE none(flag)
  <2>1. \A l \in positions(flag) : l \in 1 .. Len(argv)
      BY <1>3, PositionsAreNumbers, Zenon
  <2>2. \A l \in 1 .. Len(argv) : l >= i
      BY <1>1, SMT
  <2> QED
      BY <2>1, <2>2, Zenon DEF none
<1>5. ServerSoFar /\ TypeSoFar /\ RetransSoFar
    BY <1>1, <1>4, Zenon DEF ServerSoFar, TypeSoFar, RetransSoFar
<1>6. PortSoFar /\ TimeoutSoFar
    BY <1>1, <1>4, SMT DEF PortSoFar, TimeoutSoFar
<1>7. Ended /\ FaultOnlyIfIncomplete
    BY <1>1, Zenon DEF Ended, FaultOnlyIfIncomplete
<1> QED
    BY <1>3, <1>5, <1>6, <1>7, Zenon DEF LoopInv

LEMMA LoopStep ==
    ASSUME LoopInv, [ArgsNext]_argsVars
    PROVE  LoopInv'
<1>1. LoopType /\ ServerSoFar
    BY Zenon DEF LoopInv
<1>2. ASSUME parsing, i <= Len(argv), parseType PROVE LoopInv'
  <2>1. CASE value \in {"tcp", "udp"} /\ m_is_tcp' = (value = "tcp") /\ proceed
             /\ UNCHANGED <<server_addr, m_server_port, m_udp_confirm_timeout, m_udp_max_retrans_count>>
      BY <1>2, <2>1, TypeIteration, Zenon DEF parseType
  <2>2. CASE stop("failure")
      BY <2>2, NoClient, Stops, Zenon DEF stop
  <2>3. CASE value = NULL /\ stop("crash")
    <3>1. Len(argv) \in positions("-t")
        BY <1>1, <1>2, <2>3, TypeMissing, Zenon DEF parseType
    <3> QED
        BY <2>3, <3>1, CrashAllowed, Stops, Zenon DEF stop
  <2> QED
      BY <1>2, <2>1, <2>2, <2>3, Zenon DEF parseType
<1>3. ASSUME parsing, i <= Len(argv), parseNumber PROVE LoopInv'
  <2>1. CASE stop("failure")
      BY <2>1, NoClient, Stops, Zenon DEF stop
  <2>2. CASE ~stop("failure")
      BY <1>3, <2>2, NumberIteration, SMT DEF parseNumber
  <2> QED
      BY <2>1, <2>2
<1>4. CASE parseHelp
    BY <1>4, NoClient, Stops, Zenon DEF parseHelp, stop
<1>5. CASE parseArgument
    BY <1>2, <1>3, <1>4, <1>5, ServerIteration, OtherIteration, Zenon DEF parseArgument, parsing
<1>6. CASE processServerAddress
  <2>1. i > Len(argv)
      BY <1>6, Zenon DEF processServerAddress
  <2>2. CASE server_addr = NULL /\ stop("crash")
    <3>1. ~given("-s") \/ Len(argv) \in positions("-s")
        BY <1>1, <2>1, <2>2, ServerMissing, Zenon
    <3> QED
        BY <2>2, <3>1, CrashAllowed, Stops, Zenon DEF stop
  <2>3. CASE server_addr \in Hosts /\ stop("client")
    <3>1. "client" # "crash"
        BY SMT
    <3>2. Ended' /\ FaultOnlyIfIncomplete'
        BY <2>1, <2>3, <3>1, Zenon DEF Ended, FaultOnlyIfIncomplete, stop, values
    <3> QED
        BY <2>3, <3>2, Stops, Zenon DEF stop
  <2>4. CASE stop("failure")
      BY <2>4, NoClient, Stops, Zenon DEF stop
  <2> QED
      BY <1>6, <2>2, <2>3, <2>4, Zenon DEF processServerAddress
<1>7. CASE UNCHANGED argsVars
  <2>1. UNCHANGED <<argv, i, values, outcome>>
      BY <1>7, Zenon DEF argsVars
  <2>2. Ended' /\ FaultOnlyIfIncomplete'
      BY <2>1, Zenon DEF LoopInv, Ended, FaultOnlyIfIncomplete, given, positions, values
  <2> QED
      BY <2>1, <2>2, Stops, Zenon
<1> QED
    BY <1>5, <1>6, <1>7, Zenon DEF ArgsNext

-----------------------------------------------------------------------------
(* The theorems.                                                             *)

\* The last position is the one the loop has named.
LEMMA LatestIsLast ==
    ASSUME LoopType, i > Len(argv), NEW flag, NEW k, latest(flag, k)
    PROVE  given(flag) /\ last(flag) = argv[k + 1]
<1> DEFINE c == CHOOSE m \in positions(flag) : \A l \in positions(flag) : l <= m
<1>1. k \in positions(flag)
    BY Zenon DEF latest
<1>2. \A l \in positions(flag) : l \in 1 .. Len(argv)
    BY PositionsAreNumbers, Zenon
<1>3. \A l \in 1 .. Len(argv) : l < i
    BY Numbers, SMT
<1>4. \A l \in positions(flag) : l <= k
    BY <1>2, <1>3, Zenon DEF latest
<1>5. c \in positions(flag) /\ \A l \in positions(flag) : l <= c
    BY <1>1, <1>4
<1> HIDE DEF c
<1>6. c = k
  <2>1. c <= k /\ k <= c /\ c \in 1 .. Len(argv) /\ k \in 1 .. Len(argv)
      BY <1>1, <1>2, <1>4, <1>5, Zenon
  <2> QED
      BY <2>1, Numbers, SMT
<1>7. last(flag) = argv[c + 1]
    BY DEF last, c
<1> QED
    BY <1>1, <1>6, <1>7, Zenon DEF given

LEMMA NoneIsMissing ==
    ASSUME LoopType, i > Len(argv), NEW flag, none(flag)
    PROVE  ~given(flag)
<1>1. \A l \in positions(flag) : l \in 1 .. Len(argv) /\ l >= i
    BY PositionsAreNumbers, Zenon DEF none
<1>2. \A l \in 1 .. Len(argv) : ~(l >= i)
    BY Numbers, SMT
<1> QED
    BY <1>1, <1>2, Zenon DEF given

LEMMA ClientGetsLast == LoopInv => LastOneCounts
<1> SUFFICES ASSUME LoopInv, outcome = "client" PROVE LastOneCounts
    BY Zenon DEF LastOneCounts
<1>1. LoopType /\ i > Len(argv) /\ server_addr \in Hosts
    BY Zenon DEF LoopInv, Ended
<1>2. \A flag, k : latest(flag, k) => given(flag) /\ last(flag) = argv[k + 1]
    BY <1>1, LatestIsLast, Zenon
<1>3. \A flag : none(flag) => ~given(flag)
    BY <1>1, NoneIsMissing, Zenon
<1>4. server_addr = last("-s")
    BY <1>1, <1>2, ArgsAssumption, Zenon DEF LoopInv, ServerSoFar, word
<1>5. given("-t") => m_is_tcp = (last("-t") = "tcp")
  <2>1. CASE none("-t") /\ m_is_tcp = FALSE
      BY <1>3, <2>1, Zenon
  <2>2. CASE \E k : latest("-t", k) /\ m_is_tcp = (argv[k + 1] = "tcp")
      BY <1>2, <2>2, Zenon
  <2> QED
      BY <2>1, <2>2, Zenon DEF LoopInv, TypeSoFar
<1>6. ASSUME number("-p", 4567) \in UINT16 PROVE m_server_port = number("-p", 4567)
  <2>1. CASE none("-p") /\ m_server_port = 4567
      BY <1>3, <2>1, SMT DEF number
  <2>2. CASE \E k : counted("-p", k, m_server_port, 2^16)
    <3>1. m_server_port = number("-p", 4567) % 2^16
        BY <1>2, <2>2, SMT DEF number, counted
    <3> QED
        BY <1>6, <3>1, SMT DEF UINT16
  <2> QED
      BY <2>1, <2>2, SMT DEF LoopInv, PortSoFar
<1>7. ASSUME number("-d", 250) \in UINT16 PROVE m_udp_confirm_timeout = number("-d", 250)
  <2>1. CASE none("-d") /\ m_udp_confirm_timeout = 250
      BY <1>3, <2>1, SMT DEF number
  <2>2. CASE \E k : counted("-d", k, m_udp_confirm_timeout, 2^16)
    <3>1. m_udp_confirm_timeout = number("-d", 250) % 2^16
        BY <1>2, <2>2, SMT DEF number, counted
    <3> QED
        BY <1>7, <3>1, SMT DEF UINT16
  <2> QED
      BY <2>1, <2>2, SMT DEF LoopInv, TimeoutSoFar
<1>8. ASSUME number("-r", 3) \in UINT8 PROVE m_udp_max_retrans_count = number("-r", 3)
  <2>1. CASE none("-r") /\ m_udp_max_retrans_count = 3
      BY <1>3, <2>1, SMT DEF number
  <2>2. CASE \E k : counted("-r", k, m_udp_max_retrans_count, 2^8)
    <3>1. m_udp_max_retrans_count = number("-r", 3) % 2^8
        BY <1>2, <2>2, SMT DEF number, counted
    <3> QED
        BY <1>8, <3>1, SMT DEF UINT8
  <2> QED
      BY <2>1, <2>2, SMT DEF LoopInv, RetransSoFar
<1> QED
    BY <1>4, <1>5, <1>6, <1>7, <1>8, SMT DEF LastOneCounts

\* Args::Args leaves in its members what the last occurrence of each option says, for a
\* command line of any length and every number that fits its member.
THEOREM LastOneCountsCorrect == ArgsSpec => []LastOneCounts
<1>1. LoopInv /\ [ArgsNext]_argsVars => LoopInv'
    BY LoopStep, Zenon
<1> QED
    BY LoopInit, <1>1, ClientGetsLast, PTL DEF ArgsSpec

\* Args::Args reads through a null pointer (strcmp, inet_pton) only if -s is missing or a
\* -t or -s is the last word of the command line.
THEOREM FaultOnlyIfIncompleteCorrect == ArgsSpec => []FaultOnlyIfIncomplete
<1>1. LoopInv /\ [ArgsNext]_argsVars => LoopInv'
    BY LoopStep, Zenon
<1>2. LoopInv => FaultOnlyIfIncomplete
    BY Zenon DEF LoopInv
<1> QED
    BY LoopInit, <1>1, <1>2, PTL DEF ArgsSpec
=============================================================================
