-------------------------- MODULE TestRunnerProofs --------------------------
(***************************************************************************)
(* What TLAPS proves about run_tests and the registration of test cases,   *)
(* for every file of test functions and every command line: a green        *)
(* summary means that everything that was selected has run and passed      *)
(* (GreenMeansPassed), and -t runs one function of that name (OnlyNamed).  *)
(*                                                                         *)
(* The invariant says what the two lists hold of the functions the import  *)
(* has come past, and that what has run and what is left to run make up    *)
(* the selection in its order.                                             *)
(***************************************************************************)
EXTENDS TestRunner, FiniteSetTheorems, WellFoundedInduction, TLAPS

going == outcome = ""

Result == [test : Test, passed : BOOLEAN]

\* The functions that belong in a list, by their place in the file.
Udp == {j \in DOMAIN Functions : "udp" \in Functions[j].words}
Tcp == {j \in DOMAIN Functions : Functions[j].words = {"tcp"}}

\* A list holds functions among the first n of the file, and all of them that are in P.
holds(list, n, P) ==
    /\ list \in Seq(Test)
    /\ \A p \in DOMAIN list : \E j \in 1 .. n : list[p] = Functions[j]
    /\ \A j \in 1 .. n : j \in P => \E p \in DOMAIN list : list[p] = Functions[j]

Registered ==
    /\ defined \in 0 .. Len(Functions)
    /\ holds(udp_test_cases, defined, Udp) /\ holds(tcp_test_cases, defined, Tcp)

\* What has run and what is left are the selection, in its order.
InStep ==
    /\ Len(results) + Len(left) = Len(chosen)
    /\ \A p \in 1 .. Len(results) : results[p].test = chosen[p]
    /\ \A p \in 1 .. Len(left) : left[p] = chosen[Len(results) + p]

Running ==
    /\ left \in Seq(Test) /\ results \in Seq(Result)
    /\ ~started => left = << >> /\ results = << >>
    /\ started => imported /\ args = << >>
    /\ started => \/ outcome = "usage error" /\ left = << >> /\ results = << >>
                  \/ InStep
    /\ started /\ test_case # NotGiven
           => chosen # << >> \/ outcome = "not found" \/ outcome = "usage error"

\* A green summary comes at the end, when all have passed.
Green ==
    outcome = "green" =>
        started /\ left = << >> /\ \A p \in 1 .. Len(results) : results[p].passed

RunnerInv == Registered /\ Running /\ Green

-----------------------------------------------------------------------------
(* Numbers, sets and sequences.                                              *)

\* A set of naturals has a least element.
LEMMA Least ==
    ASSUME NEW T \in SUBSET Nat, T # {}
    PROVE  \E m \in T : \A n \in T : m <= n
<1>1. PICK m \in T : \A n \in T : ~ (<<n, m>> \in OpToRel(<, Nat))
    BY NatLessThanWellFounded, WFMin, Zenon
<1>2. \A n \in T : ~ (n < m)
    BY <1>1 DEF OpToRel
<1> QED
    BY <1>2

LEMMA LenNat ==
    ASSUME NEW S, NEW l \in Seq(S)
    PROVE  Len(l) \in Nat
OBVIOUS

\* As many as there are: all of them.
LEMMA AllOfThem ==
    ASSUME NEW n \in Nat, NEW T \in SUBSET (1 .. n), Cardinality(T) = n
    PROVE  T = 1 .. n
<1>1. IsFiniteSet(1 .. n) /\ Cardinality(1 .. n) = n
    BY FS_Interval
<1> QED
    BY <1>1, FS_Subset, Zenon

\* l is what follows the first n of c.
follows(l, c, n) == n + Len(l) = Len(c) /\ \A p \in 1 .. Len(l) : l[p] = c[n + p]

\* The head of what is left is the next of the selection c.
LEMMA Advance ==
    ASSUME NEW S, NEW c \in Seq(S), NEW l \in Seq(S), NEW n \in Nat, l # << >>, follows(l, c, n)
    PROVE  /\ Tail(l) \in Seq(S) /\ Head(l) \in S /\ Head(l) = c[n + 1]
           /\ follows(Tail(l), c, n + 1)
<1> USE DEF follows
<1>1. /\ Len(l) >= 1 /\ Tail(l) \in Seq(S) /\ Head(l) = l[1] /\ l[1] \in S
      /\ Len(Tail(l)) = Len(l) - 1 /\ \A p \in 1 .. Len(l) - 1 : Tail(l)[p] = l[p + 1]
    OBVIOUS
<1>2. 1 \in 1 .. Len(l) /\ l[1] = c[n + 1]
    BY <1>1
<1>3. ASSUME NEW p \in 1 .. Len(l) - 1 PROVE Tail(l)[p] = c[(n + 1) + p]
  <2>1. p + 1 \in 1 .. Len(l) /\ n + (p + 1) = (n + 1) + p
      BY <1>1
  <2>2. l[p + 1] = c[n + (p + 1)]
      BY <2>1
  <2> QED
      BY <1>1, <2>1, <2>2, Zenon
<1> QED
    BY <1>1, <1>2, <1>3

\* m is l with f in it besides.
grows(l, f, m) ==
    /\ \A p \in DOMAIN l : p \in DOMAIN m /\ m[p] = l[p]
    /\ \E p \in DOMAIN m : m[p] = f
    /\ \A p \in DOMAIN m : m[p] = f \/ \E q \in DOMAIN l : m[p] = l[q]

LEMMA Added ==
    ASSUME NEW S, NEW l \in Seq(S), NEW f \in S
    PROVE  Append(l, f) \in Seq(S) /\ grows(l, f, Append(l, f))
<1>1. PICK m : m = Append(l, f)
    BY Zenon
<1>2. /\ m \in Seq(S) /\ DOMAIN m = 1 .. Len(l) + 1 /\ Len(l) \in Nat
      /\ DOMAIN l = 1 .. Len(l)
      /\ \A p \in 1 .. Len(l) : m[p] = l[p]
      /\ m[Len(l) + 1] = f
    BY <1>1
<1>3. Len(l) + 1 \in 1 .. Len(l) + 1 /\ \A p \in 1 .. Len(l) + 1 : p = Len(l) + 1 \/ p \in 1 .. Len(l)
    BY <1>2
<1>4. \A p \in 1 .. Len(l) : p \in 1 .. Len(l) + 1
    BY <1>2
<1>5. grows(l, f, m)
    BY <1>2, <1>3, <1>4, Zenon DEF grows
<1> QED
    BY <1>1, <1>2, <1>5, Zenon

-----------------------------------------------------------------------------
(* Registration.                                                             *)

LEMMA FunctionTypes ==
    /\ Len(Functions) \in Nat /\ DOMAIN Functions = 1 .. Len(Functions)
    /\ \A j \in 1 .. Len(Functions) : Functions[j] \in Test
BY RunnerAssumption, SMT

\* A list after an Append, without the Append.
LEMMA HoldsOneMore ==
    ASSUME NEW n \in Nat, NEW list, NEW P, holds(list, n, P), NEW list2 \in Seq(Test), NEW f,
           f = Functions[n + 1], grows(list, f, list2)
    PROVE  holds(list2, n + 1, P)
<1> USE DEF grows
<1>1. n + 1 \in 1 .. n + 1 /\ \A j \in 1 .. n : j \in 1 .. n + 1
    BY SMT
<1>2. \A j \in 1 .. n + 1 : j \in 1 .. n \/ j = n + 1
    BY SMT
<1>3. ASSUME NEW p \in DOMAIN list2 PROVE \E j \in 1 .. n + 1 : list2[p] = Functions[j]
  <2>1. CASE list2[p] = f
      BY <1>1, <2>1, Zenon
  <2>2. ASSUME NEW q \in DOMAIN list, list2[p] = list[q] PROVE \E j \in 1 .. n + 1 : list2[p] = Functions[j]
    <3>1. PICK j \in 1 .. n : list[q] = Functions[j]
        BY <2>2, Zenon DEF holds
    <3> QED
        BY <1>1, <2>2, <3>1, Zenon
  <2> QED
      BY <2>1, <2>2, Zenon
<1>4. ASSUME NEW j \in 1 .. n + 1, j \in P PROVE \E p \in DOMAIN list2 : list2[p] = Functions[j]
  <2>1. CASE j = n + 1
      BY <2>1, Zenon
  <2>2. CASE j \in 1 .. n
    <3>1. PICK p \in DOMAIN list : list[p] = Functions[j]
        BY <1>4, <2>2, Zenon DEF holds
    <3>2. p \in DOMAIN list2 /\ list2[p] = list[p]
        BY <3>1, Zenon
    <3> QED
        BY <3>1, <3>2, Zenon
  <2> QED
      BY <1>2, <2>1, <2>2, Zenon
<1> QED
    BY <1>3, <1>4, Zenon DEF holds

\* One of the lists when the next function is registered.
LEMMA RegisterOne ==
    ASSUME NEW n \in Nat, n + 1 <= Len(Functions), NEW list, NEW P, holds(list, n, P)
    PROVE  /\ holds(Append(list, Functions[n + 1]), n + 1, P)
           /\ n + 1 \notin P => holds(list, n + 1, P)
<1>1. n + 1 \in 1 .. Len(Functions)
    BY FunctionTypes, SMT
<1>2. PICK f \in Test : f = Functions[n + 1]
    BY <1>1, FunctionTypes, Zenon
<1>3. PICK list2 : list2 = Append(list, f)
    BY Zenon
<1>4. list \in Seq(Test)
    BY Zenon DEF holds
<1>5. list2 \in Seq(Test) /\ grows(list, f, list2)
    BY <1>3, <1>4, Added, Zenon
<1>6. holds(list2, n + 1, P)
    BY <1>2, <1>5, HoldsOneMore, Zenon
<1>7. \A j \in 1 .. n : j \in 1 .. n + 1
    BY SMT
<1>8. \A j \in 1 .. n + 1 : j \in 1 .. n \/ j = n + 1
    BY SMT
<1>9. n + 1 \notin P => holds(list, n + 1, P)
    BY <1>7, <1>8, Zenon DEF holds
<1> QED
    BY <1>2, <1>3, <1>6, <1>9, Zenon

LEMMA RegisterStep ==
    ASSUME Registered, register
    PROVE  Registered'
<1>1. PICK n \in Nat : n = defined
    BY FunctionTypes, SMT DEF Registered
<1>2. /\ n + 1 <= Len(Functions) /\ defined' = n + 1 /\ n + 1 \in DOMAIN Functions
      /\ defined' \in 0 .. Len(Functions)
  <2>1. defined < Len(Functions) /\ defined' = defined + 1
      BY Zenon DEF register
  <2> QED
      BY <1>1, <2>1, FunctionTypes, SMT
<1>3. /\ udp_test_cases' = IF "udp" \in Functions[n + 1].words
                           THEN Append(udp_test_cases, Functions[n + 1]) ELSE udp_test_cases
      /\ tcp_test_cases' = IF Functions[n + 1].words = {"tcp"}
                           THEN Append(tcp_test_cases, Functions[n + 1]) ELSE tcp_test_cases
    BY <1>1, <1>2, Zenon DEF register
<1>4. holds(udp_test_cases, n, Udp) /\ holds(tcp_test_cases, n, Tcp)
    BY <1>1, Zenon DEF Registered
<1>5. /\ holds(Append(udp_test_cases, Functions[n + 1]), n + 1, Udp)
      /\ n + 1 \notin Udp => holds(udp_test_cases, n + 1, Udp)
    BY <1>2, <1>4, RegisterOne, Zenon
<1>6. /\ holds(Append(tcp_test_cases, Functions[n + 1]), n + 1, Tcp)
      /\ n + 1 \notin Tcp => holds(tcp_test_cases, n + 1, Tcp)
    BY <1>2, <1>4, RegisterOne, Zenon
<1>7. /\ n + 1 \in Udp <=> "udp" \in Functions[n + 1].words
      /\ n + 1 \in Tcp <=> Functions[n + 1].words = {"tcp"}
    BY <1>2, Zenon DEF Udp, Tcp
<1>8. holds(udp_test_cases', n + 1, Udp) /\ holds(tcp_test_cases', n + 1, Tcp)
    BY <1>3, <1>5, <1>6, <1>7, Zenon
<1> QED
    BY <1>2, <1>8, Zenon DEF Registered, holds, Udp, Tcp

-----------------------------------------------------------------------------
(* The selection.                                                            *)

LEMMA One ==
    ASSUME NEW S, NEW x \in S
    PROVE  <<x>> \in Seq(S) /\ Len(<<x>>) = 1 /\ DOMAIN <<x>> = {1} /\ <<x>>[1] = x
OBVIOUS

\* c holds what a and b hold, and nothing else.
joins(a, b, c) ==
    /\ \A p \in DOMAIN a : \E q \in DOMAIN c : c[q] = a[p]
    /\ \A p \in DOMAIN b : \E q \in DOMAIN c : c[q] = b[p]
    /\ \A q \in DOMAIN c : (\E p \in DOMAIN a : c[q] = a[p]) \/ \E p \in DOMAIN b : c[q] = b[p]

LEMMA Joined ==
    ASSUME NEW S, NEW a \in Seq(S), NEW b \in Seq(S)
    PROVE  a \o b \in Seq(S) /\ joins(a, b, a \o b)
<1>1. PICK c : c = a \o b
    BY Zenon
<1>2. /\ c \in Seq(S) /\ Len(a) \in Nat /\ Len(b) \in Nat
      /\ DOMAIN c = 1 .. Len(a) + Len(b) /\ DOMAIN a = 1 .. Len(a) /\ DOMAIN b = 1 .. Len(b)
      /\ \A p \in 1 .. Len(a) : c[p] = a[p]
      /\ \A p \in 1 .. Len(a) + Len(b) : p > Len(a) => c[p] = b[p - Len(a)]
    BY <1>1
<1>3. ASSUME NEW p \in DOMAIN a PROVE \E q \in DOMAIN c : c[q] = a[p]
  <2>1. p \in DOMAIN c /\ c[p] = a[p]
      BY <1>2
  <2> QED
      BY <2>1, Zenon
<1>4. ASSUME NEW p \in DOMAIN b PROVE \E q \in DOMAIN c : c[q] = b[p]
  <2>1. PICK q : q = Len(a) + p
      BY Zenon
  <2>2. q \in 1 .. Len(a) + Len(b) /\ q > Len(a) /\ q - Len(a) = p
      BY <1>2, <2>1
  <2>3. c[q] = b[p]
      BY <1>2, <2>2, Zenon
  <2> QED
      BY <1>2, <2>2, <2>3, Zenon
<1>5. ASSUME NEW q \in DOMAIN c
      PROVE  (\E p \in DOMAIN a : c[q] = a[p]) \/ \E p \in DOMAIN b : c[q] = b[p]
  <2>1. CASE q \in 1 .. Len(a)
      BY <1>2, <2>1, Zenon
  <2>2. CASE q > Len(a)
    <3>1. q - Len(a) \in DOMAIN b
        BY <1>2, <2>2
    <3>2. c[q] = b[q - Len(a)]
        BY <1>2, <2>2, Zenon
    <3> QED
        BY <3>1, <3>2, Zenon
  <2> QED
      BY <1>2, <2>1, <2>2
<1> QED
    BY <1>1, <1>2, <1>3, <1>4, <1>5, Zenon DEF joins

\* The loop of run_tests stops at a function with the name.
LEMMA FirstFound ==
    ASSUME NEW list \in Seq(Test), found(list) # {}
    PROVE  \E i \in DOMAIN list : list[i].name = test_case /\ firstFound(list) = <<list[i]>>
<1>1. DOMAIN list \subseteq Nat
    OBVIOUS
<1>2. found(list) \in SUBSET Nat
    BY <1>1, Zenon DEF found
<1>3. \E i \in found(list) : \A j \in found(list) : i <= j
    BY <1>2, Least, Zenon
<1>4. PICK k : k = CHOOSE i \in found(list) : \A j \in found(list) : i <= j
    BY Zenon
<1>5. k \in found(list)
    BY <1>3, <1>4, Zenon
<1>6. firstFound(list) = <<list[k]>>
    BY <1>4, Zenon DEF firstFound
<1> QED
    BY <1>5, <1>6, Zenon DEF found

\* What a selection c made with -t may be, and one made without.
namedOnly(c) ==
    /\ Len(c) <= 1
    /\ \A p \in DOMAIN c : c[p].name = test_case
    /\ \A p \in DOMAIN c : \E j \in DOMAIN Functions : c[p] = Functions[j]

complete(c) ==
    \A j \in DOMAIN Functions :
        (udp /\ j \in Udp) \/ (tcp /\ j \in Tcp) => \E p \in DOMAIN c : c[p] = Functions[j]

LEMMA FirstFoundNamed ==
    ASSUME NEW list, NEW P, holds(list, Len(Functions), P), found(list) # {}
    PROVE  firstFound(list) \in Seq(Test) /\ namedOnly(firstFound(list))
<1>1. list \in Seq(Test)
    BY Zenon DEF holds
<1>2. PICK i \in DOMAIN list : list[i].name = test_case /\ firstFound(list) = <<list[i]>>
    BY <1>1, FirstFound, Zenon
<1>3. PICK f : f = list[i]
    BY Zenon
<1>4. f \in Test
    BY <1>1, <1>3, SMT
<1>5. PICK j \in DOMAIN Functions : f = Functions[j]
    BY <1>3, FunctionTypes, Zenon DEF holds
<1>6. PICK c : c = <<f>>
    BY Zenon
<1>7. c \in Seq(Test) /\ Len(c) = 1 /\ DOMAIN c = {1} /\ c[1] = f
    BY <1>4, <1>6, One, Zenon
<1>8. Len(c) <= 1
    BY <1>7, SMT
<1>9. namedOnly(c)
    BY <1>2, <1>3, <1>5, <1>7, <1>8, Zenon DEF namedOnly
<1> QED
    BY <1>2, <1>3, <1>6, <1>7, <1>9, Zenon

LEMMA Nothing ==
    ASSUME NEW S
    PROVE  << >> \in Seq(S) /\ Len(<< >>) = 0 /\ Len(<< >>) <= 1 /\ DOMAIN << >> = {}
OBVIOUS

LEMMA ChosenFacts ==
    ASSUME Registered, imported
    PROVE  /\ chosen \in Seq(Test)
           /\ test_case # NotGiven => namedOnly(chosen)
           /\ test_case = NotGiven => complete(chosen)
<1>1. /\ holds(udp_test_cases, Len(Functions), Udp)
      /\ holds(tcp_test_cases, Len(Functions), Tcp)
    BY Zenon DEF Registered, imported
<1>2. << >> \in Seq(Test) /\ DOMAIN << >> = {} /\ Len(<< >>) <= 1
    BY Nothing, Zenon
<1>3. CASE test_case = NotGiven
  <2>1. PICK a : a = IF udp THEN udp_test_cases ELSE << >>
      BY Zenon
  <2>2. PICK b : b = IF tcp THEN tcp_test_cases ELSE << >>
      BY Zenon
  <2>3. chosen = a \o b
      BY <1>3, <2>1, <2>2, Zenon DEF chosen
  <2>4. a \in Seq(Test) /\ b \in Seq(Test)
      BY <1>1, <1>2, <2>1, <2>2, Zenon DEF holds
  <2>5. chosen \in Seq(Test) /\ joins(a, b, chosen)
      BY <2>3, <2>4, Joined, Zenon
  <2>6. ASSUME NEW j \in DOMAIN Functions, udp, j \in Udp
        PROVE  \E p \in DOMAIN chosen : chosen[p] = Functions[j]
    <3>1. PICK p \in DOMAIN a : a[p] = Functions[j]
        BY <1>1, <2>1, <2>6, FunctionTypes, Zenon DEF holds
    <3> QED
        BY <2>5, <3>1, Zenon DEF joins
  <2>7. ASSUME NEW j \in DOMAIN Functions, tcp, j \in Tcp
        PROVE  \E p \in DOMAIN chosen : chosen[p] = Functions[j]
    <3>1. PICK p \in DOMAIN b : b[p] = Functions[j]
        BY <1>1, <2>2, <2>7, FunctionTypes, Zenon DEF holds
    <3> QED
        BY <2>5, <3>1, Zenon DEF joins
  <2> QED
      BY <1>3, <2>5, <2>6, <2>7, Zenon DEF complete
<1>4. CASE test_case # NotGiven
  <2>1. CASE udp /\ found(udp_test_cases) # {}
    <3>1. chosen = firstFound(udp_test_cases)
        BY <1>4, <2>1, Zenon DEF chosen
    <3> QED
        BY <1>1, <1>4, <2>1, <3>1, FirstFoundNamed, Zenon
  <2>2. CASE ~(udp /\ found(udp_test_cases) # {}) /\ tcp /\ found(tcp_test_cases) # {}
    <3>1. chosen = firstFound(tcp_test_cases)
        BY <1>4, <2>2, Zenon DEF chosen
    <3> QED
        BY <1>1, <1>4, <2>2, <3>1, FirstFoundNamed, Zenon
  <2>3. CASE ~(udp /\ found(udp_test_cases) # {}) /\ ~(tcp /\ found(tcp_test_cases) # {})
    <3>1. chosen = << >>
        BY <1>4, <2>3, Zenon DEF chosen
    <3> QED
        BY <1>2, <1>4, <3>1, Zenon DEF namedOnly
  <2> QED
      BY <2>1, <2>2, <2>3, Zenon
<1> QED
    BY <1>3, <1>4, Zenon

\* While nobody registers a function or parses an option, the selection stays.
LEMMA ChosenKept ==
    ASSUME UNCHANGED lists, UNCHANGED options
    PROVE  chosen' = chosen
<1>1. /\ udp_test_cases' = udp_test_cases /\ tcp_test_cases' = tcp_test_cases
      /\ udp' = udp /\ tcp' = tcp /\ test_case' = test_case
    BY Zenon DEF lists, options
<1>2. found(udp_test_cases)' = found(udp_test_cases) /\ found(tcp_test_cases)' = found(tcp_test_cases)
    BY <1>1, SMT DEF found
<1>3. firstFound(udp_test_cases)' = firstFound(udp_test_cases)
    BY <1>1, <1>2, SMT DEF firstFound
<1>4. firstFound(tcp_test_cases)' = firstFound(tcp_test_cases)
    BY <1>1, <1>2, SMT DEF firstFound
<1> QED
    BY <1>1, <1>2, <1>3, <1>4, SMT DEF chosen, NotGiven

-----------------------------------------------------------------------------
(* The steps.                                                                *)

LEMMA RegisteredKept ==
    ASSUME Registered, UNCHANGED defined, UNCHANGED lists
    PROVE  Registered'
<1>1. udp_test_cases' = udp_test_cases /\ tcp_test_cases' = tcp_test_cases
    BY Zenon DEF lists
<1> QED
    BY <1>1, Zenon DEF Registered, holds, Udp, Tcp

LEMMA RunnerStarts ==
    ASSUME RunnerInit
    PROVE  RunnerInv
<1>1. defined = 0 /\ udp_test_cases = << >> /\ tcp_test_cases = << >> /\ ~started
      /\ left = << >> /\ results = << >> /\ outcome # "green"
    BY Zenon DEF RunnerInit
<1>2. ASSUME NEW P PROVE holds(<< >>, 0, P)
  <2>1. 1 .. 0 = {}
      BY SMT
  <2>2. << >> \in Seq(Test) /\ DOMAIN << >> = {}
      BY Nothing, Zenon
  <2> QED
      BY <2>1, <2>2, Zenon DEF holds
<1>3. 0 \in 0 .. Len(Functions)
    BY FunctionTypes, SMT
<1>4. << >> \in Seq(Test) /\ << >> \in Seq(Result)
    BY Nothing, Zenon
<1> QED
    BY <1>1, <1>2, <1>3, <1>4, Zenon DEF RunnerInv, Registered, Running, Green

\* Before run_tests, only the lists and the options change.
LEMMA BeforeTests ==
    ASSUME RunnerInv, ~started, UNCHANGED progress, Registered', outcome' # "green"
    PROVE  RunnerInv'
BY Zenon DEF RunnerInv, Running, Green, progress

LEMMA RegisterKeeps ==
    ASSUME RunnerInv, register
    PROVE  RunnerInv'
<1>1. defined < Len(Functions) /\ UNCHANGED progress /\ outcome' = outcome
    BY Zenon DEF register
<1>2. ~imported
  <2>1. defined \in 0 .. Len(Functions)
      BY Zenon DEF RunnerInv, Registered
  <2>2. defined < Len(Functions)
      BY <1>1, Zenon
  <2>3. PICK n \in Nat : n = Len(Functions)
      BY FunctionTypes, Zenon
  <2>4. defined # n
      BY <2>1, <2>2, <2>3, SMT
  <2> QED
      BY <2>3, <2>4, Zenon DEF imported
<1>3. ~started /\ outcome # "green"
    BY <1>2, Zenon DEF RunnerInv, Running, Green
<1>4. Registered'
    BY RegisterStep, Zenon DEF RunnerInv
<1> QED
    BY <1>1, <1>3, <1>4, BeforeTests, Zenon

LEMMA ParseKeeps ==
    ASSUME RunnerInv, parseArgument
    PROVE  RunnerInv'
<1>1. args # << >> /\ outcome = "" /\ UNCHANGED <<defined, lists, progress>>
    BY Zenon DEF parseArgument
<1>2. ~started
    BY <1>1, Zenon DEF RunnerInv, Running
<1>3. Registered'
    BY <1>1, RegisteredKept, Zenon DEF RunnerInv
<1>4. outcome' = "" \/ outcome' = "usage" \/ outcome' = "usage error"
    BY <1>1, Zenon DEF parseArgument, parseTestOption, parseProtocolOption, parseRest, stop
<1>5. outcome' # "green"
    BY <1>4, Zenon
<1> QED
    BY <1>1, <1>2, <1>3, <1>5, BeforeTests, Zenon

LEMMA ChooseKeeps ==
    ASSUME RunnerInv, choose
    PROVE  RunnerInv'
<1>1. /\ imported /\ args = << >> /\ ~started /\ started' = TRUE
      /\ UNCHANGED <<defined, lists, args, options, results>>
    BY Zenon DEF choose
<1>2. left = << >> /\ results' = << >> /\ results' \in Seq(Result) /\ Registered' /\ Registered
    BY <1>1, RegisteredKept, Zenon DEF RunnerInv, Running
<1>3. imported' /\ args' = << >> /\ chosen' = chosen /\ chosen \in Seq(Test)
    BY <1>1, <1>2, ChosenKept, ChosenFacts, Zenon DEF imported
<1>4. CASE outcome' = "usage error" /\ left' = left
  <2>1. Running'
      BY <1>1, <1>2, <1>3, <1>4, Nothing, Zenon DEF Running
  <2> QED
      BY <1>2, <1>4, <2>1, Zenon DEF RunnerInv, Green
<1>5. CASE left' = chosen /\ outcome' = IF test_case # NotGiven /\ chosen = << >> THEN "not found" ELSE ""
  <2>1. PICK n : n = Len(results')
      BY Zenon
  <2>2. n = 0
      BY <1>2, <2>1, Nothing, Zenon
  <2>3. Len(chosen) \in Nat /\ 1 .. 0 = {} /\ \A p \in 1 .. Len(chosen) : 0 + p = p
      BY <1>3, SMT
  <2>4. 0 + Len(chosen) = Len(chosen)
      BY <2>3, SMT
  <2>5. /\ Len(results') + Len(left') = Len(chosen')
        /\ \A p \in 1 .. Len(results') : results'[p].test = chosen'[p]
        /\ \A p \in 1 .. Len(left') : left'[p] = chosen'[Len(results') + p]
      BY <1>3, <1>5, <2>1, <2>2, <2>3, <2>4, Zenon
  <2>6. InStep'
      BY <2>5, Zenon DEF InStep
  <2>7. test_case' = test_case
      BY <1>1, Zenon DEF options
  <2>8. Running'
      BY <1>1, <1>2, <1>3, <1>5, <2>6, <2>7, Zenon DEF Running, NotGiven
  <2>9. outcome' # "green"
      BY <1>5, Zenon
  <2> QED
      BY <1>2, <2>8, <2>9, Zenon DEF RunnerInv, Green
<1> QED
    BY <1>4, <1>5, Zenon DEF choose

\* Between the calls of run_tests and the summary, the tests are in step.
LEMMA WhileTesting ==
    ASSUME RunnerInv, outcome = "", started
    PROVE  /\ InStep /\ Registered /\ imported /\ args = << >> /\ chosen \in Seq(Test)
           /\ left \in Seq(Test) /\ results \in Seq(Result) /\ Len(results) \in Nat
           /\ test_case # NotGiven => chosen # << >>
<1>1. /\ InStep /\ Registered /\ imported /\ args = << >>
      /\ left \in Seq(Test) /\ results \in Seq(Result)
      /\ test_case # NotGiven => chosen # << >>
    BY Zenon DEF RunnerInv, Running
<1>2. chosen \in Seq(Test) /\ Len(results) \in Nat
  <2>1. chosen \in Seq(Test)
      BY <1>1, ChosenFacts, Zenon
  <2> QED
      BY <1>1, <2>1, LenNat, Zenon
<1> QED
    BY <1>1, <1>2, Zenon

LEMMA RunTestKeeps ==
    ASSUME RunnerInv, runTest
    PROVE  RunnerInv'
<1>1. /\ outcome = "" /\ left # << >> /\ left' = Tail(left)
      /\ UNCHANGED <<defined, lists, args, options, started, outcome>>
    BY Zenon DEF runTest
<1>2. started
    BY <1>1, Zenon DEF RunnerInv, Running
<1>3. /\ InStep /\ Registered /\ imported /\ args = << >> /\ chosen \in Seq(Test)
      /\ left \in Seq(Test) /\ results \in Seq(Result) /\ Len(results) \in Nat
      /\ test_case # NotGiven => chosen # << >>
    BY <1>1, <1>2, WhileTesting, Zenon
<1>4. PICK n \in Nat : n = Len(results)
    BY <1>3, Zenon
<1>5. chosen' = chosen /\ Registered' /\ imported' /\ test_case' = test_case
    BY <1>1, <1>3, ChosenKept, RegisteredKept, Zenon DEF imported, options
<1>6. PICK c \in Seq(Test) : c = chosen
    BY <1>3, Zenon
<1>7. /\ Tail(left) \in Seq(Test) /\ Head(left) \in Test /\ Head(left) = c[n + 1]
      /\ follows(Tail(left), c, n + 1)
  <2>1. follows(left, c, n)
      BY <1>3, <1>4, <1>6, Zenon DEF InStep, follows
  <2> QED
      BY <1>1, <1>3, <2>1, Advance, Zenon
<1>8. PICK r : r \in Result /\ r.test = c[n + 1] /\ results' = Append(results, r)
  <2>1. PICK passed \in BOOLEAN : results' = Append(results, [test |-> Head(left), passed |-> passed])
      BY Zenon DEF runTest
  <2>2. PICK h \in Test : h = Head(left)
      BY <1>7, Zenon
  <2>3. [test |-> h, passed |-> passed] \in Result /\ [test |-> h, passed |-> passed].test = h
      BY SMT DEF Result
  <2> QED
      BY <1>7, <2>1, <2>2, <2>3, Zenon
<1>9. /\ results' \in Seq(Result) /\ Len(results') = n + 1 /\ results'[n + 1] = r
      /\ \A p \in 1 .. n : results'[p] = results[p]
    BY <1>3, <1>4, <1>8, SMT
<1>10. \A p \in 1 .. n : results[p].test = c[p]
    BY <1>3, <1>4, <1>6, Zenon DEF InStep
<1>11. \A p \in 1 .. n + 1 : p \in 1 .. n \/ p = n + 1
    BY SMT
<1>12. \A p \in 1 .. n + 1 : results'[p].test = c[p]
    BY <1>8, <1>9, <1>10, <1>11, Zenon
<1>13. InStep'
    BY <1>1, <1>5, <1>6, <1>7, <1>9, <1>12, Zenon DEF InStep, follows
<1>14. Running'
    BY <1>1, <1>2, <1>3, <1>5, <1>7, <1>9, <1>13, Zenon DEF Running, NotGiven
<1> QED
    BY <1>1, <1>5, <1>14, Zenon DEF RunnerInv, Green

LEMMA SummarizeKeeps ==
    ASSUME RunnerInv, summarize
    PROVE  RunnerInv'
<1>1. /\ outcome = "" /\ started /\ left = << >>
      /\ outcome' = IF test_cases_passed = total_cases THEN "green" ELSE "red"
      /\ UNCHANGED <<defined, lists, args, options, progress>>
    BY Zenon DEF summarize
<1>2. /\ InStep /\ Registered /\ imported /\ args = << >> /\ chosen \in Seq(Test)
      /\ left \in Seq(Test) /\ results \in Seq(Result) /\ Len(results) \in Nat
      /\ test_case # NotGiven => chosen # << >>
    BY <1>1, WhileTesting, Zenon
<1>3. chosen' = chosen /\ Registered' /\ imported' /\ test_case' = test_case
    BY <1>1, <1>2, ChosenKept, RegisteredKept, Zenon DEF imported, options
<1>4. started' = started /\ left' = left /\ results' = results /\ args' = args
    BY <1>1, Zenon DEF progress
<1>5. InStep'
    BY <1>2, <1>3, <1>4, Zenon DEF InStep
<1>6. Running'
    BY <1>1, <1>2, <1>3, <1>4, <1>5, Zenon DEF Running, NotGiven
<1>7. ASSUME outcome' = "green" PROVE \A p \in 1 .. Len(results) : results[p].passed
  <2>1. test_cases_passed = total_cases
      BY <1>1, <1>7, Zenon
  <2>2. PICK T : T = {i \in DOMAIN results : results[i].passed}
      BY Zenon
  <2>3. DOMAIN results = 1 .. Len(results)
      BY <1>2, SMT
  <2>4. T \in SUBSET (1 .. Len(results)) /\ Cardinality(T) = Len(results)
      BY <2>1, <2>2, <2>3, Zenon DEF test_cases_passed, total_cases
  <2>5. T = 1 .. Len(results)
      BY <1>2, <2>4, AllOfThem, Zenon
  <2> QED
      BY <2>2, <2>5, Zenon
<1>8. Green'
    BY <1>1, <1>4, <1>7, Zenon DEF Green
<1> QED
    BY <1>3, <1>6, <1>8, Zenon DEF RunnerInv

LEMMA RunnerStutter ==
    ASSUME RunnerInv, UNCHANGED runnerVars
    PROVE  RunnerInv'
<1>1. /\ UNCHANGED defined /\ UNCHANGED lists /\ UNCHANGED options /\ UNCHANGED progress
      /\ args' = args /\ outcome' = outcome
    BY Zenon DEF runnerVars
<1>2. Registered' /\ chosen' = chosen
    BY <1>1, RegisteredKept, ChosenKept, Zenon DEF RunnerInv
<1>3. /\ started' = started /\ left' = left /\ results' = results /\ test_case' = test_case
      /\ defined' = defined
    BY <1>1, Zenon DEF progress, options
<1>4. InStep' <=> InStep
    BY <1>2, <1>3, Zenon DEF InStep
<1>5. Running'
    BY <1>1, <1>2, <1>3, <1>4, Zenon DEF RunnerInv, Running, imported, NotGiven
<1> QED
    BY <1>1, <1>2, <1>3, <1>5, Zenon DEF RunnerInv, Green

-----------------------------------------------------------------------------
(* The properties.                                                           *)

\* What has run is what was selected, at the same place.
LEMMA RanSelected ==
    ASSUME RunnerInv, outcome = "green"
    PROVE  /\ \A p \in DOMAIN chosen : p \in DOMAIN results /\ results[p].test = chosen[p] /\ results[p].passed
           /\ Registered /\ imported /\ chosen \in Seq(Test)
           /\ test_case # NotGiven => chosen # << >>
<1>1. /\ started /\ left = << >> /\ (\A p \in 1 .. Len(results) : results[p].passed)
      /\ Registered
    BY Zenon DEF RunnerInv, Green
<1>2. /\ InStep /\ imported /\ results \in Seq(Result)
      /\ test_case # NotGiven => chosen # << >>
    BY <1>1, Zenon DEF RunnerInv, Running
<1>3. chosen \in Seq(Test)
    BY <1>1, <1>2, ChosenFacts, Zenon
<1>4. Len(results) + Len(left) = Len(chosen) /\ \A p \in 1 .. Len(results) : results[p].test = chosen[p]
    BY <1>2, Zenon DEF InStep
<1>5. PICK c \in Seq(Test) : c = chosen
    BY <1>3, Zenon
<1>6. DOMAIN c = 1 .. Len(results) /\ DOMAIN results = 1 .. Len(results)
    BY <1>1, <1>2, <1>4, <1>5, SMT
<1> QED
    BY <1>1, <1>2, <1>3, <1>4, <1>5, <1>6, Zenon

LEMMA GreenFollows ==
    ASSUME RunnerInv
    PROVE  GreenMeansPassed
<1> SUFFICES ASSUME outcome = "green" PROVE GreenMeansPassed
    BY Zenon DEF GreenMeansPassed
<1>1. /\ \A p \in DOMAIN chosen : p \in DOMAIN results /\ results[p].test = chosen[p] /\ results[p].passed
      /\ Registered /\ imported /\ chosen \in Seq(Test)
      /\ test_case # NotGiven => chosen # << >>
    BY RanSelected, Zenon
<1>2. ASSUME NEW j \in DOMAIN Functions, NEW p \in DOMAIN chosen, chosen[p] = Functions[j]
      PROVE  ran(Functions[j])
    BY <1>1, <1>2, Zenon DEF ran
<1>3. CASE test_case # NotGiven
  <2>1. PICK c \in Seq(Test) : c = chosen
      BY <1>1, Zenon
  <2>2. 1 \in DOMAIN c
      BY <1>1, <1>3, <2>1, SMT
  <2>3. namedOnly(chosen)
      BY <1>1, <1>3, ChosenFacts, Zenon
  <2>4. PICK j \in DOMAIN Functions : chosen[1] = Functions[j] /\ chosen[1].name = test_case
      BY <2>1, <2>2, <2>3, Zenon DEF namedOnly
  <2>5. ran(Functions[j]) /\ Functions[j].name = test_case
      BY <1>2, <2>1, <2>2, <2>4, Zenon
  <2> QED
      BY <1>3, <2>5, Zenon DEF GreenMeansPassed
<1>4. CASE test_case = NotGiven
  <2>1. complete(chosen)
      BY <1>1, <1>4, ChosenFacts, Zenon
  <2>2. ASSUME NEW j \in DOMAIN Functions,
               (udp /\ "udp" \in Functions[j].words) \/ (tcp /\ Functions[j].words = {"tcp"})
        PROVE  ran(Functions[j])
    <3>1. (udp /\ j \in Udp) \/ (tcp /\ j \in Tcp)
        BY <2>2, Zenon DEF Udp, Tcp
    <3>2. PICK p \in DOMAIN chosen : chosen[p] = Functions[j]
        BY <2>1, <3>1, Zenon DEF complete
    <3> QED
        BY <1>2, <3>2, Zenon
  <2> QED
      BY <1>4, <2>2, Zenon DEF GreenMeansPassed
<1> QED
    BY <1>3, <1>4, Zenon

LEMMA OnlyNamedFollows ==
    ASSUME RunnerInv
    PROVE  OnlyNamed
<1> SUFFICES ASSUME test_case # NotGiven
             PROVE  Len(results) <= 1 /\ \A i \in DOMAIN results : results[i].test.name = test_case
    BY Zenon DEF OnlyNamed
<1>1. CASE results = << >>
    BY <1>1, Nothing, Zenon
<1>2. CASE results # << >>
  <2>1. /\ InStep /\ Registered /\ imported
        /\ left \in Seq(Test) /\ results \in Seq(Result)
      BY <1>2, Zenon DEF RunnerInv, Running
  <2>2. PICK c \in Seq(Test) : c = chosen /\ namedOnly(c)
      BY <2>1, ChosenFacts, Zenon
  <2>3. /\ Len(results) + Len(left) = Len(c) /\ Len(c) <= 1
        /\ \A p \in 1 .. Len(results) : results[p].test = c[p]
        /\ \A p \in DOMAIN c : c[p].name = test_case
      BY <2>1, <2>2, Zenon DEF InStep, namedOnly
  <2>4. /\ Len(results) <= 1 /\ DOMAIN results = 1 .. Len(results)
        /\ \A p \in 1 .. Len(results) : p \in DOMAIN c
      BY <2>1, <2>2, <2>3, SMT
  <2> QED
      BY <2>3, <2>4, Zenon
<1> QED
    BY <1>1, <1>2

\* The invariant of testo.py's runner.
LEMMA RunnerInvariance == RunnerSpec => []RunnerInv
<1>1. RunnerInit => RunnerInv
    BY RunnerStarts, Zenon
<1>2. RunnerInv /\ [RunnerNext]_runnerVars => RunnerInv'
    BY RegisterKeeps, ParseKeeps, ChooseKeeps, RunTestKeeps, SummarizeKeeps, RunnerStutter, Zenon
       DEF RunnerNext
<1> QED
    BY <1>1, <1>2, PTL DEF RunnerSpec

\* A green summary of run_tests means that every function the decorator testcase
\* registered for the selected protocols, or one with the name given by -t, has run
\* and passed: for every file of test functions and every command line.
THEOREM GreenMeansPassedCorrect == RunnerSpec => []GreenMeansPassed
<1>1. RunnerInv => GreenMeansPassed
    BY GreenFollows, Zenon
<1> QED
    BY <1>1, RunnerInvariance, PTL

\* With -t run_tests runs at most one function, and one of that name, whatever names
\* are defined twice and in whichever list they are.
THEOREM OnlyNamedCorrect == RunnerSpec => []OnlyNamed
<1>1. RunnerInv => OnlyNamed
    BY OnlyNamedFollows, Zenon
<1> QED
    BY <1>1, RunnerInvariance, PTL
=============================================================================
