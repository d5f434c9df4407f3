-------------------------- MODULE TcpSessionProofs --------------------------
(***************************************************************************)
(* TcpSession implements TcpInOrder: however TCP cuts the stream and       *)
(* whatever the buffer holds, the client does what it would do if it were  *)
(* handed the server's messages whole, one by one and in order.  For every *)
(* size limit, all sizes of messages and streams of any length.            *)
(*                                                                         *)
(* The invariant says where the messages in the buffer and on the wire     *)
(* end (Framed), and that the handler leaves no whole message behind       *)
(* (Drained).                                                              *)
(***************************************************************************)
EXTENDS TcpSession, TcpClientProofs, SequenceTheorems

stream == m_msg_from_server \o wire

\* The messages q make up the bytes b, and the k-th of them ends at the place p[k].
framing(p, q, b) ==
    /\ p \in [0 .. Len(q) -> Nat] /\ p[0] = 0 /\ p[Len(q)] = Len(b)
    /\ \A j, k \in 0 .. Len(q) : j < k => p[j] < p[k]
    /\ \A k \in 1 .. Len(q) :
           b[p[k]].last /\ q[k].msg = b[p[k]].msg /\ q[k].size = p[k] - p[k - 1]
    /\ \A i \in 1 .. Len(b) : b[i].last => \E k \in 1 .. Len(q) : p[k] = i

Frame == [msg : Inputs, size : Nat]

Framed ==
    /\ pending \in Seq(Frame) /\ wire \in Seq(Byte) /\ BufferOK
    /\ \E p : framing(p, pending, stream)

\* Between two calls of the handler no complete message is in the buffer.
Drained == ~in_handler => ends = {}

FramedInv == Framed /\ Drained

-----------------------------------------------------------------------------
(* Frames.                                                                   *)

LEMMA FrameNone == framing([k \in {0} |-> 0], << >>, << >>)
<1>1. 0 .. 0 = {0} /\ 1 .. 0 = {} /\ Len(<< >>) = 0
    BY SMT
<1> QED
    BY <1>1, SMT DEF framing

\* A message is written after the others.
LEMMA FrameAppend ==
    ASSUME NEW B, NEW Q, NEW q \in Seq(Q), NEW b \in Seq(B), NEW p, framing(p, q, b),
           NEW f \in Q, NEW n \in Nat, n > 0, NEW c \in Seq(B), Len(c) = n,
           \A i \in 1 .. n : c[i].last <=> i = n,
           f.size = n, f.msg = c[n].msg
    PROVE  \E p2 : framing(p2, Append(q, f), b \o c)
<1> DEFINE l == Len(q)
           p2 == [k \in 0 .. l + 1 |-> IF k = l + 1 THEN Len(b) + n ELSE p[k]]
<1>1. PICK q2 \in Seq(Q) : q2 = Append(q, f)
    BY Zenon, AppendProperties
<1>2. PICK b2 \in Seq(B) : b2 = b \o c
    BY ConcatProperties, Zenon
<1>3. /\ l \in Nat /\ Len(b) \in Nat /\ Len(q2) = l + 1 /\ q2[l + 1] = f
      /\ \A k \in 1 .. l : q2[k] = q[k]
    BY <1>1
<1>4. /\ Len(b2) = Len(b) + n
      /\ \A i \in 1 .. Len(b) : b2[i] = b[i]
      /\ \A i \in 1 .. n : b2[Len(b) + i] = c[i]
  <2>0. /\ Len(b \o c) = Len(b) + Len(c)
        /\ \A i \in 1 .. Len(b) + Len(c) :
               (b \o c)[i] = IF i <= Len(b) THEN b[i] ELSE c[i - Len(b)]
      BY ConcatProperties
  <2>1. /\ Len(b2) = Len(b) + n
        /\ \A i \in 1 .. Len(b) + n : b2[i] = IF i <= Len(b) THEN b[i] ELSE c[i - Len(b)]
      BY <1>2, <2>0, Zenon
  <2>2. ASSUME NEW i \in 1 .. n PROVE b2[Len(b) + i] = c[i]
    <3>1. Len(b) + i \in 1 .. Len(b) + n /\ ~(Len(b) + i <= Len(b)) /\ (Len(b) + i) - Len(b) = i
        BY <1>3
    <3> QED
        BY <2>1, <3>1, Zenon
  <2> QED
      BY <1>3, <2>1, <2>2
<1>5. /\ p \in [0 .. l -> Nat] /\ p[0] = 0 /\ p[l] = Len(b)
      /\ \A j, k \in 0 .. l : j < k => p[j] < p[k]
    BY DEF framing
<1>6. \A k \in 0 .. l : p2[k] = p[k] /\ p[k] \in Nat /\ p[k] <= Len(b)
  <2>1. ASSUME NEW k \in 0 .. l PROVE p[k] \in Nat /\ p[k] <= Len(b) /\ p2[k] = p[k]
    <3>0. p[k] \in Nat
        BY <1>5, Zenon
    <3>1. k # l + 1 /\ k \in 0 .. l + 1 /\ l \in 0 .. l
        BY <1>3
    <3>2. k = l \/ k < l
        BY <1>3
    <3>3. k < l => p[k] < p[l]
        BY <1>5, <3>1, Zenon
    <3>4. p[k] <= Len(b)
        BY <1>3, <1>5, <3>0, <3>2, <3>3
    <3> QED
        BY <3>0, <3>1, <3>4, Zenon
  <2> QED
      BY <2>1, Zenon
<1>7. p2[l + 1] = Len(b) + n
    BY <1>3
<1>8. p2 \in [0 .. l + 1 -> Nat] /\ p2[0] = 0
    BY <1>3, <1>5
<1> HIDE DEF p2
<1>9. \A j, k \in 0 .. l + 1 : j < k => p2[j] < p2[k]
  <2> SUFFICES ASSUME NEW j \in 0 .. l + 1, NEW k \in 0 .. l + 1, j < k PROVE p2[j] < p2[k]
      BY Zenon
  <2>1. j \in 0 .. l
      BY <1>3
  <2>2. p2[j] = p[j] /\ p[j] \in Nat /\ p[j] <= Len(b)
      BY <1>6, <2>1, Zenon
  <2>3. CASE k = l + 1
      BY <1>3, <1>7, <2>2, <2>3
  <2>4. CASE k \in 0 .. l
      BY <1>5, <1>6, <2>1, <2>2, <2>4, Zenon
  <2> QED
      BY <1>3, <2>3, <2>4
<1>10. ASSUME NEW k \in 1 .. l + 1
       PROVE  b2[p2[k]].last /\ q2[k].msg = b2[p2[k]].msg /\ q2[k].size = p2[k] - p2[k - 1]
  <2>1. CASE k = l + 1
    <3>1. p2[k - 1] = Len(b) /\ p2[k] = Len(b) + n
        BY <1>3, <1>5, <1>6, <1>7, <2>1
    <3>2. n \in 1 .. n /\ b2[Len(b) + n] = c[n]
        BY <1>4
    <3> QED
        BY <1>3, <2>1, <3>1, <3>2
  <2>2. CASE k \in 1 .. l
    <3>1. b[p[k]].last /\ q[k].msg = b[p[k]].msg /\ q[k].size = p[k] - p[k - 1]
        BY <2>2 DEF framing
    <3>2. 0 \in 0 .. l /\ k \in 0 .. l /\ k - 1 \in 0 .. l /\ 0 < k
        BY <1>3, <2>2
    <3>3. p[k] \in 1 .. Len(b) /\ p2[k] = p[k] /\ p2[k - 1] = p[k - 1]
      <4>1. p[0] < p[k] /\ p[k] <= Len(b) /\ p[k] \in Nat
          BY <1>5, <1>6, <3>2, Zenon
      <4>2. p[k] \in 1 .. Len(b)
          BY <1>3, <1>5, <4>1
      <4> QED
          BY <1>6, <3>2, <4>2, Zenon
    <3>4. b2[p[k]] = b[p[k]] /\ q2[k] = q[k]
        BY <1>3, <1>4, <2>2, <3>3, Zenon
    <3> QED
        BY <3>1, <3>3, <3>4, Zenon
  <2> QED
      BY <1>3, <2>1, <2>2
<1>11. ASSUME NEW i \in 1 .. Len(b) + n, b2[i].last PROVE \E k \in 1 .. l + 1 : p2[k] = i
  <2>1. CASE i \in 1 .. Len(b)
    <3>1. PICK k \in 1 .. l : p[k] = i
      <4>1. b[i].last
          BY <1>4, <1>11, <2>1, Zenon
      <4> QED
          BY <2>1, <4>1, Zenon DEF framing
    <3>2. k \in 1 .. l + 1 /\ p2[k] = i
        BY <1>3, <1>6, <3>1
    <3> QED
        BY <3>2, Zenon
  <2>2. CASE i \notin 1 .. Len(b)
    <3>1. i - Len(b) \in 1 .. n /\ Len(b) + (i - Len(b)) = i
        BY <1>3, <2>2
    <3>2. b2[i] = c[i - Len(b)]
        BY <1>4, <3>1, Zenon
    <3>3. i - Len(b) = n
        BY <1>11, <3>1, <3>2, Zenon
    <3>4. l + 1 \in 1 .. l + 1 /\ p2[l + 1] = i
        BY <1>3, <1>7, <3>1, <3>3
    <3> QED
        BY <3>4, Zenon
  <2> QED
      BY <2>1, <2>2
<1>12. framing(p2, q2, b2)
    BY <1>3, <1>4, <1>7, <1>8, <1>9, <1>10, <1>11, Zenon DEF framing
<1> QED
    BY <1>1, <1>2, <1>12, Zenon

\* The places are in order and in the stream.
LEMMA FramePlaces ==
    ASSUME NEW Q, NEW B, NEW q \in Seq(Q), NEW b \in Seq(B), NEW p, framing(p, q, b),
           NEW k \in 1 .. Len(q)
    PROVE  /\ p[k] \in 1 .. Len(b) /\ b[p[k]].last
           /\ p[1] \in 1 .. Len(b) /\ b[p[1]].last /\ p[1] <= p[k]
<1>1. Len(q) \in Nat /\ Len(b) \in Nat
    BY LenProperties
<1>2. /\ p \in [0 .. Len(q) -> Nat] /\ p[0] = 0 /\ p[Len(q)] = Len(b)
      /\ \A j, n \in 0 .. Len(q) : j < n => p[j] < p[n]
      /\ \A n \in 1 .. Len(q) : b[p[n]].last
    BY Zenon DEF framing
<1>3. ASSUME NEW n \in 1 .. Len(q) PROVE p[n] \in 1 .. Len(b)
  <2>1. n \in 0 .. Len(q) /\ 0 \in 0 .. Len(q) /\ Len(q) \in 0 .. Len(q) /\ 0 < n
      BY <1>1
  <2>2. p[n] \in Nat /\ p[0] < p[n] /\ (n < Len(q) => p[n] < p[Len(q)])
      BY <1>2, <2>1, Zenon
  <2>3. n = Len(q) \/ n < Len(q)
      BY <1>1
  <2> QED
      BY <1>1, <1>2, <2>2, <2>3
<1>4. 1 \in 1 .. Len(q) /\ 1 \in 0 .. Len(q) /\ k \in 0 .. Len(q) /\ (k = 1 \/ 1 < k)
    BY <1>1
<1>5. p[1] \in 1 .. Len(b) /\ p[k] \in 1 .. Len(b)
    BY <1>3, <1>4, Zenon
<1>6. k = 1 \/ p[1] < p[k]
    BY <1>2, <1>4, Zenon
<1>7. p[1] <= p[k]
    BY <1>1, <1>5, <1>6
<1> QED
    BY <1>2, <1>4, <1>5, <1>7, Zenon

\* The first byte that ends a message ends the oldest one.
LEMMA FrameFirst ==
    ASSUME NEW Q, NEW B, NEW q \in Seq(Q), NEW b \in Seq(B), NEW p, framing(p, q, b),
           NEW i \in 1 .. Len(b), b[i].last, \A j \in 1 .. i - 1 : ~b[j].last
    PROVE  1 \in 1 .. Len(q) /\ p[1] = i /\ q[1].msg = b[i].msg /\ q[1].size = i
<1>1. PICK k \in 1 .. Len(q) : p[k] = i
    BY Zenon DEF framing
<1>2. p[1] \in 1 .. Len(b) /\ b[p[1]].last /\ p[1] <= i
    BY <1>1, FramePlaces, Zenon
<1>3. 1 \in 1 .. Len(q) /\ Len(b) \in Nat /\ 1 - 1 = 0 /\ i - 0 = i
    BY LenProperties
<1>4. p[1] = i
  <2>1. p[1] \notin 1 .. i - 1
      BY <1>2, Zenon
  <2> QED
      BY <1>2, <1>3, <2>1
<1>5. q[1].msg = b[p[1]].msg /\ q[1].size = p[1] - p[1 - 1] /\ p[0] = 0
    BY <1>3, Zenon DEF framing
<1> QED
    BY <1>3, <1>4, <1>5, Zenon

\* No message is pending when no byte ends one.
LEMMA FrameEmpty ==
    ASSUME NEW Q, NEW B, NEW q \in Seq(Q), NEW b \in Seq(B), NEW p, framing(p, q, b),
           \A j \in 1 .. Len(b) : ~b[j].last
    PROVE  q = << >>
<1>1. ASSUME NEW k \in 1 .. Len(q) PROVE FALSE
    BY FramePlaces, Zenon
<1>2. Len(q) \in Nat /\ (Len(q) = 0 => q = << >>)
    BY LenProperties, EmptySeq
<1>3. Len(q) = 0 \/ 1 \in 1 .. Len(q)
    BY <1>2
<1> QED
    BY <1>1, <1>2, <1>3, Zenon

\* Bytes that end no message belong to the oldest one, which is longer than they are.
LEMMA FrameLong ==
    ASSUME NEW Q, NEW B, NEW q \in Seq(Q), NEW b \in Seq(B), NEW p, framing(p, q, b),
           NEW n \in 1 .. Len(b), \A j \in 1 .. n : ~b[j].last
    PROVE  1 \in 1 .. Len(q) /\ q[1].size > n
<1>1. Len(q) \in Nat /\ Len(b) \in Nat /\ 1 - 1 = 0
    BY LenProperties
<1>2. Len(q) # 0
  <2>1. p[0] = 0 /\ p[Len(q)] = Len(b)
      BY Zenon DEF framing
  <2> QED
      BY <1>1, <2>1
<1>3. 1 \in 1 .. Len(q)
    BY <1>1, <1>2
<1>4. p[1] \in 1 .. Len(b) /\ b[p[1]].last
    BY <1>3, FramePlaces, Zenon
<1>5. p[1] \notin 1 .. n
    BY <1>4, Zenon
<1>6. q[1].size = p[1] - p[1 - 1] /\ p[0] = 0
    BY <1>3, Zenon DEF framing
<1>7. p[1] > n /\ p[1] - 0 = p[1]
    BY <1>1, <1>4, <1>5
<1>8. q[1].size = p[1]
    BY <1>1, <1>6, <1>7, Zenon
<1> QED
    BY <1>3, <1>7, <1>8, Zenon

\* The oldest message is taken away.
LEMMA FrameTail ==
    ASSUME NEW Q, NEW B, NEW q \in Seq(Q), NEW b \in Seq(B), NEW p, framing(p, q, b),
           1 \in 1 .. Len(q)
    PROVE  \E p2 : framing(p2, Tail(q), SubSeq(b, p[1] + 1, Len(b)))
<1>1. PICK l \in Nat : l = Len(q) - 1
    BY LenProperties
<1>2. PICK n \in Nat : n = Len(b)
    BY LenProperties
<1>3. PICK i \in 1 .. n : i = p[1]
    BY <1>2, FramePlaces, Zenon
<1>4. Len(q) = l + 1
    BY <1>1, LenProperties
<1> DEFINE p2 == [k \in 0 .. l |-> p[k + 1] - i]
<1>5. PICK q2 : q2 = Tail(q)
    BY Zenon
<1>6. Len(q2) = l /\ \A k \in 1 .. l : q2[k] = q[k + 1]
  <2>1. q # << >>
      BY LenProperties
  <2>2. Len(Tail(q)) = Len(q) - 1 /\ \A k \in 1 .. Len(Tail(q)) : Tail(q)[k] = q[k + 1]
      BY <2>1, HeadTailProperties
  <2> QED
      BY <1>1, <1>5, <2>2, Zenon
<1>7. PICK b2 : b2 = SubSeq(b, i + 1, n)
    BY Zenon
<1>8. Len(b2) = n - i /\ \A j \in 1 .. n - i : b2[j] = b[i + j]
  <2>1. i + 1 \in Int /\ n \in Int /\ \A j \in i + 1 .. n : b[j] \in B
      BY <1>2, ElementOfSeq
  <2>2. /\ Len(SubSeq(b, i + 1, n)) = IF i + 1 <= n THEN n - (i + 1) + 1 ELSE 0
        /\ \A j \in 1 .. n - (i + 1) + 1 : SubSeq(b, i + 1, n)[j] = b[(i + 1) + j - 1]
      BY <2>1, SubSeqProperties
  <2>3. n - (i + 1) + 1 = n - i /\ (i + 1 <= n \/ n - i = 0)
      OBVIOUS
  <2>4. \A j \in 1 .. n - i : (i + 1) + j - 1 = i + j
      OBVIOUS
  <2> QED
      BY <1>7, <2>2, <2>3, <2>4
<1>9. /\ p \in [0 .. l + 1 -> Nat] /\ p[l + 1] = n
      /\ \A j, k \in 0 .. l + 1 : j < k => p[j] < p[k]
      /\ \A k \in 1 .. l + 1 :
             b[p[k]].last /\ q[k].msg = b[p[k]].msg /\ q[k].size = p[k] - p[k - 1]
      /\ \A j \in 1 .. n : b[j].last => \E k \in 1 .. l + 1 : p[k] = j
    BY <1>2, <1>4, Zenon DEF framing
<1>10. \A k \in 0 .. l : k + 1 \in 1 .. l + 1 /\ k + 1 \in 0 .. l + 1 /\ p2[k] = p[k + 1] - i
    OBVIOUS
<1> HIDE DEF p2
<1>11. ASSUME NEW k \in 0 .. l PROVE p[k + 1] \in i .. n
    BY <1>2, <1>3, <1>4, <1>10, FramePlaces
<1>12. p2 \in [0 .. l -> Nat] /\ p2[0] = 0 /\ p2[l] = n - i
  <2>1. \A k \in 0 .. l : p[k + 1] - i \in Nat
      BY <1>11
  <2>2. p2 \in [0 .. l -> Nat]
      BY <2>1 DEF p2
  <2>3. 0 \in 0 .. l /\ l \in 0 .. l /\ 0 + 1 = 1 /\ i - i = 0
      OBVIOUS
  <2> QED
      BY <1>3, <1>9, <1>10, <2>2, <2>3, Zenon
<1>13. \A j, k \in 0 .. l : j < k => p2[j] < p2[k]
  <2> SUFFICES ASSUME NEW j \in 0 .. l, NEW k \in 0 .. l, j < k PROVE p2[j] < p2[k]
      BY Zenon
  <2>1. j + 1 < k + 1
      OBVIOUS
  <2>2. p[j + 1] < p[k + 1] /\ p2[j] = p[j + 1] - i /\ p2[k] = p[k + 1] - i
      BY <1>9, <1>10, <2>1, Zenon
  <2>3. p[j + 1] \in i .. n /\ p[k + 1] \in i .. n
      BY <1>11, Zenon
  <2> QED
      BY <2>2, <2>3
<1>14. ASSUME NEW k \in 1 .. l
       PROVE  b2[p2[k]].last /\ q2[k].msg = b2[p2[k]].msg /\ q2[k].size = p2[k] - p2[k - 1]
  <2>1. k \in 0 .. l /\ k - 1 \in 0 .. l /\ (k - 1) + 1 = k /\ (k + 1) - 1 = k /\ 0 \in 0 .. l
        /\ 0 < k
      OBVIOUS
  <2>2. PICK x \in i .. n : x = p[k + 1]
      BY <1>11, <2>1, Zenon
  <2>3. PICK y \in i .. n : y = p[k]
      BY <1>11, <2>1, Zenon
  <2>4. p2[k] = x - i /\ p2[k - 1] = y - i
      BY <1>10, <2>1, <2>2, <2>3, Zenon
  <2>5. p2[k] \in 1 .. n - i
    <3>1. p2[0] < p2[k] /\ p2[0] = 0
        BY <1>12, <1>13, <2>1, Zenon
    <3> QED
        BY <2>4, <3>1
  <2>6. b2[p2[k]] = b[x] /\ q2[k] = q[k + 1]
    <3>1. i + p2[k] = x
        BY <2>4
    <3> QED
        BY <1>6, <1>8, <2>5, <3>1, Zenon
  <2>7. b[x].last /\ q[k + 1].msg = b[x].msg /\ q[k + 1].size = x - y
      BY <1>9, <1>10, <2>1, <2>2, <2>3, Zenon
  <2>8. x - y = p2[k] - p2[k - 1]
      BY <2>4
  <2> QED
      BY <2>6, <2>7, <2>8, Zenon
<1>15. ASSUME NEW j \in 1 .. n - i, b2[j].last PROVE \E k \in 1 .. l : p2[k] = j
  <2>1. i + j \in 1 .. n /\ i + j # i /\ (i + j) - i = j
      OBVIOUS
  <2>2. PICK k \in 1 .. l + 1 : p[k] = i + j
      BY <1>8, <1>9, <1>15, <2>1, Zenon
  <2>3. k # 1
      BY <1>3, <2>1, <2>2, Zenon
  <2>4. k - 1 \in 1 .. l /\ k - 1 \in 0 .. l /\ (k - 1) + 1 = k
      BY <2>3
  <2>5. p2[k - 1] = j
      BY <1>10, <2>1, <2>2, <2>4, Zenon
  <2> QED
      BY <2>4, <2>5, Zenon
<1>16. framing(p2, q2, b2)
    BY <1>6, <1>8, <1>12, <1>13, <1>14, <1>15, Zenon DEF framing
<1> QED
    BY <1>2, <1>3, <1>5, <1>7, <1>16, Zenon

-----------------------------------------------------------------------------
(* The buffer and the wire.                                                  *)

\* The buffer is the beginning of the stream.
LEMMA StreamBegins ==
    ASSUME NEW B, NEW b \in Seq(B), NEW w \in Seq(B)
    PROVE  /\ b \o w \in Seq(B) /\ Len(b \o w) = Len(b) + Len(w)
           /\ Len(b) \in Nat /\ Len(w) \in Nat
           /\ \A i \in 1 .. Len(b) : i \in 1 .. Len(b \o w) /\ (b \o w)[i] = b[i]
    BY ConcatProperties, LenProperties

\* A sequence cut in two.
LEMMA SeqCut ==
    ASSUME NEW B, NEW b \in Seq(B), NEW i \in 1 .. Len(b)
    PROVE  /\ SubSeq(b, 1, i) \in Seq(B) /\ Len(SubSeq(b, 1, i)) = i
           /\ SubSeq(b, i + 1, Len(b)) \in Seq(B)
           /\ SubSeq(b, 1, i) \o SubSeq(b, i + 1, Len(b)) = b
<1>1. PICK n \in Nat : n = Len(b)
    BY LenProperties
<1>2. \A j \in 1 .. n : b[j] \in B
    BY <1>1, ElementOfSeq
<1>3. 1 \in Int /\ i \in Int /\ i + 1 \in Int /\ n \in Int /\ i - 1 + 1 = i /\ 1 <= i
    BY <1>1
<1>4. (\A j \in 1 .. i : b[j] \in B) /\ (\A j \in i + 1 .. n : b[j] \in B)
    BY <1>1, <1>2
<1>5. SubSeq(b, 1, i) \in Seq(B) /\ Len(SubSeq(b, 1, i)) = i
  <2>1. /\ SubSeq(b, 1, i) \in Seq(B)
        /\ Len(SubSeq(b, 1, i)) = IF 1 <= i THEN i - 1 + 1 ELSE 0
      BY <1>3, <1>4, SubSeqProperties, Zenon
  <2> QED
      BY <1>3, <2>1, Zenon
<1>6. SubSeq(b, i + 1, n) \in Seq(B)
    BY <1>3, <1>4, SubSeqProperties, Zenon
<1>7. SubSeq(b, 1, i) \o SubSeq(b, i + 1, n) = b
  <2>1. 1 \in 1 .. n + 1 /\ i \in 1 - 1 .. n /\ n \in i .. n
      BY <1>1
  <2>2. SubSeq(b, 1, i) \o SubSeq(b, i + 1, n) = SubSeq(b, 1, n)
      BY <1>1, <2>1, ConcatAdjacentSubSeq, Zenon
  <2> QED
      BY <1>1, <2>2, SubSeqFull, Zenon
<1> QED
    BY <1>1, <1>5, <1>6, <1>7, Zenon

\* Erasing bytes of the buffer erases them from the stream.
LEMMA StreamErase ==
    ASSUME NEW B, NEW b \in Seq(B), NEW w \in Seq(B), NEW i \in 1 .. Len(b)
    PROVE  /\ SubSeq(b, i + 1, Len(b)) \in Seq(B)
           /\ SubSeq(b, i + 1, Len(b)) \o w = SubSeq(b \o w, i + 1, Len(b \o w))
<1>1. PICK u \in Seq(B) : u = SubSeq(b, 1, i)
    BY SeqCut, Zenon
<1>2. PICK v \in Seq(B) : v = SubSeq(b, i + 1, Len(b))
    BY SeqCut, Zenon
<1>3. u \o v = b /\ Len(u) = i
    BY <1>1, <1>2, SeqCut, Zenon
<1>4. b \o w = u \o (v \o w)
  <2>1. (u \o v) \o w = u \o (v \o w)
      BY ConcatAssociative, SMTT(60)
  <2> QED
      BY <1>3, <2>1, Zenon
<1>5. PICK x \in Seq(B) : x = v \o w
    BY ConcatProperties, Zenon
<1>6. SubSeq(u \o x, i + 1, Len(u \o x)) = x
    BY <1>3
<1> QED
    BY <1>2, <1>4, <1>5, <1>6, Zenon

\* Bytes move from the wire to the buffer.
LEMMA StreamMove ==
    ASSUME NEW B, NEW b \in Seq(B), NEW w \in Seq(B), NEW n \in 1 .. Len(w)
    PROVE  (b \o SubSeq(w, 1, n)) \o SubSeq(w, n + 1, Len(w)) = b \o w
<1>1. PICK u \in Seq(B) : u = SubSeq(w, 1, n)
    BY SeqCut, Zenon
<1>2. PICK v \in Seq(B) : v = SubSeq(w, n + 1, Len(w))
    BY SeqCut, Zenon
<1>3. u \o v = w
    BY <1>1, <1>2, SeqCut, Zenon
<1>4. (b \o u) \o v = b \o (u \o v)
    BY ConcatAssociative, SMTT(60)
<1> QED
    BY <1>1, <1>2, <1>3, <1>4, Zenon

-----------------------------------------------------------------------------
(* The invariant.                                                            *)

LEMMA FramedInit == SessionInit => FramedInv
<1> SUFFICES ASSUME SessionInit PROVE FramedInv
    OBVIOUS
<1>1. m_msg_from_server = << >> /\ wire = << >> /\ pending = << >>
    BY Zenon DEF SessionInit, StreamInit
<1>2. << >> \o << >> = << >> /\ << >> \in Seq(Byte) /\ << >> \in Seq(Frame)
    OBVIOUS
<1>3. framing([k \in {0} |-> 0], pending, stream)
    BY <1>1, <1>2, FrameNone, Zenon DEF stream
<1>4. Framed
    BY <1>1, <1>2, <1>3, Zenon DEF Framed, BufferOK
<1>5. ends = {}
    BY <1>1 DEF ends
<1> QED
    BY <1>4, <1>5, Zenon DEF FramedInv, Drained

LEMMA FramedTypes ==
    ASSUME Framed
    PROVE  /\ m_msg_from_server \in Seq(Byte) /\ wire \in Seq(Byte) /\ pending \in Seq(Frame)
           /\ stream \in Seq(Byte) /\ Len(stream) = Len(m_msg_from_server) + Len(wire)
           /\ Len(m_msg_from_server) \in Nat /\ Len(wire) \in Nat
           /\ \A i \in 1 .. Len(m_msg_from_server) :
                  i \in 1 .. Len(stream) /\ stream[i] = m_msg_from_server[i]
           /\ \A i : i \in ends <=> i \in 1 .. Len(m_msg_from_server) /\ m_msg_from_server[i].last
<1>1. m_msg_from_server \in Seq(Byte) /\ wire \in Seq(Byte) /\ pending \in Seq(Frame)
    BY Zenon DEF Framed, BufferOK
<1>2. DOMAIN m_msg_from_server = 1 .. Len(m_msg_from_server)
    BY <1>1, LenProperties
<1>3. /\ stream \in Seq(Byte) /\ Len(stream) = Len(m_msg_from_server) + Len(wire)
      /\ Len(m_msg_from_server) \in Nat /\ Len(wire) \in Nat
      /\ \A i \in 1 .. Len(m_msg_from_server) :
             i \in 1 .. Len(stream) /\ stream[i] = m_msg_from_server[i]
    BY <1>1, StreamBegins, Zenon DEF stream
<1> QED
    BY <1>1, <1>2, <1>3, Zenon DEF ends

\* The bytes of a message are written behind the others.
LEMMA FramedWrite ==
    ASSUME Framed, NEW m \in Inputs, NEW size \in Sizes, serverWrites(m, size)
    PROVE  Framed'
<1> DEFINE c == [i \in 1 .. size |-> [msg |-> m, last |-> i = size]]
           g == [msg |-> m, size |-> size]
<1>1. size \in Nat /\ size > 0
    BY SessionAssumption
<1>2. c \in Seq(Byte) /\ Len(c) = size
  <2>1. \A i \in 1 .. size : [msg |-> m, last |-> i = size] \in Byte
      BY Zenon DEF Byte
  <2> QED
      BY <1>1, <2>1
<1>3. \A i \in 1 .. size : c[i].last <=> i = size
    OBVIOUS
<1>4. g \in Frame /\ g.size = size /\ g.msg = c[size].msg
    BY <1>1 DEF Frame
<1>5. wire' = wire \o c /\ pending' = Append(pending, g) /\ UNCHANGED m_msg_from_server
    BY Zenon DEF serverWrites, streamVars, buffer
<1> HIDE DEF c, g
<1>6. PICK p : framing(p, pending, stream)
    BY Zenon DEF Framed
<1>7. PICK p2 : framing(p2, Append(pending, g), stream \o c)
  <2> PICK b \in Seq(Byte) : b = stream
      BY FramedTypes
  <2> PICK q \in Seq(Frame) : q = pending
      BY FramedTypes
  <2>1. \E p2 : framing(p2, Append(q, g), b \o c)
      BY <1>1, <1>2, <1>3, <1>4, <1>6, FrameAppend, Zenon
  <2> QED
      BY <2>1, Zenon
<1>8. stream' = stream \o c /\ wire' \in Seq(Byte) /\ pending' \in Seq(Frame)
  <2>1. (m_msg_from_server \o wire) \o c = m_msg_from_server \o (wire \o c)
      BY <1>2, FramedTypes, ConcatAssociative, SMTT(60)
  <2>2. wire \o c \in Seq(Byte)
      BY <1>2, FramedTypes, ConcatProperties
  <2>3. Append(pending, g) \in Seq(Frame)
      BY <1>4, FramedTypes, AppendProperties
  <2> QED
      BY <1>5, <2>1, <2>2, <2>3, Zenon DEF stream
<1>9. framing(p2, pending', stream')
    BY <1>5, <1>7, <1>8, Zenon
<1> QED
    BY <1>5, <1>8, <1>9, FramedTypes, Zenon DEF Framed, BufferOK

\* recv() moves bytes and changes no message.
LEMMA FramedDeliver ==
    ASSUME Framed, NEW n \in 1 .. Len(wire), deliver(n)
    PROVE  Framed' /\ SubSeq(wire, 1, n) \in Seq(Byte)
<1>1. /\ m_msg_from_server' = m_msg_from_server \o SubSeq(wire, 1, n)
      /\ wire' = SubSeq(wire, n + 1, Len(wire)) /\ pending' = pending
    BY Zenon DEF deliver, receiveSegment
<1>2. /\ SubSeq(wire, 1, n) \in Seq(Byte) /\ SubSeq(wire, n + 1, Len(wire)) \in Seq(Byte)
      /\ m_msg_from_server \o SubSeq(wire, 1, n) \in Seq(Byte)
      /\ (m_msg_from_server \o SubSeq(wire, 1, n)) \o SubSeq(wire, n + 1, Len(wire)) = stream
  <2>1. SubSeq(wire, 1, n) \in Seq(Byte) /\ SubSeq(wire, n + 1, Len(wire)) \in Seq(Byte)
      BY FramedTypes, SeqCut, Zenon
  <2>2. m_msg_from_server \o SubSeq(wire, 1, n) \in Seq(Byte)
      BY <2>1, FramedTypes, ConcatProperties
  <2>3. (m_msg_from_server \o SubSeq(wire, 1, n)) \o SubSeq(wire, n + 1, Len(wire))
            = m_msg_from_server \o wire
      BY FramedTypes, StreamMove, Zenon
  <2> QED
      BY <2>1, <2>2, <2>3, Zenon DEF stream
<1>3. stream' = stream
    BY <1>1, <1>2, Zenon DEF stream
<1> QED
    BY <1>1, <1>2, <1>3, FramedTypes, Zenon DEF Framed, BufferOK

\* The end that find() returns is the end of the oldest message.
LEMMA FirstMessage ==
    ASSUME Framed, NEW p, framing(p, pending, stream), NEW i \in ends, isFirst(i)
    PROVE  /\ 1 \in 1 .. Len(pending) /\ p[1] = i /\ i \in 1 .. Len(m_msg_from_server)
           /\ pending[1].msg = m_msg_from_server[i].msg /\ pending[1].size = i
<1>1. i \in 1 .. Len(m_msg_from_server) /\ m_msg_from_server[i].last
    BY FramedTypes, Zenon
<1>2. i \in 1 .. Len(stream) /\ stream[i] = m_msg_from_server[i]
    BY <1>1, FramedTypes, Zenon
<1>3. ASSUME NEW j \in 1 .. i - 1 PROVE ~stream[j].last
  <2>1. j \in 1 .. Len(m_msg_from_server) /\ ~(i <= j)
      BY <1>1, FramedTypes
  <2>2. j \notin ends /\ stream[j] = m_msg_from_server[j]
      BY <2>1, FramedTypes, Zenon DEF isFirst
  <2> QED
      BY <2>1, <2>2, FramedTypes, Zenon
<1>4. 1 \in 1 .. Len(pending) /\ p[1] = i /\ pending[1].msg = stream[i].msg /\ pending[1].size = i
  <2> PICK b \in Seq(Byte) : b = stream
      BY FramedTypes
  <2> PICK q \in Seq(Frame) : q = pending
      BY FramedTypes
  <2>0. framing(p, q, b) /\ i \in 1 .. Len(b) /\ b[i].last /\ \A j \in 1 .. i - 1 : ~b[j].last
      BY <1>1, <1>2, <1>3, Zenon
  <2>1. 1 \in 1 .. Len(q) /\ p[1] = i /\ q[1].msg = b[i].msg /\ q[1].size = i
      BY <2>0, FrameFirst
  <2> QED
      BY <2>1, Zenon
<1> QED
    BY <1>1, <1>2, <1>4, Zenon

\* Erasing the first message of the buffer takes the oldest message away.
LEMMA FramedErase ==
    ASSUME Framed, NEW i \in ends, isFirst(i), m_msg_from_server' = bufferFrom(i + 1),
           pending' = Tail(pending), wire' = wire
    PROVE  Framed'
<1>1. PICK p : framing(p, pending, stream)
    BY Zenon DEF Framed
<1>2. 1 \in 1 .. Len(pending) /\ p[1] = i /\ i \in 1 .. Len(m_msg_from_server)
    BY <1>1, FirstMessage, Zenon
<1>3. PICK p2 : framing(p2, Tail(pending), SubSeq(stream, i + 1, Len(stream)))
  <2> PICK b \in Seq(Byte) : b = stream
      BY FramedTypes
  <2> PICK q \in Seq(Frame) : q = pending
      BY FramedTypes
  <2>1. \E p2 : framing(p2, Tail(q), SubSeq(b, p[1] + 1, Len(b)))
      BY <1>1, <1>2, FrameTail, Zenon
  <2> QED
      BY <1>2, <2>1, Zenon
<1>4. m_msg_from_server' \in Seq(Byte) /\ stream' = SubSeq(stream, i + 1, Len(stream))
  <2> PICK b \in Seq(Byte) : b = m_msg_from_server
      BY FramedTypes
  <2> PICK w \in Seq(Byte) : w = wire
      BY FramedTypes
  <2>1. /\ SubSeq(b, i + 1, Len(b)) \in Seq(Byte)
        /\ SubSeq(b, i + 1, Len(b)) \o w = SubSeq(b \o w, i + 1, Len(b \o w))
      BY <1>2, StreamErase, Zenon
  <2> QED
      BY <2>1, Zenon DEF bufferFrom, stream
<1>5. Tail(pending) \in Seq(Frame)
  <2>1. pending # << >>
      BY <1>2
  <2> QED
      BY <2>1, FramedTypes, HeadTailProperties
<1> QED
    BY <1>3, <1>4, <1>5, FramedTypes, Zenon DEF Framed, BufferOK

\* What an iteration of the loop does to the buffer and to the pending messages.
Erased(i) == m_msg_from_server' = bufferFrom(i + 1) /\ pending' = Tail(pending)
Kept == UNCHANGED <<m_msg_from_server, pending>>

LEMMA LoopErases ==
    ASSUME Framed, inLoop, processFirstMessage
    PROVE  \E i \in ends : isFirst(i) /\ handleMessage(i) /\ IF status' = CONTINUE THEN Erased(i) ELSE Kept
<1>1. PICK i \in ends :
          /\ isFirst(i) /\ handleMessage(i)
          /\ m_msg_from_server' = IF status' = CONTINUE THEN bufferFrom(i + 1) ELSE m_msg_from_server
    BY Zenon DEF processFirstMessage
<1>2. pending' = IF UNCHANGED m_msg_from_server THEN pending ELSE Tail(pending)
    BY Zenon DEF inLoop
<1>3. bufferFrom(i + 1) # m_msg_from_server
  <2>1. i \in 1 .. Len(m_msg_from_server) /\ m_msg_from_server \in Seq(Byte)
      BY FramedTypes, Zenon
  <2>2. PICK b \in Seq(Byte) : b = m_msg_from_server
      BY <2>1, Zenon
  <2>3. Len(SubSeq(b, i + 1, Len(b))) # Len(b)
      BY <2>1, <2>2
  <2> QED
      BY <2>2, <2>3, Zenon DEF bufferFrom
<1>4. CASE status' = CONTINUE
    BY <1>1, <1>2, <1>3, <1>4, Zenon DEF Erased
<1>5. CASE status' # CONTINUE
    BY <1>1, <1>2, <1>5, Zenon DEF Kept
<1> QED
    BY <1>1, <1>4, <1>5, Zenon

LEMMA LoopKeeps ==
    ASSUME inLoop, keepRest
    PROVE  Kept
    BY Zenon DEF inLoop, keepRest, Kept

LEMMA FramedKept ==
    ASSUME Framed, UNCHANGED <<m_msg_from_server, wire, pending>>
    PROVE  Framed'
    BY Zenon DEF Framed, stream, BufferOK

LEMMA DrainedKept ==
    ASSUME Drained, UNCHANGED <<m_msg_from_server, in_handler>>
    PROVE  Drained'
    BY Zenon DEF Drained, ends

LEMMA FramedStep == FramedInv /\ [SessionNext]_sessionVars => FramedInv'
<1> SUFFICES ASSUME FramedInv, [SessionNext]_sessionVars PROVE Framed' /\ Drained'
    BY Zenon DEF FramedInv
<1> USE DEF FramedInv
<1>1. ASSUME NEW m \in Inputs, NEW size \in Sizes, serverWrites(m, size) PROVE Framed' /\ Drained'
  <2>1. UNCHANGED <<m_msg_from_server, in_handler>>
      BY <1>1, Zenon DEF serverWrites, streamVars, buffer
  <2> QED
      BY <1>1, <2>1, FramedWrite, DrainedKept, Zenon
<1>2. ASSUME NEW n \in 1 .. Len(wire), deliver(n) PROVE Framed' /\ Drained'
  <2>1. in_handler' = TRUE
      BY <1>2, Zenon DEF deliver, receiveSegment
  <2> QED
      BY <1>2, <2>1, FramedDeliver, Zenon DEF Drained
<1>3. CASE inLoop
  <2>1. wire' = wire
      BY <1>3, Zenon DEF inLoop
  <2>2. CASE processFirstMessage
    <3>1. PICK i \in ends : isFirst(i) /\ IF status' = CONTINUE THEN Erased(i) ELSE Kept
        BY <1>3, <2>2, LoopErases, Zenon
    <3>2. Framed'
        BY <2>1, <3>1, FramedErase, FramedKept, Zenon DEF Erased, Kept
    <3>3. in_handler' = TRUE
        BY <2>2, Zenon DEF processFirstMessage
    <3> QED
        BY <3>2, <3>3, Zenon DEF Drained
  <2>3. CASE keepRest
    <3>1. Framed'
        BY <1>3, <2>1, <2>3, LoopKeeps, FramedKept, Zenon DEF Kept
    <3>2. ends' = {}
        BY <2>3, Zenon DEF keepRest, ends
    <3> QED
        BY <3>1, <3>2, Zenon DEF Drained
  <2> QED
      BY <1>3, <2>2, <2>3, Zenon DEF inLoop
<1>4. CASE UNCHANGED <<m_msg_from_server, in_handler, wire, pending>>
    BY <1>4, FramedKept, DrainedKept, Zenon
<1>5. CASE \/ local(processTimerEvent) \/ local(processUserInput)
          \/ local(processStdinHangup) \/ local(processStdinError)
    BY <1>4, <1>5, Zenon DEF local, betweenHandlers, buffer, network
<1>6. CASE serverCloses \/ connectionLost \/ (sigintHandler /\ UNCHANGED <<buffer, network>>)
    BY <1>4, <1>6, Zenon DEF serverCloses, connectionLost, streamVars, buffer, network
<1>7. CASE UNCHANGED sessionVars
    BY <1>4, <1>7, Zenon DEF sessionVars, streamVars, buffer, network
<1> QED
    BY <1>1, <1>2, <1>3, <1>5, <1>6, <1>7, Zenon DEF SessionNext

-----------------------------------------------------------------------------
(* The client of TcpInOrder is the client of TcpSession.                     *)

LEMMA SameCode == Abstract!CONTINUE = CONTINUE
    BY Zenon DEF Abstract!CONTINUE, CONTINUE

LEMMA SameStutter ==
    /\ UNCHANGED vars => UNCHANGED Abstract!vars
    /\ UNCHANGED <<vars, pending>> => UNCHANGED Abstract!inOrderVars
    BY Zenon DEF Abstract!inOrderVars, Abstract!vars, vars, Abstract!members, members,
        Abstract!session, session, Abstract!epoll, epoll

LEMMA SameInit == Abstract!InOrderInit <=> Init /\ pending = << >>
    BY Zenon DEF Abstract!InOrderInit, Abstract!Init, Init, Abstract!CONTINUE, CONTINUE,
        Abstract!Nothing, Nothing, Abstract!NoOutput, NoOutput

LEMMA SameErr ==
    ASSUME NEW text
    PROVE  Abstract!sendErrMsgAndTerminate(text) <=> sendErrMsgAndTerminate(text)
    BY Zenon DEF Abstract!sendErrMsgAndTerminate, sendErrMsgAndTerminate, Abstract!sendMsgToServer,
        sendMsgToServer, Abstract!Nothing, Nothing, Abstract!NoOutput, NoOutput,
        Abstract!members, members, Abstract!session, session, Abstract!epoll, epoll,
        Abstract!EXIT_FAILURE, EXIT_FAILURE, Abstract!KILLED, KILLED

LEMMA SameMessage ==
    ASSUME NEW m
    PROVE  Abstract!processMessageFromServer(m) <=> processMessageFromServer(m)
    BY Zenon DEF Abstract!processMessageFromServer, processMessageFromServer,
        Abstract!processServerByeMsg, processServerByeMsg,
        Abstract!processServerErrMsg, processServerErrMsg,
        Abstract!processServerReplyMsg, processServerReplyMsg,
        Abstract!processServerMsgMsg, processServerMsgMsg,
        Abstract!sendErrMsgAndTerminate, sendErrMsgAndTerminate, Abstract!sendMsgToServer,
        sendMsgToServer, Abstract!KILLED, KILLED,
        Abstract!expectedTypes, expectedTypes, Abstract!acceptReply, acceptReply,
        Abstract!outputOnly, outputOnly, Abstract!Nothing, Nothing, Abstract!NoOutput, NoOutput,
        Abstract!members, members, Abstract!session, session, Abstract!epoll, epoll,
        Abstract!EXIT_SUCCESS, EXIT_SUCCESS, Abstract!EXIT_FAILURE, EXIT_FAILURE

LEMMA SameEnds ==
    /\ Abstract!tooLong <=> tooLong
    /\ Abstract!recvFails <=> recvFails
    /\ Abstract!connectionClosed <=> connectionClosed
    BY SameErr, Zenon DEF Abstract!tooLong, tooLong, Abstract!recvFails, recvFails,
        Abstract!connectionClosed, connectionClosed, Abstract!EXIT_SUCCESS, EXIT_SUCCESS,
        Abstract!Nothing, Nothing, Abstract!NoOutput, NoOutput,
        Abstract!members, members, Abstract!session, session, Abstract!epoll, epoll

LEMMA SameLocal == Abstract!localEvent <=> localEvent
    BY Zenon DEF Abstract!localEvent, localEvent, Abstract!processTimerEvent, processTimerEvent,
        Abstract!processUserInput, processUserInput, Abstract!processStdinHangup, processStdinHangup,
        Abstract!processStdinError, processStdinError, Abstract!sigintHandler, sigintHandler,
        Abstract!sendErrMsgAndTerminate, sendErrMsgAndTerminate,
        Abstract!sendByeMsgAndTerminate, sendByeMsgAndTerminate, Abstract!sendMsgToServer, sendMsgToServer,
        Abstract!endOfFile, endOfFile, Abstract!userRequest, userRequest,
        Abstract!canSendMessageType, canSendMessageType, Abstract!userRename, userRename,
        Abstract!userHelp, userHelp, Abstract!userRefused, userRefused, Abstract!outputOnly, outputOnly,
        Abstract!REPLY_TIMEOUT, REPLY_TIMEOUT, Abstract!CONTINUE, CONTINUE,
        Abstract!EXIT_SUCCESS, EXIT_SUCCESS, Abstract!EXIT_FAILURE, EXIT_FAILURE, Abstract!KILLED, KILLED,
        Abstract!Nothing, Nothing, Abstract!NoOutput, NoOutput,
        Abstract!members, members, Abstract!session, session, Abstract!epoll, epoll

-----------------------------------------------------------------------------
(* Every step of the session is one of TcpInOrder.                           *)

\* The message that is handled is the oldest one, whole, and judged by its own size.
LEMMA FirstHandled ==
    ASSUME Framed, inLoop, processFirstMessage
    PROVE  Abstract!clientHandles
<1>1. PICK i \in ends : isFirst(i) /\ handleMessage(i) /\ IF status' = CONTINUE THEN Erased(i) ELSE Kept
    BY LoopErases, Zenon
<1>2. PICK p : framing(p, pending, stream)
    BY Zenon DEF Framed
<1>3. /\ 1 \in 1 .. Len(pending) /\ i \in 1 .. Len(m_msg_from_server)
      /\ pending[1].msg = m_msg_from_server[i].msg /\ pending[1].size = i
    BY <1>1, <1>2, FirstMessage, Zenon
<1>4. pending # << >> /\ Head(pending) = pending[1]
    BY <1>3, FramedTypes
<1>5. \/ i > s_MAX_MSG_SIZE /\ tooLong
      \/ ~(i > s_MAX_MSG_SIZE) /\ processMessageFromServer(Head(pending).msg)
  <2>1. i <= s_MAX_MSG_SIZE => ~(i > s_MAX_MSG_SIZE)
      BY <1>3, SizeAssumption, FramedTypes
  <2> QED
      BY <1>1, <1>3, <1>4, <2>1, Zenon DEF handleMessage
<1>6. status = CONTINUE
    BY Zenon DEF processFirstMessage
<1>7. pending' = IF status' = CONTINUE THEN Tail(pending) ELSE pending
    BY <1>1, Zenon DEF Erased, Kept
<1> QED
    BY <1>3, <1>4, <1>5, <1>6, <1>7, SameCode, SameEnds, SameMessage, Zenon DEF Abstract!clientHandles

\* An incomplete message is refused only if it is longer than the limit.
LEMMA RestRefused ==
    ASSUME FramedInv, inLoop, keepRest, Len(m_msg_from_server) >= s_MAX_MSG_SIZE, tooLong
    PROVE  Abstract!clientHandles
<1>0. Framed
    BY Zenon DEF FramedInv
<1>1. PICK p : framing(p, pending, stream)
    BY <1>0, Zenon DEF Framed
<1>2. PICK n \in Nat : n = Len(m_msg_from_server)
    BY <1>0, FramedTypes, Zenon
<1>3. n \in 1 .. Len(stream)
    BY <1>0, <1>2, FramedTypes, SizeAssumption
<1>4. \A j \in 1 .. n : ~stream[j].last
    BY <1>0, <1>2, FramedTypes, Zenon DEF keepRest
<1>5. 1 \in 1 .. Len(pending) /\ pending[1].size > n
  <2>1. ASSUME NEW q \in Seq(Frame), NEW b \in Seq(Byte), framing(p, q, b), n \in 1 .. Len(b),
               \A j \in 1 .. n : ~b[j].last
        PROVE  1 \in 1 .. Len(q) /\ q[1].size > n
      BY <2>1, FrameLong
  <2> QED
      BY <1>0, <1>1, <1>3, <1>4, <2>1, FramedTypes, Zenon
<1>6. /\ pending # << >> /\ Head(pending) = pending[1] /\ pending[1].size > s_MAX_MSG_SIZE
  <2>1. pending[1] \in Frame
      BY <1>0, <1>5, FramedTypes, ElementOfSeq
  <2>2. pending[1].size \in Nat
      BY <2>1 DEF Frame
  <2>3. pending # << >> /\ Head(pending) = pending[1]
      BY <1>0, <1>5, FramedTypes
  <2> QED
      BY <1>2, <1>5, <2>2, <2>3, SizeAssumption
<1>7. status = CONTINUE /\ status' # CONTINUE /\ pending' = pending
    BY TooLongEnds, LoopKeeps, Zenon DEF keepRest, Kept
<1> QED
    BY <1>6, <1>7, SameCode, SameEnds, Zenon DEF Abstract!clientHandles

\* When all bytes have come and the handler is done, no message is left.
LEMMA NothingPending ==
    ASSUME FramedInv, ~in_handler, wire = << >>
    PROVE  pending = << >>
<1>0. Framed /\ ends = {}
    BY Zenon DEF FramedInv, Drained
<1>1. PICK p : framing(p, pending, stream)
    BY <1>0, Zenon DEF Framed
<1>2. stream = m_msg_from_server
    BY <1>0, FramedTypes, ConcatEmptySeq DEF stream
<1>3. \A j \in 1 .. Len(stream) : ~stream[j].last
    BY <1>0, <1>2, FramedTypes, Zenon
<1>4. ASSUME NEW q \in Seq(Frame), NEW b \in Seq(Byte), framing(p, q, b),
             \A j \in 1 .. Len(b) : ~b[j].last
      PROVE  q = << >>
    BY <1>4, FrameEmpty
<1> QED
    BY <1>0, <1>1, <1>3, <1>4, FramedTypes, Zenon

\* The end of the stream is seen only when every message has been handled.
LEMMA EndSeen ==
    ASSUME FramedInv, connectionLost
    PROVE  Abstract!connectionEnds
<1>1. status = CONTINUE /\ ~in_handler /\ pending' = pending
    BY Zenon DEF connectionLost, network
<1>2. CASE recvFails
    BY <1>1, <1>2, SameCode, SameEnds, Zenon DEF Abstract!connectionEnds
<1>3. CASE wire = << >> /\ connectionClosed
    BY <1>1, <1>3, NothingPending, SameCode, SameEnds, Zenon DEF Abstract!connectionEnds
<1> QED
    BY <1>2, <1>3, Zenon DEF connectionLost

LEMMA InOrderStep ==
    ASSUME FramedInv, [SessionNext]_sessionVars
    PROVE  [Abstract!InOrderNext]_(Abstract!inOrderVars)
<1> DEFINE Goal == [Abstract!InOrderNext]_(Abstract!inOrderVars)
<1> SUFFICES Goal
    OBVIOUS
<1>0. CASE UNCHANGED vars /\ pending' = pending
    BY <1>0, SameStutter, Zenon
<1>1. ASSUME NEW m \in Inputs, NEW size \in Sizes, serverWrites(m, size) PROVE Goal
  <2>1. UNCHANGED vars /\ pending' = Append(pending, [msg |-> m, size |-> size])
      BY <1>1, Zenon DEF serverWrites, streamVars
  <2> QED
      BY <2>1, SameStutter, Zenon DEF Abstract!InOrderNext, Abstract!serverSends
<1>2. ASSUME NEW n \in 1 .. Len(wire), deliver(n) PROVE Goal
    BY <1>0, <1>2, Zenon DEF deliver, receiveSegment
<1>3. CASE inLoop
  <2>1. CASE processFirstMessage
      BY <1>3, <2>1, FirstHandled, Zenon DEF FramedInv, Abstract!InOrderNext
  <2>2. CASE keepRest
    <3>1. CASE Len(m_msg_from_server) >= s_MAX_MSG_SIZE /\ tooLong
        BY <1>3, <2>2, <3>1, RestRefused, Zenon DEF Abstract!InOrderNext
    <3>2. CASE UNCHANGED vars
        BY <1>0, <1>3, <2>2, <3>2, LoopKeeps, Zenon DEF Kept
    <3> QED
        BY <2>2, <3>1, <3>2, Zenon DEF keepRest
  <2> QED
      BY <1>3, <2>1, <2>2, Zenon DEF inLoop
<1>4. CASE connectionLost
    BY <1>4, EndSeen, Zenon DEF Abstract!InOrderNext
<1>5. CASE localEvent /\ pending' = pending
    BY <1>5, SameLocal, Zenon DEF Abstract!InOrderNext, Abstract!otherEvents
<1>6. CASE \/ local(processTimerEvent) \/ local(processUserInput)
          \/ local(processStdinHangup) \/ local(processStdinError)
          \/ (sigintHandler /\ UNCHANGED <<buffer, network>>)
    BY <1>5, <1>6, Zenon DEF local, betweenHandlers, localEvent, network
<1>7. CASE serverCloses \/ UNCHANGED sessionVars
    BY <1>0, <1>7, Zenon DEF serverCloses, sessionVars, streamVars, network
<1> HIDE DEF Goal
<1> QED
    BY <1>1, <1>2, <1>3, <1>4, <1>6, <1>7, Zenon DEF SessionNext

-----------------------------------------------------------------------------
(* Theorems.                                                                 *)

LEMMA FramedInvariance == SessionSpec => []FramedInv
    BY FramedInit, FramedStep, PTL DEF SessionSpec

\* However TCP cuts the stream and whatever processSocketEvent() keeps in its buffer,
\* the client does what it would do if it were handed the server's messages whole, one
\* by one and in order: none is lost, repeated, cut, or refused for another reason than
\* its own size, and a close is seen only after all of them.
THEOREM InOrderCorrect == SessionSpec => InOrder
<1>1. SessionInit => Abstract!InOrderInit
    BY SameInit, Zenon DEF SessionInit, StreamInit
<1>2. FramedInv /\ [SessionNext]_sessionVars => [Abstract!InOrderNext]_(Abstract!inOrderVars)
    BY InOrderStep
<1> QED
    BY <1>1, <1>2, FramedInvariance, PTL DEF SessionSpec, InOrder, Abstract!InOrderSpec

LEMMA SessionStep ==
    ASSUME FramedInv, [SessionNext]_sessionVars
    PROVE  [StreamNext]_streamVars
<1>1. ASSUME NEW n \in 1 .. Len(wire), deliver(n) PROVE StreamNext
    BY <1>1, FramedDeliver, Zenon DEF FramedInv, deliver, StreamNext
<1>2. CASE inLoop
    BY <1>2, Zenon DEF inLoop, StreamNext
<1>3. CASE connectionLost
    BY <1>3, Zenon DEF connectionLost, StreamNext, receiveNothing
<1>4. CASE \/ local(processTimerEvent) \/ local(processUserInput)
          \/ local(processStdinHangup) \/ local(processStdinError)
          \/ (sigintHandler /\ UNCHANGED <<buffer, network>>)
    BY <1>4, Zenon DEF local, StreamNext
<1>5. ASSUME NEW m, NEW size, serverWrites(m, size) PROVE UNCHANGED streamVars
    BY <1>5, Zenon DEF serverWrites
<1>6. CASE serverCloses \/ UNCHANGED sessionVars
    BY <1>6, Zenon DEF serverCloses, sessionVars
<1> QED
    BY <1>1, <1>2, <1>3, <1>4, <1>5, <1>6, Zenon DEF SessionNext

\* What is proved of the client for any stream holds in the session: its segments are
\* bytes of messages of the server.
THEOREM SessionImplementsStream == SessionSpec => StreamSpec
<1>1. SessionInit => StreamInit
    BY Zenon DEF SessionInit
<1>2. FramedInv /\ [SessionNext]_sessionVars => [StreamNext]_streamVars
    BY SessionStep
<1> QED
    BY <1>1, <1>2, FramedInvariance, PTL DEF SessionSpec, StreamSpec

\* So every invariant of TcpClient holds in the session, and its buffer is bounded.
THEOREM SessionInvariance == SessionSpec => [](IInv /\ BufferBound)
    BY SessionImplementsStream, StreamImplementsClient, Invariance, BufferBoundCorrect, PTL

\* When all bytes have arrived and processSocketEvent() has returned, every message of
\* the server has been handled: none waits in the buffer for an event that may not come.
THEOREM NothingLeftBehind == SessionSpec => [](~in_handler /\ wire = << >> => pending = << >>)
<1>1. FramedInv => (~in_handler /\ wire = << >> => pending = << >>)
    BY NothingPending
<1> QED
    BY <1>1, FramedInvariance, PTL
=============================================================================
