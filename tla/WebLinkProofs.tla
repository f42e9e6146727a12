----------------------------- MODULE WebLinkProofs -----------------------------
(***************************************************************************)
(* Proofs about WebLink, for any requests and frames RFC 6455 allows, any  *)
(* sizes of bytes, opcodes and messages, and any way TCP cuts the stream:  *)
(* a browser gets the messages whose frames went out whole, the reply      *)
(* answers the key of the request, and what the browser says is heard.     *)
(* The two loops over bytes, a browser's and do_parsebuffer's, are taken   *)
(* turn by turn, by induction over the frames in the bytes.                *)
(***************************************************************************)
EXTENDS WebLink, DataLemmas, TLAPS

-----------------------------------------------------------------------------
(* Numbers.                                                                  *)

\* The sizes that WebLinkAssumption gives.
LEMMA Sizes ==
  /\ TOP \in Nat /\ TOP >= 16 /\ Base = 2 * TOP /\ Ext16 = TOP - 2 /\ Ext64 = TOP - 1
  /\ OPCODES \in Nat /\ OPCODES >= 8
<1>1. PICK n \in 2 .. TOP : TOP = n * OPCODES
  BY WebLinkAssumption
<1>2. n * OPCODES >= 2 * OPCODES
  BY <1>1, WebLinkAssumption
<1>3. QED
  BY <1>1, <1>2, WebLinkAssumption DEF Base, Ext16, Ext64

\* A product of naturals is one: the solver is not asked about products together with anything else.
LEMMA ProductType ==
  ASSUME NEW a \in Nat, NEW b \in Nat
  PROVE  a * b \in Nat
OBVIOUS

\* Division with remainder, from quotient and remainder.
LEMMA DivMod ==
  ASSUME NEW d \in Nat, d > 0, NEW q \in Nat, NEW r \in 0 .. d - 1
  PROVE  (q * d + r) \div d = q /\ (q * d + r) % d = r
OBVIOUS

\* The same, from the number.
LEMMA DivModSum ==
  ASSUME NEW d \in Nat, d > 0, NEW n \in Nat
  PROVE  n \div d \in Nat /\ n % d \in 0 .. d - 1 /\ d * (n \div d) + (n % d) = n
OBVIOUS

\* A length and the two bytes that carry it.
LEMMA TwoBytes ==
  ASSUME NEW len \in Nat
  PROVE  /\ len \div Base \in Nat /\ len % Base \in 0 .. Base - 1
         /\ Base * (len \div Base) + (len % Base) = len
<1>1. Base \in Nat /\ Base > 0
  BY Sizes
<1>2. QED
  BY <1>1, DivModSum

-----------------------------------------------------------------------------
(* What a browser receives.                                                  *)

\* What a browser has read: how far, and what it took.
Reading(bytes) == [at : 0 .. Len(bytes), payloads : Seq(Seq(Nat))]
NoneRead == [at |-> 0, payloads |-> <<>>]

\* One turn of its loop goes on from where it is, and not beyond the bytes there are.
LEMMA ReadFrameType ==
  ASSUME NEW bytes \in Seq(Nat), NEW r \in Reading(bytes)
  PROVE  ReadFrame(bytes, r) \in Reading(bytes)
<1> DEFINE a     == r.at
           N     == Len(bytes)
           left  == N - a
           short == left >= 2 /\ bytes[a + 2] < Ext16
           long  == left >= 4 /\ bytes[a + 2] = Ext16
           len   == IF long THEN Base * bytes[a + 3] + bytes[a + 4] ELSE bytes[a + 2]
           end   == a + (IF long THEN 4 ELSE 2) + len
           x     == SubSeq(bytes, end - len + 1, end)
           next  == [at |-> end, payloads |-> Append(r.payloads, x)]
<1>1. (ReadFrame(bytes, r) = next /\ (short \/ long) /\ end =< N) \/ ReadFrame(bytes, r) = r
  BY DEF ReadFrame
<1>2. a \in 0 .. N /\ N \in Nat /\ r.payloads \in Seq(Seq(Nat)) /\ Base \in Nat
  BY Sizes DEF Reading
<1>3. ASSUME short \/ long, end =< N
      PROVE  len \in Nat /\ end \in len .. N
  <2>0. N - a >= 2 /\ (long => N - a >= 4)
    <3>1. left \in Int /\ left = N - a
      <4> HIDE DEF a, N
      <4>1. QED
        BY <1>2
    <3>2. left >= 2 /\ (long => left >= 4)
      <4> HIDE DEF left
      <4>1. QED
        BY <1>3, <3>1
    <3>3. QED
      <4> HIDE DEF left, long
      <4>1. QED
        BY <3>1, <3>2
  <2>1. long => bytes[a + 3] \in Nat /\ bytes[a + 4] \in Nat
    <3>1. long => a + 3 \in 1 .. N /\ a + 4 \in 1 .. N
      <4> HIDE DEF a, N, long
      <4>1. QED
        BY <1>2, <2>0
    <3>2. QED
      BY <3>1, ElementOfSeq
  <2>2. bytes[a + 2] \in Nat
    <3>1. a + 2 \in 1 .. N
      <4> HIDE DEF a, N, long
      <4>1. QED
        BY <1>2, <2>0
    <3>2. QED
      BY <3>1, ElementOfSeq
  <2>3. len \in Nat
    <3>1. CASE long
      <4> DEFINE p == bytes[a + 3]
                 q == bytes[a + 4]
      <4>1. p \in Nat /\ q \in Nat /\ len = Base * p + q
        BY <2>1, <3>1
      <4> HIDE DEF p, q, len, long
      <4>2. Base * p \in Nat
        BY <1>2, <4>1, ProductType
      <4>3. QED
        BY <4>1, <4>2
    <3>2. CASE ~long
      BY <2>2, <3>2
    <3>3. QED
      BY <3>1, <3>2
  <2> HIDE DEF len, a, N
  <2>4. QED
    BY <1>2, <1>3, <2>3
<1>4. ASSUME short \/ long, end =< N
      PROVE  next \in Reading(bytes)
  <2>0. len \in Nat /\ end \in len .. N
    BY <1>3, <1>4
  <2>1. x \in Seq(Nat)
    <3>1. end - len + 1 \in 1 .. N + 1 /\ end \in 0 .. N
      <4> HIDE DEF len, end, N
      <4>1. QED
        BY <1>2, <2>0
    <3> DEFINE from == end - len + 1
    <3> HIDE DEF end
    <3>2. from \in 1 .. N + 1 /\ end \in from - 1 .. N
      <4> HIDE DEF len, N
      <4>1. QED
        BY <1>2, <2>0
    <3> HIDE DEF from
    <3>3. SubSeq(bytes, from, end) \in Seq(Nat)
      BY <3>2, SubSeqProperties
    <3>4. QED
      BY <3>3 DEF from
  <2>2. end \in 0 .. N
    <3> HIDE DEF len, end, N
    <3>1. QED
      BY <1>2, <2>0
  <2> HIDE DEF end, x
  <2>3. QED
    BY <1>2, <2>1, <2>2 DEF Reading
<1>5. QED
  BY <1>1, <1>4

\* The loop of Received, turn by turn.
ReadLoop(f, bytes) == f = [n \in 0 .. Len(bytes) |-> IF n = 0 THEN NoneRead ELSE ReadFrame(bytes, f[n - 1])]

\* There is such a function, whatever the bytes: the recursion of Received is no empty CHOOSE.
LEMMA ReadLoopExists ==
  ASSUME NEW bytes \in Seq(Nat)
  PROVE  \E f : ReadLoop(f, bytes)
<1> DEFINE S == Reading(bytes)
           step == [r \in S |-> ReadFrame(bytes, r)]
           N == Len(bytes)
<1>1. NoneRead \in S /\ step \in [S -> S] /\ N \in Nat
  <2>1. NoneRead \in S
    BY DEF NoneRead, Reading
  <2>2. QED
    BY <2>1, ReadFrameType
<1>2. PICK f \in [0 .. N -> S] : Turns(f, NoneRead, step, N)
  <2> HIDE DEF S, step
  <2>1. QED
    BY <1>1, TurnsExist
<1>3. f = [k \in 0 .. N |-> IF k = 0 THEN NoneRead ELSE step[f[k - 1]]]
  BY <1>2 DEF Turns
<1>4. ASSUME NEW k \in 0 .. N, k # 0
      PROVE  step[f[k - 1]] = ReadFrame(bytes, f[k - 1])
  <2>1. f[k - 1] \in S
    BY <1>1, <1>4
  <2>2. QED
    BY <2>1
<1> HIDE DEF step, S
<1>5. f = [k \in 0 .. N |-> IF k = 0 THEN NoneRead ELSE ReadFrame(bytes, f[k - 1])]
  BY <1>3, <1>4
<1>6. QED
  BY <1>5 DEF ReadLoop

\* Received is its last value.
LEMMA ReceivedIs ==
  ASSUME NEW bytes \in Seq(Nat)
  PROVE  \E f : ReadLoop(f, bytes) /\ Received(bytes) = f[Len(bytes)].payloads
<1> DEFINE g == CHOOSE f : ReadLoop(f, bytes)
<1>1. ReadLoop(g, bytes)
  BY ReadLoopExists
<1>2. Received(bytes) = g[Len(bytes)].payloads
  BY DEF Received, ReadLoop, NoneRead
<1> HIDE DEF g
<1>3. QED
  BY <1>1, <1>2

\* The frame of a payload whose length fits two bytes: where its parts are.
LEMMA SentFrame ==
  ASSUME NEW p \in Seq(Nat), Len(p) < Base * Base
  PROVE  LET x == packageMsgForWebsocket(p)
             h == IF Len(p) < Ext16 THEN 2 ELSE 4
         IN  /\ x \in Seq(Nat) /\ Len(x) = h + Len(p)
             /\ x[1] = TOP + 2
             /\ Len(p) < Ext16 => x[2] = Len(p)
             /\ Len(p) >= Ext16 => /\ x[2] = Ext16 /\ x[3] \in Nat /\ x[4] \in Nat
                                   /\ Base * x[3] + x[4] = Len(p)
             /\ \A i \in 1 .. Len(p) : x[h + i] = p[i]
<1> DEFINE n == Len(p)
           x == packageMsgForWebsocket(p)
           short == <<TOP + 2, n>>
           long == <<TOP + 2, Ext16, n \div Base, n % Base>>
<1>1. n \in Nat /\ TOP \in Nat /\ Ext16 \in Nat /\ Base \in Nat
  BY Sizes
<1>2. n \div Base \in Nat /\ n % Base \in Nat /\ Base * (n \div Base) + (n % Base) = n
  <2> HIDE DEF n
  <2>1. n \div Base \in Nat /\ n % Base \in 0 .. Base - 1 /\ Base * (n \div Base) + (n % Base) = n
    BY <1>1, TwoBytes
  <2>2. QED
    BY <1>1, <2>1
<1>3. CASE n < Ext16
  <2>1. x = short \o p
    BY <1>3 DEF packageMsgForWebsocket, LengthForm
  <2>2. short \in Seq(Nat) /\ Len(short) = 2 /\ short[1] = TOP + 2 /\ short[2] = n
    BY <1>1
  <2> HIDE DEF x, short
  <2>3. /\ x \in Seq(Nat) /\ Len(x) = 2 + n
        /\ \A i \in 1 .. 2 + n : x[i] = IF i <= 2 THEN short[i] ELSE p[i - 2]
    <3>1. short \in Seq(Nat)
      BY <2>2
    <3>2. /\ x \in Seq(Nat) /\ Len(x) = Len(short) + Len(p)
          /\ \A i \in 1 .. Len(short) + Len(p) : x[i] =
                 IF i <= Len(short) THEN short[i] ELSE p[i - Len(short)]
      BY <2>1, <3>1, ConcatProperties
    <3>3. Len(short) = 2
      BY <2>2
    <3>4. QED
      BY <3>2, <3>3
  <2>4. x[1] = TOP + 2 /\ x[2] = n
    BY <1>1, <2>2, <2>3
  <2>5. \A i \in 1 .. n : x[2 + i] = p[i]
    <3>1. \A i \in 1 .. n : 2 + i \in 1 .. 2 + n /\ ~ (2 + i <= 2) /\ (2 + i) - 2 = i
      BY <1>1
    <3>2. QED
      BY <2>3, <3>1
  <2>6. ~ (n >= Ext16)
    BY <1>1, <1>3
  <2>7. QED
    BY <1>3, <2>3, <2>4, <2>5, <2>6 DEF x
<1>4. CASE ~ (n < Ext16)
  <2>1. x = long \o p
    BY <1>4 DEF packageMsgForWebsocket, LengthForm
  <2>2. /\ long \in Seq(Nat) /\ Len(long) = 4
        /\ long[1] = TOP + 2 /\ long[2] = Ext16 /\ long[3] = n \div Base /\ long[4] = n % Base
    BY <1>1, <1>2
  <2> HIDE DEF x, long
  <2>3. /\ x \in Seq(Nat) /\ Len(x) = 4 + n
        /\ \A i \in 1 .. 4 + n : x[i] = IF i <= 4 THEN long[i] ELSE p[i - 4]
    <3>1. long \in Seq(Nat)
      BY <2>2
    <3>2. /\ x \in Seq(Nat) /\ Len(x) = Len(long) + Len(p)
          /\ \A i \in 1 .. Len(long) + Len(p) : x[i] = IF i <= Len(long) THEN long[i] ELSE p[i - Len(long)]
      BY <2>1, <3>1, ConcatProperties
    <3>3. Len(long) = 4
      BY <2>2
    <3>4. QED
      BY <3>2, <3>3
  <2>4. x[1] = TOP + 2 /\ x[2] = Ext16 /\ x[3] = n \div Base /\ x[4] = n % Base
    BY <1>1, <2>2, <2>3
  <2>5. \A i \in 1 .. n : x[4 + i] = p[i]
    <3>1. \A i \in 1 .. n : 4 + i \in 1 .. 4 + n /\ ~ (4 + i <= 4) /\ (4 + i) - 4 = i
      BY <1>1
    <3>2. QED
      BY <2>3, <3>1
  <2>6. QED
    BY <1>2, <1>4, <2>3, <2>4, <2>5 DEF x
<1>5. QED
  BY <1>3, <1>4

\* A browser at the start of a whole frame takes its payload.
LEMMA ReadOne ==
  ASSUME NEW p \in Seq(Nat), Len(p) < Base * Base, NEW a \in Seq(Nat), NEW b \in Seq(Nat),
         NEW payloads
  PROVE  LET x == packageMsgForWebsocket(p)
         IN  ReadFrame((a \o x) \o b, [at |-> Len(a), payloads |-> payloads])
               = [at |-> Len(a) + Len(x), payloads |-> Append(payloads, p)]
<1> DEFINE x == packageMsgForWebsocket(p)
           n == Len(p)
           h == IF n < Ext16 THEN 2 ELSE 4
           m == Len(a)
           s == (a \o x) \o b
           r == [at |-> m, payloads |-> payloads]
           left  == Len(s) - r.at
           short == left >= 2 /\ s[r.at + 2] < Ext16
           long  == left >= 4 /\ s[r.at + 2] = Ext16
           len   == IF long THEN Base * s[r.at + 3] + s[r.at + 4] ELSE s[r.at + 2]
           end   == r.at + (IF long THEN 4 ELSE 2) + len
<1>1. n \in Nat /\ m \in Nat /\ Ext16 \in Nat /\ Base \in Nat /\ Len(b) \in Nat /\ TOP \in Nat
  BY Sizes
<1>2. /\ x \in Seq(Nat) /\ Len(x) = h + n
      /\ x[1] = TOP + 2
      /\ n < Ext16 => x[2] = n
      /\ n >= Ext16 => x[2] = Ext16 /\ Base * x[3] + x[4] = n
      /\ \A i \in 1 .. n : x[h + i] = p[i]
  BY SentFrame
<1>3. FrameHead(1, 2, 0, 0)[1] = TOP + 2
  BY Sizes DEF FrameHead
<1> HIDE DEF x
<1>4. s \in Seq(Nat) /\ Len(s) = m + (h + n) + Len(b) /\ \A i \in 1 .. h + n : s[m + i] = x[i]
  <2>1. x \in Seq(Nat) /\ Len(x) = h + n
    BY <1>2
  <2>2. /\ s \in Seq(Nat) /\ Len(s) = m + Len(x) + Len(b)
        /\ \A i \in 1 .. Len(x) : s[m + i] = x[i]
    <3>1. x \in Seq(Nat)
      BY <2>1
    <3>2. QED
      BY <3>1, Surrounded
  <2> HIDE DEF h, n, m, s
  <2>3. QED
    BY <2>1, <2>2
<1>5. r.at = m /\ r.payloads = payloads
  OBVIOUS
<1>6. ReadFrame(s, r) = IF (short \/ long) /\ end <= Len(s) /\ s[r.at + 1] = FrameHead(1, 2, 0, 0)[1]
                        THEN [at |-> end, payloads |-> Append(r.payloads, SubSeq(s, end - len + 1, end))]
                        ELSE r
  BY DEF ReadFrame
<1> HIDE DEF r, s
<1>7. h \in {2, 4} /\ (h = 2 <=> n < Ext16)
  BY <1>1
<1>8. s[m + 1] = TOP + 2 /\ s[m + 2] = x[2] /\ (h = 4 => s[m + 3] = x[3] /\ s[m + 4] = x[4])
  <2> HIDE DEF h, n, m
  <2>1. 1 \in 1 .. h + n /\ 2 \in 1 .. h + n /\ (h = 4 => 3 \in 1 .. h + n /\ 4 \in 1 .. h + n)
    BY <1>1, <1>7
  <2>2. QED
    BY <1>2, <1>4, <2>1
<1>9. (short \/ long) /\ (long <=> h = 4) /\ len = n
  <2>1. left = h + n + Len(b)
    <3> HIDE DEF h, n, m
    <3>1. QED
      BY <1>1, <1>4, <1>5, <1>7
  <2>2. CASE n < Ext16
    <3>1. s[r.at + 2] = n /\ left >= 2
      <4> HIDE DEF n, m, left
      <4>1. QED
        BY <1>1, <1>2, <1>5, <1>8, <2>1, <2>2
    <3>2. ~ long /\ short
      <4> HIDE DEF n, left
      <4>1. QED
        BY <1>1, <2>2, <3>1
    <3>3. QED
      BY <1>7, <2>2, <3>1, <3>2
  <2>3. CASE ~ (n < Ext16)
    <3>1. s[r.at + 2] = Ext16 /\ left >= 4 /\ Base * s[r.at + 3] + s[r.at + 4] = n
      <4>1. h = 4 /\ n >= Ext16
        <5> HIDE DEF n
        <5>1. QED
          BY <1>1, <2>3
      <4>2. left >= 4
        <5> HIDE DEF n, left, h
        <5>1. QED
          BY <1>1, <2>1, <4>1
      <4> HIDE DEF n, m, left, h
      <4>3. QED
        BY <1>2, <1>5, <1>8, <4>1, <4>2
    <3>2. long /\ h = 4
      BY <2>3, <3>1
    <3>3. QED
      BY <3>1, <3>2
  <2>4. QED
    BY <2>2, <2>3
<1> HIDE DEF len, long, short
<1>10. end = m + h + n
  <2>1. end = m + (IF long THEN 4 ELSE 2) + n
    BY <1>5, <1>9
  <2>2. (IF long THEN 4 ELSE 2) = h
    BY <1>7, <1>9
  <2>3. QED
    BY <2>1, <2>2
<1> HIDE DEF end
<1>11. end <= Len(s) /\ s[r.at + 1] = TOP + 2
  <2> HIDE DEF h, n, m
  <2>1. QED
    BY <1>1, <1>4, <1>5, <1>7, <1>8, <1>10
<1>12. SubSeq(s, end - len + 1, end) = p
  <2> DEFINE k == m + h
  <2>1. k \in Nat /\ end = k + n /\ end - len + 1 = k + 1 /\ k + n <= Len(s)
    <3> HIDE DEF h, n, m
    <3>1. QED
      BY <1>1, <1>4, <1>7, <1>9, <1>10
  <2>2. ASSUME NEW i \in 1 .. n
        PROVE  s[k + i] = p[i]
    <3> HIDE DEF h, n, m
    <3>1. h + i \in 1 .. h + n /\ k + i = m + (h + i)
      BY <1>1, <1>7
    <3>2. QED
      BY <1>2, <1>4, <3>1
  <2> HIDE DEF k
  <2>3. SubSeq(s, k + 1, k + Len(p)) = p
    <3>1. k + Len(p) <= Len(s) /\ \A i \in 1 .. Len(p) : s[k + i] = p[i]
      BY <2>1, <2>2
    <3>2. QED
      BY <1>4, <2>1, <3>1, SubSeqIs
  <2>4. QED
    BY <2>1, <2>3
<1>13. end = Len(a) + Len(x)
  <2> HIDE DEF h, n
  <2>1. QED
    BY <1>1, <1>2, <1>7, <1>10
<1>14. ReadFrame(s, r) = [at |-> end, payloads |-> Append(r.payloads, SubSeq(s, end - len + 1, end))]
  BY <1>3, <1>6, <1>9, <1>11
<1>15. QED
  BY <1>5, <1>12, <1>13, <1>14 DEF x, s, r

\* Payloads whose length fits two bytes, and the frames they are sent in.
Payloads == {ps \in Seq(Seq(Nat)) : \A i \in 1 .. Len(ps) : Len(ps[i]) < Base * Base}
Framed(ps) == [i \in 1 .. Len(ps) |-> packageMsgForWebsocket(ps[i])]

\* Of each such payload, the frame has two bytes or more.
LEMMA FramedType ==
  ASSUME NEW ps \in Payloads
  PROVE  /\ ps \in Seq(Seq(Nat)) /\ Len(ps) \in Nat
         /\ Framed(ps) \in Seq(Seq(Nat)) /\ Len(Framed(ps)) = Len(ps)
         /\ \A i \in 1 .. Len(ps) : /\ ps[i] \in Seq(Nat) /\ Len(ps[i]) < Base * Base
                                    /\ Framed(ps)[i] = packageMsgForWebsocket(ps[i])
                                    /\ Len(Framed(ps)[i]) >= 2
<1>1. ps \in Seq(Seq(Nat)) /\ Len(ps) \in Nat /\ \A i \in 1 .. Len(ps) : Len(ps[i]) < Base * Base
  BY DEF Payloads
<1>2. ASSUME NEW i \in 1 .. Len(ps)
      PROVE  /\ ps[i] \in Seq(Nat)
             /\ packageMsgForWebsocket(ps[i]) \in Seq(Nat) /\ Len(packageMsgForWebsocket(ps[i])) >= 2
  <2> DEFINE p == ps[i]
             x == packageMsgForWebsocket(p)
             h == IF Len(p) < Ext16 THEN 2 ELSE 4
  <2>1. p \in Seq(Nat) /\ Len(p) < Base * Base
    BY <1>1, ElementOfSeq
  <2> HIDE DEF p
  <2>2. x \in Seq(Nat) /\ Len(x) = h + Len(p) /\ Len(p) \in Nat
    BY <2>1, SentFrame
  <2> HIDE DEF x
  <2>3. Len(x) >= 2
    BY <2>2
  <2>4. QED
    BY <2>1, <2>2, <2>3 DEF p, x
<1>3. Framed(ps) \in Seq(Seq(Nat)) /\ Len(Framed(ps)) = Len(ps)
  <2>1. \A i \in 1 .. Len(ps) : packageMsgForWebsocket(ps[i]) \in Seq(Nat)
    BY <1>2
  <2>2. QED
    BY <1>1, <2>1 DEF Framed
<1>4. \A i \in 1 .. Len(ps) : Framed(ps)[i] = packageMsgForWebsocket(ps[i])
  BY DEF Framed
<1>5. QED
  BY <1>1, <1>2, <1>3, <1>4

\* Every frame has a byte or more, so that there are no more frames than bytes.
LEMMA FramesInBytes ==
  ASSUME NEW S, NEW q \in Seq(Seq(S)), \A i \in 1 .. Len(q) : Len(q[i]) >= 1
  PROVE  \A n \in 0 .. Len(q) : Len(Flat(q, n)) \in Nat /\ Len(Flat(q, n)) >= n
<1> DEFINE N == {n \in Nat : n \in 0 .. Len(q) => Len(Flat(q, n)) >= n}
<1>0. \A n \in 0 .. Len(q) : Len(Flat(q, n)) \in Nat
  BY FlatType
<1>1. ASSUME NEW n \in Nat, \A m \in 0 .. n - 1 : m \in N
      PROVE  n \in N
  <2>1. CASE n = 0
    <3>1. Len(Flat(q, 0)) >= 0
      BY <1>0
    <3>2. QED
      BY <2>1, <3>1
  <2>2. CASE n # 0 /\ n \in 0 .. Len(q)
    <3> DEFINE m == n - 1
    <3>1. m \in 0 .. Len(q) - 1 /\ m \in 0 .. Len(q) /\ m \in 0 .. n - 1 /\ m + 1 = n /\ n \in 1 .. Len(q)
      BY <2>2
    <3>2. Len(Flat(q, m)) >= m /\ Len(Flat(q, m)) \in Nat
      BY <1>0, <1>1, <3>1
    <3> HIDE DEF m
    <3>3. Flat(q, m) \in Seq(S) /\ q[n] \in Seq(S) /\ Flat(q, n) = Flat(q, m) \o q[n]
      BY <3>1, FlatPlace
    <3>4. Len(Flat(q, n)) = Len(Flat(q, m)) + Len(q[n])
      BY <3>3, ConcatProperties
    <3>5. Len(q[n]) \in Nat /\ Len(q[n]) >= 1
      BY <3>1, <3>3
    <3>6. Len(Flat(q, n)) >= n
      BY <3>1, <3>2, <3>4, <3>5
    <3>7. QED
      BY <3>6
  <2>3. QED
    BY <2>1, <2>2
<1>2. Nat \subseteq N
  BY <1>1, Induction
<1>3. QED
  BY <1>0, <1>2

\* A browser with nothing before it takes nothing.
LEMMA ReadNone ==
  ASSUME NEW bytes \in Seq(Nat), NEW payloads
  PROVE  LET r == [at |-> Len(bytes), payloads |-> payloads] IN ReadFrame(bytes, r) = r
<1> DEFINE r == [at |-> Len(bytes), payloads |-> payloads]
           N == Len(bytes)
<1>1. N \in Nat /\ r.at = N
  OBVIOUS
<1> HIDE DEF N, r
<1>2. ~ (N - r.at >= 2) /\ ~ (N - r.at >= 4)
  BY <1>1
<1>3. ReadFrame(bytes, r) = r
  BY <1>2 DEF ReadFrame, N
<1>4. QED
  BY <1>3 DEF r

\* From whole frames and nothing else, a browser takes their payloads, each once and in order.
LEMMA ReceivedFrames ==
  ASSUME NEW ps \in Payloads
  PROVE  Received(FlattenSeq(Framed(ps))) = ps
<1> DEFINE q == Framed(ps)
           bytes == FlattenSeq(q)
           L == Len(ps)
           N == Len(bytes)
<1>1. /\ ps \in Seq(Seq(Nat)) /\ L \in Nat /\ q \in Seq(Seq(Nat)) /\ Len(q) = L
      /\ \A i \in 1 .. L : /\ ps[i] \in Seq(Nat) /\ Len(ps[i]) < Base * Base
                           /\ q[i] = packageMsgForWebsocket(ps[i]) /\ Len(q[i]) >= 2
  BY FramedType
<1> HIDE DEF q
<1>2. bytes = Flat(q, L) /\ bytes \in Seq(Nat)
  <2>1. bytes = Flat(q, L)
    BY <1>1, FlatAll
  <2>2. L \in 0 .. Len(q)
    BY <1>1
  <2> HIDE DEF bytes
  <2>3. QED
    BY <1>1, <2>1, <2>2, FlatType
<1>3. \A n \in 0 .. L : Len(Flat(q, n)) \in Nat /\ Len(Flat(q, n)) >= n
  <2>1. \A i \in 1 .. Len(q) : Len(q[i]) >= 1
    <3>1. \A i \in 1 .. L : Len(q[i]) \in Nat
      BY <1>1, ElementOfSeq
    <3>2. QED
      BY <1>1, <3>1
  <2>2. QED
    BY <1>1, <2>1, FramesInBytes
<1>4. PICK f : ReadLoop(f, bytes) /\ Received(bytes) = f[N].payloads
  <2> HIDE DEF bytes
  <2>1. QED
    BY <1>2, ReceivedIs
<1> HIDE DEF bytes
<1>5. N \in Nat /\ N >= L /\ N = Len(Flat(q, L))
  <2>1. L \in 0 .. L
    BY <1>1
  <2>2. QED
    BY <1>2, <1>3, <2>1
<1>6. f[0] = NoneRead /\ \A n \in 1 .. N : f[n] = ReadFrame(bytes, f[n - 1])
  <2>1. f = [n \in 0 .. N |-> IF n = 0 THEN NoneRead ELSE ReadFrame(bytes, f[n - 1])]
    BY <1>4 DEF ReadLoop
  <2> HIDE DEF N
  <2>2. QED
    BY <1>5, <2>1
<1> DEFINE Upto(n) == IF n <= L THEN n ELSE L
           There(n) == [at |-> Len(Flat(q, Upto(n))), payloads |-> SubSeq(ps, 1, Upto(n))]
           M == {n \in Nat : n \in 0 .. N => f[n] = There(n)}
<1>7. ASSUME NEW n \in Nat, \A m \in 0 .. n - 1 : m \in M
      PROVE  n \in M
  <2>1. CASE n = 0
    <3>1. Upto(0) = 0
      BY <1>1
    <3>2. Len(Flat(q, 0)) = 0 /\ SubSeq(ps, 1, 0) = <<>>
      BY <1>1, FlatStep, EmptySeq
    <3>3. f[0] = There(0)
      BY <1>6, <3>1, <3>2 DEF NoneRead
    <3>4. QED
      BY <2>1, <3>3
  <2>2. CASE n # 0 /\ n \in 0 .. N
    <3> DEFINE m == n - 1
    <3>1. m \in Nat /\ m \in 0 .. n - 1 /\ m \in 0 .. N /\ n = m + 1 /\ n \in 1 .. N
      BY <1>5, <2>2
    <3>2. f[m] = There(m)
      BY <1>7, <3>1
    <3>3. f[n] = ReadFrame(bytes, f[m])
      BY <1>6, <3>1
    <3> HIDE DEF m
    <3>4. CASE n <= L
      <4> DEFINE a == Flat(q, m)
                 x == q[n]
                 p == ps[n]
                 ps0 == SubSeq(ps, 1, m)
      <4>1. m \in 0 .. Len(q) - 1 /\ n \in 1 .. L /\ Upto(m) = m /\ Upto(n) = n
        BY <1>1, <3>1, <3>4
      <4>2. /\ a \in Seq(Nat) /\ x \in Seq(Nat) /\ Flat(q, n) = a \o x
            /\ \E b \in Seq(Nat) : bytes = (a \o x) \o b
        <5>1. /\ a \in Seq(Nat) /\ q[m + 1] \in Seq(Nat) /\ Flat(q, m + 1) = a \o q[m + 1]
              /\ \E b \in Seq(Nat) : FlattenSeq(q) = (a \o q[m + 1]) \o b
          BY <1>1, <4>1, FlatPlace
        <5> HIDE DEF a
        <5>2. QED
          BY <3>1, <5>1 DEF bytes
      <4>3. PICK b \in Seq(Nat) : bytes = (a \o x) \o b
        BY <4>2
      <4>4. p \in Seq(Nat) /\ Len(p) < Base * Base /\ x = packageMsgForWebsocket(p)
        BY <1>1, <4>1
      <4>5. f[m] = [at |-> Len(a), payloads |-> ps0]
        BY <3>2, <4>1
      <4>6. Flat(q, n) = a \o x /\ a \in Seq(Nat) /\ x \in Seq(Nat)
        BY <4>2
      <4>7. Append(ps0, p) = SubSeq(ps, 1, n)
        <5>1. 1 \in 1 .. Len(ps) /\ n \in 1 .. Len(ps)
          BY <4>1
        <5>2. SubSeq(ps, 1, n) = SubSeq(ps, 1, n - 1) \o <<ps[n]>>
          BY <1>1, <5>1, SubSeqRecursiveSecond
        <5>3. m = n - 1 /\ m \in 0 .. Len(ps)
          BY <3>1, <4>1, <5>1
        <5>4. ps0 \in Seq(Seq(Nat))
          BY <1>1, <5>3, FirstAndRest
        <5>5. SubSeq(ps, 1, n) = ps0 \o <<p>>
          BY <5>2, <5>3
        <5> HIDE DEF ps0, p
        <5>6. Append(ps0, p) = ps0 \o <<p>>
          BY <4>4, <5>4, AppendIsConcat
        <5>7. QED
          BY <5>5, <5>6
      <4> HIDE DEF a, x, p, ps0
      <4>8. ReadFrame(bytes, f[m]) = [at |-> Len(a) + Len(x), payloads |-> Append(ps0, p)]
        <5> DEFINE y == packageMsgForWebsocket(p)
        <5>1. ReadFrame((a \o y) \o b, [at |-> Len(a), payloads |-> ps0])
                = [at |-> Len(a) + Len(y), payloads |-> Append(ps0, p)]
          BY <4>4, <4>6, ReadOne
        <5>2. y = x
          BY <4>4
        <5> HIDE DEF y
        <5>3. QED
          BY <4>3, <4>5, <5>1, <5>2
      <4>9. Len(Flat(q, n)) = Len(a) + Len(x)
        BY <4>6, ConcatProperties
      <4>10. f[n] = There(n)
        BY <3>3, <4>1, <4>7, <4>8, <4>9
      <4>11. QED
        BY <4>10
    <3>5. CASE ~ (n <= L)
      <4>1. Upto(m) = L /\ Upto(n) = L
        BY <1>1, <3>1, <3>5
      <4>2. There(n) = There(m) /\ There(m) = [at |-> Len(bytes), payloads |-> SubSeq(ps, 1, L)]
        BY <1>2, <4>1
      <4> HIDE DEF There
      <4>3. ReadFrame(bytes, There(m)) = There(m)
        BY <1>2, <4>2, ReadNone
      <4>4. f[n] = There(n)
        BY <3>2, <3>3, <4>2, <4>3
      <4>5. QED
        BY <4>4
    <3>6. QED
      BY <3>4, <3>5
  <2>3. QED
    BY <2>1, <2>2
<1>8. Nat \subseteq M
  <2> HIDE DEF M
  <2>1. QED
    BY <1>7, Induction
<1>9. f[N] = There(N)
  <2>1. N \in M /\ N \in 0 .. N
    BY <1>5, <1>8
  <2>2. QED
    BY <2>1
<1>10. SubSeq(ps, 1, Upto(N)) = ps
  <2>1. Upto(N) = L
    BY <1>1, <1>5
  <2>2. QED
    BY <1>1, <2>1, SubSeqFull
<1>11. QED
  BY <1>4, <1>9, <1>10 DEF bytes, q

-----------------------------------------------------------------------------
(* A frame of a browser's.                                                   *)

\* What a byte is.
LEMMA ByteSize ==
  /\ Byte \subseteq Nat /\ Base \in Nat /\ Base = 2 * TOP /\ \A b \in Byte : b < Base
  /\ \A n \in 0 .. Base - 1 : n \in Byte
BY Sizes DEF Byte

\* A place in a payload and the byte of the mask for it.
LEMMA MaskPlace ==
  ASSUME NEW i \in Nat, i > 0
  PROVE  ((i - 1) % 4) + 1 \in 1 .. 4
OBVIOUS

\* Masking gives bytes, as many as there were, and undoes itself.
LEMMA MaskedType ==
  ASSUME NEW p \in Seq(Byte), NEW mask \in [1 .. 4 -> Byte]
  PROVE  /\ Masked(p, mask) \in Seq(Byte) /\ Len(Masked(p, mask)) = Len(p)
         /\ \A i \in 1 .. Len(p) : Masked(p, mask)[i] = BitXor(p[i], mask[((i - 1) % 4) + 1])
         /\ Masked(Masked(p, mask), mask) = p
<1> DEFINE q == Masked(p, mask)
           m(i) == mask[((i - 1) % 4) + 1]
<1>1. ASSUME NEW i \in 1 .. Len(p)
      PROVE  p[i] \in Byte /\ m(i) \in Byte
  <2>1. ((i - 1) % 4) + 1 \in 1 .. 4
    BY MaskPlace
  <2>2. p[i] \in Byte
    BY ElementOfSeq
  <2>3. QED
    BY <2>1, <2>2
<1>2. DOMAIN p = 1 .. Len(p) /\ Len(p) \in Nat
  BY LenProperties
<1> HIDE DEF m
<1>3. q = [i \in 1 .. Len(p) |-> BitXor(p[i], m(i))]
  BY <1>2 DEF Masked, m
<1>4. \A i \in 1 .. Len(p) : BitXor(p[i], m(i)) \in Byte /\ BitXor(BitXor(p[i], m(i)), m(i)) = p[i]
  BY <1>1, WebLinkAssumption
<1> HIDE DEF q
<1>5. q \in Seq(Byte) /\ Len(q) = Len(p) /\ \A i \in 1 .. Len(p) : q[i] = BitXor(p[i], m(i))
  BY <1>2, <1>3, <1>4
<1>6. Masked(q, mask) = p
  <2> DEFINE s == Masked(q, mask)
  <2>1. DOMAIN q = 1 .. Len(p)
    BY <1>2, <1>5, LenProperties
  <2>2. s = [i \in 1 .. Len(p) |-> BitXor(q[i], m(i))]
    BY <2>1 DEF Masked, m
  <2>3. \A i \in 1 .. Len(p) : BitXor(q[i], m(i)) = p[i]
    BY <1>4, <1>5
  <2>4. p = [i \in 1 .. Len(p) |-> p[i]]
    <3>1. p \in [1 .. Len(p) -> Byte]
      BY LenProperties
    <3>2. QED
      BY <3>1
  <2> HIDE DEF s
  <2>5. s = [i \in 1 .. Len(p) |-> p[i]]
    BY <2>2, <2>3
  <2>6. QED
    BY <2>4, <2>5 DEF s
<1>7. QED
  BY <1>5, <1>6 DEF q, m

\* The size of the first header of a frame.
Plain(f) == IF Len(f.payload) < Ext16 THEN 2 ELSE 4

\* A browser's frame: where its parts are.
LEMMA FrameWire ==
  ASSUME NEW f, IsFrame(f)
  PROVE  LET x == FrameBytes(f)
             h == Plain(f)
             n == Len(f.payload)
         IN  /\ n \in Nat /\ n < Base * Base /\ f.payload \in Seq(Byte) /\ f.mask \in [1 .. 4 -> Byte]
             /\ f.op \in 0 .. OPCODES - 1 /\ f.fin \in {0, 1}
             /\ x \in Seq(Byte) /\ Len(x) = h + 4 + n
             /\ x[1] = TOP * f.fin + f.op
             /\ n < Ext16 => x[2] = TOP + n
             /\ n >= Ext16 => x[2] = TOP + Ext16 /\ Base * x[3] + x[4] = n
             /\ \A i \in 1 .. 4 : x[h + i] = f.mask[i]
             /\ \A i \in 1 .. n : x[h + 4 + i] = Masked(f.payload, f.mask)[i]
<1> DEFINE n == Len(f.payload)
           h == Plain(f)
           x == FrameBytes(f)
           first == TOP * f.fin + f.op
           head == FrameHead(f.fin, f.op, 1, n)
           body == Masked(f.payload, f.mask)
           hm == head \o f.mask
<1>1. /\ f.payload \in Seq(Byte) /\ f.mask \in [1 .. 4 -> Byte] /\ f.op \in 0 .. OPCODES - 1
      /\ f.fin \in {0, 1} /\ n < Base * Base
  BY DEF IsFrame
<1>2. n \in Nat /\ TOP \in Nat /\ Ext16 = TOP - 2 /\ Base = 2 * TOP /\ OPCODES \in Nat /\ TOP >= 16
  BY <1>1, Sizes
<1>3. body \in Seq(Byte) /\ Len(body) = n
  BY <1>1, MaskedType
<1>4. f.mask \in Seq(Byte) /\ Len(f.mask) = 4
  <2> DEFINE m == f.mask
  <2>1. m \in [1 .. 4 -> Byte]
    BY <1>1
  <2> HIDE DEF m
  <2>2. m \in Seq(Byte) /\ Len(m) = 4
    BY <2>1, FunctionSeq
  <2>3. QED
    BY <2>2 DEF m
<1>5. first \in Byte
  <2>1. OPCODES =< TOP
    <3>1. PICK k \in 2 .. TOP : TOP = k * OPCODES
      BY WebLinkAssumption
    <3>2. QED
      BY <1>2, <3>1
  <2>2. TOP * f.fin \in {0, TOP}
    BY <1>1, <1>2
  <2>3. first \in 0 .. 2 * TOP - 1
    BY <1>1, <1>2, <2>1, <2>2
  <2>4. QED
    BY <1>2, <2>3 DEF Byte
<1>6. /\ head \in Seq(Byte) /\ Len(head) = h /\ head[1] = first
      /\ n < Ext16 => head[2] = TOP + n
      /\ n >= Ext16 => head[2] = TOP + Ext16 /\ Base * head[3] + head[4] = n
  <2>1. CASE n < Ext16
    <3>1. h = 2 /\ ~ (n >= Ext16)
      BY <1>2, <2>1 DEF Plain
    <3>2. head = <<first, TOP * 1 + n>>
      BY <2>1 DEF FrameHead
    <3>3. TOP * 1 + n \in Byte /\ TOP * 1 + n = TOP + n
      <4> HIDE DEF n
      <4>1. QED
        BY <1>2, <2>1 DEF Byte
    <3> HIDE DEF first, head, n
    <3>4. QED
      BY <1>5, <2>1, <3>1, <3>2, <3>3
  <2>2. CASE ~ (n < Ext16)
    <3> DEFINE d == n \div Base
               e == n % Base
    <3>1. h = 4
      BY <2>2 DEF Plain
    <3>2. head = <<first, TOP * 1 + Ext16, d, e>>
      BY <2>2 DEF FrameHead
    <3>3. TOP * 1 + Ext16 \in Byte /\ TOP * 1 + Ext16 = TOP + Ext16
      BY <1>2 DEF Byte
    <3>4. d \in Nat /\ e \in 0 .. Base - 1 /\ Base * d + e = n
      <4> HIDE DEF n
      <4>1. QED
        BY <1>2, TwoBytes
    <3>5. d < Base
      <4> HIDE DEF d, e, n
      <4>1. Base \in Nat
        BY <1>2
      <4>2. ASSUME d >= Base
            PROVE  FALSE
        <5>1. Base * d >= Base * Base
          BY <3>4, <4>1, <4>2
        <5> HIDE DEF Base
        <5>2. Base * d \in Nat /\ Base * Base \in Nat
          BY <3>4, <4>1, ProductType
        <5>3. QED
          BY <1>1, <1>2, <3>4, <5>1, <5>2
      <4>3. QED
        BY <3>4, <4>1, <4>2
    <3>6. d \in Byte /\ e \in Byte
      <4> HIDE DEF d, e, n
      <4>1. QED
        BY <1>2, <3>4, <3>5 DEF Byte
    <3> HIDE DEF first, head, n, d, e
    <3>7. QED
      BY <1>5, <2>2, <3>1, <3>2, <3>3, <3>4, <3>6
  <2>3. QED
    BY <2>1, <2>2
<1>7. h \in {2, 4}
  BY DEF Plain
<1>8. x = hm \o body
  BY DEF FrameBytes
<1> HIDE DEF x, head, body, first, n, h
<1>9. /\ hm \in Seq(Byte) /\ Len(hm) = h + 4
      /\ \A i \in 1 .. h + 4 : hm[i] = IF i <= h THEN head[i] ELSE f.mask[i - h]
  <2>1. head \in Seq(Byte) /\ f.mask \in Seq(Byte)
    BY <1>4, <1>6
  <2>2. /\ hm \in Seq(Byte) /\ Len(hm) = Len(head) + Len(f.mask)
        /\ \A i \in 1 .. Len(head) + Len(f.mask) : hm[i] =
               IF i <= Len(head) THEN head[i] ELSE f.mask[i - Len(head)]
    BY <2>1, ConcatProperties
  <2> HIDE DEF hm
  <2>3. QED
    BY <1>4, <1>6, <2>2
<1> HIDE DEF hm
<1>10. /\ x \in Seq(Byte) /\ Len(x) = (h + 4) + n
       /\ \A i \in 1 .. (h + 4) + n : x[i] = IF i <= h + 4 THEN hm[i] ELSE body[i - (h + 4)]
  <2>1. hm \in Seq(Byte) /\ body \in Seq(Byte)
    BY <1>3, <1>9
  <2>2. /\ x \in Seq(Byte) /\ Len(x) = Len(hm) + Len(body)
        /\ \A i \in 1 .. Len(hm) + Len(body) : x[i] = IF i <= Len(hm) THEN hm[i] ELSE body[i - Len(hm)]
    BY <1>8, <2>1, ConcatProperties
  <2>3. QED
    BY <1>3, <1>9, <2>2
<1>11. \A i \in 1 .. h : x[i] = head[i]
  <2>1. \A i \in 1 .. h : i \in 1 .. h + 4 /\ i \in 1 .. (h + 4) + n /\ i <= h + 4 /\ i <= h
    BY <1>2, <1>7
  <2>2. QED
    BY <1>9, <1>10, <2>1
<1>12. \A i \in 1 .. 4 : x[h + i] = f.mask[i]
  <2>1. \A i \in 1 .. 4 : /\ h + i \in 1 .. h + 4 /\ h + i \in 1 .. (h + 4) + n /\ h + i <= h + 4
                          /\ ~ (h + i <= h) /\ (h + i) - h = i
    BY <1>2, <1>7
  <2>2. QED
    BY <1>9, <1>10, <2>1
<1>13. \A i \in 1 .. n : x[h + 4 + i] = body[i]
  <2>1. \A i \in 1 .. n : /\ h + 4 + i \in 1 .. (h + 4) + n /\ ~ (h + 4 + i <= h + 4)
                          /\ (h + 4 + i) - (h + 4) = i
    BY <1>2, <1>7
  <2>2. QED
    BY <1>10, <2>1
<1>14. x[1] = first /\ x[2] = head[2] /\ (h = 4 => x[3] = head[3] /\ x[4] = head[4])
  BY <1>6, <1>7, <1>11
<1>15. (n < Ext16 => h = 2) /\ (n >= Ext16 => h = 4)
  BY <1>2 DEF Plain, n, h
<1>16. /\ n < Ext16 => x[2] = TOP + n
       /\ n >= Ext16 => x[2] = TOP + Ext16 /\ Base * x[3] + x[4] = n
  BY <1>6, <1>14, <1>15
<1>17. Len(x) = h + 4 + n
  BY <1>2, <1>7, <1>10
<1>18. QED
  BY <1>1, <1>2, <1>10, <1>12, <1>13, <1>14, <1>16, <1>17 DEF x, h, n, body, first

-----------------------------------------------------------------------------
(* What the browser has sent.                                                *)

\* The units a browser sends.
RequestUnits == {[kind |-> "request", text |-> r.text, key |-> r.key] : r \in Requests}
FrameUnits   == {[kind |-> "frame", frame |-> f] : f \in ClientFrames}

\* A request, then frames, a close frame last.
Conversation(us) ==
  /\ us \in Seq(RequestUnits \cup FrameUnits)
  /\ \A i \in 1 .. Len(us) : us[i] \in IF i = 1 THEN RequestUnits ELSE FrameUnits
  /\ \A i \in 2 .. Len(us) - 1 : us[i].frame.op # CLOSE

\* The bytes of each.
Wire(us) == [i \in 1 .. Len(us) |-> UnitBytes(us[i])]

\* A unit is a request that WebLinkAssumption describes, or a frame that it does.
LEMMA UnitIs ==
  ASSUME NEW u
  PROVE  /\ u \in RequestUnits => /\ u.kind = "request" /\ IsRequest(u)
                                  /\ UnitBytes(u) = u.text /\ u.text \in Seq(Byte)
                                  /\ u.key \in Seq(Byte \ {0, CR, LF})
         /\ u \in FrameUnits => /\ u.kind = "frame" /\ u.frame \in ClientFrames /\ IsFrame(u.frame)
                                /\ UnitBytes(u) = FrameBytes(u.frame) /\ FrameBytes(u.frame) \in Seq(Byte)
<1>1. ASSUME u \in RequestUnits
      PROVE  /\ u.kind = "request" /\ IsRequest(u)
             /\ UnitBytes(u) = u.text /\ u.text \in Seq(Byte)
             /\ u.key \in Seq(Byte \ {0, CR, LF})
  <2>1. PICK r \in Requests : u = [kind |-> "request", text |-> r.text, key |-> r.key]
    BY <1>1 DEF RequestUnits
  <2>2. u.kind = "request" /\ u.text = r.text /\ u.key = r.key
    BY <2>1
  <2>3. IsRequest(r)
    BY WebLinkAssumption
  <2>4. IsRequest(u)
    BY <2>2, <2>3 DEF IsRequest
  <2>5. u.text \in Seq(Byte \ {0}) /\ u.key \in Seq(Byte \ {0, CR, LF})
    BY <2>4 DEF IsRequest
  <2>6. u.text \in Seq(Byte)
    <3>1. Byte \ {0} \subseteq Byte
      OBVIOUS
    <3>2. QED
      BY <2>5, <3>1, SeqMonotonic
  <2>7. QED
    BY <2>2, <2>4, <2>5, <2>6 DEF UnitBytes
<1>2. ASSUME u \in FrameUnits
      PROVE  /\ u.kind = "frame" /\ u.frame \in ClientFrames /\ IsFrame(u.frame)
             /\ UnitBytes(u) = FrameBytes(u.frame) /\ FrameBytes(u.frame) \in Seq(Byte)
  <2>1. PICK f \in ClientFrames : u = [kind |-> "frame", frame |-> f]
    BY <1>2 DEF FrameUnits
  <2>2. u.kind = "frame" /\ u.frame = f
    BY <2>1
  <2>3. IsFrame(f)
    BY WebLinkAssumption
  <2>4. FrameBytes(f) \in Seq(Byte)
    BY <2>3, FrameWire
  <2>5. QED
    BY <2>2, <2>3, <2>4 DEF UnitBytes
<1>3. QED
  BY <1>1, <1>2

\* The stream is the units' bytes, joined.
LEMMA StreamIs ==
  ASSUME NEW us, Conversation(us)
  PROVE  /\ Wire(us) \in Seq(Seq(Byte)) /\ Len(Wire(us)) = Len(us) /\ Len(us) \in Nat
         /\ \A i \in 1 .. Len(us) : Wire(us)[i] = UnitBytes(us[i])
         /\ StreamOf(us) = FlattenSeq(Wire(us)) /\ StreamOf(us) = Flat(Wire(us), Len(us))
         /\ StreamOf(us) \in Seq(Byte) /\ Len(StreamOf(us)) \in Nat
<1>1. us \in Seq(RequestUnits \cup FrameUnits) /\ Len(us) \in Nat /\ DOMAIN us = 1 .. Len(us)
  BY LenProperties DEF Conversation
<1>2. \A i \in 1 .. Len(us) : UnitBytes(us[i]) \in Seq(Byte)
  <2>1. ASSUME NEW i \in 1 .. Len(us)
        PROVE  UnitBytes(us[i]) \in Seq(Byte)
    <3>1. us[i] \in RequestUnits \/ us[i] \in FrameUnits
      BY DEF Conversation
    <3>2. QED
      BY <3>1, UnitIs
  <2>2. QED
    BY <2>1
<1>3. Wire(us) \in Seq(Seq(Byte)) /\ Len(Wire(us)) = Len(us)
  BY <1>1, <1>2 DEF Wire
<1>4. \A i \in 1 .. Len(us) : Wire(us)[i] = UnitBytes(us[i])
  BY DEF Wire
<1>5. StreamOf(us) = FlattenSeq(Wire(us))
  BY <1>1 DEF StreamOf, Wire
<1>6. FlattenSeq(Wire(us)) = Flat(Wire(us), Len(us))
  BY <1>3, FlatAll
<1>7. Flat(Wire(us), Len(us)) \in Seq(Byte)
  <2>1. Len(us) \in 0 .. Len(Wire(us))
    BY <1>1, <1>3
  <2>2. QED
    BY <1>3, <2>1, FlatType
<1>8. QED
  BY <1>1, <1>3, <1>4, <1>5, <1>6, <1>7

\* One frame more.
LEMMA StreamMore ==
  ASSUME NEW us, Conversation(us), us # <<>>, NEW f \in ClientFrames,
         \A i \in 2 .. Len(us) : us[i].frame.op # CLOSE
  PROVE  LET more == Append(us, [kind |-> "frame", frame |-> f])
         IN  /\ Conversation(more) /\ Len(more) = Len(us) + 1
             /\ \A i \in 1 .. Len(us) : more[i] = us[i]
             /\ Wire(more) = Append(Wire(us), FrameBytes(f))
             /\ StreamOf(more) = StreamOf(us) \o FrameBytes(f)
             /\ FrameBytes(f) \in Seq(Byte)
<1> DEFINE u == [kind |-> "frame", frame |-> f]
           more == Append(us, u)
           U == RequestUnits \cup FrameUnits
           n == Len(us)
           x == FrameBytes(f)
<1>1. u \in FrameUnits /\ u \in U
  BY DEF FrameUnits
<1>2. us \in Seq(U) /\ n \in Nat /\ n > 0
  <2>1. us \in Seq(U)
    BY DEF Conversation
  <2>2. QED
    BY <2>1
<1>3. UnitBytes(u) = x /\ x \in Seq(Byte)
  BY <1>1, UnitIs
<1> HIDE DEF u, x
<1>4. more \in Seq(U) /\ Len(more) = n + 1 /\ (\A i \in 1 .. n : more[i] = us[i]) /\ more[n + 1] = u
  <2> HIDE DEF U
  <2>1. QED
    BY <1>1, <1>2, AppendProperties
<1> HIDE DEF more, n
<1>5. Conversation(more)
  <2>1. ASSUME NEW i \in 1 .. Len(more)
        PROVE  more[i] \in IF i = 1 THEN RequestUnits ELSE FrameUnits
    <3>1. CASE i \in 1 .. n
      <4>1. us[i] \in IF i = 1 THEN RequestUnits ELSE FrameUnits
        BY <3>1 DEF Conversation, n
      <4>2. QED
        BY <1>4, <3>1, <4>1
    <3>2. CASE i = n + 1
      BY <1>1, <1>2, <1>4, <3>2
    <3>3. QED
      BY <1>2, <1>4, <3>1, <3>2
  <2>2. ASSUME NEW i \in 2 .. Len(more) - 1
        PROVE  more[i].frame.op # CLOSE
    <3>1. i \in 1 .. n /\ i \in 2 .. Len(us)
      BY <1>2, <1>4 DEF n
    <3>2. QED
      BY <1>4, <3>1
  <2>3. QED
    BY <1>4, <2>1, <2>2 DEF Conversation, U
<1>6. Wire(us) \in Seq(Seq(Byte)) /\ Len(Wire(us)) = n /\ \A i \in 1 .. n : Wire(us)[i] = UnitBytes(us[i])
  BY StreamIs DEF n
<1>7. Wire(more) \in Seq(Seq(Byte)) /\ Len(Wire(more)) = n + 1
      /\ \A i \in 1 .. n + 1 : Wire(more)[i] = UnitBytes(more[i])
  BY <1>4, <1>5, StreamIs
<1>8. Wire(more) = Append(Wire(us), x)
  <2> DEFINE w == Wire(us)
             v == Append(w, x)
  <2> HIDE DEF w
  <2>1. v \in Seq(Seq(Byte)) /\ Len(v) = n + 1 /\ (\A i \in 1 .. n : v[i] = w[i]) /\ v[n + 1] = x
    <3>1. w \in Seq(Seq(Byte)) /\ Len(w) = n
      BY <1>6 DEF w
    <3>2. /\ v \in Seq(Seq(Byte)) /\ Len(v) = Len(w) + 1 /\ (\A i \in 1 .. Len(w) : v[i] = w[i])
          /\ v[Len(w) + 1] = x
      BY <1>3, <3>1, AppendProperties
    <3>3. QED
      BY <3>1, <3>2
  <2> HIDE DEF v
  <2>2. \A i \in 1 .. n + 1 : Wire(more)[i] = v[i]
    <3>1. \A i \in 1 .. n : Wire(more)[i] = v[i]
      <4>1. \A i \in 1 .. n : i \in 1 .. n + 1
        BY <1>2
      <4>2. QED
        BY <1>4, <1>6, <1>7, <2>1, <4>1 DEF w
    <3>2. Wire(more)[n + 1] = v[n + 1]
      <4>1. n + 1 \in 1 .. n + 1
        BY <1>2
      <4>2. QED
        BY <1>3, <1>4, <1>7, <2>1, <4>1
    <3>3. \A i \in 1 .. n + 1 : i \in 1 .. n \/ i = n + 1
      BY <1>2
    <3>4. QED
      BY <3>1, <3>2, <3>3
  <2>3. Wire(more) = v
    BY <1>7, <2>1, <2>2, SeqEqual
  <2>4. QED
    BY <2>3 DEF v, w
<1>9. StreamOf(more) = StreamOf(us) \o x
  <2>1. StreamOf(more) = FlattenSeq(Wire(more)) /\ StreamOf(us) = FlattenSeq(Wire(us))
    BY <1>5, StreamIs
  <2>2. FlattenSeq(Append(Wire(us), x)) = FlattenSeq(Wire(us)) \o x
    BY <1>3, <1>6, FlatMore
  <2>3. QED
    BY <1>8, <2>1, <2>2
<1>10. QED
  BY <1>3, <1>4, <1>5, <1>8, <1>9 DEF more, u, n, x

-----------------------------------------------------------------------------
(* The reply.                                                                *)

\* Texts without a line's end.
Word == Nat \ {LF}

\* What the code's texts are made of.
LEMMA TextBytes ==
  /\ CR \in Nat \ {0} /\ LF \in Nat \ {0} /\ CR # LF /\ CR < OPCODES /\ LF < OPCODES
  /\ OPCODES \in Nat /\ OPCODES >= 8
  /\ KEYNAME = OPCODES + 1 /\ SEPARATOR = OPCODES + 2 /\ DIGEST = OPCODES + 3
BY WebLinkAssumption DEF KEYNAME, SEPARATOR, DIGEST, Letter

\* Where the parts of a reply are.
LEMMA ReplyIs ==
  ASSUME NEW key \in Seq(Nat)
  PROVE  LET n == Len(key)
         IN  /\ Reply(key) \in Seq(Nat) /\ Len(Reply(key)) = n + 6 /\ n \in Nat
             /\ \A i \in 1 .. n : Reply(key)[2 + i] = key[i]
             /\ Reply(key)[2 + n + 1] = CR /\ Reply(key)[2 + n + 2] = LF
<1> DEFINE n == Len(key)
           a == <<DIGEST, SEPARATOR>>
<1>1. a \in Seq(Nat) /\ Len(a) = 2 /\ Blank \in Seq(Nat) /\ Len(Blank) = 4 /\ Blank[1] = CR /\ Blank[2] = LF
  <2>1. DIGEST \in Nat /\ SEPARATOR \in Nat /\ CR \in Nat /\ LF \in Nat
    BY TextBytes
  <2>2. QED
    BY <2>1 DEF Blank
<1>2. Reply(key) = (a \o key) \o Blank
  BY DEF Reply
<1> HIDE DEF a
<1>3. /\ Reply(key) \in Seq(Nat) /\ Len(Reply(key)) = 2 + n + 4
      /\ \A i \in 1 .. n : Reply(key)[2 + i] = key[i]
  <2>0. a \in Seq(Nat) /\ Blank \in Seq(Nat)
    BY <1>1
  <2>1. /\ (a \o key) \o Blank \in Seq(Nat)
        /\ Len((a \o key) \o Blank) = Len(a) + Len(key) + Len(Blank)
        /\ \A i \in 1 .. Len(key) : ((a \o key) \o Blank)[Len(a) + i] = key[i]
    BY <2>0, Surrounded
  <2> HIDE DEF n
  <2>2. QED
    BY <1>1, <1>2, <2>1 DEF n
<1>4. /\ a \o key \in Seq(Nat) /\ Len(a \o key) = 2 + n
  <2>1. a \in Seq(Nat)
    BY <1>1
  <2>2. a \o key \in Seq(Nat) /\ Len(a \o key) = Len(a) + Len(key)
    BY <2>1, ConcatProperties
  <2>3. QED
    BY <1>1, <2>2
<1>5. n \in Nat
  OBVIOUS
<1>6. Reply(key)[2 + n + 1] = CR /\ Reply(key)[2 + n + 2] = LF
  <2> DEFINE b == a \o key
             k == 2 + n
  <2>1. b \in Seq(Nat) /\ Len(b) = k /\ k \in Nat
    BY <1>4, <1>5
  <2>2. Reply(key) = b \o Blank
    BY <1>2
  <2> HIDE DEF b, k
  <2>3. \A i \in 1 .. k + 4 : Reply(key)[i] = IF i <= k THEN b[i] ELSE Blank[i - k]
    <3>1. \A i \in 1 .. Len(b) + Len(Blank) : (b \o Blank)[i] =
                 IF i <= Len(b) THEN b[i] ELSE Blank[i - Len(b)]
      BY <1>1, <2>1, ConcatProperties
    <3>2. QED
      BY <1>1, <2>1, <2>2, <3>1
  <2>4. Reply(key)[k + 1] = CR /\ Reply(key)[k + 2] = LF
    BY <1>1, <2>1, <2>3
  <2>5. QED
    BY <2>4 DEF k
<1>7. QED
  BY <1>3, <1>5, <1>6

\* A reply shows what key it answers: it is the text up to the first end of a line.
LEMMA SameKey ==
  ASSUME NEW key \in Seq(Word), NEW other \in Seq(Word), NEW rest \in Seq(Nat),
         IsPrefix(Reply(other), Reply(key) \o rest)
  PROVE  key = other
<1> DEFINE m == Len(key)
           n == Len(other)
           s == Reply(key)
           t == Reply(other)
           whole == s \o rest
<1>1. key \in Seq(Nat) /\ other \in Seq(Nat)
  <2>1. Word \subseteq Nat
    BY DEF Word
  <2>2. QED
    BY <2>1, SeqMonotonic
<1>2. /\ s \in Seq(Nat) /\ Len(s) = m + 6 /\ m \in Nat /\ (\A i \in 1 .. m : s[2 + i] = key[i])
      /\ s[2 + m + 1] = CR /\ s[2 + m + 2] = LF
  BY <1>1, ReplyIs
<1>3. /\ t \in Seq(Nat) /\ Len(t) = n + 6 /\ n \in Nat /\ (\A i \in 1 .. n : t[2 + i] = other[i])
      /\ t[2 + n + 1] = CR /\ t[2 + n + 2] = LF
  BY <1>1, ReplyIs
<1> HIDE DEF s, t
<1>4. PICK more \in Seq(Nat) : t \o more = whole
  <2>1. whole \in Seq(Nat) /\ IsPrefix(t, whole)
    BY <1>2, ConcatProperties DEF s, t
  <2> HIDE DEF whole
  <2>2. QED
    BY <1>3, <2>1, PrefixRest
<1>5. \A i \in 1 .. m + 6 : whole[i] = s[i]
  <2>1. \A i \in 1 .. Len(s) + Len(rest) : whole[i] = IF i <= Len(s) THEN s[i] ELSE rest[i - Len(s)]
    BY <1>2, ConcatProperties
  <2>2. Len(s) = m + 6 /\ m \in Nat /\ Len(rest) \in Nat
    BY <1>2
  <2> HIDE DEF whole, m
  <2>3. \A i \in 1 .. m + 6 : i \in 1 .. Len(s) + Len(rest) /\ i <= Len(s)
    BY <2>2
  <2>4. QED
    BY <2>1, <2>3
<1>6. \A i \in 1 .. n + 6 : whole[i] = t[i]
  <2>1. \A i \in 1 .. Len(t) + Len(more) : (t \o more)[i] = IF i <= Len(t) THEN t[i] ELSE more[i - Len(t)]
    BY <1>3, ConcatProperties
  <2>2. Len(t) = n + 6 /\ n \in Nat /\ Len(more) \in Nat /\ t \o more = whole
    BY <1>3, <1>4
  <2> HIDE DEF whole, n
  <2>3. \A i \in 1 .. n + 6 : i \in 1 .. Len(t) + Len(more) /\ i <= Len(t)
    BY <2>2
  <2>4. QED
    BY <2>1, <2>2, <2>3
<1> HIDE DEF whole
<1>7. \A i \in 1 .. m : key[i] # LF
  <2>1. \A i \in 1 .. m : key[i] \in Word
    BY ElementOfSeq
  <2>2. QED
    BY <2>1 DEF Word
<1>8. \A i \in 1 .. n : other[i] # LF
  <2>1. \A i \in 1 .. n : other[i] \in Word
    BY ElementOfSeq
  <2>2. QED
    BY <2>1 DEF Word
<1>9. CR # LF
  BY TextBytes
<1> HIDE DEF m, n
<1>10. ~ (m < n)
  <2>1. ASSUME m < n
        PROVE  FALSE
    <3>1. m + 4 \in 1 .. m + 6 /\ m + 4 \in 1 .. n + 6 /\ 2 + m + 2 = m + 4
          /\ (m + 2 \in 1 .. n \/ m + 4 = 2 + n + 1)
      BY <1>2, <1>3, <2>1
    <3>2. t[m + 4] = LF
      BY <1>2, <1>5, <1>6, <3>1
    <3>3. CASE m + 2 \in 1 .. n
      <4>1. t[2 + (m + 2)] = other[m + 2] /\ 2 + (m + 2) = m + 4
        <5>1. \A i \in 1 .. n : t[2 + i] = other[i]
          BY <1>2, <1>3
        <5>2. 2 + (m + 2) = m + 4
          BY <1>2, <1>3
        <5>3. QED
          BY <3>3, <5>1, <5>2
      <4>2. QED
        BY <1>8, <3>2, <3>3, <4>1
    <3>4. CASE m + 4 = 2 + n + 1
      BY <1>3, <1>9, <3>2, <3>4
    <3>5. QED
      BY <3>1, <3>3, <3>4
  <2>2. QED
    BY <2>1
<1>11. ~ (n < m)
  <2>1. ASSUME n < m
        PROVE  FALSE
    <3>1. n + 4 \in 1 .. n + 6 /\ n + 4 \in 1 .. m + 6 /\ 2 + n + 2 = n + 4
          /\ (n + 2 \in 1 .. m \/ n + 4 = 2 + m + 1)
      BY <1>2, <1>3, <2>1
    <3>2. s[n + 4] = LF
      BY <1>3, <1>5, <1>6, <3>1
    <3>3. CASE n + 2 \in 1 .. m
      <4>1. s[2 + (n + 2)] = key[n + 2] /\ 2 + (n + 2) = n + 4
        <5>1. \A i \in 1 .. m : s[2 + i] = key[i]
          BY <1>2, <1>3
        <5>2. 2 + (n + 2) = n + 4
          BY <1>2, <1>3
        <5>3. QED
          BY <3>3, <5>1, <5>2
      <4>2. QED
        BY <1>7, <3>2, <3>3, <4>1
    <3>4. CASE n + 4 = 2 + m + 1
      BY <1>2, <1>9, <3>2, <3>4
    <3>5. QED
      BY <3>1, <3>3, <3>4
  <2>2. QED
    BY <2>1
<1>12. m = n
  BY <1>2, <1>3, <1>10, <1>11
<1>13. \A i \in 1 .. m : key[i] = other[i]
  <2>1. ASSUME NEW i \in 1 .. m
        PROVE  key[i] = other[i]
    <3>1. 2 + i \in 1 .. m + 6 /\ 2 + i \in 1 .. n + 6 /\ i \in 1 .. n
      BY <1>2, <1>12
    <3>2. QED
      BY <1>2, <1>3, <1>5, <1>6, <3>1
  <2>2. QED
    BY <2>1
<1>14. QED
  BY <1>12, <1>13, SeqEqual DEF m, n

\* Before a line's end, the line.
LEMMA LineIs ==
  ASSUME NEW text \in Seq(Nat), NEW i \in Nat, i >= 1
  PROVE  LineAt(text, i) \in Seq(Word)
<1> DEFINE N == Len(text)
           E == {j \in LineEnds(text) : j >= i} \cup {N + 1}
           e == Min(E)
           line == SubSeq(text, i, e - 1)
<1>1. N \in Nat /\ DOMAIN text = 1 .. N
  BY LenProperties
<1>2. E \in SUBSET Nat /\ E # {} /\ N + 1 \in E
  BY <1>1 DEF LineEnds
<1> HIDE DEF E
<1>3. e \in Nat /\ \A y \in E : e =< y
  BY <1>2, MinIsLeast
<1> HIDE DEF e
<1>4. e =< N + 1
  BY <1>2, <1>3
<1>5. ASSUME NEW k \in i .. e - 1
      PROVE  text[k] \in Word
  <2>1. k \in 1 .. N /\ k >= i /\ k < e
    BY <1>1, <1>3, <1>4
  <2>2. text[k] \in Nat
    BY <2>1, ElementOfSeq
  <2>3. k \notin E
    BY <1>3, <2>1
  <2>4. text[k] # LF
    BY <1>1, <2>1, <2>3 DEF E, LineEnds
  <2>5. QED
    BY <2>2, <2>4 DEF Word
<1>6. line \in Seq(Word)
  <2>1. i \in Int /\ e - 1 \in Int
    BY <1>3
  <2>2. QED
    BY <1>5, <2>1, SubSeqProperties
<1>7. QED
  BY <1>6 DEF LineAt, line, e, E

\* The key that a reply is made from is a part of one line.
LEMMA KeyIsAWord ==
  ASSUME NEW text \in Seq(Nat)
  PROVE  ServerKey(text) \in Seq(Word)
<1> DEFINE K == KeyHeaders(text)
           i == Max(K)
           line == LineAt(text, i)
           header == Header(line)
           c == Colon(header)
           N == Len(text)
<1>1. N \in Nat /\ DOMAIN text = 1 .. N
  BY LenProperties
<1>2. K \in SUBSET (0 .. N + 1) /\ K \subseteq Lines(text) /\ Lines(text) \subseteq 1 .. N + 1
  BY <1>1 DEF KeyHeaders, Headers, Lines, LineEnds
<1>3. CASE K = {}
  BY <1>3, EmptySeq DEF ServerKey
<1>4. CASE K # {}
  <2>1. i \in K
    <3>1. N + 1 \in Nat
      BY <1>1
    <3> DEFINE M == N + 1
    <3>2. M \in Nat /\ K \in SUBSET (0 .. M)
      BY <1>2, <3>1
    <3> HIDE DEF M, K
    <3>3. QED
      BY <1>4, <3>2, MaxIsLargest
  <2>2. i \in Nat /\ i >= 1 /\ i \in Headers(text)
    BY <1>1, <1>2, <2>1 DEF KeyHeaders
  <2>3. line # <<>>
    BY <2>2 DEF Headers
  <2> HIDE DEF i
  <2>4. line \in Seq(Word)
    BY <2>2, LineIs
  <2> HIDE DEF line
  <2>5. header \in Seq(Word)
    <3>1. Len(line) - 1 \in Int /\ Len(line) - 1 =< Len(line)
      BY <2>4
    <3>2. QED
      BY <2>4, <3>1, PartType DEF Header
  <2> HIDE DEF header
  <2>6. c \in Nat
    <3> DEFINE C == {j \in DOMAIN header : header[j] = SEPARATOR} \cup {Len(header) + 1}
    <3>1. DOMAIN header = 1 .. Len(header) /\ Len(header) \in Nat
      BY <2>5, LenProperties
    <3>2. C \in SUBSET Nat /\ C # {}
      BY <3>1
    <3> HIDE DEF C
    <3>3. Min(C) \in Nat
      BY <3>2, MinIsLeast
    <3>4. QED
      BY <3>3 DEF C, Colon
  <2>7. ServerKey(text) = SubSeq(header, c + 1, Len(header))
    BY <1>4 DEF ServerKey, header, line, i
  <2> HIDE DEF c
  <2>8. SubSeq(header, c + 1, Len(header)) \in Seq(Word)
    <3>1. c + 1 \in Nat /\ c + 1 >= 1 /\ Len(header) \in Int
      BY <2>5, <2>6
    <3> DEFINE d == c + 1
    <3> HIDE DEF d
    <3>2. SubSeq(header, d, Len(header)) \in Seq(Word)
      <4>1. d \in Nat /\ d >= 1
        BY <3>1 DEF d
      <4>2. QED
        BY <2>5, <3>1, <4>1, PartType
    <3>3. QED
      BY <3>2 DEF d
  <2>9. QED
    BY <2>7, <2>8
<1>5. QED
  BY <1>3, <1>4

-----------------------------------------------------------------------------
(* The state.                                                                *)

\* The shape of a state.  message_map is empty because insertMessageBuffer only adds to queues that
\* are there: what a short write leaves over is lost.
WebType ==
  /\ Conversation(units)
  /\ taken \in 0 .. Len(StreamOf(units))
  /\ got \in Seq(Nat) /\ messages \in Seq(Seq(Nat)) /\ sent \in Payloads
  /\ message_map = {} /\ fate \in {"running", "undefined"}
  /\ blurs \in Nat /\ torn \in BOOLEAN

\* Of what went out whole, a reply came first and frames after it.
WholeReplies ==
  ~ torn => \/ got = <<>> /\ sent = <<>>
            \/ \E key \in Seq(Word) : got = Reply(key) \o FlattenSeq(Framed(sent))

\* With no queue to add to, a write puts bytes on the socket and the rest is lost.
LEMMA Written ==
  ASSUME message_map = {}, NEW bytes, NEW n, writeMsg(bytes, n)
  PROVE  message_map' = {} /\ got' = got \o SubSeq(bytes, 1, n)
<1>1. insertMessageBuffer(SubSeq(bytes, n + 1, Len(bytes))) = {}
  BY DEF insertMessageBuffer
<1>2. QED
  BY <1>1 DEF writeMsg, isMessageBufferExist

\* What a read returns is part of what was sent.
LEMMA ArrivesType ==
  ASSUME WebType, NEW n \in Nat, Take(n)
  PROVE  /\ Arrives(n) \in Seq(Byte) /\ Len(Arrives(n)) = n
         /\ AsString(Arrives(n)) \in Seq(Byte)
         /\ taken' \in 0 .. Len(StreamOf(units)) /\ units' = units /\ blurs' \in Nat
         /\ messages' = messages /\ sent' = sent
<1> DEFINE s == StreamOf(units)
           b == Arrives(n)
<1>1. s \in Seq(Byte) /\ Len(s) \in Nat
  BY StreamIs DEF WebType
<1>2. taken \in Nat /\ taken + n =< Len(s) /\ taken' = taken + n
  BY <1>1 DEF WebType, Take
<1> HIDE DEF s
<1>3. b \in Seq(Byte) /\ Len(b) = n
  <2> DEFINE m == taken + 1
             k == taken + n
  <2>1. m \in Nat /\ m >= 1 /\ k \in Int /\ k =< Len(s) /\ (m <= k => k - m + 1 = n) /\ (m > k => n = 0)
    BY <1>2
  <2>2. b = SubSeq(s, m, k)
    BY DEF Arrives, s
  <2> HIDE DEF m, k, b
  <2>3. SubSeq(s, m, k) \in Seq(Byte) /\ Len(SubSeq(s, m, k)) = IF m <= k THEN k - m + 1 ELSE 0
    BY <1>1, <2>1, PartType
  <2>4. QED
    BY <2>1, <2>2, <2>3
<1> HIDE DEF b
<1>4. AsString(b) \in Seq(Byte)
  <2> DEFINE nuls == {i \in DOMAIN b : b[i] = 0}
  <2>1. CASE nuls = {}
    BY <1>3, <2>1 DEF AsString
  <2>2. CASE nuls # {}
    <3>1. nuls \in SUBSET (1 .. n)
      BY <1>3, LenProperties
    <3>2. nuls \in SUBSET Nat
      BY <3>1
    <3>3. AsString(b) = SubSeq(b, 1, Min(nuls) - 1)
      BY <2>2 DEF AsString
    <3> HIDE DEF nuls
    <3>4. Min(nuls) \in nuls
      BY <2>2, <3>2, MinInSet
    <3>5. Min(nuls) - 1 \in Int /\ Min(nuls) - 1 =< Len(b)
      <4> DEFINE x == Min(nuls)
      <4>1. x \in 1 .. n /\ Len(b) = n
        BY <1>3, <3>1, <3>4
      <4> HIDE DEF x
      <4>2. x - 1 \in Int /\ x - 1 =< Len(b)
        BY <4>1
      <4>3. QED
        BY <4>2 DEF x
    <3> DEFINE k == Min(nuls) - 1
    <3>6. k \in Int /\ k =< Len(b)
      BY <3>5
    <3> HIDE DEF k
    <3>7. SubSeq(b, 1, k) \in Seq(Byte)
      BY <1>3, <3>6, PartType
    <3>8. QED
      BY <3>3, <3>7 DEF k
  <2>3. QED
    BY <2>1, <2>2
<1>5. taken' \in 0 .. Len(s)
  BY <1>1, <1>2
<1>6. units' = units /\ blurs' \in Nat /\ messages' = messages /\ sent' = sent
  BY DEF Take, WebType
<1>7. QED
  BY <1>3, <1>4, <1>5, <1>6 DEF s, b

\* It holds to begin with.
LEMMA WebTypeInit ==
  Init => WebType
<1> SUFFICES ASSUME Init PROVE WebType
  OBVIOUS
<1>1. Conversation(<<>>)
  BY EmptySeq DEF Conversation
<1>2. Len(StreamOf(<<>>)) \in Nat
  BY <1>1, StreamIs
<1>3. <<>> \in Payloads
  BY EmptySeq DEF Payloads
<1>4. 0 \in 0 .. Len(StreamOf(<<>>))
  BY <1>2
<1>5. <<>> \in Seq(Nat) /\ <<>> \in Seq(Seq(Nat))
  BY EmptySeq
<1>6. QED
  BY <1>1, <1>3, <1>4, <1>5 DEF Init, WebType

\* The reply to a read that looks like a request.
LEMMA ReplyType ==
  ASSUME WebType, NEW n \in Nat, Take(n)
  PROVE  /\ ServerKey(AsString(Arrives(n))) \in Seq(Word)
         /\ Reply(ServerKey(AsString(Arrives(n)))) \in Seq(Nat)
         /\ Len(Reply(ServerKey(AsString(Arrives(n))))) \in Nat
         /\ Len(Reply(ServerKey(AsString(Arrives(n))))) >= 6
<1> DEFINE text == AsString(Arrives(n))
           key == ServerKey(text)
<1>1. text \in Seq(Nat)
  <2>1. text \in Seq(Byte)
    BY ArrivesType
  <2>2. QED
    BY <2>1, ByteSize, SeqMonotonic
<1> HIDE DEF text
<1>2. key \in Seq(Word)
  BY <1>1, KeyIsAWord
<1>3. key \in Seq(Nat)
  <2>1. Word \subseteq Nat
    BY DEF Word
  <2>2. QED
    BY <1>2, <2>1, SeqMonotonic
<1> HIDE DEF key
<1>4. Reply(key) \in Seq(Nat) /\ Len(Reply(key)) = Len(key) + 6 /\ Len(key) \in Nat
  BY <1>3, ReplyIs
<1>5. QED
  BY <1>2, <1>4 DEF key, text

\* A message and its frame.
LEMMA MessageType ==
  ASSUME WebType, NEW len \in Lengths
  PROVE  LET payload == [i \in 1 .. len |-> Len(messages) + 1]
             bytes == packageMsgForWebsocket(payload)
         IN  /\ payload \in Seq(Nat) /\ Len(payload) = len /\ len \in Nat
             /\ ~ PackagingOverruns(payload) =>
                  /\ Len(payload) < Base * Base
                  /\ bytes \in Seq(Nat) /\ Len(bytes) \in Nat /\ Len(bytes) >= 2
<1> DEFINE payload == [i \in 1 .. len |-> Len(messages) + 1]
           bytes == packageMsgForWebsocket(payload)
<1>1. len \in Nat /\ Len(messages) \in Nat
  BY WebLinkAssumption DEF WebType
<1>2. payload \in [1 .. len -> Nat]
  BY <1>1
<1> HIDE DEF payload
<1>3. payload \in Seq(Nat) /\ Len(payload) = len
  BY <1>1, <1>2, FunctionSeq
<1>4. ASSUME ~ PackagingOverruns(payload)
      PROVE  /\ Len(payload) < Base * Base
             /\ bytes \in Seq(Nat) /\ Len(bytes) \in Nat /\ Len(bytes) >= 2
  <2>1. Len(payload) < Base * Base
    <3>1. LengthForm(Len(payload)) # "endless"
      BY <1>4 DEF PackagingOverruns
    <3>2. Len(payload) < Ext16 \/ Len(payload) < Base * Base
      BY <3>1 DEF LengthForm
    <3>3. Ext16 < Base * Base
      <4>1. TOP \in Nat /\ Base = 2 * TOP /\ TOP >= 16 /\ Ext16 = TOP - 2
        BY Sizes
      <4>2. Base * Base >= Base
        BY <4>1
      <4> DEFINE bb == Base * Base
      <4>3. bb \in Nat
        BY <4>1
      <4> HIDE DEF bb
      <4>4. bb >= Base
        BY <4>2 DEF bb
      <4>5. Ext16 < bb
        BY <4>1, <4>3, <4>4
      <4>6. QED
        BY <4>5 DEF bb
    <3> DEFINE bb == Base * Base
    <3>4. bb \in Nat /\ Ext16 \in Int
      BY Sizes
    <3>5. (Len(payload) < Ext16 \/ Len(payload) < bb) /\ Ext16 < bb
      BY <3>2, <3>3
    <3> HIDE DEF bb
    <3>6. Len(payload) < bb
      BY <1>1, <1>3, <3>4, <3>5
    <3>7. QED
      BY <3>6 DEF bb
  <2> DEFINE h == IF Len(payload) < Ext16 THEN 2 ELSE 4
  <2>2. bytes \in Seq(Nat) /\ Len(bytes) = h + Len(payload)
    BY <1>3, <2>1, SentFrame
  <2> HIDE DEF bytes
  <2>3. QED
    BY <1>1, <1>3, <2>1, <2>2
<1>5. QED
  BY <1>1, <1>3, <1>4 DEF payload, bytes

\* Every step keeps it.
LEMMA WebTypeStep ==
  WebType /\ [Next]_vars => WebType'
<1> SUFFICES ASSUME WebType, [Next]_vars PROVE WebType'
  OBVIOUS
<1>1. /\ Conversation(units) /\ taken \in 0 .. Len(StreamOf(units))
      /\ got \in Seq(Nat) /\ messages \in Seq(Seq(Nat)) /\ sent \in Payloads
      /\ message_map = {} /\ fate \in {"running", "undefined"} /\ blurs \in Nat /\ torn \in BOOLEAN
  BY DEF WebType
<1>2. CASE Ask
  <2>1. PICK r \in Requests : units' = <<[kind |-> "request", text |-> r.text, key |-> r.key]>>
    BY <1>2 DEF Ask
  <2> DEFINE u == [kind |-> "request", text |-> r.text, key |-> r.key]
  <2>2. u \in RequestUnits
    BY DEF RequestUnits
  <2> HIDE DEF u
  <2>3. Conversation(units')
    <3>1. units' = <<u>>
      BY <2>1 DEF u
    <3>2. <<u>> \in Seq(RequestUnits \cup FrameUnits) /\ Len(<<u>>) = 1 /\ <<u>>[1] = u
      BY <2>2
    <3>3. QED
      BY <2>2, <3>1, <3>2 DEF Conversation
  <2>4. taken' = 0
    <3>1. units = <<>> /\ taken' = taken
      BY <1>2 DEF Ask
    <3>2. StreamOf(units) = <<>>
      <4>1. StreamOf(units) = Flat(Wire(units), 0) /\ Wire(units) \in Seq(Seq(Byte))
        BY <1>1, <3>1, StreamIs, EmptySeq
      <4>2. QED
        BY <4>1, FlatStep
    <3>3. Len(StreamOf(units)) = 0
      BY <3>2
    <3>4. QED
      BY <1>1, <3>1, <3>3
  <2>5. Len(StreamOf(units')) \in Nat
    BY <2>3, StreamIs
  <2>6. taken' \in 0 .. Len(StreamOf(units'))
    BY <2>4, <2>5
  <2>7. UNCHANGED <<got, messages, sent, message_map, fate, blurs, torn>>
    BY <1>2 DEF Ask
  <2>8. QED
    BY <1>1, <2>3, <2>6, <2>7 DEF WebType
<1>3. CASE SendFrame
  <2>1. units # <<>> /\ \A i \in 2 .. Len(units) : units[i].frame.op # CLOSE
    BY <1>3 DEF SendFrame, Opened, Closed
  <2>2. PICK f \in ClientFrames : units' = Append(units, [kind |-> "frame", frame |-> f])
    BY <1>3 DEF SendFrame
  <2>3. /\ Conversation(units') /\ StreamOf(units') = StreamOf(units) \o FrameBytes(f)
        /\ FrameBytes(f) \in Seq(Byte)
    BY <1>1, <2>1, <2>2, StreamMore
  <2>4. Len(StreamOf(units')) = Len(StreamOf(units)) + Len(FrameBytes(f))
        /\ Len(StreamOf(units)) \in Nat /\ Len(FrameBytes(f)) \in Nat
    <3>1. StreamOf(units) \in Seq(Byte)
      BY <1>1, StreamIs
    <3>2. QED
      BY <2>3, <3>1, ConcatProperties
  <2>5. taken' = taken
    BY <1>3 DEF SendFrame
  <2>6. taken' \in 0 .. Len(StreamOf(units'))
    BY <1>1, <2>4, <2>5
  <2>7. UNCHANGED <<got, messages, sent, message_map, fate, blurs, torn>>
    BY <1>3 DEF SendFrame
  <2>8. QED
    BY <1>1, <2>3, <2>6, <2>7 DEF WebType
<1>4. CASE SendMessage
  <2>1. PICK len \in Lengths :
          LET payload == [i \in 1..len |-> Len(messages) + 1]
              bytes   == packageMsgForWebsocket(payload)
          IN  /\ messages' = Append(messages, payload)
              /\ IF PackagingOverruns(payload)
                 THEN /\ fate' = "undefined"
                      /\ UNCHANGED <<got, sent, message_map, torn>>
                 ELSE \E k \in 0 .. Len(bytes) :
                      /\ writeMsg(bytes, k)
                      /\ sent' = IF k = Len(bytes) THEN Append(sent, payload) ELSE sent
                      /\ torn' = (torn \/ k \in 1 .. Len(bytes) - 1)
                      /\ fate' = fate
    BY <1>4 DEF SendMessage
  <2> DEFINE payload == [i \in 1..len |-> Len(messages) + 1]
             bytes   == packageMsgForWebsocket(payload)
  <2>2. /\ payload \in Seq(Nat)
        /\ ~ PackagingOverruns(payload) =>
             Len(payload) < Base * Base /\ bytes \in Seq(Nat) /\ Len(bytes) \in Nat
    BY MessageType
  <2> HIDE DEF payload
  <2>3. messages' \in Seq(Seq(Nat))
    <3>1. messages' = Append(messages, payload)
      BY <2>1 DEF payload
    <3>2. QED
      BY <1>1, <2>2, <3>1, AppendProperties
  <2>4. UNCHANGED <<units, taken, blurs>>
    BY <1>4 DEF SendMessage
  <2>5. CASE PackagingOverruns(payload)
    <3>1. fate' = "undefined" /\ UNCHANGED <<got, sent, message_map, torn>>
      BY <2>1, <2>5 DEF payload
    <3>2. QED
      BY <1>1, <2>3, <2>4, <3>1 DEF WebType
  <2>6. CASE ~ PackagingOverruns(payload)
    <3>1. PICK k \in 0 .. Len(bytes) :
            /\ writeMsg(bytes, k)
            /\ sent' = IF k = Len(bytes) THEN Append(sent, payload) ELSE sent
            /\ torn' = (torn \/ k \in 1 .. Len(bytes) - 1)
            /\ fate' = fate
      BY <2>1, <2>6 DEF payload
    <3> HIDE DEF bytes
    <3>2. message_map' = {} /\ got' = got \o SubSeq(bytes, 1, k)
      BY <1>1, <3>1, Written
    <3>3. SubSeq(bytes, 1, k) \in Seq(Nat)
      BY <2>2, <2>6, FirstAndRest
    <3>4. got' \in Seq(Nat)
      BY <1>1, <3>2, <3>3, ConcatProperties
    <3>5. sent' \in Payloads
      <4>1. sent \in Seq(Seq(Nat)) /\ \A i \in 1 .. Len(sent) : Len(sent[i]) < Base * Base
        BY <1>1 DEF Payloads
      <4> DEFINE more == Append(sent, payload)
      <4>2. /\ more \in Seq(Seq(Nat)) /\ Len(more) = Len(sent) + 1 /\ Len(sent) \in Nat
            /\ (\A i \in 1 .. Len(sent) : more[i] = sent[i]) /\ more[Len(sent) + 1] = payload
        BY <2>2, <4>1, AppendProperties
      <4> HIDE DEF more
      <4>3. \A i \in 1 .. Len(more) : Len(more[i]) < Base * Base
        <5>1. \A i \in 1 .. Len(more) : i \in 1 .. Len(sent) \/ i = Len(sent) + 1
          BY <4>2
        <5>2. QED
          BY <2>2, <2>6, <4>1, <4>2, <5>1
      <4>4. more \in Payloads
        BY <4>2, <4>3 DEF Payloads
      <4>5. QED
        BY <1>1, <3>1, <4>4 DEF more
    <3>6. torn' \in BOOLEAN /\ fate' \in {"running", "undefined"}
      BY <1>1, <3>1
    <3>7. QED
      BY <1>1, <2>3, <2>4, <3>2, <3>4, <3>5, <3>6 DEF WebType
  <2>7. QED
    BY <2>5, <2>6
<1>5. CASE \E n \in 1 .. BUFF_SIZE - 1 : do_handshake(n)
  <2>1. PICK n \in 1 .. BUFF_SIZE - 1 : do_handshake(n)
    BY <1>5
  <2> DEFINE reply == Reply(ServerKey(AsString(Arrives(n))))
  <2>2. n \in Nat /\ Take(n)
    BY <2>1 DEF do_handshake
  <2>3. PICK k \in 0 .. Len(reply) :
          /\ writeMsg(reply, k)
          /\ torn' = (torn \/ k \in 1 .. Len(reply) - 1 \/ (k # 0 /\ got # <<>>))
    BY <2>1 DEF do_handshake
  <2>4. reply \in Seq(Nat) /\ Len(reply) \in Nat
    BY <2>2, ReplyType
  <2> HIDE DEF reply
  <2>5. message_map' = {} /\ got' = got \o SubSeq(reply, 1, k)
    BY <1>1, <2>3, Written
  <2>6. got' \in Seq(Nat)
    <3>1. SubSeq(reply, 1, k) \in Seq(Nat)
      BY <2>4, FirstAndRest
    <3>2. QED
      BY <1>1, <2>5, <3>1, ConcatProperties
  <2>7. taken' \in 0 .. Len(StreamOf(units)) /\ units' = units /\ blurs' \in Nat
        /\ messages' = messages /\ sent' = sent
    BY <2>2, ArrivesType
  <2>8. fate' = fate /\ torn' \in BOOLEAN
    BY <2>1, <2>3 DEF do_handshake
  <2>9. QED
    BY <1>1, <2>5, <2>6, <2>7, <2>8 DEF WebType
<1>6. CASE \E n \in 1 .. BUFF_SIZE - 1 : ParseFrames(n)
  <2>1. PICK n \in 1 .. BUFF_SIZE - 1 : ParseFrames(n)
    BY <1>6
  <2>2. n \in Nat /\ Take(n)
    BY <2>1 DEF ParseFrames
  <2>3. taken' \in 0 .. Len(StreamOf(units)) /\ units' = units /\ blurs' \in Nat
        /\ messages' = messages /\ sent' = sent
    BY <2>2, ArrivesType
  <2>4. UNCHANGED <<got, message_map, torn>> /\ fate' \in {"running", "undefined"}
    BY <1>1, <2>1 DEF ParseFrames
  <2>5. QED
    BY <1>1, <2>3, <2>4 DEF WebType
<1>7. CASE UNCHANGED vars
  BY <1>1, <1>7 DEF WebType, vars
<1>8. QED
  BY <1>2, <1>3, <1>4, <1>5, <1>6, <1>7 DEF Next

\* One payload more, one frame more.
LEMMA FramedMore ==
  ASSUME NEW ps \in Payloads, NEW p \in Seq(Nat), Len(p) < Base * Base
  PROVE  FlattenSeq(Framed(Append(ps, p))) = FlattenSeq(Framed(ps)) \o packageMsgForWebsocket(p)
<1> DEFINE more == Append(ps, p)
           q == Framed(ps)
           n == Len(ps)
           x == packageMsgForWebsocket(p)
           r == Append(q, x)
<1>1. ps \in Seq(Seq(Nat)) /\ n \in Nat /\ q \in Seq(Seq(Nat)) /\ Len(q) = n
      /\ \A i \in 1 .. n : q[i] = packageMsgForWebsocket(ps[i])
  BY FramedType
<1>2. x \in Seq(Nat)
  BY SentFrame
<1> HIDE DEF x, q
<1>3. more \in Seq(Seq(Nat)) /\ Len(more) = n + 1 /\ (\A i \in 1 .. n : more[i] = ps[i]) /\ more[n + 1] = p
  BY <1>1, AppendProperties
<1>4. r \in Seq(Seq(Nat)) /\ Len(r) = n + 1 /\ (\A i \in 1 .. n : r[i] = q[i]) /\ r[n + 1] = x
  <2>1. /\ r \in Seq(Seq(Nat)) /\ Len(r) = Len(q) + 1 /\ (\A i \in 1 .. Len(q) : r[i] = q[i])
        /\ r[Len(q) + 1] = x
    BY <1>1, <1>2, AppendProperties
  <2> HIDE DEF r
  <2>2. QED
    BY <1>1, <2>1
<1> HIDE DEF more, r, n
<1>5. \A i \in 1 .. n + 1 : packageMsgForWebsocket(more[i]) = r[i]
  <2>1. ASSUME NEW i \in 1 .. n + 1
        PROVE  packageMsgForWebsocket(more[i]) = r[i]
    <3>1. CASE i \in 1 .. n
      BY <1>1, <1>3, <1>4, <3>1
    <3>2. CASE i = n + 1
      BY <1>3, <1>4, <3>2 DEF x
    <3>3. QED
      BY <1>1, <3>1, <3>2
  <2>2. QED
    BY <2>1
<1>6. Framed(more) = r
  <2> DEFINE f == Framed(more)
  <2>1. f = [i \in 1 .. n + 1 |-> r[i]]
    BY <1>3, <1>5 DEF Framed
  <2>2. r = [i \in 1 .. n + 1 |-> r[i]]
    <3>1. r \in [1 .. n + 1 -> Seq(Nat)]
      <4>1. r \in [1 .. Len(r) -> Seq(Nat)]
        BY <1>4, LenProperties
      <4>2. QED
        BY <1>4, <4>1
    <3>2. QED
      BY <3>1
  <2>3. QED
    BY <2>1, <2>2
<1>7. FlattenSeq(r) = FlattenSeq(q) \o x
  BY <1>1, <1>2, FlatMore DEF r
<1>8. QED
  BY <1>6, <1>7 DEF more, q, x

\* The frames of payloads, joined, are bytes.
LEMMA FramesType ==
  ASSUME NEW ps \in Payloads
  PROVE  FlattenSeq(Framed(ps)) \in Seq(Nat)
<1> DEFINE q == Framed(ps)
<1>1. q \in Seq(Seq(Nat)) /\ Len(q) \in 0 .. Len(q)
  BY FramedType
<1> HIDE DEF q
<1>2. FlattenSeq(q) = Flat(q, Len(q))
  BY <1>1, FlatAll
<1>3. QED
  BY <1>1, <1>2, FlatType DEF q

\* Nothing has been joined yet.
LEMMA NothingFramed ==
  FlattenSeq(Framed(<<>>)) = <<>>
<1>1. <<>> \in Payloads
  BY EmptySeq DEF Payloads
<1> DEFINE q == Framed(<<>>)
<1>2. q \in Seq(Seq(Nat)) /\ Len(q) = 0
  BY <1>1, FramedType, EmptySeq
<1> HIDE DEF q
<1>3. FlattenSeq(q) = Flat(q, 0) /\ Flat(q, 0) = <<>>
  BY <1>2, FlatAll, FlatStep
<1>4. QED
  BY <1>3 DEF q

\* After the reply.
LEMMA AfterReply ==
  ASSUME NEW key \in Seq(Word), NEW rest \in Seq(Nat)
  PROVE  /\ Reply(key) \in Seq(Nat) /\ Len(Reply(key)) \in Nat /\ Len(Reply(key)) >= 6
         /\ Reply(key) \o rest # <<>>
         /\ SubSeq(Reply(key) \o rest, Len(Reply(key)) + 1, Len(Reply(key) \o rest)) = rest
<1> DEFINE a == Reply(key)
           m == Len(a)
           s == a \o rest
           n == Len(rest)
<1>1. a \in Seq(Nat) /\ m \in Nat /\ m >= 6
  <2>1. key \in Seq(Nat)
    <3>1. Word \subseteq Nat
      BY DEF Word
    <3>2. QED
      BY <3>1, SeqMonotonic
  <2>2. a \in Seq(Nat) /\ m = Len(key) + 6 /\ Len(key) \in Nat
    BY <2>1, ReplyIs
  <2> HIDE DEF a
  <2>3. QED
    BY <2>2
<1> HIDE DEF a
<1>2. /\ s \in Seq(Nat) /\ Len(s) = m + n
      /\ \A i \in 1 .. m + n : s[i] = IF i <= m THEN a[i] ELSE rest[i - m]
  BY <1>1, ConcatProperties
<1>3. n \in Nat
  OBVIOUS
<1> HIDE DEF s, m
<1>4. SubSeq(s, m + 1, m + n) = rest
  <2>1. m + Len(rest) <= Len(s)
    <3> HIDE DEF n
    <3>1. QED
      BY <1>1, <1>2, <1>3 DEF n
  <2>2. \A i \in 1 .. n : s[m + i] = rest[i]
    <3>1. \A i \in 1 .. n : m + i \in 1 .. m + n /\ ~ (m + i <= m) /\ (m + i) - m = i
      BY <1>1, <1>3
    <3>2. QED
      BY <1>2, <3>1
  <2>3. QED
    BY <1>1, <1>2, <2>1, <2>2, SubSeqIs
<1>5. s # <<>>
  <2>1. Len(s) # 0
    BY <1>1, <1>2, <1>3
  <2>2. QED
    BY <2>1
<1>6. QED
  BY <1>1, <1>2, <1>4, <1>5 DEF s, m, a

\* Once a browser has its reply, there was a request, and something was written.
LEMMA OpenedIs ==
  ASSUME WebType, Opened
  PROVE  /\ units # <<>> /\ Len(units) \in Nat /\ Len(units) >= 1
         /\ units[1] \in RequestUnits /\ units[1].key \in Seq(Word)
         /\ IsPrefix(Reply(units[1].key), got) /\ got # <<>>
<1> DEFINE key == units[1].key
<1>1. units # <<>> /\ IsPrefix(Reply(key), got)
  BY DEF Opened
<1>2. Len(units) \in Nat /\ Len(units) >= 1
  BY <1>1 DEF WebType, Conversation
<1>3. units[1] \in RequestUnits
  <2>1. 1 \in 1 .. Len(units)
    BY <1>2
  <2>2. QED
    BY <2>1 DEF WebType, Conversation
<1>4. key \in Seq(Word)
  <2>1. key \in Seq(Byte \ {0, CR, LF})
    BY <1>3, UnitIs
  <2>2. Byte \ {0, CR, LF} \subseteq Word
    BY ByteSize DEF Word
  <2> HIDE DEF key
  <2>3. QED
    BY <2>1, <2>2, SeqMonotonic
<1> HIDE DEF key
<1>5. got # <<>>
  <2>1. Len(Reply(key)) \in Nat /\ Len(Reply(key)) >= 6
    BY <1>4, AfterReply, EmptySeq
  <2>2. Len(Reply(key)) =< Len(got)
    BY <1>1 DEF IsPrefix
  <2>3. Len(<<>>) = 0
    BY EmptySeq
  <2>4. QED
    BY <2>1, <2>2, <2>3
<1>6. QED
  BY <1>1, <1>2, <1>3, <1>4, <1>5 DEF key

\* Every step keeps what went out whole: a reply, then the frames of what was sent.
LEMMA WholeRepliesStep ==
  WebType /\ WholeReplies /\ [Next]_vars => WholeReplies'
<1> SUFFICES ASSUME WebType, WholeReplies, [Next]_vars, ~ torn'
             PROVE  \/ got' = <<>> /\ sent' = <<>>
                    \/ \E key \in Seq(Word) : got' = Reply(key) \o FlattenSeq(Framed(sent'))
  BY DEF WholeReplies
<1>1. got \in Seq(Nat) /\ sent \in Payloads /\ message_map = {} /\ torn \in BOOLEAN
  BY DEF WebType
<1>2. ASSUME UNCHANGED <<got, sent, torn>>
      PROVE  \/ got' = <<>> /\ sent' = <<>>
             \/ \E key \in Seq(Word) : got' = Reply(key) \o FlattenSeq(Framed(sent'))
  BY <1>2 DEF WholeReplies
<1>3. CASE Ask
  BY <1>2, <1>3 DEF Ask
<1>4. CASE SendFrame
  BY <1>2, <1>4 DEF SendFrame
<1>5. CASE \E n \in 1 .. BUFF_SIZE - 1 : ParseFrames(n)
  BY <1>2, <1>5 DEF ParseFrames, Take
<1>6. CASE UNCHANGED vars
  BY <1>2, <1>6 DEF vars
<1>7. CASE SendMessage
  <2>1. PICK len \in Lengths :
          LET payload == [i \in 1..len |-> Len(messages) + 1]
              bytes   == packageMsgForWebsocket(payload)
          IN  IF PackagingOverruns(payload)
              THEN UNCHANGED <<got, sent, message_map, torn>>
              ELSE \E k \in 0 .. Len(bytes) :
                      /\ writeMsg(bytes, k)
                      /\ sent' = IF k = Len(bytes) THEN Append(sent, payload) ELSE sent
                      /\ torn' = (torn \/ k \in 1 .. Len(bytes) - 1)
    BY <1>7 DEF SendMessage
  <2> DEFINE payload == [i \in 1..len |-> Len(messages) + 1]
             bytes   == packageMsgForWebsocket(payload)
  <2>2. /\ payload \in Seq(Nat)
        /\ ~ PackagingOverruns(payload) =>
             Len(payload) < Base * Base /\ bytes \in Seq(Nat) /\ Len(bytes) \in Nat /\ Len(bytes) >= 2
    BY MessageType
  <2> HIDE DEF payload
  <2>3. CASE PackagingOverruns(payload)
    BY <1>2, <2>1, <2>3 DEF payload
  <2>4. CASE ~ PackagingOverruns(payload)
    <3>1. PICK k \in 0 .. Len(bytes) :
            /\ writeMsg(bytes, k)
            /\ sent' = IF k = Len(bytes) THEN Append(sent, payload) ELSE sent
            /\ torn' = (torn \/ k \in 1 .. Len(bytes) - 1)
      BY <2>1, <2>4 DEF payload
    <3>2. got' = got \o SubSeq(bytes, 1, k)
      <4> HIDE DEF bytes
      <4>1. QED
        BY <1>1, <3>1, Written
    <3>3. ~ torn /\ (k = 0 \/ k = Len(bytes))
      <4> HIDE DEF bytes
      <4>1. ~ torn /\ k \notin 1 .. Len(bytes) - 1
        BY <3>1, Zenon
      <4>2. k = 0 \/ k = Len(bytes)
        BY <2>2, <2>4, <4>1
      <4>3. QED
        BY <4>1, <4>2
    <3>4. Opened
      BY <1>7 DEF SendMessage
    <3>5. got # <<>>
      BY <3>4, OpenedIs
    <3>6. PICK key \in Seq(Word) : got = Reply(key) \o FlattenSeq(Framed(sent))
      BY <3>3, <3>5 DEF WholeReplies
    <3>7. CASE k = 0
      <4>1. k # Len(bytes)
        <5> HIDE DEF bytes
        <5>1. QED
          BY <2>2, <2>4, <3>7
      <4>2. SubSeq(bytes, 1, k) = <<>>
        BY <3>7, SubSeqEmpty
      <4> HIDE DEF bytes
      <4>3. got' = got /\ sent' = sent
        BY <1>1, <3>1, <3>2, <4>1, <4>2, ConcatEmptySeq
      <4>4. QED
        BY <3>6, <4>3
    <3>8. CASE k = Len(bytes)
      <4>1. SubSeq(bytes, 1, k) = bytes
        <5> HIDE DEF bytes
        <5>1. QED
          BY <2>2, <2>4, <3>8, SubSeqFull
      <4> DEFINE a == Reply(key)
                 b == FlattenSeq(Framed(sent))
      <4>2. got' = (a \o b) \o bytes /\ sent' = Append(sent, payload)
        BY <3>1, <3>2, <3>6, <3>8, <4>1
      <4>3. FlattenSeq(Framed(sent')) = b \o bytes
        BY <1>1, <2>2, <2>4, <4>2, FramedMore
      <4>4. a \in Seq(Nat) /\ b \in Seq(Nat)
        <5>1. b \in Seq(Nat)
          BY <1>1, FramesType
        <5> HIDE DEF b
        <5>2. QED
          BY <5>1, AfterReply
      <4> HIDE DEF a, b, bytes
      <4>5. (a \o b) \o bytes = a \o (b \o bytes)
        <5>1. bytes \in Seq(Nat)
          BY <2>2, <2>4
        <5>2. QED
          BY <4>4, <5>1, ConcatAssociative
      <4>6. got' = Reply(key) \o FlattenSeq(Framed(sent'))
        BY <4>2, <4>3, <4>5 DEF a
      <4>7. QED
        BY <4>6
    <3>9. QED
      BY <3>3, <3>7, <3>8
  <2>5. QED
    BY <2>3, <2>4
<1>8. CASE \E n \in 1 .. BUFF_SIZE - 1 : do_handshake(n)
  <2>1. PICK n \in 1 .. BUFF_SIZE - 1 : do_handshake(n)
    BY <1>8
  <2> DEFINE key == ServerKey(AsString(Arrives(n)))
             reply == Reply(key)
  <2>2. n \in Nat /\ Take(n)
    BY <2>1 DEF do_handshake
  <2>3. PICK k \in 0 .. Len(reply) :
          /\ writeMsg(reply, k)
          /\ torn' = (torn \/ k \in 1 .. Len(reply) - 1 \/ (k # 0 /\ got # <<>>))
    BY <2>1 DEF do_handshake
  <2>4. key \in Seq(Word) /\ reply \in Seq(Nat) /\ Len(reply) \in Nat
    BY <2>2, ReplyType
  <2>5. sent' = sent
    BY <2>2, ArrivesType
  <2> HIDE DEF key
  <2>6. got' = got \o SubSeq(reply, 1, k)
    <3> HIDE DEF reply
    <3>1. QED
      BY <1>1, <2>3, Written
  <2>7. ~ torn /\ (k = 0 \/ (k = Len(reply) /\ got = <<>>))
    <3> HIDE DEF reply
    <3>1. ~ torn /\ k \notin 1 .. Len(reply) - 1 /\ (k = 0 \/ got = <<>>)
      BY <2>3, Zenon
    <3>2. k = 0 \/ k = Len(reply)
      BY <2>4, <3>1
    <3>3. QED
      BY <3>1, <3>2
  <2>8. CASE k = 0
    <3>1. SubSeq(reply, 1, k) = <<>>
      BY <2>8, SubSeqEmpty
    <3> HIDE DEF reply
    <3>2. got' = got
      BY <1>1, <2>6, <3>1, ConcatEmptySeq
    <3>3. QED
      BY <2>5, <2>7, <3>2 DEF WholeReplies
  <2>9. CASE k = Len(reply) /\ got = <<>>
    <3>1. SubSeq(reply, 1, k) = reply
      <4> HIDE DEF reply
      <4>1. QED
        BY <2>4, <2>9, SubSeqFull
    <3>2. got' = reply
      <4> HIDE DEF reply
      <4>1. QED
        BY <2>4, <2>6, <2>9, <3>1, ConcatEmptySeq
    <3>3. sent = <<>>
      <4>1. ASSUME NEW other \in Seq(Word), got = Reply(other) \o FlattenSeq(Framed(sent))
            PROVE  FALSE
        <5> DEFINE b == FlattenSeq(Framed(sent))
        <5>1. b \in Seq(Nat)
          BY <1>1, FramesType
        <5> HIDE DEF b
        <5>2. Reply(other) \o b # <<>>
          BY <5>1, AfterReply
        <5>3. QED
          BY <2>9, <4>1, <5>2 DEF b
      <4>2. QED
        BY <2>7, <4>1 DEF WholeReplies
    <3>4. got' = Reply(key) \o FlattenSeq(Framed(sent'))
      <4>1. FlattenSeq(Framed(sent')) = <<>>
        BY <2>5, <3>3, NothingFramed
      <4> HIDE DEF reply
      <4>2. reply \o <<>> = reply
        BY <2>4, ConcatEmptySeq
      <4>3. QED
        BY <3>2, <4>1, <4>2 DEF reply
    <3>5. QED
      BY <2>4, <3>4
  <2>10. QED
    BY <2>7, <2>8, <2>9
<1>9. QED
  BY <1>3, <1>4, <1>5, <1>6, <1>7, <1>8 DEF Next

\* What is on the socket whole is what a browser receives.
LEMMA WholeIsReceived ==
  WebType /\ WholeReplies => ReceivedAsSent
<1> SUFFICES ASSUME WebType, WholeReplies, Opened, ~ torn
             PROVE  Received(SubSeq(got, Len(Reply(units[1].key)) + 1, Len(got))) = sent
  BY DEF ReceivedAsSent
<1> DEFINE other == units[1].key
           b == FlattenSeq(Framed(sent))
<1>1. sent \in Payloads
  BY DEF WebType
<1>2. other \in Seq(Word) /\ IsPrefix(Reply(other), got) /\ got # <<>>
  BY OpenedIs
<1> HIDE DEF other
<1>5. PICK key \in Seq(Word) : got = Reply(key) \o b
  BY <1>2 DEF WholeReplies
<1>6. b \in Seq(Nat) /\ Received(b) = sent
  BY <1>1, FramesType, ReceivedFrames
<1> HIDE DEF b
<1>7. key = other
  BY <1>2, <1>5, <1>6, SameKey
<1>8. SubSeq(got, Len(Reply(other)) + 1, Len(got)) = b
  BY <1>2, <1>5, <1>6, <1>7, AfterReply
<1>9. QED
  BY <1>6, <1>8 DEF other

\* A browser gets, in order and each once, the messages whose frames the socket took whole, as long as
\* it took none in part: what packageMsgForWebsocket writes is read back, at every length below the one
\* where its loop overruns, and a message lost in insertMessageBuffer costs no other.
THEOREM SpecReceivedAsSent ==
  Spec => []ReceivedAsSent
<1>1. Init => WebType /\ WholeReplies
  <2>1. Init => WholeReplies
    BY DEF Init, WholeReplies
  <2>2. QED
    BY <2>1, WebTypeInit
<1>2. WebType /\ WholeReplies /\ [Next]_vars => (WebType /\ WholeReplies)'
  BY WebTypeStep, WholeRepliesStep
<1>3. QED
  BY <1>1, <1>2, WholeIsReceived, PTL DEF Spec

-----------------------------------------------------------------------------
(* The key of a request.                                                     *)

\* Where a line ends.
LEMMA LineSpan ==
  ASSUME NEW text \in Seq(Nat), NEW i \in Lines(text)
  PROVE  /\ i \in 1 .. Len(text) + 1 /\ LineStart(text, i)
         /\ \E e \in i .. Len(text) + 1 :
              /\ LineAt(text, i) \in Seq(Nat) /\ Len(LineAt(text, i)) = e - i
              /\ \A k \in 1 .. e - i : LineAt(text, i)[k] = text[i + k - 1]
              /\ \A k \in i .. e - 1 : text[k] # LF
              /\ e = Len(text) + 1 \/ text[e] = LF
<1> DEFINE N == Len(text)
           E == {j \in LineEnds(text) : j >= i} \cup {N + 1}
           e == Min(E)
<1>1. N \in Nat /\ DOMAIN text = 1 .. N
  BY LenProperties
<1>2. i \in 1 .. N + 1 /\ LineStart(text, i)
  <2>1. CASE i = 1
    BY <1>1, <2>1 DEF LineStart
  <2>2. CASE i # 1
    <3>1. PICK j \in LineEnds(text) : i = j + 1
      BY <2>2 DEF Lines
    <3>2. j \in 1 .. N /\ text[j] = LF
      BY <1>1, <3>1 DEF LineEnds
    <3>3. i - 1 = j /\ i \in 1 .. N + 1
      BY <1>1, <3>1, <3>2
    <3>4. QED
      BY <3>2, <3>3 DEF LineStart
  <2>3. QED
    BY <2>1, <2>2
<1>3. E \in SUBSET Nat /\ E # {} /\ N + 1 \in E
  BY <1>1 DEF LineEnds
<1>4. \A y \in E : y >= i /\ (y = N + 1 \/ text[y] = LF)
  BY <1>1, <1>2 DEF LineEnds
<1>5. \A k \in i .. N : text[k] = LF => k \in E
  BY <1>1, <1>2 DEF LineEnds
<1>6. LineAt(text, i) = SubSeq(text, i, e - 1)
  BY DEF LineAt
<1> HIDE DEF E
<1>7. e \in E /\ \A y \in E : e =< y
  BY <1>3, MinIsLeast
<1> HIDE DEF e
<1>8. e \in i .. N + 1 /\ (e = N + 1 \/ text[e] = LF)
  BY <1>1, <1>2, <1>3, <1>4, <1>7
<1>9. \A k \in i .. e - 1 : text[k] # LF
  <2>1. \A k \in i .. e - 1 : k \in i .. N /\ ~ (e =< k)
    BY <1>1, <1>2, <1>8
  <2>2. QED
    BY <1>5, <1>7, <2>1
<1>10. /\ LineAt(text, i) \in Seq(Nat) /\ Len(LineAt(text, i)) = e - i
       /\ \A k \in 1 .. e - i : LineAt(text, i)[k] = text[i + k - 1]
  <2> DEFINE b == e - 1
             line == LineAt(text, i)
  <2>1. i \in Nat /\ i >= 1 /\ b \in Int /\ b =< N /\ b - i + 1 = e - i /\ (i > b => e - i = 0)
    BY <1>1, <1>2, <1>8
  <2>2. line = SubSeq(text, i, b)
    BY <1>6
  <2> HIDE DEF b, line
  <2>3. /\ SubSeq(text, i, b) \in Seq(Nat)
        /\ Len(SubSeq(text, i, b)) = IF i <= b THEN b - i + 1 ELSE 0
        /\ \A k \in 1 .. b - i + 1 : SubSeq(text, i, b)[k] = text[i + k - 1]
    BY <2>1, PartType
  <2>4. Len(line) = e - i
    BY <2>1, <2>2, <2>3
  <2>5. QED
    BY <2>1, <2>2, <2>3, <2>4 DEF line
<1>11. QED
  BY <1>2, <1>8, <1>9, <1>10

\* A header is its line without the last byte.
LEMMA HeaderIs ==
  ASSUME NEW line \in Seq(Nat), line # <<>>
  PROVE  /\ Header(line) \in Seq(Nat) /\ Len(Header(line)) = Len(line) - 1 /\ Len(line) \in Nat
         /\ \A k \in 1 .. Len(line) - 1 : Header(line)[k] = line[k]
<1> DEFINE n == Len(line)
           b == n - 1
<1>1. n \in Nat /\ n # 0
  OBVIOUS
<1>2. b \in Int /\ b =< n /\ b - 1 + 1 = b /\ (1 > b => b = 0)
  <2> HIDE DEF n
  <2>1. QED
    BY <1>1
<1> HIDE DEF b
<1>3. /\ SubSeq(line, 1, b) \in Seq(Nat)
      /\ Len(SubSeq(line, 1, b)) = IF 1 <= b THEN b - 1 + 1 ELSE 0
      /\ \A k \in 1 .. b - 1 + 1 : SubSeq(line, 1, b)[k] = line[1 + k - 1]
  BY <1>2, PartType
<1>4. Len(SubSeq(line, 1, b)) = b
  BY <1>2, <1>3
<1>5. \A k \in 1 .. b : SubSeq(line, 1, b)[k] = line[k]
  <2>1. \A k \in 1 .. b : k \in 1 .. b - 1 + 1 /\ 1 + k - 1 = k
    BY <1>2
  <2>2. QED
    BY <1>3, <2>1
<1>6. QED
  BY <1>1, <1>3, <1>4, <1>5 DEF Header, b

\* The separator of a header is the first.
LEMMA ColonIs ==
  ASSUME NEW header \in Seq(Nat)
  PROVE  /\ Colon(header) \in 1 .. Len(header) + 1
         /\ Colon(header) <= Len(header) => header[Colon(header)] = SEPARATOR
         /\ \A k \in 1 .. Len(header) : header[k] = SEPARATOR => Colon(header) =< k
<1> DEFINE N == Len(header)
           C == {i \in DOMAIN header : header[i] = SEPARATOR} \cup {N + 1}
           c == Min(C)
<1>1. N \in Nat /\ DOMAIN header = 1 .. N
  BY LenProperties
<1>2. C \in SUBSET Nat /\ C # {}
  BY <1>1
<1>3. /\ \A y \in C : y \in 1 .. N + 1 /\ (y <= N => header[y] = SEPARATOR)
      /\ \A k \in 1 .. N : header[k] = SEPARATOR => k \in C
  BY <1>1
<1>4. Colon(header) = c
  BY DEF Colon
<1> HIDE DEF C
<1>5. c \in C /\ \A y \in C : c =< y
  BY <1>2, MinIsLeast
<1> HIDE DEF c
<1>6. QED
  BY <1>3, <1>4, <1>5

\* In a request, the key is where it is said to be.
LEMMA KeyLine ==
  ASSUME NEW r, IsRequest(r)
  PROVE  LET text == r.text
             N == Len(text)
             n == Len(r.key)
         IN  /\ text \in Seq(Nat) /\ N \in Nat /\ n \in Nat /\ r.key \in Seq(Nat)
             /\ \A k \in 1 .. N : text[k] # 0
             /\ \A k \in 1 .. N - 2 : text[k] = CR => text[k + 1] = LF /\ ~ LineStart(text, k)
             /\ \E i \in 1 .. N - 4 - n :
                  /\ LineStart(text, i)
                  /\ text[i] = KEYNAME /\ text[i + 1] = SEPARATOR /\ text[i + 2 + n] = CR
                  /\ \A k \in 1 .. n : text[i + 1 + k] = r.key[k] /\ r.key[k] # LF
                  /\ \A j \in i + 1 .. N - 1 :
                       LineStart(text, j) => text[j] # KEYNAME \/ text[j + 1] # SEPARATOR
<1> DEFINE text == r.text
           key == r.key
           N == Len(text)
           n == Len(key)
<1>1. text \in Seq(Byte \ {0}) /\ key \in Seq(Byte \ {0, CR, LF})
  BY DEF IsRequest
<1>2. text \in Seq(Nat) /\ key \in Seq(Nat) /\ N \in Nat /\ n \in Nat
  <2>1. Byte \ {0} \subseteq Nat /\ Byte \ {0, CR, LF} \subseteq Nat
    BY ByteSize
  <2>2. text \in Seq(Nat) /\ key \in Seq(Nat)
    BY <1>1, <2>1, SeqMonotonic
  <2> HIDE DEF text, key
  <2>3. QED
    BY <2>2
<1>3. /\ \A k \in 1 .. N : text[k] # 0
      /\ \A k \in 1 .. n : key[k] # LF
  <2> HIDE DEF text, key
  <2>1. \A k \in 1 .. N : text[k] \in Byte \ {0}
    BY <1>1, ElementOfSeq
  <2>2. \A k \in 1 .. n : key[k] \in Byte \ {0, CR, LF}
    BY <1>1, ElementOfSeq
  <2>3. QED
    BY <2>1, <2>2
<1>4. \A k \in 1 .. N - 2 : text[k] = CR => text[k + 1] = LF /\ ~ LineStart(text, k)
  BY DEF IsRequest
<1>5. PICK i \in 1 .. N - 4 - n :
        /\ LineStart(text, i)
        /\ SubSeq(text, i, i + n + 2) = <<KEYNAME, SEPARATOR>> \o key \o <<CR>>
        /\ \A j \in i + 1 .. N - 1 : LineStart(text, j) => text[j] # KEYNAME \/ text[j + 1] # SEPARATOR
  BY DEF IsRequest
<1> HIDE DEF text, key
<1> DEFINE a == <<KEYNAME, SEPARATOR>>
           z == <<CR>>
           s == (a \o key) \o z
           e == i + n + 2
<1>6. a \in Seq(Nat) /\ Len(a) = 2 /\ a[1] = KEYNAME /\ a[2] = SEPARATOR /\ z \in Seq(Nat)
      /\ Len(z) = 1 /\ z[1] = CR
  BY TextBytes
<1>7. SubSeq(text, i, e) = s
  BY <1>5
<1> HIDE DEF a, z, N, n
<1>8. /\ s \in Seq(Nat) /\ Len(s) = n + 3
      /\ s[1] = KEYNAME /\ s[2] = SEPARATOR /\ s[n + 3] = CR
      /\ \A k \in 1 .. n : s[2 + k] = key[k]
  <2> DEFINE ak == a \o key
  <2>1. /\ ak \in Seq(Nat) /\ Len(ak) = Len(a) + Len(key)
        /\ \A k \in 1 .. Len(a) + Len(key) : ak[k] = IF k <= Len(a) THEN a[k] ELSE key[k - Len(a)]
    BY <1>2, <1>6, ConcatProperties
  <2>2. /\ ak \in Seq(Nat) /\ Len(ak) = 2 + n
        /\ \A k \in 1 .. 2 + n : ak[k] = IF k <= 2 THEN a[k] ELSE key[k - 2]
    BY <1>6, <2>1 DEF n
  <2> HIDE DEF ak
  <2>3. /\ ak \o z \in Seq(Nat) /\ Len(ak \o z) = Len(ak) + Len(z)
        /\ \A k \in 1 .. Len(ak) + Len(z) : (ak \o z)[k] = IF k <= Len(ak) THEN ak[k] ELSE z[k - Len(ak)]
    BY <1>6, <2>2, ConcatProperties
  <2>4. s = ak \o z
    BY DEF ak
  <2> HIDE DEF s
  <2>5. /\ s \in Seq(Nat) /\ Len(s) = n + 3
        /\ \A k \in 1 .. n + 3 : s[k] = IF k <= 2 + n THEN ak[k] ELSE z[k - (2 + n)]
    BY <1>2, <1>6, <2>2, <2>3, <2>4
  <2>6. s[1] = KEYNAME /\ s[2] = SEPARATOR
    BY <1>2, <1>6, <2>2, <2>5
  <2>7. s[n + 3] = CR
    <3>1. n + 3 \in 1 .. n + 3 /\ ~ (n + 3 <= 2 + n) /\ (n + 3) - (2 + n) = 1
      BY <1>2
    <3>2. QED
      BY <1>6, <2>5, <3>1
  <2>8. ASSUME NEW k \in 1 .. n
        PROVE  s[2 + k] = key[k]
    <3>1. 2 + k \in 1 .. n + 3 /\ 2 + k <= 2 + n /\ 2 + k \in 1 .. 2 + n /\ ~ (2 + k <= 2)
          /\ (2 + k) - 2 = k
      BY <1>2
    <3>2. QED
      BY <2>2, <2>5, <3>1
  <2>9. QED
    BY <2>5, <2>6, <2>7, <2>8
<1> HIDE DEF s
<1>9. \A k \in 1 .. n + 3 : s[k] = text[i + k - 1]
  <2>1. i \in Nat /\ i >= 1 /\ e \in Int /\ e =< N /\ e - i + 1 = n + 3
    BY <1>2
  <2> HIDE DEF e
  <2>2. \A k \in 1 .. e - i + 1 : SubSeq(text, i, e)[k] = text[i + k - 1]
    <3>1. e =< Len(text)
      BY <2>1 DEF N
    <3>2. QED
      BY <1>2, <2>1, <3>1, PartType
  <2>3. QED
    BY <1>7, <2>1, <2>2
<1>10. /\ text[i] = KEYNAME /\ text[i + 1] = SEPARATOR /\ text[i + 2 + n] = CR
       /\ \A k \in 1 .. n : text[i + 1 + k] = key[k]
  <2>1. 1 \in 1 .. n + 3 /\ 2 \in 1 .. n + 3 /\ n + 3 \in 1 .. n + 3 /\ i + 1 - 1 = i /\ i + 2 - 1 = i + 1
        /\ i + (n + 3) - 1 = i + 2 + n
    BY <1>2
  <2>2. \A k \in 1 .. n : 2 + k \in 1 .. n + 3 /\ i + (2 + k) - 1 = i + 1 + k
    BY <1>2
  <2>3. text[i] = s[1] /\ text[i + 1] = s[2] /\ text[i + 2 + n] = s[n + 3]
    BY <1>9, <2>1
  <2>4. \A k \in 1 .. n : text[i + 1 + k] = s[2 + k]
    BY <1>9, <2>2
  <2>5. QED
    BY <1>8, <2>3, <2>4
<1>11. QED
  BY <1>2, <1>3, <1>4, <1>5, <1>10 DEF text, key, N, n

\* The server finds the key a browser's request has.
LEMMA RequestKey ==
  ASSUME NEW r, IsRequest(r)
  PROVE  AsString(r.text) = r.text /\ ServerKey(r.text) = r.key
<1> DEFINE text == r.text
           key == r.key
           N == Len(text)
           n == Len(key)
<1>1. /\ text \in Seq(Nat) /\ N \in Nat /\ n \in Nat /\ key \in Seq(Nat)
      /\ \A k \in 1 .. N : text[k] # 0
      /\ \A k \in 1 .. N - 2 : text[k] = CR => text[k + 1] = LF /\ ~ LineStart(text, k)
      /\ \E i \in 1 .. N - 4 - n :
           /\ LineStart(text, i)
           /\ text[i] = KEYNAME /\ text[i + 1] = SEPARATOR /\ text[i + 2 + n] = CR
           /\ \A k \in 1 .. n : text[i + 1 + k] = key[k] /\ key[k] # LF
           /\ \A j \in i + 1 .. N - 1 :
                LineStart(text, j) => text[j] # KEYNAME \/ text[j + 1] # SEPARATOR
  BY KeyLine
<1> HIDE DEF text, key
<1>2. DOMAIN text = 1 .. N
  BY <1>1, LenProperties
<1>3. AsString(text) = text
  BY <1>1, <1>2 DEF AsString
<1>4. PICK i \in 1 .. N - 4 - n :
        /\ LineStart(text, i)
        /\ text[i] = KEYNAME /\ text[i + 1] = SEPARATOR /\ text[i + 2 + n] = CR
        /\ \A k \in 1 .. n : text[i + 1 + k] = key[k] /\ key[k] # LF
        /\ \A j \in i + 1 .. N - 1 : LineStart(text, j) => text[j] # KEYNAME \/ text[j + 1] # SEPARATOR
  BY <1>1
<1> DEFINE p == i + 2 + n
           line == LineAt(text, i)
           header == Header(line)
<1>a. N >= 5 + n /\ i \in Nat /\ i >= 1 /\ p \in 1 .. N - 2 /\ p >= i + 2 /\ i \in 1 .. N - 2
  BY <1>1
<1>5. text[p + 1] = LF
  BY <1>1, <1>4, <1>a
<1>b. KEYNAME # LF /\ SEPARATOR # LF /\ CR # LF /\ KEYNAME # SEPARATOR /\ KEYNAME \in Nat
      /\ SEPARATOR \in Nat /\ CR \in Nat
  BY TextBytes
<1> HIDE DEF N, n
<1>6. \A k \in i .. p : text[k] # LF
  <2>1. ASSUME NEW k \in i .. p
        PROVE  text[k] # LF
    <3>1. k = i \/ k = i + 1 \/ k = p \/ (k - i - 1 \in 1 .. n /\ i + 1 + (k - i - 1) = k)
      BY <1>1, <1>a
    <3>2. CASE k - i - 1 \in 1 .. n /\ i + 1 + (k - i - 1) = k
      BY <1>4, <3>2
    <3>3. QED
      BY <1>4, <1>b, <3>1, <3>2
  <2>2. QED
    BY <2>1
<1>7. \A j \in Lines(text) : j \in 1 .. N + 1 /\ LineStart(text, j)
  BY <1>1, LineSpan DEF N
<1>8. i \in Lines(text)
  <2>1. CASE i = 1
    BY <2>1 DEF Lines
  <2>2. CASE i # 1
    <3>1. text[i - 1] = LF
      BY <1>4, <2>2 DEF LineStart
    <3>2. i - 1 \in 1 .. N /\ i = (i - 1) + 1
      BY <1>1, <1>a, <2>2
    <3>3. i - 1 \in LineEnds(text)
      BY <1>2, <3>1, <3>2 DEF LineEnds
    <3>4. QED
      BY <3>2, <3>3 DEF Lines
  <2>3. QED
    BY <2>1, <2>2
<1>9. line \in Seq(Nat) /\ Len(line) = n + 3 /\ \A k \in 1 .. n + 3 : line[k] = text[i + k - 1]
  <2>1. PICK e \in i .. N + 1 :
          /\ line \in Seq(Nat) /\ Len(line) = e - i
          /\ \A k \in 1 .. e - i : line[k] = text[i + k - 1]
          /\ \A k \in i .. e - 1 : text[k] # LF
          /\ e = N + 1 \/ text[e] = LF
    BY <1>1, <1>8, LineSpan DEF N
  <2> HIDE DEF line
  <2>2. ~ (p + 1 < e)
    <3>1. ASSUME p + 1 < e
          PROVE  FALSE
      <4>1. p + 1 \in i .. e - 1
        BY <1>a, <3>1
      <4>2. QED
        BY <1>5, <2>1, <4>1
    <3>2. QED
      BY <3>1
  <2>3. ~ (e < p + 1)
    <3>1. ASSUME e < p + 1
          PROVE  FALSE
      <4>1. e \in i .. p /\ e # N + 1
        BY <1>1, <1>a, <3>1
      <4>2. QED
        BY <1>6, <2>1, <4>1
    <3>2. QED
      BY <3>1
  <2>4. e = p + 1
    BY <1>1, <1>a, <2>2, <2>3
  <2>5. e - i = n + 3
    BY <1>1, <1>a, <2>4
  <2>6. QED
    BY <2>1, <2>5
<1> HIDE DEF line
<1>10. line # <<>> /\ Last(line) = CR
  <2>1. line # <<>>
    BY <1>1, <1>9, EmptySeq
  <2>2. n + 3 \in 1 .. n + 3 /\ i + (n + 3) - 1 = p
    BY <1>1, <1>a
  <2>3. line[n + 3] = CR
    BY <1>4, <1>9, <2>2
  <2>4. QED
    BY <1>9, <2>1, <2>3 DEF Last
<1>11. \A j \in Lines(text) : j =< i => LineAt(text, j) # <<CR>>
  <2>1. ASSUME NEW j \in Lines(text), j =< i, LineAt(text, j) = <<CR>>
        PROVE  FALSE
    <3>1. PICK e \in j .. N + 1 :
            /\ Len(LineAt(text, j)) = e - j
            /\ \A k \in 1 .. e - j : LineAt(text, j)[k] = text[j + k - 1]
      BY <1>1, LineSpan DEF N
    <3>2. j \in 1 .. N - 2 /\ LineStart(text, j)
      BY <1>1, <1>7, <1>a, <2>1
    <3>3. e - j = 1
      BY <2>1, <3>1
    <3>4. 1 \in 1 .. e - j /\ j + 1 - 1 = j
      BY <3>2, <3>3
    <3>5. text[j] = CR
      BY <2>1, <3>1, <3>4
    <3>6. QED
      BY <1>1, <3>2, <3>5 DEF N
  <2>2. QED
    BY <2>1
<1>12. i \in Headers(text)
  BY <1>8, <1>10, <1>11 DEF Headers, line
<1>13. /\ header \in Seq(Nat) /\ Len(header) = n + 2
       /\ header[1] = KEYNAME /\ header[2] = SEPARATOR
       /\ \A k \in 1 .. n : header[2 + k] = key[k]
  <2>1. /\ header \in Seq(Nat) /\ Len(header) = Len(line) - 1
        /\ \A k \in 1 .. Len(line) - 1 : header[k] = line[k]
    BY <1>9, <1>10, HeaderIs
  <2> HIDE DEF header
  <2>2. Len(header) = n + 2 /\ \A k \in 1 .. n + 2 : header[k] = text[i + k - 1]
    <3>1. Len(line) - 1 = n + 2
      BY <1>1, <1>9
    <3>2. \A k \in 1 .. n + 2 : k \in 1 .. n + 3
      BY <1>1
    <3>3. QED
      BY <1>9, <2>1, <3>1, <3>2
  <2>3. header[1] = KEYNAME /\ header[2] = SEPARATOR
    <3>1. 1 \in 1 .. n + 2 /\ 2 \in 1 .. n + 2 /\ i + 1 - 1 = i /\ i + 2 - 1 = i + 1
      BY <1>1, <1>a
    <3>2. QED
      BY <1>4, <2>2, <3>1
  <2>4. ASSUME NEW k \in 1 .. n
        PROVE  header[2 + k] = key[k]
    <3>1. 2 + k \in 1 .. n + 2 /\ i + (2 + k) - 1 = i + 1 + k
      BY <1>1, <1>a
    <3>2. QED
      BY <1>4, <2>2, <3>1
  <2>5. QED
    BY <2>1, <2>2, <2>3, <2>4
<1> HIDE DEF header
<1>14. Colon(header) = 2
  <2> DEFINE c == Colon(header)
  <2>1. /\ c \in 1 .. (n + 2) + 1
        /\ c <= n + 2 => header[c] = SEPARATOR
        /\ \A k \in 1 .. n + 2 : header[k] = SEPARATOR => c =< k
    BY <1>13, ColonIs
  <2> HIDE DEF c
  <2>2. c =< 2
    <3>1. 2 \in 1 .. n + 2
      BY <1>1
    <3>2. QED
      BY <1>13, <2>1, <3>1
  <2>3. c # 1
    BY <1>1, <1>13, <1>b, <2>1
  <2>4. c = 2
    BY <1>1, <2>1, <2>2, <2>3
  <2>5. QED
    BY <2>4 DEF c
<1>15. i \in KeyHeaders(text)
  <2>1. SubSeq(header, 1, 2 - 1) = <<KEYNAME>>
    <3>1. SubSeq(header, 1, 1) \in Seq(Nat) /\ Len(SubSeq(header, 1, 1)) = 1
          /\ SubSeq(header, 1, 1)[1] = header[1]
      <4>1. 1 \in 0 .. Len(header)
        BY <1>1, <1>13
      <4>2. QED
        BY <1>13, <4>1, FirstAndRest
    <3> DEFINE s == SubSeq(header, 1, 1)
    <3> HIDE DEF s
    <3>2. s = <<KEYNAME>>
      <4>1. <<KEYNAME>> \in Seq(Nat) /\ Len(<<KEYNAME>>) = 1 /\ <<KEYNAME>>[1] = KEYNAME
        BY <1>b
      <4>2. s \in Seq(Nat) /\ Len(s) = 1 /\ s[1] = KEYNAME
        BY <1>13, <3>1 DEF s
      <4> DEFINE t == <<KEYNAME>>
      <4> HIDE DEF t
      <4>3. t \in Seq(Nat) /\ Len(t) = 1 /\ t[1] = KEYNAME
        BY <4>1 DEF t
      <4>4. s = t
        BY <4>2, <4>3, SeqEqual
      <4>5. QED
        BY <4>4 DEF t
    <3>3. QED
      BY <3>2 DEF s
  <2>2. 2 <= Len(header)
    BY <1>1, <1>13
  <2>3. QED
    BY <1>12, <1>14, <2>1, <2>2 DEF KeyHeaders, header, line
<1>16. ASSUME NEW j \in KeyHeaders(text)
       PROVE  j =< i
  <2> DEFINE other == LineAt(text, j)
             head == Header(other)
             c == Colon(head)
  <2>1. j \in Headers(text) /\ c <= Len(head) /\ SubSeq(head, 1, c - 1) = <<KEYNAME>>
    BY DEF KeyHeaders
  <2>2. j \in Lines(text) /\ other # <<>>
    BY <2>1 DEF Headers
  <2>3. PICK e \in j .. N + 1 :
          /\ other \in Seq(Nat) /\ Len(other) = e - j
          /\ \A k \in 1 .. e - j : other[k] = text[j + k - 1]
    BY <1>1, <2>2, LineSpan DEF N
  <2>4. j \in 1 .. N + 1 /\ LineStart(text, j)
    BY <1>7, <2>2
  <2> HIDE DEF other
  <2>5. /\ head \in Seq(Nat) /\ Len(head) = Len(other) - 1
        /\ \A k \in 1 .. Len(other) - 1 : head[k] = other[k]
    BY <2>2, <2>3, HeaderIs
  <2> HIDE DEF head
  <2>6. c \in 1 .. Len(head) + 1 /\ (c <= Len(head) => head[c] = SEPARATOR)
    BY <2>5, ColonIs
  <2>7. c - 1 = 1 /\ head[1] = KEYNAME
    <3> DEFINE d == c - 1
               s == SubSeq(head, 1, d)
    <3>1. d \in 0 .. Len(head) /\ Len(head) \in Nat
      <4> HIDE DEF c
      <4>1. Len(head) \in Nat
        BY <2>5
      <4>2. QED
        BY <2>1, <2>6, <4>1
    <3>2. s = <<KEYNAME>>
      BY <2>1
    <3> HIDE DEF d
    <3>3. Len(s) = d /\ \A k \in 1 .. d : s[k] = head[k]
      BY <2>5, <3>1, FirstAndRest
    <3> HIDE DEF s
    <3>4. d = 1
      BY <3>2, <3>3
    <3>5. s[1] = KEYNAME /\ s[1] = head[1]
      BY <3>2, <3>3, <3>4
    <3>6. QED
      BY <3>4, <3>5 DEF d
  <2> HIDE DEF c
  <2>8. c = 2 /\ Len(head) >= 2 /\ Len(head) \in Nat /\ head[2] = SEPARATOR
    <3>1. Len(head) \in Nat
      BY <2>5
    <3>2. c \in Nat
      BY <2>6, <3>1
    <3>3. c = 2
      BY <2>7, <3>2
    <3>4. QED
      BY <2>1, <2>6, <3>1, <3>3
  <2>9. e - j >= 3 /\ e - j = Len(other)
    <3>1. Len(other) = e - j /\ Len(other) \in Nat
      BY <2>3
    <3>2. QED
      BY <2>3, <2>5, <2>8, <3>1
  <2>10. other[1] = KEYNAME /\ other[2] = SEPARATOR
    <3>1. 1 \in 1 .. Len(other) - 1 /\ 2 \in 1 .. Len(other) - 1
      BY <2>4, <2>9
    <3>2. QED
      BY <2>5, <2>7, <2>8, <3>1
  <2>11. text[j] = KEYNAME /\ text[j + 1] = SEPARATOR /\ j =< N - 1
    <3>1. 1 \in 1 .. e - j /\ 2 \in 1 .. e - j /\ j + 1 - 1 = j /\ j + 2 - 1 = j + 1 /\ j =< N - 1
      BY <1>1, <2>4, <2>9
    <3>2. QED
      BY <2>3, <2>10, <3>1
  <2>12. ASSUME ~ (j =< i)
         PROVE  FALSE
    <3>1. j \in i + 1 .. N - 1
      BY <1>1, <1>a, <2>4, <2>11, <2>12
    <3>2. QED
      BY <1>4, <2>4, <2>11, <3>1
  <2>13. QED
    BY <2>12
<1>17. KeyHeaders(text) # {} /\ Max(KeyHeaders(text)) = i
  <2> DEFINE K == KeyHeaders(text)
             m == Max(K)
  <2>1. K \in SUBSET (0 .. N + 1)
    <3>1. \A j \in K : j \in Lines(text)
      BY DEF KeyHeaders, Headers
    <3>2. \A j \in 1 .. N + 1 : j \in 0 .. N + 1
      BY <1>1
    <3>3. QED
      BY <1>7, <3>1, <3>2
  <2>2. i \in K /\ \A j \in K : j =< i
    BY <1>15, <1>16
  <2> HIDE DEF K
  <2>3. m \in K /\ \A j \in K : j =< m
    <3> DEFINE M == N + 1
    <3>1. M \in Nat /\ K \in SUBSET (0 .. M) /\ K # {}
      BY <1>1, <2>1, <2>2
    <3> HIDE DEF M
    <3>2. QED
      BY <3>1, MaxIsLargest
  <2> HIDE DEF m
  <2>4. m = i
    BY <1>a, <2>1, <2>2, <2>3
  <2>5. QED
    BY <2>2, <2>4 DEF m, K
<1>18. ServerKey(text) = SubSeq(header, 2 + 1, Len(header))
  BY <1>14, <1>17 DEF ServerKey, header, line
<1>19. SubSeq(header, 2 + 1, 2 + n) = key
  <2>1. 2 \in Nat /\ 2 + n <= Len(header)
    BY <1>1, <1>13
  <2>2. QED
    BY <1>1, <1>13, <2>1, SubSeqIs DEF n
<1>20. Len(header) = 2 + n
  BY <1>1, <1>13
<1>21. QED
  BY <1>3, <1>18, <1>19, <1>20 DEF text, key

\* Where the units end in the stream.
LEMMA EndIs ==
  ASSUME Conversation(units)
  PROVE  \A i \in 0 .. Len(units) :
           /\ EndOf(i) = Len(Flat(Wire(units), i)) /\ EndOf(i) \in Nat
           /\ StreamOf(SubSeq(units, 1, i)) = Flat(Wire(units), i)
<1> DEFINE U == RequestUnits \cup FrameUnits
           w == Wire(units)
           N == Len(units)
<1>1. /\ w \in Seq(Seq(Byte)) /\ Len(w) = N /\ N \in Nat
      /\ \A i \in 1 .. N : w[i] = UnitBytes(units[i])
  BY StreamIs
<1>2. units \in Seq(U)
  BY DEF Conversation
<1> HIDE DEF w, U
<1>3. ASSUME NEW i \in 0 .. N
      PROVE  StreamOf(SubSeq(units, 1, i)) = Flat(w, i) /\ Len(Flat(w, i)) \in Nat
  <2> DEFINE s == SubSeq(units, 1, i)
             t == SubSeq(w, 1, i)
             v == [k \in DOMAIN s |-> UnitBytes(s[k])]
  <2>0. i \in 0 .. Len(w)
    BY <1>1
  <2>1. s \in Seq(U) /\ Len(s) = i /\ \A k \in 1 .. i : s[k] = units[k]
    BY <1>2, FirstAndRest
  <2>2. t \in Seq(Seq(Byte)) /\ Len(t) = i /\ \A k \in 1 .. i : t[k] = w[k]
    BY <1>1, <2>0, FirstAndRest
  <2> HIDE DEF s, t
  <2>3. DOMAIN s = 1 .. i
    BY <2>1, LenProperties
  <2>4. ASSUME NEW k \in 1 .. i
        PROVE  UnitBytes(s[k]) = t[k]
    <3>1. k \in 1 .. N
      BY <1>1
    <3>2. QED
      BY <1>1, <2>1, <2>2, <3>1
  <2>5. v = [k \in 1 .. i |-> t[k]]
    BY <2>3, <2>4
  <2>6. t = [k \in 1 .. i |-> t[k]]
    <3>1. t \in [1 .. Len(t) -> Seq(Byte)]
      BY <2>2, LenProperties
    <3>2. t \in [1 .. i -> Seq(Byte)]
      BY <2>2, <3>1
    <3>3. QED
      BY <3>2
  <2>7. v = t
    BY <2>5, <2>6
  <2>8. StreamOf(s) = FlattenSeq(v)
    BY DEF StreamOf
  <2>9. Flat(w, i) = FlattenSeq(t)
    BY DEF Flat, t
  <2>10. Flat(w, i) \in Seq(Byte)
    BY <1>1, <2>0, FlatType
  <2>11. Len(Flat(w, i)) \in Nat
    <3> DEFINE x == Flat(w, i)
    <3> HIDE DEF x
    <3>1. x \in Seq(Byte)
      BY <2>10 DEF x
    <3>2. Len(x) \in Nat
      BY <3>1, LenProperties
    <3>3. QED
      BY <3>2 DEF x
  <2>12. QED
    BY <2>7, <2>8, <2>9, <2>11 DEF s
<1>4. QED
  BY <1>3 DEF EndOf, w

\* As long as nothing was read, nothing was written, and no frame was sent.  Without it, a read that
\* looks like a request might be a second one, with another key.
Unread == taken = 0 => got = <<>> /\ Len(units) =< 1

\* Before the browser has sent anything there is nothing to read.
LEMMA NothingSent ==
  ASSUME WebType, units = <<>>
  PROVE  taken = 0
<1>1. StreamOf(units) = <<>>
  <2>1. StreamOf(units) = Flat(Wire(units), 0) /\ Wire(units) \in Seq(Seq(Byte))
    BY StreamIs, EmptySeq DEF WebType
  <2>2. QED
    BY <2>1, FlatStep
<1>2. Len(StreamOf(units)) = 0
  BY <1>1
<1>3. QED
  BY <1>2 DEF WebType

\* Every step keeps that: the browser sends frames only once it has the reply to its request.
LEMMA UnreadStep ==
  WebType /\ Unread /\ [Next]_vars => Unread'
<1> SUFFICES ASSUME WebType, Unread, [Next]_vars, taken' = 0
             PROVE  got' = <<>> /\ Len(units') =< 1
  BY DEF Unread
<1>1. ASSUME Opened
      PROVE  taken # 0
  BY <1>1, OpenedIs DEF Unread
<1>2. CASE Ask
  <2>1. PICK u : units' = <<u>>
    BY <1>2 DEF Ask
  <2>2. taken' = taken /\ got' = got
    BY <1>2 DEF Ask
  <2>3. Len(units') =< 1
    BY <2>1
  <2>4. QED
    BY <2>2, <2>3 DEF Unread
<1>3. CASE SendFrame
  BY <1>1, <1>3 DEF SendFrame
<1>4. CASE SendMessage
  BY <1>1, <1>4 DEF SendMessage
<1>5. ASSUME NEW n \in 1 .. BUFF_SIZE - 1, Take(n)
      PROVE  FALSE
  <2>1. taken \in Nat
    <3>1. Len(StreamOf(units)) \in Nat
      BY StreamIs DEF WebType
    <3>2. QED
      BY <3>1 DEF WebType
  <2>2. taken' = taken + n
    BY <1>5 DEF Take
  <2>3. QED
    BY <2>1, <2>2
<1>6. CASE UNCHANGED vars
  BY <1>6 DEF vars, Unread
<1>7. CASE \E n \in 1 .. BUFF_SIZE - 1 : do_handshake(n) \/ ParseFrames(n)
  BY <1>5, <1>7 DEF do_handshake, ParseFrames
<1>8. QED
  BY <1>2, <1>3, <1>4, <1>6, <1>7 DEF Next

\* A read that was clear, after reads that were.
LEMMA ClearRead ==
  ASSUME WebType, NEW n \in Nat, Take(n), blurs' = 0
  PROVE  blurs = 0 /\ Clear(taken, taken + n)
<1>1. blurs \in Nat /\ blurs' = blurs + (IF Clear(taken, taken + n) THEN 0 ELSE 1)
  BY DEF WebType, Take
<1>2. CASE Clear(taken, taken + n)
  BY <1>1, <1>2
<1>3. CASE ~ Clear(taken, taken + n)
  <2>1. blurs' = blurs + 1
    BY <1>1, <1>3
  <2>2. QED
    BY <1>1, <2>1
<1>4. QED
  BY <1>2, <1>3

\* A clear read that looks like a request is the request, and the first that is made.
LEMMA ClearRequest ==
  ASSUME WebType, Unread, NEW n \in Nat, n >= 1, Take(n), blurs' = 0,
         LooksLikeRequest(Arrives(n))
  PROVE  /\ units # <<>> /\ units[1] \in RequestUnits
         /\ got = <<>> /\ taken = 0 /\ Len(units) = 1 /\ n = EndOf(1)
         /\ Arrives(n) = units[1].text
<1> DEFINE within == {i \in DOMAIN units : EndOf(i - 1) >= taken /\ EndOf(i) <= taken + n}
<1>0. Conversation(units)
  BY DEF WebType
<1>1. {taken, taken + n} \subseteq {EndOf(i) : i \in 0 .. Len(units)} /\ 1 \in within
  <2>1. Clear(taken, taken + n)
    BY ClearRead
  <2>2. LooksLikeRequest(SubSeq(StreamOf(units), taken + 1, taken + n))
    BY DEF Arrives
  <2>3. QED
    BY <2>1, <2>2 DEF Clear
<1>2. units \in Seq(RequestUnits \cup FrameUnits) /\ Len(units) \in Nat /\ DOMAIN units = 1 .. Len(units)
  BY <1>0, LenProperties DEF Conversation
<1>3. 1 \in 1 .. Len(units) /\ EndOf(1 - 1) >= taken
  BY <1>1, <1>2
<1>4. units # <<>> /\ units[1] \in RequestUnits
  BY <1>0, <1>2, <1>3, EmptySeq DEF Conversation
<1>5. EndOf(0) = 0
  <2>1. 0 \in 0 .. Len(units)
    BY <1>2
  <2>2. EndOf(0) = Len(Flat(Wire(units), 0)) /\ Wire(units) \in Seq(Seq(Byte))
    BY <1>0, <2>1, EndIs, StreamIs
  <2>3. Flat(Wire(units), 0) = <<>>
    BY <2>2, FlatStep
  <2>4. QED
    BY <2>2, <2>3
<1>6. taken = 0
  <2>1. taken \in Nat
    <3>1. Len(StreamOf(units)) \in Nat
      BY <1>0, StreamIs
    <3>2. QED
      BY <3>1 DEF WebType
  <2>2. 1 - 1 = 0
    OBVIOUS
  <2>3. 0 >= taken
    BY <1>3, <1>5, <2>2
  <2>4. QED
    BY <2>1, <2>3
<1>7. got = <<>> /\ Len(units) = 1
  BY <1>2, <1>3, <1>6 DEF Unread
<1>8. n = EndOf(1)
  <2>1. PICK i \in 0 .. Len(units) : taken + n = EndOf(i)
    BY <1>1
  <2>2. EndOf(i) = n
    BY <1>6, <2>1
  <2>3. i # 0
    BY <1>5, <2>2
  <2>4. i = 1
    BY <1>7, <2>3
  <2>5. QED
    BY <2>2, <2>4
<1>9. StreamOf(units) = units[1].text /\ units[1].text \in Seq(Byte)
  <2> DEFINE w == Wire(units)
             t == units[1].text
  <2>1. w \in Seq(Seq(Byte)) /\ Len(w) = 1 /\ w[1] = UnitBytes(units[1]) /\ StreamOf(units) = Flat(w, 1)
    BY <1>0, <1>3, <1>7, StreamIs
  <2>2. UnitBytes(units[1]) = t /\ t \in Seq(Byte)
    BY <1>4, UnitIs
  <2> HIDE DEF w, t
  <2>3. Flat(w, 0 + 1) = Flat(w, 0) \o w[0 + 1] /\ Flat(w, 0) = <<>>
    <3>1. 0 \in 0 .. Len(w) - 1
      BY <2>1
    <3>2. QED
      BY <2>1, <3>1, FlatStep
  <2>4. 0 + 1 = 1
    OBVIOUS
  <2>5. Flat(w, 1) = <<>> \o t
    BY <2>1, <2>2, <2>3, <2>4
  <2>6. <<>> \o t = t
    BY <2>2, ConcatEmptySeq
  <2>7. QED
    BY <2>1, <2>2, <2>5, <2>6 DEF t
<1>10. Arrives(n) = units[1].text
  <2> DEFINE t == units[1].text
  <2>1. n = Len(t)
    <3>1. EndOf(1) = Len(Flat(Wire(units), 1)) /\ StreamOf(units) = Flat(Wire(units), 1)
      <4>1. 1 \in 0 .. Len(units)
        BY <1>7
      <4>2. EndOf(1) = Len(Flat(Wire(units), 1))
        BY <1>0, <4>1, EndIs
      <4>3. StreamOf(units) = Flat(Wire(units), Len(units))
        BY <1>0, StreamIs
      <4>4. QED
        BY <1>7, <4>2, <4>3
    <3>2. QED
      BY <1>8, <1>9, <3>1
  <2>2. Arrives(n) = SubSeq(t, 0 + 1, 0 + n)
    BY <1>6, <1>9 DEF Arrives
  <2>3. 0 + 1 = 1 /\ 0 + n = n
    OBVIOUS
  <2> HIDE DEF t
  <2>4. SubSeq(t, 1, Len(t)) = t
    BY <1>9, SubSeqFull DEF t
  <2>5. QED
    BY <2>1, <2>2, <2>3, <2>4 DEF t
<1>11. QED
  BY <1>4, <1>6, <1>7, <1>8, <1>10

\* Every step keeps AnswersTheKey.  Only do_handshake puts the first bytes on the socket, with the key of
\* a request that came whole.
LEMMA AnswersStep ==
  WebType /\ Unread /\ AnswersTheKey /\ [Next]_vars => AnswersTheKey'
<1> SUFFICES ASSUME WebType, Unread, AnswersTheKey, [Next]_vars, blurs' = 0, got' # <<>>
             PROVE  IsPrefix(Reply(units'[1].key), got') \/ IsPrefix(got', Reply(units'[1].key))
  BY DEF AnswersTheKey
<1>1. got \in Seq(Nat) /\ message_map = {}
  BY DEF WebType
<1>2. ASSUME blurs' = blurs, got' = got, units'[1] = units[1]
      PROVE  IsPrefix(Reply(units'[1].key), got') \/ IsPrefix(got', Reply(units'[1].key))
  BY <1>2 DEF AnswersTheKey
<1>3. CASE Ask
  <2>1. got' = got /\ units = <<>>
    BY <1>3 DEF Ask
  <2>2. got = <<>>
    BY <2>1, NothingSent DEF Unread
  <2>3. QED
    BY <2>1, <2>2
<1>4. CASE SendFrame
  <2>1. Opened /\ blurs' = blurs /\ got' = got
    BY <1>4 DEF SendFrame
  <2>2. PICK f \in ClientFrames : units' = Append(units, [kind |-> "frame", frame |-> f])
    BY <1>4 DEF SendFrame
  <2>3. /\ Conversation(units) /\ units # <<>> /\ 1 \in 1 .. Len(units)
        /\ \A i \in 2 .. Len(units) : units[i].frame.op # CLOSE
    <3>1. Len(units) >= 1 /\ Len(units) \in Nat /\ units # <<>>
      BY <2>1, OpenedIs
    <3>2. QED
      BY <1>4, <3>1 DEF SendFrame, WebType, Closed
  <2>4. units'[1] = units[1]
    BY <2>2, <2>3, StreamMore
  <2>5. QED
    BY <1>2, <2>1, <2>4
<1>5. CASE SendMessage
  <2> DEFINE key == units[1].key
  <2>1. Opened /\ units' = units
    BY <1>5 DEF SendMessage
  <2>2. key \in Seq(Word) /\ IsPrefix(Reply(key), got)
    BY <2>1, OpenedIs
  <2>3. \E more \in Seq(Nat) : got' = got \o more
    <3>1. PICK len \in Lengths :
            LET payload == [i \in 1..len |-> Len(messages) + 1]
                bytes   == packageMsgForWebsocket(payload)
            IN  IF PackagingOverruns(payload)
                THEN got' = got
                ELSE \E k \in 0 .. Len(bytes) : writeMsg(bytes, k)
      BY <1>5 DEF SendMessage
    <3> DEFINE payload == [i \in 1..len |-> Len(messages) + 1]
               bytes   == packageMsgForWebsocket(payload)
    <3>2. ~ PackagingOverruns(payload) => bytes \in Seq(Nat) /\ Len(bytes) \in Nat
      BY MessageType
    <3> HIDE DEF payload
    <3>3. CASE PackagingOverruns(payload)
      <4>1. got' = got
        BY <3>1, <3>3 DEF payload
      <4>2. got \o <<>> = got /\ <<>> \in Seq(Nat)
        BY <1>1, ConcatEmptySeq, EmptySeq
      <4>3. QED
        BY <4>1, <4>2
    <3>4. CASE ~ PackagingOverruns(payload)
      <4>1. PICK k \in 0 .. Len(bytes) : writeMsg(bytes, k)
        BY <3>1, <3>4 DEF payload
      <4> HIDE DEF bytes
      <4>2. got' = got \o SubSeq(bytes, 1, k)
        BY <1>1, <4>1, Written
      <4>3. SubSeq(bytes, 1, k) \in Seq(Nat)
        BY <3>2, <3>4, FirstAndRest
      <4>4. QED
        BY <4>2, <4>3
    <3>5. QED
      BY <3>3, <3>4
  <2>4. PICK more \in Seq(Nat) : got' = got \o more
    BY <2>3
  <2> HIDE DEF key
  <2>5. Reply(key) \in Seq(Nat)
    BY <2>2, AfterReply, EmptySeq
  <2>6. PICK rest \in Seq(Nat) : Reply(key) \o rest = got
    BY <1>1, <2>2, <2>5, PrefixRest
  <2> DEFINE a == Reply(key)
  <2>7. a \in Seq(Nat) /\ got' = (a \o rest) \o more
    BY <2>4, <2>5, <2>6
  <2> HIDE DEF a
  <2>8. got' = a \o (rest \o more) /\ rest \o more \in Seq(Nat) /\ got' \in Seq(Nat)
    <3>1. (a \o rest) \o more = a \o (rest \o more)
      <4>1. a \in Seq(Nat)
        BY <2>7
      <4>2. QED
        BY <4>1, ConcatAssociative
    <3>2. rest \o more \in Seq(Nat)
      BY ConcatProperties
    <3>3. got' \in Seq(Nat)
      BY <1>1, <2>4, ConcatProperties
    <3>4. QED
      BY <2>7, <3>1, <3>2, <3>3
  <2>9. IsPrefix(a, got')
    <3> DEFINE g == got'
    <3>1. g \in Seq(Nat) /\ \E more_1 \in Seq(Nat) : a \o more_1 = g
      BY <2>8
    <3> HIDE DEF g
    <3>2. IsPrefix(a, g)
      BY <2>7, <3>1, PrefixRest
    <3>3. QED
      BY <3>2 DEF g
  <2>10. QED
    BY <2>1, <2>9 DEF a, key
<1>6. CASE \E n \in 1 .. BUFF_SIZE - 1 : do_handshake(n)
  <2>1. PICK n \in 1 .. BUFF_SIZE - 1 : do_handshake(n)
    BY <1>6
  <2> DEFINE key == ServerKey(AsString(Arrives(n)))
             reply == Reply(key)
  <2>2. n \in Nat /\ n >= 1 /\ Take(n) /\ LooksLikeRequest(Arrives(n))
    BY <2>1 DEF do_handshake
  <2>3. PICK k \in 0 .. Len(reply) : writeMsg(reply, k)
    BY <2>1 DEF do_handshake
  <2>4. reply \in Seq(Nat) /\ Len(reply) \in Nat
    BY <2>2, ReplyType
  <2>5. units[1] \in RequestUnits /\ got = <<>> /\ Arrives(n) = units[1].text /\ units' = units
    BY <2>2, ClearRequest, ArrivesType
  <2>6. key = units[1].key
    <3>1. IsRequest(units[1])
      BY <2>5, UnitIs
    <3>2. QED
      BY <2>5, <3>1, RequestKey
  <2> HIDE DEF reply
  <2>7. got' = got \o SubSeq(reply, 1, k)
    BY <1>1, <2>3, Written
  <2>8. /\ SubSeq(reply, 1, k) \in Seq(Nat) /\ SubSeq(reply, k + 1, Len(reply)) \in Seq(Nat)
        /\ SubSeq(reply, 1, k) \o SubSeq(reply, k + 1, Len(reply)) = reply
    BY <2>4, FirstAndRest
  <2>9. got' = SubSeq(reply, 1, k)
    BY <2>5, <2>7, <2>8, ConcatEmptySeq
  <2>10. IsPrefix(got', reply)
    <3> DEFINE s == SubSeq(reply, 1, k)
    <3>1. s \in Seq(Nat) /\ \E rest \in Seq(Nat) : s \o rest = reply
      BY <2>8
    <3> HIDE DEF s
    <3>2. IsPrefix(s, reply)
      BY <2>4, <3>1, PrefixRest
    <3>3. QED
      BY <2>9, <3>2 DEF s
  <2>11. QED
    BY <2>5, <2>6, <2>10 DEF reply
<1>7. CASE \E n \in 1 .. BUFF_SIZE - 1 : ParseFrames(n)
  <2>1. PICK n \in 1 .. BUFF_SIZE - 1 : ParseFrames(n)
    BY <1>7
  <2>2. n \in Nat /\ Take(n) /\ got' = got
    BY <2>1 DEF ParseFrames
  <2>3. blurs = 0 /\ units' = units
    BY <2>2, ClearRead, ArrivesType
  <2>4. QED
    BY <1>2, <2>2, <2>3
<1>8. CASE UNCHANGED vars
  BY <1>2, <1>8 DEF vars
<1>9. QED
  BY <1>3, <1>4, <1>5, <1>6, <1>7, <1>8 DEF Next

\* Of a connection whose reads are clear, the socket gets the reply to the key that was sent, or the
\* beginning of it, before anything else.
THEOREM SpecAnswersTheKey ==
  Spec => []AnswersTheKey
<1>1. Init => WebType /\ Unread /\ AnswersTheKey
  <2>1. Init => Unread
    BY EmptySeq DEF Init, Unread
  <2>2. Init => AnswersTheKey
    BY DEF Init, AnswersTheKey
  <2>3. QED
    BY <2>1, <2>2, WebTypeInit
<1>2. WebType /\ Unread /\ AnswersTheKey /\ [Next]_vars => (WebType /\ Unread /\ AnswersTheKey)'
  BY WebTypeStep, UnreadStep, AnswersStep
<1>3. QED
  BY <1>1, <1>2, PTL DEF Spec

-----------------------------------------------------------------------------
(* The loop of do_parsebuffer.                                               *)

\* What the zeroed buffer of the read loop has at a place.
LEMMA AtType ==
  ASSUME NEW buf \in Seq(Byte), NEW i \in Nat
  PROVE  At(buf, i) \in Byte /\ (i < Len(buf) => At(buf, i) = buf[i + 1])
<1>1. CASE i < Len(buf)
  <2>1. i + 1 \in 1 .. Len(buf)
    BY <1>1
  <2>2. buf[i + 1] \in Byte
    BY <2>1, ElementOfSeq
  <2>3. QED
    BY <1>1, <2>2 DEF At
<1>2. CASE ~ (i < Len(buf))
  <2>1. 0 \in Byte
    BY Sizes DEF Byte
  <2>2. QED
    BY <1>2, <2>1 DEF At
<1>3. QED
  BY <1>1, <1>2

\* And from a place on.
LEMMA BytesType ==
  ASSUME NEW buf \in Seq(Byte), NEW i \in Nat, NEW n \in Nat
  PROVE  /\ Bytes(buf, i, n) \in [1 .. n -> Byte]
         /\ Bytes(buf, i, n) \in Seq(Byte) /\ Len(Bytes(buf, i, n)) = n
         /\ \A k \in 1 .. n : i + k <= Len(buf) => Bytes(buf, i, n)[k] = buf[i + k]
<1> DEFINE s == Bytes(buf, i, n)
<1>1. ASSUME NEW k \in 1 .. n
      PROVE  /\ At(buf, i + k - 1) \in Byte
             /\ i + k <= Len(buf) => At(buf, i + k - 1) = buf[i + k]
  <2> DEFINE m == i + k - 1
  <2>1. m \in Nat /\ m + 1 = i + k /\ (i + k <= Len(buf) => m < Len(buf))
    OBVIOUS
  <2> HIDE DEF m
  <2>2. At(buf, m) \in Byte /\ (m < Len(buf) => At(buf, m) = buf[m + 1])
    BY <2>1, AtType
  <2>3. QED
    BY <2>1, <2>2 DEF m
<1>2. s \in [1 .. n -> Byte] /\ \A k \in 1 .. n : s[k] = At(buf, i + k - 1)
  BY <1>1 DEF Bytes
<1> HIDE DEF s
<1>3. s \in Seq(Byte) /\ Len(s) = n
  BY <1>2, FunctionSeq
<1>4. QED
  BY <1>1, <1>2, <1>3 DEF s

\* What the loop of do_parsebuffer keeps from turn to turn.
Parsing == [begin : Nat, payloads : Seq(Byte), inside : BOOLEAN]
NoneParsed == [begin |-> 0, payloads |-> <<>>, inside |-> TRUE]

\* One turn keeps its type.
LEMMA ParseFrameType ==
  ASSUME NEW buf \in Seq(Byte), NEW s \in Parsing
  PROVE  ParseFrame(buf, s) \in Parsing
<1> DEFINE o      == s.begin
           b1     == At(buf, o)
           b2     == At(buf, o + 1)
           rsv    == (b1 \div OPCODES) % (TOP \div OPCODES)
           isMask == b2 \div TOP = 1
           len7   == b2 % TOP
           len    == IF len7 = Ext16 THEN Base * At(buf, o + 2) + At(buf, o + 3) ELSE len7
           plain  == IF len7 = Ext16 THEN 4 ELSE 2
           header == plain + (IF isMask THEN 4 ELSE 0)
           wire   == Bytes(buf, o + header, len)
           out    == IF isMask THEN Masked(wire, Bytes(buf, plain, 4)) ELSE wire
           next   == [begin |-> AfterFrame(s.begin, header, len), payloads |-> s.payloads \o out,
                      inside |-> s.inside]
<1>1. \/ ParseFrame(buf, s) = s
      \/ ParseFrame(buf, s) = [s EXCEPT !.inside = FALSE]
      \/ ParseFrame(buf, s) = next
  BY DEF ParseFrame
<1>2. o \in Nat /\ s.payloads \in Seq(Byte) /\ s.inside \in BOOLEAN
  BY DEF Parsing
<1>3. len \in Nat /\ plain \in Nat /\ header \in Nat
  <2>1. plain \in Nat /\ header \in Nat
    OBVIOUS
  <2>2. len7 \in Nat
    <3>1. o + 1 \in Nat /\ TOP \in Nat /\ TOP > 0 /\ Byte \subseteq Nat
      BY <1>2, Sizes, ByteSize
    <3> DEFINE i == o + 1
    <3> HIDE DEF i
    <3>2. b2 \in Nat
      <4>1. i \in Nat
        BY <3>1 DEF i
      <4>2. At(buf, i) \in Byte
        BY <4>1, AtType
      <4>3. QED
        BY <3>1, <4>2 DEF i
    <3> HIDE DEF b2
    <3>3. b2 % TOP \in 0 .. TOP - 1
      BY <3>1, <3>2, DivModSum
    <3>4. QED
      BY <3>1, <3>3
  <2>3. Base * At(buf, o + 2) + At(buf, o + 3) \in Nat
    <3> DEFINE i == o + 2
               j == o + 3
               p == At(buf, i)
               q == At(buf, j)
    <3>1. i \in Nat /\ j \in Nat
      BY <1>2
    <3> HIDE DEF i, j
    <3>2. p \in Byte /\ q \in Byte
      BY <3>1, AtType
    <3> HIDE DEF p, q
    <3>3. p \in Nat /\ q \in Nat /\ Base \in Nat
      BY <3>2, ByteSize
    <3>4. Base * p \in Nat
      BY <3>3, ProductType
    <3>5. Base * p + q \in Nat
      BY <3>3, <3>4
    <3>6. QED
      BY <3>5 DEF p, q, i, j
  <2> HIDE DEF len7
  <2>4. QED
    BY <2>1, <2>2, <2>3
<1> HIDE DEF len, plain, header
<1>4. out \in Seq(Byte)
  <2> DEFINE i == o + header
             mask == Bytes(buf, plain, 4)
  <2>1. i \in Nat
    BY <1>2, <1>3
  <2> HIDE DEF i
  <2>2. Bytes(buf, i, len) \in Seq(Byte)
    BY <1>3, <2>1, BytesType
  <2>3. wire \in Seq(Byte)
    BY <2>2 DEF i
  <2>4. mask \in [1 .. 4 -> Byte]
    BY <1>3, BytesType
  <2> HIDE DEF wire, mask
  <2>5. Masked(wire, mask) \in Seq(Byte)
    BY <2>3, <2>4, MaskedType
  <2>6. QED
    BY <2>3, <2>5 DEF mask
<1> HIDE DEF out
<1>5. next \in Parsing
  <2>1. s.payloads \o out \in Seq(Byte)
    BY <1>2, <1>4, ConcatProperties
  <2>2. AfterFrame(o, header, len) \in Nat
    BY <1>2, <1>3 DEF AfterFrame
  <2>3. QED
    BY <1>2, <2>1, <2>2 DEF Parsing
<1>6. [s EXCEPT !.inside = FALSE] \in Parsing
  BY DEF Parsing
<1>7. QED
  BY <1>1, <1>5, <1>6

\* The loop of do_parsebuffer, turn by turn.
ParseLoop(f, buf) == f = [n \in 0 .. Len(buf) |-> IF n = 0 THEN NoneParsed ELSE ParseFrame(buf, f[n - 1])]

\* There is such a function, whatever was read.
LEMMA ParseLoopExists ==
  ASSUME NEW buf \in Seq(Byte)
  PROVE  \E f : ParseLoop(f, buf)
<1> DEFINE S == Parsing
           step == [s \in S |-> ParseFrame(buf, s)]
           N == Len(buf)
<1>1. NoneParsed \in S /\ step \in [S -> S] /\ N \in Nat
  <2>1. NoneParsed \in S
    BY EmptySeq DEF NoneParsed, Parsing
  <2>2. QED
    BY <2>1, ParseFrameType
<1>2. PICK f \in [0 .. N -> S] : Turns(f, NoneParsed, step, N)
  <2> HIDE DEF S, step
  <2>1. QED
    BY <1>1, TurnsExist
<1>3. f = [k \in 0 .. N |-> IF k = 0 THEN NoneParsed ELSE step[f[k - 1]]]
  BY <1>2 DEF Turns
<1>4. ASSUME NEW k \in 0 .. N, k # 0
      PROVE  step[f[k - 1]] = ParseFrame(buf, f[k - 1])
  <2>1. f[k - 1] \in S
    BY <1>1, <1>4
  <2>2. QED
    BY <2>1
<1> HIDE DEF step, S
<1>5. f = [k \in 0 .. N |-> IF k = 0 THEN NoneParsed ELSE ParseFrame(buf, f[k - 1])]
  BY <1>3, <1>4
<1>6. QED
  BY <1>5 DEF ParseLoop

\* do_parsebuffer is its last value, and a turn goes by ParseFrame.
LEMMA ParsedIs ==
  ASSUME NEW buf \in Seq(Byte)
  PROVE  \E f : /\ do_parsebuffer(buf) = f[Len(buf)] /\ f[0] = NoneParsed
                /\ \A n \in 1 .. Len(buf) : f[n] = ParseFrame(buf, f[n - 1])
<1> DEFINE g == CHOOSE f : ParseLoop(f, buf)
           N == Len(buf)
<1>1. ParseLoop(g, buf)
  BY ParseLoopExists
<1>2. do_parsebuffer(buf) = g[Len(buf)]
  BY DEF do_parsebuffer, ParseLoop, NoneParsed
<1> HIDE DEF g
<1>3. g[0] = NoneParsed /\ \A n \in 1 .. N : g[n] = ParseFrame(buf, g[n - 1])
  <2>1. g = [n \in 0 .. N |-> IF n = 0 THEN NoneParsed ELSE ParseFrame(buf, g[n - 1])]
    BY <1>1 DEF ParseLoop
  <2>2. N \in Nat
    OBVIOUS
  <2> HIDE DEF N
  <2>3. QED
    BY <2>1, <2>2
<1>4. QED
  BY <1>2, <1>3

\* A browser's first two bytes, as the server takes them apart.
LEMMA FirstBytes ==
  ASSUME NEW f, IsFrame(f)
  PROVE  LET b1 == FrameBytes(f)[1]
             b2 == FrameBytes(f)[2]
         IN  /\ b1 % OPCODES = f.op
             /\ (b1 \div OPCODES) % (TOP \div OPCODES) = 0
             /\ b2 \div TOP = 1
             /\ b2 % TOP = IF Len(f.payload) < Ext16 THEN Len(f.payload) ELSE Ext16
<1> DEFINE n == Len(f.payload)
           b1 == FrameBytes(f)[1]
           b2 == FrameBytes(f)[2]
           r == IF n < Ext16 THEN n ELSE Ext16
<1>1. /\ n \in Nat /\ f.op \in 0 .. OPCODES - 1 /\ f.fin \in {0, 1}
      /\ b1 = TOP * f.fin + f.op
      /\ n < Ext16 => b2 = TOP + n
      /\ n >= Ext16 => b2 = TOP + Ext16
  BY FrameWire
<1>2. TOP \in Nat /\ TOP >= 16 /\ OPCODES \in Nat /\ OPCODES >= 8 /\ Ext16 = TOP - 2
  BY Sizes
<1>3. PICK c \in 2 .. TOP : TOP = c * OPCODES
  BY WebLinkAssumption
<1> DEFINE op == f.op
           fin == f.fin
           q == c * fin
<1> HIDE DEF b1, b2, n, op, fin
<1>4. c \in Nat /\ c > 0 /\ q \in {0, c}
  BY <1>1, <1>2 DEF fin
<1>5. b1 = q * OPCODES + op
  <2>1. CASE fin = 0
    BY <1>1, <1>2, <1>3, <2>1 DEF fin, op
  <2>2. CASE fin = 1
    BY <1>1, <1>2, <1>3, <2>2 DEF fin, op
  <2>3. QED
    BY <1>1, <2>1, <2>2 DEF fin
<1> HIDE DEF q
<1>6. b1 % OPCODES = op /\ b1 \div OPCODES = q
  <2>1. q \in Nat /\ op \in 0 .. OPCODES - 1 /\ OPCODES > 0
    BY <1>1, <1>2, <1>4 DEF op
  <2>2. QED
    BY <1>2, <1>5, <2>1, DivMod
<1>7. TOP \div OPCODES = c
  <2>1. TOP = c * OPCODES + 0 /\ 0 \in 0 .. OPCODES - 1 /\ OPCODES > 0
    BY <1>2, <1>3
  <2>2. (c * OPCODES + 0) \div OPCODES = c
    BY <1>2, <1>4, <2>1, DivMod
  <2>3. QED
    BY <2>1, <2>2
<1>8. q % c = 0
  <2>1. 0 \in 0 .. c - 1 /\ 0 \in Nat /\ 1 \in Nat
    BY <1>4
  <2>2. (0 * c + 0) % c = 0 /\ (1 * c + 0) % c = 0
    BY <1>4, <2>1, DivMod
  <2>3. 0 * c + 0 = 0 /\ 1 * c + 0 = c
    BY <1>4
  <2>4. QED
    BY <1>4, <2>2, <2>3
<1>9. b2 = 1 * TOP + r /\ r \in 0 .. TOP - 1
  <2>1. CASE n < Ext16
    BY <1>1, <1>2, <2>1
  <2>2. CASE ~ (n < Ext16)
    BY <1>1, <1>2, <2>2
  <2>3. QED
    BY <2>1, <2>2
<1> HIDE DEF r
<1>10. b2 \div TOP = 1 /\ b2 % TOP = r
  <2>1. TOP > 0 /\ 1 \in Nat
    BY <1>2
  <2>2. (1 * TOP + r) \div TOP = 1 /\ (1 * TOP + r) % TOP = r
    BY <1>2, <1>9, <2>1, DivMod
  <2>3. QED
    BY <1>9, <2>2
<1>11. QED
  BY <1>6, <1>7, <1>8, <1>10 DEF b1, b2, n, r, op

\* Frames with headers of one form have their mask in one place.
LEMMA SameHead ==
  ASSUME NEW f, IsFrame(f), NEW g, IsFrame(g),
         <<FrameHead(1, 0, 0, Len(f.payload))[2] = Ext16, f.mask>>
           = <<FrameHead(1, 0, 0, Len(g.payload))[2] = Ext16, g.mask>>
  PROVE  Plain(f) = Plain(g) /\ f.mask = g.mask
<1> DEFINE long(h) == FrameHead(1, 0, 0, Len(h.payload))[2] = Ext16
<1>1. ASSUME NEW h, IsFrame(h)
      PROVE  long(h) <=> Plain(h) = 4
  <2> DEFINE n == Len(h.payload)
  <2>1. n \in Nat /\ TOP \in Nat /\ Ext16 \in Nat
    BY <1>1, Sizes, FrameWire
  <2>2. CASE n < Ext16
    <3>1. FrameHead(1, 0, 0, n) = <<TOP * 1 + 0, TOP * 0 + n>>
      BY <2>2 DEF FrameHead
    <3>2. TOP * 0 + n = n
      <4> HIDE DEF n
      <4>1. QED
        BY <2>1
    <3>3. FrameHead(1, 0, 0, n)[2] = n
      BY <3>1, <3>2
    <3>4. n # Ext16
      <4> HIDE DEF n
      <4>1. QED
        BY <2>1, <2>2
    <3>5. Plain(h) = 2
      BY <2>2 DEF Plain
    <3> HIDE DEF n
    <3>6. ~ (FrameHead(1, 0, 0, n)[2] = Ext16)
      BY <3>3, <3>4
    <3>7. QED
      BY <3>5, <3>6 DEF n
  <2>3. CASE ~ (n < Ext16)
    <3>1. FrameHead(1, 0, 0, n) = <<TOP * 1 + 0, TOP * 0 + Ext16, n \div Base, n % Base>>
      BY <2>3 DEF FrameHead
    <3>2. TOP * 0 + Ext16 = Ext16
      BY <2>1
    <3>3. FrameHead(1, 0, 0, n)[2] = Ext16
      BY <3>1, <3>2
    <3>4. Plain(h) = 4
      BY <2>3 DEF Plain
    <3>5. QED
      BY <3>3, <3>4
  <2>4. QED
    BY <2>2, <2>3
<1>2. f.mask = g.mask
  <2> DEFINE a == FrameHead(1, 0, 0, Len(f.payload))[2] = Ext16
             b == FrameHead(1, 0, 0, Len(g.payload))[2] = Ext16
  <2>1. <<a, f.mask>> = <<b, g.mask>>
    OBVIOUS
  <2> HIDE DEF a, b
  <2>2. <<a, f.mask>>[2] = <<b, g.mask>>[2]
    BY <2>1
  <2>3. QED
    BY <2>2
<1>3. long(f) = long(g)
  <2> DEFINE a == FrameHead(1, 0, 0, Len(f.payload))[2] = Ext16
             b == FrameHead(1, 0, 0, Len(g.payload))[2] = Ext16
  <2>1. <<a, f.mask>> = <<b, g.mask>>
    OBVIOUS
  <2> HIDE DEF a, b
  <2>2. <<a, f.mask>>[1] = <<b, g.mask>>[1]
    BY <2>1
  <2>3. a = b
    BY <2>2
  <2>4. QED
    BY <2>3 DEF a, b
<1>4. Plain(f) = 4 <=> Plain(g) = 4
  <2> HIDE DEF long
  <2>1. QED
    BY <1>1, <1>3
<1>5. QED
  BY <1>2, <1>4 DEF Plain

\* At a whole frame that is not a close, one turn takes its payload.
LEMMA ParseOne ==
  ASSUME NEW f, IsFrame(f), f.op # CLOSE, NEW a \in Seq(Byte), NEW b \in Seq(Byte), NEW buf,
         buf = (a \o FrameBytes(f)) \o b, Len(buf) <= BUFF_SIZE,
         \A k \in 1 .. 4 : buf[Plain(f) + k] = f.mask[k],
         NEW payloads
  PROVE  ParseFrame(buf, [begin |-> Len(a), payloads |-> payloads, inside |-> TRUE])
           = [begin |-> Len(a) + Len(FrameBytes(f)), payloads |-> payloads \o f.payload, inside |-> TRUE]
<1> DEFINE x == FrameBytes(f)
           n == Len(f.payload)
           h == Plain(f)
           o == Len(a)
           N == Len(buf)
           s == [begin |-> o, payloads |-> payloads, inside |-> TRUE]
           b1     == At(buf, s.begin)
           b2     == At(buf, s.begin + 1)
           rsv    == (b1 \div OPCODES) % (TOP \div OPCODES)
           isMask == b2 \div TOP = 1
           len7   == b2 % TOP
           len    == IF len7 = Ext16 THEN Base * At(buf, s.begin + 2) + At(buf, s.begin + 3) ELSE len7
           plain  == IF len7 = Ext16 THEN 4 ELSE 2
           header == plain + (IF isMask THEN 4 ELSE 0)
           wire   == Bytes(buf, s.begin + header, len)
           mask   == Bytes(buf, plain, 4)
<1>1. /\ n \in Nat /\ f.payload \in Seq(Byte) /\ f.mask \in [1 .. 4 -> Byte] /\ f.op \in 0 .. OPCODES - 1
      /\ x \in Seq(Byte) /\ Len(x) = h + 4 + n
      /\ n >= Ext16 => Base * x[3] + x[4] = n
      /\ \A i \in 1 .. 4 : x[h + i] = f.mask[i]
      /\ \A i \in 1 .. n : x[h + 4 + i] = Masked(f.payload, f.mask)[i]
  BY FrameWire
<1>2. /\ x[1] % OPCODES = f.op /\ (x[1] \div OPCODES) % (TOP \div OPCODES) = 0
      /\ x[2] \div TOP = 1 /\ x[2] % TOP = IF n < Ext16 THEN n ELSE Ext16
  BY FirstBytes
<1>3. h \in {2, 4} /\ (h = 2 <=> n < Ext16) /\ Ext16 \in Nat /\ Ext64 \in Nat /\ Ext16 < Ext64 /\ o \in Nat
      /\ Len(b) \in Nat /\ BUFF_SIZE \in Nat
  <2>1. BUFF_SIZE \in Nat
    <3>1. Base * Base \in Nat
      BY Sizes, ProductType
    <3> DEFINE bb == Base * Base
    <3>2. BUFF_SIZE \in 7 .. bb /\ bb \in Nat
      BY <3>1, WebLinkAssumption
    <3> HIDE DEF bb
    <3>3. QED
      BY <3>2
  <2>2. QED
    BY <2>1, Sizes DEF Plain
<1>4. buf \in Seq(Byte) /\ N = o + (h + 4 + n) + Len(b) /\ \A i \in 1 .. h + 4 + n : buf[o + i] = x[i]
  <2> HIDE DEF x
  <2>1. x \in Seq(Byte) /\ buf = (a \o x) \o b
    BY <1>1 DEF x
  <2>2. /\ buf \in Seq(Byte) /\ Len(buf) = Len(a) + Len(x) + Len(b)
        /\ \A i \in 1 .. Len(x) : buf[Len(a) + i] = x[i]
    BY <2>1, Surrounded
  <2>3. Len(x) = h + 4 + n
    BY <1>1
  <2>4. QED
    BY <2>2, <2>3
<1> HIDE DEF x, h, o, n, N
<1>5. s.begin = o /\ s.payloads = payloads /\ s.inside = TRUE
  OBVIOUS
<1> HIDE DEF s
<1>6. b1 = x[1] /\ b2 = x[2] /\ (h = 4 => At(buf, s.begin + 2) = x[3] /\ At(buf, s.begin + 3) = x[4])
  <2>1. ASSUME NEW i \in 0 .. h + 4 + n - 1
        PROVE  At(buf, s.begin + i) = x[i + 1]
    <3> DEFINE j == o + i
    <3>1. j \in Nat /\ j < N /\ i + 1 \in 1 .. h + 4 + n /\ o + (i + 1) = j + 1
      BY <1>1, <1>3, <1>4
    <3>2. s.begin + i = j
      BY <1>5
    <3> HIDE DEF j
    <3>3. At(buf, j) = buf[j + 1]
      BY <1>4, <3>1, AtType DEF N
    <3>4. buf[j + 1] = x[i + 1]
      BY <1>4, <3>1
    <3>5. QED
      BY <3>2, <3>3, <3>4
  <2>2. 0 \in 0 .. h + 4 + n - 1 /\ 1 \in 0 .. h + 4 + n - 1 /\ 2 \in 0 .. h + 4 + n - 1
        /\ 3 \in 0 .. h + 4 + n - 1
    BY <1>1, <1>3
  <2>3. s.begin + 0 = s.begin /\ 0 + 1 = 1 /\ 1 + 1 = 2 /\ 2 + 1 = 3 /\ 3 + 1 = 4
    BY <1>3, <1>5
  <2>4. At(buf, s.begin + 0) = x[0 + 1] /\ At(buf, s.begin + 1) = x[1 + 1]
    BY <2>1, <2>2
  <2>5. At(buf, s.begin + 2) = x[2 + 1] /\ At(buf, s.begin + 3) = x[3 + 1]
    BY <2>1, <2>2
  <2>6. QED
    BY <2>3, <2>4, <2>5
<1> HIDE DEF b1, b2
<1>7. b1 % OPCODES = f.op /\ rsv = 0 /\ isMask /\ len7 = IF n < Ext16 THEN n ELSE Ext16
  BY <1>2, <1>6
<1> HIDE DEF rsv, isMask, len7
<1>8. plain = h /\ len = n /\ len7 # Ext64
  <2>1. CASE n < Ext16
    <3>1. len7 = n /\ h = 2
      BY <1>3, <1>7, <2>1
    <3>2. len7 # Ext16 /\ len7 # Ext64
      BY <1>1, <1>3, <2>1, <3>1
    <3>3. QED
      BY <3>1, <3>2
  <2>2. CASE ~ (n < Ext16)
    <3>1. len7 = Ext16 /\ h = 4
      BY <1>3, <1>7, <2>2
    <3>2. Base * x[3] + x[4] = n
      BY <1>1, <1>3, <2>2
    <3>3. len7 # Ext64
      BY <1>3, <3>1
    <3>4. QED
      BY <1>6, <3>1, <3>2, <3>3
  <2>3. QED
    BY <2>1, <2>2
<1>9. header = h + 4
  BY <1>7, <1>8
<1> HIDE DEF plain, len, header
<1>10. wire = Masked(f.payload, f.mask)
  <2> DEFINE body == Masked(f.payload, f.mask)
             i == o + (h + 4)
  <2>1. i \in Nat /\ i + n <= N
    BY <1>1, <1>3, <1>4
  <2>2. body \in Seq(Byte) /\ Len(body) = n
    BY <1>1, MaskedType DEF n
  <2>3. wire = Bytes(buf, i, n)
    BY <1>5, <1>8, <1>9
  <2> HIDE DEF wire, i
  <2>4. /\ Bytes(buf, i, n) \in Seq(Byte) /\ Len(Bytes(buf, i, n)) = n
        /\ \A k \in 1 .. n : i + k <= Len(buf) => Bytes(buf, i, n)[k] = buf[i + k]
    BY <1>1, <1>4, <2>1, BytesType
  <2>5. \A k \in 1 .. n : buf[i + k] = body[k] /\ i + k <= Len(buf)
    <3>1. ASSUME NEW k \in 1 .. n
          PROVE  buf[i + k] = body[k] /\ i + k <= N
      <4>1. k \in Nat /\ k >= 1 /\ k <= n
        BY <1>1
      <4>2. h \in Nat /\ n \in Nat /\ o \in Nat
        BY <1>1, <1>3
      <4>3. h + 4 + k \in 1 .. h + 4 + n
        BY <4>1, <4>2
      <4>4. o + (h + 4 + k) = i + k
        BY <4>1, <4>2 DEF i
      <4>5. i + k <= N
        <5>1. N \in Nat
          BY <1>4 DEF N
        <5>2. QED
          BY <2>1, <4>1, <4>2, <5>1
      <4>6. buf[o + (h + 4 + k)] = x[h + 4 + k]
        BY <1>4, <4>3
      <4>7. x[h + 4 + k] = body[k]
        BY <1>1
      <4>8. QED
        BY <4>4, <4>5, <4>6, <4>7
    <3>2. QED
      BY <3>1 DEF N
  <2> HIDE DEF body
  <2>6. \A k \in 1 .. n : wire[k] = body[k]
    BY <2>3, <2>4, <2>5
  <2>7. wire = body
    BY <2>2, <2>3, <2>4, <2>6, SeqEqual
  <2>8. QED
    BY <2>7 DEF body
<1>11. mask = f.mask
  <2>1. h \in Nat /\ 4 \in Nat /\ mask = Bytes(buf, h, 4)
    BY <1>3, <1>8
  <2> HIDE DEF mask
  <2>2. /\ Bytes(buf, h, 4) \in [1 .. 4 -> Byte]
        /\ \A k \in 1 .. 4 : h + k <= Len(buf) => Bytes(buf, h, 4)[k] = buf[h + k]
    BY <1>4, <2>1, BytesType
  <2>3. \A k \in 1 .. 4 : h + k <= Len(buf)
    <3>1. \A k \in 1 .. 4 : h + k <= N
      BY <1>1, <1>3, <1>4
    <3>2. QED
      BY <3>1 DEF N
  <2>4. \A k \in 1 .. 4 : mask[k] = f.mask[k]
    BY <2>1, <2>2, <2>3 DEF h
  <2>5. mask \in [1 .. 4 -> Byte] /\ f.mask \in [1 .. 4 -> Byte]
    BY <1>1, <2>1, <2>2
  <2>6. QED
    BY <2>4, <2>5
<1>12. Masked(wire, mask) = f.payload
  BY <1>1, <1>10, <1>11, MaskedType
<1> HIDE DEF wire, mask
<1>13. ~ (s.begin + 2 >= N) /\ ~ (s.begin + header + len > BUFF_SIZE)
  <2>1. s.begin + header + len = o + (h + 4) + n
    BY <1>5, <1>8, <1>9
  <2>2. N <= BUFF_SIZE
    BY DEF N
  <2>3. QED
    BY <1>1, <1>3, <1>4, <1>5, <2>1, <2>2
<1>14. ParseFrame(buf, s) = [begin    |-> AfterFrame(s.begin, header, len),
                             payloads |-> s.payloads \o Masked(wire, mask), inside |-> s.inside]
  <2>1. b1 % OPCODES # CLOSE /\ rsv = 0 /\ isMask /\ len7 # Ext64
    BY <1>7, <1>8
  <2>2. ~ (s.begin + 2 >= Len(buf) \/ b1 % OPCODES = CLOSE \/ rsv # 0)
        /\ ~ (len7 = Ext64 \/ s.begin + header + len > BUFF_SIZE)
    BY <1>13, <2>1 DEF N
  <2>3. ParseFrame(buf, s) =
          IF s.begin + 2 >= Len(buf) \/ b1 % OPCODES = CLOSE \/ rsv # 0 THEN s
          ELSE IF len7 = Ext64 \/ s.begin + header + len > BUFF_SIZE THEN [s EXCEPT !.inside = FALSE]
          ELSE [begin    |-> AfterFrame(s.begin, header, len),
                payloads |-> s.payloads \o (IF isMask THEN Masked(wire, mask) ELSE wire),
                inside   |-> s.inside]
    BY DEF ParseFrame, b1, b2, rsv, isMask, len7, len, plain, header, wire, mask
  <2>4. QED
    BY <2>1, <2>2, <2>3
<1>15. AfterFrame(o, header, len) = o + Len(x)
  BY <1>1, <1>3, <1>8, <1>9 DEF AfterFrame
<1> HIDE DEF header, len
<1>16. /\ AfterFrame(s.begin, header, len) = o + Len(x)
       /\ s.payloads \o Masked(wire, mask) = payloads \o f.payload
       /\ s.inside = TRUE
  BY <1>5, <1>12, <1>15
<1>17. QED
  BY <1>14, <1>16 DEF s, o, x

\* The two ways in which the loop is over without harm.
LEMMA ParseStops ==
  ASSUME NEW buf, NEW s, s.begin + 2 >= Len(buf) \/ At(buf, s.begin) % OPCODES = CLOSE
  PROVE  ParseFrame(buf, s) = s
<1> DEFINE b1 == At(buf, s.begin)
           over == s.begin + 2 >= Len(buf) \/ b1 % OPCODES = CLOSE
                     \/ (b1 \div OPCODES) % (TOP \div OPCODES) # 0
<1>1. over
  OBVIOUS
<1>2. \E other : ParseFrame(buf, s) = IF over THEN s ELSE other
  BY DEF ParseFrame
<1> HIDE DEF over
<1>3. QED
  BY <1>1, <1>2

\* At a close frame the loop is over.
LEMMA ParseClose ==
  ASSUME NEW f, IsFrame(f), f.op = CLOSE, NEW a \in Seq(Byte), NEW b \in Seq(Byte), NEW buf,
         buf = (a \o FrameBytes(f)) \o b, NEW payloads
  PROVE  LET s == [begin |-> Len(a), payloads |-> payloads, inside |-> TRUE]
         IN  ParseFrame(buf, s) = s
<1> DEFINE x == FrameBytes(f)
           o == Len(a)
           s == [begin |-> o, payloads |-> payloads, inside |-> TRUE]
<1>1. x \in Seq(Byte) /\ Len(x) >= 1 /\ Len(x) \in Nat
  <2> DEFINE n == Len(f.payload)
             h == Plain(f)
  <2>1. n \in Nat /\ x \in Seq(Byte) /\ Len(x) = h + 4 + n
    BY FrameWire
  <2>2. h \in {2, 4}
    BY DEF Plain
  <2> HIDE DEF n, h, x
  <2>3. QED
    BY <2>1, <2>2
<1>2. x[1] % OPCODES = CLOSE
  BY FirstBytes
<1> HIDE DEF x
<1>3. /\ buf \in Seq(Byte) /\ Len(buf) = o + Len(x) + Len(b) /\ o \in Nat /\ Len(b) \in Nat
      /\ \A i \in 1 .. Len(x) : buf[o + i] = x[i]
  BY <1>1, Surrounded DEF x
<1> HIDE DEF o
<1>4. At(buf, s.begin) = x[1]
  <2>1. s.begin = o
    OBVIOUS
  <2>2. o < Len(buf) /\ 1 \in 1 .. Len(x)
    BY <1>1, <1>3
  <2>3. At(buf, o) = buf[o + 1]
    BY <1>3, <2>2, AtType
  <2>4. QED
    BY <1>3, <2>1, <2>2, <2>3
<1> HIDE DEF s
<1>5. ParseFrame(buf, s) = s
  BY <1>2, <1>4, ParseStops
<1>6. QED
  BY <1>5 DEF s, o

\* The same at the end of what was read.
LEMMA ParseEnd ==
  ASSUME NEW buf \in Seq(Byte), NEW payloads
  PROVE  LET s == [begin |-> Len(buf), payloads |-> payloads, inside |-> TRUE]
         IN  ParseFrame(buf, s) = s
<1> DEFINE s == [begin |-> Len(buf), payloads |-> payloads, inside |-> TRUE]
           N == Len(buf)
<1>1. N \in Nat /\ s.begin = N
  OBVIOUS
<1> HIDE DEF s, N
<1>2. s.begin + 2 >= N
  BY <1>1
<1>3. ParseFrame(buf, s) = s
  BY <1>2, ParseStops DEF N
<1>4. QED
  BY <1>3 DEF s

\* Frames on the wire, and what do_parsebuffer is to hand on of them.
Waves(fs) == [k \in 1 .. Len(fs) |-> FrameBytes(fs[k])]
Pays(fs)  == [k \in 1 .. Len(fs) |-> IF fs[k].op # CLOSE THEN fs[k].payload ELSE <<>>]

\* Each frame is one that WebLinkAssumption describes, and takes a byte or more.
LEMMA RunType ==
  ASSUME NEW fs \in Seq(ClientFrames)
  PROVE  /\ Len(fs) \in Nat
         /\ Waves(fs) \in Seq(Seq(Byte)) /\ Len(Waves(fs)) = Len(fs)
         /\ Pays(fs) \in Seq(Seq(Byte)) /\ Len(Pays(fs)) = Len(fs)
         /\ \A k \in 1 .. Len(fs) : /\ IsFrame(fs[k]) /\ Waves(fs)[k] = FrameBytes(fs[k])
                                    /\ Pays(fs)[k] = IF fs[k].op # CLOSE THEN fs[k].payload ELSE <<>>
                                    /\ Len(Waves(fs)[k]) \in Nat /\ Len(Waves(fs)[k]) >= 1
<1> DEFINE L == Len(fs)
           pay(k) == IF fs[k].op # CLOSE THEN fs[k].payload ELSE <<>>
<1>1. L \in Nat
  OBVIOUS
<1>2. ASSUME NEW k \in 1 .. L
      PROVE  IsFrame(fs[k]) /\ FrameBytes(fs[k]) \in Seq(Byte) /\ pay(k) \in Seq(Byte)
             /\ Len(FrameBytes(fs[k])) \in Nat /\ Len(FrameBytes(fs[k])) >= 1
  <2> DEFINE f == fs[k]
             n == Len(f.payload)
             h == Plain(f)
             x == FrameBytes(f)
  <2>1. f \in ClientFrames
    BY ElementOfSeq
  <2> HIDE DEF f
  <2>2. IsFrame(f)
    BY <2>1, WebLinkAssumption
  <2>3. n \in Nat /\ f.payload \in Seq(Byte) /\ x \in Seq(Byte) /\ Len(x) = h + 4 + n
    BY <2>2, FrameWire
  <2>4. h \in {2, 4}
    BY DEF Plain
  <2> HIDE DEF h, n, x
  <2>5. Len(x) \in Nat /\ Len(x) >= 1
    BY <2>3, <2>4
  <2>6. <<>> \in Seq(Byte)
    BY EmptySeq
  <2>7. QED
    BY <2>2, <2>3, <2>5, <2>6 DEF f, x
<1> HIDE DEF L, pay
<1>3. Waves(fs) = [k \in 1 .. L |-> FrameBytes(fs[k])] /\ Pays(fs) = [k \in 1 .. L |-> pay(k)]
  BY DEF Waves, Pays, L, pay
<1>4. Waves(fs) \in [1 .. L -> Seq(Byte)] /\ Pays(fs) \in [1 .. L -> Seq(Byte)]
  BY <1>2, <1>3
<1> DEFINE w == Waves(fs)
           d == Pays(fs)
<1>5. \A k \in 1 .. L : w[k] = FrameBytes(fs[k]) /\ d[k] = pay(k)
  BY <1>3
<1> HIDE DEF w, d
<1>6. w \in Seq(Seq(Byte)) /\ Len(w) = L
  BY <1>1, <1>4, FunctionSeq DEF w
<1>7. d \in Seq(Seq(Byte)) /\ Len(d) = L
  BY <1>1, <1>4, FunctionSeq DEF d
<1>8. ASSUME NEW k \in 1 .. L
      PROVE  Len(w[k]) \in Nat /\ Len(w[k]) >= 1
  BY <1>2, <1>5
<1>9. QED
  BY <1>1, <1>2, <1>5, <1>6, <1>7, <1>8 DEF w, d, L, pay

\* Frames whose headers have one form and one mask, a close last if at all, come out of one read in
\* order, and nothing outside the buffer is touched.
LEMMA ParseRun ==
  ASSUME NEW fs \in Seq(ClientFrames),
         \A k \in 1 .. Len(fs) - 1 : fs[k].op # CLOSE,
         \A k \in 1 .. Len(fs) : Plain(fs[k]) = Plain(fs[1]) /\ fs[k].mask = fs[1].mask,
         Len(FlattenSeq(Waves(fs))) <= BUFF_SIZE
  PROVE  /\ do_parsebuffer(FlattenSeq(Waves(fs))).payloads = FlattenSeq(Pays(fs))
         /\ do_parsebuffer(FlattenSeq(Waves(fs))).inside = TRUE
<1> DEFINE q == Waves(fs)
           d == Pays(fs)
           bytes == FlattenSeq(q)
           L == Len(fs)
           N == Len(bytes)
<1>1. /\ L \in Nat /\ q \in Seq(Seq(Byte)) /\ Len(q) = L /\ d \in Seq(Seq(Byte)) /\ Len(d) = L
      /\ \A k \in 1 .. L : /\ IsFrame(fs[k]) /\ q[k] = FrameBytes(fs[k])
                           /\ d[k] = IF fs[k].op # CLOSE THEN fs[k].payload ELSE <<>>
                           /\ Len(q[k]) \in Nat /\ Len(q[k]) >= 1
  BY RunType
<1> HIDE DEF q, d
<1>2. bytes = Flat(q, L) /\ bytes \in Seq(Byte)
  <2>1. bytes = Flat(q, L)
    BY <1>1, FlatAll
  <2>2. L \in 0 .. Len(q)
    BY <1>1
  <2> HIDE DEF bytes
  <2>3. QED
    BY <1>1, <2>1, <2>2, FlatType
<1>3. \A n \in 0 .. L : Len(Flat(q, n)) \in Nat /\ Len(Flat(q, n)) >= n
  <2>1. \A i \in 1 .. Len(q) : Len(q[i]) >= 1
    BY <1>1
  <2>2. QED
    BY <1>1, <2>1, FramesInBytes
<1>4. PICK f : do_parsebuffer(bytes) = f[N] /\ f[0] = NoneParsed
               /\ \A n \in 1 .. N : f[n] = ParseFrame(bytes, f[n - 1])
  <2> HIDE DEF bytes
  <2>1. QED
    BY <1>2, ParsedIs
<1>5. L > 0 => \A k \in 1 .. 4 : bytes[Plain(fs[1]) + k] = fs[1].mask[k]
  <2> SUFFICES ASSUME L > 0
               PROVE  \A k \in 1 .. 4 : bytes[Plain(fs[1]) + k] = fs[1].mask[k]
    OBVIOUS
  <2> DEFINE x == q[1]
             e == Flat(q, 0)
             h == Plain(fs[1])
             m == Len(fs[1].payload)
  <2>1. 0 \in 0 .. Len(q) - 1 /\ 0 + 1 = 1 /\ 1 \in 1 .. L
    BY <1>1
  <2>2. e \in Seq(Byte) /\ q[0 + 1] \in Seq(Byte) /\ \E rest \in Seq(Byte) :
                FlattenSeq(q) = (e \o q[0 + 1]) \o rest
    BY <1>1, <2>1, FlatPlace
  <2>3. e = <<>>
    BY <1>1, FlatStep
  <2>4. x = FrameBytes(fs[1]) /\ IsFrame(fs[1])
    BY <1>1, <2>1
  <2>5. x \in Seq(Byte) /\ Len(x) = h + 4 + m /\ m \in Nat /\ \A i \in 1 .. 4 : x[h + i] = fs[1].mask[i]
    BY <2>4, FrameWire
  <2>6. h \in {2, 4}
    BY DEF Plain
  <2>7. PICK rest \in Seq(Byte) : bytes = (e \o x) \o rest
    BY <2>1, <2>2
  <2> HIDE DEF h, m, x, e, bytes
  <2>8. \A i \in 1 .. Len(x) : ((e \o x) \o rest)[Len(e) + i] = x[i]
    BY <2>2, <2>5, Surrounded DEF e
  <2>9. Len(e) = 0
    BY <2>3
  <2>10. ASSUME NEW k \in 1 .. 4
         PROVE  bytes[h + k] = fs[1].mask[k]
    <3>1. h + k \in 1 .. Len(x) /\ 0 + (h + k) = h + k
      BY <2>5, <2>6
    <3>2. QED
      BY <2>5, <2>7, <2>8, <2>9, <3>1
  <2>11. QED
    BY <2>10 DEF h, bytes
<1> DEFINE M == IF L > 0 /\ fs[L].op = CLOSE THEN L - 1 ELSE L
<1>6. M \in Nat /\ M <= L /\ (M = L \/ (M = L - 1 /\ L > 0 /\ fs[L].op = CLOSE))
      /\ \A k \in 1 .. M : fs[k].op # CLOSE
  <2>1. \A k \in 1 .. L - 1 : fs[k].op # CLOSE
    OBVIOUS
  <2>2. CASE L > 0 /\ fs[L].op = CLOSE
    BY <1>1, <2>1, <2>2
  <2>3. CASE ~ (L > 0 /\ fs[L].op = CLOSE)
    <3>1. M = L
      BY <2>3
    <3>2. \A k \in 1 .. L : k \in 1 .. L - 1 \/ (k = L /\ L > 0)
      BY <1>1
    <3>3. QED
      BY <1>1, <2>1, <2>3, <3>1, <3>2
  <2>4. QED
    BY <2>2, <2>3
<1> HIDE DEF M, bytes
<1>7. N \in Nat /\ N >= L /\ N = Len(Flat(q, L)) /\ N <= BUFF_SIZE
  <2>1. L \in 0 .. L
    BY <1>1
  <2>2. QED
    BY <1>2, <1>3, <2>1 DEF bytes, q
<1> DEFINE Upto(n) == IF n <= M THEN n ELSE M
           There(n) == [begin |-> Len(Flat(q, Upto(n))), payloads |-> Flat(d, Upto(n)), inside |-> TRUE]
           Good == {n \in Nat : n \in 0 .. N => f[n] = There(n)}
<1>8. There(M) = There(M) /\ ParseFrame(bytes, There(M)) = There(M)
  <2>1. Upto(M) = M
    BY <1>6
  <2>2. CASE M = L
    <3>1. There(M) = [begin |-> Len(bytes), payloads |-> Flat(d, M), inside |-> TRUE]
      BY <1>2, <2>1, <2>2
    <3> HIDE DEF There
    <3>2. QED
      BY <1>2, <3>1, ParseEnd
  <2>3. CASE M = L - 1 /\ L > 0 /\ fs[L].op = CLOSE
    <3> DEFINE a == Flat(q, M)
               g == fs[L]
               x == q[L]
    <3>1. M \in 0 .. Len(q) - 1 /\ M + 1 = L /\ L \in 1 .. L
      BY <1>1, <1>6, <2>3
    <3>2. /\ a \in Seq(Byte) /\ q[M + 1] \in Seq(Byte)
          /\ \E b \in Seq(Byte) : FlattenSeq(q) = (a \o q[M + 1]) \o b
      BY <1>1, <3>1, FlatPlace
    <3>3. IsFrame(g) /\ x = FrameBytes(g)
      BY <1>1, <3>1
    <3>4. PICK b \in Seq(Byte) : bytes = (a \o x) \o b
      BY <3>1, <3>2 DEF bytes
    <3>5. There(M) = [begin |-> Len(a), payloads |-> Flat(d, M), inside |-> TRUE]
      BY <2>1
    <3> HIDE DEF There
    <3> DEFINE ps == Flat(d, M)
    <3> HIDE DEF a, x, g, ps
    <3>6. g.op = CLOSE /\ a \in Seq(Byte) /\ bytes = (a \o FrameBytes(g)) \o b
      BY <2>3, <3>2, <3>3, <3>4 DEF a, g
    <3>7. ParseFrame(bytes, [begin |-> Len(a), payloads |-> ps, inside |-> TRUE])
            = [begin |-> Len(a), payloads |-> ps, inside |-> TRUE]
      BY <3>3, <3>6, ParseClose
    <3>8. QED
      BY <3>5, <3>7 DEF ps
  <2>4. QED
    BY <1>6, <2>2, <2>3
<1>9. ASSUME NEW n \in Nat, \A m \in 0 .. n - 1 : m \in Good
      PROVE  n \in Good
  <2>1. CASE n = 0
    <3>1. Upto(0) = 0
      BY <1>6
    <3>2. Len(Flat(q, 0)) = 0 /\ Flat(d, 0) = <<>>
      BY <1>1, FlatStep, EmptySeq
    <3>3. f[0] = There(0)
      BY <1>4, <3>1, <3>2 DEF NoneParsed
    <3>4. QED
      BY <2>1, <3>3
  <2>2. CASE n # 0 /\ n \in 0 .. N
    <3> DEFINE m == n - 1
    <3>1. m \in Nat /\ m \in 0 .. n - 1 /\ m \in 0 .. N /\ n = m + 1 /\ n \in 1 .. N
      BY <1>7, <2>2
    <3>2. f[m] = There(m)
      BY <1>9, <3>1
    <3>3. f[n] = ParseFrame(bytes, f[m])
      BY <1>4, <3>1
    <3> HIDE DEF m
    <3>4. CASE n <= M
      <4> DEFINE a == Flat(q, m)
                 x == q[n]
                 g == fs[n]
                 ps == Flat(d, m)
      <4>1. m \in 0 .. Len(q) - 1 /\ m \in 0 .. Len(d) - 1 /\ n \in 1 .. L /\ n \in 1 .. M /\ L > 0
            /\ Upto(m) = m /\ Upto(n) = n
        BY <1>1, <1>6, <3>1, <3>4
      <4>2. /\ a \in Seq(Byte) /\ x \in Seq(Byte) /\ Flat(q, n) = a \o x
            /\ \E b \in Seq(Byte) : bytes = (a \o x) \o b
        <5>1. /\ a \in Seq(Byte) /\ q[m + 1] \in Seq(Byte) /\ Flat(q, m + 1) = a \o q[m + 1]
              /\ \E b \in Seq(Byte) : FlattenSeq(q) = (a \o q[m + 1]) \o b
          BY <1>1, <4>1, FlatPlace
        <5> HIDE DEF a
        <5>2. QED
          BY <3>1, <5>1 DEF bytes
      <4>3. Flat(d, n) = ps \o d[n]
        BY <1>1, <3>1, <4>1, FlatStep
      <4>4. IsFrame(g) /\ x = FrameBytes(g) /\ g.op # CLOSE /\ d[n] = g.payload
        BY <1>1, <1>6, <4>1
      <4>5. \A k \in 1 .. 4 : bytes[Plain(g) + k] = g.mask[k]
        BY <1>5, <4>1
      <4>6. f[m] = [begin |-> Len(a), payloads |-> ps, inside |-> TRUE]
        BY <3>2, <4>1
      <4>7. PICK b \in Seq(Byte) : bytes = (a \o x) \o b
        BY <4>2
      <4>8. There(n) = [begin |-> Len(Flat(q, n)), payloads |-> Flat(d, n), inside |-> TRUE]
        BY <4>1
      <4> HIDE DEF There, a, x, g, ps
      <4>9. a \in Seq(Byte) /\ bytes = (a \o FrameBytes(g)) \o b /\ Len(bytes) <= BUFF_SIZE
        BY <1>7, <4>2, <4>4, <4>7
      <4>10. ParseFrame(bytes, [begin |-> Len(a), payloads |-> ps, inside |-> TRUE])
               = [begin |-> Len(a) + Len(FrameBytes(g)), payloads |-> ps \o g.payload, inside |-> TRUE]
        <5>1. IsFrame(g) /\ g.op # CLOSE
          BY <4>4
        <5>2. a \in Seq(Byte)
          BY <4>9
        <5>3. bytes = (a \o FrameBytes(g)) \o b
          BY <4>9
        <5>4. Len(bytes) <= BUFF_SIZE
          BY <4>9
        <5>5. QED
          BY <5>1, <5>2, <5>3, <5>4, <4>5, ParseOne, ZenonT(60)
      <4>11. Len(Flat(q, n)) = Len(a) + Len(x)
        <5>1. a \in Seq(Byte) /\ x \in Seq(Byte)
          BY <4>2
        <5>2. Len(a \o x) = Len(a) + Len(x)
          BY <5>1, ConcatProperties
        <5>3. QED
          BY <4>2, <5>2
      <4>12. f[n] = There(n)
        BY <3>3, <4>3, <4>4, <4>6, <4>8, <4>10, <4>11
      <4>13. QED
        BY <4>12
    <3>5. CASE ~ (n <= M)
      <4>1. Upto(m) = M /\ Upto(n) = M /\ Upto(M) = M
        BY <1>6, <3>1, <3>5
      <4>2. There(n) = There(M) /\ There(m) = There(M)
        BY <4>1
      <4> HIDE DEF There
      <4>3. f[n] = There(n)
        BY <1>8, <3>2, <3>3, <4>2
      <4>4. QED
        BY <4>3
    <3>6. QED
      BY <3>4, <3>5
  <2>3. QED
    BY <2>1, <2>2
<1>10. Nat \subseteq Good
  <2> HIDE DEF Good
  <2>1. QED
    BY <1>9, Induction
<1>11. f[N] = There(N)
  <2>1. N \in Good /\ N \in 0 .. N
    BY <1>7, <1>10
  <2>2. QED
    BY <2>1
<1>12. Upto(N) = M
  BY <1>1, <1>6, <1>7
<1>13. Flat(d, M) = FlattenSeq(d)
  <2>1. FlattenSeq(d) = Flat(d, L)
    BY <1>1, FlatAll
  <2>2. CASE M = L
    BY <2>1, <2>2
  <2>3. CASE M = L - 1 /\ L > 0 /\ fs[L].op = CLOSE
    <3>1. M \in 0 .. Len(d) - 1 /\ M \in 0 .. Len(d) /\ M + 1 = L /\ L \in 1 .. L
      BY <1>1, <1>6, <2>3
    <3>2. Flat(d, L) = Flat(d, M) \o d[L]
      BY <1>1, <3>1, FlatStep
    <3>3. d[L] = <<>>
      BY <1>1, <2>3, <3>1
    <3>4. Flat(d, M) \in Seq(Byte)
      BY <1>1, <3>1, FlatType
    <3> DEFINE ps == Flat(d, M)
    <3> HIDE DEF ps
    <3>5. ps \o <<>> = ps
      <4>1. ps \in Seq(Byte)
        BY <3>4 DEF ps
      <4>2. QED
        BY <4>1, ConcatEmptySeq
    <3>6. QED
      BY <2>1, <3>2, <3>3, <3>5 DEF ps
  <2>4. QED
    BY <1>6, <2>2, <2>3
<1> HIDE DEF Upto
<1>14. do_parsebuffer(bytes).payloads = Flat(d, M) /\ do_parsebuffer(bytes).inside = TRUE
  BY <1>4, <1>11, <1>12
<1>15. QED
  BY <1>13, <1>14 DEF bytes, q, d

-----------------------------------------------------------------------------
(* A clear read.                                                             *)

\* What is joined from place a on, joined to what was joined before it.
LEMMA FlatTail ==
  ASSUME NEW S, NEW w \in Seq(Seq(S)), NEW v \in Seq(Seq(S)), NEW a \in Nat, a + Len(v) <= Len(w),
         \A k \in 1 .. Len(v) : v[k] = w[a + k]
  PROVE  \A k \in 0 .. Len(v) : Flat(w, a + k) = Flat(w, a) \o Flat(v, k)
<1> DEFINE L == Len(v)
           F == Flat(w, a)
           N == {k \in Nat : k \in 0 .. L => Flat(w, a + k) = F \o Flat(v, k)}
<1>1. L \in Nat /\ Len(w) \in Nat /\ a \in 0 .. Len(w) /\ a + 0 = a
  OBVIOUS
<1>2. F \in Seq(S)
  BY <1>1, FlatType
<1>3. Flat(v, 0) = <<>>
  BY FlatStep
<1> HIDE DEF F
<1>4. F \o <<>> = F
  BY <1>2, ConcatEmptySeq
<1>5. ASSUME NEW k \in Nat, \A m \in 0 .. k - 1 : m \in N
      PROVE  k \in N
  <2>1. CASE k = 0
    <3>1. Flat(w, a + 0) = F \o Flat(v, 0)
      BY <1>1, <1>3, <1>4 DEF F
    <3>2. QED
      BY <2>1, <3>1
  <2>2. CASE k # 0 /\ k \in 0 .. L
    <3> DEFINE m == k - 1
    <3>1. m \in Nat /\ m \in 0 .. k - 1 /\ m \in 0 .. L /\ m \in 0 .. L - 1 /\ k = m + 1 /\ k \in 1 .. L
      BY <1>1, <2>2
    <3>2. Flat(w, a + m) = F \o Flat(v, m)
      BY <1>5, <3>1
    <3> HIDE DEF m
    <3> DEFINE p == a + m
    <3>3. p \in 0 .. Len(w) - 1 /\ p + 1 = a + k
      BY <1>1, <3>1
    <3> HIDE DEF p
    <3>4. Flat(w, p + 1) = Flat(w, p) \o w[p + 1]
      BY <3>3, FlatStep
    <3>5. Flat(v, m + 1) = Flat(v, m) \o v[m + 1]
      BY <3>1, FlatStep
    <3>6. v[k] = w[a + k]
      BY <3>1
    <3> DEFINE x == v[k]
               g == Flat(v, m)
    <3>7. x \in Seq(S) /\ g \in Seq(S)
      BY <3>1, ElementOfSeq, FlatType
    <3>8. Flat(v, k) = g \o x /\ Flat(w, a + k) = (F \o g) \o x
      BY <3>1, <3>2, <3>3, <3>4, <3>5, <3>6 DEF p
    <3> HIDE DEF x, g
    <3>9. (F \o g) \o x = F \o (g \o x)
      BY <1>2, <3>7, ConcatAssociative
    <3>10. Flat(w, a + k) = F \o Flat(v, k)
      BY <3>8, <3>9
    <3>11. QED
      BY <3>10
  <2>3. QED
    BY <2>1, <2>2
<1>6. Nat \subseteq N
  <2> HIDE DEF N
  <2>1. QED
    BY <1>5, Induction
<1>7. QED
  BY <1>1, <1>6 DEF F

\* Of sequences none of which is empty, each makes the whole longer.
LEMMA FlatGrows ==
  ASSUME NEW S, NEW q \in Seq(Seq(S)), \A i \in 1 .. Len(q) : Len(q[i]) >= 1
  PROVE  \A i, j \in 0 .. Len(q) : i < j => Len(Flat(q, i)) < Len(Flat(q, j))
<1>1. SUFFICES ASSUME NEW i \in 0 .. Len(q), NEW j \in 0 .. Len(q), i < j
               PROVE  Len(Flat(q, i)) < Len(Flat(q, j))
  OBVIOUS
<1> DEFINE k == i + 1
           e == Flat(q, i)
           x == q[k]
           y == Flat(q, k)
           z == Flat(q, j)
<1>2. i \in 0 .. Len(q) - 1 /\ k \in 0 .. Len(q) /\ k \in 1 .. Len(q) /\ j \in k .. Len(q)
  BY <1>1
<1>3. e \in Seq(S) /\ q[i + 1] \in Seq(S) /\ Flat(q, i + 1) = e \o q[i + 1]
  BY <1>2, FlatPlace
<1>4. Len(x) >= 1
  BY <1>2
<1> HIDE DEF k
<1>5. y \in Seq(S) /\ \E rest \in Seq(S) : z = y \o rest
  BY <1>2, FlatType, FlatSplit
<1>6. e \in Seq(S) /\ x \in Seq(S) /\ y = e \o x
  BY <1>3 DEF k
<1> HIDE DEF e, x, y, z
<1>7. PICK rest \in Seq(S) : z = y \o rest
  BY <1>5
<1>8. Len(y) = Len(e) + Len(x)
  BY <1>6, ConcatProperties
<1>9. Len(z) = Len(y) + Len(rest)
  BY <1>5, <1>7, ConcatProperties
<1>10. Len(e) \in Nat /\ Len(x) \in Nat /\ Len(rest) \in Nat
  BY <1>6, LenProperties
<1>11. QED
  BY <1>4, <1>8, <1>9, <1>10 DEF e, z

\* What of each unit is to be heard.
Meant(u) == IF u.kind = "frame" /\ u.frame.op # CLOSE THEN u.frame.payload ELSE <<>>
Meants(us) == [i \in 1 .. Len(us) |-> Meant(us[i])]

\* Each unit's meaning is bytes.
LEMMA MeantType ==
  ASSUME NEW us, Conversation(us)
  PROVE  /\ us \in Seq(RequestUnits \cup FrameUnits) /\ Len(us) \in Nat
         /\ Meants(us) \in Seq(Seq(Byte)) /\ Len(Meants(us)) = Len(us)
         /\ \A i \in 1 .. Len(us) : Meants(us)[i] = Meant(us[i])
<1>1. us \in Seq(RequestUnits \cup FrameUnits) /\ Len(us) \in Nat
  BY LenProperties DEF Conversation
<1>2. ASSUME NEW i \in 1 .. Len(us)
      PROVE  Meant(us[i]) \in Seq(Byte)
  <2> DEFINE u == us[i]
  <2>1. u \in RequestUnits \/ u \in FrameUnits
    BY DEF Conversation
  <2> HIDE DEF u
  <2>2. <<>> \in Seq(Byte)
    BY EmptySeq
  <2>3. ASSUME u \in FrameUnits
        PROVE  u.frame.payload \in Seq(Byte)
    BY <2>3, UnitIs, FrameWire
  <2>4. ASSUME u \in RequestUnits
        PROVE  u.kind # "frame"
    BY <2>4, UnitIs
  <2>5. QED
    BY <2>1, <2>2, <2>3, <2>4 DEF u, Meant
<1>3. Meants(us) \in Seq(Seq(Byte)) /\ Len(Meants(us)) = Len(us)
  BY <1>1, <1>2, FunctionSeq DEF Meants
<1>4. \A i \in 1 .. Len(us) : Meants(us)[i] = Meant(us[i])
  BY DEF Meants
<1>5. QED
  BY <1>1, <1>3, <1>4

\* What the first i units say.
LEMMA SaidIs ==
  ASSUME NEW us, Conversation(us)
  PROVE  \A i \in 0 .. Len(us) : Said(SubSeq(us, 1, i)) = Flat(Meants(us), i)
<1> DEFINE U == RequestUnits \cup FrameUnits
           w == Meants(us)
           N == Len(us)
<1>1. /\ us \in Seq(U) /\ N \in Nat /\ w \in Seq(Seq(Byte)) /\ Len(w) = N
      /\ \A i \in 1 .. N : w[i] = Meant(us[i])
  BY MeantType
<1> HIDE DEF w, U
<1>2. ASSUME NEW i \in 0 .. N
      PROVE  Said(SubSeq(us, 1, i)) = Flat(w, i)
  <2> DEFINE s == SubSeq(us, 1, i)
             t == SubSeq(w, 1, i)
             v == [k \in DOMAIN s |-> Meant(s[k])]
  <2>0. i \in 0 .. Len(w)
    BY <1>1
  <2>1. s \in Seq(U) /\ Len(s) = i /\ \A k \in 1 .. i : s[k] = us[k]
    BY <1>1, FirstAndRest
  <2>2. t \in Seq(Seq(Byte)) /\ Len(t) = i /\ \A k \in 1 .. i : t[k] = w[k]
    BY <1>1, <2>0, FirstAndRest
  <2> HIDE DEF s, t
  <2>3. DOMAIN s = 1 .. i
    BY <2>1, LenProperties
  <2>4. ASSUME NEW k \in 1 .. i
        PROVE  Meant(s[k]) = t[k]
    <3>1. k \in 1 .. N
      BY <1>1
    <3>2. QED
      BY <1>1, <2>1, <2>2, <3>1
  <2>5. v = [k \in 1 .. i |-> t[k]]
    BY <2>3, <2>4
  <2>6. t = [k \in 1 .. i |-> t[k]]
    <3>1. t \in [1 .. Len(t) -> Seq(Byte)]
      BY <2>2, LenProperties
    <3>2. t \in [1 .. i -> Seq(Byte)]
      BY <2>2, <3>1
    <3>3. QED
      BY <3>2
  <2>7. v = t
    BY <2>5, <2>6
  <2>8. Said(s) = FlattenSeq(v)
    BY DEF Said, Meant
  <2>9. Flat(w, i) = FlattenSeq(t)
    BY DEF Flat, t
  <2>10. QED
    BY <2>7, <2>8, <2>9 DEF s
<1>3. QED
  BY <1>2 DEF w

\* A request is seen to be one.
LEMMA RequestSeen ==
  ASSUME NEW r, IsRequest(r)
  PROVE  LooksLikeRequest(r.text)
<1> DEFINE t == r.text
           m == Len(t) - 3
<1>1. t \in Seq(Byte \ {0}) /\ Len(t) > 4 /\ SubSeq(t, Len(t) - 3, Len(t)) = Blank
  BY DEF IsRequest
<1> HIDE DEF t
<1>2. DOMAIN t = 1 .. Len(t) /\ Len(t) \in Nat
  BY <1>1, LenProperties
<1>3. {i \in DOMAIN t : t[i] = 0} = {}
  <2>1. \A i \in 1 .. Len(t) : t[i] \in Byte \ {0}
    BY <1>1, ElementOfSeq
  <2>2. QED
    BY <1>2, <2>1
<1>4. AsString(t) = t
  BY <1>3 DEF AsString
<1>5. m \in 1 .. Len(t) - 3 /\ m + 3 = Len(t)
  BY <1>1, <1>2
<1>6. SubSeq(t, m, m + 3) = Blank
  BY <1>1, <1>5
<1> HIDE DEF m
<1>7. LooksLikeRequest(t)
  BY <1>4, <1>5, <1>6 DEF LooksLikeRequest
<1>8. QED
  BY <1>7 DEF t

\* The frames that follow the first a units, up to the first b.
FramesOf(us, a, b) == [k \in 1 .. b - a |-> us[a + k].frame]

\* They have the bytes and the meaning of their units, and a close frame can only be the last.
LEMMA FramesOfType ==
  ASSUME NEW us, Conversation(us), NEW a \in 1 .. Len(us), NEW b \in a .. Len(us)
  PROVE  LET fs == FramesOf(us, a, b)
         IN  /\ fs \in Seq(ClientFrames) /\ Len(fs) = b - a
             /\ \A k \in 1 .. b - a : /\ fs[k] = us[a + k].frame
                                      /\ Waves(fs)[k] = Wire(us)[a + k]
                                      /\ Pays(fs)[k] = Meants(us)[a + k]
             /\ \A k \in 1 .. b - a - 1 : fs[k].op # CLOSE
<1> DEFINE fs == FramesOf(us, a, b)
           n == b - a
<1>1. Len(us) \in Nat /\ a \in Nat /\ b \in Nat /\ n \in Nat /\ a >= 1 /\ a + n = b
  <2>1. Len(us) \in Nat
    BY StreamIs
  <2>2. QED
    BY <2>1
<1>2. ASSUME NEW k \in 1 .. n
      PROVE  /\ a + k \in 2 .. Len(us) /\ a + k \in 1 .. Len(us) /\ us[a + k] \in FrameUnits
             /\ us[a + k].frame \in ClientFrames
             /\ k <= n - 1 => us[a + k].frame.op # CLOSE
  <2> DEFINE i == a + k
  <2>1. i \in 2 .. Len(us) /\ i \in 1 .. Len(us) /\ i # 1 /\ (k <= n - 1 => i \in 2 .. Len(us) - 1)
    BY <1>1
  <2> HIDE DEF i
  <2>2. us[i] \in FrameUnits /\ (i \in 2 .. Len(us) - 1 => us[i].frame.op # CLOSE)
    BY <2>1 DEF Conversation
  <2>3. us[i].frame \in ClientFrames
    BY <2>2, UnitIs
  <2>4. QED
    BY <2>1, <2>2, <2>3 DEF i
<1>3. fs = [k \in 1 .. n |-> us[a + k].frame]
  BY DEF FramesOf
<1>4. fs \in [1 .. n -> ClientFrames] /\ \A k \in 1 .. n : fs[k] = us[a + k].frame
  BY <1>2, <1>3
<1> HIDE DEF fs, n
<1>5. fs \in Seq(ClientFrames) /\ Len(fs) = n
  BY <1>1, <1>4, FunctionSeq
<1>6. ASSUME NEW k \in 1 .. n
      PROVE  Waves(fs)[k] = Wire(us)[a + k] /\ Pays(fs)[k] = Meants(us)[a + k]
  <2> DEFINE i == a + k
  <2>1. i \in 1 .. Len(us) /\ us[i] \in FrameUnits /\ fs[k] = us[i].frame
    BY <1>2, <1>4
  <2> HIDE DEF i
  <2>2. Wire(us)[i] = UnitBytes(us[i]) /\ Meants(us)[i] = Meant(us[i])
    BY <2>1, StreamIs, MeantType
  <2>3. us[i].kind = "frame" /\ UnitBytes(us[i]) = FrameBytes(us[i].frame)
    BY <2>1, UnitIs
  <2>4. k \in 1 .. Len(fs)
    BY <1>5
  <2>5. Waves(fs)[k] = FrameBytes(fs[k]) /\ Pays(fs)[k] = IF fs[k].op # CLOSE THEN fs[k].payload ELSE <<>>
    BY <1>5, <2>4, RunType
  <2>6. QED
    BY <2>1, <2>2, <2>3, <2>5 DEF i, Meant
<1>7. ASSUME NEW k \in 1 .. n - 1
      PROVE  fs[k].op # CLOSE
  <2>1. k \in 1 .. n /\ k <= n - 1
    BY <1>1
  <2>2. QED
    BY <1>2, <1>4, <2>1
<1>8. QED
  BY <1>4, <1>5, <1>6, <1>7 DEF fs, n

\* The units' ends are apart: none of them is empty.
LEMMA EndsApart ==
  ASSUME NEW us, Conversation(us)
  PROVE  \A i, j \in 0 .. Len(us) :
           /\ i < j => Len(Flat(Wire(us), i)) < Len(Flat(Wire(us), j))
           /\ Len(Flat(Wire(us), i)) = Len(Flat(Wire(us), j)) => i = j
<1> DEFINE w == Wire(us)
           N == Len(us)
           E(i) == Len(Flat(w, i))
<1>1. /\ w \in Seq(Seq(Byte)) /\ Len(w) = N /\ N \in Nat
      /\ \A i \in 1 .. N : w[i] = UnitBytes(us[i])
  BY StreamIs
<1>2. ASSUME NEW i \in 1 .. Len(w)
      PROVE  Len(w[i]) >= 1
  <2> DEFINE u == us[i]
             f == u.frame
             x == FrameBytes(f)
  <2>1. w[i] = UnitBytes(u) /\ (u \in RequestUnits \/ u \in FrameUnits)
    BY <1>1 DEF Conversation
  <2> HIDE DEF u
  <2>2. CASE u \in RequestUnits
    <3>1. UnitBytes(u) = u.text /\ IsRequest(u)
      BY <2>2, UnitIs
    <3>2. Len(u.text) > 4 /\ Len(u.text) \in Nat
      BY <3>1, LenProperties DEF IsRequest
    <3>3. Len(u.text) >= 1
      BY <3>2
    <3>4. QED
      BY <2>1, <3>1, <3>3
  <2>3. CASE u \in FrameUnits
    <3> DEFINE m == Len(f.payload)
               h == Plain(f)
    <3>1. UnitBytes(u) = x /\ IsFrame(f)
      BY <2>3, UnitIs
    <3>2. m \in Nat /\ Len(x) = h + 4 + m
      BY <3>1, FrameWire
    <3>3. h \in {2, 4}
      BY DEF Plain
    <3> HIDE DEF h, m, x, f
    <3>4. Len(x) >= 1
      BY <3>2, <3>3
    <3>5. QED
      BY <2>1, <3>1, <3>4
  <2>4. QED
    BY <2>1, <2>2, <2>3
<1> HIDE DEF w
<1>3. \A i, j \in 0 .. Len(w) : i < j => Len(Flat(w, i)) < Len(Flat(w, j))
  BY <1>1, <1>2, FlatGrows
<1>4. \A i \in 0 .. N : E(i) \in Nat
  <2>1. \A i \in 0 .. Len(w) : Flat(w, i) \in Seq(Byte)
    BY <1>1, FlatType
  <2>2. ASSUME NEW i \in 0 .. N
        PROVE  E(i) \in Nat
    <3> DEFINE x == Flat(w, i)
    <3>1. x \in Seq(Byte)
      BY <1>1, <2>1
    <3> HIDE DEF x
    <3>2. Len(x) \in Nat
      BY <3>1, LenProperties
    <3>3. QED
      BY <3>2 DEF x
  <2>3. QED
    BY <2>2
<1>5. \A i, j \in 0 .. N : i < j => E(i) < E(j)
  BY <1>1, <1>3
<1> HIDE DEF E
<1>6. \A i, j \in 0 .. N : E(i) = E(j) => i = j
  <2> SUFFICES ASSUME NEW i \in 0 .. N, NEW j \in 0 .. N, E(i) = E(j), i # j
               PROVE  FALSE
    OBVIOUS
  <2>1. E(i) \in Nat /\ E(j) \in Nat /\ (i < j => E(i) < E(j)) /\ (j < i => E(j) < E(i))
    BY <1>4, <1>5
  <2>2. i < j \/ j < i
    BY <1>1
  <2>3. QED
    BY <2>1, <2>2
<1>7. QED
  BY <1>5, <1>6 DEF w, E

\* A clear read that is not the request takes whole frames, and what do_parsebuffer hands on is what
\* they say.
LEMMA ClearFrames ==
  ASSUME WebType, Unread, NEW n \in 1 .. BUFF_SIZE - 1, Take(n), blurs' = 0,
         ~ LooksLikeRequest(Arrives(n))
  PROVE  \E a, b \in 0 .. Len(units) :
           /\ taken = Len(Flat(Wire(units), a)) /\ taken + n = Len(Flat(Wire(units), b))
           /\ do_parsebuffer(Arrives(n)).inside = TRUE
           /\ do_parsebuffer(Arrives(n)).payloads \in Seq(Byte)
           /\ Flat(Meants(units), b) = Flat(Meants(units), a) \o do_parsebuffer(Arrives(n)).payloads
<1> DEFINE w == Wire(units)
           d == Meants(units)
           N == Len(units)
<1>1. /\ Conversation(units) /\ w \in Seq(Seq(Byte)) /\ Len(w) = N /\ N \in Nat
      /\ d \in Seq(Seq(Byte)) /\ Len(d) = N
      /\ \A i \in 1 .. N : w[i] = UnitBytes(units[i])
  BY StreamIs, MeantType DEF WebType
<1>2. \A i \in 0 .. N : EndOf(i) = Len(Flat(w, i)) /\ EndOf(i) \in Nat
  BY <1>1, EndIs
<1>3. n \in Nat /\ n >= 1 /\ n <= BUFF_SIZE
  <2>1. BUFF_SIZE \in Nat
    <3> DEFINE bb == Base * Base
    <3>1. bb \in Nat
      BY Sizes, ProductType
    <3>2. BUFF_SIZE \in 7 .. bb
      BY WebLinkAssumption
    <3> HIDE DEF bb
    <3>3. QED
      BY <3>1, <3>2
  <2>2. QED
    BY <2>1
<1>4. Clear(taken, taken + n)
  BY <1>3, ClearRead
<1>5. {taken, taken + n} \subseteq {EndOf(i) : i \in 0 .. N}
  BY <1>4 DEF Clear
<1>6. PICK a \in 0 .. N : taken = EndOf(a)
  BY <1>5
<1>7. PICK b \in 0 .. N : taken + n = EndOf(b)
  BY <1>5
<1>8. \A i, j \in 0 .. N : i < j => EndOf(i) < EndOf(j)
  BY <1>1, <1>2, EndsApart
<1> HIDE DEF w, d
<1>9. a < b
  <2>1. taken \in Nat /\ EndOf(a) < EndOf(b)
    BY <1>2, <1>3, <1>6, <1>7
  <2>2. ~ (b < a) /\ b # a
    <3>1. EndOf(a) \in Nat /\ EndOf(b) \in Nat
      BY <1>2
    <3>2. b < a => EndOf(b) < EndOf(a)
      BY <1>8
    <3>3. QED
      BY <2>1, <3>1, <3>2
  <2>3. QED
    BY <1>1, <2>2
<1>10. taken \in Nat /\ taken + n <= Len(StreamOf(units)) /\ StreamOf(units) = Flat(w, N)
       /\ Arrives(n) = SubSeq(StreamOf(units), taken + 1, taken + n)
  <2>1. taken \in Nat
    BY <1>2, <1>6
  <2>2. StreamOf(units) = Flat(w, N)
    BY <1>1, StreamIs DEF w
  <2>3. QED
    BY <2>1, <2>2 DEF Take, Arrives
<1>11. a >= 1
  <2> SUFFICES ASSUME a = 0
               PROVE  FALSE
    BY <1>1
  <2>1. Flat(w, 0) = <<>>
    BY <1>1, FlatStep
  <2>2. taken = 0
    BY <1>2, <1>6, <2>1
  <2>3. N <= 1 /\ b = 1 /\ N = 1
    BY <1>1, <1>9, <2>2 DEF Unread
  <2> DEFINE t == units[1].text
             u == units[1]
  <2>4. u \in RequestUnits
    BY <1>1, <2>3 DEF Conversation
  <2>5. IsRequest(u) /\ UnitBytes(u) = t /\ t \in Seq(Byte)
    BY <2>4, UnitIs
  <2>6. w[1] = t
    BY <1>1, <2>3, <2>5
  <2> HIDE DEF t
  <2>7. Flat(w, 0 + 1) = Flat(w, 0) \o w[0 + 1]
    <3>1. 0 \in 0 .. Len(w) - 1
      BY <1>1, <2>3
    <3>2. QED
      BY <1>1, <3>1, FlatStep
  <2>8. 0 + 1 = 1
    OBVIOUS
  <2>9. <<>> \o t = t
    BY <2>5, ConcatEmptySeq
  <2>10. Flat(w, 1) = t
    BY <2>1, <2>6, <2>7, <2>8, <2>9
  <2>11. taken + n = Len(t) /\ StreamOf(units) = t /\ 0 + n = n /\ 0 + 1 = 1
    BY <1>2, <1>3, <1>7, <1>10, <2>3, <2>10
  <2>12. Arrives(n) = SubSeq(t, 1, Len(t))
    BY <1>3, <1>10, <2>2, <2>11
  <2>13. SubSeq(t, 1, Len(t)) = t
    BY <2>5, SubSeqFull
  <2>14. LooksLikeRequest(t)
    BY <2>5, RequestSeen DEF t
  <2>15. QED
    BY <2>12, <2>13, <2>14
<1> DEFINE fs == FramesOf(units, a, b)
           m == b - a
           ws == Waves(fs)
           ds == Pays(fs)
<1>12. a \in 1 .. N /\ b \in a .. N /\ m \in Nat /\ m >= 1 /\ a + m = b
  BY <1>1, <1>9, <1>11
<1>13. /\ fs \in Seq(ClientFrames) /\ Len(fs) = m
       /\ \A k \in 1 .. m : fs[k] = units[a + k].frame /\ ws[k] = w[a + k] /\ ds[k] = d[a + k]
       /\ \A k \in 1 .. m - 1 : fs[k].op # CLOSE
  <2>1. Conversation(units) /\ a \in 1 .. Len(units) /\ b \in a .. Len(units)
    BY <1>1, <1>12
  <2> HIDE DEF m, ws, ds, fs
  <2>2. LET g == FramesOf(units, a, b)
        IN  /\ g \in Seq(ClientFrames) /\ Len(g) = b - a
            /\ \A k \in 1 .. b - a : /\ g[k] = units[a + k].frame
                                     /\ Waves(g)[k] = Wire(units)[a + k]
                                     /\ Pays(g)[k] = Meants(units)[a + k]
            /\ \A k \in 1 .. b - a - 1 : g[k].op # CLOSE
    BY <2>1, FramesOfType
  <2>3. QED
    BY <2>2 DEF w, d, m, ws, ds, fs
<1> HIDE DEF fs
<1>14. ws \in Seq(Seq(Byte)) /\ Len(ws) = m /\ ds \in Seq(Seq(Byte)) /\ Len(ds) = m
       /\ \A k \in 1 .. m : IsFrame(fs[k])
  BY <1>13, RunType
<1> HIDE DEF ws, ds, m
<1>15. FlattenSeq(ws) = Flat(ws, m) /\ FlattenSeq(ds) = Flat(ds, m)
       /\ Flat(ws, m) \in Seq(Byte) /\ Flat(ds, m) \in Seq(Byte)
  <2>1. m \in 0 .. Len(ws) /\ m \in 0 .. Len(ds)
    BY <1>12, <1>14
  <2>2. QED
    BY <1>14, <2>1, FlatAll, FlatType
<1>16. Flat(w, b) = Flat(w, a) \o Flat(ws, m) /\ Flat(d, b) = Flat(d, a) \o Flat(ds, m)
  <2>1. a \in Nat /\ a + Len(ws) <= Len(w) /\ a + Len(ds) <= Len(d) /\ m \in 0 .. Len(ws)
        /\ m \in 0 .. Len(ds)
    BY <1>1, <1>12, <1>14
  <2>2. \A k \in 1 .. Len(ws) : ws[k] = w[a + k]
    BY <1>13, <1>14
  <2>3. \A k \in 1 .. Len(ds) : ds[k] = d[a + k]
    BY <1>13, <1>14
  <2>4. Flat(w, a + m) = Flat(w, a) \o Flat(ws, m)
    <3>1. w \in Seq(Seq(Byte)) /\ ws \in Seq(Seq(Byte)) /\ a \in Nat /\ a + Len(ws) <= Len(w)
      BY <1>1, <1>14, <2>1
    <3>2. \A k \in 0 .. Len(ws) : Flat(w, a + k) = Flat(w, a) \o Flat(ws, k)
      BY <2>2, <3>1, FlatTail
    <3>3. QED
      BY <2>1, <3>2
  <2>5. Flat(d, a + m) = Flat(d, a) \o Flat(ds, m)
    <3>1. d \in Seq(Seq(Byte)) /\ ds \in Seq(Seq(Byte)) /\ a \in Nat /\ a + Len(ds) <= Len(d)
      BY <1>1, <1>14, <2>1
    <3>2. \A k \in 0 .. Len(ds) : Flat(d, a + k) = Flat(d, a) \o Flat(ds, k)
      BY <2>3, <3>1, FlatTail
    <3>3. QED
      BY <2>1, <3>2
  <2>6. QED
    BY <1>12, <2>4, <2>5
<1>17. Arrives(n) = Flat(ws, m)
  <2> DEFINE e == Flat(w, a)
             x == Flat(ws, m)
             y == Flat(w, b)
             s == Flat(w, N)
  <2>1. e \in Seq(Byte) /\ x \in Seq(Byte) /\ y = e \o x
    BY <1>1, <1>15, <1>16, FlatType
  <2>2. \E rest \in Seq(Byte) : s = y \o rest
    <3>1. b \in 0 .. Len(w) /\ N \in b .. Len(w)
      BY <1>1
    <3>2. QED
      BY <1>1, <3>1, FlatSplit
  <2>3. Len(e) = taken /\ Len(y) = taken + n /\ Arrives(n) = SubSeq(s, taken + 1, taken + n)
    BY <1>2, <1>6, <1>7, <1>10
  <2> HIDE DEF e, x, y, s
  <2>4. PICK rest \in Seq(Byte) : s = y \o rest
    BY <2>2
  <2>5. /\ (e \o x) \o rest \in Seq(Byte)
        /\ Len((e \o x) \o rest) = Len(e) + Len(x) + Len(rest)
        /\ \A i \in 1 .. Len(x) : ((e \o x) \o rest)[Len(e) + i] = x[i]
    BY <2>1, Surrounded
  <2>6. Len(y) = Len(e) + Len(x)
    BY <2>1, ConcatProperties
  <2>7. Len(x) \in Nat /\ Len(rest) \in Nat
    BY <2>1, LenProperties
  <2>8. Len(x) = n
    BY <1>3, <1>10, <2>3, <2>6, <2>7
  <2>9. s \in Seq(Byte) /\ taken + Len(x) <= Len(s) /\ \A i \in 1 .. Len(x) : s[taken + i] = x[i]
    BY <1>10, <2>1, <2>3, <2>4, <2>5, <2>7
  <2>10. SubSeq(s, taken + 1, taken + Len(x)) = x
    BY <1>10, <2>1, <2>9, SubSeqIs
  <2>11. QED
    BY <2>3, <2>8, <2>10 DEF x
<1>18. \A k \in 1 .. m : Plain(fs[k]) = Plain(fs[1]) /\ fs[k].mask = fs[1].mask
  <2> SUFFICES ASSUME NEW k \in 1 .. m
               PROVE  Plain(fs[k]) = Plain(fs[1]) /\ fs[k].mask = fs[1].mask
    OBVIOUS
  <2> DEFINE within == {i \in DOMAIN units : EndOf(i - 1) >= taken /\ EndOf(i) <= taken + n}
             head(f) == <<FrameHead(1, 0, 0, Len(f.payload))[2] = Ext16, f.mask>>
  <2>1. \A i, j \in within \ {1} : head(units[i].frame) = head(units[j].frame)
    BY <1>4 DEF Clear
  <2>2. ASSUME NEW l \in 1 .. m
        PROVE  a + l \in within \ {1}
    <3> DEFINE i == a + l
               i0 == i - 1
    <3>1. i \in 1 .. N /\ i0 \in 0 .. N /\ i \in 0 .. N /\ i # 1 /\ i0 >= a /\ i <= b
      BY <1>1, <1>12
    <3>2. DOMAIN units = 1 .. N
      <4>1. units \in Seq(RequestUnits \cup FrameUnits)
        BY <1>1 DEF Conversation
      <4>2. QED
        BY <4>1, LenProperties
    <3> HIDE DEF i0, i
    <3>3. EndOf(i0) >= EndOf(a)
      <4>1. a < i0 => EndOf(a) < EndOf(i0)
        BY <1>8, <3>1
      <4>2. EndOf(a) \in Nat /\ EndOf(i0) \in Nat
        BY <1>2, <3>1
      <4>3. i0 = a => EndOf(i0) = EndOf(a)
        OBVIOUS
      <4>4. i0 = a \/ a < i0
        BY <3>1
      <4>5. QED
        BY <4>1, <4>2, <4>3, <4>4
    <3>4. EndOf(i) <= EndOf(b)
      <4>1. i < b => EndOf(i) < EndOf(b)
        BY <1>8, <3>1
      <4>2. EndOf(i) \in Nat /\ EndOf(b) \in Nat
        BY <1>2, <3>1
      <4>3. i = b => EndOf(i) = EndOf(b)
        OBVIOUS
      <4>4. i = b \/ i < b
        BY <3>1
      <4>5. QED
        BY <4>1, <4>2, <4>3, <4>4
    <3>5. QED
      BY <1>6, <1>7, <3>1, <3>2, <3>3, <3>4 DEF i, i0
  <2>3. 1 \in 1 .. m
    BY <1>12
  <2>4. head(units[a + k].frame) = head(units[a + 1].frame)
    BY <2>1, <2>2, <2>3
  <2>5. fs[k] = units[a + k].frame /\ fs[1] = units[a + 1].frame /\ IsFrame(fs[k]) /\ IsFrame(fs[1])
    BY <1>13, <1>14, <2>3
  <2> DEFINE f == fs[k]
             g == fs[1]
  <2>6. head(f) = head(g)
    BY <2>4, <2>5
  <2>7. IsFrame(f) /\ IsFrame(g)
    BY <2>5
  <2> HIDE DEF f, g
  <2>8. Plain(f) = Plain(g) /\ f.mask = g.mask
    BY <2>6, <2>7, SameHead
  <2>9. QED
    BY <2>8 DEF f, g
<1>19. Len(FlattenSeq(Waves(fs))) <= BUFF_SIZE
  <2>1. Len(Arrives(n)) = n
    BY <1>3, ArrivesType
  <2>2. QED
    BY <1>3, <1>15, <1>17, <2>1 DEF ws
<1>20. /\ do_parsebuffer(FlattenSeq(Waves(fs))).payloads = FlattenSeq(Pays(fs))
       /\ do_parsebuffer(FlattenSeq(Waves(fs))).inside = TRUE
  <2>1. \A k \in 1 .. Len(fs) - 1 : fs[k].op # CLOSE
    BY <1>13
  <2>2. \A k \in 1 .. Len(fs) : Plain(fs[k]) = Plain(fs[1]) /\ fs[k].mask = fs[1].mask
    BY <1>13, <1>18
  <2>3. fs \in Seq(ClientFrames)
    BY <1>13
  <2>4. QED
    BY <1>19, <2>1, <2>2, <2>3, ParseRun
<1>21. do_parsebuffer(Arrives(n)).payloads = Flat(ds, m) /\ do_parsebuffer(Arrives(n)).inside = TRUE
  BY <1>15, <1>17, <1>20 DEF ws, ds
<1>22. taken = Len(Flat(w, a)) /\ taken + n = Len(Flat(w, b))
  BY <1>2, <1>6, <1>7
<1>23. QED
  BY <1>15, <1>16, <1>21, <1>22 DEF w, d

\* A message whose packaging overruns is too long for the buffer.
LEMMA Blamed ==
  ASSUME NEW p \in Seq(Nat), PackagingOverruns(p)
  PROVE  Len(p) + 4 > BUFF_SIZE
<1> DEFINE n == Len(p)
           bb == Base * Base
           x == packageMsgForWebsocket(p)
           h == IF n < Ext16 THEN 2 ELSE 4
<1>1. n \in Nat /\ bb \in Nat /\ BUFF_SIZE \in 7 .. bb
  BY Sizes, ProductType, WebLinkAssumption
<1>2. CASE n < bb
  <2>1. LengthForm(n) # "endless"
    BY <1>2 DEF LengthForm
  <2>2. Len(x) > BUFF_SIZE
    BY <2>1 DEF PackagingOverruns
  <2>3. Len(x) = h + n
    BY <1>2, SentFrame
  <2> HIDE DEF x, n, bb
  <2>4. QED
    BY <1>1, <2>2, <2>3 DEF n
<1>3. CASE ~ (n < bb)
  <2> HIDE DEF n, bb
  <2>1. n + 4 > BUFF_SIZE
    BY <1>1, <1>3
  <2>2. QED
    BY <2>1 DEF n
<1>4. QED
  BY <1>2, <1>3

\* HeardAsSaid, over the units' beginnings.
HeardSoFar ==
  \E i \in 0 .. Len(units) :
    /\ taken = Len(Flat(Wire(units), i))
    /\ fate = "running" => heard = Flat(Meants(units), i)

\* Memory outside a buffer is touched by a message too long for it, and by nothing that was read.
Excused == fate = "undefined" => \E m \in Range(messages) : Len(m) + 4 > BUFF_SIZE

\* The two together, for a connection whose reads are clear.
Heard == blurs = 0 => HeardSoFar /\ Excused

\* They are what HeardAsSaid says.
LEMMA HeardIs ==
  ASSUME Conversation(units), Heard
  PROVE  HeardAsSaid
<1>1. ASSUME blurs = 0
      PROVE  /\ \E i \in 0 .. Len(units) :
                  /\ taken = EndOf(i)
                  /\ fate = "running" => heard = Said(SubSeq(units, 1, i))
             /\ fate = "undefined" => \E m \in Range(messages) : Len(m) + 4 > BUFF_SIZE
  <2>1. PICK i \in 0 .. Len(units) :
               /\ taken = Len(Flat(Wire(units), i))
               /\ fate = "running" => heard = Flat(Meants(units), i)
    BY <1>1 DEF Heard, HeardSoFar
  <2>2. EndOf(i) = Len(Flat(Wire(units), i))
    BY EndIs
  <2>3. Said(SubSeq(units, 1, i)) = Flat(Meants(units), i)
    BY SaidIs
  <2>4. QED
    BY <1>1, <2>1, <2>2, <2>3 DEF Heard, Excused
<1>2. QED
  BY <1>1 DEF HeardAsSaid

\* Before the first unit there are no bytes, and nothing was said.
LEMMA NoneYet ==
  ASSUME NEW us, Conversation(us)
  PROVE  Flat(Wire(us), 0) = <<>> /\ Flat(Meants(us), 0) = <<>> /\ 0 \in 0 .. Len(us)
<1>1. Wire(us) \in Seq(Seq(Byte)) /\ Meants(us) \in Seq(Seq(Byte)) /\ Len(us) \in Nat
  BY StreamIs, MeantType
<1>2. QED
  BY <1>1, FlatStep

\* Nothing was taken, and nothing heard.
LEMMA HeardInit ==
  Init => Heard
<1> SUFFICES ASSUME Init PROVE HeardSoFar /\ Excused
  BY DEF Heard
<1>1. Conversation(units)
  BY WebTypeInit DEF WebType
<1>2. Flat(Wire(units), 0) = <<>> /\ Flat(Meants(units), 0) = <<>> /\ 0 \in 0 .. Len(units)
  BY <1>1, NoneYet
<1>3. taken = 0 /\ heard = <<>> /\ fate = "running"
  BY DEF Init
<1>4. QED
  BY <1>2, <1>3 DEF HeardSoFar, Excused

\* Units sent after the first i leave alone what those were and said.
LEMMA SameSoFar ==
  ASSUME NEW us, Conversation(us), NEW vs, Conversation(vs), NEW i \in 0 .. Len(us), i <= Len(vs),
         \A k \in 1 .. i : vs[k] = us[k]
  PROVE  Flat(Wire(vs), i) = Flat(Wire(us), i) /\ Flat(Meants(vs), i) = Flat(Meants(us), i)
<1> DEFINE w == Wire(us)
           x == Wire(vs)
           d == Meants(us)
           e == Meants(vs)
<1>1. /\ w \in Seq(Seq(Byte)) /\ Len(w) = Len(us) /\ Len(us) \in Nat
      /\ d \in Seq(Seq(Byte)) /\ Len(d) = Len(us)
      /\ \A k \in 1 .. Len(us) : w[k] = UnitBytes(us[k]) /\ d[k] = Meant(us[k])
  BY StreamIs, MeantType
<1>2. /\ x \in Seq(Seq(Byte)) /\ Len(x) = Len(vs) /\ Len(vs) \in Nat
      /\ e \in Seq(Seq(Byte)) /\ Len(e) = Len(vs)
      /\ \A k \in 1 .. Len(vs) : x[k] = UnitBytes(vs[k]) /\ e[k] = Meant(vs[k])
  BY StreamIs, MeantType
<1> HIDE DEF w, x, d, e
<1>3. ASSUME NEW k \in 1 .. i
      PROVE  x[k] = w[k] /\ e[k] = d[k]
  <2>1. k \in 1 .. Len(us) /\ k \in 1 .. Len(vs) /\ vs[k] = us[k]
    BY <1>1, <1>2
  <2>2. QED
    BY <1>1, <1>2, <2>1
<1>4. i \in 0 .. Len(w) /\ i <= Len(x) /\ i \in 0 .. Len(d) /\ i <= Len(e)
  BY <1>1, <1>2
<1>5. Flat(x, i) = Flat(w, i)
  BY <1>1, <1>2, <1>3, <1>4, FlatAgree
<1>6. Flat(e, i) = Flat(d, i)
  BY <1>1, <1>2, <1>3, <1>4, FlatAgree
<1>7. QED
  BY <1>5, <1>6 DEF w, x, d, e

\* Every step keeps it: a handshake takes a request, which says nothing, and a read of frames hands on
\* what ParseRun says it does.
LEMMA HeardStep ==
  WebType /\ Unread /\ Heard /\ [Next]_vars => Heard'
<1> SUFFICES ASSUME WebType, Unread, Heard, [Next]_vars, blurs' = 0
             PROVE  HeardSoFar' /\ Excused'
  BY DEF Heard
<1>1. Conversation(units) /\ Conversation(units') /\ Len(units) \in Nat
  <2>1. WebType'
    BY WebTypeStep
  <2>2. QED
    BY <2>1, StreamIs DEF WebType
<1>2. CASE Ask
  <2>1. units = <<>> /\ taken = 0 /\ blurs = 0 /\ taken' = taken /\ heard' = heard /\ fate' = fate
        /\ messages' = messages
    BY <1>2, NothingSent DEF Ask
  <2>2. HeardSoFar /\ Excused
    BY <2>1 DEF Heard
  <2>3. Flat(Wire(units), 0) = <<>> /\ Flat(Meants(units), 0) = <<>>
    BY <1>1, NoneYet
  <2>4. fate = "running" => heard = <<>>
    <3>1. \A i \in 0 .. Len(units) : i = 0
      BY <2>1
    <3>2. QED
      BY <2>2, <2>3, <3>1 DEF HeardSoFar
  <2>5. Flat(Wire(units'), 0) = <<>> /\ Flat(Meants(units'), 0) = <<>> /\ 0 \in 0 .. Len(units')
    BY <1>1, NoneYet
  <2>6. HeardSoFar'
    BY <2>1, <2>4, <2>5 DEF HeardSoFar
  <2>7. QED
    BY <2>1, <2>2, <2>6 DEF Excused
<1>3. CASE SendFrame
  <2>1. Opened /\ blurs = 0 /\ taken' = taken /\ heard' = heard /\ fate' = fate /\ messages' = messages
    BY <1>3 DEF SendFrame
  <2>2. PICK f \in ClientFrames : units' = Append(units, [kind |-> "frame", frame |-> f])
    BY <1>3 DEF SendFrame
  <2>3. /\ units # <<>> /\ \A i \in 2 .. Len(units) : units[i].frame.op # CLOSE
    BY <1>3, <2>1, OpenedIs DEF SendFrame, Closed
  <2>4. Len(units') = Len(units) + 1 /\ \A i \in 1 .. Len(units) : units'[i] = units[i]
    BY <1>1, <2>2, <2>3, StreamMore
  <2>5. HeardSoFar /\ Excused
    BY <2>1 DEF Heard
  <2>6. PICK i \in 0 .. Len(units) :
               /\ taken = Len(Flat(Wire(units), i))
               /\ fate = "running" => heard = Flat(Meants(units), i)
    BY <2>5 DEF HeardSoFar
  <2> DEFINE vs == units'
  <2>7. i <= Len(vs) /\ i \in 0 .. Len(vs) /\ \A k \in 1 .. i : vs[k] = units[k]
    BY <1>1, <2>4
  <2>8. Conversation(vs)
    BY <1>1
  <2> HIDE DEF vs
  <2>9. Flat(Wire(vs), i) = Flat(Wire(units), i) /\ Flat(Meants(vs), i) = Flat(Meants(units), i)
    BY <1>1, <2>7, <2>8, SameSoFar
  <2>10. HeardSoFar'
    BY <2>1, <2>6, <2>7, <2>9 DEF HeardSoFar, vs
  <2>11. QED
    BY <2>1, <2>5, <2>10 DEF Excused
<1>4. CASE SendMessage
  <2>1. blurs = 0 /\ fate = "running" /\ units' = units /\ taken' = taken /\ heard' = heard
    BY <1>4 DEF SendMessage
  <2>2. HeardSoFar
    BY <2>1 DEF Heard
  <2>3. HeardSoFar'
    BY <2>1, <2>2 DEF HeardSoFar
  <2>4. PICK len \in Lengths :
            LET payload == [i \in 1..len |-> Len(messages) + 1]
            IN  /\ messages' = Append(messages, payload)
                /\ ~ PackagingOverruns(payload) => fate' = fate
    BY <1>4 DEF SendMessage
  <2> DEFINE payload == [i \in 1..len |-> Len(messages) + 1]
  <2>5. messages' = Append(messages, payload) /\ (~ PackagingOverruns(payload) => fate' = fate)
    BY <2>4
  <2>6. payload \in Seq(Nat) /\ messages \in Seq(Seq(Nat))
    BY MessageType DEF WebType
  <2> HIDE DEF payload
  <2>7. ASSUME fate' = "undefined"
        PROVE  \E m \in Range(messages') : Len(m) + 4 > BUFF_SIZE
    <3>1. PackagingOverruns(payload)
      BY <2>1, <2>5, <2>7
    <3>2. Len(payload) + 4 > BUFF_SIZE
      BY <2>6, <3>1, Blamed
    <3>3. payload \in Range(messages')
      <4> DEFINE ms == Append(messages, payload)
                 n == Len(messages) + 1
      <4>1. ms \in Seq(Seq(Nat)) /\ Len(ms) = Len(messages) + 1 /\ ms[Len(messages) + 1] = payload
        BY <2>6, AppendProperties
      <4>2. DOMAIN ms = 1 .. Len(ms) /\ Len(messages) \in Nat
        BY <2>6, <4>1, LenProperties
      <4> HIDE DEF ms
      <4>3. n \in DOMAIN ms /\ ms[n] = payload
        BY <4>1, <4>2
      <4>4. payload \in Range(ms)
        BY <4>3 DEF Range
      <4>5. QED
        BY <2>5, <4>4 DEF ms
    <3>4. QED
      BY <3>2, <3>3
  <2>8. QED
    BY <2>3, <2>7 DEF Excused
<1>5. CASE \E n \in 1 .. BUFF_SIZE - 1 : do_handshake(n)
  <2>1. PICK n \in 1 .. BUFF_SIZE - 1 : do_handshake(n)
    BY <1>5
  <2>2. n \in Nat /\ n >= 1 /\ Take(n) /\ LooksLikeRequest(Arrives(n)) /\ heard' = heard /\ fate' = fate
    BY <2>1 DEF do_handshake
  <2>3. blurs = 0 /\ units' = units /\ messages' = messages /\ taken' = taken + n
    BY <2>2, ClearRead, ArrivesType DEF Take
  <2>4. units[1] \in RequestUnits /\ taken = 0 /\ Len(units) = 1 /\ n = EndOf(1)
    BY <2>2, ClearRequest
  <2>5. HeardSoFar /\ Excused
    BY <2>3 DEF Heard
  <2> DEFINE w == Wire(units)
             d == Meants(units)
  <2>6. /\ w \in Seq(Seq(Byte)) /\ Len(w) = 1 /\ w[1] = UnitBytes(units[1])
        /\ d \in Seq(Seq(Byte)) /\ Len(d) = 1 /\ d[1] = Meant(units[1])
    <3>1. /\ w \in Seq(Seq(Byte)) /\ Len(w) = Len(units)
          /\ \A i \in 1 .. Len(units) : w[i] = UnitBytes(units[i])
      BY <1>1, StreamIs
    <3>2. /\ d \in Seq(Seq(Byte)) /\ Len(d) = Len(units)
          /\ \A i \in 1 .. Len(units) : d[i] = Meant(units[i])
      BY <1>1, MeantType
    <3> HIDE DEF w, d
    <3>3. 1 \in 1 .. Len(units)
      BY <2>4
    <3>4. QED
      BY <2>4, <3>1, <3>2, <3>3
  <2>7. Meant(units[1]) = <<>>
    BY <2>4, UnitIs DEF Meant
  <2>8. Flat(w, 0) = <<>> /\ Flat(d, 0) = <<>>
    BY <1>1, NoneYet
  <2>9. taken' = Len(Flat(w, 1))
    <3>1. 1 \in 0 .. Len(units)
      BY <2>4
    <3>2. EndOf(1) = Len(Flat(w, 1)) /\ EndOf(1) \in Nat
      BY <1>1, <3>1, EndIs
    <3>3. QED
      BY <2>2, <2>3, <2>4, <3>2
  <2> HIDE DEF w, d
  <2>10. Flat(d, 1) = <<>>
    <3>1. 0 \in 0 .. Len(d) - 1 /\ 0 + 1 = 1
      BY <2>6
    <3>2. Flat(d, 0 + 1) = Flat(d, 0) \o d[0 + 1]
      BY <2>6, <3>1, FlatStep
    <3>3. Flat(d, 1) = <<>> \o <<>>
      BY <2>6, <2>7, <2>8, <3>1, <3>2
    <3>4. <<>> \o <<>> = <<>>
      OBVIOUS
    <3>5. QED
      BY <3>3, <3>4
  <2>11. fate = "running" => heard = <<>>
    <3>1. PICK i \in 0 .. Len(units) :
                 /\ taken = Len(Flat(w, i))
                 /\ fate = "running" => heard = Flat(d, i)
      BY <2>5 DEF HeardSoFar, w, d
    <3>2. i = 0 \/ i = 1
      BY <2>4
    <3>3. CASE i = 0
      BY <2>8, <3>1, <3>3
    <3>4. CASE i = 1
      BY <2>10, <3>1, <3>4
    <3>5. QED
      BY <3>2, <3>3, <3>4
  <2>12. HeardSoFar'
    <3>1. 1 \in 0 .. Len(units') /\ Wire(units') = w /\ Meants(units') = d
      BY <2>3, <2>4 DEF w, d
    <3>2. taken' = Len(Flat(Wire(units'), 1)) /\ (fate' = "running" => heard' = Flat(Meants(units'), 1))
      BY <2>2, <2>9, <2>10, <2>11, <3>1
    <3>3. QED
      BY <3>1, <3>2 DEF HeardSoFar
  <2>13. QED
    BY <2>2, <2>3, <2>5, <2>12 DEF Excused
<1>6. CASE \E n \in 1 .. BUFF_SIZE - 1 : ParseFrames(n)
  <2>1. PICK n \in 1 .. BUFF_SIZE - 1 : ParseFrames(n)
    BY <1>6
  <2> DEFINE parsed == do_parsebuffer(Arrives(n))
             w == Wire(units)
             d == Meants(units)
  <2>2. /\ n \in Nat /\ Take(n) /\ ~ LooksLikeRequest(Arrives(n))
        /\ heard' = heard \o parsed.payloads
        /\ fate' = IF parsed.inside THEN fate ELSE "undefined"
    BY <2>1 DEF ParseFrames
  <2>3. blurs = 0 /\ units' = units /\ messages' = messages /\ taken' = taken + n /\ fate = "running"
    BY <2>2, ClearRead, ArrivesType DEF Take
  <2>4. HeardSoFar
    BY <2>3 DEF Heard
  <2>5. PICK a \in 0 .. Len(units), b \in 0 .. Len(units) :
           /\ taken = Len(Flat(w, a)) /\ taken + n = Len(Flat(w, b))
           /\ parsed.inside = TRUE /\ parsed.payloads \in Seq(Byte)
           /\ Flat(d, b) = Flat(d, a) \o parsed.payloads
    BY <2>2, ClearFrames
  <2>6. PICK i \in 0 .. Len(units) : taken = Len(Flat(w, i)) /\ heard = Flat(d, i)
    BY <2>3, <2>4 DEF HeardSoFar
  <2>7. i = a
    BY <1>1, <2>5, <2>6, EndsApart
  <2> HIDE DEF w, d, parsed
  <2>8. heard' = Flat(d, b) /\ fate' = "running" /\ taken' = Len(Flat(w, b))
    BY <2>2, <2>3, <2>5, <2>6, <2>7
  <2>9. HeardSoFar'
    BY <2>3, <2>8 DEF HeardSoFar, w, d
  <2>10. QED
    BY <2>8, <2>9 DEF Excused
<1>7. CASE UNCHANGED vars
  BY <1>7 DEF vars, Heard, HeardSoFar, Excused
<1>8. QED
  BY <1>2, <1>3, <1>4, <1>5, <1>6, <1>7 DEF Next

\* A browser's frames reach parseDataPackage as they were said, in order and without loss, as long as
\* every read takes whole frames with headers of one form and one mask and none of them looks like a
\* request; and then do_parsebuffer stays in its buffers.
THEOREM SpecHeardAsSaid ==
  Spec => []HeardAsSaid
<1>1. Init => WebType /\ Unread /\ Heard
  <2>1. Init => Unread
    BY EmptySeq DEF Init, Unread
  <2>2. QED
    BY <2>1, WebTypeInit, HeardInit
<1>2. WebType /\ Unread /\ Heard /\ [Next]_vars => (WebType /\ Unread /\ Heard)'
  BY WebTypeStep, UnreadStep, HeardStep
<1>3. WebType /\ Heard => HeardAsSaid
  BY HeardIs DEF WebType
<1>4. QED
  BY <1>1, <1>2, <1>3, PTL DEF Spec
=============================================================================
