----------------------------- MODULE InboundProofs -----------------------------
(***************************************************************************)
(* Proofs about Inbound, for any sizes of packages, any buffer of at least *)
(* five bytes, and any way TCP cuts the stream: the cache never overflows, *)
(* a close loses nothing but by a reset, and the inbound path implements   *)
(* the package stream.  The loop of addBuffer is taken turn by turn, by    *)
(* induction over the bytes in the cache.                                  *)
(***************************************************************************)
EXTENDS Inbound, DataLemmas

\* Dropping what was taken leaves the rest.
LEMMA FirstAndDrop ==
  ASSUME NEW S, NEW s \in Seq(S), NEW n \in 0 .. Len(s)
  PROVE  /\ SubSeq(s, 1, n) \in Seq(S) /\ Len(SubSeq(s, 1, n)) = n
         /\ \A i \in 1 .. n : SubSeq(s, 1, n)[i] = s[i]
         /\ Drop(s, n) \in Seq(S) /\ Len(Drop(s, n)) = Len(s) - n
         /\ SubSeq(s, 1, n) \o Drop(s, n) = s
BY FirstAndRest DEF Drop

\* Bytes, and packages, join in any grouping.
LEMMA Regroup ==
  /\ \A s, t, u \in Seq(Byte) : (s \o t) \o u = s \o (t \o u)
  /\ \A s, t, u \in Seq(Seq(Byte)) : (s \o t) \o u = s \o (t \o u)
<1>1. \A s, t, u \in Seq(Byte) : (s \o t) \o u = s \o (t \o u)
  BY ConcatAssociative
<1>2. \A s, t, u \in Seq(Seq(Byte)) : (s \o t) \o u = s \o (t \o u)
  BY ConcatAssociative
<1>3. QED
  BY <1>1, <1>2

-----------------------------------------------------------------------------
(* Packages and their headers.                                               *)

\* The four bytes of a size that fits an int are bytes.
LEMMA HeaderBytes ==
  ASSUME NEW size \in Nat, ((size \div 256) \div 256) \div 256 < 128
  PROVE  /\ ((size \div 256) \div 256) \div 256 \in Byte
         /\ ((size \div 256) \div 256) % 256 \in Byte
         /\ (size \div 256) % 256 \in Byte
         /\ size % 256 \in Byte
BY SMT DEF Byte

\* The bytes of a size, most significant first, make up the size again.
LEMMA HeaderSize ==
  ASSUME NEW size \in Nat
  PROVE  (((((size \div 256) \div 256) \div 256) * 256 + (((size \div 256) \div 256) % 256)) * 256
           + ((size \div 256) % 256)) * 256 + (size % 256) = size
BY SMT

\* PackDataReader::addBuffer: a size read from a header is a natural number.
LEMMA AnnouncedSizeType ==
  ASSUME NEW bytes \in Seq(Byte), Len(bytes) >= 4
  PROVE  AnnouncedSize(bytes) \in Nat
<1>1. \A i \in 1 .. 4 : bytes[i] \in Byte
  BY ElementOfSeq
<1>2. \A b \in Byte : b \in Nat
  BY DEF Byte
<1>3. 1 \in 1 .. 4 /\ 2 \in 1 .. 4 /\ 3 \in 1 .. 4 /\ 4 \in 1 .. 4
  OBVIOUS
<1>4. bytes[1] \in Nat /\ bytes[2] \in Nat /\ bytes[3] \in Nat /\ bytes[4] \in Nat
  BY <1>1, <1>2, <1>3
<1>5. QED
  BY <1>4, SMT DEF AnnouncedSize

\* A package is a sequence of bytes, as long as its size says, with the header in front.
LEMMA EncodeType ==
  ASSUME NEW size \in Sizes, NEW tag \in Byte
  PROVE  /\ Encode(size, tag) \in Seq(Byte)
         /\ Len(Encode(size, tag)) = IF size = 0 THEN 4 ELSE size
         /\ Len(Encode(size, tag)) >= 4
         /\ Encode(size, tag)[1] = ((size \div 256) \div 256) \div 256
         /\ Encode(size, tag)[2] = ((size \div 256) \div 256) % 256
         /\ Encode(size, tag)[3] = (size \div 256) % 256
         /\ Encode(size, tag)[4] = size % 256
<1> DEFINE n == IF size = 0 THEN 4 ELSE size
           a == ((size \div 256) \div 256) \div 256
           b == ((size \div 256) \div 256) % 256
           c == (size \div 256) % 256
           d == size % 256
           h == <<a, b, c, d>>
           e == [i \in 1 .. n |-> IF i =< 4 THEN h[i] ELSE tag]
<1>1. n \in Nat /\ n >= 4
  BY InboundAssumption
<1>2. a \in Byte /\ b \in Byte /\ c \in Byte /\ d \in Byte
  BY InboundAssumption, HeaderBytes
<1>3. Encode(size, tag) = e
  BY DEF Encode, Header
<1>4. h \in Seq(Byte) /\ Len(h) = 4 /\ h[1] = a /\ h[2] = b /\ h[3] = c /\ h[4] = d
  <2> HIDE DEF a, b, c, d
  <2>1. QED
    BY <1>2
<1> SUFFICES /\ e \in Seq(Byte) /\ Len(e) = n /\ Len(e) >= 4
             /\ e[1] = a /\ e[2] = b /\ e[3] = c /\ e[4] = d
  BY <1>3
<1> HIDE DEF a, b, c, d, h, n
<1>6. \A i \in 1 .. n : e[i] \in Byte
  BY <1>4
<1>7. e \in Seq(Byte) /\ Len(e) = n
  BY <1>1, <1>6
<1>8. QED
  BY <1>1, <1>4, <1>7

\* addBuffer reads the size back that the device wrote.
LEMMA EncodeSize ==
  ASSUME NEW size \in Sizes, NEW tag \in Byte
  PROVE  AnnouncedSize(Encode(size, tag)) = size
<1>1. size \in Nat
  BY InboundAssumption
<1> DEFINE e == Encode(size, tag)
           a == ((size \div 256) \div 256) \div 256
           b == ((size \div 256) \div 256) % 256
           c == (size \div 256) % 256
           d == size % 256
<1>2. e[1] = a /\ e[2] = b /\ e[3] = c /\ e[4] = d
  BY EncodeType
<1>3. ((a * 256 + b) * 256 + c) * 256 + d = size
  BY <1>1, HeaderSize
<1>4. AnnouncedSize(e) = ((e[1] * 256 + e[2]) * 256 + e[3]) * 256 + e[4]
  BY DEF AnnouncedSize
<1> HIDE DEF a, b, c, d, e
<1>5. AnnouncedSize(e) = size
  BY <1>2, <1>3, <1>4
<1>6. QED
  BY <1>5 DEF e

\* Every package a device sends announces its own length, but for the header of size zero.
LEMMA PackageFacts ==
  ASSUME NEW p \in Packages
  PROVE  /\ p \in Seq(Byte) /\ Len(p) >= 4
         /\ p # ZeroHeader => AnnouncedSize(p) = Len(p)
         /\ p = ZeroHeader => AnnouncedSize(p) = 0
<1>1. PICK size \in Sizes, tag \in 1 .. MaxSent : p = Encode(size, tag)
  BY DEF Packages
<1>2. tag \in Byte
  BY InboundAssumption DEF Byte
<1>3. p \in Seq(Byte) /\ Len(p) >= 4 /\ Len(p) = (IF size = 0 THEN 4 ELSE size) /\ AnnouncedSize(p) = size
  BY <1>1, <1>2, EncodeType, EncodeSize
<1>4. size = 0 => p = ZeroHeader
  <2>1. size = 0 => Encode(size, tag) = Encode(0, 0)
    BY DEF Encode
  <2>2. QED
    BY <1>1, <2>1 DEF ZeroHeader
<1>5. AnnouncedSize(ZeroHeader) = 0
  BY DEF ZeroHeader, Encode, Header, AnnouncedSize
<1>6. QED
  BY <1>3, <1>4, <1>5

-----------------------------------------------------------------------------
(* The loop of addBuffer, turn by turn.                                      *)

\* So is the size the loop goes by.
LEMMA SizeType ==
  ASSUME NEW r \in Readers, Enters(r)
  PROVE  Size(r) \in Nat
BY AnnouncedSizeType DEF Readers, Enters, Size

\* A turn of the loop that cuts a package off leaves a shorter cache.
LEMMA CutShrinks ==
  ASSUME NEW r \in Readers, Cuts(r)
  PROVE  /\ Cut(r) \in Readers
         /\ Size(r) \in 1 .. Len(r.bytes)
         /\ Len(Cut(r).bytes) = Len(r.bytes) - Size(r)
<1>1. Size(r) \in 1 .. Len(r.bytes)
  BY SizeType DEF Cuts, Readers
<1>2. /\ SubSeq(r.bytes, 1, Size(r)) \in Seq(Byte)
      /\ Drop(r.bytes, Size(r)) \in Seq(Byte)
      /\ Len(Drop(r.bytes, Size(r))) = Len(r.bytes) - Size(r)
  BY <1>1, FirstAndDrop DEF Readers
<1>3. Append(r.packages, SubSeq(r.bytes, 1, Size(r))) \in Seq(Seq(Byte))
  BY <1>2 DEF Readers
<1>4. QED
  BY <1>1, <1>2, <1>3 DEF Cut, Readers

\* The turn that ends the loop leaves a reader no longer than it was.
LEMMA LeftType ==
  ASSUME NEW r \in Readers
  PROVE  Left(r) \in Readers /\ Len(Left(r).bytes) =< Len(r.bytes)
BY SizeType DEF Left, Readers

\* One turn of the loop, given what the next ones do.
ScanStep(f, r) == IF Cuts(r) THEN f[Cut(r)] ELSE Left(r)

\* The readers of at most n bytes, and a function that is Scan on them.
Short(n) == {r \in Readers : Len(r.bytes) =< n}
ScansShort(f, n) == f = [r \in Short(n) |-> ScanStep(f, r)]

\* Such a function goes turn by turn.
LEMMA ShortScan ==
  ASSUME NEW n \in Nat, NEW f, ScansShort(f, n), NEW r \in Short(n)
  PROVE  f[r] = ScanStep(f, r)
BY DEF ScansShort

\* What is left after a cut is among shorter readers.
LEMMA CutShort ==
  ASSUME NEW n \in Nat, NEW r \in Short(n), Cuts(r)
  PROVE  n > 0 /\ Cut(r) \in Short(n - 1) /\ Cut(r) \in Short(Len(r.bytes) - 1)
BY CutShrinks DEF Short, Readers

\* For every length there is one.
LEMMA ScansShortExists ==
  \A n \in Nat : \E f : ScansShort(f, n)
<1> DEFINE S == {n \in Nat : \E f : ScansShort(f, n)}
<1>1. ASSUME NEW n \in Nat, \A m \in 0 .. n - 1 : m \in S
      PROVE  n \in S
  <2>1. CASE n = 0
    <3> DEFINE f == [r \in Short(0) |-> Left(r)]
    <3>1. \A r \in Short(0) : ~ Cuts(r)
      BY CutShort
    <3>2. ScansShort(f, 0)
      BY <3>1 DEF ScansShort, ScanStep
    <3>3. QED
      BY <2>1, <3>2
  <2>2. CASE n # 0
    <3>1. n - 1 \in Nat /\ n - 1 \in S
      BY <1>1, <2>2
    <3>2. PICK f : ScansShort(f, n - 1)
      BY <3>1
    <3> DEFINE g == [r \in Short(n) |-> ScanStep(f, r)]
    <3>3. ASSUME NEW r \in Short(n)
          PROVE  ScanStep(f, r) = ScanStep(g, r)
      <4>1. CASE ~ Cuts(r)
        BY <4>1 DEF ScanStep
      <4>2. CASE Cuts(r)
        <5>1. Cut(r) \in Short(n - 1)
          BY <4>2, CutShort
        <5>2. Cut(r) \in Short(n)
          BY <5>1 DEF Short, Readers
        <5>3. f[Cut(r)] = ScanStep(f, Cut(r))
          BY <3>1, <3>2, <5>1, ShortScan
        <5>4. g[Cut(r)] = ScanStep(f, Cut(r))
          BY <5>2
        <5>5. QED
          BY <4>2, <5>3, <5>4 DEF ScanStep
      <4>3. QED
        BY <4>1, <4>2
    <3>4. g = [r \in Short(n) |-> ScanStep(g, r)]
      BY <3>3
    <3>5. QED
      BY <3>4 DEF ScansShort
  <2>3. QED
    BY <2>1, <2>2
<1>2. QED
  BY <1>1, Induction

\* Two of them agree on the readers both are about.
LEMMA ScansShortAgree ==
  ASSUME NEW n \in Nat, NEW f, ScansShort(f, n), NEW m \in Nat, NEW g, ScansShort(g, m)
  PROVE  \A r \in Short(n) \intersect Short(m) : f[r] = g[r]
<1> DEFINE S == {k \in Nat : \A r \in Short(n) \intersect Short(m) : Len(r.bytes) = k => f[r] = g[r]}
<1>1. ASSUME NEW k \in Nat, \A l \in 0 .. k - 1 : l \in S
      PROVE  k \in S
  <2>1. ASSUME NEW r \in Short(n) \intersect Short(m), Len(r.bytes) = k
        PROVE  f[r] = g[r]
    <3>1. f[r] = ScanStep(f, r) /\ g[r] = ScanStep(g, r)
      BY ShortScan
    <3>2. CASE Cuts(r)
      <4>1. Cut(r) \in Short(n - 1) /\ Cut(r) \in Short(m - 1) /\ n > 0 /\ m > 0
        BY <3>2, CutShort
      <4>2. Cut(r) \in Short(n) \intersect Short(m)
        BY <4>1 DEF Short, Readers
      <4>3. Len(Cut(r).bytes) \in 0 .. k - 1
        BY <2>1, <3>2, CutShrinks DEF Short, Readers
      <4>4. f[Cut(r)] = g[Cut(r)]
        BY <1>1, <4>2, <4>3
      <4>5. QED
        BY <3>1, <3>2, <4>4 DEF ScanStep
    <3>3. QED
      BY <3>1, <3>2 DEF ScanStep
  <2>2. QED
    BY <2>1
<1>2. Nat \subseteq S
  BY <1>1, Induction
<1>3. ASSUME NEW r \in Short(n) \intersect Short(m)
      PROVE  f[r] = g[r]
  <2>1. Len(r.bytes) \in S
    BY <1>2 DEF Short, Readers
  <2>2. QED
    BY <2>1
<1>4. QED
  BY <1>3

\* So there is a function that scans readers of any length.
LEMMA ScanExists ==
  \E f : f = [r \in Readers |-> ScanStep(f, r)]
<1> DEFINE F(n) == CHOOSE f : ScansShort(f, n)
           G == [r \in Readers |-> F(Len(r.bytes))[r]]
<1>1. \A n \in Nat : ScansShort(F(n), n)
  BY ScansShortExists
<1> HIDE DEF F
<1>2. ASSUME NEW r \in Readers
      PROVE  G[r] = ScanStep(G, r)
  <2> DEFINE n == Len(r.bytes)
  <2>1. n \in Nat /\ r \in Short(n)
    BY DEF Short, Readers
  <2>2. G[r] = ScanStep(F(n), r)
    BY <1>1, <2>1, ShortScan
  <2>3. CASE Cuts(r)
    <3> DEFINE m == Len(Cut(r).bytes)
    <3>1. Cut(r) \in Readers /\ m \in Nat /\ m =< n
      BY <2>3, CutShrinks DEF Readers
    <3>2. Cut(r) \in Short(n) \intersect Short(m)
      BY <2>1, <3>1 DEF Short, Readers
    <3>3. G[Cut(r)] = F(m)[Cut(r)]
      BY <3>1
    <3>4. F(n)[Cut(r)] = F(m)[Cut(r)]
      BY <1>1, <2>1, <3>1, <3>2, ScansShortAgree
    <3>5. QED
      BY <2>2, <2>3, <3>3, <3>4 DEF ScanStep
  <2>4. QED
    BY <2>2, <2>3 DEF ScanStep
<1>3. G = [r \in Readers |-> ScanStep(G, r)]
  BY <1>2
<1>4. QED
  BY <1>3

\* The loop of addBuffer, turn by turn: Scan has the value its definition says, for every reader.
LEMMA ScanStepwise ==
  ASSUME NEW r \in Readers
  PROVE  Scan[r] = IF Cuts(r) THEN Scan[Cut(r)] ELSE Left(r)
<1>1. Scan = [s \in Readers |-> IF Cuts(s) THEN Scan[Cut(s)] ELSE Left(s)]
  BY ScanExists DEF Scan, ScanStep
<1>2. QED
  BY <1>1

\* addBuffer's loop leaves no more in the cache than it found.
LEMMA ScanShrinks ==
  \A r \in Readers : Scan[r] \in Readers /\ Len(Scan[r].bytes) =< Len(r.bytes)
<1> DEFINE Shrinks(r) == Scan[r] \in Readers /\ Len(Scan[r].bytes) =< Len(r.bytes)
           S == {n \in Nat : \A r \in Readers : Len(r.bytes) = n => Shrinks(r)}
<1>1. ASSUME NEW n \in Nat, \A m \in 0 .. n - 1 : m \in S
      PROVE  n \in S
  <2>1. ASSUME NEW r \in Readers, Len(r.bytes) = n
        PROVE  Shrinks(r)
    <3>1. CASE Cuts(r)
      <4>1. /\ Cut(r) \in Readers /\ Len(Cut(r).bytes) \in 0 .. n - 1
            /\ Scan[r] = Scan[Cut(r)]
        BY <2>1, <3>1, CutShrinks, ScanStepwise DEF Readers
      <4>2. Shrinks(Cut(r))
        BY <1>1, <4>1
      <4>3. Len(Scan[r].bytes) \in Nat
        BY <4>1, <4>2 DEF Readers
      <4>4. QED
        BY <2>1, <4>1, <4>2, <4>3
    <3>2. CASE ~ Cuts(r)
      BY <3>2, LeftType, ScanStepwise
    <3>3. QED
      BY <3>1, <3>2
  <2>2. QED
    BY <2>1
<1>2. Nat \subseteq S
  BY <1>1, Induction
<1>3. \A r \in Readers : Len(r.bytes) \in Nat
  BY DEF Readers
<1>4. QED
  BY <1>2, <1>3

\* The loop takes no package back.
LEMMA ScanKeeps ==
  \A r \in Readers : \E more \in Seq(Seq(Byte)) : Scan[r].packages = r.packages \o more
<1> DEFINE Keeps(r) == \E more \in Seq(Seq(Byte)) : Scan[r].packages = r.packages \o more
           S == {n \in Nat : \A r \in Readers : Len(r.bytes) = n => Keeps(r)}
<1>1. ASSUME NEW n \in Nat, \A m \in 0 .. n - 1 : m \in S
      PROVE  n \in S
  <2>1. ASSUME NEW r \in Readers, Len(r.bytes) = n
        PROVE  Keeps(r)
    <3>0. r.packages \in Seq(Seq(Byte)) /\ r.bytes \in Seq(Byte)
      BY DEF Readers
    <3>1. CASE Cuts(r)
      <4>1. /\ Cut(r) \in Readers /\ Len(Cut(r).bytes) \in 0 .. n - 1
            /\ Scan[r] = Scan[Cut(r)] /\ Size(r) \in 1 .. Len(r.bytes)
        BY <2>1, <3>1, CutShrinks, ScanStepwise DEF Readers
      <4>2. PICK more \in Seq(Seq(Byte)) : Scan[Cut(r)].packages = Cut(r).packages \o more
        BY <1>1, <4>1
      <4>3. PICK one \in Seq(Seq(Byte)) : Cut(r).packages = r.packages \o one
        <5> DEFINE x == SubSeq(r.bytes, 1, Size(r))
        <5>1. x \in Seq(Byte)
          BY <3>0, <4>1, FirstAndDrop
        <5>2. Cut(r).packages = IF IsPackage(Size(r)) THEN Append(r.packages, x) ELSE r.packages
          BY DEF Cut
        <5> HIDE DEF x
        <5>3. Append(r.packages, x) = r.packages \o <<x>> /\ <<x>> \in Seq(Seq(Byte))
          BY <3>0, <5>1, AppendIsConcat
        <5>4. r.packages = r.packages \o <<>> /\ <<>> \in Seq(Seq(Byte))
          BY <3>0, ConcatEmptySeq, EmptySeq
        <5>5. QED
          BY <5>2, <5>3, <5>4
      <4> DEFINE q == r.packages
      <4>4. Scan[r].packages = (q \o one) \o more
        BY <4>1, <4>2, <4>3
      <4>5. q \in Seq(Seq(Byte))
        BY <3>0
      <4> HIDE DEF q
      <4>6. (q \o one) \o more = q \o (one \o more) /\ one \o more \in Seq(Seq(Byte))
        BY <4>5, Regroup, ConcatProperties
      <4>7. Scan[r].packages = q \o (one \o more)
        BY <4>4, <4>6
      <4>8. QED
        BY <4>6, <4>7 DEF q
    <3>2. CASE ~ Cuts(r)
      <4>1. Scan[r] = Left(r)
        BY <3>2, ScanStepwise
      <4>2. Left(r).packages = r.packages
        BY DEF Left, Readers
      <4>3. r.packages = r.packages \o <<>> /\ <<>> \in Seq(Seq(Byte))
        BY <3>0, ConcatEmptySeq, EmptySeq
      <4>4. QED
        BY <4>1, <4>2, <4>3
    <3>3. QED
      BY <3>1, <3>2
  <2>2. QED
    BY <2>1
<1>2. Nat \subseteq S
  BY <1>1, Induction
<1>3. \A r \in Readers : Len(r.bytes) \in Nat
  BY DEF Readers
<1>4. QED
  BY <1>2, <1>3

-----------------------------------------------------------------------------
(* The buffers.                                                              *)

\* Of the initial state: empty sequences, and a buffer that is not.
LEMMA NothingThere == <<>> \in Seq(Byte) /\ <<>> \in Seq(Seq(Byte)) /\ Len(<<>>) = 0 /\ 0 < BUFF_SIZE /\ BUFF_SIZE \in Nat
<1>1. 0 < BUFF_SIZE /\ BUFF_SIZE \in Nat
  BY InboundAssumption
<1>2. QED
  BY <1>1, EmptySeq

\* What the cache of a reader keeps to.
Fits == TypeOK /\ Len(cache) =< alloc_size

\* addBuffer copies within what it has allocated, and leaves no more than that.
LEMMA AddBufferFits ==
  ASSUME Fits, Len(buf) < BUFF_SIZE, AddBuffer(buf)
  PROVE  /\ cache' \in Seq(Byte) /\ pkage_size' \in Nat /\ alloc_size' \in Nat
         /\ handled' \in Seq(Seq(Byte))
         /\ Len(cache) + Len(buf) =< alloc_size' /\ Len(cache') =< alloc_size'
<1> DEFINE r == [bytes |-> cache \o buf, size |-> pkage_size, packages |-> <<>>]
<1>1. r \in Readers /\ Len(r.bytes) = Len(cache) + Len(buf)
  BY DEF Fits, TypeOK, Readers
<1>2. Scan[r] \in Readers /\ Len(Scan[r].bytes) =< Len(r.bytes)
  BY <1>1, ScanShrinks
<1>3. /\ alloc_size' = Grown(alloc_size, Len(cache), Len(buf))
      /\ cache' = Scan[r].bytes /\ pkage_size' = Scan[r].size
      /\ handled' = handled \o Scan[r].packages
  BY DEF AddBuffer
<1> HIDE DEF r
<1>4. alloc_size' \in Nat /\ Len(cache) + Len(buf) =< alloc_size'
  BY <1>3, InboundAssumption DEF Grown, Fits, TypeOK
<1>5. cache' \in Seq(Byte) /\ pkage_size' \in Nat /\ Len(cache') \in Nat /\ handled' \in Seq(Seq(Byte))
  BY <1>2, <1>3 DEF Readers, Fits, TypeOK
<1>6. QED
  BY <1>1, <1>2, <1>3, <1>4, <1>5

\* Sending keeps the types.
LEMMA SendTyped ==
  ASSUME TypeOK, NEW size \in Sizes, Send(size)
  PROVE  TypeOK'
<1>1. Len(sent) + 1 \in Byte
  <2>1. Len(sent) \in Nat /\ Len(sent) < MaxSent
    BY DEF Send, TypeOK
  <2> DEFINE n == Len(sent)
  <2>2. MaxSent \in Nat /\ MaxSent =< 255
    BY InboundAssumption, SMT
  <2>3. n \in Nat /\ n < MaxSent
    BY <2>1
  <2> HIDE DEF n
  <2>4. n + 1 \in 0 .. 255
    BY <2>2, <2>3, SMT
  <2>5. QED
    BY <2>4 DEF Byte, n
<1>2. Encode(size, Len(sent) + 1) \in Seq(Byte)
  BY <1>1, EncodeType
<1>3. sent' \in Seq(Seq(Byte)) /\ wire' \in Seq(Byte)
  BY <1>2 DEF Send, TypeOK
<1>4. QED
  BY <1>3 DEF Send, TypeOK, reader

\* So does an arrival.
LEMMA ArriveTyped ==
  ASSUME TypeOK, Arrive
  PROVE  TypeOK'
<1>1. PICK n \in 1 .. Len(wire) : queue' = queue \o SubSeq(wire, 1, n) /\ wire' = Drop(wire, n)
  BY DEF Arrive
<1>2. wire' \in Seq(Byte) /\ SubSeq(wire, 1, n) \in Seq(Byte)
  BY <1>1, FirstAndDrop DEF TypeOK
<1>3. queue' \in Seq(Byte)
  BY <1>1, <1>2 DEF TypeOK
<1>4. QED
  BY <1>2, <1>3 DEF Arrive, TypeOK, reader

\* A read takes no more than the buffer has room for.
LEMMA ReadTyped ==
  ASSUME TypeOK, Read
  PROVE  TypeOK'
<1> DEFINE n == Min({Room, Len(queue)})
<1>1. Room \in Nat /\ Len(queue) \in Nat
  BY InboundAssumption DEF TypeOK, Room, Read
<1>2. n \in 0 .. Len(queue) /\ n =< Room
  BY <1>1, MinOfTwo
<1>3. buf' = buf \o SubSeq(queue, 1, n) /\ queue' = Drop(queue, n)
  BY DEF Read
<1> HIDE DEF n
<1>4. /\ SubSeq(queue, 1, n) \in Seq(Byte) /\ Len(SubSeq(queue, 1, n)) = n
      /\ queue' \in Seq(Byte)
  BY <1>2, <1>3, FirstAndDrop DEF TypeOK
<1>5. buf' \in Seq(Byte) /\ Len(buf') < BUFF_SIZE
  BY <1>2, <1>3, <1>4, InboundAssumption DEF TypeOK, Room
<1>6. QED
  BY <1>4, <1>5 DEF Read, TypeOK, reader

\* Every step keeps to the allocated bytes, and a call of addBuffer finds room.
LEMMA FitsStep ==
  ASSUME Fits, [Next]_vars
  PROVE  /\ Fits'
         /\ pc = "read" /\ pc' = "wait" => Len(cache) + Len(buf) =< alloc_size'
<1> USE DEF Fits
<1>1. ASSUME NEW size \in Sizes, Send(size)
      PROVE  Fits' /\ pc' = pc
  BY <1>1, SendTyped DEF Send, reader
<1>2. CASE Arrive
  BY <1>2, ArriveTyped DEF Arrive, reader
<1>3. CASE Fin
  BY <1>3 DEF Fin, TypeOK, reader
<1>4. CASE Reset
  BY <1>4, EmptySeq DEF Reset, TypeOK, reader
<1>5. CASE Report
  BY <1>5, NothingThere DEF Report, TypeOK, reader
<1>6. CASE Read
  BY <1>6, ReadTyped DEF Read, reader
<1>7. CASE Disconnect
  BY <1>7, NothingThere DEF Disconnect, Close, TypeOK, reader
<1>8. CASE Receive
  <2>1. Len(buf) < BUFF_SIZE /\ AddBuffer(buf) /\ pc' = "wait" /\ buf' = <<>> /\ UNCHANGED network
    BY <1>8 DEF Receive, TypeOK
  <2>2. QED
    BY <2>1, AddBufferFits, NothingThere DEF TypeOK, network
<1>9. CASE UNCHANGED vars
  BY <1>9 DEF TypeOK, vars, network, reader
<1>10. QED
  BY <1>1, <1>2, <1>3, <1>4, <1>5, <1>6, <1>7, <1>8, <1>9 DEF Next, Loop, Send, Arrive, Fin, Reset, Report, Read

\* The first state keeps to them.
LEMMA FitsInit == Init => Fits
<1>1. ASSUME Init PROVE TypeOK
  BY <1>1, NothingThere DEF Init, TypeOK
<1>2. ASSUME Init PROVE Len(cache) =< alloc_size
  BY <1>2, NothingThere DEF Init
<1>3. QED
  BY <1>1, <1>2 DEF Fits

\* The loop never fills its buffer, and every variable keeps its type.
THEOREM SpecTypeOK == Spec => []TypeOK
<1>1. Fits => TypeOK
  BY DEF Fits
<1>2. QED
  BY <1>1, FitsInit, FitsStep, PTL DEF Spec

\* PackDataReader::addBuffer: one growth by BUFF_SIZE always makes room for the copy, since a read
\* is shorter than that and the cache never exceeds what is allocated.
THEOREM SpecCacheFits == Spec => CacheFits
<1>1. Fits /\ [Next]_vars => [pc = "read" /\ pc' = "wait" => Len(cache) + Len(buf) =< alloc_size']_vars
  BY FitsStep
<1>2. QED
  BY <1>1, FitsInit, FitsStep, PTL DEF Spec, CacheFits

-----------------------------------------------------------------------------
(* What a close loses.                                                       *)

\* A read loop that closes its connection has met an error, or found nothing to read at all.
LEMMA ClosingLoop ==
  ASSUME Next, pc # "closed", pc' = "closed"
  PROVE  Disconnect
BY DEF Next, Send, Arrive, Fin, Reset, Loop, Report, Read, Receive

\* SocketServer::processEpollEvents: a connection is closed with bytes unread, or read and not handed
\* to addBuffer, only after a reset.  A loop that has read nothing has room for a byte, so its queue
\* was empty.
THEOREM SpecLossNeedsReset == Spec => LossNeedsReset
<1>1. ASSUME [Next]_vars, pc # "closed", pc' = "closed"
      PROVE  (buf = <<>> /\ queue = <<>>) \/ reset
  <2>1. Next
    BY <1>1 DEF vars
  <2>2. CASE ReadFails
    BY <2>2 DEF ReadFails
  <2>3. CASE ReadEnds /\ buf = <<>>
    <3>1. Room = BUFF_SIZE - 1 /\ Room # 0
      BY <2>3, InboundAssumption DEF Room
    <3>2. QED
      BY <2>3, <3>1 DEF ReadEnds
  <2>4. QED
    BY <1>1, <2>1, <2>2, <2>3, ClosingLoop DEF Disconnect
<1>2. [Next]_vars => [pc # "closed" /\ pc' = "closed" => (buf = <<>> /\ queue = <<>>) \/ reset]_vars
  BY <1>1
<1>3. QED
  BY <1>2, PTL DEF Spec, LossNeedsReset

-----------------------------------------------------------------------------
(* The packages that are not skipped.                                        *)

\* The packages that are not skipped, one by one.
Piece(p) == IF Len(p) > 8 THEN <<p>> ELSE <<>>
Pieces(p) == [i \in 1 .. Len(p) |-> Piece(p[i])]

\* One piece for each package.
LEMMA PiecesType ==
  ASSUME NEW p \in Seq(Seq(Byte))
  PROVE  /\ Pieces(p) \in Seq(Seq(Seq(Byte))) /\ Len(Pieces(p)) = Len(p)
         /\ \A i \in 1 .. Len(p) : Pieces(p)[i] = Piece(p[i])
<1> DEFINE n == Len(p)
<1>1. \A i \in 1 .. n : Piece(p[i]) \in Seq(Seq(Byte))
  <2>1. ASSUME NEW i \in 1 .. n
        PROVE  Piece(p[i]) \in Seq(Seq(Byte))
    <3> DEFINE x == p[i]
    <3>1. x \in Seq(Byte)
      BY ElementOfSeq
    <3> HIDE DEF x
    <3>2. Piece(x) \in Seq(Seq(Byte))
      BY <3>1, EmptySeq DEF Piece
    <3>3. QED
      BY <3>2 DEF x
  <2>2. QED
    BY <2>1
<1>2. n \in Nat
  OBVIOUS
<1>3. \A i \in 1 .. n : Pieces(p)[i] = Piece(p[i])
  BY DEF Pieces
<1>4. Pieces(p) = [i \in 1 .. n |-> Piece(p[i])]
  BY DEF Pieces
<1> HIDE DEF n
<1>5. Pieces(p) \in [1 .. n -> Seq(Seq(Byte))]
  BY <1>1, <1>4
<1>6. Pieces(p) \in Seq(Seq(Seq(Byte))) /\ Len(Pieces(p)) = n
  BY <1>2, <1>5
<1>7. QED
  BY <1>3, <1>6 DEF n

\* Among joins the pieces.
LEMMA AmongIsFlat ==
  ASSUME NEW p \in Seq(Seq(Byte)), NEW n \in 0 .. Len(p)
  PROVE  Among(p, n) = Flat(Pieces(p), n)
<1> DEFINE a == [i \in 1 .. n |-> Piece(p[i])]
           b == SubSeq(Pieces(p), 1, n)
<1>1. b \in Seq(Seq(Seq(Byte))) /\ Len(b) = n /\ \A i \in 1 .. n : b[i] = Pieces(p)[i]
  BY PiecesType, FirstAndRest
<1>2. \A i \in 1 .. n : Pieces(p)[i] = Piece(p[i])
  BY PiecesType
<1>3. b = [i \in 1 .. n |-> b[i]]
  <2> HIDE DEF b
  <2>1. QED
    BY <1>1
<1>4. a = b
  <2>1. \A i \in 1 .. n : b[i] = Piece(p[i])
    BY <1>1, <1>2
  <2> HIDE DEF b
  <2>2. QED
    BY <1>3, <2>1
<1>5. Among(p, n) = FlattenSeq(a)
  BY DEF Among, Piece
<1>6. QED
  BY <1>4, <1>5 DEF Flat

\* Among goes package by package: one is appended, or skipped.
LEMMA AmongStep ==
  ASSUME NEW p \in Seq(Seq(Byte))
  PROVE  /\ Among(p, 0) = <<>>
         /\ \A n \in 0 .. Len(p) : Among(p, n) \in Seq(Seq(Byte))
         /\ \A n \in 0 .. Len(p) - 1 :
              Among(p, n + 1) = IF Len(p[n + 1]) > 8 THEN Append(Among(p, n), p[n + 1]) ELSE Among(p, n)
<1>1. Pieces(p) \in Seq(Seq(Seq(Byte))) /\ Len(Pieces(p)) = Len(p)
  BY PiecesType
<1>2. Among(p, 0) = <<>>
  <2>1. Flat(Pieces(p), 0) = <<>>
    BY <1>1, FlatStep
  <2>2. QED
    BY <2>1, AmongIsFlat
<1>3. \A n \in 0 .. Len(p) : Among(p, n) \in Seq(Seq(Byte))
  <2>1. \A n \in 0 .. Len(p) : Flat(Pieces(p), n) \in Seq(Seq(Byte))
    BY <1>1, FlatType
  <2>2. QED
    BY <2>1, AmongIsFlat
<1>4. ASSUME NEW n \in 0 .. Len(p) - 1
      PROVE  Among(p, n + 1) = IF Len(p[n + 1]) > 8 THEN Append(Among(p, n), p[n + 1]) ELSE Among(p, n)
  <2> DEFINE a == Among(p, n)
             x == p[n + 1]
  <2>1. n \in 0 .. Len(p) /\ n + 1 \in 0 .. Len(p) /\ n + 1 \in 1 .. Len(p)
    OBVIOUS
  <2>2. a \in Seq(Seq(Byte)) /\ x \in Seq(Byte)
    BY <1>3, <2>1
  <2>3. Flat(Pieces(p), n + 1) = Flat(Pieces(p), n) \o Pieces(p)[n + 1]
    BY <1>1, FlatStep
  <2>4. Among(p, n + 1) = Flat(Pieces(p), n + 1) /\ a = Flat(Pieces(p), n) /\ Pieces(p)[n + 1] = Piece(x)
    BY <2>1, AmongIsFlat, PiecesType
  <2>5. Among(p, n + 1) = a \o Piece(x)
    BY <2>3, <2>4
  <2> HIDE DEF a, x
  <2>6. a \o Piece(x) = IF Len(x) > 8 THEN Append(a, x) ELSE a
    BY <2>2, AppendIsConcat, ConcatEmptySeq DEF Piece
  <2>7. QED
    BY <2>5, <2>6 DEF a, x
<1>5. QED
  BY <1>2, <1>3, <1>4

\* The packages among the first k are the first of those among more.
LEMMA AmongSplit ==
  ASSUME NEW p \in Seq(Seq(Byte)), NEW k \in 0 .. Len(p), NEW n \in k .. Len(p)
  PROVE  IsPrefix(Among(p, k), Among(p, n)) /\ Len(Among(p, k)) =< Len(Among(p, n))
<1>1. Pieces(p) \in Seq(Seq(Seq(Byte))) /\ Len(Pieces(p)) = Len(p)
  BY PiecesType
<1>2. \E rest \in Seq(Seq(Byte)) : Flat(Pieces(p), n) = Flat(Pieces(p), k) \o rest
  <2> DEFINE P == Pieces(p)
  <2>1. P \in Seq(Seq(Seq(Byte))) /\ k \in 0 .. Len(P) /\ n \in k .. Len(P)
    BY <1>1
  <2> HIDE DEF P
  <2>2. \A m \in k .. Len(P) : \E rest \in Seq(Seq(Byte)) : Flat(P, m) = Flat(P, k) \o rest
    BY <2>1, FlatSplit
  <2>3. QED
    BY <2>1, <2>2 DEF P
<1>3. /\ Among(p, k) = Flat(Pieces(p), k) /\ Among(p, n) = Flat(Pieces(p), n)
      /\ Among(p, k) \in Seq(Seq(Byte)) /\ Among(p, n) \in Seq(Seq(Byte))
  BY AmongIsFlat, AmongStep
<1>4. IsPrefix(Among(p, k), Among(p, n))
  BY <1>2, <1>3, PrefixRest
<1>5. QED
  BY <1>4 DEF IsPrefix

\* A package more changes nothing before it.
LEMMA OneMore ==
  ASSUME NEW p \in Seq(Seq(Byte)), NEW x \in Seq(Byte), NEW q, q = Append(p, x)
  PROVE  /\ q \in Seq(Seq(Byte)) /\ Len(q) = Len(p) + 1
         /\ q[Len(p) + 1] = x /\ \A i \in 1 .. Len(p) : q[i] = p[i]
         /\ \A n \in 0 .. Len(p) : Among(q, n) = Among(p, n) /\ Flat(q, n) = Flat(p, n)
         /\ Flat(q, Len(q)) = Flat(p, Len(p)) \o x
<1>1. /\ q \in Seq(Seq(Byte)) /\ Len(q) = Len(p) + 1
      /\ q[Len(p) + 1] = x /\ \A i \in 1 .. Len(p) : q[i] = p[i]
  BY AppendProperties
<1>2. ASSUME NEW n \in 0 .. Len(p)
      PROVE  Among(q, n) = Among(p, n) /\ Flat(q, n) = Flat(p, n)
  <2>1. \A i \in 1 .. n : q[i] = p[i]
    BY <1>1
  <2>2. n \in 0 .. Len(q)
    BY <1>1
  <2>3. SubSeq(q, 1, n) \in Seq(Seq(Byte)) /\ SubSeq(p, 1, n) \in Seq(Seq(Byte)) /\ Len(SubSeq(q, 1, n)) = n /\ Len(SubSeq(p, 1, n)) = n
    BY <1>1, <2>2, FirstAndRest
  <2>4. \A i \in 1 .. n : SubSeq(q, 1, n)[i] = SubSeq(p, 1, n)[i]
    BY <1>1, <2>1, <2>2, FirstAndRest
  <2>5. SubSeq(q, 1, n) = SubSeq(p, 1, n)
    BY <2>3, <2>4, SeqEqual
  <2> DEFINE Q == [i \in 1 .. n |-> IF Len(q[i]) > 8 THEN <<q[i]>> ELSE <<>>]
             P == [i \in 1 .. n |-> IF Len(p[i]) > 8 THEN <<p[i]>> ELSE <<>>]
  <2>6. Q = P
    BY <2>1
  <2>7. Among(q, n) = FlattenSeq(Q) /\ Among(p, n) = FlattenSeq(P)
    BY DEF Among
  <2>8. QED
    BY <2>5, <2>6, <2>7 DEF Flat
<1>3. Flat(q, Len(q)) = Flat(p, Len(p)) \o x
  <2>1. Len(p) \in 0 .. Len(q) - 1 /\ Len(p) \in 0 .. Len(p)
    BY <1>1
  <2>2. Flat(q, Len(p) + 1) = Flat(q, Len(p)) \o q[Len(p) + 1]
    BY <1>1, <2>1, FlatStep
  <2>3. Flat(q, Len(p)) = Flat(p, Len(p))
    BY <1>2, <2>1
  <2>4. QED
    BY <1>1, <2>2, <2>3
<1>4. QED
  BY <1>1, <1>2, <1>3

-----------------------------------------------------------------------------
(* addBuffer follows the stream.                                             *)

\* What every state of the program tells of the packages sent.
SentOnes == sent \in Seq(Packages)

\* Every package before the end of the stream announces its own length.
LEMMA SentFacts ==
  ASSUME SentOnes
  PROVE  /\ sent \in Seq(Seq(Byte)) /\ Intact \in 0 .. Len(sent)
         /\ \A i \in 1 .. Len(sent) : Len(sent[i]) >= 4 /\ sent[i] \in Seq(Byte)
         /\ \A i \in 1 .. Intact : AnnouncedSize(sent[i]) = Len(sent[i])
         /\ ~ ZeroSent => Intact = Len(sent)
         /\ ZeroSent => Intact < Len(sent)
<1>1. ASSUME NEW i \in 1 .. Len(sent)
      PROVE  /\ sent[i] \in Seq(Byte) /\ Len(sent[i]) >= 4
             /\ sent[i] # ZeroHeader => AnnouncedSize(sent[i]) = Len(sent[i])
  <2>1. sent[i] \in Packages
    BY DEF SentOnes
  <2>2. QED
    BY <2>1, PackageFacts
<1>2. sent \in Seq(Seq(Byte))
  <2>1. Packages \subseteq Seq(Byte)
    BY PackageFacts
  <2>2. QED
    BY <2>1 DEF SentOnes
<1>3. Zeros \in SUBSET Nat /\ DOMAIN sent = 1 .. Len(sent) /\ Len(sent) \in Nat
  BY <1>2 DEF Zeros
<1>4. CASE ZeroSent
  <2>1. Min(Zeros) \in Zeros /\ \A y \in Zeros : Min(Zeros) =< y
    BY <1>3, <1>4, MinIsLeast DEF ZeroSent
  <2>2. Intact = Min(Zeros) - 1
    BY <1>4 DEF Intact
  <2>3. Min(Zeros) \in 1 .. Len(sent)
    BY <1>3, <2>1 DEF Zeros
  <2>4. \A i \in 1 .. Intact : i \in 1 .. Len(sent) /\ i \notin Zeros
    BY <2>1, <2>2, <2>3
  <2>5. \A i \in 1 .. Intact : sent[i] # ZeroHeader
    BY <1>3, <2>4 DEF Zeros
  <2>6. QED
    BY <1>1, <1>2, <1>4, <2>2, <2>3, <2>4, <2>5
<1>5. CASE ~ ZeroSent
  <2>1. Intact = Len(sent)
    BY <1>5 DEF Intact
  <2>2. \A i \in 1 .. Len(sent) : sent[i] # ZeroHeader
    BY <1>3, <1>5 DEF ZeroSent, Zeros
  <2>3. QED
    BY <1>1, <1>2, <1>3, <1>5, <2>1, <2>2
<1>6. QED
  BY <1>4, <1>5

\* The k packages handled and the bytes in hand are the beginning of what was sent.
Begins(k, bytes) == \E rest \in Seq(Byte) : (Flat(sent, k) \o bytes) \o rest = Flat(sent, Len(sent))

\* A size taken from a header is that of the package at the front.
SizeFits(k, size) == size # 0 => k < Intact /\ size = Len(sent[k + 1])

\* The bytes in hand are those of the next package, as far as both go.
LEMMA FrontBytes ==
  ASSUME SentOnes, NEW k \in 0 .. Len(sent) - 1, NEW bytes \in Seq(Byte), Begins(k, bytes)
  PROVE  \A i \in 1 .. Len(bytes) : i =< Len(sent[k + 1]) => bytes[i] = sent[k + 1][i]
<1> DEFINE a == Flat(sent, k)
           x == sent[k + 1]
<1>1. sent \in Seq(Seq(Byte)) /\ k \in 0 .. Len(sent) /\ k + 1 \in 0 .. Len(sent) /\ k + 1 \in 1 .. Len(sent) /\ Len(sent) \in k + 1 .. Len(sent)
  BY SentFacts
<1>2. a \in Seq(Byte) /\ x \in Seq(Byte)
  BY <1>1, FlatType, ElementOfSeq
<1>3. Flat(sent, k + 1) = a \o x
  BY <1>1, FlatStep
<1>4. PICK rest \in Seq(Byte) : (a \o bytes) \o rest = Flat(sent, Len(sent))
  BY DEF Begins
<1>5. PICK after \in Seq(Byte) : Flat(sent, Len(sent)) = Flat(sent, k + 1) \o after
  BY <1>1, FlatSplit
<1>6. (a \o bytes) \o rest = (a \o x) \o after
  BY <1>3, <1>4, <1>5
<1> HIDE DEF a, x
<1>7. a \o (bytes \o rest) = a \o (x \o after)
  <2>1. (a \o bytes) \o rest = a \o (bytes \o rest)
    BY <1>2, <1>4, Regroup
  <2>2. (a \o x) \o after = a \o (x \o after)
    BY <1>2, <1>5, Regroup
  <2>3. QED
    BY <1>6, <2>1, <2>2
<1>8. bytes \o rest \in Seq(Byte) /\ x \o after \in Seq(Byte)
  BY <1>2, ConcatProperties
<1>9. bytes \o rest = x \o after
  BY <1>2, <1>7, <1>8, ConcatSimplifications
<1>10. ASSUME NEW i \in 1 .. Len(bytes), i =< Len(x)
       PROVE  bytes[i] = x[i]
  <2>1. i \in 1 .. Len(bytes) + Len(rest) /\ i \in 1 .. Len(x) + Len(after)
    BY <1>2, <1>10
  <2>2. (bytes \o rest)[i] = bytes[i] /\ (x \o after)[i] = x[i]
    BY <1>2, <1>10, <2>1, ConcatProperties
  <2>3. QED
    BY <1>9, <2>2
<1>11. QED
  BY <1>10 DEF x

\* Behind the last package there is nothing.
LEMMA NothingBehind ==
  ASSUME SentOnes, NEW bytes \in Seq(Byte), Begins(Len(sent), bytes)
  PROVE  bytes = <<>>
<1> DEFINE a == Flat(sent, Len(sent))
<1>1. a \in Seq(Byte)
  BY SentFacts, FlatType
<1>2. PICK rest \in Seq(Byte) : (a \o bytes) \o rest = a
  BY DEF Begins
<1> HIDE DEF a
<1>3. a \o (bytes \o rest) = a /\ bytes \o rest \in Seq(Byte)
  BY <1>1, <1>2, Regroup, ConcatProperties
<1>4. bytes \o rest = <<>>
  BY <1>1, <1>3, ConcatEqualIffEmpty
<1>5. QED
  BY <1>4, ConcatEqualIffEmpty

\* The size the loop goes by is the length of the package at the front.
LEMMA SizeIsLength ==
  ASSUME SentOnes, NEW k \in 0 .. Intact, NEW r \in Readers, Begins(k, r.bytes), SizeFits(k, r.size),
         Enters(r), k = Intact => ~ ZeroSent
  PROVE  k < Intact /\ Size(r) = Len(sent[k + 1])
<1>1. r.bytes \in Seq(Byte) /\ Len(r.bytes) >= 4 /\ r.size \in Nat
  BY DEF Readers, Enters
<1>2. k < Intact
  <2>1. CASE k = Intact
    <3>1. k = Len(sent)
      BY <2>1, SentFacts
    <3>2. r.bytes = <<>>
      BY <1>1, <3>1, NothingBehind
    <3>3. QED
      BY <1>1, <3>2
  <2>2. QED
    BY <2>1, SentFacts
<1>3. CASE r.size = 0
  <2> DEFINE b == r.bytes
             x == sent[k + 1]
  <2>1. k \in 0 .. Len(sent) - 1 /\ k + 1 \in 1 .. Intact /\ k + 1 \in 1 .. Len(sent)
    BY <1>2, SentFacts
  <2>2. Len(x) >= 4 /\ x \in Seq(Byte) /\ AnnouncedSize(x) = Len(x)
    BY <2>1, SentFacts
  <2>3. \A i \in 1 .. Len(b) : i =< Len(x) => b[i] = x[i]
    BY <1>1, <2>1, FrontBytes
  <2>4. AnnouncedSize(b) = AnnouncedSize(x)
    <3> HIDE DEF b, x
    <3>1. b \in Seq(Byte) /\ Len(b) >= 4
      BY <1>1 DEF b
    <3>2. 1 \in 1 .. Len(b) /\ 2 \in 1 .. Len(b) /\ 3 \in 1 .. Len(b) /\ 4 \in 1 .. Len(b)
      BY <3>1
    <3>3. b[1] = x[1] /\ b[2] = x[2] /\ b[3] = x[3] /\ b[4] = x[4]
      BY <2>2, <2>3, <3>2
    <3>4. QED
      BY <3>3 DEF AnnouncedSize
  <2>5. QED
    BY <1>2, <1>3, <2>2, <2>4 DEF Size
<1>4. CASE r.size # 0
  BY <1>2, <1>4 DEF SizeFits, Size
<1>5. QED
  BY <1>3, <1>4

\* r is what addBuffer's loop has made of base and of the bytes from the k-th package on.
Follows(base, k, r) ==
  /\ base \o r.packages = Among(sent, k)
  /\ Begins(k, r.bytes)
  /\ SizeFits(k, r.size)

\* It comes to s, either on the stream or past its end.
Lands(base, k, r, s) ==
  \/ \E j \in k .. Intact :
       /\ base \o s.packages = Among(sent, j)
       /\ Flat(sent, j) \o s.bytes = Flat(sent, k) \o r.bytes
       /\ SizeFits(j, s.size)
  \/ ZeroSent /\ IsPrefix(Expected, base \o s.packages)

\* So nothing is lost of what was handled before the end of the stream.
LEMMA PastTheEnd ==
  ASSUME SentOnes, ZeroSent, NEW base \in Seq(Seq(Byte)), NEW r \in Readers,
         IsPrefix(Expected, base \o r.packages)
  PROVE  IsPrefix(Expected, base \o Scan[r].packages)
<1>1. PICK more \in Seq(Seq(Byte)) : Scan[r].packages = r.packages \o more
  BY ScanKeeps
<1> DEFINE e == Expected
           q == r.packages
           t == base \o q
<1>2. e \in Seq(Seq(Byte)) /\ q \in Seq(Seq(Byte)) /\ t \in Seq(Seq(Byte))
  <2>1. e \in Seq(Seq(Byte))
    BY SentFacts, AmongStep DEF Expected
  <2>2. q \in Seq(Seq(Byte))
    BY DEF Readers
  <2>3. QED
    BY <2>1, <2>2, ConcatProperties
<1>3. PICK rest \in Seq(Seq(Byte)) : e \o rest = t
  BY <1>2, PrefixRest
<1>4. base \o Scan[r].packages = t \o more
  <2> HIDE DEF q
  <2>1. base \o (q \o more) = (base \o q) \o more
    BY <1>1, <1>2, Regroup
  <2>2. QED
    BY <1>1, <2>1 DEF q
<1> HIDE DEF e, q, t
<1>5. t \o more = e \o (rest \o more) /\ rest \o more \in Seq(Seq(Byte))
  <2>1. (e \o rest) \o more = e \o (rest \o more)
    BY <1>2, Regroup
  <2>2. QED
    BY <1>3, <2>1, ConcatProperties
<1>6. t \o more \in Seq(Seq(Byte))
  BY <1>2, ConcatProperties
<1>7. IsPrefix(e, t \o more)
  BY <1>2, <1>5, <1>6, PrefixRest
<1>8. QED
  BY <1>4, <1>7 DEF e

\* One package is cut off: the next of those sent.
LEMMA CutFollows ==
  ASSUME SentOnes, NEW base \in Seq(Seq(Byte)), NEW k \in 0 .. Intact, NEW r \in Readers,
         Follows(base, k, r), Cuts(r), k < Intact, Size(r) = Len(sent[k + 1])
  PROVE  /\ Follows(base, k + 1, Cut(r))
         /\ Flat(sent, k + 1) \o Cut(r).bytes = Flat(sent, k) \o r.bytes
<1> DEFINE a == Flat(sent, k)
           x == sent[k + 1]
           b == r.bytes
           d == Drop(b, Size(r))
           f == SubSeq(b, 1, Size(r))
           q == r.packages
<1>1. /\ k \in 0 .. Len(sent) - 1 /\ k \in 0 .. Len(sent) /\ k + 1 \in 1 .. Len(sent)
      /\ sent \in Seq(Seq(Byte)) /\ Size(r) \in 0 .. Len(b)
      /\ b \in Seq(Byte) /\ q \in Seq(Seq(Byte))
  <2>1. sent \in Seq(Seq(Byte)) /\ Intact \in 0 .. Len(sent) /\ Len(sent) \in Nat
    BY SentFacts
  <2>2. b \in Seq(Byte) /\ q \in Seq(Seq(Byte))
    BY DEF Readers
  <2>3. Size(r) \in 0 .. Len(b)
    <3>1. Size(r) \in 1 .. Len(b)
      BY CutShrinks
    <3>2. QED
      BY <3>1
  <2>4. QED
    BY <2>1, <2>2, <2>3
<1>2. a \in Seq(Byte) /\ x \in Seq(Byte)
  BY <1>1, FlatType, ElementOfSeq
<1>3. /\ f \in Seq(Byte) /\ Len(f) = Size(r) /\ \A i \in 1 .. Size(r) : f[i] = b[i]
      /\ d \in Seq(Byte) /\ f \o d = b
  BY <1>1, FirstAndDrop
<1>4. f = x
  <2>1. Begins(k, b)
    BY DEF Follows
  <2>2. \A i \in 1 .. Len(b) : i =< Len(x) => b[i] = x[i]
    BY <1>1, <2>1, FrontBytes
  <2>3. \A i \in 1 .. Len(f) : f[i] = x[i]
    BY <1>1, <1>3, <2>2
  <2>4. Len(f) = Len(x)
    BY <1>3
  <2> HIDE DEF f, x
  <2>5. QED
    BY <1>2, <1>3, <2>3, <2>4, SeqEqual
<1>5. Flat(sent, k + 1) = a \o x
  BY <1>1, FlatStep
<1>6. Flat(sent, k + 1) \o d = a \o b
  <2> HIDE DEF a, x, b, d, f
  <2>1. (a \o x) \o d = a \o (x \o d)
    BY <1>2, <1>3, Regroup
  <2>2. QED
    BY <1>3, <1>4, <1>5, <2>1
<1>7. Cut(r).bytes = d /\ Cut(r).size = 0
      /\ Cut(r).packages = IF IsPackage(Len(x)) THEN Append(q, x) ELSE q
  BY <1>4 DEF Cut
<1>8. Begins(k + 1, Cut(r).bytes)
  BY <1>6, <1>7 DEF Follows, Begins
<1>9. base \o Cut(r).packages = Among(sent, k + 1)
  <2>1. base \o q = Among(sent, k)
    BY DEF Follows
  <2>2. Among(sent, k + 1) = IF Len(x) > 8 THEN Append(base \o q, x) ELSE base \o q
    BY <1>1, <2>1, AmongStep
  <2> HIDE DEF q, x
  <2>3. base \o Append(q, x) = Append(base \o q, x)
    <3>1. Append(q, x) = q \o <<x>> /\ <<x>> \in Seq(Seq(Byte))
      BY <1>1, <1>2, AppendIsConcat
    <3>2. base \o q \in Seq(Seq(Byte))
      BY <1>1, ConcatProperties
    <3>3. Append(base \o q, x) = (base \o q) \o <<x>>
      BY <1>2, <3>2, AppendIsConcat
    <3>4. (base \o q) \o <<x>> = base \o (q \o <<x>>)
      <4> DEFINE y == <<x>>
      <4>1. y \in Seq(Seq(Byte))
        BY <3>1
      <4> HIDE DEF y
      <4>2. (base \o q) \o y = base \o (q \o y)
        BY <1>1, <4>1, Regroup
      <4>3. QED
        BY <4>2 DEF y
    <3>5. QED
      BY <3>1, <3>3, <3>4
  <2>4. QED
    BY <1>7, <2>2, <2>3 DEF IsPackage
<1>10. SizeFits(k + 1, Cut(r).size)
  BY <1>7 DEF SizeFits
<1>11. QED
  BY <1>6, <1>7, <1>8, <1>9, <1>10 DEF Follows

\* addBuffer's loop stays on the stream, or reaches its end.
LEMMA ScanFollows ==
  ASSUME SentOnes, NEW base \in Seq(Seq(Byte))
  PROVE  \A r \in Readers : \A k \in 0 .. Intact : Follows(base, k, r) => Lands(base, k, r, Scan[r])
<1> DEFINE Right(r) == \A k \in 0 .. Intact : Follows(base, k, r) => Lands(base, k, r, Scan[r])
           S == {n \in Nat : \A r \in Readers : Len(r.bytes) = n => Right(r)}
<1>0. Intact \in 0 .. Len(sent) /\ Len(sent) \in Nat /\ sent \in Seq(Seq(Byte))
  BY SentFacts
<1>1. ASSUME NEW n \in Nat, \A m \in 0 .. n - 1 : m \in S
      PROVE  n \in S
  <2>1. ASSUME NEW r \in Readers, Len(r.bytes) = n, NEW k \in 0 .. Intact, Follows(base, k, r)
        PROVE  Lands(base, k, r, Scan[r])
    <3>1. CASE k = Intact /\ ZeroSent
      <4>1. base \o r.packages = Expected /\ Expected \in Seq(Seq(Byte))
        BY <1>0, <2>1, <3>1, AmongStep DEF Follows, Expected
      <4>2. IsPrefix(Expected, base \o r.packages)
        <5>1. Expected \o <<>> = Expected /\ <<>> \in Seq(Seq(Byte))
          BY <4>1, ConcatEmptySeq, EmptySeq
        <5>2. QED
          BY <4>1, <5>1, PrefixRest
      <4>3. IsPrefix(Expected, base \o Scan[r].packages)
        BY <3>1, <4>2, PastTheEnd
      <4>4. QED
        BY <3>1, <4>3 DEF Lands
    <3>2. CASE ~ (k = Intact /\ ZeroSent) /\ Cuts(r)
      <4>1. k < Intact /\ Size(r) = Len(sent[k + 1])
        <5>1. Enters(r) /\ (k = Intact => ~ ZeroSent)
          BY <3>2 DEF Cuts
        <5>2. Begins(k, r.bytes) /\ SizeFits(k, r.size)
          BY <2>1 DEF Follows
        <5>3. QED
          BY <5>1, <5>2, SizeIsLength
      <4>2. /\ Follows(base, k + 1, Cut(r))
            /\ Flat(sent, k + 1) \o Cut(r).bytes = Flat(sent, k) \o r.bytes
        BY <2>1, <3>2, <4>1, CutFollows
      <4>3. /\ Cut(r) \in Readers /\ Len(Cut(r).bytes) \in 0 .. n - 1
            /\ Scan[r] = Scan[Cut(r)] /\ k + 1 \in 0 .. Intact
        BY <1>0, <2>1, <3>2, <4>1, CutShrinks, ScanStepwise DEF Readers
      <4>4. Lands(base, k + 1, Cut(r), Scan[Cut(r)])
        BY <1>1, <4>2, <4>3
      <4>5. ASSUME NEW j \in k + 1 .. Intact PROVE j \in k .. Intact
        BY <1>0
      <4>6. QED
        BY <4>2, <4>3, <4>4, <4>5 DEF Lands
    <3>3. CASE ~ (k = Intact /\ ZeroSent) /\ ~ Cuts(r)
      <4>1. Scan[r] = Left(r) /\ k \in k .. Intact
        BY <1>0, <3>3, ScanStepwise
      <4>2. CASE ~ Enters(r)
        <5>1. Left(r) = r
          BY <4>2 DEF Left
        <5>2. QED
          BY <2>1, <4>1, <5>1 DEF Lands, Follows
      <4>3. CASE Enters(r)
        <5>1. k < Intact /\ Size(r) = Len(sent[k + 1])
          <6>1. Begins(k, r.bytes) /\ SizeFits(k, r.size) /\ (k = Intact => ~ ZeroSent)
            BY <2>1, <3>3 DEF Follows
          <6>2. QED
            BY <4>3, <6>1, SizeIsLength
        <5>2. Size(r) # 0
          <6>1. k + 1 \in 1 .. Len(sent)
            BY <1>0, <5>1
          <6>2. Len(sent[k + 1]) >= 4
            BY <6>1, SentFacts
          <6>3. QED
            BY <5>1, <6>2
        <5>3. Left(r) = [bytes |-> r.bytes, size |-> Size(r), packages |-> r.packages]
          BY <4>3, <5>2 DEF Left
        <5>4. SizeFits(k, Left(r).size) /\ Left(r).bytes = r.bytes /\ Left(r).packages = r.packages
          BY <5>1, <5>3 DEF SizeFits
        <5>5. QED
          BY <2>1, <4>1, <5>4 DEF Lands, Follows
      <4>4. QED
        BY <4>2, <4>3
    <3>4. QED
      BY <3>1, <3>2, <3>3
  <2>2. QED
    BY <2>1
<1>2. Nat \subseteq S
  BY <1>1, Induction
<1>3. \A r \in Readers : Len(r.bytes) \in Nat
  BY DEF Readers
<1>4. QED
  BY <1>2, <1>3

-----------------------------------------------------------------------------
(* The invariant, and the abstract stream.                                   *)

\* The bytes that are on their way to the packages: in the cache, read, in the queue, on the wire.
Pending == (cache \o buf) \o (queue \o wire)

\* The packages handled are those of the first k, and what is pending comes next.
OnStream(k) ==
  /\ handled = Among(sent, k)
  /\ pc # "closed" =>
       /\ Begins(k, Pending)
       /\ ~ reset => Flat(sent, k) \o Pending = Flat(sent, Len(sent))
       /\ SizeFits(k, pkage_size)

\* A header of size zero has been reached: all before it is handled, whatever comes after.
PastEnd == ZeroSent /\ IsPrefix(Expected, handled)

\* The inductive invariant.
Consistent ==
  /\ Fits
  /\ SentOnes
  /\ pc = "wait" => buf = <<>>
  /\ PastEnd \/ \E k \in 0 .. Intact : OnStream(k)

\* A step that sends nothing leaves the promise alone.
LEMMA SentSame ==
  ASSUME sent' = sent
  PROVE  /\ Zeros' = Zeros /\ ZeroSent' = ZeroSent /\ Intact' = Intact /\ Expected' = Expected
         /\ SentOnes' = SentOnes
         /\ \A k, bytes : Begins(k, bytes)' = Begins(k, bytes) /\ SizeFits(k, bytes)' = SizeFits(k, bytes)
BY DEF Zeros, ZeroSent, Intact, Expected, SentOnes, Begins, SizeFits

\* On the stream, the handlers have seen the packages among the first k.
LEMMA SeenOnStream ==
  ASSUME Consistent, NEW k \in 0 .. Intact, OnStream(k)
  PROVE  Seen = Among(sent, k)
<1> DEFINE e == Expected
           h == handled
<1>1. h \in Seq(Seq(Byte)) /\ e \in Seq(Seq(Byte)) /\ Len(h) =< Len(e) /\ h = Among(sent, k)
  <2>1. sent \in Seq(Seq(Byte)) /\ k \in 0 .. Len(sent) /\ Intact \in k .. Len(sent)
    BY SentFacts DEF Consistent
  <2>2. Among(sent, k) \in Seq(Seq(Byte)) /\ e \in Seq(Seq(Byte)) /\ Len(Among(sent, k)) =< Len(e)
    BY <2>1, AmongStep, AmongSplit DEF Expected
  <2>3. QED
    BY <2>2 DEF OnStream
<1>2. Seen = IF ZeroSent THEN SubSeq(h, 1, Min({Len(h), Len(e)})) ELSE h
  BY DEF Seen
<1> HIDE DEF e, h
<1>3. SubSeq(h, 1, Min({Len(h), Len(e)})) = h
  BY <1>1, FirstOfBoth
<1>4. QED
  BY <1>1, <1>2, <1>3

\* Past its end, all of before the end.
LEMMA SeenPastEnd ==
  ASSUME Consistent, PastEnd
  PROVE  Seen = Among(sent, Intact)
<1> DEFINE e == Expected
           h == handled
<1>1. h \in Seq(Seq(Byte)) /\ e \in Seq(Seq(Byte)) /\ IsPrefix(e, h) /\ ZeroSent /\ e = Among(sent, Intact)
  <2>1. sent \in Seq(Seq(Byte)) /\ Intact \in 0 .. Len(sent)
    BY SentFacts DEF Consistent
  <2>2. QED
    BY <2>1, AmongStep DEF Expected, PastEnd, Consistent, Fits, TypeOK
<1>2. Seen = IF ZeroSent THEN SubSeq(h, 1, Min({Len(h), Len(e)})) ELSE h
  BY DEF Seen
<1> HIDE DEF e, h
<1>3. SubSeq(h, 1, Min({Len(h), Len(e)})) = e
  BY <1>1, FirstOfBoth
<1>4. QED
  BY <1>1, <1>2, <1>3

\* Whatever the handlers see more of the packages sent is one step of the abstract stream.
LEMMA HandleStep ==
  ASSUME SentOnes, sent' = sent, NEW k \in 0 .. Intact, NEW j \in k .. Intact,
         Seen = Among(sent, k), Seen' = Among(sent, j), pc = "read", pc' = "wait"
  PROVE  [Stream!Next]_Stream!streamVars
<1> DEFINE a == Among(sent, k)
           b == Among(sent, j)
           e == Expected
<1>1. sent \in Seq(Seq(Byte)) /\ Intact \in 0 .. Len(sent)
  BY SentFacts
<1>2. /\ k \in 0 .. Len(sent) /\ j \in k .. Len(sent) /\ j \in 0 .. Len(sent)
      /\ Intact \in j .. Len(sent)
  BY <1>1
<1>3. a \in Seq(Seq(Byte)) /\ b \in Seq(Seq(Byte)) /\ e \in Seq(Seq(Byte))
  BY <1>1, <1>2, AmongStep DEF Expected
<1>4. IsPrefix(a, b) /\ IsPrefix(b, e)
  BY <1>1, <1>2, AmongSplit DEF Expected
<1>5. Expected' = Expected /\ Seen = a /\ Seen' = b
  BY SentSame
<1> HIDE DEF a, b, e
<1>6. Len(a) \in Nat /\ Len(b) \in Nat /\ Len(e) \in Nat /\ Len(a) =< Len(b) /\ Len(b) =< Len(e)
  BY <1>3, <1>4 DEF IsPrefix
<1>7. b = SubSeq(e, 1, Len(b))
  BY <1>3, <1>4, SubSeqFull DEF IsPrefix
<1>8. CASE Len(a) = Len(b)
  <2>1. SubSeq(a, 1, Len(a)) = a /\ SubSeq(b, 1, Len(b)) = b
    BY <1>3, SubSeqFull
  <2>2. a = b
    BY <1>4, <1>8, <2>1 DEF IsPrefix
  <2>3. QED
    BY <1>5, <2>2 DEF Stream!streamVars
<1>9. CASE Len(a) # Len(b)
  <2>1. Len(b) \in Len(a) + 1 .. Len(e)
    BY <1>6, <1>9
  <2>2. \E n \in Len(Seen) + 1 .. Len(Expected) : Seen' = SubSeq(Expected, 1, n)
    BY <1>5, <1>7, <2>1 DEF e
  <2>3. Stream!Handle
    BY <1>5, <2>2 DEF Stream!Handle
  <2>4. QED
    BY <2>3 DEF Stream!Next
<1>10. QED
  BY <1>8, <1>9

\* One package more on the wire.
LEMMA IntactGrows ==
  ASSUME SentOnes, NEW x \in Packages, sent' = Append(sent, x)
  PROVE  /\ SentOnes'
         /\ ZeroSent \/ x = ZeroHeader => ZeroSent' /\ Intact' = Intact
         /\ ~ (ZeroSent \/ x = ZeroHeader) => ~ ZeroSent' /\ Intact' = Len(sent) + 1
<1>1. /\ sent \in Seq(Seq(Byte)) /\ x \in Seq(Byte)
  BY SentFacts, PackageFacts
<1>2. /\ Len(sent') = Len(sent) + 1 /\ sent'[Len(sent) + 1] = x /\ sent' \in Seq(Seq(Byte))
      /\ \A i \in 1 .. Len(sent) : sent'[i] = sent[i]
  BY <1>1, OneMore
<1>3. SentOnes'
  BY DEF SentOnes
<1>4. /\ Zeros = {i \in 1 .. Len(sent) : sent[i] = ZeroHeader}
      /\ Zeros' = {i \in 1 .. Len(sent) + 1 : sent'[i] = ZeroHeader}
  <2>1. DOMAIN sent = 1 .. Len(sent) /\ DOMAIN sent' = 1 .. Len(sent) + 1
    BY <1>1, <1>2
  <2>2. ZeroHeader' = ZeroHeader
    BY DEF ZeroHeader, Encode, Header
  <2>3. QED
    BY <2>1, <2>2 DEF Zeros
<1>5. Zeros' = Zeros \cup (IF x = ZeroHeader THEN {Len(sent) + 1} ELSE {})
  BY <1>1, <1>2, <1>4
<1>6. Zeros \in SUBSET (1 .. Len(sent)) /\ Len(sent) \in Nat
  BY <1>1, <1>4
<1>7. CASE ZeroSent
  <2>1. ZeroSent'
    BY <1>5, <1>7 DEF ZeroSent
  <2>2. Min(Zeros) \in Zeros /\ \A y \in Zeros : Min(Zeros) =< y
    BY <1>6, <1>7, MinIsLeast DEF ZeroSent
  <2>3. Zeros' \in SUBSET Nat /\ Zeros' # {}
    <3>1. Zeros' \in SUBSET Nat
      BY <1>4, <1>6
    <3>2. QED
      BY <2>1, <3>1 DEF ZeroSent
  <2>4. Min(Zeros') \in Zeros' /\ \A y \in Zeros' : Min(Zeros') =< y
    BY <2>3, MinIsLeast
  <2>5. Min(Zeros) \in 1 .. Len(sent)
    BY <1>6, <2>2
  <2>6. Min(Zeros') \in Nat /\ Min(Zeros') =< Min(Zeros) /\ Min(Zeros) =< Min(Zeros')
    <3>1. Min(Zeros) \in Zeros'
      BY <1>5, <2>2
    <3>2. \A y \in Zeros' : Min(Zeros) =< y
      BY <1>5, <1>6, <2>2, <2>5
    <3>3. QED
      BY <2>3, <2>4, <3>1, <3>2
  <2>7. Min(Zeros') = Min(Zeros)
    BY <2>5, <2>6
  <2>8. Intact' = Min(Zeros') - 1 /\ Intact = Min(Zeros) - 1
    BY <1>7, <2>1 DEF Intact
  <2>9. QED
    BY <1>3, <1>7, <2>1, <2>7, <2>8
<1>8. CASE ~ ZeroSent /\ x = ZeroHeader
  <2>1. Zeros' = {Len(sent) + 1}
    BY <1>5, <1>8 DEF ZeroSent
  <2>2. Zeros' \in SUBSET Nat /\ Zeros' # {}
    BY <1>6, <2>1
  <2>3. Min(Zeros') = Len(sent) + 1
    BY <2>1, <2>2, MinIsLeast
  <2>4. ZeroSent'
    BY <2>1 DEF ZeroSent
  <2>5. Intact' = (Len(sent) + 1) - 1 /\ Intact = Len(sent)
    BY <1>8, <2>3, <2>4 DEF Intact
  <2>6. QED
    BY <1>3, <1>6, <1>8, <2>4, <2>5
<1>9. CASE ~ ZeroSent /\ x # ZeroHeader
  <2>1. ~ ZeroSent'
    BY <1>5, <1>9 DEF ZeroSent
  <2>2. Intact' = Len(sent')
    BY <2>1 DEF Intact
  <2>3. QED
    BY <1>2, <1>3, <1>9, <2>1, <2>2
<1>10. QED
  BY <1>7, <1>8, <1>9

-----------------------------------------------------------------------------
(* The steps.                                                                *)

\* They are bytes.
LEMMA PendingParts ==
  ASSUME TypeOK
  PROVE  /\ cache \in Seq(Byte) /\ buf \in Seq(Byte) /\ queue \in Seq(Byte) /\ wire \in Seq(Byte)
         /\ cache \o buf \in Seq(Byte) /\ queue \o wire \in Seq(Byte) /\ Pending \in Seq(Byte)
BY ConcatProperties DEF TypeOK, Pending

\* A step that only moves bytes along keeps the stream.
LEMMA QuietStep ==
  ASSUME Consistent, Fits', UNCHANGED <<sent, handled, pkage_size, reset>>,
         pc' # "closed" => pc # "closed" /\ Pending' = Pending,
         pc' = "wait" => buf' = <<>>
  PROVE  Consistent'
<1>1. /\ ZeroSent' = ZeroSent /\ Intact' = Intact /\ Expected' = Expected /\ SentOnes' = SentOnes
      /\ \A k, bytes : Begins(k, bytes)' = Begins(k, bytes) /\ SizeFits(k, bytes)' = SizeFits(k, bytes)
  BY SentSame
<1>2. PastEnd => PastEnd'
  BY <1>1 DEF PastEnd
<1>3. ASSUME NEW k \in 0 .. Intact, OnStream(k)
      PROVE  k \in 0 .. Intact' /\ OnStream(k)'
  <2>1. handled' = Among(sent', k)
    BY <1>3 DEF OnStream
  <2>2. ASSUME pc' # "closed"
        PROVE  /\ Begins(k, Pending)'
               /\ ~ reset' => Flat(sent', k) \o Pending' = Flat(sent', Len(sent'))
               /\ SizeFits(k, pkage_size)'
    <3>1. pc # "closed" /\ Pending' = Pending
      BY <2>2
    <3>2. Begins(k, Pending)'
      <4>1. Begins(k, Pending)
        BY <1>3, <3>1 DEF OnStream
      <4>2. QED
        BY <3>1, <4>1 DEF Begins
    <3>3. SizeFits(k, pkage_size)'
      <4>1. SizeFits(k, pkage_size)
        BY <1>3, <3>1 DEF OnStream
      <4>2. QED
        BY <1>1, <4>1 DEF SizeFits
    <3>4. QED
      BY <1>3, <3>1, <3>2, <3>3 DEF OnStream
  <2>3. QED
    BY <1>1, <2>1, <2>2 DEF OnStream
<1>4. QED
  BY <1>1, <1>2, <1>3 DEF Consistent

\* An arrival moves bytes from the wire to the queue.
LEMMA ArriveMoves ==
  ASSUME TypeOK, Arrive
  PROVE  Pending' = Pending
<1>1. PICK n \in 1 .. Len(wire) : queue' = queue \o SubSeq(wire, 1, n) /\ wire' = Drop(wire, n)
  BY DEF Arrive
<1> DEFINE f == SubSeq(wire, 1, n)
           d == Drop(wire, n)
<1>2. n \in 0 .. Len(wire)
  BY <1>1 DEF TypeOK
<1>3. f \in Seq(Byte) /\ d \in Seq(Byte) /\ f \o d = wire
  BY <1>2, FirstAndDrop DEF TypeOK
<1>4. queue' \o wire' = (queue \o f) \o d
  BY <1>1
<1> HIDE DEF f, d
<1>5. (queue \o f) \o d = queue \o (f \o d)
  <2>1. queue \in Seq(Byte)
    BY PendingParts
  <2>2. QED
    BY <1>3, <2>1, Regroup
<1>6. queue' \o wire' = queue \o wire /\ cache' = cache /\ buf' = buf
  BY <1>3, <1>4, <1>5 DEF Arrive, reader
<1>7. QED
  BY <1>6 DEF Pending

\* A read moves bytes from the queue to the buffer.
LEMMA ReadMoves ==
  ASSUME TypeOK, Read
  PROVE  Pending' = Pending
<1> DEFINE n == Min({Room, Len(queue)})
           f == SubSeq(queue, 1, n)
           d == Drop(queue, n)
<1>1. Room \in Nat /\ Len(queue) \in Nat
  BY InboundAssumption DEF TypeOK, Room, Read
<1>2. n \in 0 .. Len(queue)
  BY <1>1, MinOfTwo
<1>3. buf' = buf \o f /\ queue' = d /\ wire' = wire /\ cache' = cache
  BY DEF Read, reader
<1> HIDE DEF n
<1>4. f \in Seq(Byte) /\ d \in Seq(Byte) /\ f \o d = queue
  BY <1>2, FirstAndDrop, PendingParts
<1> HIDE DEF f, d
<1>5. /\ cache \o (buf \o f) = (cache \o buf) \o f
      /\ cache \o buf \in Seq(Byte) /\ d \o wire \in Seq(Byte)
  <2>1. cache \in Seq(Byte) /\ buf \in Seq(Byte) /\ wire \in Seq(Byte)
    BY PendingParts
  <2>2. cache \o (buf \o f) = (cache \o buf) \o f
    BY <1>4, <2>1, Regroup
  <2>3. QED
    BY <1>4, <2>1, <2>2, ConcatProperties
<1> DEFINE h == cache \o buf
           t == d \o wire
<1>6. h \in Seq(Byte) /\ t \in Seq(Byte)
  BY <1>5
<1>7. f \o t = queue \o wire
  <2>1. (f \o d) \o wire = f \o (d \o wire)
    <3>1. wire \in Seq(Byte)
      BY PendingParts
    <3>2. QED
      BY <1>4, <3>1, Regroup
  <2>2. QED
    BY <1>4, <2>1
<1>8. Pending' = (h \o f) \o t
  BY <1>3, <1>5 DEF Pending
<1>9. Pending = h \o (queue \o wire)
  BY DEF Pending
<1> HIDE DEF h, t
<1>10. (h \o f) \o t = h \o (f \o t)
  BY <1>4, <1>6, Regroup
<1>11. QED
  BY <1>7, <1>8, <1>9, <1>10

\* A package is on its way.
LEMMA SendStep ==
  ASSUME Consistent, Fits', NEW size \in Sizes, Send(size)
  PROVE  /\ Consistent'
         /\ [Stream!Next]_Stream!streamVars
<1> DEFINE x == Encode(size, Len(sent) + 1)
           a == Flat(sent, Len(sent))
<1>1. /\ sent' = Append(sent, x) /\ wire' = wire \o x /\ ~ reset
      /\ UNCHANGED <<queue, ready, fin, reset, pc, buf, cache, pkage_size, alloc_size, handled>>
  BY DEF Send, reader
<1>2. x \in Packages /\ x \in Seq(Byte)
  <2>1. Len(sent) + 1 \in 1 .. MaxSent
    BY InboundAssumption DEF Send, Consistent, Fits, TypeOK
  <2>2. QED
    BY <2>1, PackageFacts DEF Packages
<1> HIDE DEF x
<1>3. /\ SentOnes /\ SentOnes' /\ sent \in Seq(Seq(Byte)) /\ Intact \in 0 .. Len(sent)
      /\ ZeroSent => Intact < Len(sent)
      /\ ~ ZeroSent => Intact = Len(sent)
  BY <1>1, <1>2, IntactGrows, SentFacts DEF Consistent
<1>4. /\ ZeroSent \/ x = ZeroHeader => ZeroSent' /\ Intact' = Intact
      /\ ~ (ZeroSent \/ x = ZeroHeader) => ~ ZeroSent' /\ Intact' = Len(sent) + 1
  BY <1>1, <1>2, <1>3, IntactGrows
<1>5. /\ Len(sent') = Len(sent) + 1 /\ \A i \in 1 .. Len(sent) : sent'[i] = sent[i]
      /\ \A n \in 0 .. Len(sent) : Among(sent', n) = Among(sent, n) /\ Flat(sent', n) = Flat(sent, n)
      /\ Flat(sent', Len(sent')) = a \o x
  <2> DEFINE q == sent'
  <2>1. q = Append(sent, x)
    BY <1>1
  <2> HIDE DEF q
  <2>2. /\ Len(q) = Len(sent) + 1 /\ \A i \in 1 .. Len(sent) : q[i] = sent[i]
        /\ \A m \in 0 .. Len(sent) : Among(q, m) = Among(sent, m) /\ Flat(q, m) = Flat(sent, m)
        /\ Flat(q, Len(q)) = Flat(sent, Len(sent)) \o x
    <3> DEFINE p == sent
    <3>1. p \in Seq(Seq(Byte)) /\ q = Append(p, x)
      BY <1>3, <2>1
    <3> HIDE DEF p
    <3>2. /\ Len(q) = Len(p) + 1 /\ \A i \in 1 .. Len(p) : q[i] = p[i]
      BY <1>2, <3>1, OneMore
    <3>3. \A m \in 0 .. Len(p) : Among(q, m) = Among(p, m) /\ Flat(q, m) = Flat(p, m)
      BY <1>2, <3>1, OneMore
    <3>4. Flat(q, Len(q)) = Flat(p, Len(p)) \o x
      BY <1>2, <3>1, OneMore
    <3>5. QED
      BY <3>2, <3>3, <3>4 DEF p
  <2>3. QED
    BY <2>2 DEF q
<1>6. ASSUME NEW k \in 0 .. Intact, OnStream(k)
      PROVE  k \in 0 .. Intact' /\ OnStream(k)'
  <2>1. k \in 0 .. Intact' /\ k \in 0 .. Len(sent)
    BY <1>3, <1>4
  <2>2. handled' = Among(sent', k)
    BY <1>1, <1>5, <1>6, <2>1 DEF OnStream
  <2>3. ASSUME pc' # "closed"
        PROVE  /\ Begins(k, Pending)'
               /\ ~ reset' => Flat(sent', k) \o Pending' = Flat(sent', Len(sent'))
               /\ SizeFits(k, pkage_size)'
    <3> DEFINE b == Flat(sent, k)
               p == Pending
    <3>1. b \o p = a /\ SizeFits(k, pkage_size)
      BY <1>1, <1>6, <2>3 DEF OnStream
    <3>2. b \in Seq(Byte) /\ p \in Seq(Byte) /\ a \in Seq(Byte)
      BY <1>3, <2>1, FlatType, PendingParts DEF Consistent, Fits
    <3>3. Pending' = p \o x
      <4> DEFINE h == cache \o buf
                 q == queue
                 w == wire
      <4>1. h \in Seq(Byte) /\ q \in Seq(Byte) /\ w \in Seq(Byte) /\ q \o w \in Seq(Byte)
        BY PendingParts DEF Consistent, Fits
      <4>2. Pending' = h \o (q \o (w \o x)) /\ p = h \o (q \o w)
        BY <1>1 DEF Pending
      <4> HIDE DEF h, q, w, p
      <4>3. q \o (w \o x) = (q \o w) \o x
        BY <1>2, <4>1, Regroup
      <4>4. h \o ((q \o w) \o x) = (h \o (q \o w)) \o x
        BY <1>2, <4>1, Regroup
      <4>5. QED
        BY <4>2, <4>3, <4>4
    <3>4. Flat(sent', k) \o Pending' = Flat(sent', Len(sent'))
      <4>1. Flat(sent', k) = b
        BY <1>5, <2>1
      <4> HIDE DEF a, b, p
      <4>2. b \o (p \o x) = (b \o p) \o x
        BY <1>2, <3>2, Regroup
      <4>3. QED
        BY <1>5, <3>1, <3>3, <4>1, <4>2
    <3>5. Begins(k, Pending)'
      <4> DEFINE t == Flat(sent', Len(sent'))
      <4>1. t \in Seq(Byte)
        BY <1>2, <1>5, <3>2, ConcatProperties
      <4>2. t \o <<>> = t /\ <<>> \in Seq(Byte)
        BY <4>1, ConcatEmptySeq, EmptySeq
      <4>3. QED
        BY <3>4, <4>2 DEF Begins
    <3>6. SizeFits(k, pkage_size)'
      <4>1. CASE pkage_size # 0
        <5>1. k < Intact /\ pkage_size = Len(sent[k + 1])
          BY <3>1, <4>1 DEF SizeFits
        <5>2. k + 1 \in 1 .. Len(sent) /\ k < Intact'
          BY <1>3, <1>4, <2>1, <5>1
        <5>3. sent'[k + 1] = sent[k + 1]
          BY <1>5, <5>2
        <5>4. QED
          BY <1>1, <5>1, <5>2, <5>3 DEF SizeFits
      <4>2. CASE pkage_size = 0
        BY <1>1, <4>2 DEF SizeFits
      <4>3. QED
        BY <4>1, <4>2
    <3>7. QED
      BY <3>4, <3>5, <3>6
  <2>4. QED
    BY <2>1, <2>2, <2>3 DEF OnStream
<1>7. ZeroSent => Expected' = Expected
  BY <1>3, <1>4, <1>5 DEF Expected
<1>8. PastEnd => PastEnd'
  BY <1>1, <1>4, <1>7 DEF PastEnd
<1>9. Consistent'
  <2>1. (pc = "wait" => buf = <<>>)'
    BY <1>1 DEF Consistent
  <2>2. (PastEnd \/ \E k \in 0 .. Intact : OnStream(k))'
    BY <1>6, <1>8 DEF Consistent
  <2>3. QED
    BY <1>3, <2>1, <2>2 DEF Consistent
<1>10. (pc = "closed")' = (pc = "closed")
  BY <1>1
<1>11. CASE ZeroSent
  <2>1. Seen' = Seen
    BY <1>1, <1>4, <1>7, <1>11 DEF Seen
  <2>2. QED
    BY <1>7, <1>9, <1>10, <1>11, <2>1 DEF Stream!streamVars
<1>12. CASE ~ ZeroSent /\ x = ZeroHeader
  <2>1. Expected' = Expected
    BY <1>3, <1>4, <1>5, <1>12 DEF Expected
  <2>2. ~ PastEnd
    BY <1>12 DEF PastEnd
  <2>3. PICK k \in 0 .. Intact : OnStream(k)
    BY <2>2 DEF Consistent
  <2>4. Seen = handled
    BY <1>12 DEF Seen
  <2>5. Seen' = handled'
    <3> DEFINE e == Expected
               h == handled
    <3>1. ZeroSent' /\ h' = h /\ e' = e
      BY <1>1, <1>4, <1>12, <2>1
    <3>2. h \in Seq(Seq(Byte)) /\ e \in Seq(Seq(Byte)) /\ Len(h) =< Len(e)
      <4>1. k \in 0 .. Len(sent) /\ Intact \in k .. Len(sent)
        BY <1>3
      <4>2. Among(sent, k) \in Seq(Seq(Byte)) /\ e \in Seq(Seq(Byte)) /\ Len(Among(sent, k)) =< Len(e)
        BY <1>3, <4>1, AmongStep, AmongSplit DEF Expected
      <4>3. QED
        BY <2>3, <4>2 DEF OnStream
    <3>3. Seen' = SubSeq(h', 1, Min({Len(h'), Len(e')}))
      BY <3>1 DEF Seen
    <3>4. Seen' = SubSeq(h, 1, Min({Len(h), Len(e)}))
      BY <3>1, <3>3
    <3> HIDE DEF h, e
    <3>5. SubSeq(h, 1, Min({Len(h), Len(e)})) = h
      BY <3>2, FirstOfBoth
    <3>6. QED
      BY <3>1, <3>4, <3>5 DEF h
  <2>6. QED
    BY <1>1, <1>9, <1>10, <2>1, <2>4, <2>5 DEF Stream!streamVars
<1>13. CASE ~ ZeroSent /\ x # ZeroHeader
  <2>1. Seen' = Seen
    BY <1>1, <1>4, <1>13 DEF Seen
  <2>2. Expected' = IF Len(x) > 8 THEN Append(Expected, x) ELSE Expected
    <3> DEFINE n == Len(sent)
    <3>1. Intact = n /\ Intact' = n + 1 /\ n \in 0 .. Len(sent') - 1 /\ n \in 0 .. Len(sent)
      BY <1>3, <1>4, <1>5, <1>13
    <3>2. sent'[n + 1] = x /\ sent' \in Seq(Seq(Byte))
      BY <1>1, <1>2, <1>3, OneMore
    <3>3. Among(sent', n + 1) = IF Len(sent'[n + 1]) > 8 THEN Append(Among(sent', n), sent'[n + 1]) ELSE Among(sent', n)
      BY <3>1, <3>2, AmongStep
    <3>4. Among(sent', n) = Among(sent, n)
      BY <1>5, <3>1
    <3>5. QED
      BY <3>1, <3>2, <3>3, <3>4 DEF Expected
  <2>3. CASE Len(x) > 8
    <3>1. Expected' = Append(Expected, x)
      BY <2>2, <2>3
    <3>2. Stream!Send
      BY <1>2, <1>10, <2>1, <3>1 DEF Stream!Send
    <3>3. QED
      BY <1>9, <3>2 DEF Stream!Next
  <2>4. CASE ~ (Len(x) > 8)
    BY <1>9, <1>10, <2>1, <2>2, <2>4 DEF Stream!streamVars
  <2>5. QED
    BY <2>3, <2>4
<1>14. QED
  BY <1>9, <1>11, <1>12, <1>13

\* What is lost in a reset is lost at the end.
LEMMA ResetStep ==
  ASSUME Consistent, Fits', Reset
  PROVE  Consistent'
<1>1. /\ UNCHANGED <<sent, queue, fin, pc, buf, cache, pkage_size, alloc_size, handled>>
      /\ wire' = <<>> /\ reset' = TRUE /\ pc # "closed"
  BY DEF Reset, reader
<1>2. /\ ZeroSent' = ZeroSent /\ Intact' = Intact /\ Expected' = Expected /\ SentOnes' = SentOnes
      /\ \A k, bytes : Begins(k, bytes)' = Begins(k, bytes) /\ SizeFits(k, bytes)' = SizeFits(k, bytes)
  BY <1>1, SentSame
<1>3. PastEnd => PastEnd'
  BY <1>1, <1>2 DEF PastEnd
<1>4. ASSUME NEW k \in 0 .. Intact, OnStream(k)
      PROVE  OnStream(k)'
  <2>1. k \in 0 .. Len(sent) /\ sent \in Seq(Seq(Byte))
    BY SentFacts DEF Consistent
  <2> DEFINE a == Flat(sent, k)
             h == (cache \o buf) \o queue
             w == wire
             all == Flat(sent, Len(sent))
  <2>2. a \in Seq(Byte) /\ h \in Seq(Byte) /\ w \in Seq(Byte)
    <3>1. a \in Seq(Byte)
      BY <2>1, FlatType
    <3>2. cache \o buf \in Seq(Byte) /\ queue \in Seq(Byte) /\ w \in Seq(Byte)
      BY PendingParts DEF Consistent, Fits
    <3>3. QED
      BY <3>1, <3>2, ConcatProperties
  <2>3. Pending = h \o w /\ Pending' = h
    <3> DEFINE c == cache \o buf
               q == queue
    <3>1. c \in Seq(Byte) /\ q \in Seq(Byte)
      BY PendingParts DEF Consistent, Fits
    <3>2. Pending = c \o (q \o w) /\ Pending' = c \o (q \o <<>>)
      BY <1>1 DEF Pending
    <3> HIDE DEF c, q, w
    <3>3. c \o (q \o w) = (c \o q) \o w
      BY <2>2, <3>1, Regroup
    <3>4. q \o <<>> = q
      BY <3>1, ConcatEmptySeq
    <3>5. QED
      BY <3>2, <3>3, <3>4 DEF c, q
  <2>4. PICK rest \in Seq(Byte) : (a \o Pending) \o rest = all
    BY <1>1, <1>4 DEF OnStream, Begins
  <2>5. (a \o h) \o (w \o rest) = all /\ w \o rest \in Seq(Byte)
    <3> HIDE DEF a, h, w, all
    <3>1. (a \o (h \o w)) \o rest = all
      BY <2>3, <2>4
    <3>2. a \o (h \o w) = (a \o h) \o w
      BY <2>2, Regroup
    <3> DEFINE ah == a \o h
    <3>3. ah \in Seq(Byte)
      BY <2>2, ConcatProperties
    <3>4. (ah \o w) \o rest = ah \o (w \o rest)
      <4> HIDE DEF ah
      <4>1. QED
        BY <2>2, <2>4, <3>3, Regroup
    <3>5. QED
      BY <2>2, <2>4, <3>1, <3>2, <3>4, ConcatProperties
  <2>6. Begins(k, Pending)'
    <3> HIDE DEF h, w
    <3>1. (Flat(sent', k) \o Pending') \o (w \o rest) = Flat(sent', Len(sent'))
      BY <1>1, <2>3, <2>5
    <3>2. QED
      BY <2>5, <3>1 DEF Begins
  <2>7. SizeFits(k, pkage_size)'
    <3>1. SizeFits(k, pkage_size)
      BY <1>1, <1>4 DEF OnStream
    <3>2. QED
      BY <1>1, <1>2, <3>1 DEF SizeFits
  <2>8. handled' = Among(sent', k)
    BY <1>1, <1>4 DEF OnStream
  <2>9. QED
    BY <1>1, <2>6, <2>7, <2>8 DEF OnStream
<1>5. QED
  BY <1>1, <1>2, <1>3, <1>4 DEF Consistent

\* The read loop hands its bytes to addBuffer.
LEMMA ReceiveStep ==
  ASSUME Consistent, Fits', Receive
  PROVE  /\ Consistent'
         /\ [Stream!Next]_Stream!streamVars
<1> DEFINE r == [bytes |-> cache \o buf, size |-> pkage_size, packages |-> <<>>]
           s == Scan[r]
<1>1. /\ cache' = s.bytes /\ pkage_size' = s.size /\ handled' = handled \o s.packages
      /\ UNCHANGED <<sent, wire, queue, ready, fin, reset>>
      /\ pc = "read" /\ pc' = "wait" /\ buf' = <<>>
  BY DEF Receive, ReadEnds, AddBuffer, network
<1>2. r \in Readers /\ s \in Readers
  <2>1. r \in Readers
    BY PendingParts, EmptySeq DEF Readers, Consistent, Fits, TypeOK
  <2>2. QED
    BY <2>1, ScanShrinks
<1>3. /\ r.bytes = cache \o buf /\ r.size = pkage_size /\ r.packages = <<>>
      /\ handled \in Seq(Seq(Byte)) /\ handled \o r.packages = handled
      /\ r.bytes \in Seq(Byte) /\ s.bytes \in Seq(Byte) /\ s.packages \in Seq(Seq(Byte))
  <2>1. handled \in Seq(Seq(Byte))
    BY DEF Consistent, Fits, TypeOK
  <2>2. QED
    BY <1>2, <2>1, ConcatEmptySeq DEF Readers
<1> HIDE DEF r, s
<1>4. /\ ZeroSent' = ZeroSent /\ Intact' = Intact /\ Expected' = Expected /\ SentOnes' = SentOnes
      /\ \A k, bytes : Begins(k, bytes)' = Begins(k, bytes) /\ SizeFits(k, bytes)' = SizeFits(k, bytes)
  BY <1>1, SentSame
<1>5. /\ sent \in Seq(Seq(Byte)) /\ Intact \in 0 .. Len(sent) /\ SentOnes
  BY SentFacts DEF Consistent
<1>6. ASSUME PastEnd' PROVE Consistent'
  BY <1>1, <1>4, <1>5, <1>6 DEF Consistent
<1>7. ASSUME NEW j \in 0 .. Intact, OnStream(j)' PROVE Consistent'
  BY <1>1, <1>4, <1>5, <1>7 DEF Consistent
<1>8. ASSUME Consistent', PastEnd' PROVE Seen' = Among(sent, Intact)
  <2> DEFINE e == Expected
             h == handled'
  <2>1. h \in Seq(Seq(Byte)) /\ e \in Seq(Seq(Byte)) /\ IsPrefix(e, h) /\ e = Among(sent, Intact)
    BY <1>4, <1>5, <1>8, AmongStep DEF Expected, PastEnd, Consistent, Fits, TypeOK
  <2>2. Seen' = SubSeq(h, 1, Min({Len(h), Len(e)}))
    BY <1>4, <1>8 DEF Seen, PastEnd
  <2> HIDE DEF h, e
  <2>3. SubSeq(h, 1, Min({Len(h), Len(e)})) = e
    BY <2>1, FirstOfBoth
  <2>4. QED
    BY <2>1, <2>2, <2>3
<1>9. ASSUME NEW j \in 0 .. Intact, handled' = Among(sent, j) PROVE Seen' = Among(sent, j)
  <2> DEFINE e == Expected
             h == handled'
  <2>1. h \in Seq(Seq(Byte)) /\ e \in Seq(Seq(Byte)) /\ Len(h) =< Len(e) /\ h = Among(sent, j)
    <3>1. j \in 0 .. Len(sent) /\ Intact \in j .. Len(sent)
      BY <1>5
    <3>2. Among(sent, j) \in Seq(Seq(Byte)) /\ e \in Seq(Seq(Byte)) /\ Len(Among(sent, j)) =< Len(e)
      BY <1>5, <3>1, AmongStep, AmongSplit DEF Expected
    <3>3. QED
      BY <1>9, <3>2
  <2>2. Seen' = IF ZeroSent' THEN SubSeq(h, 1, Min({Len(h), Len(e)})) ELSE h
    BY <1>4 DEF Seen
  <2> HIDE DEF h, e
  <2>3. SubSeq(h, 1, Min({Len(h), Len(e)})) = h
    BY <2>1, FirstOfBoth
  <2>4. QED
    BY <2>1, <2>2, <2>3
<1>10. CASE PastEnd
  <2>1. IsPrefix(Expected, handled \o r.packages)
    BY <1>3, <1>10 DEF PastEnd
  <2>2. IsPrefix(Expected, handled \o Scan[r].packages)
    BY <1>2, <1>3, <1>5, <1>10, <2>1, PastTheEnd DEF PastEnd
  <2>3. PastEnd'
    BY <1>1, <1>4, <1>10, <2>2 DEF PastEnd, s
  <2>4. Consistent'
    BY <1>6, <2>3
  <2>5. Seen = Among(sent, Intact) /\ Seen' = Among(sent, Intact)
    BY <1>8, <1>10, <2>3, <2>4, SeenPastEnd
  <2>6. Intact \in 0 .. Intact /\ Intact \in Intact .. Intact
    BY <1>5
  <2>7. [Stream!Next]_Stream!streamVars
    BY <1>1, <1>5, <2>5, <2>6, HandleStep
  <2>8. QED
    BY <2>4, <2>7
<1>11. ASSUME NEW k \in 0 .. Intact, OnStream(k)
       PROVE  /\ Consistent'
              /\ [Stream!Next]_Stream!streamVars
  <2> DEFINE a == Flat(sent, k)
             t == queue \o wire
             b == r.bytes
             all == Flat(sent, Len(sent))
  <2>1. k \in 0 .. Len(sent) /\ a \in Seq(Byte) /\ t \in Seq(Byte) /\ b \in Seq(Byte)
    BY <1>3, <1>5, FlatType, PendingParts DEF Consistent, Fits
  <2>2. Pending = b \o t /\ a \o Pending = (a \o b) \o t
    <3>1. Pending = b \o t
      BY <1>3 DEF Pending
    <3> HIDE DEF a, b, t
    <3>2. (a \o b) \o t = a \o (b \o t)
      BY <2>1, Regroup
    <3>3. QED
      BY <3>1, <3>2
  <2>3. Follows(handled, k, r)
    <3>1. PICK rest \in Seq(Byte) : (a \o Pending) \o rest = all
      BY <1>1, <1>11 DEF OnStream, Begins
    <3>2. (a \o b) \o (t \o rest) = all /\ t \o rest \in Seq(Byte)
      <4> HIDE DEF a, b, t, all
      <4> DEFINE ab == a \o b
      <4>1. ab \in Seq(Byte)
        BY <2>1, ConcatProperties
      <4>2. (ab \o t) \o rest = all
        BY <2>2, <3>1
      <4>3. (ab \o t) \o rest = ab \o (t \o rest)
        <5> HIDE DEF ab
        <5>1. QED
          BY <2>1, <3>1, <4>1, Regroup
      <4>4. QED
        BY <2>1, <3>1, <4>2, <4>3, ConcatProperties
    <3>3. Begins(k, r.bytes)
      <4> HIDE DEF t
      <4>1. QED
        BY <3>2 DEF Begins
    <3>4. SizeFits(k, r.size) /\ handled \o r.packages = Among(sent, k)
      BY <1>1, <1>3, <1>11 DEF OnStream
    <3>5. QED
      BY <3>3, <3>4 DEF Follows
  <2>4. Lands(handled, k, r, s)
    BY <1>2, <1>3, <1>5, <2>3, ScanFollows DEF s
  <2>5. Seen = Among(sent, k)
    BY <1>11, SeenOnStream
  <2>6. CASE ZeroSent /\ IsPrefix(Expected, handled \o s.packages)
    <3>1. PastEnd'
      BY <1>1, <1>4, <2>6 DEF PastEnd
    <3>2. Consistent' /\ Seen' = Among(sent, Intact)
      BY <1>6, <1>8, <3>1
    <3>3. Intact \in k .. Intact
      BY <1>5
    <3>4. [Stream!Next]_Stream!streamVars
      BY <1>1, <1>5, <2>5, <3>2, <3>3, HandleStep
    <3>5. QED
      BY <3>2, <3>4
  <2>7. ASSUME NEW j \in k .. Intact,
               handled \o s.packages = Among(sent, j),
               Flat(sent, j) \o s.bytes = Flat(sent, k) \o r.bytes,
               SizeFits(j, s.size)
        PROVE  /\ Consistent'
               /\ [Stream!Next]_Stream!streamVars
    <3> DEFINE f == Flat(sent, j)
               c == s.bytes
    <3>1. j \in 0 .. Intact /\ j \in 0 .. Len(sent)
      BY <1>5
    <3>2. f \in Seq(Byte) /\ c \in Seq(Byte)
      BY <1>3, <1>5, <3>1, FlatType
    <3>3. Pending' = c \o t
      <4>1. c \o <<>> = c
        BY <3>2, ConcatEmptySeq
      <4>2. Pending' = (c \o <<>>) \o t
        BY <1>1 DEF Pending
      <4>3. QED
        BY <4>1, <4>2
    <3>4. f \o Pending' = a \o Pending
      <4>1. f \o c = a \o b
        BY <2>7
      <4> HIDE DEF f, c, t, a, b
      <4>2. (f \o c) \o t = f \o (c \o t)
        BY <2>1, <3>2, Regroup
      <4>3. QED
        BY <2>2, <3>3, <4>1, <4>2
    <3>5. OnStream(j)'
      <4>1. handled' = Among(sent', j)
        BY <1>1, <2>7
      <4>2. Flat(sent', j) = f /\ Flat(sent', Len(sent')) = all /\ Flat(sent, k) = a
        BY <1>1
      <4>3. Begins(j, Pending)'
        <5>1. Begins(k, Pending)
          BY <1>1, <1>11 DEF OnStream
        <5>2. PICK rest \in Seq(Byte) : (a \o Pending) \o rest = all
          BY <5>1 DEF Begins
        <5> HIDE DEF f, a, all
        <5>3. (Flat(sent', j) \o Pending') \o rest = Flat(sent', Len(sent'))
          BY <3>4, <4>2, <5>2
        <5>4. QED
          BY <5>2, <5>3 DEF Begins
      <4>4. ~ reset' => Flat(sent', j) \o Pending' = Flat(sent', Len(sent'))
        <5>1. ~ reset => a \o Pending = all
          BY <1>1, <1>11 DEF OnStream
        <5> HIDE DEF f, a, all
        <5>2. QED
          BY <1>1, <3>4, <4>2, <5>1
      <4>5. SizeFits(j, pkage_size)'
        BY <1>1, <1>4, <2>7 DEF SizeFits
      <4>6. QED
        BY <4>1, <4>3, <4>4, <4>5 DEF OnStream
    <3>6. Consistent'
      BY <1>7, <3>1, <3>5
    <3>7. Seen' = Among(sent, j)
      BY <1>1, <1>9, <2>7, <3>1
    <3>8. [Stream!Next]_Stream!streamVars
      BY <1>1, <1>5, <2>5, <3>7, HandleStep
    <3>9. QED
      BY <3>6, <3>8
  <2>8. QED
    BY <2>4, <2>6, <2>7 DEF Lands
<1>12. QED
  BY <1>10, <1>11 DEF Consistent

\* Every step keeps the invariant, and is a step of the package stream or changes nothing of it.
LEMMA ConsistentStep ==
  ASSUME Consistent, [Next]_vars
  PROVE  /\ Consistent'
         /\ [Stream!Next]_Stream!streamVars
<1>1. Fits /\ Fits' /\ TypeOK
  BY FitsStep DEF Consistent, Fits
<1>2. ASSUME sent' = sent, handled' = handled, (pc = "closed")' = (pc = "closed")
      PROVE  [Stream!Next]_Stream!streamVars
  <2>1. Expected' = Expected /\ ZeroSent' = ZeroSent
    BY <1>2, SentSame
  <2>2. Seen' = Seen
    BY <1>2, <2>1 DEF Seen
  <2>3. QED
    BY <1>2, <2>1, <2>2 DEF Stream!streamVars
<1>3. ASSUME NEW size \in Sizes, Send(size)
      PROVE  Consistent' /\ [Stream!Next]_Stream!streamVars
  BY <1>1, <1>3, SendStep
<1>4. CASE Arrive
  <2>1. UNCHANGED <<sent, handled, pkage_size, reset, pc, buf>>
    BY <1>4 DEF Arrive, reader
  <2>2. Consistent'
    BY <1>1, <1>4, <2>1, ArriveMoves, QuietStep DEF Consistent
  <2>3. QED
    BY <1>2, <2>1, <2>2
<1>5. CASE Fin
  <2>1. UNCHANGED <<sent, handled, pkage_size, reset, pc, buf, cache, queue, wire>>
    BY <1>5 DEF Fin, reader
  <2>2. Pending' = Pending
    BY <2>1 DEF Pending
  <2>3. Consistent'
    BY <1>1, <2>1, <2>2, QuietStep DEF Consistent
  <2>4. QED
    BY <1>2, <2>1, <2>3
<1>6. CASE Reset
  <2>1. sent' = sent /\ handled' = handled /\ pc' = pc
    BY <1>6 DEF Reset, reader
  <2>2. QED
    BY <1>1, <1>2, <1>6, <2>1, ResetStep
<1>7. CASE Report
  <2>1. /\ UNCHANGED <<sent, handled, pkage_size, reset, cache, queue, wire>>
        /\ pc = "wait" /\ pc' = "read" /\ buf' = <<>> /\ buf = <<>>
    BY <1>7 DEF Report, reader, Consistent
  <2>2. Pending' = Pending
    BY <2>1 DEF Pending
  <2>3. Consistent'
    BY <1>1, <2>1, <2>2, QuietStep
  <2>4. QED
    BY <1>2, <2>1, <2>3
<1>8. CASE Read
  <2>1. UNCHANGED <<sent, handled, pkage_size, reset, pc>> /\ pc = "read"
    BY <1>8 DEF Read, reader
  <2>2. Consistent'
    BY <1>1, <1>8, <2>1, ReadMoves, QuietStep
  <2>3. QED
    BY <1>2, <2>1, <2>2
<1>9. CASE Disconnect
  <2>1. UNCHANGED <<sent, handled, pkage_size, reset>> /\ pc = "read" /\ pc' = "closed"
    BY <1>9 DEF Disconnect, ReadFails, ReadEnds, Close, reader
  <2>2. Consistent'
    BY <1>1, <2>1, QuietStep
  <2>3. Expected' = Expected /\ ZeroSent' = ZeroSent
    BY <2>1, SentSame
  <2>4. Seen' = Seen
    BY <2>1, <2>3 DEF Seen
  <2>5. Stream!End
    BY <2>1, <2>3, <2>4 DEF Stream!End
  <2>6. QED
    BY <2>2, <2>5 DEF Stream!Next
<1>10. CASE Receive
  BY <1>1, <1>10, ReceiveStep
<1>11. CASE UNCHANGED vars
  <2>1. UNCHANGED <<sent, handled, pkage_size, reset, pc, buf, cache, queue, wire>>
    BY <1>11 DEF vars, network, reader
  <2>2. Pending' = Pending
    BY <2>1 DEF Pending
  <2>3. Consistent'
    BY <1>1, <2>1, <2>2, QuietStep DEF Consistent
  <2>4. QED
    BY <1>2, <2>1, <2>3
<1>12. QED
  BY <1>3, <1>4, <1>5, <1>6, <1>7, <1>8, <1>9, <1>10, <1>11 DEF Next, Loop

\* The first state is consistent, and that of an empty stream.
LEMMA ConsistentInit ==
  ASSUME Init
  PROVE  Consistent /\ Stream!Init
<1>1. /\ sent = <<>> /\ handled = <<>> /\ pc = "wait" /\ pkage_size = 0
      /\ cache = <<>> /\ buf = <<>> /\ queue = <<>> /\ wire = <<>>
  BY DEF Init
<1>2. sent \in Seq(Packages) /\ sent \in Seq(Seq(Byte)) /\ Len(sent) = 0
  BY <1>1, EmptySeq
<1>3. ~ ZeroSent /\ Intact = 0
  BY <1>2 DEF ZeroSent, Zeros, Intact
<1>4. Among(sent, 0) = <<>> /\ Flat(sent, 0) = <<>>
  BY <1>2, AmongStep, FlatStep
<1>5. <<>> \o <<>> = <<>> /\ <<>> \in Seq(Byte)
  BY EmptySeq, ConcatEmptySeq
<1>6. Pending = <<>>
  BY <1>1, <1>5 DEF Pending
<1>7. Flat(sent, 0) \o Pending = Flat(sent, Len(sent)) /\ Begins(0, Pending)
  <2>1. Flat(sent, 0) \o Pending = <<>> /\ Flat(sent, Len(sent)) = <<>>
    BY <1>2, <1>4, <1>5, <1>6
  <2>2. QED
    BY <1>5, <2>1 DEF Begins
<1>8. OnStream(0)
  BY <1>1, <1>4, <1>7 DEF OnStream, SizeFits
<1>9. Consistent
  <2>1. 0 \in 0 .. Intact
    BY <1>3
  <2>2. QED
    BY <1>1, <1>2, <1>8, <2>1, FitsInit DEF Consistent, SentOnes
<1>10. Expected = <<>> /\ Seen = <<>>
  BY <1>1, <1>3, <1>4 DEF Expected, Seen
<1>11. Stream!Init
  BY <1>1, <1>10 DEF Stream!Init
<1>12. QED
  BY <1>9, <1>11

\* However TCP cuts the stream, and wherever a reset ends it, what is handled, cached, read, queued
\* and on the wire is together what was sent, until the stream ends.
THEOREM SpecConsistent == Spec => []Consistent
BY ConsistentInit, ConsistentStep, PTL DEF Spec

\* The inbound path implements the package stream: the packages of a device are handled in the order
\* sent, each once and whole (addBuffer, parseDataPackage, processEpollEvents).
THEOREM SpecFIFO == Spec => FIFO
<1>1. Init => Consistent /\ Stream!Init
  BY ConsistentInit
<1>2. Consistent /\ [Next]_vars => Consistent' /\ [Stream!Next]_Stream!streamVars
  BY ConsistentStep
<1>3. QED
  BY <1>1, <1>2, PTL DEF Spec, FIFO, Stream!Spec
=============================================================================
