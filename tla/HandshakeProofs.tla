--------------------------- MODULE HandshakeProofs ---------------------------
(***************************************************************************)
(* Proofs about Handshake, for every choice of its constants: keys of any  *)
(* length, a length counter of any width, and any compression function.    *)
(*                                                                         *)
(* The invariant ShaInv says of the SHA1 object that the blocks it has     *)
(* processed, with the one it is filling, are what it was given cut in     *)
(* groups of 64, and that its counter is the length of that in bits.       *)
(* Result completes the last block as the standard pads, and AnswerInv     *)
(* says what becomes of the digest.                                        *)
(***************************************************************************)
EXTENDS Handshake, DataLemmas, TLAPS

-----------------------------------------------------------------------------
(* How a sequence is cut in groups of one size.                             *)

\* How many groups of size many there are in l, and what comes before the n-th.
GroupCount(l, size) == (l + size - 1) \div size
Before(size, n)     == size * (n - 1)

\* g is the n-th group of s: the part of s at its place, and only the last may be short.
IsGroup(S, g, s, size, n) ==
  /\ g \in Seq(S)
  /\ Len(g) = IF Before(size, n) + size <= Len(s) THEN size ELSE Len(s) - Before(size, n)
  /\ \A i \in 1 .. Len(g) : g[i] = s[Before(size, n) + i]

\* Where the groups begin and end.
LEMMA GroupBounds ==
  ASSUME NEW l \in Nat, NEW size \in {3, 4, 64}
  PROVE  /\ GroupCount(l, size) \in Nat
         /\ l = 0 => GroupCount(l, size) = 0
         /\ \A n \in 1 .. GroupCount(l, size) : Before(size, n) \in Nat /\ Before(size, n) < l
         /\ \A n \in Nat : Before(size, n + 1) \in Nat /\ Before(size, n + 2) = Before(size, n + 1) + size
         /\ Before(size, 1) = 0 /\ Before(size, GroupCount(l, size) + 1) >= l
         /\ \A n \in Int : size * n = Before(size, n) + size
<1>1. CASE size = 3
  BY <1>1 DEF GroupCount, Before
<1>2. CASE size = 4
  BY <1>2 DEF GroupCount, Before
<1>3. CASE size = 64
  BY <1>3 DEF GroupCount, Before
<1>4. QED
  BY <1>1, <1>2, <1>3

\* How many there are.
LEMMA CountType ==
  ASSUME NEW l \in Nat, NEW size \in {3, 4, 64}
  PROVE  GroupCount(l, size) \in Nat
BY GroupBounds

\* A whole number of groups.
LEMMA WholeGroups ==
  ASSUME NEW n \in Nat, NEW size \in {3, 4, 64}
  PROVE  /\ GroupCount(Before(size, n + 1), size) = n
         /\ \A k \in 1 .. n : Before(size, k) + size <= Before(size, n + 1)
<1>1. CASE size = 3
  BY <1>1 DEF GroupCount, Before
<1>2. CASE size = 4
  BY <1>2 DEF GroupCount, Before
<1>3. CASE size = 64
  BY <1>3 DEF GroupCount, Before
<1>4. QED
  BY <1>1, <1>2, <1>3

\* What Group cuts out is the group.
LEMMA GroupIs ==
  ASSUME NEW S, NEW s \in Seq(S), NEW size \in {3, 4, 64}, NEW n \in 1 .. GroupCount(Len(s), size)
  PROVE  IsGroup(S, Group(s, size, n), s, size, n)
<1>0. /\ Len(s) \in Nat /\ n \in Int
      /\ Before(size, n) \in Nat /\ Before(size, n) < Len(s) /\ size * n = Before(size, n) + size
  <2> DEFINE l == Len(s)
  <2>1. l \in Nat
    OBVIOUS
  <2> HIDE DEF l
  <2>2. GroupCount(l, size) \in Nat
    BY <2>1, CountType
  <2>3. n \in 1 .. GroupCount(l, size) /\ n \in Int
    BY <2>2 DEF l
  <2>4. Before(size, n) \in Nat /\ Before(size, n) < l
    BY <2>1, <2>3, GroupBounds
  <2>5. size * n = Before(size, n) + size
    BY <2>1, <2>3, GroupBounds
  <2>6. QED
    BY <2>1, <2>3, <2>4, <2>5 DEF l
<1> DEFINE b == Before(size, n)
           till == Min({size * n, Len(s)})
           g == Group(s, size, n)
<1>1. Len(s) \in Nat /\ size \in Nat
  OBVIOUS
<1>2. b \in Nat /\ b < Len(s) /\ size * n = b + size
  BY <1>0
<1>4. till \in Nat /\ till = IF b + size <= Len(s) THEN b + size ELSE Len(s)
  <2>1. b + size \in Nat
    BY <1>1, <1>2
  <2> HIDE DEF b
  <2>2. Min({b + size, Len(s)}) \in Nat /\ Min({b + size, Len(s)}) =< b + size /\ Min({b + size, Len(s)}) =< Len(s)
        /\ (Min({b + size, Len(s)}) = b + size \/ Min({b + size, Len(s)}) = Len(s))
    BY <1>1, <2>1, MinOfTwo
  <2>3. till = Min({b + size, Len(s)})
    BY <1>2
  <2> HIDE DEF till
  <2>4. QED
    BY <1>1, <2>1, <2>2, <2>3
<1>5. g = SubSeq(s, b + 1, till)
  BY DEF Group, Before
<1> HIDE DEF b, till, g
<1>6. till \in Int /\ till =< Len(s) /\ b + 1 \in Nat /\ b + 1 >= 1 /\ b + 1 <= till
      /\ till - (b + 1) + 1 = till - b /\ till - b \in Nat
  BY <1>1, <1>2, <1>4
<1>7. /\ g \in Seq(S) /\ Len(g) = till - b
      /\ \A i \in 1 .. till - b : g[i] = s[b + 1 + i - 1]
  <2> DEFINE m == b + 1
  <2>1. m \in Nat /\ m >= 1 /\ till \in Int /\ till =< Len(s)
    BY <1>6
  <2> HIDE DEF m
  <2>2. /\ SubSeq(s, m, till) \in Seq(S)
        /\ Len(SubSeq(s, m, till)) = IF m <= till THEN till - m + 1 ELSE 0
        /\ \A i \in 1 .. till - m + 1 : SubSeq(s, m, till)[i] = s[m + i - 1]
    BY <2>1, PartType
  <2>3. QED
    BY <1>5, <1>6, <2>2 DEF m
<1>8. \A i \in 1 .. Len(g) : g[i] = s[b + i]
  <2>1. ASSUME NEW i \in 1 .. Len(g)
        PROVE  g[i] = s[b + i]
    <3>1. i \in 1 .. till - b /\ b + 1 + i - 1 = b + i
      BY <1>2, <1>6, <1>7
    <3>2. QED
      BY <1>7, <3>1
  <2>2. QED
    BY <2>1
<1>9. Len(g) = IF b + size <= Len(s) THEN size ELSE Len(s) - b
  BY <1>1, <1>2, <1>4, <1>7
<1>10. QED
  BY <1>7, <1>8, <1>9 DEF b, g, IsGroup

\* The groups of a sequence.
LEMMA GroupsAre ==
  ASSUME NEW S, NEW s \in Seq(S), NEW size \in {3, 4, 64}
  PROVE  /\ Groups(s, size) \in Seq(Seq(S))
         /\ Len(Groups(s, size)) = GroupCount(Len(s), size)
         /\ \A n \in 1 .. GroupCount(Len(s), size) :
              Groups(s, size)[n] = Group(s, size, n) /\ IsGroup(S, Groups(s, size)[n], s, size, n)
<1> DEFINE N == GroupCount(Len(s), size)
<1>1. N \in Nat
  <2> DEFINE l == Len(s)
  <2>1. l \in Nat
    OBVIOUS
  <2> HIDE DEF l
  <2>2. GroupCount(l, size) \in Nat
    BY <2>1, CountType
  <2>3. QED
    BY <2>2 DEF l
<1>2. \A n \in 1 .. N : IsGroup(S, Group(s, size, n), s, size, n)
  BY GroupIs
<1>3. \A n \in 1 .. N : Group(s, size, n) \in Seq(S)
  BY <1>2 DEF IsGroup
<1>4. Groups(s, size) = [n \in 1 .. N |-> Group(s, size, n)]
  <2>1. Groups(s, size) = [n \in 1 .. (Len(s) + size - 1) \div size |-> Group(s, size, n)]
    BY DEF Groups
  <2>2. N = (Len(s) + size - 1) \div size
    BY DEF GroupCount
  <2> HIDE DEF N
  <2>3. QED
    BY <2>1, <2>2, Zenon
<1> HIDE DEF N
<1>5. Groups(s, size) \in [1 .. N -> Seq(S)]
  BY <1>3, <1>4
<1>6. Groups(s, size) \in Seq(Seq(S)) /\ Len(Groups(s, size)) = N
  BY <1>1, <1>5, FunctionSeq
<1>7. QED
  BY <1>2, <1>4, <1>6 DEF N

\* Nothing is lost between the groups.
LEMMA GroupsJoin ==
  ASSUME NEW S, NEW s \in Seq(S), NEW size \in {3, 4, 64}
  PROVE  FlattenSeq(Groups(s, size)) = s
<1> DEFINE q == Groups(s, size)
           N == GroupCount(Len(s), size)
           L == Len(s)
           Upto(n) == IF Before(size, n + 1) <= L THEN Before(size, n + 1) ELSE L
           G == {n \in Nat : n <= N =>
                   /\ Flat(q, n) \in Seq(S)
                   /\ Len(Flat(q, n)) = Upto(n)
                   /\ \A i \in 1 .. Upto(n) : Flat(q, n)[i] = s[i]}
<1>1. q \in Seq(Seq(S)) /\ N = Len(q) /\ N \in Nat /\ L \in Nat
  BY GroupsAre
<1>2. \A n \in 1 .. N : IsGroup(S, q[n], s, size, n)
  BY GroupsAre
<1>3. Flat(q, 0) = <<>> /\ \A n \in 0 .. N - 1 : Flat(q, n + 1) = Flat(q, n) \o q[n + 1]
  BY <1>1, FlatStep
<1>4. /\ \A n \in 1 .. N : Before(size, n) \in Nat /\ Before(size, n) < L
                           /\ Before(size, n + 1) = Before(size, n) + size
      /\ Before(size, 1) = 0 /\ Before(size, N + 1) >= L /\ Before(size, N + 1) \in Nat
  <2>1. /\ \A n \in 1 .. N : Before(size, n) \in Nat /\ Before(size, n) < L
        /\ Before(size, 1) = 0 /\ Before(size, N + 1) >= L
        /\ \A n \in Nat : Before(size, n + 1) \in Nat /\ Before(size, n + 2) = Before(size, n + 1) + size
    BY <1>1, GroupBounds
  <2> HIDE DEF N, L
  <2>2. \A n \in 1 .. N : n - 1 \in Nat /\ (n - 1) + 1 = n /\ (n - 1) + 2 = n + 1
    BY <1>1
  <2>3. \A n \in 1 .. N : Before(size, (n - 1) + 2) = Before(size, (n - 1) + 1) + size
    BY <2>1, <2>2
  <2>4. QED
    BY <1>1, <2>1, <2>2, <2>3
<1>5. size \in Nat
  OBVIOUS
<1>6. FlattenSeq(q) = Flat(q, N)
  BY <1>1, FlatAll
<1> HIDE DEF q, N, L
<1>7. ASSUME NEW n \in Nat, \A m \in 0 .. n - 1 : m \in G
      PROVE  n \in G
  <2>1. CASE n = 0
    <3>1. <<>> \in Seq(S) /\ Len(<<>>) = 0
      OBVIOUS
    <3>2. Upto(0) = 0 /\ Flat(q, 0) = <<>>
      BY <1>1, <1>3, <1>4
    <3> HIDE DEF Upto
    <3>3. \A i \in 1 .. Upto(0) : Flat(q, 0)[i] = s[i]
      BY <3>2
    <3>4. QED
      BY <2>1, <3>1, <3>2, <3>3
  <2>2. CASE n # 0 /\ n <= N
    <3> DEFINE m == n - 1
               f == Flat(q, m)
               x == q[n]
               b == Before(size, n)
    <3>1. m \in 0 .. n - 1 /\ m \in 0 .. N - 1 /\ n = m + 1 /\ n \in 1 .. N /\ m <= N
      BY <2>2, <1>1
    <3>2. f \in Seq(S) /\ Len(f) = Upto(m) /\ \A i \in 1 .. Upto(m) : f[i] = s[i]
      <4>1. m \in G
        BY <1>7, <3>1
      <4>2. QED
        BY <4>1, <3>1
    <3>3. Flat(q, n) = f \o x
      BY <1>3, <3>1
    <3>4. b \in Nat /\ b < L /\ Before(size, n + 1) = b + size /\ Before(size, m + 1) = b
      BY <1>4, <3>1
    <3>5. x \in Seq(S)
          /\ Len(x) = (IF b + size <= L THEN size ELSE L - b)
          /\ \A i \in 1 .. Len(x) : x[i] = s[b + i]
      BY <1>2, <3>1 DEF IsGroup, L
    <3>6. Upto(m) = b /\ Upto(n) = IF b + size <= L THEN b + size ELSE L
      BY <3>4, <1>1
    <3> HIDE DEF m, f, x, b, Upto
    <3>7. Len(f) = b /\ Upto(n) = b + Len(x) /\ Len(x) \in Nat
      BY <3>2, <3>4, <3>5, <3>6, <1>1, <1>5
    <3>8. f \o x \in Seq(S) /\ Len(f \o x) = Len(f) + Len(x)
          /\ \A i \in 1 .. Len(f) + Len(x) :
               (f \o x)[i] = IF i <= Len(f) THEN f[i] ELSE x[i - Len(f)]
      <4>1. f \in Seq(S) /\ x \in Seq(S)
        BY <3>2, <3>5
      <4>2. QED
        BY <4>1
    <3>9. ASSUME NEW i \in 1 .. Upto(n)
          PROVE  (f \o x)[i] = s[i]
      <4>0. i \in Nat /\ i \in 1 .. Len(f) + Len(x)
        BY <3>7, <3>4
      <4>1. CASE i <= Len(f)
        <5>1. i \in 1 .. Upto(m)
          BY <4>0, <4>1, <3>2
        <5>2. QED
          BY <4>0, <4>1, <5>1, <3>2, <3>8
      <4>2. CASE i > Len(f)
        <5> DEFINE j == i - Len(f)
        <5>1. j \in 1 .. Len(x) /\ i = b + j
          BY <4>0, <4>2, <3>4, <3>7
        <5>2. (f \o x)[i] = x[j]
          BY <4>0, <4>2, <3>7, <3>4, <3>8
        <5> HIDE DEF j
        <5>3. QED
          BY <5>1, <5>2, <3>5
      <4>3. QED
        BY <4>0, <4>1, <4>2, <3>4, <3>7
    <3>10. QED
      BY <3>3, <3>7, <3>8, <3>9
  <2>3. CASE n > N
    BY <2>3, <1>1
  <2>4. QED
    BY <2>1, <2>2, <2>3, <1>1
<1>8. N \in G
  <2> HIDE DEF G
  <2>1. Nat \subseteq G
    BY <1>7, Induction
  <2>2. QED
    BY <1>1, <2>1
<1>9. Upto(N) = L
  BY <1>4, <1>1
<1>10. Flat(q, N) \in Seq(S) /\ Len(Flat(q, N)) = L /\ \A i \in 1 .. L : Flat(q, N)[i] = s[i]
  BY <1>8, <1>9, <1>1
<1>11. QED
  BY <1>6, <1>10, SeqEqual DEF q, L

\* Whole groups are told by their members.
LEMMA GroupsOf ==
  ASSUME NEW S, NEW s \in Seq(S), NEW size \in {3, 4, 64}, NEW q \in Seq(Seq(S)),
         Len(s) = Before(size, Len(q) + 1), \A n \in 1 .. Len(q) : IsGroup(S, q[n], s, size, n)
  PROVE  Groups(s, size) = q
<1> DEFINE g == Groups(s, size)
           N == Len(q)
<1>1. N \in Nat /\ size \in Nat
  OBVIOUS
<1>2. GroupCount(Len(s), size) = N
  BY <1>1, WholeGroups
<1>3. g \in Seq(Seq(S)) /\ Len(g) = N /\ \A n \in 1 .. N : IsGroup(S, g[n], s, size, n)
  BY <1>2, GroupsAre
<1>4. ASSUME NEW n \in 1 .. N
      PROVE  g[n] = q[n]
  <2>1. IsGroup(S, g[n], s, size, n) /\ IsGroup(S, q[n], s, size, n)
    BY <1>3
  <2>2. g[n] \in Seq(S) /\ q[n] \in Seq(S) /\ Len(g[n]) = Len(q[n])
        /\ \A i \in 1 .. Len(g[n]) : g[n][i] = q[n][i]
    BY <2>1 DEF IsGroup
  <2> HIDE DEF g
  <2>3. QED
    BY <2>2, SeqEqual
<1> HIDE DEF g
<1>5. QED
  BY <1>3, <1>4, SeqEqual DEF g

-----------------------------------------------------------------------------
(* The blocks of a SHA1 object: what it was given, cut in groups of 64.     *)

\* x is the n-th block of the text str.
IsBlock(x, str, n) == Len(x) = 64 /\ \A i \in 1 .. 64 : x[i] = str[Before(64, n) + i]

\* The first n characters of str are cut in the blocks of p, with b begun.
Cut(str, p, b, n) ==
  /\ p \in Seq(Seq(Octet)) /\ b \in Seq(Octet)
  /\ n = Before(64, Len(p) + 1) + Len(b)
  /\ \A k \in 1 .. Len(p) : IsBlock(p[k], str, k)
  /\ \A i \in 1 .. Len(b) : b[i] = str[Before(64, Len(p) + 1) + i]

\* Where a block begins.
LEMMA BlockBegins ==
  \A n \in Nat : /\ Before(64, n + 1) \in Nat
                 /\ Before(64, n + 2) = Before(64, n + 1) + 64
                 /\ Before(64, n + 1) % 64 = 0
BY DEF Before

\* Characters are added to the block that was begun.
LEMMA CutMore ==
  ASSUME NEW str, NEW p, NEW b, NEW n \in Nat, Cut(str, p, b, n),
         NEW x \in Seq(Octet), \A i \in 1 .. Len(x) : x[i] = str[n + i]
  PROVE  Cut(str, p, b \o x, n + Len(x))
<1> DEFINE m == Before(64, Len(p) + 1)
           k == Len(b)
           l == Len(x)
           y == b \o x
<1>1. /\ p \in Seq(Seq(Octet)) /\ b \in Seq(Octet) /\ n = m + k
      /\ \A j \in 1 .. Len(p) : IsBlock(p[j], str, j)
      /\ \A i \in 1 .. k : b[i] = str[m + i]
  BY DEF Cut
<1>2. /\ y \in Seq(Octet) /\ Len(y) = k + l /\ k \in Nat /\ l \in Nat
      /\ \A i \in 1 .. k + l : y[i] = IF i <= k THEN b[i] ELSE x[i - k]
  BY <1>1, ConcatProperties
<1>3. m \in Nat
  <2>1. Len(p) \in Nat
    BY <1>1
  <2>2. QED
    BY <2>1, BlockBegins
<1>4. \A i \in 1 .. l : x[i] = str[n + i]
  OBVIOUS
<1> HIDE DEF m, k, l, y
<1>5. ASSUME NEW i \in 1 .. k + l
      PROVE  y[i] = str[m + i]
  <2>1. CASE i <= k
    BY <1>1, <1>2, <2>1
  <2>2. CASE i > k
    <3>1. i - k \in 1 .. l /\ n + (i - k) = m + i
      BY <1>1, <1>2, <1>3, <2>2
    <3>2. y[i] = x[i - k]
      BY <1>2, <2>2
    <3>3. x[i - k] = str[n + (i - k)]
      BY <1>4, <3>1
    <3>4. QED
      BY <3>1, <3>2, <3>3
  <2>3. QED
    BY <1>2, <2>1, <2>2
<1>6. n + l = m + Len(y)
  BY <1>1, <1>2, <1>3
<1>7. \A i \in 1 .. Len(y) : y[i] = str[m + i]
  BY <1>2, <1>5
<1>8. Cut(str, p, y, n + l)
  BY <1>1, <1>2, <1>6, <1>7 DEF Cut, m
<1>9. QED
  BY <1>8 DEF y, l

\* A full block is one of the blocks.
LEMMA CutFull ==
  ASSUME NEW str, NEW p, NEW b, NEW n \in Nat, Cut(str, p, b, n), Len(b) = 64
  PROVE  Cut(str, Append(p, b), <<>>, n)
<1> DEFINE q == Append(p, b)
           N == Len(p)
<1>1. /\ p \in Seq(Seq(Octet)) /\ b \in Seq(Octet) /\ n = Before(64, N + 1) + 64
      /\ \A j \in 1 .. N : IsBlock(p[j], str, j)
      /\ \A i \in 1 .. 64 : b[i] = str[Before(64, N + 1) + i]
  BY DEF Cut
<1>2. /\ q \in Seq(Seq(Octet)) /\ Len(q) = N + 1 /\ N \in Nat /\ q[N + 1] = b
      /\ \A i \in 1 .. N : q[i] = p[i]
  <2> DEFINE T == Seq(Octet)
  <2>1. p \in Seq(T) /\ b \in T
    BY <1>1
  <2> HIDE DEF T
  <2>2. q \in Seq(T) /\ Len(q) = N + 1 /\ q[N + 1] = b /\ \A i \in 1 .. N : q[i] = p[i]
    BY <2>1, AppendProperties
  <2>3. N \in Nat
    BY <2>1
  <2>4. QED
    BY <2>2, <2>3 DEF T
<1>3. IsBlock(b, str, N + 1)
  BY <1>1 DEF IsBlock
<1> HIDE DEF q, N
<1>4. ASSUME NEW j \in 1 .. Len(q)
      PROVE  IsBlock(q[j], str, j)
  <2>1. j \in 1 .. N \/ j = N + 1
    BY <1>2
  <2>2. QED
    BY <1>1, <1>2, <1>3, <2>1
<1>5. n = Before(64, Len(q) + 1) + 0
  <2>1. (N + 1) + 1 = N + 2 /\ Before(64, N + 2) = Before(64, N + 1) + 64 /\ Before(64, N + 1) \in Nat
    BY <1>2, BlockBegins
  <2>2. QED
    BY <1>1, <1>2, <2>1
<1>6. <<>> \in Seq(Octet) /\ Len(<<>>) = 0
  OBVIOUS
<1>7. \A i \in 1 .. Len(<<>>) : <<>>[i] = str[Before(64, Len(q) + 1) + i]
  BY <1>6
<1>8. Cut(str, q, <<>>, n)
  BY <1>2, <1>4, <1>5, <1>6, <1>7 DEF Cut
<1>9. QED
  BY <1>8 DEF q

\* How a text is cut depends on nothing that follows.
LEMMA CutOther ==
  ASSUME NEW str, NEW other, NEW p, NEW b, NEW n \in Nat, Cut(str, p, b, n),
         \A i \in 1 .. n : other[i] = str[i]
  PROVE  Cut(other, p, b, n)
<1> DEFINE N == Len(p)
           m == Before(64, N + 1)
           k == Len(b)
<1>1. /\ p \in Seq(Seq(Octet)) /\ b \in Seq(Octet) /\ n = m + k
      /\ \A j \in 1 .. N : IsBlock(p[j], str, j)
      /\ \A i \in 1 .. k : b[i] = str[m + i]
  BY DEF Cut
<1>2. N \in Nat /\ k \in Nat
  BY <1>1
<1>3. m \in Nat /\ \A j \in 1 .. N : Before(64, j) \in Nat /\ Before(64, j) + 64 <= m
  BY <1>2 DEF Before
<1> HIDE DEF N, m, k
<1>4. ASSUME NEW j \in 1 .. N
      PROVE  IsBlock(p[j], other, j)
  <2> DEFINE x == p[j]
             a == Before(64, j)
  <2>1. Len(x) = 64 /\ \A i \in 1 .. 64 : x[i] = str[a + i]
    BY <1>1 DEF IsBlock
  <2>2. a \in Nat /\ a + 64 <= m
    BY <1>3
  <2> HIDE DEF x, a
  <2>3. \A i \in 1 .. 64 : a + i \in 1 .. n
    BY <1>1, <1>2, <1>3, <2>2
  <2>4. Len(x) = 64 /\ \A i \in 1 .. 64 : x[i] = other[a + i]
    BY <2>1, <2>3
  <2>5. QED
    BY <2>4 DEF IsBlock, x, a
<1>5. \A i \in 1 .. k : m + i \in 1 .. n
  BY <1>1, <1>2, <1>3
<1>6. \A i \in 1 .. k : b[i] = other[m + i]
  BY <1>1, <1>5
<1>7. QED
  BY <1>1, <1>4, <1>6 DEF Cut, N, m, k

\* A text that is cut to its end is cut into its groups.
LEMMA CutGroups ==
  ASSUME NEW str \in Seq(Octet), NEW p, Cut(str, p, <<>>, Len(str))
  PROVE  Groups(str, 64) = p
<1> DEFINE N == Len(p)
           l == Len(str)
<1>1. /\ p \in Seq(Seq(Octet)) /\ l = Before(64, N + 1) + Len(<<>>)
      /\ \A j \in 1 .. N : IsBlock(p[j], str, j)
  BY DEF Cut
<1>2. N \in Nat /\ l = Before(64, N + 1)
  <2>1. N \in Nat
    BY <1>1
  <2> HIDE DEF N, l
  <2>2. Before(64, N + 1) \in Nat /\ Len(<<>>) = 0
    BY <2>1, BlockBegins
  <2>3. QED
    BY <1>1, <2>1, <2>2
<1>3. \A j \in 1 .. N : Before(64, j) + 64 <= l
  BY <1>2 DEF Before
<1>4. ASSUME NEW j \in 1 .. N
      PROVE  IsGroup(Octet, p[j], str, 64, j)
  <2>1. p[j] \in Seq(Octet)
    BY <1>1, ElementOfSeq
  <2>2. Len(p[j]) = 64 /\ \A i \in 1 .. 64 : p[j][i] = str[Before(64, j) + i]
    BY <1>1 DEF IsBlock
  <2> HIDE DEF N
  <2>3. QED
    BY <2>1, <2>2, <1>3 DEF IsGroup
<1>5. QED
  BY <1>1, <1>2, <1>4, GroupsOf

\* What the SHA1 object is made of.
ShaObjects ==
  [block : Seq(Octet), low : Nat, high : Nat, processed : Seq(Seq(Octet)),
   computed : BOOLEAN, corrupted : BOOLEAN]

\* The two halves of the length are that of n octets.
Counts(s, n) ==
  /\ s.low < LengthMod /\ s.high < LengthMod /\ s.low % 8 = 0
  /\ s.low + LengthMod * s.high = 8 * n

\* The blocks processed, and the one begun, are the first n characters of str.
Absorbed(str, s, n) == Cut(str, s.processed, s.block, n) /\ Len(s.block) < 64

\* Length_Low carries exactly when it has come to LengthMod.
LEMMA Carries ==
  ASSUME NEW low \in Nat, NEW high \in Nat, low < LengthMod, high < LengthMod, low % 8 = 0,
         NEW l, l = (low + 8) % LengthMod,
         NEW h, h = IF l = 0 THEN (high + 1) % LengthMod ELSE high
  PROVE  /\ l \in Nat /\ h \in Nat /\ l < LengthMod /\ h < LengthMod /\ l % 8 = 0
         /\ ~ (l = 0 /\ h = 0) => l + LengthMod * h = low + LengthMod * high + 8
<1>1. LengthMod \in Nat /\ LengthMod > 0 /\ LengthMod % 8 = 0
  BY HandshakeAssumption
<1>2. low + 8 <= LengthMod
  BY <1>1
<1>3. CASE low + 8 < LengthMod
  <2>1. l = low + 8
    BY <1>1, <1>3
  <2>2. h = high /\ l % 8 = 0
    BY <2>1
  <2>3. LengthMod * high \in Nat
    BY <1>1
  <2>4. QED
    BY <1>1, <1>3, <2>1, <2>2, <2>3
<1>4. CASE low + 8 = LengthMod
  <2>1. l = 0
    BY <1>1, <1>4
  <2>2. h = (high + 1) % LengthMod
    BY <2>1
  <2>3. CASE high + 1 = LengthMod
    <3>1. h = 0
      BY <1>1, <2>2, <2>3
    <3>2. QED
      BY <1>1, <2>1, <3>1
  <2>4. CASE high + 1 < LengthMod
    <3>1. h = high + 1
      BY <1>1, <2>2, <2>4
    <3>2. LengthMod * (high + 1) = LengthMod * high + LengthMod /\ LengthMod * high \in Nat
      BY <1>1
    <3>3. LengthMod * h = LengthMod * high + LengthMod
      BY <3>1, <3>2
    <3>4. QED
      BY <1>1, <1>4, <2>1, <2>4, <3>1, <3>2, <3>3
  <2>5. QED
    BY <1>1, <2>3, <2>4
<1>5. QED
  BY <1>1, <1>2, <1>3, <1>4


\* ProcessMessageBlock makes the block one of those processed.
LEMMA BlockProcessed ==
  ASSUME NEW s \in ShaObjects, NEW t, t = ProcessMessageBlock(s)
  PROVE  /\ t \in ShaObjects /\ t.block = <<>> /\ t.processed = Append(s.processed, s.block)
         /\ t.low = s.low /\ t.high = s.high /\ t.corrupted = s.corrupted /\ t.computed = s.computed
<1> DEFINE q == Append(s.processed, s.block)
<1>1. s.processed \in Seq(Seq(Octet)) /\ s.block \in Seq(Octet)
  BY DEF ShaObjects
<1>2. q \in Seq(Seq(Octet)) /\ <<>> \in Seq(Octet)
  BY <1>1
<1>3. t = [s EXCEPT !.processed = q, !.block = <<>>]
  BY DEF ProcessMessageBlock
<1> HIDE DEF q
<1>4. t \in ShaObjects
  BY <1>2, <1>3 DEF ShaObjects
<1>5. t.block = <<>> /\ t.processed = q
  BY <1>3 DEF ShaObjects
<1>6. t.low = s.low /\ t.high = s.high /\ t.corrupted = s.corrupted /\ t.computed = s.computed
  BY <1>3 DEF ShaObjects
<1>7. QED
  BY <1>4, <1>5, <1>6 DEF q

\* A full block that is processed is cut off.
LEMMA ProcessCuts ==
  ASSUME NEW s \in ShaObjects, NEW str, NEW n \in Nat, Cut(str, s.processed, s.block, n), Len(s.block) = 64
  PROVE  /\ Absorbed(str, ProcessMessageBlock(s), n)
         /\ Cut(str, ProcessMessageBlock(s).processed, <<>>, n)
<1> DEFINE t == ProcessMessageBlock(s)
           p == s.processed
           b == s.block
<1>1. t.block = <<>> /\ t.processed = Append(p, b)
  BY BlockProcessed
<1> HIDE DEF t, p, b
<1>2. Cut(str, p, b, n) /\ Len(b) = 64
  BY DEF p, b
<1>3. Cut(str, Append(p, b), <<>>, n)
  BY <1>2, CutFull
<1>4. Cut(str, t.processed, t.block, n)
  BY <1>1, <1>3
<1>5. Len(t.block) < 64
  <2>1. Len(<<>>) = 0
    OBVIOUS
  <2>2. QED
    BY <1>1, <2>1
<1>6. QED
  BY <1>1, <1>4, <1>5 DEF Absorbed, t

\* Input appends a character to what was absorbed, and starts a new block when one is full.
LEMMA InputAbsorbs ==
  ASSUME NEW s \in ShaObjects, NEW n \in Nat, NEW str, NEW c \in Octet, c = str[n + 1],
         ~ s.computed, ~ s.corrupted, Absorbed(str, s, n), Counts(s, n)
  PROVE  /\ Input(s, c) \in ShaObjects /\ ~ Input(s, c).computed
         /\ ~ Input(s, c).corrupted => Absorbed(str, Input(s, c), n + 1) /\ Counts(Input(s, c), n + 1)
<1> DEFINE low  == (s.low + 8) % LengthMod
           high == IF low = 0 THEN (s.high + 1) % LengthMod ELSE s.high
           bad  == low = 0 /\ high = 0
           b    == Append(s.block, c)
           more == [s EXCEPT !.block = b, !.low = low, !.high = high, !.corrupted = bad]
           next == ProcessMessageBlock(more)
           r    == Input(s, c)
           k    == n + 1
<1>1. r = IF Len(more.block) = 64 THEN next ELSE more
  BY DEF Input
<1>2. /\ s.block \in Seq(Octet) /\ s.low \in Nat /\ s.high \in Nat /\ s.computed = FALSE
      /\ s.low < LengthMod /\ s.high < LengthMod /\ s.low % 8 = 0 /\ s.low + LengthMod * s.high = 8 * n
  BY DEF ShaObjects, Counts
<1>3. /\ low \in Nat /\ high \in Nat /\ low < LengthMod /\ high < LengthMod /\ low % 8 = 0
      /\ ~ bad => low + LengthMod * high = s.low + LengthMod * s.high + 8
  <2> DEFINE a == s.low
             d == s.high
  <2>1. a \in Nat /\ d \in Nat /\ a < LengthMod /\ d < LengthMod /\ a % 8 = 0
    BY <1>2
  <2>2. low = (a + 8) % LengthMod /\ high = IF low = 0 THEN (d + 1) % LengthMod ELSE d
    OBVIOUS
  <2> HIDE DEF a, d, low, high
  <2>3. /\ low \in Nat /\ high \in Nat /\ low < LengthMod /\ high < LengthMod /\ low % 8 = 0
        /\ ~ (low = 0 /\ high = 0) => low + LengthMod * high = a + LengthMod * d + 8
    BY <2>1, <2>2, Carries
  <2>4. QED
    BY <2>3 DEF a, d
<1>4. bad \in BOOLEAN /\ k \in Nat
  OBVIOUS
<1>5. ~ bad => low + LengthMod * high = 8 * k
  <2>1. ~ bad => low + LengthMod * high = 8 * n + 8
    BY <1>2, <1>3
  <2>2. 8 * k = 8 * n + 8
    OBVIOUS
  <2>3. QED
    BY <2>1, <2>2
<1>6. b \in Seq(Octet) /\ Len(b) = Len(s.block) + 1
  BY <1>2
<1>7. Cut(str, s.processed, b, k) /\ Len(b) <= 64 /\ Len(b) \in Nat
  <2>1. Cut(str, s.processed, s.block, n) /\ Len(s.block) < 64 /\ Len(s.block) \in Nat
    BY <1>2 DEF Absorbed
  <2> DEFINE x == <<c>>
  <2>2. x \in Seq(Octet) /\ Len(x) = 1 /\ x[1] = c
    OBVIOUS
  <2>3. b = s.block \o x
    BY <1>2, AppendIsConcat
  <2> HIDE DEF x, b
  <2>4. \A i \in 1 .. Len(x) : x[i] = str[n + i]
    BY <2>2
  <2>5. Cut(str, s.processed, s.block \o x, n + Len(x))
    BY <2>1, <2>2, <2>4, CutMore
  <2>6. QED
    BY <1>6, <2>1, <2>2, <2>3, <2>5
<1> HIDE DEF low, high, bad, b, r, k
<1>8. /\ more \in ShaObjects /\ more.block = b /\ more.low = low /\ more.high = high /\ more.corrupted = bad
      /\ more.processed = s.processed /\ more.computed = s.computed
  <2>1. b \in Seq(Octet) /\ low \in Nat /\ high \in Nat /\ bad \in BOOLEAN
    BY <1>3, <1>4, <1>6
  <2> HIDE DEF more
  <2>2. more = [s EXCEPT !.block = b, !.low = low, !.high = high, !.corrupted = bad]
    BY DEF more
  <2>3. QED
    <3> HIDE DEF bad
    <3>1. more \in ShaObjects
      BY <2>1, <2>2 DEF ShaObjects
    <3>2. more.block = b /\ more.low = low /\ more.high = high
          /\ more.processed = s.processed /\ more.computed = s.computed
      BY <2>2 DEF ShaObjects
    <3>3. more.corrupted = bad
      BY <2>1, <2>2 DEF ShaObjects
    <3>4. QED
      BY <3>1, <3>2, <3>3
<1> HIDE DEF more, next
<1>9. ~ bad => Counts(more, k)
  BY <1>3, <1>5, <1>8 DEF Counts
<1>10. CASE Len(b) # 64
  <2>1. r = more
    BY <1>1, <1>8, <1>10
  <2>2. Len(b) < 64
    <3> DEFINE l == Len(b)
    <3>1. l <= 64 /\ l \in Nat /\ l # 64
      BY <1>7, <1>10
    <3> HIDE DEF l
    <3>2. l < 64
      BY <3>1
    <3>3. QED
      BY <3>2 DEF l
  <2>3. Absorbed(str, more, k)
    BY <1>7, <1>8, <2>2 DEF Absorbed
  <2>4. QED
    BY <1>2, <1>8, <1>9, <2>1, <2>3 DEF r, k
<1>11. CASE Len(b) = 64
  <2>1. r = next
    BY <1>1, <1>8, <1>11
  <2>2. /\ next \in ShaObjects /\ next.low = more.low /\ next.high = more.high
        /\ next.corrupted = more.corrupted /\ next.computed = more.computed
    BY <1>8, BlockProcessed DEF next
  <2>3. Absorbed(str, next, k)
    BY <1>4, <1>7, <1>8, <1>11, ProcessCuts DEF next
  <2>4. ~ bad => Counts(next, k)
    BY <1>9, <2>2 DEF Counts
  <2>5. QED
    BY <1>2, <1>8, <2>1, <2>2, <2>3, <2>4 DEF r, k
<1>12. QED
  BY <1>10, <1>11

-----------------------------------------------------------------------------
(* What Result adds to them.                                                *)

\* A division is known by its remainder.
LEMMA Division ==
  ASSUME NEW l \in Nat, l > 0, NEW low \in Nat, NEW high \in Nat, low < l
  PROVE  (low + l * high) \div l = high /\ (low + l * high) % l = low
<1> DEFINE a == low + l * high
           q == a \div l
           r == a % l
<1>1. l * high \in Nat /\ a \in Nat
  OBVIOUS
<1>2. q \in Int /\ r \in Int /\ 0 <= r /\ r < l /\ a = l * q + r
  BY <1>1
<1> DEFINE d == q - high
<1>3. a = low + l * high
  OBVIOUS
<1>4. d \in Int /\ q = high + d
  BY <1>2
<1> HIDE DEF a, q, r, d
<1>5. l * q = l * high + l * d
  BY <1>4
<1>6. l * q \in Int /\ l * high \in Int /\ l * d \in Int
  BY <1>2, <1>4
<1>7. l * d = low - r
  BY <1>2, <1>3, <1>5, <1>6
<1>8. d = 0
  <2>1. CASE d >= 1
    <3>1. l * d >= l
      BY <1>4, <2>1
    <3>2. QED
      BY <1>2, <1>6, <1>7, <3>1
  <2>2. CASE d <= -1
    <3>1. l * d <= -l
      BY <1>4, <2>2
    <3>2. QED
      BY <1>2, <1>6, <1>7, <3>1
  <2>3. QED
    BY <1>4, <2>1, <2>2
<1>9. q = high /\ r = low
  <2>1. l * d = 0
    BY <1>8
  <2>2. QED
    BY <1>2, <1>4, <1>7, <1>8, <2>1
<1>10. QED
  BY <1>9 DEF q, r, a

\* Zeros, and the octets of a length.
LEMMA ZerosAre ==
  ASSUME NEW n \in Nat
  PROVE  Zeros(n) \in Seq(Octet) /\ Len(Zeros(n)) = n /\ \A i \in 1 .. n : Zeros(n)[i] = 0
<1>1. Zeros(n) \in [1 .. n -> Octet]
  BY DEF Zeros, Octet
<1>2. \A i \in 1 .. n : Zeros(n)[i] = 0
  BY DEF Zeros
<1>3. QED
  BY <1>1, <1>2, FunctionSeq

\* A length is written in four octets.
LEMMA LengthType ==
  ASSUME NEW n \in Nat
  PROVE  LengthOctets(n) \in Seq(Octet) /\ Len(LengthOctets(n)) = 4
<1> DEFINE a == (n \div 16777216) % 256
           b == (n \div 65536) % 256
           c == (n \div 256) % 256
           d == n % 256
<1>1. a \in Octet /\ b \in Octet /\ c \in Octet /\ d \in Octet
  BY DEF Octet
<1> HIDE DEF a, b, c, d
<1>2. <<a, b, c, d>> \in Seq(Octet) /\ Len(<<a, b, c, d>>) = 4
  BY <1>1
<1>3. QED
  BY <1>2 DEF LengthOctets, a, b, c, d

\* How many zeros the standard asks for.
ZerosAfter(r) == IF r <= 55 THEN 55 - r ELSE 119 - r

\* The zeros that Padded chooses, for a text with r octets in its last block.
LEMMA ZerosChosen ==
  ASSUME NEW n \in Nat, NEW m \in Nat, NEW r \in Nat, r < 64, n = m + r, m % 64 = 0
  PROVE  (CHOOSE z \in 0 .. 63 : (n + 1 + z + 8) % 64 = 0) = ZerosAfter(r)
<1> DEFINE P(z) == (n + 1 + z + 8) % 64 = 0
           w == ZerosAfter(r)
<1>0. PICK q \in Nat : m = 64 * q
  <2>1. m \div 64 \in Nat /\ m = 64 * (m \div 64)
    OBVIOUS
  <2>2. QED
    BY <2>1
<1>1. w \in 0 .. 63 /\ P(w)
  BY <1>0 DEF ZerosAfter
<1>2. ASSUME NEW z \in 0 .. 63, P(z)
      PROVE  z = w
  BY <1>0, <1>2 DEF ZerosAfter
<1> HIDE DEF P, w
<1>3. (CHOOSE z \in 0 .. 63 : P(z)) = w
  BY <1>1, <1>2
<1>4. QED
  BY <1>3 DEF P, w

\* The object with another block.
LEMMA ObjectBlock ==
  ASSUME NEW s \in ShaObjects, NEW b \in Seq(Octet), NEW t, t = [s EXCEPT !.block = b]
  PROVE  /\ t \in ShaObjects /\ t.block = b /\ t.processed = s.processed
         /\ t.low = s.low /\ t.high = s.high /\ t.computed = s.computed /\ t.corrupted = s.corrupted
BY DEF ShaObjects

\* Two sequences joined, by place.
LEMMA Joined ==
  ASSUME NEW S, NEW a \in Seq(S), NEW b \in Seq(S), NEW m, m = Len(a), NEW n, n = Len(b)
  PROVE  /\ a \o b \in Seq(S) /\ Len(a \o b) = m + n
         /\ \A i \in 1 .. m : (a \o b)[i] = a[i]
         /\ \A i \in 1 .. n : (a \o b)[m + i] = b[i]
<1> DEFINE c == a \o b
<1>1. /\ c \in Seq(S) /\ Len(c) = m + n /\ m \in Nat /\ n \in Nat
      /\ \A i \in 1 .. m + n : c[i] = IF i <= m THEN a[i] ELSE b[i - m]
  BY ConcatProperties
<1> HIDE DEF c
<1>2. \A i \in 1 .. m : c[i] = a[i]
  BY <1>1
<1>3. ASSUME NEW i \in 1 .. n
      PROVE  c[m + i] = b[i]
  <2> DEFINE j == m + i
  <2>1. j \in 1 .. m + n /\ ~ (j <= m) /\ j - m = i
    BY <1>1
  <2> HIDE DEF j
  <2>2. c[j] = b[i]
    BY <1>1, <2>1
  <2>3. QED
    BY <2>2 DEF j
<1>4. QED
  BY <1>1, <1>2, <1>3 DEF c

\* Zeros and the length behind a.
Ending(a, z, h, l) == ((a \o Zeros(z)) \o LengthOctets(h)) \o LengthOctets(l)

\* They are in t, behind its first n octets.
EndsAt(t, n, z, h, l) ==
  /\ \A i \in 1 .. z : t[n + i] = 0
  /\ \A i \in 1 .. 4 : t[n + z + i] = LengthOctets(h)[i]
  /\ \A i \in 1 .. 4 : t[n + z + 4 + i] = LengthOctets(l)[i]

\* t is a, zeros and the length.
IsEnded(t, a, z, h, l) ==
  /\ t \in Seq(Octet) /\ Len(t) = Len(a) + z + 4 + 4
  /\ \A i \in 1 .. Len(a) : t[i] = a[i]
  /\ EndsAt(t, Len(a), z, h, l)

\* The places of the zeros and of the length in a text that ends in them.
LEMMA Ended ==
  ASSUME NEW a \in Seq(Octet), NEW z \in Nat, NEW h \in Nat, NEW l \in Nat
  PROVE  IsEnded(Ending(a, z, h, l), a, z, h, l)
<1> DEFINE n == Len(a)
           x == LengthOctets(h)
           y == LengthOctets(l)
           o == Zeros(z)
           u == a \o o
           v == u \o x
           w == v \o y
<1>1. /\ x \in Seq(Octet) /\ 4 = Len(x) /\ y \in Seq(Octet) /\ 4 = Len(y)
      /\ o \in Seq(Octet) /\ z = Len(o) /\ \A i \in 1 .. z : o[i] = 0
  BY LengthType, ZerosAre
<1>2. Ending(a, z, h, l) = w /\ n \in Nat /\ n = Len(a)
  BY DEF Ending
<1> HIDE DEF n, x, y, o
<1>3. /\ u \in Seq(Octet) /\ Len(u) = n + z
      /\ \A i \in 1 .. n : u[i] = a[i]
      /\ \A i \in 1 .. z : u[n + i] = o[i]
  BY <1>1, <1>2, Joined
<1> HIDE DEF u
<1> DEFINE k == n + z
<1>4. k = Len(u) /\ k \in Nat /\ k = n + z
  BY <1>2, <1>3
<1> HIDE DEF k
<1>5. /\ v \in Seq(Octet) /\ Len(v) = k + 4
      /\ \A i \in 1 .. k : v[i] = u[i]
      /\ \A i \in 1 .. 4 : v[k + i] = x[i]
  <2> DEFINE f == 4
  <2>1. x \in Seq(Octet) /\ f = Len(x) /\ u \in Seq(Octet) /\ k = Len(u)
    BY <1>1, <1>3, <1>4
  <2> HIDE DEF f
  <2>2. /\ v \in Seq(Octet) /\ Len(v) = k + f
        /\ \A i \in 1 .. k : v[i] = u[i]
        /\ \A i \in 1 .. f : v[k + i] = x[i]
    BY <2>1, Joined
  <2>3. QED
    BY <2>2 DEF f
<1> HIDE DEF v
<1> DEFINE j == k + 4
<1>6. j = Len(v) /\ j \in Nat /\ j = k + 4
  BY <1>4, <1>5
<1> HIDE DEF j
<1>7. /\ w \in Seq(Octet) /\ Len(w) = j + 4
      /\ \A i \in 1 .. j : w[i] = v[i]
      /\ \A i \in 1 .. 4 : w[j + i] = y[i]
  <2> DEFINE f == 4
  <2>1. y \in Seq(Octet) /\ f = Len(y) /\ v \in Seq(Octet) /\ j = Len(v)
    BY <1>1, <1>5, <1>6
  <2> HIDE DEF f
  <2>2. /\ w \in Seq(Octet) /\ Len(w) = j + f
        /\ \A i \in 1 .. j : w[i] = v[i]
        /\ \A i \in 1 .. f : w[j + i] = y[i]
    BY <2>1, Joined
  <2>3. QED
    BY <2>2 DEF f
<1> HIDE DEF w
<1>8. ASSUME NEW i \in 1 .. n
      PROVE  w[i] = a[i]
  <2>1. i \in 1 .. k /\ i \in 1 .. j
    BY <1>2, <1>4, <1>6
  <2>2. QED
    BY <2>1, <1>3, <1>5, <1>7
<1>9. ASSUME NEW i \in 1 .. z
      PROVE  w[n + i] = 0
  <2>1. n + i \in 1 .. k /\ n + i \in 1 .. j
    BY <1>2, <1>4, <1>6
  <2>2. w[n + i] = v[n + i] /\ v[n + i] = u[n + i]
    BY <2>1, <1>5, <1>7
  <2>3. u[n + i] = o[i] /\ o[i] = 0
    BY <1>1, <1>3
  <2>4. QED
    BY <2>2, <2>3
<1>10. ASSUME NEW i \in 1 .. 4
       PROVE  w[k + i] = x[i]
  <2>1. k + i \in 1 .. j
    BY <1>4, <1>6
  <2>2. QED
    BY <2>1, <1>5, <1>7
<1>11. QED
  <2>1. Len(w) = n + z + 4 + 4
    BY <1>4, <1>6, <1>7
  <2>2. \A i \in 1 .. 4 : w[n + z + i] = x[i] /\ w[n + z + 4 + i] = y[i]
    BY <1>4, <1>6, <1>7, <1>10
  <2>3. EndsAt(w, n, z, h, l)
    BY <1>9, <2>2 DEF EndsAt, x, y
  <2>4. QED
    BY <1>2, <1>7, <1>8, <2>1, <2>3 DEF n, IsEnded

\* The blocks are those of the text that is padded once its end is in the last of them.
LEMMA EndCuts ==
  ASSUME NEW pad, NEW s \in ShaObjects, NEW n \in Nat, Cut(pad, s.processed, s.block, n),
         NEW h \in Nat, NEW l \in Nat, NEW z \in Nat, Len(s.block) + z = 56, EndsAt(pad, n, z, h, l),
         NEW t, t = [s EXCEPT !.block = Ending(s.block, z, h, l)]
  PROVE  /\ ProcessMessageBlock(t) \in ShaObjects
         /\ Cut(pad, ProcessMessageBlock(t).processed, <<>>, n + z + 4 + 4)
<1> DEFINE x == LengthOctets(h)
           y == LengthOctets(l)
           o == Zeros(z)
           b == s.block
           u == b \o o
           v == u \o x
           w == v \o y
           p == s.processed
<1>1. b \in Seq(Octet) /\ p \in Seq(Seq(Octet)) /\ Len(b) \in Nat
  BY DEF ShaObjects
<1>2. z \in Nat /\ Len(b) + z = 56
  OBVIOUS
<1>3. /\ x \in Seq(Octet) /\ Len(x) = 4 /\ y \in Seq(Octet) /\ Len(y) = 4
      /\ o \in Seq(Octet) /\ Len(o) = z /\ \A i \in 1 .. z : o[i] = 0
  BY <1>2, LengthType, ZerosAre
<1>4. Ending(s.block, z, h, l) = w /\ Cut(pad, p, b, n)
  BY DEF Ending
<1>5. /\ \A i \in 1 .. 4 : pad[n + z + i] = x[i]
      /\ \A i \in 1 .. 4 : pad[n + z + 4 + i] = y[i]
      /\ \A i \in 1 .. z : pad[n + i] = 0
  BY DEF EndsAt
<1> HIDE DEF x, y, o, b, p
<1>6. Cut(pad, p, u, n + z)
  <2>1. \A i \in 1 .. Len(o) : o[i] = pad[n + i]
    BY <1>3, <1>5
  <2>2. Cut(pad, p, u, n + Len(o))
    BY <1>3, <1>4, <2>1, CutMore
  <2>3. QED
    BY <1>3, <2>2
<1>7. u \in Seq(Octet) /\ Len(u) = 56
  <2> DEFINE k == Len(b)
  <2>1. k = Len(b) /\ z = Len(o) /\ b \in Seq(Octet) /\ o \in Seq(Octet) /\ k + z = 56
    BY <1>1, <1>2, <1>3
  <2> HIDE DEF k
  <2>2. u \in Seq(Octet) /\ Len(u) = k + z
    BY <2>1, Joined
  <2>3. QED
    BY <2>1, <2>2
<1> HIDE DEF u
<1>8. Cut(pad, p, v, n + z + 4)
  <2> DEFINE k == n + z
  <2>1. \A i \in 1 .. Len(x) : x[i] = pad[k + i]
    BY <1>3, <1>5
  <2>2. k \in Nat /\ Cut(pad, p, u, k)
    BY <1>2, <1>6
  <2> HIDE DEF k
  <2>3. Cut(pad, p, v, k + Len(x))
    BY <1>3, <2>1, <2>2, CutMore
  <2>4. QED
    BY <1>3, <2>3 DEF k
<1>9. v \in Seq(Octet) /\ Len(v) = 60
  <2> DEFINE k == 56
             m == 4
  <2>1. k = Len(u) /\ m = Len(x) /\ k + m = 60 /\ u \in Seq(Octet) /\ x \in Seq(Octet)
    BY <1>3, <1>7
  <2> HIDE DEF k, m
  <2>2. v \in Seq(Octet) /\ Len(v) = k + m
    BY <2>1, Joined
  <2>3. QED
    BY <2>1, <2>2
<1> HIDE DEF v
<1>10. Cut(pad, p, w, n + z + 4 + 4)
  <2> DEFINE k == n + z + 4
  <2>1. \A i \in 1 .. Len(y) : y[i] = pad[k + i]
    BY <1>3, <1>5
  <2>2. k \in Nat /\ Cut(pad, p, v, k)
    BY <1>2, <1>8
  <2> HIDE DEF k
  <2>3. Cut(pad, p, w, k + Len(y))
    BY <1>3, <2>1, <2>2, CutMore
  <2>4. k + Len(y) = n + z + 4 + 4
    BY <1>2, <1>3 DEF k
  <2>5. QED
    BY <2>3, <2>4
<1>11. w \in Seq(Octet) /\ Len(w) = 64
  <2> DEFINE k == 60
             m == 4
  <2>1. k = Len(v) /\ m = Len(y) /\ k + m = 64 /\ v \in Seq(Octet) /\ y \in Seq(Octet)
    BY <1>3, <1>9
  <2> HIDE DEF k, m
  <2>2. w \in Seq(Octet) /\ Len(w) = k + m
    BY <2>1, Joined
  <2>3. QED
    BY <2>1, <2>2
<1> HIDE DEF w
<1>12. t \in ShaObjects /\ t.block = w /\ t.processed = p
  BY <1>4, <1>11 DEF p, ShaObjects
<1>13. n + z + 4 + 4 \in Nat
  BY <1>2
<1>14. Cut(pad, ProcessMessageBlock(t).processed, <<>>, n + z + 4 + 4)
  <2> DEFINE k == n + z + 4 + 4
  <2>1. k \in Nat /\ Cut(pad, t.processed, t.block, k) /\ Len(t.block) = 64
    BY <1>10, <1>11, <1>12, <1>13
  <2> HIDE DEF k
  <2>2. Cut(pad, ProcessMessageBlock(t).processed, <<>>, k)
    BY <1>12, <2>1, ProcessCuts
  <2>3. QED
    BY <2>2 DEF k
<1>15. QED
  BY <1>12, <1>14, BlockProcessed

\* n octets fill some blocks and r octets of the next, and the length of the text is in two halves.
Measured(n, r, low, high) ==
  /\ r \in Nat /\ r < 64 /\ n - r \in Nat /\ (n - r) % 64 = 0
  /\ low \in Nat /\ high \in Nat /\ low < LengthMod /\ low + LengthMod * high = 8 * n

\* A text with the bit of the standard behind it.
Marked(str) == str \o <<128>>

\* Its letters.
LEMMA MarkedIs ==
  ASSUME NEW str \in Seq(Octet)
  PROVE  /\ Marked(str) \in Seq(Octet) /\ Len(Marked(str)) = Len(str) + 1
         /\ \A i \in 1 .. Len(str) : Marked(str)[i] = str[i]
         /\ Marked(str)[Len(str) + 1] = 128
<1> DEFINE x == <<128>>
           f == 1
           n == Len(str)
<1>1. x \in Seq(Octet) /\ f = Len(x) /\ x[1] = 128 /\ n = Len(str)
  BY DEF Octet
<1> HIDE DEF x, f, n
<1>2. /\ str \o x \in Seq(Octet) /\ Len(str \o x) = n + f
      /\ \A i \in 1 .. n : (str \o x)[i] = str[i]
      /\ \A i \in 1 .. f : (str \o x)[n + i] = x[i]
  BY <1>1, Joined
<1>3. QED
  BY <1>1, <1>2 DEF x, f, n, Marked

\* The standard's text, with the number of zeros that r octets in the last block leave room for.
LEMMA PaddedIs ==
  ASSUME NEW str \in Seq(Octet), NEW n, n = Len(str), NEW r, NEW low, NEW high,
         Measured(n, r, low, high), NEW k, k = n + 1, NEW z, z = ZerosAfter(r)
  PROVE  /\ Padded(str) \in Seq(Octet) /\ Len(Padded(str)) = k + z + 4 + 4
         /\ \A i \in 1 .. n : Padded(str)[i] = str[i]
         /\ Padded(str)[k] = 128
         /\ EndsAt(Padded(str), k, z, high, low)
<1> DEFINE marked == Marked(str)
           pad == Padded(str)
<1>1. n \in Nat /\ k \in Nat /\ LengthMod \in Nat /\ LengthMod > 0 /\ r \in Nat /\ r < 64
      /\ low \in Nat /\ high \in Nat
  BY HandshakeAssumption DEF Measured
<1>2. z \in Nat
  BY <1>1 DEF ZerosAfter
<1>3. (CHOOSE w \in 0 .. 63 : (n + 1 + w + 8) % 64 = 0) = ZerosAfter(r)
  <2> DEFINE m == n - r
  <2>1. m \in Nat /\ n = m + r /\ m % 64 = 0
    BY <1>1 DEF Measured
  <2> HIDE DEF m
  <2>2. QED
    BY <1>1, <2>1, ZerosChosen
<1>4. (8 * n) \div LengthMod = high /\ (8 * n) % LengthMod = low
  <2>1. low < LengthMod /\ low + LengthMod * high = 8 * n
    BY DEF Measured
  <2>2. (low + LengthMod * high) \div LengthMod = high /\ (low + LengthMod * high) % LengthMod = low
    BY <1>1, <2>1, Division
  <2>3. QED
    BY <2>1, <2>2
<1>5. pad = Ending(marked, z, high, low)
  <2>1. Padded(str) = str \o <<128>> \o Zeros(CHOOSE w \in 0 .. 63 : (n + 1 + w + 8) % 64 = 0)
          \o LengthOctets((8 * n) \div LengthMod) \o LengthOctets((8 * n) % LengthMod)
    BY DEF Padded
  <2>2. QED
    BY <1>3, <1>4, <2>1 DEF Ending, Marked
<1>6. /\ marked \in Seq(Octet) /\ k = Len(marked)
      /\ \A i \in 1 .. n : marked[i] = str[i]
      /\ marked[k] = 128
  <2>1. /\ marked \in Seq(Octet) /\ Len(marked) = Len(str) + 1
        /\ \A i \in 1 .. Len(str) : marked[i] = str[i]
        /\ marked[Len(str) + 1] = 128
    BY MarkedIs
  <2> HIDE DEF marked
  <2>2. QED
    BY <2>1
<1> HIDE DEF marked, pad
<1>7. /\ pad \in Seq(Octet) /\ Len(pad) = k + z + 4 + 4
      /\ \A i \in 1 .. k : pad[i] = marked[i]
      /\ EndsAt(pad, k, z, high, low)
  <2>1. marked \in Seq(Octet) /\ k = Len(marked)
    BY <1>6
  <2>2. IsEnded(Ending(marked, z, high, low), marked, z, high, low)
    <3>1. marked \in Seq(Octet) /\ z \in Nat /\ high \in Nat /\ low \in Nat
      BY <1>1, <1>2, <2>1
    <3>2. QED
      BY <3>1, Ended
  <2>3. QED
    BY <1>5, <2>1, <2>2 DEF IsEnded
<1>8. \A i \in 1 .. n : pad[i] = str[i]
  <2>1. \A i \in 1 .. n : i \in 1 .. k
    BY <1>1
  <2>2. QED
    BY <1>6, <1>7, <2>1
<1>9. pad[k] = 128
  <2>1. k \in 1 .. k
    BY <1>1
  <2>2. QED
    BY <1>6, <1>7, <2>1
<1>10. QED
  BY <1>7, <1>8, <1>9 DEF pad

\* The object once its last block is ended and processed.
Completed(s, z, h, l) == ProcessMessageBlock([s EXCEPT !.block = Ending(s.block, z, h, l)])

\* The blocks of an object that is completed are the groups of the padded text.
LEMMA CompletedCuts ==
  ASSUME NEW pad \in Seq(Octet), NEW s \in ShaObjects, NEW n \in Nat, Cut(pad, s.processed, s.block, n),
         NEW h \in Nat, NEW l \in Nat, NEW z \in Nat, Len(s.block) + z = 56, EndsAt(pad, n, z, h, l),
         Len(pad) = n + z + 4 + 4
  PROVE  Completed(s, z, h, l) \in ShaObjects /\ Completed(s, z, h, l).processed = Groups(pad, 64)
<1> DEFINE t == [s EXCEPT !.block = Ending(s.block, z, h, l)]
           q == ProcessMessageBlock(t)
<1>1. t = [s EXCEPT !.block = Ending(s.block, z, h, l)]
  OBVIOUS
<1>2. Completed(s, z, h, l) = q
  BY DEF Completed
<1> HIDE DEF t
<1>3. q \in ShaObjects /\ Cut(pad, q.processed, <<>>, n + z + 4 + 4)
  BY <1>1, EndCuts
<1> HIDE DEF q
<1>4. Cut(pad, q.processed, <<>>, Len(pad))
  BY <1>3
<1>5. q.processed = Groups(pad, 64)
  BY <1>4, CutGroups
<1>6. QED
  BY <1>2, <1>3, <1>5

\* PadMessage processes what was absorbed as the standard pads it.
LEMMA PadCuts ==
  ASSUME NEW s \in ShaObjects, NEW str \in Seq(Octet), NEW n, n = Len(str),
         Absorbed(str, s, n), Counts(s, n)
  PROVE  PadMessage(s) \in ShaObjects /\ PadMessage(s).processed = Groups(Padded(str), 64)
<1> DEFINE p == s.processed
           b == s.block
           m == Before(64, Len(p) + 1)
           r == Len(b)
           z == ZerosAfter(r)
           pad == Padded(str)
           marked == Append(b, 128)
           k == n + 1
           first == ProcessMessageBlock([s EXCEPT !.block = marked \o Zeros(64 - Len(marked))])
           last == IF r > 55 THEN first ELSE [s EXCEPT !.block = marked]
<1>1. PadMessage(s) = Completed(last, 56 - Len(last.block), s.high, s.low)
  BY DEF PadMessage, Completed, Ending
<1>2. /\ b \in Seq(Octet) /\ p \in Seq(Seq(Octet)) /\ s.low \in Nat /\ s.high \in Nat
      /\ Cut(str, p, b, n) /\ r < 64 /\ r \in Nat /\ n \in Nat /\ k \in Nat /\ k = n + 1
  BY DEF ShaObjects, Absorbed
<1>3. n = m + r /\ m \in Nat /\ m % 64 = 0
  <2>1. n = m + r
    BY <1>2 DEF Cut
  <2>2. Len(p) \in Nat
    BY <1>2
  <2>3. QED
    BY <2>1, <2>2, BlockBegins
<1>4. Measured(n, r, s.low, s.high)
  <2> HIDE DEF m, r
  <2>1. n - r = m
    BY <1>2, <1>3
  <2>2. QED
    BY <1>2, <1>3, <2>1 DEF Counts, Measured
<1> HIDE DEF m, r, first, last, b, p
<1>5. /\ pad \in Seq(Octet) /\ Len(pad) = k + z + 4 + 4
      /\ \A i \in 1 .. n : pad[i] = str[i]
      /\ pad[k] = 128
      /\ EndsAt(pad, k, z, s.high, s.low)
  <2>1. k = n + 1
    OBVIOUS
  <2> HIDE DEF k
  <2>2. QED
    BY <1>4, <2>1, PaddedIs
<1> HIDE DEF pad, k, z
<1>6. /\ marked \in Seq(Octet) /\ Len(marked) = r + 1 /\ Cut(pad, p, marked, k)
  <2> DEFINE x == <<128>>
  <2>1. x \in Seq(Octet) /\ Len(x) = 1 /\ x[1] = 128 /\ 128 \in Octet
    BY DEF Octet
  <2>2. marked = b \o x /\ marked \in Seq(Octet) /\ Len(marked) = r + 1
    <3>1. QED
      BY <1>2, <2>1, AppendIsConcat DEF r
  <2> HIDE DEF x, marked
  <2>3. Cut(pad, p, b, n)
    BY <1>2, <1>5, CutOther
  <2>4. \A i \in 1 .. Len(x) : x[i] = pad[n + i]
    BY <1>2, <1>5, <2>1
  <2>5. Cut(pad, p, b \o x, n + Len(x))
    <3>1. n \in Nat /\ x \in Seq(Octet)
      BY <1>2, <2>1
    <3>2. QED
      BY <2>3, <2>4, <3>1, CutMore
  <2>6. QED
    BY <1>2, <2>1, <2>2, <2>5
<1> HIDE DEF marked
<1>8. CASE r <= 55
  <2>1. last = [s EXCEPT !.block = marked]
    BY <1>2, <1>8 DEF last
  <2>2. last \in ShaObjects /\ last.block = marked /\ last.processed = p
    BY <1>6, <2>1, ObjectBlock DEF p
  <2>3. z \in Nat /\ Len(last.block) + z = 56 /\ 56 - Len(last.block) = z
    BY <1>2, <1>6, <1>8, <2>2 DEF z, ZerosAfter
  <2>4. Cut(pad, last.processed, last.block, k)
    BY <1>6, <2>2
  <2>5. Completed(last, z, s.high, s.low) \in ShaObjects
        /\ Completed(last, z, s.high, s.low).processed = Groups(pad, 64)
    <3>1. pad \in Seq(Octet) /\ k \in Nat /\ s.high \in Nat /\ s.low \in Nat /\ Len(pad) = k + z + 4 + 4
          /\ EndsAt(pad, k, z, s.high, s.low)
      BY <1>2, <1>5
    <3>2. QED
      BY <2>2, <2>3, <2>4, <3>1, CompletedCuts, SMTT(40)
  <2>6. QED
    BY <1>1, <2>3, <2>5 DEF pad
<1>9. CASE r > 55
  <2> DEFINE g == 63 - r
             t == [s EXCEPT !.block = marked \o Zeros(g)]
             j == k + g
  <2>1. g \in Nat /\ z = g + 56 /\ 64 - Len(marked) = g /\ Len(marked) + g = 64 /\ j \in Nat
    BY <1>2, <1>6, <1>9 DEF z, ZerosAfter
  <2>2. last = ProcessMessageBlock(t)
    BY <1>9, <2>1 DEF last, first
  <2> DEFINE o == Zeros(g)
             q == marked \o o
  <2>3. o \in Seq(Octet) /\ Len(o) = g /\ \A i \in 1 .. g : o[i] = 0
    BY <2>1, ZerosAre
  <2>4. /\ \A i \in 1 .. z : pad[k + i] = 0
        /\ \A i \in 1 .. 4 : pad[k + z + i] = LengthOctets(s.high)[i]
        /\ \A i \in 1 .. 4 : pad[k + z + 4 + i] = LengthOctets(s.low)[i]
    BY <1>5 DEF EndsAt
  <2>5. t = [s EXCEPT !.block = q]
    OBVIOUS
  <2> HIDE DEF g, t, j, o
  <2>6. q \in Seq(Octet) /\ Len(q) = 64
    <3> DEFINE l == Len(marked)
    <3>1. marked \in Seq(Octet) /\ l = Len(marked) /\ o \in Seq(Octet) /\ g = Len(o) /\ l + g = 64
      BY <1>6, <2>1, <2>3
    <3> HIDE DEF l
    <3>2. q \in Seq(Octet) /\ Len(q) = l + g
      BY <3>1, Joined
    <3>3. QED
      BY <3>1, <3>2
  <2>7. Cut(pad, p, q, j)
    <3>1. \A i \in 1 .. Len(o) : o[i] = pad[k + i]
      BY <2>1, <2>3, <2>4
    <3>2. Cut(pad, p, q, k + Len(o))
      BY <1>2, <1>6, <2>3, <3>1, CutMore
    <3>3. QED
      BY <2>3, <3>2 DEF j
  <2> HIDE DEF q
  <2>8. t \in ShaObjects /\ t.block = q /\ t.processed = p
    BY <2>5, <2>6, ObjectBlock DEF p
  <2>9. last \in ShaObjects /\ last.block = <<>>
    BY <2>2, <2>8, BlockProcessed
  <2>10. Cut(pad, last.processed, last.block, j)
    <3>1. Cut(pad, t.processed, t.block, j) /\ Len(t.block) = 64
      BY <2>6, <2>7, <2>8
    <3>2. Cut(pad, ProcessMessageBlock(t).processed, <<>>, j)
      BY <2>1, <2>8, <3>1, ProcessCuts
    <3>3. QED
      BY <2>2, <2>9, <3>2
  <2>11. Len(last.block) + 56 = 56 /\ 56 - Len(last.block) = 56
    <3>1. Len(<<>>) = 0
      OBVIOUS
    <3>2. QED
      BY <2>9, <3>1
  <2>12. EndsAt(pad, j, 56, s.high, s.low)
    <3>1. \A i \in 1 .. 56 : g + i \in 1 .. z /\ k + (g + i) = j + i
      BY <1>2, <2>1 DEF j
    <3>2. \A i \in 1 .. 56 : pad[j + i] = 0
      BY <2>4, <3>1
    <3>3. k + z = j + 56
      BY <1>2, <2>1 DEF j
    <3>4. QED
      BY <2>4, <3>2, <3>3 DEF EndsAt
  <2>13. Len(pad) = j + 56 + 4 + 4
    BY <1>2, <1>5, <2>1 DEF j
  <2>14. Completed(last, 56, s.high, s.low) \in ShaObjects
         /\ Completed(last, 56, s.high, s.low).processed = Groups(pad, 64)
    <3> DEFINE w == 56
    <3>1. w \in Nat /\ Len(last.block) + w = 56 /\ EndsAt(pad, j, w, s.high, s.low) /\ Len(pad) = j + w + 4 + 4
      BY <2>11, <2>12, <2>13
    <3> HIDE DEF w
    <3>2. Completed(last, w, s.high, s.low) \in ShaObjects
          /\ Completed(last, w, s.high, s.low).processed = Groups(pad, 64)
      <4>1. pad \in Seq(Octet) /\ s.high \in Nat /\ s.low \in Nat
        BY <1>2, <1>5
      <4>2. QED
        BY <2>1, <2>9, <2>10, <3>1, <4>1, CompletedCuts, SMTT(40)
    <3>3. QED
      BY <3>2 DEF w
  <2>15. QED
    BY <1>1, <2>11, <2>14 DEF pad
<1>10. QED
  BY <1>2, <1>8, <1>9

-----------------------------------------------------------------------------
(* The steps.                                                               *)

\* What the SHA1 object holds of the first fed characters of the key, as long as it answers at all.
ShaInv ==
  /\ key \in Keys /\ fed \in 0 .. Len(key) /\ sha \in ShaObjects
  /\ ~ sha.corrupted =>
       IF sha.computed THEN sha.processed = Groups(Padded(SubSeq(key, 1, fed)), 64)
       ELSE Absorbed(key, sha, fed) /\ Counts(sha, fed)

\* The answer is that to the digest of the whole key.
AnswerInv ==
  answer # <<>> => Standard(key) \in [1 .. 20 -> Octet] /\ answer = base64_encode(Standard(key))

\* A key is a text of octets.
LEMMA KeyType ==
  ASSUME key \in Keys
  PROVE  key \in Seq(Octet)
<1>1. key \in Seq(Octet \ {0})
  BY HandshakeAssumption
<1>2. QED
  BY <1>1

\* A new object has been given nothing.
LEMMA ResetHolds ==
  ASSUME key \in Keys
  PROVE  Reset \in ShaObjects /\ ~ Reset.computed /\ Absorbed(key, Reset, 0) /\ Counts(Reset, 0)
<1>1. <<>> \in Seq(Octet) /\ <<>> \in Seq(Seq(Octet)) /\ Len(<<>>) = 0
  BY EmptySeq
<1> DEFINE e == <<>>
<1>2. /\ Reset.block = e /\ Reset.processed = e /\ Reset.low = 0 /\ Reset.high = 0
      /\ Reset.computed = FALSE /\ Reset.corrupted = FALSE
  BY DEF Reset
<1>3. Reset \in ShaObjects
  BY <1>1 DEF Reset, ShaObjects
<1>4. LengthMod \in Nat /\ LengthMod > 0 /\ LengthMod * 0 = 0
  BY HandshakeAssumption
<1>5. Counts(Reset, 0)
  BY <1>2, <1>4 DEF Counts
<1>6. e \in Seq(Octet) /\ e \in Seq(Seq(Octet)) /\ Len(e) = 0
  BY <1>1
<1> HIDE DEF e
<1>7. Before(64, 0 + 1) = 0
  BY DEF Before
<1>8. Cut(key, e, e, 0)
  BY <1>6, <1>7 DEF Cut
<1>9. Absorbed(key, Reset, 0)
  BY <1>2, <1>6, <1>8 DEF Absorbed
<1>10. QED
  BY <1>2, <1>3, <1>5, <1>9

\* Characters that come after Result, or after too many, spoil the object.
LEMMA InputSpoils ==
  ASSUME NEW s \in ShaObjects, NEW c, s.computed \/ s.corrupted
  PROVE  Input(s, c) \in ShaObjects /\ Input(s, c).corrupted
BY DEF Input, ShaObjects

\* Feed keeps ShaInv: a character goes to its place of the text, and is counted.
LEMMA FeedKeeps ==
  ASSUME ShaInv, Feed
  PROVE  ShaInv'
<1> DEFINE c == key[fed + 1]
           t == Input(sha, c)
           n == fed + 1
<1>1. key \in Keys /\ key \in Seq(Octet) /\ fed \in Nat /\ Len(key) \in Nat /\ fed < Len(key) /\ sha \in ShaObjects
  BY KeyType DEF ShaInv, Feed
<1>2. n \in 0 .. Len(key) /\ n \in Nat /\ c \in Octet
  <2>1. fed + 1 \in 1 .. Len(key)
    BY <1>1
  <2>2. QED
    BY <1>1, <2>1, ElementOfSeq
<1>3. sha' = t /\ key' = key /\ fed' = n
  BY DEF Feed
<1> HIDE DEF t
<1>4. CASE sha.computed \/ sha.corrupted
  <2>1. t \in ShaObjects /\ t.corrupted
    BY <1>1, <1>4, InputSpoils DEF t
  <2>2. QED
    BY <1>1, <1>2, <1>3, <2>1 DEF ShaInv
<1>5. CASE ~ sha.computed /\ ~ sha.corrupted
  <2>1. Absorbed(key, sha, fed) /\ Counts(sha, fed)
    BY <1>5 DEF ShaInv
  <2>2. /\ t \in ShaObjects /\ ~ t.computed
        /\ ~ t.corrupted => Absorbed(key, t, n) /\ Counts(t, n)
    BY <1>1, <1>2, <1>5, <2>1, InputAbsorbs DEF t
  <2>3. (Absorbed(key, t, n))' <=> Absorbed(key', t', n')
    OBVIOUS
  <2>4. QED
    BY <1>1, <1>2, <1>3, <2>2 DEF ShaInv
<1>6. QED
  BY <1>4, <1>5

\* Finish keeps ShaInv: Result pads what was given so far, once.
LEMMA FinishKeeps ==
  ASSUME ShaInv, Finish
  PROVE  ShaInv'
<1>1. key \in Keys /\ key \in Seq(Octet) /\ fed \in 0 .. Len(key) /\ sha \in ShaObjects
  BY KeyType DEF ShaInv
<1>2. sha' = Result(sha) /\ key' = key /\ fed' = fed
  BY DEF Finish
<1>3. CASE sha.corrupted \/ sha.computed
  <2>1. sha' = sha
    BY <1>2, <1>3 DEF Result
  <2>2. QED
    BY <1>2, <2>1 DEF ShaInv
<1>4. CASE ~ sha.corrupted /\ ~ sha.computed
  <2> DEFINE str == SubSeq(key, 1, fed)
             t == PadMessage(sha)
  <2>1. str \in Seq(Octet) /\ fed = Len(str) /\ fed \in Nat /\ \A i \in 1 .. fed : str[i] = key[i]
    BY <1>1, FirstAndRest
  <2>2. Absorbed(key, sha, fed) /\ Counts(sha, fed)
    BY <1>4 DEF ShaInv
  <2> HIDE DEF str, t
  <2>3. Absorbed(str, sha, fed)
    BY <2>1, <2>2, CutOther DEF Absorbed
  <2>4. t \in ShaObjects /\ t.processed = Groups(Padded(str), 64)
    BY <1>1, <2>1, <2>2, <2>3, PadCuts DEF t
  <2>5. sha' = [t EXCEPT !.computed = TRUE]
    BY <1>2, <1>4 DEF Result, t
  <2>6. sha' \in ShaObjects /\ sha'.computed /\ sha'.processed = t.processed
    BY <2>4, <2>5 DEF ShaObjects
  <2>7. QED
    BY <1>1, <1>2, <2>4, <2>6 DEF ShaInv, str
<1>5. QED
  BY <1>3, <1>4

\* Answer keeps both invariants: its digest is that of the whole key.
LEMMA AnswerKeeps ==
  ASSUME ShaInv, Answer
  PROVE  ShaInv' /\ AnswerInv'
<1>1. key' = key /\ fed' = fed /\ sha' = sha
  BY DEF Answer
<1>2. ShaInv'
  BY <1>1 DEF ShaInv
<1>3. PICK digest \in {Hash(sha.processed)} \cap [1 .. 20 -> Octet] : answer' = base64_encode(digest)
  BY DEF Answer
<1>4. sha.processed = Groups(Padded(key), 64)
  <2>1. fed = Len(key) /\ sha.processed = Groups(Padded(SubSeq(key, 1, fed)), 64) /\ key \in Seq(Octet)
    BY KeyType DEF Answer, ShaInv
  <2>2. SubSeq(key, 1, Len(key)) = key
    BY <2>1, SubSeqFull
  <2>3. QED
    BY <2>1, <2>2
<1>5. Standard(key) \in [1 .. 20 -> Octet] /\ answer' = base64_encode(Standard(key))
  BY <1>3, <1>4 DEF Standard
<1>6. QED
  BY <1>1, <1>2, <1>5 DEF AnswerInv

\* ShaInv and AnswerInv hold at first and after every step.
LEMMA ShaInductive ==
  /\ HandshakeInit => ShaInv /\ AnswerInv
  /\ ShaInv /\ AnswerInv /\ [HandshakeNext]_exchange => ShaInv' /\ AnswerInv'
<1>1. ASSUME HandshakeInit
      PROVE  ShaInv /\ AnswerInv
  <2>1. key \in Keys /\ fed = 0 /\ sha = Reset /\ answer = <<>>
    BY <1>1 DEF HandshakeInit
  <2>2. fed \in 0 .. Len(key)
    <3>1. Len(key) \in Nat
      BY <2>1, KeyType
    <3>2. QED
      BY <2>1, <3>1
  <2>3. QED
    BY <2>1, <2>2, ResetHolds DEF ShaInv, AnswerInv
<1>2. ASSUME ShaInv, AnswerInv, [HandshakeNext]_exchange
      PROVE  ShaInv' /\ AnswerInv'
  <2>1. CASE Feed
    <3>1. AnswerInv'
      BY <1>2, <2>1 DEF Feed, AnswerInv
    <3>2. QED
      BY <1>2, <2>1, <3>1, FeedKeeps
  <2>2. CASE Finish
    <3>1. AnswerInv'
      BY <1>2, <2>2 DEF Finish, AnswerInv
    <3>2. QED
      BY <1>2, <2>2, <3>1, FinishKeeps
  <2>3. CASE Answer
    BY <1>2, <2>3, AnswerKeeps
  <2>4. CASE UNCHANGED exchange
    BY <1>2, <2>4 DEF exchange, ShaInv, AnswerInv
  <2>5. QED
    BY <1>2, <2>1, <2>2, <2>3, <2>4 DEF HandshakeNext
<1>3. QED
  BY <1>1, <1>2

\* sha1.cpp's PadMessage and ProcessMessageBlock hash what the standard says, for any key, any
\* call of Result, and through every carry of Length_Low.
THEOREM SpecDigestIsSha1 == HandshakeSpec => []DigestIsSha1
<1>1. HandshakeInit => ShaInv /\ AnswerInv
  BY ShaInductive
<1>2. (ShaInv /\ AnswerInv) /\ [HandshakeNext]_exchange => (ShaInv /\ AnswerInv)'
  BY ShaInductive
<1>3. ShaInv /\ AnswerInv => DigestIsSha1
  BY DEF ShaInv, DigestIsSha1
<1>4. QED
  BY <1>1, <1>2, <1>3, PTL DEF HandshakeSpec

-----------------------------------------------------------------------------
(* base64: the letters.                                                     *)

\* The 64 characters, one by one.
Letter(v) ==
  IF v < 26 THEN 65 + v ELSE IF v < 52 THEN 71 + v ELSE IF v < 62 THEN v - 4 ELSE IF v = 62 THEN 43 ELSE 47

\* A range of letters, octet by octet.
LEMMA RangeIs ==
  ASSUME NEW from \in Octet, NEW to \in Octet, from <= to, NEW n \in Nat, n = to - from + 1
  PROVE  /\ Range64(from, to) \in Seq(Octet) /\ Len(Range64(from, to)) = n
         /\ \A i \in 1 .. n : Range64(from, to)[i] = from + i - 1
<1>1. Range64(from, to) \in [1 .. n -> Octet]
  BY DEF Range64, Octet
<1>2. \A i \in 1 .. n : Range64(from, to)[i] = from + i - 1
  BY DEF Range64
<1>3. QED
  BY <1>1, <1>2, FunctionSeq

\* base64_chars has sixty-four letters.
LEMMA AlphabetIs ==
  /\ base64_chars \in Seq(Octet) /\ Len(base64_chars) = 64
  /\ \A v \in 0 .. 63 : base64_chars[v + 1] = Letter(v)
<1> DEFINE a == Range64(65, 90)
           b == Range64(97, 122)
           c == Range64(48, 57)
           d == <<43, 47>>
           ab == a \o b
           abc == ab \o c
           all == abc \o d
           p == 26
           e == 26
           q == 10
           r == 2
<1>1. a \in Seq(Octet) /\ p = Len(a) /\ \A i \in 1 .. 26 : a[i] = 64 + i
  <2>1. 65 \in Octet /\ 90 \in Octet /\ 65 <= 90 /\ 26 = 90 - 65 + 1 /\ 26 \in Nat
    BY DEF Octet
  <2>2. a \in Seq(Octet) /\ Len(a) = 26 /\ \A i \in 1 .. 26 : a[i] = 65 + i - 1
    BY <2>1, RangeIs
  <2>3. QED
    BY <2>2
<1>2. b \in Seq(Octet) /\ e = Len(b) /\ \A i \in 1 .. 26 : b[i] = 96 + i
  <2>1. 97 \in Octet /\ 122 \in Octet /\ 97 <= 122 /\ 26 = 122 - 97 + 1 /\ 26 \in Nat
    BY DEF Octet
  <2>2. b \in Seq(Octet) /\ Len(b) = 26 /\ \A i \in 1 .. 26 : b[i] = 97 + i - 1
    BY <2>1, RangeIs
  <2>3. QED
    BY <2>2
<1>3. c \in Seq(Octet) /\ q = Len(c) /\ \A i \in 1 .. 10 : c[i] = 47 + i
  <2>1. 48 \in Octet /\ 57 \in Octet /\ 48 <= 57 /\ 10 = 57 - 48 + 1 /\ 10 \in Nat
    BY DEF Octet
  <2>2. c \in Seq(Octet) /\ Len(c) = 10 /\ \A i \in 1 .. 10 : c[i] = 48 + i - 1
    BY <2>1, RangeIs
  <2>3. QED
    BY <2>2
<1>4. d \in Seq(Octet) /\ r = Len(d) /\ d[1] = 43 /\ d[2] = 47
  BY DEF Octet
<1>5. base64_chars = all
  BY DEF base64_chars
<1>6. p \in Nat /\ e \in Nat /\ q \in Nat /\ r \in Nat
  OBVIOUS
<1> HIDE DEF a, b, c, d
<1> DEFINE k == p + e
           m == k + q
<1>7. k = 52 /\ m = 62 /\ m + r = 64
  OBVIOUS
<1> HIDE DEF p, e, q, r, k, m
<1>8. /\ ab \in Seq(Octet) /\ k = Len(ab)
      /\ \A i \in 1 .. p : ab[i] = a[i]
      /\ \A i \in 1 .. e : ab[p + i] = b[i]
  <2>1. a \in Seq(Octet) /\ p = Len(a) /\ b \in Seq(Octet) /\ e = Len(b)
    BY <1>1, <1>2
  <2>2. /\ ab \in Seq(Octet) /\ Len(ab) = p + e
        /\ \A i \in 1 .. p : ab[i] = a[i]
        /\ \A i \in 1 .. e : ab[p + i] = b[i]
    BY <2>1, Joined
  <2>3. QED
    BY <2>2 DEF k
<1> HIDE DEF ab
<1>9. /\ abc \in Seq(Octet) /\ m = Len(abc)
      /\ \A i \in 1 .. k : abc[i] = ab[i]
      /\ \A i \in 1 .. q : abc[k + i] = c[i]
  BY <1>3, <1>8, Joined DEF m
<1> HIDE DEF abc
<1>10. /\ all \in Seq(Octet) /\ Len(all) = m + r
       /\ \A i \in 1 .. m : all[i] = abc[i]
       /\ \A i \in 1 .. r : all[m + i] = d[i]
  <2>1. d \in Seq(Octet) /\ r = Len(d) /\ abc \in Seq(Octet) /\ m = Len(abc)
    BY <1>4, <1>9
  <2>2. QED
    BY <2>1, Joined
<1> HIDE DEF all
<1>11. /\ \A i \in 1 .. 26 : ab[i] = a[i]
       /\ \A i \in 1 .. 26 : ab[26 + i] = b[i]
       /\ \A i \in 1 .. 52 : abc[i] = ab[i]
       /\ \A i \in 1 .. 10 : abc[52 + i] = c[i]
       /\ \A i \in 1 .. 62 : all[i] = abc[i]
       /\ \A i \in 1 .. 2 : all[62 + i] = d[i]
  BY <1>7, <1>8, <1>9, <1>10 DEF p, e, q, r
<1>12. ASSUME NEW v \in 0 .. 63
       PROVE  all[v + 1] = Letter(v)
  <2>1. CASE v < 26
    <3>1. v + 1 \in 1 .. 26 /\ v + 1 \in 1 .. 52 /\ v + 1 \in 1 .. 62
      BY <2>1
    <3>2. all[v + 1] = a[v + 1] /\ a[v + 1] = 64 + (v + 1)
      BY <1>1, <1>11, <3>1
    <3>3. QED
      BY <2>1, <3>2 DEF Letter
  <2>2. CASE v >= 26 /\ v < 52
    <3> DEFINE i == v - 25
    <3>1. i \in 1 .. 26 /\ 26 + i = v + 1 /\ v + 1 \in 1 .. 52 /\ v + 1 \in 1 .. 62
      BY <2>2
    <3>2. all[v + 1] = ab[26 + i] /\ ab[26 + i] = b[i] /\ b[i] = 96 + i
      BY <1>2, <1>11, <3>1
    <3>3. QED
      BY <2>2, <3>2 DEF Letter
  <2>3. CASE v >= 52 /\ v < 62
    <3> DEFINE i == v - 51
    <3>1. i \in 1 .. 10 /\ 52 + i = v + 1 /\ v + 1 \in 1 .. 62
      BY <2>3
    <3>2. all[v + 1] = abc[52 + i] /\ abc[52 + i] = c[i] /\ c[i] = 47 + i
      BY <1>3, <1>11, <3>1
    <3>3. QED
      BY <2>3, <3>2 DEF Letter
  <2>4. CASE v >= 62
    <3> DEFINE i == v - 61
    <3>1. i \in 1 .. 2 /\ 62 + i = v + 1 /\ (i = 1 <=> v = 62) /\ (i = 2 <=> v = 63)
      BY <2>4
    <3>2. all[v + 1] = d[i]
      BY <1>11, <3>1
    <3>3. QED
      BY <1>4, <2>4, <3>1, <3>2 DEF Letter
  <2>5. QED
    BY <2>1, <2>2, <2>3, <2>4
<1>13. QED
  BY <1>5, <1>7, <1>10, <1>12

\* What base64_decode finds of what base64_encode writes.
LEMMA SextetIs ==
  /\ \A v \in 0 .. 63 : base64_chars[v + 1] \in Octet /\ Sextet(base64_chars[v + 1]) = v
  /\ Sextet(Padding) = 255
<1>1. \A v \in 0 .. 63 : base64_chars[v + 1] = Letter(v)
  BY AlphabetIs
<1>2. \A i \in 1 .. 64 : base64_chars[i] = Letter(i - 1) /\ i - 1 \in 0 .. 63
  <2>1. \A i \in 1 .. 64 : i - 1 \in 0 .. 63 /\ (i - 1) + 1 = i
    OBVIOUS
  <2>2. QED
    BY <1>1, <2>1
<1>3. \A v, w \in 0 .. 63 : Letter(v) = Letter(w) => v = w
  BY DEF Letter
<1>4. \A v \in 0 .. 63 : Letter(v) \in Octet /\ Letter(v) # 61
  BY DEF Letter, Octet
<1>5. ASSUME NEW v \in 0 .. 63
      PROVE  Sextet(base64_chars[v + 1]) = v
  <2> DEFINE c == base64_chars[v + 1]
             k == v + 1
  <2>1. k \in 1 .. 64 /\ k - 1 = v /\ base64_chars[k] = c
    OBVIOUS
  <2>2. c = Letter(v)
    BY <1>1
  <2> HIDE DEF c, k
  <2>3. \A i \in 1 .. 64 : base64_chars[i] = c => i = k
    BY <1>2, <1>3, <2>1, <2>2
  <2>4. (CHOOSE i \in 1 .. 64 : base64_chars[i] = c) = k
    BY <2>1, <2>3
  <2>5. Sextet(c) = v
    BY <2>1, <2>4 DEF Sextet
  <2>6. QED
    BY <2>5 DEF c
<1>6. Sextet(Padding) = 255
  <2>1. ~ \E i \in 1 .. 64 : base64_chars[i] = 61
    BY <1>2, <1>4
  <2>2. QED
    BY <2>1 DEF Sextet, Padding
<1>7. QED
  BY <1>1, <1>4, <1>5, <1>6

-----------------------------------------------------------------------------
(* base64: a group of octets in letters and back.                           *)

\* An octet in parts of bits.
LEMMA Parts ==
  ASSUME NEW x \in Octet
  PROVE  /\ x \div 4 \in 0 .. 63 /\ x % 4 \in 0 .. 3 /\ x = 4 * (x \div 4) + (x % 4)
         /\ x \div 16 \in 0 .. 15 /\ x % 16 \in 0 .. 15 /\ x = 16 * (x \div 16) + (x % 16)
         /\ x \div 64 \in 0 .. 3 /\ x % 64 \in 0 .. 63 /\ x = 64 * (x \div 64) + (x % 64)
<1>1. x \in Nat /\ x <= 255
  BY DEF Octet
<1>2. x \div 4 \in 0 .. 63 /\ x % 4 \in 0 .. 3 /\ x = 4 * (x \div 4) + (x % 4)
  BY <1>1
<1>3. x \div 16 \in 0 .. 15 /\ x % 16 \in 0 .. 15 /\ x = 16 * (x \div 16) + (x % 16)
  BY <1>1
<1>4. x \div 64 \in 0 .. 3 /\ x % 64 \in 0 .. 63 /\ x = 64 * (x \div 64) + (x % 64)
  BY <1>1
<1>5. QED
  BY <1>2, <1>3, <1>4

\* f begins with three octets.
Three(f) == f[1] \in Octet /\ f[2] \in Octet /\ f[3] \in Octet

\* Three octets go into four times six bits and come out of them.
LEMMA SixBits ==
  ASSUME NEW f, Three(f)
  PROVE  /\ \A i \in 1 .. 4 : Sextets(f)[i] \in 0 .. 63
         /\ \A q : /\ q[1] = Sextets(f)[1] /\ q[2] = Sextets(f)[2] => Triple(q)[1] = f[1]
                   /\ q[2] = Sextets(f)[2] /\ q[3] = Sextets(f)[3] => Triple(q)[2] = f[2]
                   /\ q[3] = Sextets(f)[3] /\ q[4] = Sextets(f)[4] => Triple(q)[3] = f[3]
<1> DEFINE w == Sextets(f)
           a == f[1] \div 4
           b == f[1] % 4
           c == f[2] \div 16
           d == f[2] % 16
           e == f[3] \div 64
           g == f[3] % 64
<1>1. /\ a \in 0 .. 63 /\ b \in 0 .. 3 /\ f[1] = 4 * a + b
      /\ c \in 0 .. 15 /\ d \in 0 .. 15 /\ f[2] = 16 * c + d
      /\ e \in 0 .. 3 /\ g \in 0 .. 63 /\ f[3] = 64 * e + g
  <2>1. f[1] \in Octet /\ f[2] \in Octet /\ f[3] \in Octet
    BY DEF Three
  <2>2. a \in 0 .. 63 /\ b \in 0 .. 3 /\ f[1] = 4 * a + b
    BY <2>1, Parts
  <2>3. c \in 0 .. 15 /\ d \in 0 .. 15 /\ f[2] = 16 * c + d
    BY <2>1, Parts
  <2>4. e \in 0 .. 3 /\ g \in 0 .. 63 /\ f[3] = 64 * e + g
    BY <2>1, Parts
  <2>5. QED
    BY <2>2, <2>3, <2>4
<1>2. w[1] = a /\ w[2] = b * 16 + c /\ w[3] = d * 4 + e /\ w[4] = g
  BY DEF Sextets
<1> HIDE DEF w, a, b, c, d, e, g
<1>3. w[1] \in 0 .. 63 /\ w[2] \in 0 .. 63 /\ w[3] \in 0 .. 63 /\ w[4] \in 0 .. 63
  BY <1>1, <1>2
<1>4. \A i \in 1 .. 4 : w[i] \in 0 .. 63
  <2>1. \A i \in 1 .. 4 : i = 1 \/ i = 2 \/ i = 3 \/ i = 4
    OBVIOUS
  <2>2. QED
    BY <1>3, <2>1
<1>5. ASSUME NEW q
      PROVE  /\ q[1] = w[1] /\ q[2] = w[2] => Triple(q)[1] = f[1]
             /\ q[2] = w[2] /\ q[3] = w[3] => Triple(q)[2] = f[2]
             /\ q[3] = w[3] /\ q[4] = w[4] => Triple(q)[3] = f[3]
  <2>1. /\ Triple(q)[1] = (q[1] * 4 + (q[2] % 64) \div 16) % 256
        /\ Triple(q)[2] = ((q[2] % 16) * 16 + (q[3] % 64) \div 4) % 256
        /\ Triple(q)[3] = ((q[3] % 4) * 64 + q[4]) % 256
    BY DEF Triple
  <2>2. ASSUME q[1] = w[1], q[2] = w[2]
        PROVE  Triple(q)[1] = f[1]
    <3> DEFINE u == b * 16 + c
    <3>1. u % 64 = u /\ u \div 16 = b
      BY <1>1
    <3>2. (q[2] % 64) \div 16 = b /\ q[1] = a
      BY <1>2, <2>2, <3>1
    <3>3. (a * 4 + b) % 256 = f[1]
      BY <1>1
    <3>4. QED
      BY <2>1, <3>2, <3>3
  <2>3. ASSUME q[2] = w[2], q[3] = w[3]
        PROVE  Triple(q)[2] = f[2]
    <3> DEFINE u == b * 16 + c
               v == d * 4 + e
    <3>1. u % 16 = c /\ v % 64 = v /\ v \div 4 = d
      BY <1>1
    <3>2. q[2] % 16 = c /\ (q[3] % 64) \div 4 = d
      BY <1>2, <2>3, <3>1
    <3>3. (c * 16 + d) % 256 = f[2]
      BY <1>1
    <3>4. QED
      BY <2>1, <3>2, <3>3
  <2>4. ASSUME q[3] = w[3], q[4] = w[4]
        PROVE  Triple(q)[3] = f[3]
    <3> DEFINE v == d * 4 + e
    <3>1. v % 4 = e
      BY <1>1
    <3>2. q[3] % 4 = e /\ q[4] = g
      BY <1>2, <2>4, <3>1
    <3>3. (e * 64 + g) % 256 = f[3]
      BY <1>1
    <3>4. QED
      BY <2>1, <3>2, <3>3
  <2>5. QED
    BY <2>2, <2>3, <2>4
<1>6. QED
  BY <1>4, <1>5 DEF w

\* A group has one, two or three octets, and is filled to three.
IsShort(b) == b \in Seq(Octet) /\ Len(b) \in 1 .. 3
Filled(b)  == b \o Zeros(3 - Len(b))

\* A filled group has three octets, and begins with its own.
LEMMA FilledIs ==
  ASSUME NEW b, IsShort(b)
  PROVE  Three(Filled(b)) /\ \A i \in 1 .. Len(b) : Filled(b)[i] = b[i]
<1> DEFINE k == Len(b)
           n == 3 - k
           o == Zeros(n)
           f == b \o o
<1>1. b \in Seq(Octet) /\ n \in Nat /\ k \in 1 .. 3 /\ k + n = 3 /\ k = Len(b)
  <2>1. b \in Seq(Octet) /\ k \in 1 .. 3 /\ k = Len(b)
    BY DEF IsShort
  <2> HIDE DEF k
  <2>2. QED
    BY <2>1
<1>2. Filled(b) = f
  BY DEF Filled
<1> HIDE DEF n, k
<1>3. o \in Seq(Octet) /\ n = Len(o)
  BY <1>1, ZerosAre
<1> HIDE DEF o
<1>4. /\ f \in Seq(Octet) /\ Len(f) = k + n
      /\ \A i \in 1 .. k : f[i] = b[i]
  <2>1. b \in Seq(Octet) /\ k = Len(b)
    BY <1>1
  <2>2. QED
    BY <2>1, <1>3, Joined
<1> HIDE DEF f
<1>5. f[1] \in Octet /\ f[2] \in Octet /\ f[3] \in Octet
  <2>1. f \in Seq(Octet) /\ 1 \in 1 .. Len(f) /\ 2 \in 1 .. Len(f) /\ 3 \in 1 .. Len(f)
    BY <1>1, <1>4
  <2>2. QED
    BY <2>1, ElementOfSeq
<1>6. QED
  BY <1>2, <1>4, <1>5 DEF Three, k

\* The letters of e say the octets of b, and its padding is none of the 64.
Says(e, b) ==
  /\ e \in Seq(Octet) /\ Len(e) = 4
  /\ \A i \in 1 .. Len(b) + 1 : /\ Sextet(e[i]) = Sextets(Filled(b))[i]
                                /\ Sextet(e[i]) \in 0 .. 63
  /\ \A i \in Len(b) + 2 .. 4 : Sextet(e[i]) = 255

\* What base64_encode writes of a group says its octets.
LEMMA EncodedSays ==
  ASSUME NEW b, IsShort(b)
  PROVE  Says(Encoded(b), b)
<1> DEFINE k == Len(b)
           f == Filled(b)
           w == Sextets(f)
           E(i) == IF i <= k + 1 THEN base64_chars[w[i] + 1] ELSE Padding
           e == Encoded(b)
<1>1. \A i \in 1 .. 4 : w[i] \in 0 .. 63
  <2>1. Three(f)
    BY FilledIs
  <2> HIDE DEF f
  <2>2. QED
    BY <2>1, SixBits
<1>2. e = [i \in 1 .. 4 |-> E(i)]
  BY DEF Encoded, LettersOf, Filled
<1>3. k \in 1 .. 3
  BY DEF IsShort
<1> HIDE DEF w, f, e, k
<1>4. ASSUME NEW i \in 1 .. 4
      PROVE  E(i) \in Octet /\ Sextet(E(i)) = IF i <= k + 1 THEN w[i] ELSE 255
  <2>1. CASE i <= k + 1
    <3> DEFINE v == w[i]
    <3>1. v \in 0 .. 63 /\ E(i) = base64_chars[v + 1]
      BY <1>1, <2>1
    <3> HIDE DEF v, E
    <3>2. base64_chars[v + 1] \in Octet /\ Sextet(base64_chars[v + 1]) = v
      BY <3>1, SextetIs
    <3>3. QED
      BY <2>1, <3>1, <3>2 DEF v
  <2>2. CASE ~ (i <= k + 1)
    <3>1. E(i) = Padding /\ Sextet(Padding) = 255 /\ Padding \in Octet
      BY <2>2, SextetIs DEF Padding, Octet
    <3> HIDE DEF E
    <3>2. QED
      BY <2>2, <3>1
  <2>3. QED
    BY <2>1, <2>2
<1> HIDE DEF E
<1>5. e \in [1 .. 4 -> Octet] /\ \A i \in 1 .. 4 : e[i] = E(i)
  BY <1>2, <1>4
<1>6. e \in Seq(Octet) /\ Len(e) = 4
  <2> DEFINE n == 4
  <2>1. n \in Nat /\ e \in [1 .. n -> Octet]
    BY <1>5
  <2> HIDE DEF n
  <2>2. e \in Seq(Octet) /\ Len(e) = n
    BY <2>1, FunctionSeq
  <2>3. QED
    BY <2>2 DEF n
<1>7. \A i \in 1 .. 4 : Sextet(e[i]) = IF i <= k + 1 THEN w[i] ELSE 255
  BY <1>4, <1>5
<1>8. \A i \in 1 .. k + 1 : Sextet(e[i]) = w[i] /\ Sextet(e[i]) \in 0 .. 63
  <2>1. \A i \in 1 .. k + 1 : i \in 1 .. 4 /\ i <= k + 1
    BY <1>3
  <2>2. QED
    BY <1>1, <1>7, <2>1
<1>9. \A i \in k + 2 .. 4 : Sextet(e[i]) = 255
  <2>1. \A i \in k + 2 .. 4 : i \in 1 .. 4 /\ ~ (i <= k + 1)
    BY <1>3
  <2>2. QED
    BY <1>7, <2>1
<1>10. Says(e, b)
  BY <1>6, <1>8, <1>9 DEF Says, w, f, k
<1>11. QED
  BY <1>10 DEF e

\* A sextet is an octet of its own.
LEMMA SextetType == \A c : Sextet(c) \in Octet
<1>1. TAKE c
<1>2. CASE \E i \in 1 .. 64 : base64_chars[i] = c
  <2>1. (CHOOSE i \in 1 .. 64 : base64_chars[i] = c) \in 1 .. 64
    BY <1>2
  <2> DEFINE m == CHOOSE i \in 1 .. 64 : base64_chars[i] = c
  <2>2. Sextet(c) = m - 1
    BY <1>2 DEF Sextet
  <2> HIDE DEF m
  <2>3. QED
    BY <2>1, <2>2 DEF Octet, m
<1>3. CASE ~ \E i \in 1 .. 64 : base64_chars[i] = c
  BY <1>3 DEF Sextet, Octet
<1>4. QED
  BY <1>2, <1>3

\* base64_decode makes octets of four letters.
LEMMA TripleType ==
  ASSUME NEW q, q[1] \in Octet, q[2] \in Octet, q[3] \in Octet, q[4] \in Octet
  PROVE  Triple(q) \in Seq(Octet) /\ Len(Triple(q)) = 3
<1> DEFINE x == (q[1] * 4 + (q[2] % 64) \div 16) % 256
           y == ((q[2] % 16) * 16 + (q[3] % 64) \div 4) % 256
           z == ((q[3] % 4) * 64 + q[4]) % 256
<1>1. x \in Octet /\ y \in Octet /\ z \in Octet
  BY DEF Octet
<1>2. Triple(q) = <<x, y, z>>
  BY DEF Triple
<1> HIDE DEF x, y, z
<1>3. <<x, y, z>> \in Seq(Octet) /\ Len(<<x, y, z>>) = 3
  BY <1>1
<1>4. QED
  BY <1>2, <1>3

\* base64_decode finds the octets of a group in the letters that are not padding.
LEMMA DecodedIs ==
  ASSUME NEW b, IsShort(b), NEW letters \in Seq(Octet), Len(letters) = Len(b) + 1,
         \A i \in 1 .. Len(b) + 1 : letters[i] = Encoded(b)[i]
  PROVE  OctetsOf(letters) = b
<1> DEFINE k == Len(b)
           l == k + 1
           f == Filled(b)
           w == Sextets(f)
           n == 4 - Len(letters)
           o == Zeros(n)
           g == letters \o o
           q == [i \in 1 .. 4 |-> Sextet(g[i])]
           t == Triple(q)
<1>1. OctetsOf(letters) = SubSeq(t, 1, Len(letters) - 1)
  BY DEF OctetsOf
<1>2. Three(f) /\ \A i \in 1 .. k : f[i] = b[i]
  BY FilledIs
<1>3. \A i \in 1 .. l : Sextet(letters[i]) = w[i]
  BY EncodedSays DEF Says
<1>4. n \in Nat /\ k \in 1 .. 3 /\ l = Len(letters) /\ l = k + 1 /\ b \in Seq(Octet) /\ Len(letters) - 1 = k
  <2>1. b \in Seq(Octet) /\ k \in 1 .. 3 /\ Len(letters) = k + 1
    BY DEF IsShort
  <2> HIDE DEF k
  <2>2. QED
    BY <2>1
<1> HIDE DEF n, k, l
<1>5. o \in Seq(Octet) /\ n = Len(o)
  BY <1>4, ZerosAre
<1> HIDE DEF o
<1>6. \A i \in 1 .. l : g[i] = letters[i]
  <2>1. l = Len(letters)
    BY <1>4
  <2>2. QED
    BY <1>5, <2>1, Joined
<1> HIDE DEF g
<1>7. \A i \in 1 .. l : q[i] = w[i]
  <2>1. \A i \in 1 .. l : i \in 1 .. 4
    BY <1>4
  <2>2. QED
    BY <1>3, <1>6, <2>1
<1>8. q[1] \in Octet /\ q[2] \in Octet /\ q[3] \in Octet /\ q[4] \in Octet
  <2>1. q[1] = Sextet(g[1]) /\ q[2] = Sextet(g[2]) /\ q[3] = Sextet(g[3]) /\ q[4] = Sextet(g[4])
    OBVIOUS
  <2> HIDE DEF q
  <2>2. QED
    BY <2>1, SextetType
<1> HIDE DEF q
<1>9. /\ q[1] = w[1] /\ q[2] = w[2] => t[1] = f[1]
      /\ q[2] = w[2] /\ q[3] = w[3] => t[2] = f[2]
      /\ q[3] = w[3] /\ q[4] = w[4] => t[3] = f[3]
  <2> HIDE DEF f
  <2>1. QED
    BY <1>2, SixBits
<1>10. t \in Seq(Octet) /\ Len(t) = 3
  BY <1>8, TripleType
<1> HIDE DEF w, f, t
<1>11. q[1] = w[1] /\ q[2] = w[2] /\ (k >= 2 => q[3] = w[3]) /\ (k = 3 => q[4] = w[4])
  BY <1>4, <1>7
<1>12. \A i \in 1 .. k : t[i] = b[i]
  <2>1. \A i \in 1 .. k : i = 1 \/ (i = 2 /\ k >= 2) \/ (i = 3 /\ k = 3)
    BY <1>4
  <2>2. \A i \in 1 .. k : t[i] = f[i]
    BY <1>4, <1>9, <1>11, <2>1
  <2>3. QED
    BY <1>2, <2>2
<1>13. /\ SubSeq(t, 1, k) \in Seq(Octet) /\ Len(SubSeq(t, 1, k)) = k
       /\ \A i \in 1 .. k : SubSeq(t, 1, k)[i] = t[i]
  <2>1. k \in 0 .. Len(t)
    BY <1>4, <1>10
  <2>2. QED
    BY <1>10, <2>1, FirstAndRest
<1>14. SubSeq(t, 1, k) = b
  BY <1>4, <1>12, <1>13, SeqEqual DEF k
<1>15. QED
  BY <1>1, <1>4, <1>14

-----------------------------------------------------------------------------
(* base64: a text of octets in letters and back.                            *)

\* Where a place of a text is in its groups of four.
LEMMA PlaceOfFour ==
  ASSUME NEW m \in Nat, NEW i \in 1 .. Before(4, m + 1)
  PROVE  \E n \in 1 .. m, j \in 1 .. 4 : i = Before(4, n) + j
<1> DEFINE d == (i - 1) \div 4
           r == (i - 1) % 4
<1>1. Before(4, m + 1) = 4 * m
  BY DEF Before
<1>2. i \in Nat /\ i >= 1 /\ i <= 4 * m /\ i - 1 \in Nat
  BY <1>1
<1>3. d \in Nat /\ r \in 0 .. 3 /\ i - 1 = 4 * d + r
  BY <1>2
<1> HIDE DEF d, r
<1>4. d + 1 \in 1 .. m /\ r + 1 \in 1 .. 4 /\ i = 4 * d + (r + 1)
  BY <1>2, <1>3
<1>5. Before(4, d + 1) = 4 * d
  BY <1>3 DEF Before
<1>6. QED
  BY <1>4, <1>5

\* The group of four that a place of a text is in, and its place there.
OfFour(i) == ((i - 1) \div 4) + 1
InFour(i) == ((i - 1) % 4) + 1

\* A place of a text, taken apart again.
LEMMA InFours ==
  ASSUME NEW n \in Nat \ {0}, NEW j \in 1 .. 4
  PROVE  OfFour(Before(4, n) + j) = n /\ InFour(Before(4, n) + j) = j
<1> DEFINE k == n - 1
           h == j - 1
<1>1. k \in Nat /\ h \in 0 .. 3 /\ k + 1 = n /\ h + 1 = j
  OBVIOUS
<1>2. (Before(4, n) + j) - 1 = 4 * k + h
  BY DEF Before
<1> HIDE DEF k, h
<1>3. (4 * k + h) \div 4 = k /\ (4 * k + h) % 4 = h
  BY <1>1
<1>4. OfFour(Before(4, n) + j) = k + 1 /\ InFour(Before(4, n) + j) = h + 1
  <2>1. OfFour(Before(4, n) + j) = (((Before(4, n) + j) - 1) \div 4) + 1
    BY DEF OfFour
  <2>2. InFour(Before(4, n) + j) = (((Before(4, n) + j) - 1) % 4) + 1
    BY DEF InFour
  <2>3. QED
    BY <1>2, <1>3, <2>1, <2>2
<1>5. QED
  BY <1>1, <1>4

\* Sequences of four joined, by place.
LEMMA Fours ==
  ASSUME NEW S, NEW p \in Seq(Seq(S)), \A n \in 1 .. Len(p) : Len(p[n]) = 4
  PROVE  /\ FlattenSeq(p) \in Seq(S) /\ Len(FlattenSeq(p)) = Before(4, Len(p) + 1)
         /\ \A n \in 1 .. Len(p), j \in 1 .. 4 : FlattenSeq(p)[Before(4, n) + j] = p[n][j]
<1> DEFINE N == Len(p)
           l == Before(4, N + 1)
           s == [i \in 1 .. l |-> p[OfFour(i)][InFour(i)]]
<1>1. N \in Nat /\ \A n \in 1 .. N : p[n] \in Seq(S) /\ Len(p[n]) = 4
  BY ElementOfSeq
<1> HIDE DEF N
<1>2. l \in Nat /\ l = 4 * N
  BY <1>1 DEF Before
<1>3. ASSUME NEW n \in 1 .. N, NEW j \in 1 .. 4
      PROVE  Before(4, n) + j \in 1 .. l /\ OfFour(Before(4, n) + j) = n /\ InFour(Before(4, n) + j) = j
  <2>1. n \in Nat \ {0} /\ n <= N
    BY <1>1
  <2>2. Before(4, n) + j \in 1 .. 4 * N
    BY <1>1, <2>1 DEF Before
  <2> HIDE DEF l
  <2>3. OfFour(Before(4, n) + j) = n /\ InFour(Before(4, n) + j) = j
    BY <2>1, InFours
  <2>4. QED
    BY <1>2, <2>2, <2>3
<1>4. ASSUME NEW n \in 1 .. N, NEW j \in 1 .. 4
      PROVE  s[Before(4, n) + j] = p[n][j]
  <2> DEFINE i == Before(4, n) + j
  <2>1. i \in 1 .. l /\ OfFour(i) = n /\ InFour(i) = j
    BY <1>3
  <2> HIDE DEF i, l
  <2>2. s[i] = p[n][j]
    BY <2>1
  <2>3. QED
    BY <2>2 DEF i, l
<1>5. s \in [1 .. l -> S]
  <2>1. ASSUME NEW i \in 1 .. l
        PROVE  s[i] \in S
    <3>1. PICK n \in 1 .. N, j \in 1 .. 4 : i = Before(4, n) + j
      BY <1>1, PlaceOfFour
    <3>2. s[i] = p[n][j]
      BY <1>4, <3>1
    <3>3. p[n] \in Seq(S) /\ j \in 1 .. Len(p[n])
      BY <1>1
    <3> HIDE DEF s
    <3>4. QED
      BY <3>2, <3>3, ElementOfSeq
  <2> HIDE DEF l
  <2>2. s = [i \in 1 .. l |-> s[i]]
    OBVIOUS
  <2>3. QED
    BY <2>1, <2>2
<1> HIDE DEF s, l
<1>6. s \in Seq(S) /\ Len(s) = l
  <2>1. l \in Nat
    BY <1>2
  <2>2. QED
    BY <2>1, <1>5, FunctionSeq
<1>7. ASSUME NEW n \in 1 .. N
      PROVE  IsGroup(S, p[n], s, 4, n)
  <2>1. Before(4, n) + 4 <= l
    <3>1. 4 \in 1 .. 4
      OBVIOUS
    <3>2. Before(4, n) + 4 \in 1 .. l
      BY <1>3, <3>1
    <3>3. QED
      BY <1>2, <3>2
  <2>2. p[n] \in Seq(S) /\ Len(p[n]) = 4 /\ \A j \in 1 .. 4 : p[n][j] = s[Before(4, n) + j]
    BY <1>1, <1>4
  <2>3. QED
    BY <1>6, <2>1, <2>2 DEF IsGroup
<1>8. Groups(s, 4) = p
  BY <1>6, <1>7, GroupsOf DEF N, l
<1>9. FlattenSeq(p) = s
  <2>1. FlattenSeq(Groups(s, 4)) = s
    BY <1>6, GroupsJoin
  <2>2. QED
    BY <1>8, <2>1
<1>10. QED
  BY <1>4, <1>6, <1>9 DEF N, l

\* The groups of three of a text of octets, each of them short, and only the last maybe shorter than three.
LEMMA Threes ==
  ASSUME NEW s \in Seq(Octet)
  PROVE  /\ Groups(s, 3) \in Seq(Seq(Octet)) /\ Len(Groups(s, 3)) = GroupCount(Len(s), 3)
         /\ \A n \in 1 .. Len(Groups(s, 3)) : IsShort(Groups(s, 3)[n])
         /\ \A n \in 1 .. Len(Groups(s, 3)) - 1 : Len(Groups(s, 3)[n]) = 3
<1> DEFINE g == Groups(s, 3)
           l == Len(s)
           N == GroupCount(l, 3)
<1>1. g \in Seq(Seq(Octet)) /\ Len(g) = N /\ \A n \in 1 .. N : IsGroup(Octet, g[n], s, 3, n)
  BY GroupsAre
<1>2. l \in Nat
  OBVIOUS
<1> HIDE DEF g, l
<1>3. N \in Nat /\ \A n \in 1 .. N : Before(3, n) \in Nat /\ Before(3, n) < l
  BY <1>2, GroupBounds
<1> HIDE DEF N
<1>4. \A n \in 1 .. N : /\ g[n] \in Seq(Octet)
                        /\ Len(g[n]) = IF Before(3, n) + 3 <= l THEN 3 ELSE l - Before(3, n)
  BY <1>1 DEF IsGroup, l
<1>5. \A n \in 1 .. N : IsShort(g[n])
  <2>1. TAKE n \in 1 .. N
  <2> DEFINE b == Before(3, n)
             k == Len(g[n])
  <2>2. b \in Nat /\ b < l /\ g[n] \in Seq(Octet) /\ k = IF b + 3 <= l THEN 3 ELSE l - b
    BY <1>3, <1>4
  <2> HIDE DEF b, k
  <2>3. k \in 1 .. 3
    BY <1>2, <2>2
  <2>4. QED
    BY <2>2, <2>3 DEF IsShort, k
<1>6. \A n \in 1 .. N - 1 : Len(g[n]) = 3
  <2>1. TAKE n \in 1 .. N - 1
  <2>2. n \in 1 .. N /\ n + 1 \in 1 .. N
    BY <1>3
  <2>3. Before(3, n + 1) < l /\ Before(3, n + 1) = Before(3, n) + 3 /\ Before(3, n) \in Nat
    <3>1. Before(3, n + 1) = 3 * n /\ Before(3, n) = 3 * (n - 1) /\ 3 * n = 3 * (n - 1) + 3
      BY <2>2 DEF Before
    <3>2. QED
      BY <1>3, <2>2, <3>1
  <2>4. Before(3, n) + 3 <= l
    BY <1>2, <2>3
  <2>5. QED
    BY <1>4, <2>2, <2>4
<1>7. QED
  BY <1>1, <1>5, <1>6 DEF g, N, l

\* text is what base64_encode writes of groups of octets.
Encodes(text, g) ==
  /\ text \in Seq(Octet) /\ Len(text) = Before(4, Len(g) + 1)
  /\ \A n \in 1 .. Len(g), j \in 1 .. 4 : text[Before(4, n) + j] = Encoded(g[n])[j]

\* The groups of a text of octets: each short, and all but the last of three.
Grouped(g) ==
  /\ g \in Seq(Seq(Octet)) /\ \A n \in 1 .. Len(g) : IsShort(g[n])
  /\ \A n \in 1 .. Len(g) - 1 : Len(g[n]) = 3

\* How many letters a reader takes of it.
Letters(g) == IF Len(g) = 0 THEN 0 ELSE Before(4, Len(g)) + (Len(g[Len(g)]) + 1)

\* base64_encode writes its groups one behind the other.
LEMMA EncodeWrites ==
  ASSUME NEW octets \in Seq(Octet)
  PROVE  Grouped(Groups(octets, 3)) /\ Encodes(base64_encode(octets), Groups(octets, 3))
<1> DEFINE g == Groups(octets, 3)
           p == [n \in DOMAIN g |-> Encoded(g[n])]
           N == Len(g)
<1>1. Grouped(g)
  BY Threes DEF Grouped
<1>2. base64_encode(octets) = FlattenSeq(p)
  BY DEF base64_encode
<1> HIDE DEF g
<1>3. N \in Nat /\ DOMAIN g = 1 .. N
  BY <1>1 DEF Grouped
<1>4. \A n \in 1 .. N : Says(Encoded(g[n]), g[n])
  BY <1>1, EncodedSays DEF Grouped
<1>5. \A n \in 1 .. N : Encoded(g[n]) \in Seq(Octet) /\ Len(Encoded(g[n])) = 4
  BY <1>4 DEF Says
<1> HIDE DEF N
<1>6. p \in [1 .. N -> Seq(Octet)] /\ \A n \in 1 .. N : p[n] = Encoded(g[n])
  BY <1>3, <1>5
<1> HIDE DEF p
<1>7. p \in Seq(Seq(Octet)) /\ Len(p) = N
  BY <1>3, <1>6, FunctionSeq
<1>8. \A n \in 1 .. Len(p) : Len(p[n]) = 4
  BY <1>5, <1>6, <1>7
<1>9. /\ FlattenSeq(p) \in Seq(Octet) /\ Len(FlattenSeq(p)) = Before(4, Len(p) + 1)
      /\ \A n \in 1 .. Len(p), j \in 1 .. 4 : FlattenSeq(p)[Before(4, n) + j] = p[n][j]
  BY <1>7, <1>8, Fours
<1>10. Encodes(FlattenSeq(p), g)
  BY <1>6, <1>7, <1>9 DEF Encodes, N
<1>11. QED
  BY <1>1, <1>2, <1>10 DEF g

\* Where the letters of a group are.
LEMMA LettersBounds ==
  ASSUME NEW g, Grouped(g)
  PROVE  /\ Letters(g) \in 0 .. Before(4, Len(g) + 1) /\ GroupCount(Letters(g), 4) = Len(g)
         /\ \A n \in 1 .. Len(g) :
              Len(g[n]) + 1 = IF Before(4, n) + 4 <= Letters(g) THEN 4 ELSE Letters(g) - Before(4, n)
         /\ Len(g) # 0 => Letters(g) = Before(4, Len(g)) + (Len(g[Len(g)]) + 1)
<1> DEFINE N == Len(g)
           K == Letters(g)
           l(n) == Len(g[n])
<1>1. /\ N \in Nat
      /\ \A n \in 1 .. N : l(n) \in 1 .. 3 /\ (n # N => l(n) = 3)
  <2>1. N \in Nat
    BY DEF Grouped
  <2>2. \A n \in 1 .. N : l(n) \in 1 .. 3
    BY DEF Grouped, IsShort
  <2>3. \A n \in 1 .. N - 1 : l(n) = 3
    BY DEF Grouped
  <2> HIDE DEF N, l
  <2>4. QED
    BY <2>1, <2>2, <2>3
<1>2. K = IF N = 0 THEN 0 ELSE Before(4, N) + (l(N) + 1)
  BY DEF Letters
<1> HIDE DEF N, K, l
<1>3. CASE N = 0
  <2>1. K = 0 /\ GroupCount(0, 4) = 0 /\ 0 \in 0 .. Before(4, 0 + 1)
    BY <1>2, <1>3 DEF GroupCount, Before
  <2>2. /\ K \in 0 .. Before(4, N + 1) /\ GroupCount(K, 4) = N
        /\ \A n \in 1 .. N : l(n) + 1 = IF Before(4, n) + 4 <= K THEN 4 ELSE K - Before(4, n)
        /\ N # 0 => K = Before(4, N) + (l(N) + 1)
    BY <1>3, <2>1
  <2>3. QED
    BY <2>2 DEF N, K, l
<1>4. CASE N # 0
  <2> DEFINE m == N - 1
             h == l(N)
  <2>1. m \in Nat /\ N = m + 1 /\ h \in 1 .. 3
    BY <1>1, <1>4
  <2>2. Before(4, N) = 4 * m /\ Before(4, N + 1) = 4 * m + 4
    BY <2>1 DEF Before
  <2>3. K = 4 * m + (h + 1)
    BY <1>2, <1>4, <2>2
  <2> HIDE DEF m, h
  <2>4. K \in 0 .. Before(4, N + 1)
    BY <2>1, <2>2, <2>3
  <2>5. GroupCount(K, 4) = N
    <3>1. (4 * m + (h + 1) + 4 - 1) \div 4 = m + 1
      BY <2>1
    <3>2. QED
      BY <2>1, <2>3, <3>1 DEF GroupCount
  <2>6. ASSUME NEW n \in 1 .. N
        PROVE  l(n) + 1 = IF Before(4, n) + 4 <= K THEN 4 ELSE K - Before(4, n)
    <3>1. CASE n = N
      <4>1. l(n) + 1 = IF 4 * m + 4 <= K THEN 4 ELSE K - 4 * m
        BY <2>1, <2>3, <3>1 DEF h
      <4>2. QED
        BY <2>2, <3>1, <4>1
    <3>2. CASE n # N
      <4>1. l(n) = 3
        BY <1>1, <3>2
      <4>2. n \in Nat /\ n <= m
        BY <2>1, <3>2
      <4>3. Before(4, n) + 4 <= 4 * m
        BY <2>1, <4>2 DEF Before
      <4>4. Before(4, n) + 4 <= K
        <5>1. Before(4, n) \in Int
          BY <4>2 DEF Before
        <5>2. QED
          BY <2>1, <2>3, <4>3, <5>1
      <4>5. QED
        BY <4>1, <4>4
    <3>3. QED
      BY <3>1, <3>2
  <2>7. QED
    BY <1>2, <1>4, <2>4, <2>5, <2>6 DEF N, K, l
<1>5. QED
  BY <1>3, <1>4

\* base64_decode reads exactly the letters that are not padding.
LEMMA ReadableIs ==
  ASSUME NEW g, Grouped(g), NEW text, Encodes(text, g)
  PROVE  Readable(text) = SubSeq(text, 1, Letters(g))
<1> DEFINE N == Len(g)
           K == Letters(g)
           L == Len(text)
           X == {i \in DOMAIN text : Sextet(text[i]) = 255} \cup {L + 1}
<1>1. text \in Seq(Octet) /\ L = Before(4, N + 1) /\ L \in Nat /\ DOMAIN text = 1 .. L
  BY DEF Encodes
<1>2. N \in Nat
  BY DEF Grouped
<1>3. ASSUME NEW n \in 1 .. N, NEW j \in 1 .. 4
      PROVE  /\ j <= Len(g[n]) + 1 => Sextet(text[Before(4, n) + j]) # 255
             /\ j > Len(g[n]) + 1 => Sextet(text[Before(4, n) + j]) = 255
  <2> DEFINE b == g[n]
             k == Len(b)
             e == Encoded(b)
  <2>1. IsShort(b)
    BY DEF Grouped
  <2>2. Says(e, b) /\ k \in 1 .. 3
    BY <2>1, EncodedSays DEF IsShort
  <2>3. text[Before(4, n) + j] = e[j]
    BY DEF Encodes
  <2>4. /\ \A i \in 1 .. k + 1 : Sextet(e[i]) \in 0 .. 63
        /\ \A i \in k + 2 .. 4 : Sextet(e[i]) = 255
    BY <2>2 DEF Says
  <2> HIDE DEF e, k, N
  <2>5. ASSUME j <= k + 1
        PROVE  Sextet(e[j]) # 255
    <3>1. j \in 1 .. k + 1
      BY <2>2, <2>5
    <3>2. Sextet(e[j]) \in 0 .. 63
      BY <2>4, <3>1
    <3>3. QED
      BY <3>2
  <2>6. ASSUME j > k + 1
        PROVE  Sextet(e[j]) = 255
    <3>1. j \in k + 2 .. 4
      BY <2>2, <2>6
    <3>2. QED
      BY <2>4, <3>1
  <2>7. QED
    BY <2>3, <2>5, <2>6 DEF k
<1> HIDE DEF N, K, L
<1>4. /\ K \in 0 .. L
      /\ \A n \in 1 .. N : Len(g[n]) + 1 = IF Before(4, n) + 4 <= K THEN 4 ELSE K - Before(4, n)
      /\ N # 0 => K = Before(4, N) + (Len(g[N]) + 1)
  BY <1>1, LettersBounds DEF K, N
<1>5. ASSUME NEW i \in 1 .. L
      PROVE  /\ i <= K => Sextet(text[i]) # 255
             /\ i > K => Sextet(text[i]) = 255
  <2>1. PICK n \in 1 .. N, j \in 1 .. 4 : i = Before(4, n) + j
    BY <1>1, <1>2, PlaceOfFour
  <2>2. Before(4, n) \in Nat
    BY DEF Before
  <2> DEFINE b == Before(4, n)
             k == Len(g[n])
  <2>3. k + 1 = IF b + 4 <= K THEN 4 ELSE K - b
    BY <1>4
  <2>4. k \in Nat
    <3>1. IsShort(g[n])
      BY DEF Grouped, N
    <3>2. QED
      BY <3>1 DEF IsShort
  <2>5. /\ j <= k + 1 => Sextet(text[i]) # 255
        /\ j > k + 1 => Sextet(text[i]) = 255
    BY <1>3, <2>1
  <2>6. b \in Nat /\ K \in Nat /\ i = b + j
    BY <1>1, <1>4, <2>1, <2>2
  <2> HIDE DEF b, k
  <2>7. (i <= K => j <= k + 1) /\ (i > K => j > k + 1)
    BY <2>3, <2>4, <2>6
  <2>8. QED
    BY <2>5, <2>7
<1>6. X \in SUBSET Nat /\ X # {} /\ K + 1 \in X /\ \A x \in X : K + 1 <= x
  <2>1. K \in Nat /\ K <= L
    BY <1>1, <1>4
  <2>2. \A x \in X : x = L + 1 \/ (x \in 1 .. L /\ Sextet(text[x]) = 255)
    BY <1>1
  <2>3. K + 1 \in X
    <3>1. CASE K = L
      BY <3>1
    <3>2. CASE K # L
      <4>1. K + 1 \in 1 .. L /\ K + 1 > K
        BY <1>1, <2>1, <3>2
      <4>2. QED
        BY <1>1, <1>5, <4>1
    <3>3. QED
      BY <3>1, <3>2
  <2>4. X \in SUBSET Nat
    BY <1>1
  <2>5. \A x \in X : K + 1 <= x
    <3> HIDE DEF X
    <3>1. TAKE x \in X
    <3>2. CASE x = L + 1
      BY <1>1, <2>1, <3>2
    <3>3. CASE x \in 1 .. L /\ Sextet(text[x]) = 255
      <4>1. ~ (x <= K)
        BY <1>5, <3>3
      <4>2. QED
        BY <1>1, <2>1, <3>3, <4>1
    <3>4. QED
      BY <2>2, <3>2, <3>3
  <2>6. QED
    BY <2>3, <2>4, <2>5
<1>7. Readable(text) = SubSeq(text, 1, Min(X) - 1)
  BY DEF Readable, L
<1> HIDE DEF X
<1>8. Min(X) - 1 = K
  <2>1. Min(X) \in X /\ \A y \in X : Min(X) =< y
    BY <1>6, MinIsLeast
  <2>2. Min(X) \in Nat /\ Min(X) <= K + 1 /\ K + 1 <= Min(X) /\ K \in Nat
    <3>1. Min(X) \in Nat /\ Min(X) <= K + 1 /\ K + 1 <= Min(X)
      BY <1>6, <2>1
    <3>2. K \in Nat
      BY <1>1, <1>4
    <3>3. QED
      BY <3>1, <3>2
  <2> DEFINE m == Min(X)
  <2> HIDE DEF m
  <2>3. m \in Nat /\ m <= K + 1 /\ K + 1 <= m /\ K \in Nat => m - 1 = K
    OBVIOUS
  <2>4. QED
    BY <2>2, <2>3 DEF m
<1>9. QED
  BY <1>7, <1>8 DEF K

\* What base64_encode writes base64_decode reads back.
THEOREM Base64Inverse ==
  \A octets \in Seq(Octet) : base64_decode(base64_encode(octets)) = octets
<1>1. TAKE octets \in Seq(Octet)
<1> DEFINE g == Groups(octets, 3)
           text == base64_encode(octets)
           K == Letters(g)
           R == SubSeq(text, 1, K)
           q == Groups(R, 4)
           N == Len(g)
<1>2. Grouped(g) /\ Encodes(text, g)
  BY EncodeWrites
<1>3. FlattenSeq(g) = octets
  BY GroupsJoin
<1>4. base64_decode(text) = FlattenSeq([n \in DOMAIN Groups(Readable(text), 4) |->
                                          OctetsOf(Groups(Readable(text), 4)[n])])
  BY DEF base64_decode
<1> HIDE DEF g, text
<1>5. Readable(text) = R
  BY <1>2, ReadableIs
<1>6. /\ K \in 0 .. Len(text) /\ GroupCount(K, 4) = N
      /\ \A n \in 1 .. N : Len(g[n]) + 1 = IF Before(4, n) + 4 <= K THEN 4 ELSE K - Before(4, n)
  BY <1>2, LettersBounds DEF Encodes
<1>7. text \in Seq(Octet) /\ g \in Seq(Seq(Octet)) /\ N \in Nat /\ DOMAIN g = 1 .. N
  BY <1>2 DEF Encodes, Grouped
<1> HIDE DEF K
<1>8. R \in Seq(Octet) /\ Len(R) = K /\ \A i \in 1 .. K : R[i] = text[i]
  BY <1>6, <1>7, FirstAndRest
<1> HIDE DEF R
<1>9. q \in Seq(Seq(Octet)) /\ Len(q) = N /\ \A n \in 1 .. N : IsGroup(Octet, q[n], R, 4, n)
  BY <1>6, <1>8, GroupsAre
<1> HIDE DEF q, N
<1>10. ASSUME NEW n \in 1 .. N
       PROVE  OctetsOf(q[n]) = g[n]
  <2> DEFINE b == g[n]
             x == q[n]
             k == Len(b)
             c == Before(4, n)
  <2>1. IsShort(b)
    BY <1>2 DEF Grouped, N
  <2>2. /\ x \in Seq(Octet) /\ Len(x) = (IF c + 4 <= K THEN 4 ELSE K - c)
        /\ \A j \in 1 .. Len(x) : x[j] = R[c + j]
    BY <1>8, <1>9 DEF IsGroup
  <2>3. k + 1 = IF c + 4 <= K THEN 4 ELSE K - c
    BY <1>6
  <2>4. k \in 1 .. 3
    BY <2>1 DEF IsShort
  <2>5. K \in Nat /\ c \in Nat
    BY <1>6, <1>7 DEF Before
  <2>6. \A j \in 1 .. 4 : text[c + j] = Encoded(b)[j]
    BY <1>2 DEF Encodes, N
  <2> HIDE DEF b, x, k, c
  <2>7. Len(x) = k + 1
    BY <2>2, <2>3
  <2>8. ASSUME NEW j \in 1 .. k + 1
        PROVE  x[j] = Encoded(b)[j]
    <3>1. j \in 1 .. 4 /\ c + j \in 1 .. K /\ j \in 1 .. Len(x)
      BY <2>3, <2>4, <2>5, <2>7
    <3>2. QED
      BY <1>8, <2>2, <2>6, <3>1
  <2>9. OctetsOf(x) = b
    <3>1. \A j \in 1 .. Len(b) + 1 : x[j] = Encoded(b)[j]
      BY <2>8 DEF k
    <3>2. x \in Seq(Octet) /\ Len(x) = Len(b) + 1
      BY <2>2, <2>7 DEF k
    <3>3. QED
      BY <2>1, <3>1, <3>2, DecodedIs
  <2>10. QED
    BY <2>9 DEF b, x
<1>11. [n \in DOMAIN q |-> OctetsOf(q[n])] = g
  <2>1. DOMAIN q = 1 .. N
    BY <1>9
  <2>2. g = [n \in 1 .. N |-> g[n]]
    BY <1>7
  <2>3. [n \in 1 .. N |-> OctetsOf(q[n])] = [n \in 1 .. N |-> g[n]]
    BY <1>10, Zenon
  <2>4. QED
    BY <2>1, <2>2, <2>3
<1>12. QED
  BY <1>3, <1>4, <1>5, <1>11 DEF q, text

\* A digest of twenty octets is twenty-eight letters.
LEMMA DigestLength ==
  ASSUME NEW digest \in [1 .. 20 -> Octet]
  PROVE  digest \in Seq(Octet) /\ Len(base64_encode(digest)) = 28
<1>1. digest \in Seq(Octet) /\ Len(digest) = 20
  <2> DEFINE n == 20
  <2>1. n \in Nat /\ digest \in [1 .. n -> Octet]
    OBVIOUS
  <2> HIDE DEF n
  <2>2. digest \in Seq(Octet) /\ Len(digest) = n
    BY <2>1, FunctionSeq
  <2>3. QED
    BY <2>2 DEF n
<1>2. Len(Groups(digest, 3)) = GroupCount(20, 3)
  BY <1>1, Threes
<1>3. Len(base64_encode(digest)) = Before(4, Len(Groups(digest, 3)) + 1)
  BY <1>1, EncodeWrites DEF Encodes
<1>4. GroupCount(20, 3) = 7 /\ Before(4, 7 + 1) = 28
  BY DEF GroupCount, Before
<1>5. QED
  BY <1>1, <1>2, <1>3, <1>4

\* The answer to a key is the digest of the key, in the letters that a browser reads.
THEOREM SpecAnswerIsDigest == HandshakeSpec => []AnswerIsDigest
<1>1. HandshakeInit => ShaInv /\ AnswerInv
  BY ShaInductive
<1>2. (ShaInv /\ AnswerInv) /\ [HandshakeNext]_exchange => (ShaInv /\ AnswerInv)'
  BY ShaInductive
<1>3. ShaInv /\ AnswerInv => AnswerIsDigest
  <2>1. SUFFICES ASSUME AnswerInv, answer # <<>>
                 PROVE  Len(answer) = 28 /\ base64_decode(answer) = Standard(key)
    BY DEF AnswerIsDigest
  <2>2. Standard(key) \in [1 .. 20 -> Octet] /\ answer = base64_encode(Standard(key))
    BY <2>1 DEF AnswerInv
  <2>3. QED
    BY <2>2, DigestLength, Base64Inverse
<1>4. QED
  BY <1>1, <1>2, <1>3, PTL DEF HandshakeSpec
=============================================================================
