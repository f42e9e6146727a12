----------------------------- MODULE DataLemmas -----------------------------
(***************************************************************************)
(* Facts about the data that the proofs of several components use: the     *)
(* least element of a set of naturals, for code that takes the first match *)
(* in a map or the lowest free descriptor; induction, for loops over bytes *)
(* and lists; sequences cut in two, and joined; and loops, as functions of *)
(* the turns they make.                                                    *)
(***************************************************************************)
EXTENDS Integers, SequencesExt, TLAPS, WellFoundedInduction, SequenceTheorems

\* A non-empty set of naturals has a minimum: getConnByReadSockfd and accept, which take the
\* first match, return a member of what they search, and none that comes before it is left out.
LEMMA MinIsLeast ==
  ASSUME NEW S \in SUBSET Nat, S # {}
  PROVE  Min(S) \in S /\ \A y \in S : Min(S) =< y
<1> DEFINE Less == {ss \in Nat \X Nat : ss[1] < ss[2]}
<1>1. IsWellFoundedOn(Less, Nat)
  BY NatLessThanWellFounded DEF OpToRel
<1>2. \A a, b \in Nat : a < b => <<a, b>> \in Less
  OBVIOUS
<1> HIDE DEF Less
<1>3. PICK x \in S : \A y \in S : ~ (<<y, x>> \in Less)
  BY <1>1, WFMin
<1>4. \A y \in S : ~ (y < x)
  BY <1>2, <1>3
<1>5. \A y \in S : x =< y
  BY <1>4
<1>6. QED
  BY <1>5 DEF Min

\* Its membership alone.
LEMMA MinInSet ==
  ASSUME NEW S \in SUBSET Nat, S # {}
  PROVE  Min(S) \in S
BY MinIsLeast

\* The lesser of two numbers: what write takes of a message, and of a buffer.
LEMMA MinOfTwo ==
  ASSUME NEW a \in Nat, NEW b \in Nat
  PROVE  /\ Min({a, b}) \in Nat
         /\ Min({a, b}) =< a /\ Min({a, b}) =< b
         /\ Min({a, b}) = a \/ Min({a, b}) = b
<1>1. \E x \in {a, b} : \A y \in {a, b} : x =< y
  <2>1. CASE a =< b
    BY <2>1
  <2>2. CASE b =< a
    BY <2>2
  <2>3. QED
    BY <2>1, <2>2
<1>2. Min({a, b}) \in {a, b} /\ \A y \in {a, b} : Min({a, b}) =< y
  BY <1>1 DEF Min
<1>3. QED
  BY <1>2

\* A set of naturals that has a bound has a maximum.
LEMMA MaxIsLargest ==
  ASSUME NEW N \in Nat, NEW S \in SUBSET (0 .. N), S # {}
  PROVE  Max(S) \in S /\ \A y \in S : y =< Max(S)
<1> DEFINE T == {N - y : y \in S}
<1>1. T \in SUBSET Nat /\ T # {}
  <2>1. \A y \in S : N - y \in Nat
    OBVIOUS
  <2>2. PICK x \in S : TRUE
    OBVIOUS
  <2>3. N - x \in T
    OBVIOUS
  <2>4. QED
    BY <2>1, <2>3
<1>2. PICK t \in T : \A y \in T : t =< y
  BY <1>1, MinIsLeast
<1>3. PICK x \in S : t = N - x
  BY <1>2
<1>4. \A y \in S : y =< x
  BY <1>2, <1>3
<1>5. \E x_1 \in S : \A y \in S : x_1 >= y
  BY <1>4
<1>6. Max(S) \in S /\ \A y \in S : Max(S) >= y
  BY <1>5 DEF Max
<1>7. QED
  BY <1>6

\* Induction, for loops over bytes and lists: a set of naturals that holds every number whose
\* predecessors it holds is all of them.
LEMMA Induction ==
  ASSUME NEW S, \A n \in Nat : (\A m \in 0 .. n - 1 : m \in S) => n \in S
  PROVE  Nat \subseteq S
<1> DEFINE Rest == {n \in Nat : n \notin S}
<1>1. ASSUME Rest # {}
      PROVE  FALSE
  <2>1. Min(Rest) \in Rest /\ \A y \in Rest : Min(Rest) =< y
    BY <1>1, MinIsLeast
  <2>2. \A m \in 0 .. Min(Rest) - 1 : m \in S
    BY <2>1
  <2>3. QED
    BY <2>1, <2>2
<1>2. QED
  BY <1>1

-----------------------------------------------------------------------------
(* Sequences.                                                                *)

\* A sequence is its first n elements, and the rest.
LEMMA FirstAndRest ==
  ASSUME NEW S, NEW s \in Seq(S), NEW n \in 0 .. Len(s)
  PROVE  /\ SubSeq(s, 1, n) \in Seq(S) /\ Len(SubSeq(s, 1, n)) = n
         /\ \A i \in 1 .. n : SubSeq(s, 1, n)[i] = s[i]
         /\ SubSeq(s, n + 1, Len(s)) \in Seq(S) /\ Len(SubSeq(s, n + 1, Len(s))) = Len(s) - n
         /\ SubSeq(s, 1, n) \o SubSeq(s, n + 1, Len(s)) = s
<1>1. /\ SubSeq(s, 1, n) \in Seq(S) /\ Len(SubSeq(s, 1, n)) = n
      /\ \A i \in 1 .. n : SubSeq(s, 1, n)[i] = s[i]
  OBVIOUS
<1>2. /\ SubSeq(s, n + 1, Len(s)) \in Seq(S) /\ Len(SubSeq(s, n + 1, Len(s))) = Len(s) - n
  OBVIOUS
<1>3. SubSeq(s, 1, n) \o SubSeq(s, n + 1, Len(s)) = s
  <2>1. SubSeq(s, 1, n) \o SubSeq(s, n + 1, Len(s)) = SubSeq(s, 1, Len(s))
    <3>1. /\ 1 \in 1 .. Len(s) + 1 /\ n \in 1 - 1 .. Len(s) /\ Len(s) \in n .. Len(s)
      OBVIOUS
    <3>2. QED
      BY <3>1, ConcatAdjacentSubSeq
  <2>2. QED
    BY <2>1, SubSeqFull
<1>4. QED
  BY <1>1, <1>2, <1>3

\* What a sequence is a prefix of continues it.
LEMMA PrefixRest ==
  ASSUME NEW S, NEW s \in Seq(S), NEW t \in Seq(S)
  PROVE  IsPrefix(s, t) <=> \E rest \in Seq(S) : s \o rest = t
<1>1. ASSUME IsPrefix(s, t)
      PROVE  \E rest \in Seq(S) : s \o rest = t
  <2>1. Len(s) \in 0 .. Len(t)
    BY <1>1 DEF IsPrefix
  <2>2. SubSeq(s, 1, Len(s)) = s
    BY SubSeqFull
  <2>3. SubSeq(t, 1, Len(s)) = s
    BY <1>1, <2>2 DEF IsPrefix
  <2>4. SubSeq(t, Len(s) + 1, Len(t)) \in Seq(S) /\ SubSeq(t, 1, Len(s)) \o SubSeq(t, Len(s) + 1, Len(t)) = t
    BY <2>1, FirstAndRest
  <2>5. QED
    BY <2>3, <2>4
<1>2. ASSUME NEW rest \in Seq(S), s \o rest = t
      PROVE  IsPrefix(s, t)
  <2>1. /\ Len(s) \in 0 .. Len(t)
        /\ \A i \in 1 .. Len(s) : t[i] = s[i]
    BY <1>2, ConcatProperties
  <2>2. /\ SubSeq(t, 1, Len(s)) \in Seq(S) /\ Len(SubSeq(t, 1, Len(s))) = Len(s)
        /\ \A i \in 1 .. Len(s) : SubSeq(t, 1, Len(s))[i] = t[i]
    BY <2>1, FirstAndRest
  <2>3. SubSeq(t, 1, Len(s)) = s
    BY <2>1, <2>2, SeqEqual
  <2>4. SubSeq(s, 1, Len(s)) = s
    BY SubSeqFull
  <2>5. QED
    BY <2>1, <2>3, <2>4 DEF IsPrefix
<1>3. QED
  BY <1>1, <1>2

\* Cut to the length of another, a sequence that is not longer stays whole, and a longer one that
\* begins with the other is the other.
LEMMA FirstOfBoth ==
  ASSUME NEW S, NEW h \in Seq(S), NEW e \in Seq(S)
  PROVE  /\ Len(h) =< Len(e) => SubSeq(h, 1, Min({Len(h), Len(e)})) = h
         /\ IsPrefix(e, h) => SubSeq(h, 1, Min({Len(h), Len(e)})) = e
<1> DEFINE m == Len(h)
           n == Len(e)
<1>1. m \in Nat /\ n \in Nat
  OBVIOUS
<1>2. SubSeq(h, 1, m) = h /\ SubSeq(e, 1, n) = e
  BY SubSeqFull
<1>3. IsPrefix(e, h) => n =< m /\ SubSeq(h, 1, n) = e
  BY <1>2 DEF IsPrefix
<1> HIDE DEF m, n
<1>4. Min({m, n}) \in Nat /\ Min({m, n}) =< m /\ Min({m, n}) =< n /\ (Min({m, n}) = m \/ Min({m, n}) = n)
  BY <1>1, MinOfTwo
<1>5. /\ m =< n => Min({m, n}) = m
      /\ n =< m => Min({m, n}) = n
  BY <1>1, <1>4
<1>6. /\ m =< n => SubSeq(h, 1, Min({m, n})) = h
      /\ IsPrefix(e, h) => SubSeq(h, 1, Min({m, n})) = e
  BY <1>2, <1>3, <1>5
<1>7. QED
  BY <1>6 DEF m, n

\* A part of a sequence has the elements of the sequence.
LEMMA PartType ==
  ASSUME NEW S, NEW s \in Seq(S), NEW m \in Nat, m >= 1, NEW n \in Int, n =< Len(s)
  PROVE  /\ SubSeq(s, m, n) \in Seq(S)
         /\ Len(SubSeq(s, m, n)) = IF m <= n THEN n - m + 1 ELSE 0
         /\ \A i \in 1 .. n - m + 1 : SubSeq(s, m, n)[i] = s[m + i - 1]
<1>1. \A i \in m .. n : i \in 1 .. Len(s)
  OBVIOUS
<1>2. \A i \in m .. n : s[i] \in S
  BY <1>1, ElementOfSeq
<1>3. m \in Int
  OBVIOUS
<1>4. QED
  BY <1>2, <1>3, SubSeqProperties

\* Where s has n elements of x in a row, it has it as a subsequence.
LEMMA SubSeqIs ==
  ASSUME NEW S, NEW s \in Seq(S), NEW x \in Seq(S), NEW m \in Nat, m + Len(x) <= Len(s),
         \A i \in 1 .. Len(x) : s[m + i] = x[i]
  PROVE  SubSeq(s, m + 1, m + Len(x)) = x
<1> DEFINE n == Len(x)
           a == m + 1
           b == m + n
           y == SubSeq(s, a, b)
<1>1. n \in Nat /\ a \in Int /\ b \in Int /\ (a <= b => b - a + 1 = n) /\ (a > b => n = 0)
  OBVIOUS
<1>2. \A i \in a .. b : s[i] \in S
  <2>1. \A i \in a .. b : i \in 1 .. Len(s)
    OBVIOUS
  <2>2. QED
    BY <2>1, ElementOfSeq
<1> HIDE DEF a, b
<1>3. /\ y \in Seq(S) /\ Len(y) = IF a <= b THEN b - a + 1 ELSE 0
      /\ \A i \in 1 .. b - a + 1 : y[i] = s[a + i - 1]
  BY <1>1, <1>2, SubSeqProperties
<1> HIDE DEF y
<1>4. Len(y) = n
  BY <1>1, <1>3
<1>5. ASSUME NEW i \in 1 .. n
      PROVE  y[i] = x[i]
  <2>1. i \in 1 .. b - a + 1 /\ a + i - 1 = m + i
    BY <1>1 DEF a, b
  <2>2. QED
    BY <1>3, <2>1
<1>6. y = x
  BY <1>3, <1>4, <1>5, SeqEqual
<1>7. QED
  BY <1>6 DEF y, a, b

\* Where the elements of x are once something stands before it and behind it.
LEMMA Surrounded ==
  ASSUME NEW S, NEW a \in Seq(S), NEW x \in Seq(S), NEW b \in Seq(S)
  PROVE  /\ (a \o x) \o b \in Seq(S)
         /\ Len((a \o x) \o b) = Len(a) + Len(x) + Len(b)
         /\ \A i \in 1 .. Len(x) : ((a \o x) \o b)[Len(a) + i] = x[i]
<1> DEFINE m == Len(a)
           n == Len(x)
           ax == a \o x
<1>1. /\ ax \in Seq(S) /\ Len(ax) = m + n /\ m \in Nat /\ n \in Nat
      /\ \A i \in 1 .. m + n : ax[i] = IF i <= m THEN a[i] ELSE x[i - m]
  BY ConcatProperties
<1> HIDE DEF ax
<1>2. /\ ax \o b \in Seq(S) /\ Len(ax \o b) = Len(ax) + Len(b)
      /\ \A i \in 1 .. Len(ax) + Len(b) : (ax \o b)[i] = IF i <= Len(ax) THEN ax[i] ELSE b[i - Len(ax)]
  <2>1. ax \in Seq(S)
    BY <1>1
  <2>2. QED
    BY <2>1, ConcatProperties
<1>3. ASSUME NEW i \in 1 .. n
      PROVE  (ax \o b)[m + i] = x[i]
  <2>1. m + i \in 1 .. m + n /\ ~ (m + i <= m) /\ (m + i) - m = i /\ Len(b) \in Nat
    BY <1>1
  <2>2. ax[m + i] = x[(m + i) - m]
    BY <1>1, <2>1
  <2> HIDE DEF m, n
  <2>3. m + i \in 1 .. Len(ax) + Len(b) /\ m + i <= Len(ax)
    BY <1>1, <2>1
  <2>4. QED
    BY <1>2, <2>1, <2>2, <2>3
<1>4. QED
  BY <1>1, <1>2, <1>3 DEF ax

\* A function over the first n numbers is a sequence of n elements.
LEMMA FunctionSeq ==
  ASSUME NEW S, NEW n \in Nat, NEW s \in [1 .. n -> S]
  PROVE  s \in Seq(S) /\ Len(s) = n
<1>1. s \in Seq(S)
  BY SeqDef
<1>2. DOMAIN s = 1 .. Len(s) /\ Len(s) \in Nat /\ DOMAIN s = 1 .. n
  BY <1>1, LenProperties
<1>3. Len(s) = n
  <2> DEFINE m == Len(s)
  <2>1. m \in Nat /\ 1 .. m = 1 .. n
    BY <1>2
  <2> HIDE DEF m
  <2>2. /\ (m \in 1 .. m <=> m > 0) /\ (n \in 1 .. n <=> n > 0)
        /\ (m \in 1 .. n => m <= n) /\ (n \in 1 .. m => n <= m)
    BY <2>1
  <2>3. m = n
    BY <2>1, <2>2
  <2>4. QED
    BY <2>3 DEF m
<1>4. QED
  BY <1>1, <1>3

-----------------------------------------------------------------------------
(* FlattenSeq.                                                               *)

\* FlattenSeq of the community modules joins one sequence after the other.
Flattens(f, q, n) == f = [i \in 1 .. n |-> IF i = 1 THEN q[i] ELSE f[i - 1] \o q[i]]

\* Such a function is given by its recursion.
LEMMA FlattensStepwise ==
  ASSUME NEW q, NEW n \in Nat, NEW f, Flattens(f, q, n)
  PROVE  \A i \in 1 .. n : f[i] = IF i = 1 THEN q[i] ELSE f[i - 1] \o q[i]
BY DEF Flattens

\* There is one for every length.
LEMMA FlattensExists ==
  ASSUME NEW q
  PROVE  \A n \in Nat : \E f : Flattens(f, q, n)
<1> DEFINE S == {n \in Nat : \E f : Flattens(f, q, n)}
<1>1. ASSUME NEW n \in Nat, \A m \in 0 .. n - 1 : m \in S
      PROVE  n \in S
  <2>1. CASE n = 0
    <3> DEFINE f == [i \in 1 .. 0 |-> q[i]]
    <3>1. f = [i \in 1 .. 0 |-> IF i = 1 THEN q[i] ELSE f[i - 1] \o q[i]]
      OBVIOUS
    <3>2. QED
      BY <2>1, <3>1 DEF Flattens
  <2>2. CASE n # 0
    <3>1. n - 1 \in Nat /\ n - 1 \in S
      BY <1>1, <2>2
    <3>2. PICK f : Flattens(f, q, n - 1)
      BY <3>1
    <3>3. \A i \in 1 .. n - 1 : f[i] = IF i = 1 THEN q[i] ELSE f[i - 1] \o q[i]
      BY <3>1, <3>2, FlattensStepwise
    <3> DEFINE g == [i \in 1 .. n |-> IF i = 1 THEN q[i] ELSE f[i - 1] \o q[i]]
    <3>4. \A i \in 1 .. n - 1 : g[i] = f[i]
      BY <3>3
    <3>5. ASSUME NEW i \in 1 .. n
          PROVE  g[i] = IF i = 1 THEN q[i] ELSE g[i - 1] \o q[i]
      <4>1. CASE i = 1
        BY <4>1
      <4>2. CASE i # 1
        <5>1. i - 1 \in 1 .. n - 1
          BY <4>2
        <5>2. g[i - 1] = f[i - 1]
          BY <3>4, <5>1
        <5>3. g[i] = f[i - 1] \o q[i]
          BY <4>2
        <5>4. QED
          BY <4>2, <5>2, <5>3
      <4>3. QED
        BY <4>1, <4>2
    <3>6. g = [i \in 1 .. n |-> IF i = 1 THEN q[i] ELSE g[i - 1] \o q[i]]
      BY <3>5
    <3>7. QED
      BY <3>6 DEF Flattens
  <2>3. QED
    BY <2>1, <2>2
<1>2. QED
  BY <1>1, Induction

\* Its value at a place depends on the sequences up to there only.
LEMMA FlattensAgree ==
  ASSUME NEW q, NEW n \in Nat, NEW f, Flattens(f, q, n),
         NEW p, NEW m \in Nat, NEW g, Flattens(g, p, m), n =< m,
         \A i \in 1 .. n : q[i] = p[i]
  PROVE  \A i \in 1 .. n : f[i] = g[i]
<1> DEFINE S == {k \in Nat : k \in 1 .. n => f[k] = g[k]}
<1>a. \A i \in 1 .. n : f[i] = IF i = 1 THEN q[i] ELSE f[i - 1] \o q[i]
  BY FlattensStepwise
<1>b. \A i \in 1 .. m : g[i] = IF i = 1 THEN p[i] ELSE g[i - 1] \o p[i]
  BY FlattensStepwise
<1>1. ASSUME NEW k \in Nat, \A l \in 0 .. k - 1 : l \in S
      PROVE  k \in S
  <2>1. CASE k \in 1 .. n /\ k # 1
    <3>1. k - 1 \in 0 .. k - 1 /\ k - 1 \in 1 .. n /\ k \in 1 .. m
      BY <2>1
    <3>0. k - 1 \in S
      BY <1>1, <3>1
    <3>2. f[k] = f[k - 1] \o q[k] /\ g[k] = g[k - 1] \o p[k]
      BY <1>a, <1>b, <2>1, <3>1
    <3>3. QED
      BY <2>1, <3>0, <3>1, <3>2
  <2>2. CASE k \in 1 .. n /\ k = 1
    <3>1. f[k] = q[k] /\ g[k] = p[k]
      BY <1>a, <1>b, <2>2
    <3>2. QED
      BY <2>2, <3>1
  <2>3. QED
    BY <2>1, <2>2
<1>2. Nat \subseteq S
  BY <1>1, Induction
<1>3. QED
  BY <1>2

\* What the first n sequences of p flatten to.
Flat(p, n) == FlattenSeq(SubSeq(p, 1, n))

\* The one that FlattenSeq takes.
Flattening(q) == CHOOSE f : Flattens(f, q, Len(q))

\* FlattenSeq is its last value.
LEMMA FlattenSeqIs ==
  ASSUME NEW q
  PROVE  FlattenSeq(q) = IF Len(q) = 0 THEN q ELSE Flattening(q)[Len(q)]
BY DEF FlattenSeq, Flattening, Flattens

\* Joining one sequence more appends it.
LEMMA FlatStep ==
  ASSUME NEW S, NEW p \in Seq(Seq(S))
  PROVE  /\ Flat(p, 0) = <<>>
         /\ \A n \in 0 .. Len(p) - 1 : Flat(p, n + 1) = Flat(p, n) \o p[n + 1]
<1> DEFINE q(n) == SubSeq(p, 1, n)
           F(n) == Flattening(q(n))
<1>1. ASSUME NEW n \in 0 .. Len(p)
      PROVE  /\ q(n) \in Seq(Seq(S)) /\ Len(q(n)) = n
             /\ \A i \in 1 .. n : q(n)[i] = p[i]
             /\ Flattens(F(n), q(n), n)
             /\ Flat(p, n) = IF n = 0 THEN q(n) ELSE F(n)[n]
  <2>1. /\ q(n) \in Seq(Seq(S)) /\ Len(q(n)) = n
        /\ \A i \in 1 .. n : q(n)[i] = p[i]
    BY FirstAndRest
  <2>a. \E f : Flattens(f, q(n), Len(q(n)))
    <3>1. \A m \in Nat : \E f : Flattens(f, q(n), m)
      BY FlattensExists
    <3>2. QED
      BY <2>1, <3>1
  <2>2. Flattens(F(n), q(n), n)
    BY <2>1, <2>a DEF Flattening
  <2>3. Flat(p, n) = IF n = 0 THEN q(n) ELSE F(n)[n]
    <3>1. FlattenSeq(q(n)) = IF Len(q(n)) = 0 THEN q(n) ELSE Flattening(q(n))[Len(q(n))]
      BY FlattenSeqIs
    <3>2. QED
      BY <2>1, <3>1 DEF Flat
  <2>4. QED
    BY <2>1, <2>2, <2>3
<1> HIDE DEF q, F
<1>2. Flat(p, 0) = <<>>
  BY <1>1, EmptySeq
<1>3. ASSUME NEW n \in 0 .. Len(p) - 1
      PROVE  Flat(p, n + 1) = Flat(p, n) \o p[n + 1]
  <2>1. n \in 0 .. Len(p) /\ n + 1 \in 0 .. Len(p)
    OBVIOUS
  <2>2. Flat(p, n + 1) = F(n + 1)[n + 1] /\ q(n + 1)[n + 1] = p[n + 1]
    BY <1>1, <2>1
  <2>3. F(n + 1)[n + 1] = IF n + 1 = 1 THEN q(n + 1)[n + 1] ELSE F(n + 1)[n] \o q(n + 1)[n + 1]
    BY <1>1, <2>1, FlattensStepwise
  <2>4. CASE n = 0
    <3>1. p[1] \in Seq(S)
      BY <2>4
    <3>2. QED
      BY <1>2, <2>2, <2>3, <2>4, <3>1, ConcatEmptySeq
  <2>5. CASE n # 0
    <3>a. \A i \in 1 .. n : q(n)[i] = p[i]
      BY <1>1, <2>1
    <3>b. \A i \in 1 .. n + 1 : q(n + 1)[i] = p[i]
      BY <1>1, <2>1
    <3>1. \A i \in 1 .. n : q(n)[i] = q(n + 1)[i]
      BY <3>a, <3>b
    <3>2. Flattens(F(n), q(n), n) /\ Flattens(F(n + 1), q(n + 1), n + 1) /\ n \in Nat /\ n + 1 \in Nat
      <4>1. Flattens(F(n), q(n), n)
        BY <1>1, <2>1
      <4>2. Flattens(F(n + 1), q(n + 1), n + 1)
        BY <1>1, <2>1
      <4>3. QED
        BY <4>1, <4>2
    <3>3. \A i \in 1 .. n : F(n)[i] = F(n + 1)[i]
      BY <3>1, <3>2, FlattensAgree
    <3>4. Flat(p, n) = F(n)[n] /\ F(n)[n] = F(n + 1)[n]
      <4>1. Flat(p, n) = F(n)[n]
        BY <1>1, <2>1, <2>5
      <4>2. n \in 1 .. n
        BY <2>5
      <4>3. QED
        BY <3>3, <4>1, <4>2
    <3>5. F(n + 1)[n + 1] = F(n + 1)[n] \o q(n + 1)[n + 1]
      <4>1. n + 1 # 1
        BY <2>5
      <4>2. QED
        BY <2>3, <4>1
    <3>6. QED
      BY <2>2, <3>4, <3>5
  <2>6. QED
    BY <2>4, <2>5
<1>4. QED
  BY <1>2, <1>3

\* What sequences over S are joined to is one.
LEMMA FlatType ==
  ASSUME NEW S, NEW p \in Seq(Seq(S))
  PROVE  \A n \in 0 .. Len(p) : Flat(p, n) \in Seq(S)
<1> DEFINE N == {n \in Nat : n =< Len(p) => Flat(p, n) \in Seq(S)}
<1>1. ASSUME NEW n \in Nat, \A m \in 0 .. n - 1 : m \in N
      PROVE  n \in N
  <2>1. CASE n = 0
    BY <2>1, FlatStep, EmptySeq
  <2>2. CASE n # 0 /\ n =< Len(p)
    <3>1. n - 1 \in 0 .. n - 1 /\ n - 1 \in 0 .. Len(p) - 1 /\ n \in 1 .. Len(p)
      BY <2>2
    <3>2. Flat(p, n - 1) \in Seq(S) /\ p[n] \in Seq(S)
      BY <1>1, <3>1
    <3>3. Flat(p, (n - 1) + 1) = Flat(p, n - 1) \o p[(n - 1) + 1]
      BY <3>1, FlatStep
    <3> DEFINE a == Flat(p, n - 1)
               b == p[n]
    <3>4. a \in Seq(S) /\ b \in Seq(S) /\ Flat(p, n) = a \o b
      <4>1. (n - 1) + 1 = n
        OBVIOUS
      <4>2. QED
        BY <3>2, <3>3, <4>1
    <3> HIDE DEF a, b
    <3>5. Flat(p, n) \in Seq(S)
      BY <3>4, ConcatProperties
    <3>6. QED
      BY <3>5
  <2>3. QED
    BY <2>1, <2>2
<1>2. Nat \subseteq N
  BY <1>1, Induction
<1>3. QED
  BY <1>2

\* What comes first in p comes first in the whole.
LEMMA FlatSplit ==
  ASSUME NEW S, NEW p \in Seq(Seq(S)), NEW k \in 0 .. Len(p)
  PROVE  \A n \in k .. Len(p) : \E rest \in Seq(S) : Flat(p, n) = Flat(p, k) \o rest
<1> DEFINE N == {n \in Nat : n \in k .. Len(p) => \E rest \in Seq(S) : Flat(p, n) = Flat(p, k) \o rest}
<1>1. ASSUME NEW n \in Nat, \A m \in 0 .. n - 1 : m \in N
      PROVE  n \in N
  <2>1. CASE n = k
    <3>1. Flat(p, k) \in Seq(S)
      BY FlatType
    <3>2. Flat(p, k) = Flat(p, k) \o <<>> /\ <<>> \in Seq(S)
      BY <3>1, ConcatEmptySeq, EmptySeq
    <3>3. QED
      BY <2>1, <3>2
  <2>2. CASE n # k /\ n \in k .. Len(p)
    <3>1. n - 1 \in 0 .. n - 1 /\ n - 1 \in k .. Len(p) /\ n - 1 \in 0 .. Len(p) - 1 /\ n \in 1 .. Len(p)
      BY <2>2
    <3>2. PICK rest \in Seq(S) : Flat(p, n - 1) = Flat(p, k) \o rest
      BY <1>1, <3>1
    <3>3. Flat(p, k) \in Seq(S) /\ p[n] \in Seq(S)
      BY <3>1, FlatType
    <3>4. Flat(p, (n - 1) + 1) = Flat(p, n - 1) \o p[(n - 1) + 1]
      BY <3>1, FlatStep
    <3>a. (n - 1) + 1 = n
      OBVIOUS
    <3>b. Flat(p, n) = (Flat(p, k) \o rest) \o p[n]
      BY <3>2, <3>4, <3>a
    <3> DEFINE a == Flat(p, k)
               b == p[n]
    <3>c. a \in Seq(S) /\ b \in Seq(S) /\ Flat(p, n) = (a \o rest) \o b
      BY <3>3, <3>b
    <3> HIDE DEF b
    <3>5. Flat(p, n) = a \o (rest \o b) /\ rest \o b \in Seq(S)
      <4> HIDE DEF a
      <4>1. QED
        BY <3>c, ConcatAssociative, ConcatProperties
    <3>6. QED
      BY <3>5
  <2>3. QED
    BY <2>1, <2>2
<1>2. Nat \subseteq N
  BY <1>1, Induction
<1>3. ASSUME NEW n \in k .. Len(p)
      PROVE  \E rest \in Seq(S) : Flat(p, n) = Flat(p, k) \o rest
  <2>1. n \in Nat
    OBVIOUS
  <2>2. n \in N
    BY <1>2, <2>1
  <2>3. QED
    BY <2>2
<1>4. QED
  BY <1>3

\* The whole is the last of the joined beginnings.
LEMMA FlatAll ==
  ASSUME NEW S, NEW p \in Seq(Seq(S))
  PROVE  FlattenSeq(p) = Flat(p, Len(p))
<1>1. SubSeq(p, 1, Len(p)) = p
  BY SubSeqFull
<1>2. QED
  BY <1>1 DEF Flat

\* A beginning depends on nothing that follows it.
LEMMA FlatAgree ==
  ASSUME NEW S, NEW p \in Seq(S), NEW q \in Seq(S), NEW n \in 0 .. Len(p), n =< Len(q),
         \A i \in 1 .. n : q[i] = p[i]
  PROVE  Flat(q, n) = Flat(p, n)
<1>1. n \in 0 .. Len(q)
  OBVIOUS
<1>2. /\ SubSeq(p, 1, n) \in Seq(S) /\ Len(SubSeq(p, 1, n)) = n
      /\ \A i \in 1 .. n : SubSeq(p, 1, n)[i] = p[i]
  BY FirstAndRest
<1>3. /\ SubSeq(q, 1, n) \in Seq(S) /\ Len(SubSeq(q, 1, n)) = n
      /\ \A i \in 1 .. n : SubSeq(q, 1, n)[i] = q[i]
  BY <1>1, FirstAndRest
<1>4. SubSeq(q, 1, n) = SubSeq(p, 1, n)
  BY <1>2, <1>3, SeqEqual
<1>5. QED
  BY <1>4 DEF Flat

\* A sequence of the list lies in the whole behind those before it.
LEMMA FlatPlace ==
  ASSUME NEW S, NEW p \in Seq(Seq(S)), NEW n \in 0 .. Len(p) - 1
  PROVE  /\ Flat(p, n) \in Seq(S) /\ p[n + 1] \in Seq(S)
         /\ Flat(p, n + 1) = Flat(p, n) \o p[n + 1]
         /\ \E rest \in Seq(S) : FlattenSeq(p) = (Flat(p, n) \o p[n + 1]) \o rest
<1>1. n \in 0 .. Len(p) /\ n + 1 \in 0 .. Len(p) /\ n + 1 \in 1 .. Len(p) /\ Len(p) \in n + 1 .. Len(p)
  OBVIOUS
<1>2. Flat(p, n) \in Seq(S)
  BY <1>1, FlatType
<1>3. p[n + 1] \in Seq(S)
  BY <1>1, ElementOfSeq
<1>4. Flat(p, n + 1) = Flat(p, n) \o p[n + 1]
  BY FlatStep
<1>5. \E rest \in Seq(S) : Flat(p, Len(p)) = Flat(p, n + 1) \o rest
  <2> DEFINE k == n + 1
  <2>1. k \in 0 .. Len(p) /\ Len(p) \in k .. Len(p)
    BY <1>1
  <2> HIDE DEF k
  <2>2. \E rest \in Seq(S) : Flat(p, Len(p)) = Flat(p, k) \o rest
    BY <2>1, FlatSplit
  <2>3. QED
    BY <2>2 DEF k
<1>6. FlattenSeq(p) = Flat(p, Len(p))
  BY FlatAll
<1>7. QED
  BY <1>2, <1>3, <1>4, <1>5, <1>6

\* Joining a list and one sequence more.
LEMMA FlatMore ==
  ASSUME NEW S, NEW p \in Seq(Seq(S)), NEW x \in Seq(S)
  PROVE  /\ FlattenSeq(Append(p, x)) = FlattenSeq(p) \o x
         /\ \A n \in 0 .. Len(p) : Flat(Append(p, x), n) = Flat(p, n)
<1> DEFINE q == Append(p, x)
           m == Len(p)
<1>1. q \in Seq(Seq(S)) /\ Len(q) = m + 1 /\ m \in Nat /\ q[m + 1] = x /\ \A i \in 1 .. m : q[i] = p[i]
  BY AppendProperties
<1> HIDE DEF q
<1>2. ASSUME NEW n \in 0 .. m
      PROVE  Flat(q, n) = Flat(p, n)
  <2>1. n \in 0 .. Len(p) /\ n =< Len(q) /\ \A i \in 1 .. n : q[i] = p[i]
    BY <1>1
  <2>2. QED
    BY <1>1, <2>1, FlatAgree
<1>3. Flat(q, m + 1) = Flat(q, m) \o x
  <2>1. m \in 0 .. Len(q) - 1
    BY <1>1
  <2>2. QED
    BY <1>1, <2>1, FlatStep
<1>4. FlattenSeq(q) = Flat(q, m + 1) /\ FlattenSeq(p) = Flat(p, m)
  BY <1>1, FlatAll
<1>5. m \in 0 .. m
  BY <1>1
<1>6. QED
  BY <1>2, <1>3, <1>4, <1>5 DEF q

-----------------------------------------------------------------------------
(* Loops.                                                                    *)

\* The values a loop goes through in n turns, from s on.
Turns(f, s, step, n) == f = [k \in 0 .. n |-> IF k = 0 THEN s ELSE step[f[k - 1]]]

\* Such a function is given by its recursion.
LEMMA TurnsStepwise ==
  ASSUME NEW s, NEW step, NEW n \in Nat, NEW f, Turns(f, s, step, n)
  PROVE  f[0] = s /\ \A k \in 1 .. n : f[k] = step[f[k - 1]]
<1>1. \A k \in 0 .. n : f[k] = IF k = 0 THEN s ELSE step[f[k - 1]]
  BY DEF Turns
<1>2. QED
  BY <1>1

\* There is one for every number of turns, and its values are of the loop's type.
LEMMA TurnsExist ==
  ASSUME NEW S, NEW s \in S, NEW step \in [S -> S]
  PROVE  \A n \in Nat : \E f \in [0 .. n -> S] : Turns(f, s, step, n)
<1> DEFINE N == {n \in Nat : \E f \in [0 .. n -> S] : Turns(f, s, step, n)}
<1>1. ASSUME NEW n \in Nat, \A m \in 0 .. n - 1 : m \in N
      PROVE  n \in N
  <2>1. CASE n = 0
    <3> DEFINE f == [k \in 0 .. 0 |-> s]
    <3>1. f = [k \in 0 .. 0 |-> IF k = 0 THEN s ELSE step[f[k - 1]]]
      OBVIOUS
    <3>2. f \in [0 .. 0 -> S]
      OBVIOUS
    <3>3. QED
      BY <2>1, <3>1, <3>2 DEF Turns
  <2>2. CASE n # 0
    <3>1. n - 1 \in Nat /\ n - 1 \in N
      BY <1>1, <2>2
    <3>2. PICK f \in [0 .. n - 1 -> S] : Turns(f, s, step, n - 1)
      BY <3>1
    <3>3. f[0] = s /\ \A k \in 1 .. n - 1 : f[k] = step[f[k - 1]]
      <4> DEFINE m == n - 1
      <4>1. m \in Nat /\ Turns(f, s, step, m)
        BY <3>1, <3>2
      <4> HIDE DEF m
      <4>2. f = [k \in 0 .. m |-> IF k = 0 THEN s ELSE step[f[k - 1]]]
        BY <4>1 DEF Turns
      <4>3. f[0] = s /\ \A k \in 1 .. m : f[k] = step[f[k - 1]]
        BY <4>1, <4>2
      <4>4. QED
        BY <4>3 DEF m
    <3> DEFINE g == [k \in 0 .. n |-> IF k = 0 THEN s ELSE step[f[k - 1]]]
    <3>4. \A k \in 0 .. n - 1 : g[k] = f[k]
      BY <3>3
    <3>5. ASSUME NEW k \in 0 .. n
          PROVE  g[k] \in S /\ g[k] = IF k = 0 THEN s ELSE step[g[k - 1]]
      <4>1. CASE k = 0
        BY <4>1
      <4>2. CASE k # 0
        <5>1. k - 1 \in 0 .. n - 1
          BY <4>2
        <5>2. g[k - 1] = f[k - 1] /\ f[k - 1] \in S
          BY <3>2, <3>4, <5>1
        <5>3. g[k] = step[f[k - 1]]
          BY <4>2
        <5>4. QED
          BY <4>2, <5>2, <5>3
      <4>3. QED
        BY <4>1, <4>2
    <3>6. g = [k \in 0 .. n |-> IF k = 0 THEN s ELSE step[g[k - 1]]]
      BY <3>5
    <3>7. g \in [0 .. n -> S]
      BY <3>5
    <3>8. QED
      BY <3>6, <3>7 DEF Turns
  <2>3. QED
    BY <2>1, <2>2
<1>2. QED
  BY <1>1, Induction
=============================================================================
