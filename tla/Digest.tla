------------------------------- MODULE Digest -------------------------------
(***************************************************************************)
(* The arithmetic the servers borrow: what SHA-1 makes of a block, for the *)
(* answer to a browser's key (Handshake), and the crc32 that ends every    *)
(* package and turns a TV's id string into its id.                         *)
(*                                                                         *)
(* A 32-bit word is a pair of 16-bit halves: TLC's integers are too narrow *)
(* for one number.                                                         *)
(***************************************************************************)
EXTENDS Integers, Sequences, SequencesExt, Bitwise

Bytes == 0..255
Half  == 65536

Word(hi, lo)  == <<hi, lo>>
XorWord(v, w)     == <<v[1] ^^ w[1], v[2] ^^ w[2]>>
AndWord(v, w)    == <<v[1] & w[1], v[2] & w[2]>>
OrWord(v, w)     == <<v[1] | w[1], v[2] | w[2]>>
Complement(v) == <<Half - 1 - v[1], Half - 1 - v[2]>>
Plus(v, w)    ==
  LET lo == v[2] + w[2] IN <<(v[1] + w[1] + (lo \div Half)) % Half, lo % Half>>
WordBytes(w)  == <<w[1] \div 256, w[1] % 256, w[2] \div 256, w[2] % 256>>
BytesWord(b)  == <<256 * b[1] + b[2], 256 * b[3] + b[4]>>

ShiftRight(w, n) ==
  <<w[1] \div 2^n, (w[1] % 2^n) * 2^(16 - n) + w[2] \div 2^n>>

CircularShift(n, w) ==
  LET k     == n % 16
      v     == IF n < 16 THEN w ELSE <<w[2], w[1]>>
      up(a, b) == ((a * 2^k) % Half) + (b \div 2^(16 - k))
  IN  <<up(v[1], v[2]), up(v[2], v[1])>>

-----------------------------------------------------------------------------
(* SHA-1.                                                                    *)

H0 == << <<26437, 8961>>, <<61389, 43913>>, <<39098, 56574>>, <<4146, 21622>>, <<50130, 57840>> >>

\* The constants and functions of the four loops of twenty rounds.
K == << <<23170, 31129>>, <<28377, 60321>>, <<36635, 48348>>, <<51810, 49622>> >>

\* Mutant: the majority of the third loop is forgotten.
RoundFunctionOfTwo(loop, b, c, d) ==
  IF loop = 1 THEN OrWord(AndWord(b, c), AndWord(Complement(b), d)) ELSE XorWord(XorWord(b, c), d)

RoundFunction(loop, b, c, d) ==
  CASE loop = 1 -> OrWord(AndWord(b, c), AndWord(Complement(b), d))
    [] loop = 3 -> OrWord(OrWord(AndWord(b, c), AndWord(b, d)), AndWord(c, d))
    [] OTHER -> XorWord(XorWord(b, c), d)

(* The two recursions name their argument in a guard so that TLC evaluates   *)
(* it at every step.                                                         *)

\* The message schedule W[0..79], here W[1..80], up to entry n.
RECURSIVE Schedule(_, _)
Schedule(w, n) ==
  LET i == Len(w) + 1
  IN  IF i > n THEN w
      ELSE Schedule(Append(w, CircularShift(1,
             XorWord(XorWord(w[i - 3], w[i - 8]), XorWord(w[i - 14], w[i - 16])))), n)

\* Rounds t.. of one of the loops, on A..E.
RECURSIVE Rounds(_, _, _, _)
Rounds(loop, t, v, w) ==
  IF t = 20 \/ v = <<>> THEN v
  ELSE Rounds(loop, t + 1,
              << Plus(Plus(Plus(CircularShift(5, v[1]), RoundFunction(loop, v[2], v[3], v[4])),
                           Plus(v[5], w[20 * loop - 19 + t])), K[loop]),
                 v[1], CircularShift(30, v[2]), v[3], v[4] >>, w)

\* One block into H.
Compress(h, block) ==
  LET first == [i \in 1..16 |-> BytesWord(SubSeq(block, 4 * i - 3, 4 * i))]
      w     == Schedule(Schedule(Schedule(first, 36), 58), 80)
      last  == Rounds(4, 0, Rounds(3, 0, Rounds(2, 0, Rounds(1, 0, h, w), w), w), w)
  IN  [i \in 1..5 |-> Plus(h[i], last[i])]

\* Result's words, in the order of a network.
DigestOf(blocks) == FlattenSeq([i \in 1..5 |-> WordBytes(FoldLeft(Compress, H0, blocks)[i])])

-----------------------------------------------------------------------------
(* crc32_hash.  The 256 entries of crc32_tbl are what eight steps of the     *)
(* reflected polynomial make of an index.                                    *)

Polynomial == <<60856, 33568>>

CrcStep(w, i) == IF w[2] % 2 = 1 THEN XorWord(ShiftRight(w, 1), Polynomial) ELSE ShiftRight(w, 1)

crc32_tbl == [n \in Bytes |-> FoldLeft(CrcStep, <<0, n>>, <<1, 2, 3, 4, 5, 6, 7, 8>>)]

RECURSIVE CrcOver(_, _)
CrcOver(crc, bytes) ==
  IF bytes = <<>> \/ crc = <<>> THEN crc
  ELSE CrcOver(XorWord(ShiftRight(crc, 8), crc32_tbl[(crc[2] % 256) ^^ Head(bytes)]), Tail(bytes))

crc32_hash(bytes) == Complement(CrcOver(<<Half - 1, Half - 1>>, bytes))
=============================================================================
