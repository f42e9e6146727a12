----------------------------- MODULE Handshake -----------------------------
(***************************************************************************)
(* How WebSocketServer::do_handshake answers a key: the key and the GUID   *)
(* go through a SHA1 object character by character, and the digest goes    *)
(* out in base64.  A browser takes the connection for a WebSocket only if  *)
(* the answer is the standard's, so one wrong byte of padding costs it.    *)
(*                                                                         *)
(* The calls on the SHA1 object come in any order: Result may be asked for *)
(* before the key has ended, and characters may come after it.             *)
(***************************************************************************)
EXTENDS Integers, Sequences, FiniteSetsExt, SequencesExt

CONSTANTS
  LengthMod,   \* 2^32 in sha1.cpp: where Length_Low carries into Length_High
  Hash(_),     \* the octets that ProcessMessageBlock makes of some blocks, in order (Digest)
  Keys,        \* the strings a browser's key and the GUID may be
  KnownAnswers \* the answers the standard gives for some of them: [key, answer]

Octet == 0 .. 255

ASSUME HandshakeAssumption ==
  /\ LengthMod \in Nat \ {0} /\ LengthMod % 8 = 0
  /\ \A k \in Keys : k \in Seq(Octet \ {0})

VARIABLES
  key,    \* server_key
  fed,    \* how many of its characters the SHA1 object has been given
  sha,    \* the SHA1 object
  answer  \* server_key once it is the answer

exchange == <<key, fed, sha, answer>>

Zeros(n) == [i \in 1 .. n |-> 0]

-----------------------------------------------------------------------------
(* The SHA1 object.  H is a function of the blocks processed so far, so the  *)
(* object keeps the blocks.                                                  *)

Reset == [block |-> <<>>, low |-> 0, high |-> 0, processed |-> <<>>,
          computed |-> FALSE, corrupted |-> FALSE]

ProcessMessageBlock(s) ==
  [s EXCEPT !.processed = Append(@, s.block), !.block = <<>>]

\* One character.
Input(s, c) ==
  LET low  == (s.low + 8) % LengthMod
      high == IF low = 0 THEN (s.high + 1) % LengthMod ELSE s.high
      more == [s EXCEPT !.block = Append(@, c), !.low = low, !.high = high,
                        !.corrupted = (low = 0 /\ high = 0)]
  IN  IF s.computed \/ s.corrupted THEN [s EXCEPT !.corrupted = TRUE]
      ELSE IF Len(more.block) = 64 THEN ProcessMessageBlock(more) ELSE more

LengthOctets(n) == <<(n \div 16777216) % 256, (n \div 65536) % 256, (n \div 256) % 256, n % 256>>

\* Mutant: a block with 56 octets is taken to have room for the length.
PadMessageLate(s) ==
  LET marked  == Append(s.block, 128)
      crowded == Len(s.block) > 56
      first   == ProcessMessageBlock([s EXCEPT !.block = marked \o Zeros(64 - Len(marked))])
      last    == IF crowded THEN first ELSE [s EXCEPT !.block = marked]
  IN  ProcessMessageBlock([last EXCEPT !.block =
        @ \o Zeros(56 - Len(@)) \o LengthOctets(s.high) \o LengthOctets(s.low)])

PadMessage(s) ==
  LET marked  == Append(s.block, 128)
      crowded == Len(s.block) > 55
      first   == ProcessMessageBlock([s EXCEPT !.block = marked \o Zeros(64 - Len(marked))])
      last    == IF crowded THEN first ELSE [s EXCEPT !.block = marked]
  IN  ProcessMessageBlock([last EXCEPT !.block =
        @ \o Zeros(56 - Len(@)) \o LengthOctets(s.high) \o LengthOctets(s.low)])

\* The state SHA1::Result leaves; it answers unless the object is corrupted.
Result(s) ==
  IF s.corrupted \/ s.computed THEN s ELSE [PadMessage(s) EXCEPT !.computed = TRUE]

-----------------------------------------------------------------------------
(* base64, in groups of three octets and of four letters.                    *)

Range64(from, to) == [i \in 1 .. to - from + 1 |-> from + i - 1]

base64_chars == Range64(65, 90) \o Range64(97, 122) \o Range64(48, 57) \o <<43, 47>>
Padding      == 61   \* '='

\* The n-th of the groups of size many of s; the last may be short.
Group(s, size, n) == SubSeq(s, size * (n - 1) + 1, Min({size * n, Len(s)}))
Groups(s, size)   == [n \in 1 .. (Len(s) + size - 1) \div size |-> Group(s, size, n)]

\* Mutant: one letter too few.
LettersOfShort(b) == Len(b)

\* A short group is filled with zeros, and only the letters they do not stand for are written.
LettersOf(b) == Len(b) + 1

Sextets(b) ==
  << b[1] \div 4, (b[1] % 4) * 16 + b[2] \div 16, (b[2] % 16) * 4 + b[3] \div 64, b[3] % 64 >>

Encoded(b) ==
  LET sextets == Sextets(b \o Zeros(3 - Len(b)))
  IN  [i \in 1 .. 4 |-> IF i <= LettersOf(b) THEN base64_chars[sextets[i] + 1] ELSE Padding]

base64_encode(octets) ==
  LET groups == Groups(octets, 3) IN FlattenSeq([n \in DOMAIN groups |-> Encoded(groups[n])])

\* base64_chars.find, kept in an octet: npos becomes 255.
Sextet(c) ==
  IF \E i \in 1 .. 64 : base64_chars[i] = c
  THEN (CHOOSE i \in 1 .. 64 : base64_chars[i] = c) - 1 ELSE 255

Triple(q) ==
  << (q[1] * 4 + (q[2] % 64) \div 16) % 256,
     ((q[2] % 16) * 16 + (q[3] % 64) \div 4) % 256,
     ((q[3] % 4) * 64 + q[4]) % 256 >>

OctetsOf(letters) ==
  LET filled == letters \o Zeros(4 - Len(letters))
  IN  SubSeq(Triple([i \in 1 .. 4 |-> Sextet(filled[i])]), 1, Len(letters) - 1)

\* The text up to the first character that is not one of the 64.
Readable(text) ==
  SubSeq(text, 1, Min({i \in DOMAIN text : Sextet(text[i]) = 255} \cup {Len(text) + 1}) - 1)

base64_decode(text) ==
  LET groups == Groups(Readable(text), 4) IN FlattenSeq([n \in DOMAIN groups |-> OctetsOf(groups[n])])

-----------------------------------------------------------------------------
(* Steps.                                                                    *)

HandshakeInit == key \in Keys /\ fed = 0 /\ sha = Reset /\ answer = <<>>

\* sha << server_key.c_str(), a character of it.
Feed ==
  /\ fed < Len(key)
  /\ fed' = fed + 1
  /\ sha' = Input(sha, key[fed + 1])
  /\ UNCHANGED <<key, answer>>

Finish == sha' = Result(sha) /\ UNCHANGED <<key, fed, answer>>

\* A digest is twenty octets, which htonl puts in the order of a network.
Answer ==
  /\ fed = Len(key) /\ sha.computed /\ ~sha.corrupted
  /\ \E digest \in {Hash(sha.processed)} \cap [1 .. 20 -> Octet] : answer' = base64_encode(digest)
  /\ UNCHANGED <<key, fed, sha>>

HandshakeNext == Feed \/ Finish \/ Answer

HandshakeSpec == HandshakeInit /\ [][HandshakeNext]_exchange

-----------------------------------------------------------------------------
(* Properties.                                                               *)

\* FIPS 180-1, section 4: a one, zeros, and the length in bits as 64 bits, in blocks of 64 octets.
Padded(s) ==
  LET zeros == CHOOSE n \in 0 .. 63 : (Len(s) + 1 + n + 8) % 64 = 0
      bits  == 8 * Len(s)
  IN  s \o <<128>> \o Zeros(zeros)
        \o LengthOctets(bits \div LengthMod) \o LengthOctets(bits % LengthMod)

Standard(s) == Hash(Groups(Padded(s), 64))

\* What SHA1 has hashed once Result was called is what it was given as the standard pads it, cut in
\* blocks, whatever room the last block had; no bit of the length is lost when Length_Low carries.
DigestIsSha1 ==
  sha.computed /\ ~sha.corrupted => sha.processed = Groups(Padded(SubSeq(key, 1, fed)), 64)

\* A browser that decodes the answer finds the digest of its key, in the 28 letters it expects.
AnswerIsDigest ==
  answer # <<>> => Len(answer) = 28 /\ base64_decode(answer) = Standard(key)

\* The answers the standard gives come out letter by letter.
AnswersAsKnown ==
  \A known \in KnownAnswers : answer # <<>> /\ key = known.key => answer = known.answer
=============================================================================
