----------------------------- MODULE MCWebLink -----------------------------
(***************************************************************************)
(* A small WebLink: bytes of five bits, of which three are an opcode, and  *)
(* a buffer that just holds the shortest frame with a two-byte length.     *)
(***************************************************************************)
EXTENDS WebLink, Bitwise

ExclusiveOr(a, b) == a ^^ b

Line(text) == text \o <<CR, LF>>
Host       == <<Letter(4), SEPARATOR, Letter(5)>>
KeyLine(v) == <<KEYNAME, SEPARATOR>> \o v
Request(lines, v) == [key |-> v, text |-> FlattenSeq(lines) \o <<CR, LF>>]

\* A browser's request, its headers in two orders, one with a header that ends in LF alone.
Values == <<Letter(6)>>
TwoRequests ==
  {Request(<<Line(<<Letter(4)>>), Line(KeyLine(Values)), Line(Host)>>, Values),
   Request(<<Line(<<Letter(4)>>), Append(Host, LF), Line(KeyLine(Values))>>, Values)}

MaskA == <<1, 3, 1, 2>>
MaskB == <<9, 1, 0, 2>>
Frame(fin, op, mask, payload) == [fin |-> fin, op |-> op, mask |-> mask, payload |-> payload]
LongText == [i \in 1..Ext16 |-> 1]

\* A message whole and in fragments, under two masks, an empty one, one that needs the two-byte
\* length, one whose masked bytes are CR LF CR LF, and a close.
SomeFrames ==
  {Frame(1, 2, MaskA, <<7>>), Frame(0, 2, MaskA, <<20, 9>>), Frame(1, 0, MaskB, <<8>>),
   Frame(1, 2, MaskB, <<>>), Frame(1, 2, MaskA, LongText),
   Frame(1, 2, MaskA, Masked(Blank, MaskA)), Frame(1, CLOSE, MaskA, <<>>)}
=============================================================================
