------------------------------ MODULE JsonText ------------------------------
(***************************************************************************)
(* The part of jsoncpp the packages use: Json::Reader, Json::FastWriter    *)
(* and the operations of Json::Value under them.  A text is a sequence of  *)
(* character codes; a position p is the index of the next character.       *)
(*                                                                         *)
(* Left out: comments are skipped, not kept (addComment), and the error    *)
(* list: a failed call is ok = FALSE with the value built so far, and      *)
(* atEnd says whether the text was merely too short.  What                 *)
(* recoverFromError skips after a failure nobody reads.                    *)
(***************************************************************************)
EXTENDS Integers, Sequences, SequencesExt

CONSTANTS MaxLargestUInt,   \* 2^64 - 1
          MinLargestInt,    \* -2^63
          MaxInt            \* 2^31 - 1: Value::maxInt, not maxLargestInt

ASSUME NumberAssumption ==
  /\ MaxInt \in Nat /\ MaxLargestUInt \in Nat /\ -MinLargestInt \in Nat
  /\ MaxInt < -MinLargestInt /\ -MinLargestInt <= MaxLargestUInt

-----------------------------------------------------------------------------
(* Json::Value.                                                              *)

NullValue      == [kind |-> "null"]
BoolValue(b)   == [kind |-> "bool", bool |-> b]
IntValue(n)    == [kind |-> "int", int |-> n]
UIntValue(n)   == [kind |-> "uint", uint |-> n]
RealValue(txt) == [kind |-> "real", real |-> txt]   \* the decimal text it was read from
ArrayValue(es) == [kind |-> "array", elems |-> es]
ObjectValue(m) == [kind |-> "object", members |-> m]
NoMembers      == [k \in {} |-> NullValue]

\* What is seen of a std::string through its c_str().
CString(s) ==
  LET nul == {i \in DOMAIN s : s[i] = 0}
  IN  IF nul = {} THEN s ELSE SubSeq(s, 1, Min(nul) - 1)

StringValue(s) == [kind |-> "string", string |-> CString(s)]

\* resolveReference: operator[](key) aborts on anything but null and object.
IsKeyed(v)    == v.kind \in {"null", "object"}
MembersOf(v)  == IF v.kind = "object" THEN v.members ELSE NoMembers
Reference(v, key) ==
  LET m == MembersOf(v) IN IF key \in DOMAIN m THEN m[key] ELSE NullValue
WithMember(v, key, w) ==
  LET m == MembersOf(v)
  IN  ObjectValue([k \in DOMAIN m \cup {key} |-> IF k = key THEN w ELSE m[k]])

\* asString throws unless IsText.
IsText(v)   == v.kind \in {"null", "string", "bool"}
AsString(v) ==
  CASE v.kind = "null"   -> <<>>
    [] v.kind = "string" -> v.string
    [] v.kind = "bool"   -> IF v.bool THEN <<116, 114, 117, 101>> ELSE <<102, 97, 108, 115, 101>>

-----------------------------------------------------------------------------
(* Reader: the tokens.                                                       *)

Space == {32, 9, 13, 10}     Digit == 48..57      NewLine == {13, 10}
Quote == 34                  Backslash == 92      Slash == 47
Star  == 42                  Minus == 45          Plus1 == 43
NumberChar == Digit \cup {46, 101, 69, Plus1, Minus}   \* . e E + -

Punctuation == [c \in {123, 125, 91, 93, 44, 58} |->
  CASE c = 123 -> "{" [] c = 125 -> "}" [] c = 91 -> "[" [] c = 93 -> "]"
    [] c = 44 -> "," [] c = 58 -> ":"]

\* The rest of true, false, null after its first letter.
Keyword == [c \in {116, 102, 110} |->
  CASE c = 116 -> [type |-> "true", rest |-> <<114, 117, 101>>]
    [] c = 102 -> [type |-> "false", rest |-> <<97, 108, 115, 101>>]
    [] c = 110 -> [type |-> "null", rest |-> <<117, 108, 108>>]]

At(t, p)         == IF p <= Len(t) THEN t[p] ELSE 0
FirstOf(t, p, S) == Min({q \in p..Len(t) : t[q] \in S} \cup {Len(t) + 1})
SkipSpaces(t, p) == Min({q \in p..Len(t) : t[q] \notin Space} \cup {Len(t) + 1})
ReadNumber(t, p) == Min({q \in p..Len(t) : t[q] \notin NumberChar} \cup {Len(t) + 1})

Token(type, from, next) == [type |-> type, from |-> from, next |-> next]

RECURSIVE ReadString(_, _, _)
ReadString(t, from, p) ==
  IF p > Len(t) THEN Token("error", from, Len(t) + 1)
  ELSE IF t[p] = Quote THEN Token("string", from, p + 1)
  ELSE ReadString(t, from, IF t[p] = Backslash THEN p + 2 ELSE p + 1)

ReadComment(t, from) ==
  LET p    == from + 1
      ends == {q \in (p + 1)..(Len(t) - 1) : t[q] = Star /\ t[q + 1] = Slash}
  IN  CASE At(t, p) = Star /\ ends # {} -> Token("comment", from, Min(ends) + 2)
        [] At(t, p) = Star /\ ends = {} -> Token("error", from, Len(t) + 1)
        [] At(t, p) = Slash ->
             Token("comment", from, Min({FirstOf(t, p + 1, NewLine), Len(t)}) + 1)
        [] OTHER -> Token("error", from, Min({p, Len(t)}) + 1)

ReadToken(t, p) ==
  LET from == SkipSpaces(t, p)
      c    == At(t, from)
      next == Min({from, Len(t)}) + 1
  IN  CASE c \in DOMAIN Punctuation   -> Token(Punctuation[c], from, next)
        [] c = Quote                  -> ReadString(t, from, next)
        [] c = Slash                  -> ReadComment(t, from)
        [] c \in Digit \cup {Minus}   -> Token("number", from, ReadNumber(t, next))
        [] c \in DOMAIN Keyword       ->
             LET past == next + Len(Keyword[c].rest)
             IN  IF SubSeq(t, next, Min({past - 1, Len(t)})) = Keyword[c].rest
                 THEN Token(Keyword[c].type, from, past) ELSE Token("error", from, next)
        [] c = 0                      -> Token("end", from, next)
        [] OTHER                      -> Token("error", from, next)

\* skipCommentTokens.
RECURSIVE NextToken(_, _)
NextToken(t, p) ==
  LET k == ReadToken(t, p) IN IF k.type = "comment" THEN NextToken(t, k.next) ELSE k

-----------------------------------------------------------------------------
(* Reader: numbers and strings.                                              *)

Good(v, next)  == [ok |-> TRUE, value |-> v, next |-> next, atEnd |-> FALSE]
Fail(v, token) == [ok |-> FALSE, value |-> v, next |-> token.next, atEnd |-> token.type = "end"]

\* What sscanf("%lf") takes of a text: a sign, digits with a point, an exponent.  glibc leaves an
\* exponent without digits out of the number; ISO C would take no number from such a text.
DigitsFrom(t, p) == Min({q \in p..Len(t) : t[q] \notin Digit} \cup {Len(t) + 1})
ScannedReal(t) ==
  LET sign  == IF At(t, 1) \in {Minus, Plus1} THEN 2 ELSE 1
      whole == DigitsFrom(t, sign)
      point == IF At(t, whole) = 46 THEN DigitsFrom(t, whole + 1) ELSE whole
      esign == IF At(t, point + 1) \in {Minus, Plus1} THEN point + 2 ELSE point + 1
      exp   == DigitsFrom(t, esign)
  IN  IF \A q \in sign..(point - 1) : t[q] = 46 THEN <<>>
      ELSE SubSeq(t, 1, (IF At(t, point) \in {101, 69} /\ exp > esign THEN exp ELSE point) - 1)

DecodeDouble(s, token, old) ==
  IF ScannedReal(s) = <<>> THEN Fail(old, token) ELSE Good(RealValue(ScannedReal(s)), token.next)

TooLarge(value, threshold) == value >= threshold

\* decodeNumber's loop from character i on; -1 says "decode it as a double".
RECURSIVE Accumulate(_, _, _, _)
Accumulate(s, i, value, max) ==
  LET digit == s[i] - 48
  IN  IF i > Len(s) THEN value
      ELSE IF TooLarge(value, max \div 10) /\ (i < Len(s) \/ digit > max % 10) THEN -1
      ELSE Accumulate(s, i + 1, (value * 10 + digit) % (MaxLargestUInt + 1), max)

DecodeNumber(s, token, old) ==
  LET negative == s[1] = Minus
      isDouble == \E i \in DOMAIN s : s[i] \notin Digit /\ ~(i = 1 /\ negative)
      value    == Accumulate(s, IF negative THEN 2 ELSE 1, 0,
                             IF negative THEN -MinLargestInt ELSE MaxLargestUInt)
      signed   == IF value > -MinLargestInt THEN MaxLargestUInt + 1 - value ELSE -value
  IN  IF isDouble \/ value = -1 THEN DecodeDouble(s, token, old)
      ELSE Good(IF negative THEN IntValue(signed)
                ELSE IF value <= MaxInt THEN IntValue(value) ELSE UIntValue(value), token.next)

Hex(c) ==
  CASE c \in Digit -> c - 48 [] c \in 97..102 -> c - 87 [] c \in 65..70 -> c - 55 [] OTHER -> -1
IsUnicodeEscape(s) == Len(s) >= 4 /\ \A i \in 1..4 : Hex(s[i]) >= 0
Hex4(s) == 4096 * Hex(s[1]) + 256 * Hex(s[2]) + 16 * Hex(s[3]) + Hex(s[4])

codePointToUTF8(cp) ==
  LET tail(k) == 128 + ((cp \div 64^k) % 64)
  IN  CASE cp < 128 -> <<cp>>
        [] cp \in 128..2047 -> <<192 + cp \div 64, tail(0)>>
        [] cp \in 2048..65535 -> <<224 + cp \div 4096, tail(1), tail(0)>>
        [] OTHER -> <<240 + cp \div 262144, tail(2), tail(1), tail(0)>>

\* The second half of a pair is not checked to be one.
Surrogates(high, low) == 65536 + (high % 1024) * 1024 + (low % 1024)
IsHighSurrogate(cp)   == cp \in 55296..56319

Escapes == [c \in {Quote, Slash, Backslash, 98, 102, 110, 114, 116} |->
  CASE c = 98 -> 8 [] c = 102 -> 12 [] c = 110 -> 10 [] c = 114 -> 13 [] c = 116 -> 9 [] OTHER -> c]

\* decodeString on the characters between the quotes.
BadString == [ok |-> FALSE, string |-> <<>>]
RECURSIVE DecodeString(_)
DecodeString(s) ==
  LET then(bytes, n) ==
        LET r == DecodeString(SubSeq(s, n + 1, Len(s)))
        IN  IF r.ok THEN [r EXCEPT !.string = bytes \o @] ELSE BadString
      first == SubSeq(s, 3, Len(s))
      second == SubSeq(s, 9, Len(s))
  IN  IF s = <<>> THEN [ok |-> TRUE, string |-> <<>>]
      ELSE IF s[1] # Backslash THEN then(<<s[1]>>, 1)
      ELSE IF s[2] \in DOMAIN Escapes THEN then(<<Escapes[s[2]]>>, 2)
      ELSE IF s[2] # 117 \/ ~IsUnicodeEscape(first) THEN BadString
      ELSE IF ~IsHighSurrogate(Hex4(first)) THEN then(codePointToUTF8(Hex4(first)), 6)
      ELSE IF At(s, 7) = Backslash /\ At(s, 8) = 117 /\ IsUnicodeEscape(second)
           THEN then(codePointToUTF8(Surrogates(Hex4(first), Hex4(second))), 12)
      ELSE BadString

-----------------------------------------------------------------------------
(* Reader: values.  old is the value the text is read into, which a failure  *)
(* may leave in place.                                                       *)

Between(t, token, skip) == SubSeq(t, token.from + skip, token.next - 1 - skip)

\* Mutant: the test for an empty object no longer asks that no name was read.
MayEndObjectAlways(name) == TRUE

MayEndObject(name) == name = <<>>

StringResult(string, token, old) ==
  IF string.ok THEN Good(StringValue(string.string), token.next) ELSE Fail(old, token)

RECURSIVE ReadValue(_, _, _), ReadAs(_, _, _), ReadMember(_, _, _, _),
          MemberValue(_, _, _, _), AfterMember(_, _, _, _), ReadElement(_, _, _),
          AfterElement(_, _, _, _)

ReadValue(t, p, old) == ReadAs(t, NextToken(t, p), old)

\* readValue once its token is known.
ReadAs(t, k, old) ==
  CASE k.type = "{"      -> ReadMember(t, NextToken(t, k.next), NoMembers, <<>>)
    [] k.type = "["      ->
         IF At(t, SkipSpaces(t, k.next)) = 93
         THEN Good(ArrayValue(<<>>), SkipSpaces(t, k.next) + 1)
         ELSE ReadElement(t, k.next, <<>>)
    [] k.type = "number" -> DecodeNumber(Between(t, k, 0), k, old)
    [] k.type = "string" -> StringResult(DecodeString(Between(t, k, 1)), k, old)
    [] k.type = "true"   -> Good(BoolValue(TRUE), k.next)
    [] k.type = "false"  -> Good(BoolValue(FALSE), k.next)
    [] k.type = "null"   -> Good(NullValue, k.next)
    [] OTHER             -> Fail(old, k)

\* One turn of readObject's loop: the token where a name is due, the name, its
\* value, and what follows the value.  name is the name read before.
ReadMember(t, n, members, name) ==
  IF n.type = "}" /\ MayEndObject(name) THEN Good(ObjectValue(members), n.next)
  ELSE IF n.type # "string" THEN Fail(ObjectValue(members), n)
  ELSE MemberValue(t, DecodeString(Between(t, n, 1)), ReadToken(t, n.next), members)

MemberValue(t, s, colon, members) ==
  IF ~s.ok \/ colon.type # ":" THEN Fail(ObjectValue(members), colon)
  ELSE AfterMember(t, s.string,
         ReadValue(t, colon.next, Reference(ObjectValue(members), CString(s.string))), members)

\* After a comment any token is taken for the comma.
AfterMember(t, name, r, members) ==
  LET now   == WithMember(ObjectValue(members), CString(name), r.value)
      comma == ReadToken(t, r.next)
      after == NextToken(t, r.next)
  IN  IF ~r.ok THEN [r EXCEPT !.value = now]
      ELSE IF comma.type \notin {"}", ",", "comment"} THEN Fail(now, comma)
      ELSE IF after.type = "}" THEN Good(now, after.next)
      ELSE ReadMember(t, NextToken(t, after.next), now.members, name)

\* One turn of readArray's loop.
ReadElement(t, p, elems) ==
  LET r == ReadValue(t, p, NullValue)
  IN  AfterElement(t, r, NextToken(t, r.next), Append(elems, r.value))

AfterElement(t, r, k, elems) ==
  IF ~r.ok THEN [r EXCEPT !.value = ArrayValue(elems)]
  ELSE IF k.type = "]" THEN Good(ArrayValue(elems), k.next)
  ELSE IF k.type = "," THEN ReadElement(t, k.next, elems)
  ELSE Fail(ArrayValue(elems), k)

\* Reader::parse into a value that was old before.
Parse(t, old) == ReadValue(t, 1, old)

-----------------------------------------------------------------------------
(* FastWriter.                                                               *)

RECURSIVE UIntToString(_)
UIntToString(n) ==
  (IF n < 10 THEN <<>> ELSE UIntToString(n \div 10)) \o <<48 + (n % 10)>>

IntToString(n) == IF n < 0 THEN <<Minus>> \o UIntToString(-n) ELSE UIntToString(n)

Escaped == [c \in {Quote, Backslash, 8, 12, 10, 13, 9} |->
  CASE c = 8 -> 98 [] c = 12 -> 102 [] c = 10 -> 110 [] c = 13 -> 114 [] c = 9 -> 116 [] OTHER -> c]
HexDigit(n) == IF n < 10 THEN 48 + n ELSE 55 + n

\* Mutant: the backslash is not escaped.
EscapeKeepingBackslash(c) ==
  IF c \in DOMAIN Escaped \ {Backslash} THEN <<Backslash, Escaped[c]>>
  ELSE IF c \in 1..31 THEN <<Backslash, 117, 48, 48, HexDigit(c \div 16), HexDigit(c % 16)>>
  ELSE <<c>>

Escape(c) ==
  IF c \in DOMAIN Escaped THEN <<Backslash, Escaped[c]>>
  ELSE IF c \in 1..31 THEN <<Backslash, 117, 48, 48, HexDigit(c \div 16), HexDigit(c % 16)>>
  ELSE <<c>>

valueToQuotedString(s) ==
  <<Quote>> \o FlattenSeq([i \in DOMAIN s |-> Escape(s[i])]) \o <<Quote>>

\* strcmp, the order of the members of an object.
KeyBefore(a, b) ==
  \/ IsPrefix(a, b)
  \/ \E i \in 1..Min({Len(a), Len(b)}) :
       a[i] < b[i] /\ SubSeq(a, 1, i - 1) = SubSeq(b, 1, i - 1)

Listed(open, parts, close) ==
  <<open>> \o FlattenSeq([i \in DOMAIN parts |-> IF i = 1 THEN parts[i] ELSE <<44>> \o parts[i]])
    \o <<close>>

RECURSIVE WriteValue(_)
WriteValue(v) ==
  CASE v.kind = "null"   -> <<110, 117, 108, 108>>
    [] v.kind = "bool"   -> AsString(v)
    [] v.kind = "int"    -> IntToString(v.int)
    [] v.kind = "uint"   -> UIntToString(v.uint)
    [] v.kind = "real"   -> v.real    \* "%#.16g": the digits are left out of the model
    [] v.kind = "string" -> valueToQuotedString(v.string)
    [] v.kind = "array"  -> Listed(91, [i \in DOMAIN v.elems |-> WriteValue(v.elems[i])], 93)
    [] v.kind = "object" ->
         LET names == SetToSortSeq(DOMAIN v.members, KeyBefore)
         IN  Listed(123, [i \in DOMAIN names |->
               valueToQuotedString(names[i]) \o <<58>> \o WriteValue(v.members[names[i]])], 125)

Write(v) == WriteValue(v) \o <<10>>
=============================================================================
