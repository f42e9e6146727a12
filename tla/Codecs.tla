------------------------------- MODULE Codecs -------------------------------
(***************************************************************************)
(* The conversions of the proxy server at work: a JSON text that arrives   *)
(* piece by piece, a browser's key on its way to the answer (Handshake),   *)
(* and one VncDataPackage used through any sequence of its calls.  A       *)
(* behaviour has one topic.                                                *)
(***************************************************************************)
EXTENDS VncPackage, Handshake

CONSTANTS Lexemes,      \* of a JSON text: its tokens, comments included
          Pieces,       \* of a JSON string: [text, means], means a sequence of code points or Bad
          NumberChars,  \* of a JSON number
          WirePackages, \* packages that may arrive
          Headers,      \* <<source, target>>, and <<cmd, tag>> too
          Ints, Texts, Names, JsonTexts,     \* other arguments of the package's calls
          MaxLexemes, MaxPieces, MaxNumber, MaxCalls

Bad == <<-1>>

VARIABLES topic, typed,      \* what was typed: lexemes, pieces or characters
          outcome,           \* what Reader makes of the JSON text typed
          pkg, alive,        \* the package; FALSE when a call ended the process
          received,          \* the bytes it came as, until it is changed
          foreign,           \* its JSON was read from a text
          calls

shown == <<topic, typed, outcome>>
package == <<pkg, alive, received, foreign, calls>>
vars == <<shown, package, exchange>>

NoPackage == NewPackage(ZeroWord, ZeroWord, ZeroWord, ZeroWord)

Init ==
  /\ topic \in {"structure", "string", "number", "key", "package"}
  /\ typed = <<>> /\ outcome = Fail(NullValue, Token("end", 1, 1))
  /\ pkg = NoPackage /\ alive = TRUE /\ received = <<>> /\ foreign = FALSE /\ calls = 0
  /\ HandshakeInit /\ (topic # "key" => key = CHOOSE k \in Keys : TRUE)

-----------------------------------------------------------------------------
(* What is typed, and what the reader makes of it.                           *)

Text(items) ==
  CASE topic = "string" ->
         <<Quote>> \o FlattenSeq([i \in DOMAIN items |-> items[i].text]) \o <<Quote>>
    [] topic = "structure" -> FlattenSeq(items)
    [] topic = "number" -> items

Type(what, max) ==
  /\ Len(typed) < max
  /\ typed' = Append(typed, what)
  /\ outcome' = Parse(Text(typed'), NullValue)
  /\ UNCHANGED <<topic, package, exchange>>

\* A text is continued while the reader waits for more, and once after that.
TypeLexeme ==
  /\ topic = "structure" /\ (outcome.atEnd \/ (outcome.ok /\ outcome.next > Len(Text(typed))))
  /\ \E lexeme \in Lexemes : Type(lexeme, MaxLexemes)
TypePiece  == topic = "string" /\ \E piece \in Pieces : Type(piece, MaxPieces)
TypeNumber ==
  /\ topic = "number"
  /\ \E c \in NumberChars : (typed = <<>> => c \in Digit \cup {Minus}) /\ Type(c, MaxNumber)

-----------------------------------------------------------------------------
(* The calls on a package.                                                   *)

Call(p) ==
  /\ topic = "package" /\ alive /\ calls < MaxCalls
  /\ pkg' = p /\ calls' = calls + 1
  /\ UNCHANGED <<shown, exchange>>

Set(p) == Call(p) /\ received' = <<>> /\ UNCHANGED <<alive, foreign>>

Receive ==
  \E b \in WirePackages :
    /\ Call(FromWire(b)) /\ received' = b /\ UNCHANGED alive
    /\ foreign' = (b[14] = TypeKeyValue)

Create ==
  \E h \in Headers :
    LET fresh == NewPackage(h[1], h[2], h[2], h[1])
    IN  /\ received' = <<>> /\ UNCHANGED alive
        /\ \/ Call(fresh) /\ foreign' = FALSE
           \/ \E n \in Ints : Call(NewWithInteger(fresh, n)) /\ foreign' = FALSE
           \/ \E x \in Texts : Call(NewWithString(fresh, x)) /\ foreign' = FALSE
           \/ \E k \in Names, x \in Texts : Call(NewWithPairs(fresh, k :> x)) /\ foreign' = FALSE
           \/ \E x \in JsonTexts : Call(NewWithJson(fresh, x)) /\ foreign' = TRUE

SetHeader ==
  \E h \in Headers : Set(setSourceAndTarget(pkg, h[1], h[2])) \/ Set(setCommandId(pkg, h[1], h[2]))
SetInteger == \E n \in Ints : Set(setIntegerParam(pkg, n))
SetText    == \E x \in Texts : Set(setStringParam(pkg, x))

Dies == Call(pkg) /\ alive' = FALSE /\ UNCHANGED <<received, foreign>>

AddPair ==
  \E k \in Names, x \in Texts :
    \/ MayAddKeyValue(pkg) /\ Set(addKeyValueParam(pkg, k, x))
    \/ ~MayAddKeyValue(pkg) /\ Dies
LookUp ==
  \E k \in Names :
    \/ /\ MayGetKeyValue(pkg, k)
       /\ Call(AfterGetKeyValue(pkg, k)) /\ UNCHANGED <<alive, received, foreign>>
    \/ ~MayGetKeyValue(pkg, k) /\ Dies
GetBytes == Call(Current(pkg)) /\ UNCHANGED <<alive, received, foreign>>

-----------------------------------------------------------------------------
(* All steps.                                                                *)

Reply == topic = "key" /\ HandshakeNext /\ UNCHANGED <<shown, package>>

Next ==
  \/ TypeLexeme \/ TypePiece \/ TypeNumber \/ Reply
  \/ Receive \/ Create \/ SetHeader \/ SetInteger \/ SetText \/ AddPair \/ LookUp \/ GetBytes

Spec == Init /\ [][Next]_vars

-----------------------------------------------------------------------------
(* What a JSON text means, said of its lexemes without a reader.             *)

Lex(c) == <<c>>
IsComment(lexeme) == Len(lexeme) > 1 /\ lexeme[1] = Slash
IsStringLexeme(lexeme) == Len(lexeme) > 1 /\ lexeme[1] = Quote
Content(lexeme) == SubSeq(lexeme, 2, Len(lexeme) - 1)

Atoms(lexeme) ==
  CASE IsStringLexeme(lexeme) -> {StringValue(Content(lexeme))}
    [] lexeme = <<116, 114, 117, 101>> -> {BoolValue(TRUE)}
    [] lexeme = <<110, 117, 108, 108>> -> {NullValue}
    [] OTHER -> {}

\* The ways to cut s at some of its commas.
Splits(s) ==
  LET cutAt(C) == LET c == SetToSortSeq(C \cup {0, Len(s) + 1}, <)
                  IN  [i \in 1..(Len(c) - 1) |-> SubSeq(s, c[i] + 1, c[i + 1] - 1)]
  IN  IF s = <<>> THEN {<<>>} ELSE {cutAt(C) : C \in SUBSET {i \in DOMAIN s : s[i] = Lex(44)}}

The(S) == CHOOSE x \in S : TRUE

\* {} or the value of a sequence of lexemes.
RECURSIVE Denoted(_)
Denoted(s) ==
  LET inner      == SubSeq(s, 2, Len(s) - 1)
      elements   == {q \in Splits(inner) : \A i \in DOMAIN q : Denoted(q[i]) # {}}
      isMember(m) == Len(m) > 2 /\ IsStringLexeme(m[1]) /\ m[2] = Lex(58)
                       /\ Denoted(SubSeq(m, 3, Len(m))) # {}
      areMembers(q) == \A i \in DOMAIN q : isMember(q[i])
      \* The code lets one comma follow a last member whose name is empty.
      spare(q)   == Len(q) > 1 /\ q[Len(q)] = <<>> /\ areMembers(Front(q))
                      /\ Content(q[Len(q) - 1][1]) = <<>>
      members    == {q \in Splits(inner) : areMembers(q)}
                      \cup {Front(q) : q \in {p \in Splits(inner) : spare(p)}}
      valueOf(m) == The(Denoted(SubSeq(m, 3, Len(m))))
      lastOf(q, k) == Max({i \in DOMAIN q : Content(q[i][1]) = k})
  IN  CASE Len(s) = 1 -> Atoms(s[1])
        [] Len(s) > 1 /\ s[1] = Lex(91) /\ s[Len(s)] = Lex(93) ->
             {ArrayValue([i \in DOMAIN q |-> The(Denoted(q[i]))]) : q \in elements}
        [] Len(s) > 1 /\ s[1] = Lex(123) /\ s[Len(s)] = Lex(125) ->
             {ObjectValue([k \in {Content(q[i][1]) : i \in DOMAIN q} |-> valueOf(q[lastOf(q, k)])]) :
                q \in members}
        [] OTHER -> {}

Significant(s) == SelectSeq(s, LAMBDA l : ~IsComment(l))

\* The meaning of the shortest prefix that has one: the reader looks no further.
FirstMeaning(s) ==
  LET ends == {n \in DOMAIN s : Denoted(SubSeq(s, 1, n)) # {}}
  IN  IF ends = {} THEN {} ELSE Denoted(SubSeq(s, 1, Min(ends)))

\* Where the code does not take a comment for a space: before a colon, alone
\* in an array, and after a member, where it lets any token be the comma.
InObject(s, i) ==
  LET count(j, S) == Cardinality({k \in (j + 1)..(i - 1) : s[k] \in S})
      opens == {j \in 1..(i - 1) : /\ s[j] \in {Lex(123), Lex(91)}
                                   /\ count(j, {Lex(123), Lex(91)}) = count(j, {Lex(125), Lex(93)})}
  IN  opens # {} /\ s[Max(opens)] = Lex(123)

OddComment(s) ==
  \E i \in DOMAIN s :
    /\ IsComment(s[i])
    /\ LET before == Significant(SubSeq(s, 1, i))
           after  == Significant(SubSeq(s, i, Len(s)))
       IN  /\ before # <<>> /\ after # <<>>
           /\ \/ after[1] = Lex(58)
              \/ before[Len(before)] = Lex(91) /\ after[1] = Lex(93)
              \/ InObject(s, i) /\ before[Len(before)] \notin {Lex(123), Lex(44), Lex(58)}
                   /\ after[1] \notin {Lex(44), Lex(125)}

\* Reader::parse accepts exactly the texts of the JSON grammar (with whatever
\* may follow the first value, comments between tokens, and one spare comma
\* after a member with no name) and builds the value the grammar gives them;
\* of two members of one name the later stays.
JsonAgrees ==
  topic = "structure" /\ ~OddComment(typed) =>
    LET meaning == FirstMeaning(Significant(typed))
    IN  /\ outcome.ok = (meaning # {})
        /\ outcome.ok => meaning = {outcome.value}

-----------------------------------------------------------------------------
(* Strings and numbers.                                                      *)

\* The code points of UTF-8 bytes.
RECURSIVE CodePoints(_)
CodePoints(s) ==
  LET n == CASE s[1] < 128 -> 1 [] s[1] \in 192..223 -> 2 [] s[1] \in 224..239 -> 3 [] OTHER -> 4
      lead == CASE n = 1 -> s[1] [] n = 2 -> s[1] - 192 [] n = 3 -> s[1] - 224 [] n = 4 -> s[1] - 240
  IN  IF s = <<>> THEN <<>>
      ELSE <<FoldLeft(LAMBDA cp, byte : 64 * cp + byte - 128, lead, SubSeq(s, 2, n))>>
             \o CodePoints(SubSeq(s, n + 1, Len(s)))

\* A sequence of code units with its surrogate pairs joined.
RECURSIVE Joined(_)
Joined(u) ==
  IF Len(u) < 2 THEN u
  ELSE IF IsHighSurrogate(u[1]) /\ u[2] \in 56320..57343
  THEN <<65536 + (u[1] - 55296) * 1024 + u[2] - 56320>> \o Joined(SubSeq(u, 3, Len(u)))
  ELSE <<u[1]>> \o Joined(Tail(u))

\* A JSON string means the characters its pieces name, up to the first NUL; a
\* piece that is no escape, or a first half of a pair that no \u follows, is
\* refused.  A raw control character, which JSON forbids, means itself, and so
\* does a second half alone.  Unchecked by the code, so not stated: a first
\* half followed by an escape that is no second half.
IsEscape(piece) == piece.text[1] = Backslash /\ piece.text[2] = 117
StringsMean ==
  LET first(i)  == typed[i].means # Bad /\ IsHighSurrogate(typed[i].means[1])
      second(i) == i <= Len(typed) /\ typed[i].means # Bad /\ typed[i].means[1] \in 56320..57343
      paired    == \A i \in DOMAIN typed : first(i) => second(i + 1)
      unchecked == \E i \in 1..(Len(typed) - 1) :
                     first(i) /\ IsEscape(typed[i + 1]) /\ ~second(i + 1)
      units     == FlattenSeq([i \in DOMAIN typed |-> typed[i].means])
  IN  topic = "string" /\ typed # <<>> /\ ~unchecked =>
        /\ outcome.ok = (paired /\ \A i \in DOMAIN typed : typed[i].means # Bad)
        /\ outcome.ok => CodePoints(outcome.value.string) = CString(Joined(units))

IsDigits(s) == s # <<>> /\ \A i \in DOMAIN s : s[i] \in Digit
Unsigned(s) == IF s # <<>> /\ s[1] = Minus THEN Tail(s) ELSE s
IsInteger(s) == IsDigits(Unsigned(s))

\* The ways to divide what follows the sign: before and after a fraction.
Divided(s) ==
  LET u    == Unsigned(s)
      cuts == {c \in (0..Len(u)) \X (0..Len(u)) : c[1] <= c[2]}
  IN  {[whole |-> SubSeq(u, 1, c[1]), part |-> SubSeq(u, c[1] + 1, c[2]),
        exp |-> SubSeq(u, c[2] + 1, Len(u))] : c \in cuts}

Point == <<46>>
IsFraction(part) == part # <<>> /\ part[1] = 46 /\ IsDigits(Tail(part))
IsExponent(exp) ==
  /\ exp # <<>> /\ exp[1] \in {101, 69}
  /\ \/ IsDigits(Tail(exp))
     \/ Len(exp) > 2 /\ exp[2] \in {Minus, Plus1} /\ IsDigits(SubSeq(exp, 3, Len(exp)))

\* RFC 8259, section 6.
IsJsonNumber(s) ==
  \E d \in Divided(s) :
    /\ IsDigits(d.whole) /\ (d.whole[1] = 48 => Len(d.whole) = 1)
    /\ d.part = <<>> \/ IsFraction(d.part)
    /\ d.exp = <<>> \/ IsExponent(d.exp)

\* What C takes for a number besides: zeros in front, no digit on one side of the point.
IsCNumber(s) ==
  \E d \in Divided(s) :
    /\ \/ IsDigits(d.whole) /\ (d.part \in {<<>>, Point} \/ IsFraction(d.part))
       \/ d.whole = <<>> /\ IsFraction(d.part)
    /\ d.exp = <<>> \/ IsExponent(d.exp)

\* The lengths at which a beginning of s is such a number.
CNumbersIn(s) == {n \in DOMAIN s : IsCNumber(SubSeq(s, 1, n))}

\* The code's slips.  It takes what is no JSON number: a bare minus, and
\* whatever begins with a number of C's, as in 02, 2. and 2-3.
SloppyNumber(s) == ~IsJsonNumber(s) /\ (s = <<Minus>> \/ CNumbersIn(s) # {})

Magnitude(s) == FoldLeft(LAMBDA n, d : 10 * n + d - 48, 0, Unsigned(s))
Limit(s)     == IF s[1] = Minus THEN -MinLargestInt ELSE MaxLargestUInt

\* And an integer is beyond the limit, but its last digit looks harmless.
Wraps(s) ==
  /\ Magnitude(s) > Limit(s) /\ Magnitude(s) % 10 <= Limit(s) % 10
  /\ Magnitude(s) \div 100 < Limit(s) \div 10

\* Reader takes the JSON numbers, those SloppyNumber names, and no other text
\* for a number.  It becomes the integer it says if that has room, a bare
\* minus zero, and any other a double: of all its characters if it is a JSON
\* number, of the longest beginning C can read if it is a sloppy one.  What
\* becomes of the integers that Wraps names is not stated.
NumbersAreExact ==
  topic = "number" =>
    /\ outcome.ok = (IsJsonNumber(typed) \/ SloppyNumber(typed))
    /\ outcome.ok =>
         LET n == Magnitude(typed)
         IN  CASE typed = <<Minus>> -> outcome.value = IntValue(0)
               [] IsInteger(typed) /\ n <= Limit(typed) ->
                    outcome.value = (IF typed[1] = Minus THEN IntValue(-n)
                                     ELSE IF n <= MaxInt THEN IntValue(n) ELSE UIntValue(n))
               [] IsInteger(typed) /\ Wraps(typed) -> TRUE
               [] OTHER -> outcome.value = RealValue(SubSeq(typed, 1, Max(CNumbersIn(typed))))

\* FastWriter writes whatever Reader has built, a failed text's rest included,
\* so that Reader reads it back as it was: quotes, escapes, control characters
\* and the widths of integers.  Reals are left out, and the numbers that Wraps
\* names: a wrapped one may come back as another kind of integer.
RECURSIVE HasReal(_)
HasReal(v) ==
  \/ v.kind = "real"
  \/ v.kind = "array" /\ \E i \in DOMAIN v.elems : HasReal(v.elems[i])
  \/ v.kind = "object" /\ \E k \in DOMAIN v.members : HasReal(v.members[k])

WriteThenRead ==
  topic \in {"structure", "string", "number"} /\ ~HasReal(outcome.value)
      /\ (topic = "number" /\ IsInteger(typed) => ~Wraps(typed)) =>
    Parse(Write(outcome.value), NullValue)
      = Good(outcome.value, Len(Write(outcome.value)))

\* Reader accepts the texts that JSON allows and makes of them what JSON says,
\* grammar, strings and numbers, and it refuses all others.  Excepted is what
\* JsonAgrees and StringsMean spell out (text after the value, a spare comma,
\* OddComment; a raw control character, half a pair before another escape)
\* and what SloppyNumber and Wraps name.
ReaderAgrees == JsonAgrees /\ StringsMean /\ NumbersAreExact

-----------------------------------------------------------------------------
(* Packages.                                                                 *)

\* Every getKeyValue answers alike on both.
SameAnswers(v, w) ==
  \/ v = w
  \/ /\ IsKeyed(v) /\ IsKeyed(w)
     /\ \A k \in DOMAIN MembersOf(v) \cup DOMAIN MembersOf(w) : Reference(v, k) = Reference(w, k)

\* While the bytes count as current they say what the package says: a reader
\* at the other end finds the same header and the same parameter, and bytes
\* this process made carry their own length and crc.
BufferIsCurrent ==
  topic = "package" /\ alive /\ ~pkg.dirty =>
    LET told == FromWire(pkg.buffer)
        n    == Len(pkg.buffer)
    IN  /\ \A f \in {"target", "source", "version", "type", "command", "tag"} :
             told.content[f] = pkg.content[f]
        /\ getInt32Param(told) = getInt32Param(pkg)
        /\ getStringParam(told) = getStringParam(pkg)
        /\ pkg.content.type = TypeKeyValue => SameAnswers(told.content.json, pkg.content.json)
        /\ received = <<>> =>
             /\ Number(WordAt(pkg.buffer, 1)) = n
             /\ WordAt(pkg.buffer, n - 3) = crc32_hash(SubSeq(pkg.buffer, 1, n - 4))

\* A package that is only looked at goes on byte for byte as it came, with
\* whatever spaces, order of members or crc its sender gave it.
ForwardIsVerbatim ==
  topic = "package" /\ alive /\ received # <<>> => Current(pkg).buffer = received

\* A call ends the process only on JSON that came from outside: a package
\* this process filled by itself answers every call.
OwnPackagesNeverAbort == ~alive => foreign

\* Whatever calls were made on a VncDataPackage, its bytes say what it holds,
\* what was only read goes on unchanged, and only foreign JSON ends the process.
PackageKeepsItsWord == BufferIsCurrent /\ ForwardIsVerbatim /\ OwnPackagesNeverAbort
=============================================================================
