----------------------------- MODULE VncPackage -----------------------------
(***************************************************************************)
(* VncDataPackage: what a package says (content), the bytes that say it    *)
(* (buffer) and the flag that the two may differ (dirty).                  *)
(*                                                                         *)
(* Bytes are numbers, the 32-bit header fields are words of Digest, and    *)
(* intParam is the number "%d" prints.  Packages shorter than the fixed    *)
(* part are left out: the constructor reads past their end.                *)
(***************************************************************************)
EXTENDS Digest, JsonText

FIXED_PART == 32    \* PKG_FIXED_PART_SIZE: 28 bytes of header and the crc

TypeNone == 0   TypeInt32 == 1   TypeString == 2   TypeKeyValue == 3     \* CmdArgumentType

ZeroWord   == <<0, 0>>
WordAt(b, i) == BytesWord(SubSeq(b, i, i + 3))
Number(w)    == w[1] * Half + w[2]

NewContent ==
  [target |-> ZeroWord, source |-> ZeroWord, version |-> 1, type |-> TypeNone,
   command |-> ZeroWord, tag |-> ZeroWord, param |-> <<>>, int |-> 0, json |-> NullValue]

Decoded(content, bytes) == [content |-> content, buffer |-> bytes, dirty |-> FALSE]

\* The number atoi finds at the start of a text.
AToI(s) ==
  LET sign   == IF At(s, 1) \in {Minus, Plus1} THEN 2 ELSE 1
      digits == SubSeq(s, sign, DigitsFrom(s, sign) - 1)
      value  == FoldLeft(LAMBDA n, d : 10 * n + d - 48, 0, digits)
  IN  IF At(s, 1) = Minus THEN -value ELSE value

\* The constructor on a package from the wire.  Neither the crc nor the
\* length of the parameter is checked.
FromWire(b) ==
  LET length == Number(WordAt(b, 25))
      type   == b[14]
      param  == IF type = TypeNone THEN <<>> ELSE SubSeq(b, 29, 28 + length)
  IN  Decoded([target |-> WordAt(b, 5), source |-> WordAt(b, 9), version |-> b[13],
               type |-> type, command |-> WordAt(b, 17), tag |-> WordAt(b, 21), param |-> param,
               int |-> IF type = TypeInt32 THEN AToI(param) ELSE 0,
               json |-> IF type = TypeKeyValue THEN Parse(param, NullValue).value ELSE NullValue], b)

makeNewProtocolBuffer(pkg) ==
  LET c     == pkg.content
      param == CASE c.type = TypeInt32    -> IntToString(c.int)
                 [] c.type = TypeKeyValue -> Write(c.json)
                 [] OTHER             -> c.param
      word(n) == <<n \div Half, n % Half>>
      body  == WordBytes(word(FIXED_PART + Len(param))) \o WordBytes(c.target) \o WordBytes(c.source)
                 \o <<c.version % 256, c.type % 256, 0, 0>> \o WordBytes(c.command)
                 \o WordBytes(c.tag) \o WordBytes(word(Len(param))) \o param
  IN  [content |-> [c EXCEPT !.param = param],
       buffer  |-> body \o WordBytes(crc32_hash(body)), dirty |-> FALSE]

\* getProtocolBuffer and getCrc32 make the bytes anew when they must.
Current(pkg) == IF pkg.dirty THEN makeNewProtocolBuffer(pkg) ELSE pkg

Changed(pkg, content) == [pkg EXCEPT !.content = content, !.dirty = TRUE]

setSourceAndTarget(pkg, source, target) ==
  Changed(pkg, [pkg.content EXCEPT !.source = source, !.target = target])

setCommandId(pkg, cmd, tag) ==
  Changed(pkg, [pkg.content EXCEPT !.command = cmd, !.tag = tag])

setIntegerParam(pkg, n) ==
  Changed(pkg, [pkg.content EXCEPT !.type = TypeInt32, !.int = n])

\* Mutant: the bytes are not given up.
setStringParamKeepingBytes(pkg, s) ==
  [pkg EXCEPT !.content.type = TypeString, !.content.param = s]

setStringParam(pkg, s) ==
  Changed(pkg, [pkg.content EXCEPT !.type = TypeString, !.param = s])

\* Aborts unless the JSON root takes members.
addKeyValueParam(pkg, key, value) ==
  Changed(pkg, [pkg.content EXCEPT !.type = TypeKeyValue, !.int = 0,
                                   !.json = WithMember(@, key, StringValue(value))])
MayAddKeyValue(pkg) == IsKeyed(pkg.content.json)

getInt32Param(pkg)  == IF pkg.content.type = TypeInt32 THEN pkg.content.int ELSE 0
getStringParam(pkg) == IF pkg.content.type = TypeString THEN pkg.content.param ELSE <<>>

\* getKeyValue aborts unless MayGetKeyValue.  A missing key is inserted with
\* a null, and the bytes are not given up for it.
getKeyValue(pkg, key) ==
  IF pkg.content.type = TypeKeyValue THEN AsString(Reference(pkg.content.json, key)) ELSE <<>>

MayGetKeyValue(pkg, key) ==
  pkg.content.type = TypeKeyValue =>
    IsKeyed(pkg.content.json) /\ IsText(Reference(pkg.content.json, key))

AfterGetKeyValue(pkg, key) ==
  IF pkg.content.type # TypeKeyValue THEN pkg
  ELSE [pkg EXCEPT !.content.json = WithMember(@, key, Reference(@, key))]

\* VncDataPackage::create, by the kind of its parameter.
NewPackage(source, target, cmd, tag) ==
  Changed([content |-> NewContent, buffer |-> <<>>, dirty |-> TRUE],
          [NewContent EXCEPT !.source = source, !.target = target, !.command = cmd, !.tag = tag])
NewWithInteger(new, n)   == Changed(new, [new.content EXCEPT !.type = TypeInt32, !.int = n])
NewWithString(new, s)    == Changed(new, [new.content EXCEPT !.type = TypeString, !.param = s])
NewWithPairs(new, pairs) ==
  Changed(new, [new.content EXCEPT !.type = TypeKeyValue,
    !.json = IF DOMAIN pairs = {} THEN NullValue
             ELSE ObjectValue([k \in DOMAIN pairs |-> StringValue(pairs[k])])])
NewWithJson(new, s)      ==
  Changed(new, [new.content EXCEPT !.type = TypeKeyValue, !.json = Parse(s, NullValue).value,
                                   !.param = s])
=============================================================================
