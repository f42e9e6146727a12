------------------------------ MODULE MCCodecs ------------------------------
(***************************************************************************)
(* A small instance of Codecs.  Texts are spelled in character codes.  The *)
(* keys are RFC 6455's sample with its GUID, the first example of FIPS     *)
(* 180-1, a string that ends in every place of a block as it is fed, and   *)
(* one of no letter.                                                       *)
(***************************************************************************)
EXTENDS Codecs

MinInt == -32

\* { } [ ] , : "" "a" true and a comment
TokenLexemes ==
  { <<123>>, <<125>>, <<91>>, <<93>>, <<44>>, <<58>>, <<34, 34>>, <<34, 97, 34>>,
    <<116, 114, 117, 101>>, <<47, 42, 32, 42, 47>> }

StringPieces ==
  { [text |-> <<97>>, means |-> <<97>>],
    [text |-> <<92, 34>>, means |-> <<34>>],
    [text |-> <<92, 92>>, means |-> <<92>>],
    [text |-> <<92, 98>>, means |-> <<8>>],
    [text |-> <<10>>, means |-> <<10>>],                            \* a raw newline
    [text |-> <<195, 169>>, means |-> <<233>>],                     \* a raw e acute
    [text |-> <<92, 117, 48, 48, 69, 57>>, means |-> <<233>>],      \* the same, escaped
    [text |-> <<92, 117, 50, 48, 97, 99>>, means |-> <<8364>>],     \* a Euro sign
    [text |-> <<92, 117, 48, 48, 49, 102>>, means |-> <<31>>],      \* a control character
    [text |-> <<92, 117, 48, 48, 48, 48>>, means |-> <<0>>],
    [text |-> <<92, 117, 100, 56, 51, 100>>, means |-> <<55357>>],  \* half a pair
    [text |-> <<92, 117, 68, 69, 48, 48>>, means |-> <<56832>>],    \* the other half
    [text |-> <<92, 113>>, means |-> Bad] }

\* + - 0 2 3 6 9 . e
NumberCharacters == {43, 45, 48, 50, 51, 54, 57, 46, 101}

RfcKey ==
  <<100, 71, 104, 108, 73, 72, 78, 104, 98, 88, 66, 115, 90, 83, 66, 117, 98, 50, 53, 106,
    90, 81, 61, 61, 50, 53, 56, 69, 65, 70, 65, 53, 45, 69, 57, 49, 52, 45, 52, 55, 68,
    65, 45, 57, 53, 67, 65, 45, 67, 53, 65, 66, 48, 68, 67, 56, 53, 66, 49, 49>>

\* s3pPLMBiTxaQ9kYGzzhZRbK+xOo=
RfcAnswer ==
  <<115, 51, 112, 80, 76, 77, 66, 105, 84, 120, 97, 81, 57, 107, 89, 71, 122, 122, 104, 90,
    82, 98, 75, 43, 120, 79, 111, 61>>

\* The first example of FIPS 180-1, abc, and its digest in base64.
Abc       == <<97, 98, 99>>
AbcAnswer ==
  <<113, 90, 107, 43, 78, 107, 99, 71, 103, 87, 113, 54, 80, 105,
    86, 120, 101, 70, 68, 67, 98, 74, 122, 81, 50, 74, 48, 61>>

SomeKeys  == {RfcKey, Abc, [i \in 1 .. 130 |-> 1 + ((37 * i) % 255)], <<>>}
Standards == {[key |-> RfcKey, answer |-> RfcAnswer], [key |-> Abc, answer |-> AbcAnswer]}

Ends     == { << <<0, 1>>, <<258, 772>> >>, << <<65535, 255>>, <<0, 1>> >> }
SomeInts == {12, -1}
TheNames == { <<97>>, <<98>> }                           \* a, b
TheTexts == { <<120>>, <<34, 10>> }                      \* x, and a quote with a newline
Spaced   == <<123, 32, 34, 97, 34, 58, 34, 98, 34, 125>> \* { "a":"b"}
Numeric  == <<123, 34, 97, 34, 58, 49, 125>>             \* {"a":1}
Listing  == <<91, 110, 117, 108, 108, 93>>               \* [null]
Broken   == <<123, 34, 97, 34, 58, 34, 98, 34>>          \* {"a":"b"
SomeJson == {Numeric, Listing, Broken}

\* A package with a crc of its own and two bytes after its parameter.
Wire(type, param) ==
  <<0, 0, 0, 34 + Len(param), 0, 0, 0, 1, 1, 2, 3, 4, 1, type, 7, 7, 0, 0, 0, 9, 0, 0, 0, 3>>
    \o <<0, 0, 0, Len(param)>> \o param \o <<1, 2, 9, 9, 9, 9>>
SomeWires ==
  { Wire(TypeNone, <<>>), Wire(TypeInt32, <<45, 55, 33>>), Wire(TypeString, <<120>>) }
    \cup { Wire(TypeKeyValue, j) : j \in {Spaced, Numeric, Listing, Broken} }
=============================================================================
