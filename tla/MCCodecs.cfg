SPECIFICATION Spec
CONSTANTS
  MaxLargestUInt = 63
  MinLargestInt <- MinInt
  MaxInt = 7
  Lexemes <- TokenLexemes
  Pieces <- StringPieces
  NumberChars <- NumberCharacters
  WirePackages <- SomeWires
  Headers <- Ends
  Ints <- SomeInts
  Texts <- TheTexts
  Names <- TheNames
  LengthMod = 512
  Hash <- DigestOf
  Keys <- SomeKeys
  KnownAnswers <- Standards
  JsonTexts <- SomeJson
  MaxLexemes = 7
  MaxPieces = 3
  MaxNumber = 5
  MaxCalls = 3
INVARIANTS
  ReaderAgrees
  WriteThenRead
  PackageKeepsItsWord
  DigestIsSha1
  AnswerIsDigest
  AnswersAsKnown
CHECK_DEADLOCK FALSE
