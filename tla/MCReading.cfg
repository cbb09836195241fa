SPECIFICATION Spec
CONSTANTS
  ByteBits = 3
  LongBits = 4
  QuadBits = 6
  Letters <- MCLetters
  Digits <- MCDigits
  Texts <- MCTexts
INVARIANTS
  TokensMunched
  TreeOfGrammar
CHECK_DEADLOCK FALSE
