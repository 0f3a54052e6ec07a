SPECIFICATION CommandSpec
CONSTANTS
  Letters <- MCLetters
  HexLetters <- MCHexLetters
  Numerals <- MCNumerals
  WideLetters <- MCWideLetters
  Blanks <- MCBlanks
  Symbols <- MCSymbols
  ByteLength <- MCByteLength
  DecimalValue <- MCDecimalValue
  HexValue <- MCHexValue
  CodeOf <- MCCodeOf
  AsciiNames <- MCAsciiNames
  UnicodeNames <- MCUnicodeNames
  MaxOffset = 70000
  Limit = 4
  MaxPrinted = 2
  MaxRangeSize = 3
  MaxReference = 99
  Names <- MCNames
  Calls <- MCSetCalls
INVARIANT NoOpposites
