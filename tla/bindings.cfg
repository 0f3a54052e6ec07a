SPECIFICATION BindingsSpec
CONSTANTS
  Letters <- MCLetters
  HexLetters <- MCHexLetters
  Numerals <- MCNumerals
  WideLetters <- MCWideLetters
  Blanks <- MCBlanks
  Symbols <- MCSymbols
  ByteLength <- MCByteLength
  DecimalValue <- MCDecimalValue
  HexValue <- MCHexValue
  CodeOf <- MCCodeOf
  AsciiNames <- MCAsciiNames
  UnicodeNames <- MCUnicodeNames
  MaxOffset = 70000
  Limit = 4
  Utf16Length <- MCUtf16Length
  FlavorNames <- MCFlavorNames
  Inputs <- MCInputs
INVARIANTS
  RangesDenote
  PanicsExactlyInEscapes
