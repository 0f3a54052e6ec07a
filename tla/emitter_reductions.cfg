SPECIFICATION Spec
CONSTANTS
  MaxCount = 65535
  Trees <- DoubleRepetitions
  Flavors = {"Pcre"}
  MaxLength = 4
INVARIANTS
  OptimizePreserves
