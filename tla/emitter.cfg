SPECIFICATION Spec
CONSTANTS
  MaxCount = 65535
  Trees <- EmitterTrees
  Flavors = {"JavaScript", "Pcre"}
  MaxLength = 5
INVARIANTS
  OptimizePreserves
  CodegenFaithful
  CapturesKept
