SPECIFICATION Spec
CONSTANTS
  MaxCount = 65535
  Trees <- RepeatedAssertions
  Flavors = {"Ruby"}
  MaxLength = 4
INVARIANTS
  AssertionsNotRepeated
