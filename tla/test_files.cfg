SPECIFICATION Spec
CONSTANTS
  Files <- SmallFiles
  Versions <- TwoVersions
  Compile <- MCCompile
  Accepts <- MCAccepts
INVARIANTS
  BlessedStays
  PurposeKept
