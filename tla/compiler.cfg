SPECIFICATION FairSpec
CONSTANTS
  Names = {"a", "Start"}
  Programs <- MCPrograms
  Flavors = {"Pcre", "JavaScript", "Ruby"}
  FeatureSets <- AllFeaturesOnly
  MaxRangeSize = 2
  MaxReference = 99
INVARIANTS
  GroupsInSourceOrder
  ReferencesDenote
  NoForwardReferences
  RubyNamesOrNumbers
  PopMatchesPush
  ExpansionsTracked
  LexicalResolution
  QuantifierScoping
  AcyclicNeverRecursive
PROPERTIES
  Terminates
