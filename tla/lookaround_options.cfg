SPECIFICATION Spec
CONSTANTS
  Names = {"a"}
  Programs <- OptionPrograms
  Flavors = {"JavaScript"}
  FeatureSets <- AllFeaturesOnly
  MaxRangeSize = 2
  MaxReference = 3
INVARIANTS
  FlavorRespected
