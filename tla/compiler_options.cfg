SPECIFICATION Spec
CONSTANTS
  Names = {"a"}
  Programs <- OptionPrograms
  Flavors = {"JavaScript", "Ruby", "Rust"}
  FeatureSets <- SomeFeatures
  MaxRangeSize = 2
  MaxReference = 3
INVARIANTS
  TypeOK
  OptionsRespectedOutsideLookarounds
