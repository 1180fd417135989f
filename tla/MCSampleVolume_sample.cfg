SPECIFICATION FairSpec
CONSTANTS
  Names <- ClashingNames
  Paths <- NestedPaths
  MaxTime = 2
INVARIANTS
  TypeOK
  KeptUntilRemoved
  TimesKept
PROPERTIES
  ImplementsStore
  ExitsWhenTold
