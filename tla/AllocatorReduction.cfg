SPECIFICATION AllocSpec
CONSTANTS
  SymbolCount = 2
  Plans <- BothHeld
  Budgets <- Shrinking
  Price = 2
  Fractions <- EntryPercent
  Gap = 1
  MaxDay = 1
  MaxCrashes = 0
  MaxRetargets = 2
CHECK_DEADLOCK FALSE
PROPERTY SellsFirst
