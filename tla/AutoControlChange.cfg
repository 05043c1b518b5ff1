\* A change of the settings of a launched account, with profits and losses.
SPECIFICATION Spec
CONSTANTS
  Bases <- TwoBases
  Ratios <- OneRatio
  OldMarks <- Legacy
  MinimumStageSessions = 1
  Profits <- UpDown
  MaxPending = 1
  MaxChanges = 3
  MaxCrashes = 0
  MaxResumes = 0
INVARIANTS ContractHolds StageCapital MarkIsEarnedUnraced
PROPERTIES ConfirmedAsReviewed BuyAfterFlow StageProvenUnraced
