\* A fill of one stage that is written down in the next.
SPECIFICATION Spec
CONSTANTS
  Bases <- TwoBases
  Ratios <- OneRatio
  OldMarks <- Fresh
  MinimumStageSessions = 1
  Profits <- Fresh
  MaxPending = 1
  MaxChanges = 3
  MaxCrashes = 0
  MaxResumes = 0
PROPERTIES StageProven
