\* A withdrawal that meets an equity already read is counted as a profit.
SPECIFICATION Spec
CONSTANTS
  Bases <- TwoBases
  Ratios <- OneRatio
  OldMarks <- Fresh
  MinimumStageSessions = 1
  Profits <- Fresh
  MaxPending = 1
  MaxChanges = 3
  MaxCrashes = 0
  MaxResumes = 0
INVARIANTS MarkIsEarned
