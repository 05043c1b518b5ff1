\* Launch and ramp through a crash and a resume, under a scheduler that keeps running.
SPECIFICATION FairSpec
CONSTANTS
  Bases <- OneBase
  Ratios <- OneRatio
  OldMarks <- Legacy
  MinimumStageSessions = 2
  Profits <- Fresh
  MaxPending = 1
  MaxChanges = 2
  MaxCrashes = 1
  MaxResumes = 1
INVARIANTS IInv GateIsProven
PROPERTIES AutoRecovers
