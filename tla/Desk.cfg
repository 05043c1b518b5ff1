SPECIFICATION DeskSpec
CONSTANTS
  SymbolCount = 2
  Plans <- FewPlans
  Budgets <- SmallBudgets
  Price = 2
  Fractions <- EntryPercent
  Gap = 1
  MaxDay = 3
  MaxCrashes = 1
  MaxRetargets = 1
  s1 = s1
  s2 = s2
  h1 = h1
  h2 = h2
  Signals = {s1, s2}
  Handlers = {h1, h2}
  Targets = {1, 2}
  MaxSlips = 3
  MaxShifts = 1
  MaxDate = 2
  MaxFaults = 3
  p1 = p1
  p2 = p2
  a = a
  c = c
  Processes = {p1, p2}
  Callers = {a, c}
  Home <- Homes
  MaxTokens = 3
  Prices = {47, 50, 52, 55}
  Scores = {55, 92}
  Capital = 1000
  Sessions = 5
  Bands <- TwoBands
  Weights <- StageWeights
  Drops <- StageDrops
  StageScore = 55
  Fee = 1
  FillSlip = 0
  Chase = 5
  First = 4
  FirstPart = 30
  Second = 10
  Rebuys = 1
  RebuyScore = 55
  RebuyDrop = 2
  Patience = 2
  ExitGain = 3
  Quotes <- TwoQuotes
  Trends <- TwoTrends
  Endowment = 1000
  BuyFee = 1
  SellFee = 1
  Slippage = 1
  EntrySteps <- HalfThenAll
  Interval = 1
  MaxSession = 3
  MaxMonth = 2
  b1 = b1
  b2 = b2
  x1 = x1
  t1 = t1
  t2 = t2
  PaperBuys = {b1, b2}
  PaperSells = {x1}
  PaperThreads = {t1, t2}
  MaxStarts = 2
  soxx = soxx
  smh = smh
  RequiredBars = {soxx}
  OptionalBars = {smh}
  MaxKstDay = 2
  MaxMishaps = 1
  MaxClosed = 3
  Span = 1
  Candles = 2
  StartGrace = 1
  MaxSplits = 1
  SignalCount = 2
  AttemptsPerDay = 3
  AttemptsPerSignal = 2
  Cooldown = 1
  TicksPerDay = 3
  SessionTicks = 2
  MaxTick = 3
  MaxEnds = 1
CHECK_DEADLOCK FALSE
INVARIANTS
  DeskTypeOK
  OneGeneration
  TwoCleanCycles
  ReplayAgrees
  CapHonoured
  PaperAgrees
  MorningTold
  BarsTrusted
PROPERTIES
  NeverOverbought
  SoldToTarget
  SellsFirstUnspent
  FirstEntryStaged
  SlipHonoured
  TargetHonoured
  TokensConverge
  CycleGains
  AttemptsBounded
