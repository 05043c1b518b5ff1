\* A BUY of two shares, the scheduler alone, no crash.
SPECIFICATION Spec
CONSTANTS
  o1 = o1
  o2 = o2
  s1 = s1
  Orders <- OneBuy
  SellOrders <- NoIds
  MaxQty = 2
  Threads <- Alone
  StartQty = 0
  Target = 2
  MaxCrashes = 0
INVARIANT AppliedBeforeComparison
