\* A BUY generation of two shares, the scheduler alone, one crash.
SPECIFICATION CycleSpec
CONSTANTS
  o1 = o1
  o2 = o2
  s1 = s1
  Orders <- BuyIds
  SellOrders <- NoIds
  MaxQty = 2
  Threads <- Alone
  StartQty = 0
  Target = 2
  MaxCrashes = 1
INVARIANTS IInv TerminalTruth NeverForgotten AccountWithinTarget Conservation
PROPERTIES BuysOneAtATime PromiseKept FollowedOrderEnds
