\* A SELL generation with the operator's thread, one crash.
SPECIFICATION Spec
CONSTANTS
  o1 = o1
  o2 = o2
  s1 = s1
  Orders <- SellIds
  SellOrders <- SellIds
  MaxQty = 2
  Threads <- Both
  StartQty = 3
  Target = 1
  MaxCrashes = 1
INVARIANTS AccountWithinTarget Conservation
