\* A BUY of two shares with the operator's thread, one crash.
SPECIFICATION Spec
CONSTANTS
  o1 = o1
  o2 = o2
  s1 = s1
  Orders <- OneBuy
  SellOrders <- NoIds
  MaxQty = 2
  Threads <- Both
  StartQty = 0
  Target = 2
  MaxCrashes = 1
INVARIANTS FillChain
PROPERTIES SettledIsFinal HaltBarrier GateReopensSettled
