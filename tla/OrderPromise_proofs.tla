------------------------ MODULE OrderPromise_proofs ------------------------
(***************************************************************************)
(* OrderFlow implements OrderPromise.  OrderFlow_proofs has reduced every  *)
(* step to a LedgerStep; here each kind of LedgerStep is a step of         *)
(* OrderPromise, or changes nothing it speaks of.                          *)
(***************************************************************************)
EXTENDS OrderFlow_proofs

(* Facts about the mapping.                                                *)
LEMMA RowTypes ==
  ASSUME LedgerTypeOK, NEW o \in Orders
  PROVE  /\ RowOf(o) = "none" <=> status[o] = "NONE"
         /\ RowOf(o) = "open" <=> status[o] \in OpenStatuses
         /\ RowOf(o) = "settled" <=> status[o] \in TerminalStatuses
BY DEF LedgerTypeOK, RowOf, OpenStatuses, TerminalStatuses

(* A row that keeps its status, or an order that keeps its broker state,   *)
(* looks the same through the mapping.                                     *)
LEMMA SameRows ==
  ASSUME \A o \in Orders : RowOf(o)' = RowOf(o)
  PROVE  [o \in Orders |-> RowOf(o)]' = [o \in Orders |-> RowOf(o)]
OBVIOUS

LEMMA UpdatePromised ==
  ASSUME LedgerInv, NEW o \in Orders, NEW s, NEW f, NEW known,
         TrueUpdate(o, s, f, known)
  PROVE  [Promise!Next]_(Promise!vars)
<1> USE DEF LedgerInv, TrueUpdate, UpdateOrder, broker
<1>1. LedgerTypeOK /\ LedgerTypeOK'
  BY UpdateKept
<1>2. /\ \A p \in Orders : WorkOf(p)' = WorkOf(p)
      /\ \A p \in Orders \ {o} : RowOf(p)' = RowOf(p)
      /\ status[o] # "NONE" /\ status'[o] = s
      /\ filled' = [filled EXCEPT ![o] = f] /\ filled[o] <= f
      /\ UNCHANGED <<ordered, posts, bfilled, applied, qty>>
  BY DEF WorkOf, Working, RowOf, LedgerTypeOK, Conflicts
<1>3. CASE status[o] \in TerminalStatuses
  <2>1. s = status[o] /\ f = filled[o]
    <3>1. status'[o] = status[o] /\ filled'[o] = filled[o]
      BY <1>3, Settling DEF LedgerStep, Closed
    <3>2. QED BY <1>2, <3>1 DEF LedgerTypeOK
  <2>2. UNCHANGED <<status, filled>>
    BY <2>1 DEF LedgerTypeOK
  <2>3. QED BY <1>2, <2>2 DEF Promise!vars, RowOf
<1>4. CASE status[o] \in OpenStatuses /\ s \in {"PENDING", "UNKNOWN"}
  <2>1. \A p \in Orders : RowOf(p)' = RowOf(p)
    BY <1>2, <1>4 DEF RowOf, OpenStatuses
  <2>2. f \in filled[o]..bfilled[o]
    BY <1>2 DEF LedgerTypeOK, BrokerTypeOK
  <2>3. o \notin misread
    BY <1>4
  <2>4. Promise!Book(o)
    BY <1>2, <1>4, <2>1, <2>2, <2>3 DEF Promise!Book, RowOf
  <2>5. QED BY <2>4 DEF Promise!Next
<1>5. CASE status[o] \in OpenStatuses /\ s \in TerminalStatuses
  <2>1. o \notin misread => WorkOf(o) # "live" /\ f = bfilled[o]
    <3>1. o \notin misread /\ s = "REJECTED" => f = bfilled[o] /\ WorkOf(o) = "none"
      BY MaxQtyAssumption DEF WorkOf, Working, RowInv, BrokerTypeOK
    <3>2. s # "REJECTED" => f = bfilled[o] /\ bstate[o] \in {"FILLED", "CANCELED"}
      BY <1>5 DEF TerminalStatuses
    <3>3. QED BY <3>1, <3>2 DEF WorkOf, Working
  <2>2. [p \in Orders |-> RowOf(p)]' = [[p \in Orders |-> RowOf(p)] EXCEPT ![o] = "settled"]
    BY <1>1, <1>2, <1>5, RowTypes DEF RowOf, TerminalStatuses, OpenStatuses
  <2>3. RowOf(o) = "open"
    BY <1>5 DEF RowOf, OpenStatuses
  <2>4. o \in misread => filled' = filled
    BY <1>2 DEF RowInv, LedgerTypeOK
  <2>5. misread' = misread
    OBVIOUS
  <2>6. Promise!Settle(o)
    BY <1>2, <2>1, <2>2, <2>3, <2>4, <2>5 DEF Promise!Settle
  <2>7. QED BY <2>6 DEF Promise!Next
<1>6. QED
  BY <1>1, <1>2, <1>3, <1>4, <1>5 DEF LedgerTypeOK, TerminalStatuses

LEMMA ApplyPromised ==
  ASSUME LedgerInv, NEW o \in Orders, ApplyCoreFill(o), UNCHANGED broker
  PROVE  Promise!Next
<1>1. Promise!Credit(o)
  BY DEF Promise!Credit, ApplyCoreFill, Delta, broker, RowOf, WorkOf, Working
<1>2. QED BY <1>1 DEF Promise!Next

LEMMA ReservePromised ==
  ASSUME LedgerInv, NEW o \in Orders, NEW n \in 1..MaxQty,
         ReserveOrder(o, n), UNCHANGED broker
  PROVE  Promise!Next
<1>1. [p \in Orders |-> RowOf(p)]' = [[p \in Orders |-> RowOf(p)] EXCEPT ![o] = "open"]
  BY DEF LedgerInv, LedgerTypeOK, ReserveOrder, RowOf, OpenStatuses
<1>2. RowOf(o) = "none" /\ \A p \in Orders : WorkOf(p)' = WorkOf(p)
  BY DEF ReserveOrder, broker, RowOf, WorkOf, Working, OpenStatuses
<1>3. /\ ordered' = [ordered EXCEPT ![o] = n]
      /\ UNCHANGED <<posts, misread, bfilled, filled, applied, qty>>
  BY DEF ReserveOrder, broker
<1>4. Promise!Reserve(o)
  BY <1>1, <1>2, <1>3 DEF Promise!Reserve
<1>5. QED BY <1>4 DEF Promise!Next

LEMMA PostPromised ==
  ASSUME LedgerInv, NEW o \in Orders, NEW b, FirstPost(o, b)
  PROVE  Promise!Next
<1> USE DEF LedgerInv, FirstPost, ledger
<1>1. posts[o] = 0 /\ posts' = [posts EXCEPT ![o] = 1]
  BY DEF BrokerTypeOK
<1>2. \/ /\ [p \in Orders |-> WorkOf(p)]' =
              [[p \in Orders |-> WorkOf(p)] EXCEPT ![o] = "live"]
         /\ misread' \in {misread, misread \cup {o}}
      \/ [p \in Orders |-> WorkOf(p)]' = [p \in Orders |-> WorkOf(p)] /\ misread' = misread
  <2>1. \A p \in Orders \ {o} : WorkOf(p)' = WorkOf(p)
    BY DEF BrokerTypeOK, WorkOf, Working
  <2>2. bstate[o] = "none" /\ bstate'[o] = b
    BY DEF RowInv, BrokerTypeOK
  <2>3. CASE b = "none"
    <3>1. WorkOf(o)' = WorkOf(o)
      BY <2>2, <2>3 DEF WorkOf, Working
    <3>2. QED BY <2>1, <2>3, <3>1
  <2>4. CASE b \in {"sent", "open"}
    <3>1. WorkOf(o)' = "live"
      BY <2>2, <2>4 DEF WorkOf, Working
    <3>2. QED BY <2>1, <3>1
  <2>5. QED BY <2>3, <2>4
<1>3. RowOf(o) = "open" /\ \A p \in Orders : RowOf(p)' = RowOf(p)
  BY DEF RowOf, OpenStatuses
<1>4. Promise!Send(o)
  BY <1>1, <1>2, <1>3 DEF Promise!Send
<1>5. QED BY <1>4 DEF Promise!Next

LEMMA BrokerPromised ==
  ASSUME LedgerInv, NEW o \in Orders,
         BrokerAccept(o) \/ BrokerFill(o) \/ BrokerClose(o)
  PROVE  [Promise!Next]_(Promise!vars)
<1> USE DEF LedgerInv, ledger
<1>1. CASE BrokerAccept(o)
  <2>1. \A p \in Orders : WorkOf(p)' = WorkOf(p) /\ RowOf(p)' = RowOf(p)
    BY <1>1 DEF BrokerAccept, BrokerTypeOK, WorkOf, Working, RowOf
  <2>2. QED BY <1>1, <2>1 DEF BrokerAccept, Promise!vars
<1>2. CASE BrokerFill(o)
  <2>1. bfilled[o] < ordered[o] /\ WorkOf(o) = "live"
    BY <1>2 DEF BrokerFill, RowInv, WorkOf, Working
  <2>2. [p \in Orders |-> WorkOf(p)]' =
          [[p \in Orders |-> WorkOf(p)] EXCEPT ![o] =
             IF bfilled[o] + 1 = ordered[o] THEN "over" ELSE "live"]
    BY <1>2 DEF BrokerFill, BrokerTypeOK, WorkOf, Working
  <2>3. \A p \in Orders : RowOf(p)' = RowOf(p)
    BY <1>2 DEF BrokerFill, RowOf
  <2>4. Promise!Execute(o)
    BY <1>2, <2>1, <2>2, <2>3 DEF BrokerFill, Promise!Execute
  <2>5. QED BY <2>4 DEF Promise!Next
<1>3. CASE BrokerClose(o)
  <2>1. WorkOf(o) = "live"
    BY <1>3 DEF BrokerClose, WorkOf, Working
  <2>2. [p \in Orders |-> WorkOf(p)]' = [[p \in Orders |-> WorkOf(p)] EXCEPT ![o] = "over"]
    BY <1>3 DEF BrokerClose, BrokerTypeOK, WorkOf, Working
  <2>3. \A p \in Orders : RowOf(p)' = RowOf(p)
    BY <1>3 DEF BrokerClose, RowOf
  <2>4. Promise!End(o)
    BY <1>3, <2>1, <2>2, <2>3 DEF BrokerClose, Promise!End
  <2>5. QED BY <2>4 DEF Promise!Next
<1>4. QED BY <1>1, <1>2, <1>3

LEMMA InitPromised == Init => Promise!Init
<1> SUFFICES ASSUME Init PROVE Promise!Init
  OBVIOUS
<1>1. \A o \in Orders : RowOf(o) = "none" /\ WorkOf(o) = "none"
  BY DEF Init, RowOf, WorkOf, Working, OpenStatuses
<1>2. QED BY <1>1 DEF Init, Promise!Init

LEMMA StepPromised == LedgerInv /\ LedgerStep => [Promise!Next]_(Promise!vars)
<1>1. ASSUME UNCHANGED <<ledger, broker>> PROVE UNCHANGED Promise!vars
  BY <1>1 DEF ledger, broker, Promise!vars, RowOf, WorkOf, Working
<1>2. QED
  BY <1>1, UpdatePromised, ApplyPromised, ReservePromised, PostPromised, BrokerPromised
     DEF LedgerStep

(* Every behaviour of the order flow is one OrderPromise allows: an order  *)
(* is sent at most once, settled once the broker is done with it, with its *)
(* final quantity, and every booked share reaches the position once.  Only *)
(* an order whose answer was misread is settled as nothing beforehand.     *)
THEOREM PromiseIsKept == Spec => PromiseKept
<1>1. IInv /\ [Next]_vars => [Promise!Next]_(Promise!vars)
  <2>1. UNCHANGED vars => UNCHANGED Promise!vars
    BY DEF vars, ledger, broker, Promise!vars, RowOf, WorkOf, Working
  <2>2. QED BY <2>1, InvSplit, NextStep, StepPromised
<1>2. QED
  BY <1>1, InitPromised, Invariance, PTL DEF Spec, PromiseKept, Promise!Spec

=============================================================================
