---------------------------- MODULE OrderLedger ----------------------------
(***************************************************************************)
(* The SQLite order ledger of one strategy symbol: the `orders` rows, the  *)
(* `core_fill_progress` rows and the share count of `core_positions`, and  *)
(* the transactions of application/database.py and                         *)
(* application/managed_account.py that change them.  Each transaction is   *)
(* one indivisible step (BEGIN IMMEDIATE ... COMMIT); who calls it and in  *)
(* which order is the subject of module OrderFlow.                         *)
(*                                                                         *)
(* Money is left out: prices, fees, cost basis and the managed-cash bound  *)
(* do not appear here, so a reservation may ask for any quantity the       *)
(* share bound allows.                                                     *)
(***************************************************************************)
EXTENDS Integers, FiniteSets, Functions

CONSTANTS
  Orders,        \* the client order ids the run can create
  SellOrders,    \* those whose purpose is CORE_REBALANCE_SELL
  MaxQty         \* bound on the size of one order

ASSUME OrdersAssumption == SellOrders \subseteq Orders /\ IsFiniteSet(Orders)
ASSUME MaxQtyAssumption == MaxQty \in Nat \ {0}

VARIABLES
  status,        \* orders.status, "NONE" while the row does not exist
  ordered,       \* orders.qty
  filled,        \* orders.filled_qty
  bid,           \* orders.broker_order_id is known
  applied,       \* core_fill_progress.applied_filled_qty
  qty            \* core_positions.qty

ledger == <<status, ordered, filled, bid, applied, qty>>

BuyOrders == Orders \ SellOrders

(* SUBMITTED, PENDING, PARTIAL_FILLED, PENDING_CANCEL and PENDING_REPLACE  *)
(* are told apart by no transaction here: they are one status, PENDING.    *)
(* REPLACED is treated everywhere as CANCELED is.                          *)
OpenStatuses == {"CREATED", "PENDING", "UNKNOWN"}
TerminalStatuses == {"FILLED", "CANCELED", "REJECTED"}

Open == {o \in Orders : status[o] \in OpenStatuses}
Closed == {o \in Orders : status[o] \in TerminalStatuses}

(* Mutant: orders of unknown status are not asked about again.             *)
TrackedForgetsUnknown == {o \in Open : bid[o] /\ status[o] # "UNKNOWN"}

(* The rows open_orders() returns that carry a broker order id: the only   *)
(* ones the monitor and the reconciliation ask the broker about.           *)
Tracked == {o \in Open : bid[o]}

(* INSERT OR IGNORE with status CREATED.                                   *)
ReserveOrder(o, n) ==
  /\ status[o] = "NONE"
  /\ status' = [status EXCEPT ![o] = "CREATED"]
  /\ ordered' = [ordered EXCEPT ![o] = n]
  /\ UNCHANGED <<filled, bid, applied, qty>>

(* Mutants: a late receipt reopens a terminal row; an old receipt takes    *)
(* fills back.                                                             *)
ConflictsReopens(o, s, f) == f < filled[o] \/ f > ordered[o]
ConflictsRegresses(o, s, f) ==
  (status[o] \in TerminalStatuses /\ s # status[o]) \/ f > ordered[o]

(* update_order raises StateConflictError and writes nothing.              *)
Conflicts(o, s, f) ==
  \/ status[o] \in TerminalStatuses /\ s # status[o]
  \/ f < filled[o]
  \/ f > ordered[o]

(* update_order with a status, a cumulative filled quantity, and a broker  *)
(* order id when the caller has one.                                       *)
UpdateOrder(o, s, f, known) ==
  /\ ~Conflicts(o, s, f)
  /\ status' = [status EXCEPT ![o] = s]
  /\ filled' = [filled EXCEPT ![o] = f]
  /\ bid' = [bid EXCEPT ![o] = @ \/ known]
  /\ UNCHANGED <<ordered, applied, qty>>

(* Shares ordered, or filled but not yet in the position.                  *)
CommittedBuy ==
  LET share == [o \in BuyOrders |->
                  (IF o \in Open THEN ordered[o] ELSE filled[o]) - applied[o]]
  IN  FoldFunction(+, 0, share)

(* apply_core_fill: move the cumulative fill of an order that the position *)
(* has not seen yet into the position, and remember how much it has seen.  *)
Delta(o) == filled[o] - applied[o]
ApplyRaises(o) == \/ Delta(o) < 0
                  \/ o \in SellOrders /\ Delta(o) > qty

(* Mutant: the whole cumulative fill is credited again.                    *)
ApplyWholeFill(o) ==
  /\ ~ApplyRaises(o)
  /\ applied' = [applied EXCEPT ![o] = filled[o]]
  /\ qty' = IF o \in SellOrders THEN qty - filled[o] ELSE qty + filled[o]
  /\ UNCHANGED <<status, ordered, filled, bid>>

ApplyCoreFill(o) ==
  /\ ~ApplyRaises(o)
  /\ applied' = [applied EXCEPT ![o] = filled[o]]
  /\ qty' = IF o \in SellOrders THEN qty - Delta(o) ELSE qty + Delta(o)
  /\ UNCHANGED <<status, ordered, filled, bid>>

(* unapplied_core_fill_order_ids.                                          *)
Unapplied == {o \in Orders : filled[o] > 0 /\ filled[o] # applied[o]}

LedgerTypeOK ==
  /\ status \in [Orders -> OpenStatuses \cup TerminalStatuses \cup {"NONE"}]
  /\ ordered \in [Orders -> 0..MaxQty]
  /\ filled \in [Orders -> 0..MaxQty]
  /\ bid \in [Orders -> BOOLEAN]
  /\ applied \in [Orders -> 0..MaxQty]
  /\ qty \in Nat
=============================================================================
