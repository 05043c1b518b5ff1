-------------------------- MODULE OrderFlow_proofs --------------------------
(***************************************************************************)
(* The inductive invariant IInv of OrderFlow, and the safety properties    *)
(* that follow from it, for every set of orders, size bound, target and    *)
(* number of crashes.                                                      *)
(*                                                                         *)
(* Every step of Next does one of a few things to the ledger and the       *)
(* broker (LedgerStep).  LedgerKept shows that each of them keeps the      *)
(* facts about rows, Aging that it keeps what a receipt says of its order; *)
(* the lemmas after them follow the threads.  The last part adds ShareInv, *)
(* about the sums over the orders of each side.                            *)
(***************************************************************************)
EXTENDS OrderFlow, Totals

LedgerInv ==
  LedgerTypeOK /\ BrokerTypeOK /\ FillChain /\ TerminalTruth /\ NeverForgotten /\ RowInv

(* A row is updated with something the broker has said of the order, or    *)
(* closed for a misread answer.                                            *)
TrueUpdate(o, s, f, known) ==
  /\ status[o] # "NONE"
  /\ s \in {"PENDING", "UNKNOWN"} \cup TerminalStatuses
  /\ f \in 0..MaxQty /\ f <= bfilled[o] /\ known \in BOOLEAN
  /\ bid[o] \/ known => bstate[o] \notin {"none", "sent"}
  /\ s = "REJECTED" => bstate[o] = "none" \/ o \in misread
  /\ o \in misread => s = "REJECTED" /\ f = 0 /\ ~known
  /\ s \in {"FILLED", "CANCELED"} =>
       (bid[o] \/ known) /\ s = bstate[o] /\ f = bfilled[o]
  /\ UpdateOrder(o, s, f, known) /\ UNCHANGED broker

(* An order is POSTed for the first time, its answer misread perhaps.      *)
FirstPost(o, b) ==
  /\ status[o] = "CREATED" /\ posts[o] = 0 /\ b \in {"none", "sent", "open"}
  /\ posts' = [posts EXCEPT ![o] = @ + 1]
  /\ bstate' = [bstate EXCEPT ![o] = b]
  /\ misread' \in {misread, misread \cup {o}}
  /\ b = "none" => misread' = misread
  /\ UNCHANGED <<ledger, bfilled, held>>

LedgerStep ==
  \/ \E o \in Orders : \E s, f, known : TrueUpdate(o, s, f, known)
  \/ \E o \in Orders : ApplyCoreFill(o) /\ UNCHANGED broker
  \/ \E o \in Orders : \E n \in 1..MaxQty : ReserveOrder(o, n) /\ UNCHANGED broker
  \/ \E o \in Orders : \E b : FirstPost(o, b)
  \/ \E o \in Orders : BrokerAccept(o) \/ BrokerFill(o) \/ BrokerClose(o)
  \/ UNCHANGED <<ledger, broker>>

-----------------------------------------------------------------------------
(* What each of them does to the rows.                                     *)

LEMMA UpdateKept ==
  ASSUME LedgerInv, NEW o \in Orders, NEW s, NEW f, NEW known,
         TrueUpdate(o, s, f, known)
  PROVE  LedgerInv'
<1> USE DEF LedgerInv, TrueUpdate, UpdateOrder, broker
<1>1. LedgerTypeOK' /\ BrokerTypeOK'
  BY DEF LedgerTypeOK, BrokerTypeOK, OpenStatuses, TerminalStatuses
<1>2. FillChain'
  BY DEF FillChain, LedgerTypeOK, BrokerTypeOK, Conflicts
<1>3. TerminalTruth'
  BY DEF TerminalTruth, Disowned, RowInv, Closed, LedgerTypeOK, BrokerTypeOK, TerminalStatuses
<1>4. NeverForgotten'
  BY DEF NeverForgotten, TerminalTruth, Disowned, RowInv, Open, LedgerTypeOK, BrokerTypeOK,
         OpenStatuses, TerminalStatuses
<1>5. RowInv'
  BY DEF RowInv, LedgerTypeOK, BrokerTypeOK, TerminalStatuses
<1>6. QED BY <1>1, <1>2, <1>3, <1>4, <1>5

LEMMA ApplyKept ==
  ASSUME LedgerInv, NEW o \in Orders, ApplyCoreFill(o), UNCHANGED broker
  PROVE  LedgerInv'
<1> USE DEF LedgerInv, ApplyCoreFill, broker
<1>1. LedgerTypeOK' /\ BrokerTypeOK'
  BY DEF LedgerTypeOK, BrokerTypeOK, ApplyRaises, Delta
<1>2. FillChain'
  BY DEF FillChain, LedgerTypeOK, BrokerTypeOK
<1>3. TerminalTruth' /\ NeverForgotten'
  BY DEF TerminalTruth, NeverForgotten, Disowned, Open, Closed
<1>4. RowInv'
  BY DEF RowInv, LedgerTypeOK, BrokerTypeOK
<1>5. QED BY <1>1, <1>2, <1>3, <1>4

LEMMA ReserveKept ==
  ASSUME LedgerInv, NEW o \in Orders, NEW n \in 1..MaxQty,
         ReserveOrder(o, n), UNCHANGED broker
  PROVE  LedgerInv'
<1> USE MaxQtyAssumption DEF LedgerInv, ReserveOrder, broker
<1>1. LedgerTypeOK' /\ BrokerTypeOK'
  BY DEF LedgerTypeOK, BrokerTypeOK, OpenStatuses
<1>2. FillChain'
  BY DEF FillChain, RowInv, LedgerTypeOK, BrokerTypeOK
<1>3. TerminalTruth' /\ NeverForgotten'
  BY DEF TerminalTruth, NeverForgotten, Disowned, Open, Closed, LedgerTypeOK, BrokerTypeOK,
         OpenStatuses, TerminalStatuses
<1>4. RowInv'
  BY DEF RowInv, LedgerTypeOK, BrokerTypeOK
<1>5. QED BY <1>1, <1>2, <1>3, <1>4

LEMMA PostKept ==
  ASSUME LedgerInv, NEW o \in Orders, NEW b, FirstPost(o, b)
  PROVE  LedgerInv'
<1> USE DEF LedgerInv, FirstPost, ledger
<1>1. LedgerTypeOK' /\ BrokerTypeOK'
  BY DEF LedgerTypeOK, BrokerTypeOK
<1>2. FillChain'
  BY DEF FillChain
<1>3. TerminalTruth' /\ NeverForgotten'
  BY DEF TerminalTruth, NeverForgotten, Disowned, Open, Closed, LedgerTypeOK, BrokerTypeOK,
         OpenStatuses, TerminalStatuses
<1>4. RowInv'
  <2>1. ~bid[o] /\ filled[o] = 0
    BY DEF FillChain, RowInv, LedgerTypeOK, BrokerTypeOK
  <2>2. QED BY <2>1 DEF RowInv, LedgerTypeOK, BrokerTypeOK
<1>5. QED BY <1>1, <1>2, <1>3, <1>4

LEMMA BrokerKept ==
  ASSUME LedgerInv, NEW o \in Orders,
         BrokerAccept(o) \/ BrokerFill(o) \/ BrokerClose(o)
  PROVE  LedgerInv'
<1> USE DEF LedgerInv, BrokerAccept, BrokerFill, BrokerClose, ledger
<1>1. LedgerTypeOK' /\ BrokerTypeOK'
  BY DEF LedgerTypeOK, BrokerTypeOK
<1>2. FillChain'
  BY DEF FillChain, RowInv, LedgerTypeOK, BrokerTypeOK
<1>3. TerminalTruth' /\ NeverForgotten'
  BY DEF TerminalTruth, NeverForgotten, Disowned, Open, Closed, LedgerTypeOK, BrokerTypeOK,
         OpenStatuses, TerminalStatuses
<1>4. RowInv'
  BY DEF RowInv, FillChain, LedgerTypeOK, BrokerTypeOK
<1>5. QED BY <1>1, <1>2, <1>3, <1>4

(* The facts about rows survive every step of ledger and broker.           *)
LEMMA LedgerKept == LedgerInv /\ LedgerStep => LedgerInv'
<1>1. ASSUME LedgerInv, UNCHANGED <<ledger, broker>> PROVE LedgerInv'
  BY <1>1 DEF LedgerInv, ledger, broker, LedgerTypeOK, BrokerTypeOK, FillChain,
              TerminalTruth, NeverForgotten, Disowned, RowInv, Open, Closed
<1>2. QED
  BY <1>1, UpdateKept, ApplyKept, ReserveKept, PostKept, BrokerKept DEF LedgerStep

-----------------------------------------------------------------------------
(* What each of them leaves true of a receipt, and of the open rows.       *)

(* A receipt that fitted its order goes on fitting it; a row keeps the     *)
(* broker's order id.                                                      *)
LEMMA Aging ==
  ASSUME LedgerInv, LedgerStep, NEW o \in Orders, bid[o]
  PROVE  bid'[o] /\ \A r : Fits(r, o) => Fits(r, o)'
<1> USE DEF LedgerInv, Fits
<1>1. ASSUME NEW p \in Orders, NEW s, NEW f, NEW known, TrueUpdate(p, s, f, known)
      PROVE  bid'[o] /\ UNCHANGED broker
  BY <1>1 DEF TrueUpdate, UpdateOrder, LedgerTypeOK
<1>2. ASSUME NEW p \in Orders, ApplyCoreFill(p) PROVE UNCHANGED bid
  BY <1>2 DEF ApplyCoreFill
<1>3. ASSUME NEW p \in Orders, NEW n, ReserveOrder(p, n) PROVE UNCHANGED bid
  BY <1>3 DEF ReserveOrder
<1>4. ASSUME NEW p \in Orders, NEW b, FirstPost(p, b)
      PROVE  UNCHANGED bid /\ UNCHANGED bfilled /\ bstate'[o] = bstate[o]
  BY <1>4 DEF FirstPost, ledger, RowInv, LedgerTypeOK, BrokerTypeOK
<1>5. ASSUME NEW p \in Orders, BrokerAccept(p) \/ BrokerFill(p) \/ BrokerClose(p)
      PROVE  /\ UNCHANGED bid
             /\ bfilled[o] <= bfilled'[o]
             /\ bstate[o] \in TerminalStatuses =>
                  bstate'[o] = bstate[o] /\ bfilled'[o] = bfilled[o]
  BY <1>5 DEF BrokerAccept, BrokerFill, BrokerClose, ledger, BrokerTypeOK,
              TerminalStatuses
<1>6. /\ bid'[o]
      /\ bfilled[o] <= bfilled'[o]
      /\ bstate[o] \in TerminalStatuses =>
           bstate'[o] = bstate[o] /\ bfilled'[o] = bfilled[o]
  BY <1>1, <1>2, <1>3, <1>4, <1>5 DEF LedgerStep, ledger, broker, BrokerTypeOK
<1>7. bfilled[o] \in Int /\ bfilled'[o] \in Int
  BY LedgerKept DEF BrokerTypeOK
<1>8. ASSUME NEW r, Fits(r, o) PROVE Fits(r, o)'
  <2>1. r.filled \in Int
    BY <1>8, MaxQtyAssumption DEF Receipts
  <2>2. QED BY <1>6, <1>7, <1>8, <2>1
<1>9. QED BY <1>6, <1>8

(* Terminal rows do not change, and only a reservation opens a row.        *)
LEMMA Settling ==
  ASSUME LedgerInv, LedgerStep
  PROVE  /\ \A o \in Closed : status'[o] = status[o] /\ filled'[o] = filled[o]
         /\ Open' \subseteq Open \cup {o \in Orders : status[o] = "NONE"}
<1> USE DEF LedgerInv, Open, Closed
<1>1. ASSUME NEW o \in Orders, NEW s, NEW f, NEW known, TrueUpdate(o, s, f, known)
      PROVE  /\ \A p \in Closed : status'[p] = status[p] /\ filled'[p] = filled[p]
             /\ Open' \subseteq Open
  <2>1. o \in Closed => f = filled[o]
    <3>1. f \in Nat /\ filled[o] \in Nat /\ bfilled[o] \in Nat
      BY <1>1, MaxQtyAssumption DEF TrueUpdate, LedgerTypeOK, BrokerTypeOK
    <3>2. f >= filled[o] /\ f <= bfilled[o]
      BY <1>1, <3>1 DEF TrueUpdate, UpdateOrder, Conflicts
    <3>3. o \in misread => f = 0
      BY <1>1 DEF TrueUpdate
    <3>4. o \in Closed /\ o \notin misread => bfilled[o] = filled[o] \/ bfilled[o] = 0
      BY DEF TerminalTruth, Disowned
    <3>5. QED BY <3>1, <3>2, <3>3, <3>4
  <2>2. QED
    BY <1>1, <2>1 DEF TrueUpdate, UpdateOrder, Conflicts, LedgerTypeOK, OpenStatuses,
                      TerminalStatuses
<1>2. ASSUME NEW o \in Orders, NEW n \in 1..MaxQty, ReserveOrder(o, n)
      PROVE  /\ \A p \in Closed : status'[p] = status[p] /\ filled'[p] = filled[p]
             /\ Open' \subseteq Open \cup {o}
  BY <1>2 DEF ReserveOrder, LedgerTypeOK, OpenStatuses, TerminalStatuses
<1>3. QED
  BY <1>1, <1>2 DEF LedgerStep, ReserveOrder, ApplyCoreFill, FirstPost, BrokerAccept, BrokerFill,
              BrokerClose, ledger

-----------------------------------------------------------------------------
(* Every action is one of these steps.                                     *)

LEMMA InvSplit == IInv => LedgerInv /\ FlagsTypeOK /\ LocalsTypeOK
BY DEF IInv, LedgerInv, TypeOK

(* A receipt that fits its order may be stored.                            *)
LEMMA StoreIsTrue ==
  ASSUME LedgerInv, NEW o \in Orders, NEW r, bid[o], Fits(r, o),
         UpdateOrder(o, r.status, r.filled, TRUE), UNCHANGED broker
  PROVE  LedgerStep
<1>1. TrueUpdate(o, r.status, r.filled, TRUE)
  BY DEF LedgerInv, Fits, Receipts, TrueUpdate, RowInv, TerminalStatuses
<1>2. QED BY <1>1 DEF LedgerStep

(* So may UNKNOWN, in any row but a misread one.                           *)
LEMMA UnknownIsTrue ==
  ASSUME LedgerInv, NEW o \in Orders, status[o] # "NONE", o \notin misread,
         UpdateOrder(o, "UNKNOWN", filled[o], FALSE), UNCHANGED broker
  PROVE  LedgerStep
<1>1. TrueUpdate(o, "UNKNOWN", filled[o], FALSE)
  BY DEF LedgerInv, TrueUpdate, RowInv, FillChain, LedgerTypeOK, TerminalStatuses
<1>2. QED BY <1>1 DEF LedgerStep

LEMMA MonitorStep ==
  ASSUME IInv, NEW t \in Threads, Monitor(t)
  PROVE  LedgerStep
<1> USE InvSplit
<1>1. CASE \/ MonStart(t) \/ MonDone(t) \/ MonStaleCancel(t) \/ MonExpiredCancel(t)
           \/ MonSettle(t) \/ \E o \in Orders : MonGet(t, o)
  BY <1>1 DEF MonStart, MonDone, MonStaleCancel, MonExpiredCancel, MonSettle, MonGet,
              LedgerStep
<1>2. CASE MonStore(t) \/ MonCancelStore(t)
  <2>1. ord[t] \in Orders /\ bid[ord[t]] /\ Fits(rcpt[t], ord[t])
    BY <1>2 DEF MonStore, MonCancelStore, At, IInv, ReceiptInv, Holding
  <2>2. QED
    BY <1>2, <2>1, StoreIsTrue DEF MonStore, MonCancelStore, LedgerStep
<1>3. CASE MonApply(t)
  <2>1. ord[t] \in Orders
    BY <1>3 DEF MonApply, IInv, ReceiptInv, Holding
  <2>2. QED
    BY <1>3, <2>1 DEF MonApply, LedgerStep
<1>4. CASE MonCancelGet(t)
  <2>1. ord[t] \in Orders /\ status[ord[t]] # "NONE" /\ ord[t] \notin misread
    BY <1>4 DEF MonCancelGet, IInv, ReceiptInv, RowInv, Holding
  <2>2. QED
    BY <1>4, <2>1, UnknownIsTrue DEF MonCancelGet, LedgerStep
<1>5. CASE \E o \in Orders : MonGetFails(t, o)
  <2>1. PICK o \in Orders : MonGetFails(t, o)
    BY <1>5
  <2>2. status[o] # "NONE" /\ o \notin misread
    BY <2>1 DEF MonGetFails, IInv, ReceiptInv, RowInv
  <2>3. QED
    BY <2>1, <2>2, UnknownIsTrue DEF MonGetFails, LedgerStep
<1>6. QED
  BY <1>1, <1>2, <1>3, <1>4, <1>5 DEF Monitor

LEMMA ReconcileStep ==
  ASSUME IInv, NEW t \in Threads, Reconcile(t)
  PROVE  LedgerStep
<1> USE InvSplit
<1>1. CASE \/ RecRead(t) \/ RecList(t) \/ RecJudge(t) \/ RecHoldings(t) \/ RecCompare(t)
           \/ \E o \in Orders : RecGet(t, o)
  BY <1>1 DEF RecRead, RecList, RecJudge, RecHoldings, RecCompare, RecGet, LedgerStep
<1>2. CASE RecStore(t)
  <2>1. ord[t] \in Orders /\ bid[ord[t]] /\ Fits(rcpt[t], ord[t])
    BY <1>2 DEF RecStore, At, IInv, ReceiptInv, Holding
  <2>2. QED
    BY <1>2, <2>1, StoreIsTrue DEF RecStore, LedgerStep
<1>3. CASE RecApply(t)
  <2>1. ord[t] \in Orders
    BY <1>3 DEF RecApply, At, IInv, ReceiptInv, Holding
  <2>2. QED
    BY <1>3, <2>1 DEF RecApply, LedgerStep
<1>4. QED
  BY <1>1, <1>2, <1>3 DEF Reconcile

LEMMA TradeStep ==
  ASSUME IInv, NEW t \in Threads, Trade(t)
  PROVE  LedgerStep
<1> USE InvSplit
<1> DEFINE o == ord[t]
<1>1. pc[t] \in Trading => o \in Orders /\ status[o] = "CREATED"
  BY DEF IInv, ThreadInv, TradingOK
<1>2. CASE \/ Quarantine(t) \/ TryRelease(t) \/ TradeSkip(t) \/ BuyPrecheck(t)
           \/ BuyReserveFails(t) \/ Escalate(t) \/ AllocReconcile(t)
  BY <1>2 DEF Quarantine, TryRelease, TradeSkip, BuyPrecheck, BuyReserveFails, Escalate,
              AllocReconcile, LedgerStep
<1>3. CASE \E p \in Orders : BuyReserve(t, p) \/ SellSubmit(t, p) \/ SellAgain(t, p)
  BY <1>3 DEF BuyReserve, SellSubmit, SellAgain, LedgerStep
<1>4. CASE BuyGate(t)
  <2>1. o \in Orders /\ status[o] = "CREATED" /\ posts[o] = 0 /\ o \notin misread
    BY <1>1, <1>4 DEF BuyGate, At, Trading, IInv, ThreadInv, TradingOK, RowInv
  <2>2. ASSUME UpdateOrder(o, "REJECTED", filled[o], FALSE), UNCHANGED broker
        PROVE  LedgerStep
    <3>1. TrueUpdate(o, "REJECTED", filled[o], FALSE)
      BY <2>1, <2>2 DEF LedgerInv, TrueUpdate, RowInv, FillChain, LedgerTypeOK,
                        TerminalStatuses
    <3>2. QED BY <2>1, <3>1 DEF LedgerStep
  <2>3. QED
    BY <1>4, <2>1, <2>2, UnknownIsTrue DEF BuyGate, LedgerStep
<1>5. CASE Post(t)
  <2>1. o \in Orders /\ status[o] = "CREATED" /\ posts[o] = 0
    BY <1>1, <1>5 DEF Post, At, Trading, IInv, ThreadInv, TradingOK
  <2>2. \E b : FirstPost(o, b)
    BY <1>5, <2>1 DEF Post, FirstPost, LedgerInv, RowInv, BrokerTypeOK
  <2>3. QED BY <2>1, <2>2 DEF LedgerStep
<1>6. CASE RecordPost(t)
  <2>1. o \in Orders /\ status[o] = "CREATED" /\ UNCHANGED broker
    BY <1>1, <1>6 DEF RecordPost, At, Trading
  <2>2. ASSUME At(t, "record"), UpdateOrder(o, "PENDING", 0, TRUE) PROVE LedgerStep
    <3>1. bstate[o] \notin {"none", "sent"} /\ o \notin misread
      BY <2>2 DEF At, Trading, IInv, ThreadInv, TradingOK
    <3>2. 0 \in 0..MaxQty /\ 0 <= bfilled[o]
      BY <2>1, MaxQtyAssumption DEF LedgerInv, BrokerTypeOK
    <3>3. TrueUpdate(o, "PENDING", 0, TRUE)
      BY <2>1, <2>2, <3>1, <3>2 DEF TrueUpdate, TerminalStatuses
    <3>4. QED BY <2>1, <3>3 DEF LedgerStep
  <2>3. ASSUME At(t, "unknown"), UpdateOrder(o, "UNKNOWN", filled[o], FALSE)
        PROVE  LedgerStep
    <3>1. o \notin misread
      BY <2>3 DEF At, Trading, IInv, ThreadInv, TradingOK
    <3>2. QED BY <2>1, <2>3, <3>1, UnknownIsTrue
  <2>4. ASSUME At(t, "refused"), UpdateOrder(o, "REJECTED", filled[o], FALSE)
        PROVE  LedgerStep
    <3>1. bstate[o] = "none" \/ o \in misread
      BY <2>4 DEF At, Trading, IInv, ThreadInv, TradingOK
    <3>2. TrueUpdate(o, "REJECTED", filled[o], FALSE)
      BY <2>1, <2>4, <3>1 DEF LedgerInv, TrueUpdate, RowInv, FillChain, LedgerTypeOK,
                              TerminalStatuses
    <3>3. QED BY <2>1, <3>2 DEF LedgerStep
  <2>5. QED
    BY <1>6, <2>2, <2>3, <2>4 DEF RecordPost
<1>7. QED
  BY <1>2, <1>3, <1>4, <1>5, <1>6 DEF Trade

LEMMA NextStep == IInv /\ Next => LedgerStep
<1>1. ASSUME NEW t \in Threads, Operate(t) PROVE LedgerStep
  BY <1>1 DEF Operate, OperHalt, ResumeStart, ResumeClear, ResumeReopen, LedgerStep
<1>2. ASSUME NEW t \in Threads, Restart(t) PROVE LedgerStep
  BY <1>2 DEF Restart, Start, RecoverDone, Recover, LedgerStep
<1>3. ASSUME Broker PROVE LedgerStep
  BY <1>3 DEF Broker, LedgerStep
<1>4. ASSUME Crash PROVE LedgerStep
  BY <1>4 DEF Crash, LedgerStep
<1>5. QED
  BY <1>1, <1>2, <1>3, <1>4, MonitorStep, ReconcileStep, TradeStep DEF Next, Step

-----------------------------------------------------------------------------
(* The types of the flags and of the threads' locals.                      *)

LEMMA FlagsKept == IInv /\ Next => FlagsTypeOK'
<1> SUFFICES ASSUME IInv, Next PROVE FlagsTypeOK'
  OBVIOUS
<1> USE InvSplit, QtyAssumption DEF FlagsTypeOK, flags, EnterSafeMode
<1>1. ASSUME NEW t \in Threads, Monitor(t) PROVE FlagsTypeOK'
  BY <1>1 DEF Monitor, MonStart, MonDone, MonStore, MonStaleCancel, MonCancelGet,
              MonCancelStore, MonApply, MonExpiredCancel, MonSettle, MonGet, MonGetFails
<1>2. ASSUME NEW t \in Threads, Reconcile(t) PROVE FlagsTypeOK'
  BY <1>2 DEF Reconcile, RecRead, RecList, RecStore, RecApply, RecJudge, RecHoldings,
              RecCompare, RecGet
<1>3. ASSUME NEW t \in Threads, Trade(t) PROVE FlagsTypeOK'
  BY <1>3 DEF Trade, Quarantine, TryRelease, TradeSkip, BuyPrecheck, BuyReserveFails,
              BuyGate, Post, RecordPost, Escalate, AllocReconcile, BuyReserve, SellSubmit,
              SellAgain
<1>4. ASSUME NEW t \in Threads, Operate(t) \/ Restart(t) PROVE FlagsTypeOK'
  BY <1>4 DEF Operate, OperHalt, ResumeStart, ResumeClear, ResumeReopen, Restart, Start,
              RecoverDone, Recover
<1>5. ASSUME Broker \/ Crash PROVE FlagsTypeOK'
  BY <1>5 DEF Broker, BrokerAccept, BrokerFill, BrokerClose, Crash
<1>6. QED
  BY <1>1, <1>2, <1>3, <1>4, <1>5 DEF Next, Step

LEMMA ForgetTyped ==
  ASSUME LocalsTypeOK, NEW t \in Threads, Forget(t)
  PROVE  /\ ord' \in [Threads -> Orders \cup {NoOrder}]
         /\ rcpt' \in [Threads -> Receipts \cup {NoReceipt}]
         /\ todo' \in [Threads -> SUBSET Orders]
         /\ seen' \in [Threads -> [Orders -> 0..MaxQty]]
         /\ snap' \in [Threads -> [Orders -> Receipts \cup Unasked]]
         /\ hold' \in [Threads -> Int]
         /\ fresh' \in [Threads -> [buy : Nat, sell : Nat]]
BY MaxQtyAssumption DEF LocalsTypeOK, Forget, None, Unasked, NoHold, NoFresh

LEMMA LeaveTyped ==
  ASSUME LocalsTypeOK, NEW t \in Threads, NEW l \in Labels, Leave(t, l)
  PROVE  LocalsTypeOK'
BY ForgetTyped DEF LocalsTypeOK, Leave, Goto

LEMMA MoveTyped ==
  ASSUME LocalsTypeOK, NEW t \in Threads, NEW l \in Labels, Move(t, l)
  PROVE  LocalsTypeOK'
BY DEF LocalsTypeOK, Move, Goto

LEMMA MonMovesTyped ==
  ASSUME LocalsTypeOK, NEW t \in Threads, MonRaise(t) \/ MonNext(t)
  PROVE  LocalsTypeOK'
<1>1. CASE MonRaise(t)
  BY <1>1, ForgetTyped DEF LocalsTypeOK, MonRaise, Goto, Labels
<1>2. CASE MonNext(t)
  BY <1>2 DEF LocalsTypeOK, MonNext, Goto, Labels
<1>3. QED BY <1>1, <1>2

(* What the broker may report is a receipt, and fits its order.            *)
LEMMA ReportFits ==
  ASSUME IInv, NEW o \in Orders, bid[o], NEW r \in Report(o)
  PROVE  r \in Receipts /\ Fits(r, o)
<1> USE InvSplit DEF LedgerInv, LedgerTypeOK, BrokerTypeOK
<1>1. bstate[o] \in {"open", "FILLED", "CANCELED"}
  BY DEF RowInv
<1>2. bfilled[o] \in 0..MaxQty
  BY MaxQtyAssumption DEF FillChain
<1>3. QED
  BY <1>1, <1>2 DEF Report, Visible, Receipts, Fits, TerminalStatuses

LEMMA MonitorTyped ==
  ASSUME IInv, NEW t \in Threads, Monitor(t)
  PROVE  LocalsTypeOK'
<1> USE InvSplit
<1>1. CASE MonStart(t)
  BY <1>1 DEF MonStart, LocalsTypeOK, LedgerInv, LedgerTypeOK, Goto, Labels, Tracked, Open
<1>2. CASE MonDone(t)
  BY <1>2, LeaveTyped DEF MonDone, Labels
<1>3. CASE MonStore(t)
  BY <1>3, MoveTyped, MonMovesTyped DEF MonStore, Labels
<1>4. CASE MonStaleCancel(t)
  BY <1>4, MoveTyped, MonMovesTyped DEF MonStaleCancel, Labels
<1>5. CASE MonCancelGet(t)
  <2>1. ord[t] \in Orders /\ bid[ord[t]]
    BY <1>5 DEF MonCancelGet, IInv, ReceiptInv, Holding
  <2>2. CASE MonNext(t)
    BY <2>2, MonMovesTyped
  <2>3. CASE /\ \E r \in Report(ord[t]) : rcpt' = [rcpt EXCEPT ![t] = r]
             /\ Goto(t, IF At(t, "sGet") THEN "sStore" ELSE "xStore")
             /\ UNCHANGED <<ledger, flags, cont, ord, todo, seen, snap, hold, fresh, clean>>
    BY <2>1, <2>3, ReportFits DEF LocalsTypeOK, Goto, Labels
  <2>4. QED BY <1>5, <2>2, <2>3 DEF MonCancelGet
<1>6. CASE MonCancelStore(t)
  BY <1>6, MoveTyped, MonMovesTyped DEF MonCancelStore, Labels
<1>7. CASE MonApply(t)
  BY <1>7, MoveTyped, MonMovesTyped DEF MonApply, Labels
<1>8. CASE MonExpiredCancel(t)
  <2>1. ord[t] \in Orders /\ rcpt[t].filled \in 0..MaxQty
    BY <1>8 DEF MonExpiredCancel, At, IInv, ReceiptInv, Holding, Fits, Receipts
  <2>2. CASE MonNext(t)
    BY <2>2, MonMovesTyped
  <2>3. CASE /\ seen' = [seen EXCEPT ![t][ord[t]] = rcpt[t].filled]
             /\ Goto(t, "xGet")
             /\ UNCHANGED <<flags, cont, ord, rcpt, todo, snap, hold, fresh, clean>>
    BY <2>1, <2>3 DEF LocalsTypeOK, Goto, Labels
  <2>4. QED BY <1>8, <2>2, <2>3 DEF MonExpiredCancel
<1>9. CASE MonSettle(t)
  BY <1>9, MonMovesTyped DEF MonSettle
<1>10. CASE \E o \in Orders : MonGet(t, o)
  <2>1. PICK o \in Orders : MonGet(t, o)
    BY <1>10
  <2>2. bid[o]
    BY <2>1 DEF MonGet, IInv, ReceiptInv
  <2>3. QED
    BY <2>1, <2>2, ReportFits DEF MonGet, LocalsTypeOK, Goto, Labels
<1>11. CASE \E o \in Orders : MonGetFails(t, o)
  BY <1>11, MonMovesTyped DEF MonGetFails
<1>12. QED
  BY <1>1, <1>2, <1>3, <1>4, <1>5, <1>6, <1>7, <1>8, <1>9, <1>10, <1>11 DEF Monitor

LEMMA RecRaiseTyped ==
  ASSUME LocalsTypeOK, NEW t \in Threads, RecRaise(t)
  PROVE  LocalsTypeOK'
BY LeaveTyped DEF RecRaise, Labels

(* What the read-ahead finds are receipts that fit their orders.           *)
LEMMA ReadAheadFits ==
  ASSUME IInv, NEW o \in Tracked, NEW odd
  PROVE  LET r == [status |-> IF o \in odd THEN "UNKNOWN" ELSE Visible(o),
                   filled |-> bfilled[o]]
         IN  r \in Receipts /\ Fits(r, o)
BY ReportFits DEF Report, Tracked, Open

LEMMA ReconcileTyped ==
  ASSUME IInv, NEW t \in Threads, Reconcile(t)
  PROVE  LocalsTypeOK'
<1> USE InvSplit
<1>1. CASE RecRead(t)
  <2>1. ASSUME NEW odd \in SUBSET Tracked,
               snap' = [snap EXCEPT ![t] = [o \in Orders |->
                 IF o \notin Tracked
                 THEN IF bstate[o] = "open" THEN Listed ELSE Unlisted
                 ELSE [status |-> IF o \in odd THEN "UNKNOWN" ELSE Visible(o),
                       filled |-> bfilled[o]]]]
        PROVE  snap' \in [Threads -> [Orders -> Receipts \cup Unasked]]
    BY <2>1, ReadAheadFits DEF LocalsTypeOK, Unasked
  <2>2. CASE \E odd \in SUBSET Tracked :
               /\ snap' = [snap EXCEPT ![t] = [o \in Orders |->
                    IF o \notin Tracked
                    THEN IF bstate[o] = "open" THEN Listed ELSE Unlisted
                    ELSE [status |-> IF o \in odd THEN "UNKNOWN" ELSE Visible(o),
                          filled |-> bfilled[o]]]]
               /\ hold' = [hold EXCEPT ![t] = held]
               /\ RecStep(t, "rList") /\ UNCHANGED <<ord, rcpt, todo, seen, fresh>>
    <3>1. snap' \in [Threads -> [Orders -> Receipts \cup Unasked]]
      BY <2>1, <2>2
    <3>2. held \in Int /\ "rList" \in Labels
      BY DEF LedgerInv, BrokerTypeOK, Labels
    <3>3. pc' = [pc EXCEPT ![t] = "rList"] /\ hold' = [hold EXCEPT ![t] = held]
      BY <2>2 DEF RecStep, Goto
    <3>4. pc' \in [Threads -> Labels] /\ hold' \in [Threads -> Int]
      BY <3>2, <3>3 DEF LocalsTypeOK
    <3>5. UNCHANGED <<cont, clean, ord, rcpt, todo, seen, fresh>>
      BY <2>2 DEF RecStep
    <3>6. QED
      BY <3>1, <3>4, <3>5 DEF LocalsTypeOK
  <2>3. QED
    BY <1>1, <2>2, MoveTyped, LeaveTyped, RecRaiseTyped DEF RecRead, Labels
<1>2. CASE RecList(t)
  BY <1>2 DEF RecList, LocalsTypeOK, LedgerInv, LedgerTypeOK, RecStep, Goto, Labels,
              Tracked, Open
<1>3. CASE \E o \in Orders : RecGet(t, o)
  <2>1. PICK o \in Orders : RecGet(t, o)
    BY <1>3
  <2>2. CASE RecRaise(t)
    BY <2>2, RecRaiseTyped
  <2>3. CASE ~RecRaise(t)
    <3>1. bid[o]
      BY <2>1 DEF RecGet, IInv, ReceiptInv
    <3>2. \A r \in (IF snap[t][o] \in Unasked THEN Report(o) ELSE {snap[t][o]}) :
            r \in Receipts
      BY <3>1, ReportFits DEF LocalsTypeOK
    <3>3. PICK r \in Receipts : rcpt' = [rcpt EXCEPT ![t] = r]
      BY <2>1, <2>3, <3>2 DEF RecGet
    <3>4. /\ ord' = [ord EXCEPT ![t] = o] /\ todo' = [todo EXCEPT ![t] = @ \ {o}]
          /\ RecStep(t, "rStore") /\ UNCHANGED <<flags, seen, snap, hold, fresh>>
      BY <2>1, <2>3 DEF RecGet
    <3>5. "rStore" \in Labels
      BY DEF Labels
    <3>6. QED
      BY <3>3, <3>4, <3>5 DEF LocalsTypeOK, RecStep, Goto
  <2>4. QED BY <2>2, <2>3
<1>4. CASE RecStore(t)
  BY <1>4, MoveTyped, RecRaiseTyped DEF RecStore, Labels
<1>5. CASE RecApply(t)
  BY <1>5, MoveTyped, RecRaiseTyped DEF RecApply, Labels
<1>6. CASE RecJudge(t)
  <2>1. ord[t] \in Orders /\ rcpt[t].filled \in Nat
    BY <1>6, MaxQtyAssumption
       DEF RecJudge, At, IInv, ReceiptInv, Holding, Fits, Receipts
  <2>2. seen[t][ord[t]] \in Nat
    BY <2>1, MaxQtyAssumption DEF LocalsTypeOK
  <2>3. CASE RecRaise(t)
    BY <2>3, RecRaiseTyped
  <2>4. CASE ~RecRaise(t)
    <3> DEFINE new == IF rcpt[t].filled > seen[t][ord[t]]
                      THEN rcpt[t].filled - seen[t][ord[t]] ELSE 0
    <3>1. new \in Nat
      BY <2>1, <2>2
    <3>2. \/ fresh' = [fresh EXCEPT ![t].sell = @ + new]
          \/ fresh' = [fresh EXCEPT ![t].buy = @ + new]
      BY <1>6, <2>4 DEF RecJudge
    <3> HIDE DEF new
    <3>3. fresh' \in [Threads -> [buy : Nat, sell : Nat]]
      <4>1. fresh \in [Threads -> [buy : Nat, sell : Nat]]
        BY DEF LocalsTypeOK
      <4>2. CASE fresh' = [fresh EXCEPT ![t].sell = @ + new]
        BY <3>1, <4>1, <4>2
      <4>3. CASE fresh' = [fresh EXCEPT ![t].buy = @ + new]
        BY <3>1, <4>1, <4>3
      <4>4. QED BY <3>2, <4>2, <4>3
    <3>4. QED
      BY <1>6, <2>4, <3>3 DEF RecJudge, LocalsTypeOK, RecStep, Goto, Labels
  <2>5. QED BY <2>3, <2>4
<1>7. CASE RecHoldings(t)
  <2>1. CASE RecRaise(t)
    BY <2>1, RecRaiseTyped
  <2>2. CASE ~RecRaise(t)
    <3>1. held \in Int /\ "rCompare" \in Labels
      BY DEF LedgerInv, BrokerTypeOK, Labels
    <3>2. hold' = [hold EXCEPT ![t] = IF hold[t] = NoHold THEN held ELSE hold[t]]
      BY <1>7, <2>2 DEF RecHoldings, LocalsTypeOK
    <3>3. QED
      BY <1>7, <2>2, <3>1, <3>2 DEF RecHoldings, LocalsTypeOK, RecStep, Goto
  <2>3. QED BY <2>1, <2>2
<1>8. CASE RecCompare(t)
  <2>1. cont[t] \in {"boot", "cycle", "alloc", "settled", "resume"}
    BY DEF LocalsTypeOK
  <2>2. QED
    BY <1>8, <2>1, LeaveTyped DEF RecCompare, Labels
<1>9. QED
  BY <1>1, <1>2, <1>3, <1>4, <1>5, <1>6, <1>7, <1>8 DEF Reconcile

LEMMA TradeTyped ==
  ASSUME IInv, NEW t \in Threads, Trade(t)
  PROVE  LocalsTypeOK'
<1> USE InvSplit
<1>1. CASE Quarantine(t) \/ TryRelease(t) \/ TradeSkip(t) \/ BuyPrecheck(t) \/ BuyReserveFails(t)
  BY <1>1, MoveTyped, LeaveTyped
     DEF Quarantine, TryRelease, TradeSkip, BuyPrecheck, BuyReserveFails, Labels
<1>2. CASE BuyGate(t) \/ Post(t)
  BY <1>2, MoveTyped DEF BuyGate, Post, Labels
<1>3. CASE RecordPost(t) \/ Escalate(t)
  BY <1>3, MoveTyped, LeaveTyped DEF RecordPost, Escalate, Labels
<1>4. CASE AllocReconcile(t)
  <2>1. PICK c \in {"alloc", "settled"} : cont' = [cont EXCEPT ![t] = c]
    BY <1>4 DEF AllocReconcile
  <2>2. QED
    BY <1>4, <2>1 DEF AllocReconcile, LocalsTypeOK, Goto, Labels
<1>5. CASE \E o \in Orders : BuyReserve(t, o) \/ SellSubmit(t, o) \/ SellAgain(t, o)
  <2>1. PICK o \in Orders : BuyReserve(t, o) \/ SellSubmit(t, o) \/ SellAgain(t, o)
    BY <1>5
  <2>2. \E l \in {"gate", "post", "escalate", "sold"} : Goto(t, l)
    BY <2>1 DEF BuyReserve, SellSubmit, SellAgain
  <2>3. ord' = [ord EXCEPT ![t] = o] \/ UNCHANGED ord
    BY <2>1 DEF BuyReserve, SellSubmit, SellAgain
  <2>4. UNCHANGED <<cont, rcpt, todo, seen, snap, hold, fresh, clean>>
    BY <2>1 DEF BuyReserve, SellSubmit, SellAgain
  <2>5. pc' \in [Threads -> Labels]
    BY <2>2 DEF LocalsTypeOK, Goto, Labels
  <2>6. QED
    BY <2>3, <2>4, <2>5 DEF LocalsTypeOK
<1>6. QED
  BY <1>1, <1>2, <1>3, <1>4, <1>5 DEF Trade

LEMMA LocalsKept == IInv /\ Next => LocalsTypeOK'
<1> SUFFICES ASSUME IInv, Next PROVE LocalsTypeOK'
  OBVIOUS
<1> USE InvSplit
<1>1. ASSUME NEW t \in Threads, Operate(t) PROVE LocalsTypeOK'
  <2>1. CASE OperHalt(t)
    BY <2>1 DEF OperHalt, locals, LocalsTypeOK
  <2>2. CASE ResumeStart(t)
    BY <2>2 DEF ResumeStart, LocalsTypeOK, Goto, Labels
  <2>3. CASE ResumeClear(t) \/ ResumeReopen(t)
    BY <2>3, MoveTyped DEF ResumeClear, ResumeReopen, Labels
  <2>4. QED BY <1>1, <2>1, <2>2, <2>3 DEF Operate
<1>2. ASSUME NEW t \in Threads, Restart(t) PROVE LocalsTypeOK'
  <2>1. CASE Start(t)
    BY <2>1 DEF Start, LocalsTypeOK, Goto, Labels
  <2>2. CASE RecoverDone(t) \/ \E o \in Orders : Recover(t, o)
    BY <2>2, MoveTyped DEF RecoverDone, Recover, locals, LocalsTypeOK, Labels
  <2>3. QED BY <1>2, <2>1, <2>2 DEF Restart
<1>3. ASSUME Broker PROVE LocalsTypeOK'
  BY <1>3 DEF Broker, BrokerAccept, BrokerFill, BrokerClose, locals, LocalsTypeOK
<1>4. ASSUME Crash PROVE LocalsTypeOK'
  BY <1>4, MaxQtyAssumption DEF Crash, LocalsTypeOK, Labels, None, Unasked, NoHold, NoFresh
<1>5. QED
  BY <1>1, <1>2, <1>3, <1>4, MonitorTyped, ReconcileTyped, TradeTyped DEF Next, Step

-----------------------------------------------------------------------------
(* The receipts in the threads' hands.                                     *)

(* What thread u holds after a step, it held before or has just read.      *)
CarriesReceipt(u) ==
  pc'[u] \in Holding =>
    \/ pc[u] \in Holding /\ ord'[u] = ord[u] /\ rcpt'[u] = rcpt[u]
    \/ ord'[u] \in Orders /\ bid[ord'[u]] /\ Fits(rcpt'[u], ord'[u])
CarriesList(u) == todo'[u] \subseteq todo[u] \cup Tracked
CarriesReadAhead(u) ==
  \A o \in Orders :
    snap'[u][o] \in Unasked \cup {snap[u][o]} \/ (bid[o] /\ Fits(snap'[u][o], o))
Carries(u) == CarriesReceipt(u) /\ CarriesList(u) /\ CarriesReadAhead(u)

LEMMA CarriedFits ==
  ASSUME IInv, LedgerStep, \A u \in Threads : Carries(u)
  PROVE  ReceiptInv'
<1> USE InvSplit DEF Carries
<1>1. ASSUME NEW u \in Threads
      PROVE  pc'[u] \in Holding =>
               ord'[u] \in Orders /\ bid'[ord'[u]] /\ Fits(rcpt[u], ord[u])'
  <2>1. pc'[u] \in Holding =>
          ord'[u] \in Orders /\ bid[ord'[u]] /\ Fits(rcpt'[u], ord'[u])
    BY DEF CarriesReceipt, IInv, ReceiptInv
  <2>2. QED
    BY <2>1, Aging DEF Fits
<1>2. ASSUME NEW u \in Threads, NEW o \in todo'[u]
      PROVE  o \in Orders => bid'[o]
  BY <1>2, Aging DEF CarriesList, IInv, ReceiptInv, Tracked
<1>3. ASSUME NEW u \in Threads, NEW o \in Orders, snap'[u][o] \notin Unasked
      PROVE  bid'[o] /\ Fits(snap[u][o], o)'
  <2>1. bid[o] /\ Fits(snap'[u][o], o)
    BY <1>3 DEF CarriesReadAhead, IInv, ReceiptInv
  <2>2. QED
    BY <2>1, Aging DEF Fits
<1>4. \A u \in Threads : todo'[u] \subseteq Orders
  BY DEF CarriesList, LocalsTypeOK, Tracked, Open
<1>5. QED
  BY <1>1, <1>2, <1>3, <1>4 DEF ReceiptInv

(* Nothing moves.                                                          *)
LEMMA StillCarries ==
  ASSUME UNCHANGED <<pc, ord, rcpt, todo, snap>>
  PROVE  \A u \in Threads : Carries(u)
BY DEF Carries, CarriesReceipt, CarriesList, CarriesReadAhead

(* One thread moves, and the others keep what they have.                   *)
LEMMA StepCarries ==
  ASSUME LocalsTypeOK, NEW t \in Threads, NEW l, Goto(t, l),
         \A u \in Threads \ {t} : /\ ord'[u] = ord[u] /\ rcpt'[u] = rcpt[u]
                                  /\ todo'[u] = todo[u] /\ snap'[u] = snap[u],
         l \in Holding =>
           \/ pc[t] \in Holding /\ ord'[t] = ord[t] /\ rcpt'[t] = rcpt[t]
           \/ ord'[t] \in Orders /\ bid[ord'[t]] /\ Fits(rcpt'[t], ord'[t]),
         todo'[t] \subseteq todo[t] \cup Tracked,
         CarriesReadAhead(t)
  PROVE  \A u \in Threads : Carries(u)
<1>1. pc'[t] = l /\ \A u \in Threads \ {t} : pc'[u] = pc[u]
  BY DEF LocalsTypeOK, Goto
<1>2. ASSUME NEW u \in Threads \ {t} PROVE Carries(u)
  BY <1>1 DEF Carries, CarriesReceipt, CarriesList, CarriesReadAhead
<1>3. Carries(t)
  BY <1>1 DEF Carries, CarriesReceipt, CarriesList
<1>4. QED BY <1>2, <1>3

(* A thread that moves on carries what it had, one that leaves nothing.    *)
LEMMA MoveCarries ==
  ASSUME LocalsTypeOK, NEW t \in Threads, NEW l, Move(t, l),
         l \in Holding => pc[t] \in Holding
  PROVE  \A u \in Threads : Carries(u)
BY StepCarries DEF Move, CarriesReadAhead

LEMMA ForgetCarries ==
  ASSUME LocalsTypeOK, NEW t \in Threads, NEW l, Goto(t, l), l \notin Holding, Forget(t)
  PROVE  \A u \in Threads : Carries(u)
<1>1. /\ \A u \in Threads \ {t} : ord'[u] = ord[u] /\ rcpt'[u] = rcpt[u]
      /\ \A u \in Threads \ {t} : todo'[u] = todo[u] /\ snap'[u] = snap[u]
  BY DEF LocalsTypeOK, Forget
<1>2. todo'[t] = {} /\ snap'[t] = None
  BY DEF LocalsTypeOK, Forget
<1>3. QED
  BY <1>1, <1>2, StepCarries DEF CarriesReadAhead, None, Unasked

LEMMA LeaveCarries ==
  ASSUME LocalsTypeOK, NEW t \in Threads, NEW l, Leave(t, l), l \notin Holding
  PROVE  \A u \in Threads : Carries(u)
BY ForgetCarries DEF Leave

LEMMA MonMovesCarry ==
  ASSUME LocalsTypeOK, NEW t \in Threads, MonRaise(t) \/ MonNext(t)
  PROVE  \A u \in Threads : Carries(u)
<1>1. CASE MonRaise(t)
  BY <1>1, ForgetCarries DEF MonRaise, Holding
<1>2. CASE MonNext(t)
  <2>1. /\ \A u \in Threads \ {t} : ord'[u] = ord[u] /\ rcpt'[u] = rcpt[u]
        /\ UNCHANGED <<todo, snap>> /\ Goto(t, "mon") /\ "mon" \notin Holding
    BY <1>2 DEF LocalsTypeOK, MonNext, Holding
  <2>2. QED
    BY <2>1, StepCarries DEF CarriesReadAhead
<1>3. QED BY <1>1, <1>2

LEMMA RecRaiseCarries ==
  ASSUME LocalsTypeOK, NEW t \in Threads, RecRaise(t)
  PROVE  \A u \in Threads : Carries(u)
BY LeaveCarries DEF RecRaise, Holding

LEMMA MonitorCarries ==
  ASSUME IInv, NEW t \in Threads, Monitor(t)
  PROVE  \A u \in Threads : Carries(u)
<1> USE InvSplit
<1>1. CASE MonStart(t)
  <2>1. todo' = [todo EXCEPT ![t] = Tracked] /\ UNCHANGED <<ord, rcpt, snap>>
    BY <1>1 DEF MonStart
  <2>2. Goto(t, "mon") /\ "mon" \notin Holding
    BY <1>1 DEF MonStart, Holding
  <2>3. QED
    BY <2>1, <2>2, StepCarries DEF LocalsTypeOK, CarriesReadAhead
<1>2. CASE MonDone(t)
  BY <1>2, LeaveCarries DEF MonDone, Holding
<1>3. CASE MonStore(t) \/ MonCancelStore(t)
  BY <1>3, MoveCarries, MonMovesCarry DEF MonStore, MonCancelStore, At, Holding
<1>4. CASE MonStaleCancel(t)
  BY <1>4, MoveCarries, MonMovesCarry DEF MonStaleCancel, At, Holding
<1>5. CASE MonCancelGet(t)
  <2>1. ord[t] \in Orders /\ bid[ord[t]]
    BY <1>5 DEF MonCancelGet, IInv, ReceiptInv, Holding
  <2>2. CASE MonNext(t)
    BY <2>2, MonMovesCarry
  <2>3. CASE ~MonNext(t)
    <3>1. PICK r \in Report(ord[t]) : rcpt' = [rcpt EXCEPT ![t] = r]
      BY <1>5, <2>3 DEF MonCancelGet
    <3>2. UNCHANGED <<ord, todo, snap>> /\ \E l : Goto(t, l)
      BY <1>5, <2>3 DEF MonCancelGet
    <3>3. Fits(r, ord[t])
      BY <2>1, ReportFits
    <3>4. rcpt'[t] = r /\ \A u \in Threads \ {t} : rcpt'[u] = rcpt[u]
      BY <3>1 DEF LocalsTypeOK
    <3>5. QED
      BY <2>1, <3>2, <3>3, <3>4, StepCarries DEF CarriesReadAhead
  <2>4. QED BY <2>2, <2>3
<1>6. CASE MonApply(t)
  BY <1>6, MoveCarries, MonMovesCarry DEF MonApply, Holding
<1>7. CASE MonExpiredCancel(t)
  <2>1. CASE MonNext(t)
    BY <2>1, MonMovesCarry
  <2>2. CASE ~MonNext(t)
    <3>1. pc[t] \in Holding /\ Goto(t, "xGet") /\ UNCHANGED <<ord, rcpt, todo, snap>>
      BY <1>7, <2>2 DEF MonExpiredCancel, At, Holding
    <3>2. QED
      BY <3>1, StepCarries DEF CarriesReadAhead
  <2>3. QED BY <2>1, <2>2
<1>8. CASE MonSettle(t)
  BY <1>8, MonMovesCarry DEF MonSettle
<1>9. CASE \E o \in Orders : MonGet(t, o)
  <2>1. PICK o \in Orders : MonGet(t, o)
    BY <1>9
  <2>2. PICK r \in Report(o) : rcpt' = [rcpt EXCEPT ![t] = r]
    BY <2>1 DEF MonGet
  <2>3. bid[o] /\ Fits(r, o)
    BY <2>1, ReportFits DEF MonGet, IInv, ReceiptInv
  <2>4. /\ ord'[t] = o /\ rcpt'[t] = r /\ todo'[t] \subseteq todo[t]
        /\ \A u \in Threads \ {t} : /\ ord'[u] = ord[u] /\ rcpt'[u] = rcpt[u]
                                    /\ todo'[u] = todo[u]
    BY <2>1, <2>2 DEF MonGet, LocalsTypeOK
  <2>5. Goto(t, "mStore") /\ UNCHANGED snap
    BY <2>1 DEF MonGet
  <2>6. QED
    BY <2>3, <2>4, <2>5, StepCarries DEF CarriesReadAhead
<1>10. CASE \E o \in Orders : MonGetFails(t, o)
  BY <1>10, MonMovesCarry DEF MonGetFails
<1>11. QED
  BY <1>1, <1>2, <1>3, <1>4, <1>5, <1>6, <1>7, <1>8, <1>9, <1>10 DEF Monitor

LEMMA ReconcileCarries ==
  ASSUME IInv, NEW t \in Threads, Reconcile(t)
  PROVE  \A u \in Threads : Carries(u)
<1> USE InvSplit
<1>1. CASE RecRead(t)
  <2>1. CASE Move(t, "rList")
    BY <2>1, MoveCarries DEF Holding
  <2>2. CASE Leave(t, "quarantine") \/ RecRaise(t)
    BY <2>2, LeaveCarries, RecRaiseCarries DEF Holding
  <2>3. ASSUME NEW odd \in SUBSET Tracked,
               snap' = [snap EXCEPT ![t] = [o \in Orders |->
                 IF o \notin Tracked
                 THEN IF bstate[o] = "open" THEN Listed ELSE Unlisted
                 ELSE [status |-> IF o \in odd THEN "UNKNOWN" ELSE Visible(o),
                       filled |-> bfilled[o]]]],
               RecStep(t, "rList"), UNCHANGED <<ord, rcpt, todo>>
        PROVE  \A u \in Threads : Carries(u)
    <3>1. /\ \A u \in Threads \ {t} : snap'[u] = snap[u]
          /\ \A o \in Orders \ Tracked : snap'[t][o] \in {Listed, Unlisted}
          /\ \A o \in Tracked :
               snap'[t][o] = [status |-> IF o \in odd THEN "UNKNOWN" ELSE Visible(o),
                              filled |-> bfilled[o]]
      BY <2>3 DEF LocalsTypeOK, Tracked, Open
    <3>2. CarriesReadAhead(t)
      BY <3>1, ReadAheadFits DEF CarriesReadAhead, Tracked, Unasked
    <3>3. "rList" \notin Holding
      BY DEF Holding
    <3>4. QED
      BY <2>3, <3>1, <3>2, <3>3, StepCarries DEF RecStep
  <2>4. QED
    BY <1>1, <2>1, <2>2, <2>3 DEF RecRead
<1>2. CASE RecList(t)
  <2>1. todo' = [todo EXCEPT ![t] = Tracked] /\ UNCHANGED <<ord, rcpt, snap>>
    BY <1>2 DEF RecList
  <2>2. Goto(t, "rNext") /\ "rNext" \notin Holding
    BY <1>2 DEF RecList, RecStep, Holding
  <2>3. QED
    BY <2>1, <2>2, StepCarries DEF LocalsTypeOK, CarriesReadAhead
<1>3. CASE \E o \in Orders : RecGet(t, o)
  <2>1. PICK o \in Orders : RecGet(t, o)
    BY <1>3
  <2>2. CASE RecRaise(t)
    BY <2>2, RecRaiseCarries
  <2>3. CASE ~RecRaise(t)
    <3>1. bid[o]
      BY <2>1 DEF RecGet, IInv, ReceiptInv
    <3>2. PICK r \in (IF snap[t][o] \in Unasked THEN Report(o) ELSE {snap[t][o]}) :
            rcpt' = [rcpt EXCEPT ![t] = r]
      BY <2>1, <2>3 DEF RecGet
    <3>3. Fits(r, o)
      BY <3>1, <3>2, ReportFits DEF IInv, ReceiptInv
    <3>4. /\ ord' = [ord EXCEPT ![t] = o] /\ todo' = [todo EXCEPT ![t] = @ \ {o}]
          /\ Goto(t, "rStore") /\ UNCHANGED snap
      BY <2>1, <2>3 DEF RecGet, RecStep
    <3>5. /\ ord'[t] = o /\ rcpt'[t] = r /\ todo'[t] \subseteq todo[t]
          /\ \A u \in Threads \ {t} : /\ ord'[u] = ord[u] /\ rcpt'[u] = rcpt[u]
                                      /\ todo'[u] = todo[u]
      BY <3>2, <3>4 DEF LocalsTypeOK
    <3>6. QED
      BY <3>1, <3>3, <3>4, <3>5, StepCarries DEF CarriesReadAhead
  <2>4. QED BY <2>2, <2>3
<1>4. CASE RecStore(t) \/ RecApply(t)
  BY <1>4, MoveCarries, RecRaiseCarries DEF RecStore, RecApply, At, Holding
<1>5. CASE RecJudge(t) \/ RecHoldings(t)
  <2>1. CASE RecRaise(t)
    BY <2>1, RecRaiseCarries
  <2>2. CASE ~RecRaise(t)
    <3>1. (Goto(t, "rNext") \/ Goto(t, "rCompare")) /\ UNCHANGED <<ord, rcpt, todo, snap>>
      BY <1>5, <2>2 DEF RecJudge, RecHoldings, RecStep
    <3>2. QED
      BY <3>1, StepCarries DEF CarriesReadAhead, Holding
  <2>3. QED BY <2>1, <2>2
<1>6. CASE RecCompare(t)
  <2>1. cont[t] \in {"boot", "cycle", "alloc", "settled", "resume"}
    BY DEF LocalsTypeOK
  <2>2. QED
    BY <1>6, <2>1, LeaveCarries DEF RecCompare, Holding
<1>7. QED
  BY <1>1, <1>2, <1>3, <1>4, <1>5, <1>6 DEF Reconcile

LEMMA TradeCarries ==
  ASSUME IInv, NEW t \in Threads, Trade(t)
  PROVE  \A u \in Threads : Carries(u)
<1> USE InvSplit
<1>1. CASE Quarantine(t) \/ TryRelease(t) \/ TradeSkip(t) \/ BuyPrecheck(t) \/ BuyReserveFails(t)
  BY <1>1, MoveCarries, LeaveCarries
     DEF Quarantine, TryRelease, TradeSkip, BuyPrecheck, BuyReserveFails, Holding
<1>2. CASE BuyGate(t) \/ Post(t)
  BY <1>2, MoveCarries DEF BuyGate, Post, Holding
<1>3. CASE RecordPost(t) \/ Escalate(t)
  BY <1>3, MoveCarries, LeaveCarries DEF RecordPost, Escalate, Holding
<1>4. CASE AllocReconcile(t)
  BY <1>4, StepCarries DEF AllocReconcile, CarriesReadAhead, Holding
<1>5. CASE \E o \in Orders : BuyReserve(t, o) \/ SellSubmit(t, o) \/ SellAgain(t, o)
  <2>1. PICK o \in Orders : BuyReserve(t, o) \/ SellSubmit(t, o) \/ SellAgain(t, o)
    BY <1>5
  <2>2. \E l \in {"gate", "post", "escalate", "sold"} : Goto(t, l)
    BY <2>1 DEF BuyReserve, SellSubmit, SellAgain
  <2>3. ord' = [ord EXCEPT ![t] = o] \/ UNCHANGED ord
    BY <2>1 DEF BuyReserve, SellSubmit, SellAgain
  <2>4. UNCHANGED <<rcpt, todo, snap>>
    BY <2>1 DEF BuyReserve, SellSubmit, SellAgain
  <2>5. \A u \in Threads \ {t} : ord'[u] = ord[u]
    BY <2>3 DEF LocalsTypeOK
  <2>6. QED
    BY <2>2, <2>4, <2>5, StepCarries DEF CarriesReadAhead, Holding
<1>6. QED
  BY <1>1, <1>2, <1>3, <1>4, <1>5 DEF Trade

LEMMA ReceiptsKept == IInv /\ Next => ReceiptInv'
<1> SUFFICES ASSUME IInv, Next PROVE \A u \in Threads : Carries(u)
  BY NextStep, CarriedFits
<1> USE InvSplit
<1>1. ASSUME NEW t \in Threads, Operate(t) PROVE \A u \in Threads : Carries(u)
  <2>1. CASE OperHalt(t)
    BY <2>1, StillCarries DEF OperHalt, locals
  <2>2. CASE ResumeStart(t)
    BY <2>2, StepCarries DEF ResumeStart, CarriesReadAhead, Holding
  <2>3. CASE ResumeClear(t) \/ ResumeReopen(t)
    BY <2>3, MoveCarries DEF ResumeClear, ResumeReopen, Holding
  <2>4. QED BY <1>1, <2>1, <2>2, <2>3 DEF Operate
<1>2. ASSUME NEW t \in Threads, Restart(t) PROVE \A u \in Threads : Carries(u)
  <2>1. CASE Start(t)
    BY <2>1, StepCarries DEF Start, CarriesReadAhead, Holding
  <2>2. CASE RecoverDone(t) \/ \E o \in Orders : Recover(t, o)
    BY <2>2, MoveCarries, StillCarries DEF RecoverDone, Recover, locals, Holding
  <2>3. QED BY <1>2, <2>1, <2>2 DEF Restart
<1>3. ASSUME Broker PROVE \A u \in Threads : Carries(u)
  BY <1>3, StillCarries DEF Broker, BrokerAccept, BrokerFill, BrokerClose, locals
<1>4. ASSUME Crash PROVE \A u \in Threads : Carries(u)
  <2>1. ASSUME NEW u \in Threads
        PROVE  pc'[u] \notin Holding /\ todo'[u] = {} /\ snap'[u] = None
    BY <1>4 DEF Crash, Holding
  <2>2. QED
    BY <2>1 DEF Carries, CarriesReceipt, CarriesList, CarriesReadAhead, None, Unasked
<1>5. QED
  BY <1>1, <1>2, <1>3, <1>4, MonitorCarries, ReconcileCarries, TradeCarries DEF Next, Step

-----------------------------------------------------------------------------
(* The order in flight and the operator.                                   *)

Busy == Trading \cup {"reserve"}

LEMMA NotBusy ==
  ASSUME NEW u \in Threads, pc'[u] \notin Busy
  PROVE  TradingOK(u)'
BY DEF TradingOK, Busy, Trading

(* The operator's thread and the broker touch no row in flight.            *)
GentleStep ==
  \/ \E o \in Orders : \E s, f, known : bid[o] /\ TrueUpdate(o, s, f, known)
  \/ \E o \in Orders : ApplyCoreFill(o) /\ UNCHANGED broker
  \/ \E o \in Orders : BrokerAccept(o) \/ BrokerFill(o) \/ BrokerClose(o)
  \/ UNCHANGED <<ledger, broker>>

LEMMA GentleKeeps ==
  ASSUME LedgerInv, GentleStep, NEW o \in Orders, status[o] = "CREATED"
  PROVE  /\ status'[o] = "CREATED" /\ posts'[o] = posts[o]
         /\ bstate[o] \notin {"none", "sent"} => bstate'[o] \notin {"none", "sent"}
         /\ bstate[o] = "none" => bstate'[o] = "none"
         /\ misread' = misread
<1> USE DEF LedgerInv
<1>1. ~bid[o]
  BY DEF RowInv
<1>2. ASSUME NEW p \in Orders, NEW s, NEW f, NEW known, bid[p], TrueUpdate(p, s, f, known)
      PROVE  status'[o] = "CREATED" /\ UNCHANGED broker
  BY <1>1, <1>2 DEF TrueUpdate, UpdateOrder, LedgerTypeOK
<1>3. ASSUME NEW p \in Orders, BrokerAccept(p) \/ BrokerFill(p) \/ BrokerClose(p)
      PROVE  /\ UNCHANGED <<status, posts, misread>>
             /\ bstate[o] \notin {"none", "sent"} => bstate'[o] \notin {"none", "sent"}
             /\ bstate[o] = "none" => bstate'[o] = "none"
  BY <1>3 DEF BrokerAccept, BrokerFill, BrokerClose, ledger, BrokerTypeOK
<1>4. QED
  BY <1>2, <1>3 DEF GentleStep, ApplyCoreFill, ledger, broker

LEMMA GentleOpensNothing ==
  ASSUME LedgerInv, GentleStep
  PROVE  Open' \subseteq Open
<1> USE DEF LedgerInv, Open
<1>1. ASSUME NEW o \in Orders, NEW s, NEW f, NEW known, TrueUpdate(o, s, f, known)
      PROVE  Open' \subseteq Open
  BY <1>1 DEF TrueUpdate, UpdateOrder, Conflicts, LedgerTypeOK, OpenStatuses,
              TerminalStatuses
<1>2. QED
  BY <1>1 DEF GentleStep, ApplyCoreFill, BrokerAccept, BrokerFill, BrokerClose, ledger

(* A trading thread that stands still is not disturbed by such a step,     *)
(* unless the lock or the gate changes under a BUY's POST.                 *)
LEMMA Undisturbed ==
  ASSUME IInv, GentleStep, NEW u \in Threads, pc'[u] = pc[u], ord'[u] = ord[u],
         pc[u] = "post" /\ ord[u] \in BuyOrders => UNCHANGED <<lock, halt, latch>>
  PROVE  TradingOK(u)'
<1> USE InvSplit
<1>1. TradingOK(u)
  BY DEF IInv, ThreadInv
<1>2. Open' \subseteq Open
  BY GentleOpensNothing
<1>3. pc[u] \in Trading =>
        /\ ord[u] \in Orders /\ status'[ord[u]] = "CREATED"
        /\ pc[u] \in {"gate", "post"} => posts'[ord[u]] = 0
        /\ pc[u] = "record" => bstate'[ord[u]] \notin {"none", "sent"}
        /\ pc[u] \in {"record", "unknown"} => ord[u] \notin misread'
        /\ pc[u] = "refused" => bstate'[ord[u]] = "none" \/ ord[u] \in misread'
  BY <1>1, GentleKeeps DEF TradingOK
<1>4. pc[u] \in {"gate", "post"} /\ ord[u] \in BuyOrders => Open' = {ord[u]}
  BY <1>1, <1>2, <1>3 DEF TradingOK, Trading, Open, OpenStatuses
<1>5. QED
  BY <1>1, <1>2, <1>3, <1>4 DEF TradingOK, BuyOrders

(* What a step of the operator's thread may do.                            *)
OperatorEffect(t) ==
  /\ GentleStep
  /\ pc'[t] \in Operating
  /\ pc'[t] \in Reconciling => cont'[t] = "resume"
  /\ UNCHANGED lock
  /\ lock # Nobody => UNCHANGED latch /\ (~halt => UNCHANGED halt)
  /\ \A u \in Threads \ {t} : pc'[u] = pc[u] /\ ord'[u] = ord[u] /\ cont'[u] = cont[u]

LEMMA OperReconciles ==
  ASSUME IInv, Oper \in Threads, Reconcile(Oper)
  PROVE  OperatorEffect(Oper)
<1> DEFINE t == Oper
<1> USE InvSplit
<1>1. /\ pc[t] \in Operating
      /\ pc[t] \in Reconciling => cont[t] = "resume"
  BY DEF IInv, ThreadInv, OperatingOK
<1>2. ASSUME NEW l, Goto(t, l), l \in Operating,
             l \in Reconciling => pc[t] \in Reconciling,
             UNCHANGED cont, UNCHANGED <<halt, latch, lock>>, GentleStep,
             \A u \in Threads \ {t} : ord'[u] = ord[u]
      PROVE  OperatorEffect(t)
  <2>1. pc'[t] = l /\ \A u \in Threads \ {t} : pc'[u] = pc[u]
    BY <1>2 DEF LocalsTypeOK, Goto
  <2>2. QED
    BY <1>1, <1>2, <2>1 DEF OperatorEffect
<1>3. ASSUME NEW l, Move(t, l), l \in Operating,
             l \in Reconciling => pc[t] \in Reconciling,
             UNCHANGED <<halt, latch, lock>>, GentleStep
      PROVE  OperatorEffect(t)
  BY <1>2, <1>3 DEF Move
<1>4. ASSUME NEW l, Leave(t, l), l \in {"idle", "clear"},
             UNCHANGED <<halt, latch, lock>>, GentleStep
      PROVE  OperatorEffect(t)
  <2>1. \A u \in Threads \ {t} : ord'[u] = ord[u]
    BY <1>4 DEF Leave, Forget, LocalsTypeOK
  <2>2. QED
    BY <1>2, <1>4, <2>1 DEF Leave, Operating, Reconciling
<1>5. ASSUME pc[t] \in Reconciling, RecRaise(t), UNCHANGED <<halt, latch, lock>>, GentleStep
      PROVE  OperatorEffect(t)
  BY <1>1, <1>4, <1>5 DEF RecRaise
<1>6. CASE RecRead(t)
  <2>1. cont[t] = "resume" /\ GentleStep /\ UNCHANGED <<halt, latch, lock>>
    BY <1>1, <1>6 DEF RecRead, At, Reconciling, GentleStep, flags
  <2>2. CASE RecStep(t, "rList") /\ UNCHANGED ord
    BY <1>2, <1>6, <2>1, <2>2 DEF RecRead, RecStep, At, Operating, Reconciling
  <2>3. CASE Move(t, "rList")
    BY <1>3, <1>6, <2>1, <2>3 DEF RecRead, At, Operating, Reconciling
  <2>4. CASE RecRaise(t)
    BY <1>5, <1>6, <2>1, <2>4 DEF RecRead, At, Reconciling
  <2>5. QED
    BY <1>6, <2>1, <2>2, <2>3, <2>4 DEF RecRead
<1>7. CASE RecList(t)
  BY <1>2, <1>7 DEF RecList, RecStep, At, flags, GentleStep, Operating, Reconciling
<1>8. CASE \E o \in Orders : RecGet(t, o)
  <2>1. PICK o \in Orders : RecGet(t, o)
    BY <1>8
  <2>2. GentleStep /\ UNCHANGED <<halt, latch, lock>> /\ pc[t] \in Reconciling
    BY <2>1 DEF RecGet, EnterSafeMode, flags, GentleStep, At, Reconciling
  <2>3. CASE RecRaise(t)
    BY <1>5, <2>2, <2>3
  <2>4. CASE ~RecRaise(t)
    <3>1. ord' = [ord EXCEPT ![t] = o] /\ RecStep(t, "rStore")
      BY <2>1, <2>4 DEF RecGet
    <3>2. \A u \in Threads \ {t} : ord'[u] = ord[u]
      BY <3>1 DEF LocalsTypeOK
    <3>3. QED
      BY <1>2, <2>2, <3>1, <3>2 DEF RecStep, Operating, Reconciling
  <2>5. QED BY <2>3, <2>4
<1>9. CASE RecStore(t)
  <2>1. pc[t] \in Reconciling /\ UNCHANGED <<halt, latch, lock>>
    BY <1>9 DEF RecStore, At, Reconciling, flags, EnterSafeMode
  <2>2. ord[t] \in Orders /\ bid[ord[t]] /\ Fits(rcpt[t], ord[t])
    BY <1>9 DEF RecStore, At, IInv, ReceiptInv, Holding
  <2>3. GentleStep
    <3>1. CASE UpdateOrder(ord[t], rcpt[t].status, rcpt[t].filled, TRUE)
      <4>1. UNCHANGED broker
        BY <1>9 DEF RecStore
      <4>2. TrueUpdate(ord[t], rcpt[t].status, rcpt[t].filled, TRUE)
        BY <2>2, <3>1, <4>1
           DEF LedgerInv, Fits, Receipts, TrueUpdate, RowInv, TerminalStatuses
      <4>3. QED BY <2>2, <4>2 DEF GentleStep
    <3>2. CASE UNCHANGED ledger
      BY <1>9, <3>2 DEF RecStore, GentleStep
    <3>3. QED BY <1>9, <3>1, <3>2 DEF RecStore
  <2>4. QED
    BY <1>3, <1>5, <1>9, <2>1, <2>3 DEF RecStore, Operating, Reconciling
<1>10. CASE RecApply(t)
  <2>1. pc[t] \in Reconciling /\ UNCHANGED <<halt, latch, lock>>
    BY <1>10 DEF RecApply, At, Reconciling, flags, EnterSafeMode
  <2>2. ord[t] \in Orders
    BY <1>10 DEF RecApply, At, IInv, ReceiptInv, Holding
  <2>3. GentleStep
    BY <1>10, <2>2 DEF RecApply, GentleStep
  <2>4. QED
    BY <1>3, <1>5, <1>10, <2>1, <2>3 DEF RecApply, Operating, Reconciling
<1>11. CASE RecJudge(t) \/ RecHoldings(t)
  <2>1. GentleStep /\ UNCHANGED <<halt, latch, lock>> /\ pc[t] \in Reconciling
    BY <1>11 DEF RecJudge, RecHoldings, EnterSafeMode, flags, GentleStep, At, Reconciling
  <2>2. CASE RecRaise(t)
    BY <1>5, <2>1, <2>2
  <2>3. CASE ~RecRaise(t)
    <3>1. (RecStep(t, "rNext") \/ RecStep(t, "rCompare")) /\ UNCHANGED ord
      BY <1>11, <2>3 DEF RecJudge, RecHoldings
    <3>2. QED
      BY <1>2, <2>1, <3>1 DEF RecStep, Operating, Reconciling
  <2>4. QED BY <2>2, <2>3
<1>12. CASE RecCompare(t)
  <2>1. GentleStep /\ UNCHANGED <<halt, latch, lock>> /\ cont[t] = "resume"
    BY <1>1, <1>12 DEF RecCompare, EnterSafeMode, flags, GentleStep, At, Reconciling
  <2>2. \E l \in {"idle", "clear"} : Leave(t, l)
    BY <1>12, <2>1 DEF RecCompare
  <2>3. QED BY <1>4, <2>1, <2>2
<1>13. QED
  BY <1>6, <1>7, <1>8, <1>9, <1>10, <1>11, <1>12 DEF Reconcile

LEMMA OperOperates ==
  ASSUME IInv, Oper \in Threads, Operate(Oper)
  PROVE  OperatorEffect(Oper)
<1> DEFINE t == Oper
<1> USE InvSplit
<1>1. GentleStep
  BY DEF Operate, OperHalt, ResumeStart, ResumeClear, ResumeReopen, GentleStep
<1>2. CASE OperHalt(t)
  BY <1>1, <1>2 DEF OperHalt, locals, At, OperatorEffect, Operating, Reconciling
<1>3. CASE ResumeStart(t)
  <2>1. pc'[t] = "rRead" /\ cont'[t] = "resume"
    BY <1>3 DEF ResumeStart, Goto, LocalsTypeOK
  <2>2. \A u \in Threads \ {t} : pc'[u] = pc[u] /\ ord'[u] = ord[u] /\ cont'[u] = cont[u]
    BY <1>3 DEF ResumeStart, Goto, LocalsTypeOK
  <2>3. QED
    BY <1>1, <1>3, <2>1, <2>2 DEF ResumeStart, OperatorEffect, Operating, Reconciling
<1>4. CASE ResumeClear(t) \/ ResumeReopen(t)
  <2>1. pc'[t] \in {"reopen", "idle"}
    BY <1>4 DEF ResumeClear, ResumeReopen, Move, Goto, LocalsTypeOK
  <2>2. \A u \in Threads \ {t} : pc'[u] = pc[u] /\ ord'[u] = ord[u] /\ cont'[u] = cont[u]
    BY <1>4 DEF ResumeClear, ResumeReopen, Move, Goto, LocalsTypeOK
  <2>3. QED
    BY <1>1, <1>4, <2>1, <2>2
       DEF ResumeClear, ResumeReopen, OperatorEffect, Operating, Reconciling
<1>5. QED
  BY <1>2, <1>3, <1>4 DEF Operate

LEMMA OperStep ==
  ASSUME IInv, Oper \in Threads, Step(Oper)
  PROVE  OperatorEffect(Oper)
<1>1. pc[Oper] \in Operating
  BY DEF IInv, ThreadInv, OperatingOK
<1>2. ~Monitor(Oper)
  BY <1>1 DEF Monitor, MonStart, MonDone, MonStore, MonStaleCancel, MonCancelGet,
              MonCancelStore, MonApply, MonExpiredCancel, MonSettle, MonGet, MonGetFails,
              At, Operating, Reconciling, Sched, Oper
<1>3. ~Trade(Oper)
  BY <1>1 DEF Trade, Quarantine, TryRelease, TradeSkip, BuyPrecheck, BuyReserveFails,
              BuyGate, Post, RecordPost, Escalate, AllocReconcile, BuyReserve, SellSubmit,
              SellAgain, At, Operating, Reconciling
<1>4. ~Restart(Oper)
  BY <1>1 DEF Restart, Start, RecoverDone, Recover, At, Operating, Reconciling, Sched, Oper
<1>5. QED
  BY <1>2, <1>3, <1>4, OperReconciles, OperOperates DEF Step

(* What a step of the scheduler's thread may do.                           *)
SchedulerEffect(t) ==
  /\ TradingOK(t)'
  /\ \A u \in Threads \ {t} : pc'[u] = pc[u] /\ cont'[u] = cont[u]

LEMMA SchedMonitors ==
  ASSUME IInv, NEW t \in Threads, Monitor(t)
  PROVE  SchedulerEffect(t)
<1> USE InvSplit
<1>1. \E l \in Labels \ Busy : Goto(t, l)
  BY DEF Monitor, MonStart, MonDone, MonStore, MonStaleCancel, MonCancelGet,
         MonCancelStore, MonApply, MonExpiredCancel, MonSettle, MonGet, MonGetFails,
         MonRaise, MonNext, Move, Leave, Labels, Busy, Trading
<1>2. \A u \in Threads \ {t} : cont'[u] = cont[u]
  <2>1. CASE MonStart(t)
    BY <2>1 DEF MonStart, LocalsTypeOK
  <2>2. CASE ~MonStart(t)
    BY <2>2 DEF Monitor, MonDone, MonStore, MonStaleCancel, MonCancelGet,
                MonCancelStore, MonApply, MonExpiredCancel, MonSettle, MonGet,
                MonGetFails, MonRaise, MonNext, Move, Leave
  <2>3. QED BY <2>1, <2>2
<1>3. pc'[t] \notin Busy /\ \A u \in Threads \ {t} : pc'[u] = pc[u]
  BY <1>1 DEF Goto, LocalsTypeOK
<1>4. QED
  BY <1>2, <1>3, NotBusy DEF SchedulerEffect

LEMMA SchedReconciles ==
  ASSUME IInv, NEW t \in Threads, Reconcile(t)
  PROVE  SchedulerEffect(t)
<1> USE InvSplit
<1>1. cont[t] \in {"boot", "cycle", "alloc", "settled", "resume"}
  BY DEF LocalsTypeOK
<1>2. \E l \in Labels \ Busy : Goto(t, l)
  BY <1>1 DEF Reconcile, RecRead, RecList, RecStore, RecApply, RecJudge, RecHoldings,
         RecCompare, RecGet, RecRaise, RecStep, Move, Leave, Labels, Busy, Trading
<1>3. UNCHANGED cont
  BY DEF Reconcile, RecRead, RecList, RecStore, RecApply, RecJudge, RecHoldings,
         RecCompare, RecGet, RecRaise, RecStep, Move, Leave
<1>4. pc'[t] \notin Busy /\ \A u \in Threads \ {t} : pc'[u] = pc[u]
  BY <1>2 DEF Goto, LocalsTypeOK
<1>5. QED
  BY <1>3, <1>4, NotBusy DEF SchedulerEffect

LEMMA SchedTrades ==
  ASSUME IInv, NEW t \in Threads, Trade(t)
  PROVE  SchedulerEffect(t)
<1> USE InvSplit DEF LedgerInv
<1>1. \A u \in Threads \ {t} : pc'[u] = pc[u] /\ cont'[u] = cont[u]
  <2>1. \E l : Goto(t, l)
    BY DEF Trade, Quarantine, TryRelease, TradeSkip, BuyPrecheck, BuyReserveFails, BuyGate,
           Post, RecordPost, Escalate, AllocReconcile, BuyReserve, SellSubmit, SellAgain, Move,
           Leave
  <2>2. \/ UNCHANGED cont
        \/ cont' = [cont EXCEPT ![t] = "alloc"] \/ cont' = [cont EXCEPT ![t] = "settled"]
    BY DEF Trade, Quarantine, TryRelease, TradeSkip, BuyPrecheck, BuyReserveFails, BuyGate,
           Post, RecordPost, Escalate, AllocReconcile, BuyReserve, SellSubmit, SellAgain, Move,
           Leave
  <2>3. QED BY <2>1, <2>2 DEF Goto, LocalsTypeOK
<1> SUFFICES TradingOK(t)'
  BY <1>1 DEF SchedulerEffect
<1>2. TradingOK(t)
  BY DEF IInv, ThreadInv
<1>3. ASSUME NEW l, l \notin Busy, Goto(t, l) PROVE TradingOK(t)'
  <2>1. pc'[t] = l
    BY <1>3 DEF Goto, LocalsTypeOK
  <2>2. QED BY <1>3, <2>1, NotBusy
<1>4. CASE \/ Quarantine(t) \/ TryRelease(t) \/ TradeSkip(t) \/ BuyReserveFails(t)
           \/ RecordPost(t) \/ Escalate(t) \/ AllocReconcile(t)
           \/ \E o \in Orders : SellAgain(t, o)
  <2>1. \E l \in Labels \ Busy : Goto(t, l)
    BY <1>4 DEF Quarantine, TryRelease, TradeSkip, BuyReserveFails, RecordPost, Escalate,
                AllocReconcile, SellAgain, Move, Leave, Labels, Busy, Trading
  <2>2. QED BY <1>3, <2>1
<1>5. CASE BuyPrecheck(t)
  <2>1. pc'[t] = "reserve" /\ Open' = {}
    BY <1>5 DEF BuyPrecheck, Move, Goto, LocalsTypeOK, Open, ledger
  <2>2. QED BY <2>1 DEF TradingOK, Trading
<1>6. CASE \E o \in Orders : BuyReserve(t, o)
  <2>1. PICK o \in Orders : BuyReserve(t, o)
    BY <1>6
  <2>2. pc'[t] = "gate" /\ ord'[t] = o /\ o \in BuyOrders /\ Open = {}
    BY <1>2, <2>1 DEF BuyReserve, At, Goto, LocalsTypeOK, TradingOK
  <2>3. status[o] = "NONE" /\ status' = [status EXCEPT ![o] = "CREATED"] /\ posts'[o] = posts[o]
    BY <2>1 DEF BuyReserve, ReserveOrder, broker
  <2>4. posts'[o] = 0
    BY <2>3 DEF RowInv
  <2>5. Open' = {o}
    BY <2>2, <2>3 DEF Open, LedgerTypeOK, OpenStatuses
  <2>6. QED
    BY <2>2, <2>3, <2>4, <2>5 DEF TradingOK, Trading, LedgerTypeOK
<1>7. CASE BuyGate(t)
  <2>1. CASE \E l \in {"stop", "escalate"} : Goto(t, l)
    BY <1>3, <2>1 DEF Busy, Trading
  <2>2. CASE ~\E l \in {"stop", "escalate"} : Goto(t, l)
    <3>1. /\ ~halt /\ ~latch /\ lock' = t /\ Move(t, "post")
          /\ UNCHANGED <<ledger, broker, halt, latch>> /\ pc[t] = "gate"
      BY <1>7, <2>2 DEF BuyGate, Move, At
    <3>2. pc'[t] = "post" /\ ord'[t] = ord[t]
      BY <3>1 DEF Move, Goto, LocalsTypeOK
    <3>3. QED
      BY <1>2, <3>1, <3>2 DEF TradingOK, Trading, ledger, broker, Open, BuyOrders
  <2>3. QED BY <2>1, <2>2
<1>8. CASE Post(t)
  <2>1. /\ ord[t] \in Orders /\ status[ord[t]] = "CREATED" /\ posts[ord[t]] = 0
        /\ bstate[ord[t]] = "none" /\ ord[t] \notin misread
    BY <1>2, <1>8 DEF Post, At, TradingOK, Trading, RowInv
  <2>2. UNCHANGED status /\ ord'[t] = ord[t]
    BY <1>8 DEF Post, ledger, Move
  <2>3. PICK l \in {"record", "unknown", "refused"} :
          /\ Goto(t, l)
          /\ l = "record" => bstate' = [bstate EXCEPT ![ord[t]] = "open"]
          /\ l # "refused" => UNCHANGED misread
          /\ l = "refused" => UNCHANGED bstate \/ misread' = misread \cup {ord[t]}
    BY <1>8 DEF Post, Move
  <2>4. pc'[t] = l
    BY <2>3 DEF Goto, LocalsTypeOK
  <2>5. l = "record" => bstate'[ord[t]] = "open"
    BY <2>1, <2>3 DEF BrokerTypeOK
  <2>6. /\ l # "refused" => ord[t] \notin misread'
        /\ l = "refused" => bstate'[ord[t]] = "none" \/ ord[t] \in misread'
    BY <2>1, <2>3
  <2>7. QED
    BY <2>1, <2>2, <2>4, <2>5, <2>6 DEF TradingOK
<1>9. CASE \E o \in Orders : SellSubmit(t, o)
  <2>1. PICK o \in Orders : SellSubmit(t, o)
    BY <1>9
  <2>2. pc'[t] = "post" /\ ord'[t] = o /\ o \in SellOrders
    BY <2>1 DEF SellSubmit, Goto, LocalsTypeOK
  <2>3. status[o] = "NONE" /\ status' = [status EXCEPT ![o] = "CREATED"] /\ posts'[o] = posts[o]
    BY <2>1 DEF SellSubmit, ReserveOrder, broker
  <2>4. posts'[o] = 0
    BY <2>3 DEF RowInv
  <2>5. QED
    BY <2>2, <2>3, <2>4 DEF TradingOK, Trading, LedgerTypeOK, BuyOrders
<1>10. QED
  BY <1>4, <1>5, <1>6, <1>7, <1>8, <1>9 DEF Trade

LEMMA SchedStep ==
  ASSUME IInv, Step(Sched)
  PROVE  SchedulerEffect(Sched)
<1> USE InvSplit, ThreadsAssumption
<1>1. CASE Operate(Sched)
  <2>1. CASE ResumeClear(Sched) \/ ResumeReopen(Sched)
    <3>1. \E l \in {"reopen", "idle"} : Goto(Sched, l) /\ UNCHANGED cont
      BY <2>1 DEF ResumeClear, ResumeReopen, Move
    <3>2. pc'[Sched] \notin Busy /\ \A u \in Threads \ {Sched} : pc'[u] = pc[u]
      BY <3>1 DEF Goto, LocalsTypeOK, Busy, Trading
    <3>3. QED BY <3>1, <3>2, NotBusy DEF SchedulerEffect
  <2>2. QED
    BY <1>1, <2>1 DEF Operate, OperHalt, ResumeStart, Sched, Oper
<1>2. CASE Restart(Sched)
  <2>1. CASE \E o \in Orders : Recover(Sched, o)
    <3>1. pc[Sched] = "recover" /\ UNCHANGED <<pc, cont>>
      BY <2>1 DEF Recover, At, locals
    <3>2. QED BY <3>1, NotBusy DEF SchedulerEffect, Busy, Trading
  <2>2. CASE Start(Sched) \/ RecoverDone(Sched)
    <3>1. \E l \in {"recover", "rRead"} : Goto(Sched, l)
      BY <2>2 DEF Start, RecoverDone, Move
    <3>2. pc'[Sched] \notin Busy /\ \A u \in Threads \ {Sched} : pc'[u] = pc[u]
      BY <3>1 DEF Goto, LocalsTypeOK, Busy, Trading
    <3>3. \A u \in Threads \ {Sched} : cont'[u] = cont[u]
      BY <2>2 DEF Start, RecoverDone, Move, LocalsTypeOK
    <3>4. QED BY <3>2, <3>3, NotBusy DEF SchedulerEffect
  <2>3. QED BY <1>2, <2>1, <2>2 DEF Restart
<1>3. QED
  BY <1>1, <1>2, SchedMonitors, SchedReconciles, SchedTrades DEF Step

(* The threads keep out of each other's way.                               *)
LEMMA ThreadsKept == IInv /\ Next => ThreadInv'
<1> SUFFICES ASSUME IInv, Next PROVE ThreadInv'
  OBVIOUS
<1> USE InvSplit
<1>1. \A t \in Threads : t = Sched \/ t = Oper
  BY ThreadsAssumption
<1>2. \A t \in Threads : OperatingOK(t) /\ TradingOK(t)
  BY DEF IInv, ThreadInv
<1>3. CASE Step(Sched)
  <2>1. SchedulerEffect(Sched)
    BY <1>3, SchedStep
  <2>2. OperatingOK(Sched)'
    BY DEF OperatingOK, Sched, Oper
  <2>3. ASSUME Oper \in Threads PROVE OperatingOK(Oper)' /\ TradingOK(Oper)'
    <3>1. pc'[Oper] = pc[Oper] /\ cont'[Oper] = cont[Oper]
      BY <2>1, <2>3 DEF SchedulerEffect, Sched, Oper
    <3>2. OperatingOK(Oper)'
      BY <1>2, <2>3, <3>1 DEF OperatingOK
    <3>3. pc'[Oper] \notin Busy
      BY <1>2, <2>3, <3>1 DEF OperatingOK, Operating, Reconciling, Busy, Trading
    <3>4. QED BY <2>3, <3>2, <3>3, NotBusy
  <2>4. QED
    BY <1>1, <2>1, <2>2, <2>3 DEF ThreadInv, SchedulerEffect
<1>4. ASSUME Oper \in Threads, Step(Oper) PROVE ThreadInv'
  <2>1. OperatorEffect(Oper)
    BY <1>4, OperStep
  <2>2. OperatingOK(Oper)' /\ pc'[Oper] \notin Busy
    BY <2>1 DEF OperatorEffect, OperatingOK, Operating, Reconciling, Busy, Trading
  <2>3. TradingOK(Oper)'
    BY <1>4, <2>2, NotBusy
  <2>4. pc'[Sched] = pc[Sched] /\ ord'[Sched] = ord[Sched] /\ GentleStep
    BY <2>1, ThreadsAssumption DEF OperatorEffect, Sched, Oper
  <2>5. pc[Sched] = "post" /\ ord[Sched] \in BuyOrders => UNCHANGED <<lock, halt, latch>>
    <3>1. pc[Sched] = "post" /\ ord[Sched] \in BuyOrders => lock # Nobody /\ ~halt
      BY <1>2, ThreadsAssumption DEF TradingOK, Sched, Nobody
    <3>2. QED BY <2>1, <3>1 DEF OperatorEffect
  <2>6. TradingOK(Sched)'
    BY <2>4, <2>5, ThreadsAssumption, Undisturbed
  <2>7. OperatingOK(Sched)'
    BY DEF OperatingOK, Sched, Oper
  <2>8. QED
    BY <1>1, <2>2, <2>3, <2>6, <2>7 DEF ThreadInv
<1>5. CASE Broker
  <2>1. GentleStep /\ UNCHANGED <<flags, locals>>
    BY <1>5 DEF Broker, BrokerAccept, BrokerFill, BrokerClose, GentleStep
  <2>2. \A t \in Threads : TradingOK(t)'
    BY <2>1, Undisturbed DEF flags, locals
  <2>3. \A t \in Threads : OperatingOK(t)'
    BY <1>2, <2>1 DEF OperatingOK, locals
  <2>4. QED BY <2>2, <2>3 DEF ThreadInv
<1>6. CASE Crash
  <2>1. \A t \in Threads : pc'[t] \notin Busy /\ (t = Oper => pc'[t] = "idle")
    BY <1>6 DEF Crash, Busy, Trading, Sched, Oper
  <2>2. QED
    BY <2>1, NotBusy DEF ThreadInv, OperatingOK, Operating, Reconciling
<1>7. QED
  BY <1>1, <1>3, <1>4, <1>5, <1>6 DEF Next

-----------------------------------------------------------------------------
(* The invariant and what follows from it.                                 *)

LEMMA InitIInv == Init => IInv
<1> SUFFICES ASSUME Init PROVE IInv
  OBVIOUS
<1> USE OrdersAssumption, MaxQtyAssumption, ThreadsAssumption, QtyAssumption DEF Init
<1>1. LedgerTypeOK /\ BrokerTypeOK /\ FlagsTypeOK
  <2>1. LedgerTypeOK
    BY DEF LedgerTypeOK
  <2>2. BrokerTypeOK
    BY DEF BrokerTypeOK
  <2>3. FlagsTypeOK
    <3>1. crashes \in 0..MaxCrashes
      BY DEF FlagsTypeOK
    <3>2. halt \in BOOLEAN /\ latch \in BOOLEAN /\ safe \in BOOLEAN
      OBVIOUS
    <3>3. QED BY <3>1, <3>2 DEF FlagsTypeOK
  <2>4. QED BY <2>1, <2>2, <2>3
<1>2. LocalsTypeOK
  BY DEF LocalsTypeOK, Labels, None, Unasked, NoHold, NoFresh
<1>3. FillChain /\ TerminalTruth /\ NeverForgotten /\ RowInv
  BY DEF FillChain, TerminalTruth, Closed, NeverForgotten, RowInv, TerminalStatuses
<1>4. ReceiptInv
  BY DEF ReceiptInv, Holding, None, Unasked
<1>5. ThreadInv
  BY DEF ThreadInv, OperatingOK, TradingOK, Operating, Reconciling, Trading
<1>6. QED
  BY <1>1, <1>2, <1>3, <1>4, <1>5 DEF IInv, TypeOK

LEMMA StutterIInv == IInv /\ UNCHANGED vars => IInv'
<1> SUFFICES ASSUME IInv, UNCHANGED vars PROVE IInv'
  OBVIOUS
<1> USE DEF vars, ledger, broker, flags, locals
<1>1. TypeOK'
  BY DEF IInv, TypeOK, LedgerTypeOK, BrokerTypeOK, FlagsTypeOK, LocalsTypeOK
<1>2. FillChain' /\ TerminalTruth' /\ NeverForgotten' /\ RowInv'
  BY DEF IInv, FillChain, TerminalTruth, NeverForgotten, Disowned, RowInv, Open, Closed
<1>3. ReceiptInv'
  BY DEF IInv, ReceiptInv, Fits
<1>4. ThreadInv'
  BY DEF IInv, ThreadInv, OperatingOK, TradingOK, Open
<1>5. QED
  BY <1>1, <1>2, <1>3, <1>4 DEF IInv

LEMMA NextIInv == IInv /\ [Next]_vars => IInv'
<1>1. IInv /\ Next => LedgerInv'
  BY InvSplit, NextStep, LedgerKept
<1>2. IInv /\ Next => IInv'
  BY <1>1, FlagsKept, LocalsKept, ReceiptsKept, ThreadsKept DEF IInv, LedgerInv, TypeOK
<1>3. QED BY <1>2, StutterIInv

(* IInv holds in every state the monitor, the reconciliation, the trades,  *)
(* the operator, the broker, crashes and restarts can lead to.             *)
THEOREM Invariance == Spec => []IInv
BY InitIInv, NextIInv, PTL DEF Spec

(* Every variable of the order flow keeps its type: no fill is negative or *)
(* beyond the size bound, no thread is at a label that does not exist.     *)
THEOREM TypeCorrect == Spec => []TypeOK
<1>1. IInv => TypeOK
  BY DEF IInv
<1>2. QED BY <1>1, Invariance, PTL

(* The position has been credited with no more of an order than its row    *)
(* shows, the row shows no more than the broker executed, and that is no   *)
(* more than was ordered (update_order, apply_core_fill).                  *)
THEOREM FillChainHolds == Spec => []FillChain
<1>1. IInv => FillChain
  BY DEF IInv
<1>2. QED BY <1>1, Invariance, PTL

(* A terminal row carries the broker's own final status and quantity, so   *)
(* nothing is lost when open_orders() stops returning it; the row of an    *)
(* order whose answer was misread as a refusal is the one exception, and   *)
(* has neither a broker id nor a fill (submit, update_order).              *)
THEOREM TerminalTruthHolds == Spec => []TerminalTruth
<1>1. IInv => TerminalTruth
  BY DEF IInv
<1>2. QED BY <1>1, Invariance, PTL

(* No order is POSTed twice, and none the broker took is dropped from the  *)
(* ledger without its broker id, through lost answers and crashes, unless  *)
(* its answer was misread as a refusal and is recorded as one (submit).    *)
THEOREM NeverForgottenHolds == Spec => []NeverForgotten
<1>1. IInv => NeverForgotten
  BY DEF IInv
<1>2. QED BY <1>1, Invariance, PTL

(* Once terminal, a row's status and filled quantity never change again,   *)
(* whatever receipt a second thread stores late (update_order).            *)
THEOREM SettledIsFinalHolds == Spec => SettledIsFinal
<1>1. IInv /\ [Next]_vars =>
        [\A o \in Closed : status'[o] = status[o] /\ filled'[o] = filled[o]]_vars
  BY InvSplit, NextStep, Settling
<1>2. QED BY <1>1, Invariance, PTL DEF Spec, SettledIsFinal

(* A step that POSTs a BUY is the POST of an order in flight.              *)
LEMMA BuyPosts ==
  ASSUME IInv, Next, NEW o \in BuyOrders, posts'[o] # posts[o]
  PROVE  ~halt /\ ~latch /\ Open = {o} /\ bstate[o] = "none"
<1> USE InvSplit
<1>1. PICK t \in Threads : Post(t)
  <2>1. ASSUME NEW t \in Threads, Monitor(t) PROVE UNCHANGED posts
    BY <2>1 DEF Monitor, MonStart, MonDone, MonStore, MonStaleCancel, MonCancelGet,
                MonCancelStore, MonApply, MonExpiredCancel, MonSettle, MonGet, MonGetFails,
                broker
  <2>2. ASSUME NEW t \in Threads, Reconcile(t) PROVE UNCHANGED posts
    BY <2>2 DEF Reconcile, RecRead, RecList, RecStore, RecApply, RecJudge, RecHoldings,
                RecCompare, RecGet, broker
  <2>3. ASSUME NEW t \in Threads, Trade(t), ~Post(t) PROVE UNCHANGED posts
    BY <2>3 DEF Trade, Quarantine, TryRelease, TradeSkip, BuyPrecheck, BuyReserveFails,
                BuyGate, RecordPost, Escalate, AllocReconcile, BuyReserve, SellSubmit,
                SellAgain, broker
  <2>4. ASSUME NEW t \in Threads, Operate(t) \/ Restart(t) PROVE UNCHANGED posts
    BY <2>4 DEF Operate, OperHalt, ResumeStart, ResumeClear, ResumeReopen, Restart, Start,
                RecoverDone, Recover, broker
  <2>5. ASSUME Broker \/ Crash PROVE UNCHANGED posts
    BY <2>5 DEF Broker, BrokerAccept, BrokerFill, BrokerClose, Crash, broker
  <2>6. QED
    BY <2>1, <2>2, <2>3, <2>4, <2>5 DEF Next, Step
<1>2. pc[t] = "post" /\ posts' = [posts EXCEPT ![ord[t]] = @ + 1]
  BY <1>1 DEF Post, At
<1>3. ord[t] = o
  BY <1>2 DEF LedgerInv, BrokerTypeOK, BuyOrders
<1>4. QED
  BY <1>2, <1>3 DEF IInv, ThreadInv, TradingOK, Trading, RowInv

(* /halt is a barrier: a BUY is POSTed under BUY_EXECUTION_LOCK, after a   *)
(* check of the gate that no halt can invalidate before the POST.          *)
THEOREM HaltBarrierHolds == Spec => HaltBarrier
<1>1. IInv /\ [Next]_vars =>
        [\A o \in BuyOrders : posts'[o] # posts[o] => ~halt /\ ~latch]_vars
  BY BuyPosts
<1>2. QED BY <1>1, Invariance, PTL DEF Spec, HaltBarrier

(* A BUY is POSTed only while its own row is the only open one, so an      *)
(* order recorded UNKNOWN stops all buying (execute_one), and no order is  *)
(* working at the broker but one the ledger disowned.                      *)
THEOREM BuysOneAtATimeHolds == Spec => BuysOneAtATime
<1>1. ASSUME IInv, Next, NEW o \in BuyOrders, posts'[o] # posts[o],
             NEW p \in Orders \ Disowned
      PROVE  ~Working(p)
  <2>1. Open = {o} /\ bstate[o] = "none"
    BY <1>1, BuyPosts
  <2>2. CASE p = o
    BY <2>1, <2>2 DEF Working
  <2>3. CASE p # o /\ status[p] = "NONE"
    BY <1>1, <2>3 DEF IInv, RowInv, Working
  <2>4. CASE p \in Closed
    BY <1>1, <2>4 DEF IInv, TerminalTruth, Closed, TerminalStatuses, Working
  <2>5. QED
    BY <1>1, <2>1, <2>2, <2>3, <2>4 DEF IInv, TypeOK, LedgerTypeOK, Open, Closed
<1>2. IInv /\ [Next]_vars =>
        [\A o \in BuyOrders : posts'[o] # posts[o] =>
           /\ Open = {o}
           /\ \A p \in Orders \ Disowned : ~Working(p)]_vars
  BY <1>1, BuyPosts
<1>3. QED BY <1>2, Invariance, PTL DEF Spec, BuysOneAtATime

(* A step that reopens the gate finds no open BUY in the ledger.           *)
LEMMA Reopens ==
  ASSUME IInv, Next, halt, ~halt'
  PROVE  BuyOrders \cap Open = {}
<1> USE DEF flags, EnterSafeMode
<1>1. ASSUME NEW t \in Threads, Monitor(t) PROVE UNCHANGED halt
  BY <1>1 DEF Monitor, MonStart, MonDone, MonStore, MonStaleCancel, MonCancelGet,
              MonCancelStore, MonApply, MonExpiredCancel, MonSettle, MonGet, MonGetFails
<1>2. ASSUME NEW t \in Threads, Reconcile(t) PROVE UNCHANGED halt
  BY <1>2 DEF Reconcile, RecRead, RecList, RecStore, RecApply, RecJudge, RecHoldings,
              RecCompare, RecGet
<1>3. ASSUME NEW t \in Threads, Trade(t) PROVE UNCHANGED halt \/ halt' \/ Open = {}
  BY <1>3 DEF Trade, Quarantine, TryRelease, TradeSkip, BuyPrecheck, BuyReserveFails,
              BuyGate, Post, RecordPost, Escalate, AllocReconcile, BuyReserve, SellSubmit,
              SellAgain
<1>4. ASSUME NEW t \in Threads, Operate(t) \/ Restart(t)
      PROVE  UNCHANGED halt \/ halt' \/ BuyOrders \cap Open = {}
  BY <1>4 DEF Operate, OperHalt, ResumeStart, ResumeClear, ResumeReopen, Restart, Start,
              RecoverDone, Recover
<1>5. ASSUME Broker \/ Crash PROVE UNCHANGED halt
  BY <1>5 DEF Broker, BrokerAccept, BrokerFill, BrokerClose, Crash
<1>6. QED
  BY <1>1, <1>2, <1>3, <1>4, <1>5 DEF Next, Step

(* When the gate reopens, by an automatic release or by /resume, no BUY    *)
(* but a disowned one is working at the broker, and every fill of the      *)
(* others is in the ledger.                                                *)
THEOREM GateReopensSettledHolds == Spec => GateReopensSettled
<1>1. ASSUME IInv, Next, halt, ~halt', NEW o \in BuyOrders \ Disowned
      PROVE  ~Working(o) /\ filled[o] = bfilled[o]
  <2> USE DEF Working
  <2>1. o \in Orders /\ o \notin Open
    BY <1>1, Reopens DEF BuyOrders
  <2>2. CASE status[o] = "NONE"
    BY <1>1, <2>1, <2>2 DEF IInv, RowInv
  <2>3. CASE o \in Closed
    <3>1. bstate[o] \in TerminalStatuses \cup {"none"}
      BY <1>1, <2>3 DEF IInv, TerminalTruth, Closed
    <3>2. filled[o] = bfilled[o]
      BY <1>1, <2>1, <2>3
         DEF IInv, TypeOK, LedgerTypeOK, BrokerTypeOK, TerminalTruth, FillChain
    <3>3. QED BY <3>1, <3>2 DEF TerminalStatuses
  <2>4. QED
    BY <1>1, <2>1, <2>2, <2>3 DEF IInv, TypeOK, LedgerTypeOK, Open, Closed
<1>2. IInv /\ [Next]_vars =>
        [halt /\ ~halt' =>
           \A o \in BuyOrders \ Disowned : ~Working(o) /\ filled[o] = bfilled[o]]_vars
  BY <1>1
<1>3. QED BY <1>2, Invariance, PTL DEF Spec, GateReopensSettled

-----------------------------------------------------------------------------
(* The account and the target: sums over the orders of each side.          *)

(* What a row may still cost, or has cost.  A disowned SELL still counts   *)
(* in full, a disowned BUY for nothing, as in the code.                    *)
Committing == Open \cup (Disowned \cap SellOrders)
Commit == [o \in Orders |-> IF o \in Committing THEN ordered[o] ELSE filled[o]]

(* Position and account are what the orders of the two sides have moved. *)
MovedInv ==
  /\ qty = StartQty + Sum(applied, BuyOrders) - Sum(applied, SellOrders)
  /\ held = StartQty + Sum(bfilled, BuyOrders) - Sum(bfilled, SellOrders)

(* A generation trades in one direction, and what it is committed to ends at the target. *)
BoundInv ==
  /\ StartQty <= Target =>
       /\ \A o \in SellOrders : status[o] = "NONE"
       /\ StartQty + Sum(Commit, BuyOrders) <= Target
  /\ StartQty >= Target =>
       /\ \A o \in BuyOrders : status[o] = "NONE"
       /\ StartQty - Sum(Commit, SellOrders) >= Target

ShareInv == MovedInv /\ BoundInv

LEMMA SidesFinite ==
  /\ IsFiniteSet(BuyOrders) /\ IsFiniteSet(SellOrders)
  /\ BuyOrders \subseteq Orders /\ SellOrders \subseteq Orders
  /\ BuyOrders \cap SellOrders = {} /\ Orders = BuyOrders \cup SellOrders
BY OrdersAssumption, FS_Subset DEF BuyOrders

LEMMA QtyTypes == StartQty \in Nat /\ Target \in Nat /\ MaxQty \in Nat
BY QtyAssumption, MaxQtyAssumption

LEMMA CommitTyped ==
  ASSUME LedgerInv PROVE Commit \in [Orders -> Nat]
BY QtyTypes DEF Commit, LedgerInv, LedgerTypeOK

LEMMA TotalIs ==
  ASSUME NEW f PROVE Total(f) = Sum(f, DOMAIN f)
BY DEF Total, FoldFunction, FoldFunctionOnSet, MapThenFoldSet, Sum, Adds, Some

LEMMA TotalOn ==
  ASSUME NEW f, NEW S, IsFiniteSet(S) PROVE Total([o \in S |-> f[o]]) = Sum(f, S)
<1> DEFINE g == [o \in S |-> f[o]]
<1>1. \A o \in S : g[o] = f[o]
  OBVIOUS
<1>2. Sum(g, S) = Sum(f, S)
  <2> HIDE DEF g
  <2>1. QED BY <1>1, SumSame
<1>3. Total(g) = Sum(g, DOMAIN g)
  BY TotalIs
<1>4. QED BY <1>2, <1>3

(* What a row is committed to is at least what it has taken. *)
LEMMA CommitCovers ==
  ASSUME LedgerInv, NEW o \in Orders
  PROVE  /\ applied[o] <= Commit[o] /\ filled[o] <= Commit[o]
         /\ o \notin Disowned \cap BuyOrders =>
              /\ bfilled[o] <= Commit[o]
              /\ Working(o) => Commit[o] = ordered[o]
         /\ status[o] = "NONE" => Commit[o] = 0 /\ bfilled[o] = 0 /\ bstate[o] = "none"
<1>1. /\ applied[o] \in Nat /\ filled[o] \in Nat /\ bfilled[o] \in Nat /\ ordered[o] \in Nat
      /\ applied[o] <= filled[o] /\ filled[o] <= bfilled[o] /\ bfilled[o] <= ordered[o]
  BY QtyTypes DEF LedgerInv, LedgerTypeOK, BrokerTypeOK, FillChain
<1>2. CASE status[o] = "NONE"
  <2>1. o \notin Committing
    BY <1>2 DEF Committing, Disowned, Open, OpenStatuses
  <2>2. filled[o] = 0 /\ applied[o] = 0 /\ bstate[o] = "none" /\ bfilled[o] = 0
    BY <1>2 DEF LedgerInv, RowInv
  <2>3. QED BY <1>1, <2>1, <2>2 DEF Commit, Working
<1>3. CASE o \in Committing
  <2>1. status[o] # "NONE"
    BY <1>3 DEF Committing, Disowned, Open, OpenStatuses
  <2>2. Commit[o] = ordered[o]
    BY <1>3 DEF Commit
  <2>3. QED BY <1>1, <2>1, <2>2
<1>4. CASE o \in Closed /\ o \notin Committing
  <2>1. status[o] # "NONE" /\ Commit[o] = filled[o]
    BY <1>4 DEF Commit, Closed, TerminalStatuses
  <2>2. o \notin Disowned => ~Working(o) /\ (bfilled[o] = filled[o] \/ bfilled[o] = 0)
    BY <1>4 DEF LedgerInv, TerminalTruth, Closed, TerminalStatuses, Working
  <2>3. o \in Disowned => o \in BuyOrders
    BY <1>4 DEF Committing, BuyOrders
  <2>4. QED BY <1>1, <2>1, <2>2, <2>3
<1>5. QED
  BY <1>2, <1>3, <1>4 DEF LedgerInv, LedgerTypeOK, Committing, Open, Closed

-----------------------------------------------------------------------------
(* Only a reservation makes a new row.                                     *)

NoBirth == \A o \in Orders : status'[o] = "CREATED" => status[o] = "CREATED"

LEMMA UpdateNoBirth ==
  ASSUME LedgerTypeOK, NEW o, NEW s, NEW f, NEW known, UpdateOrder(o, s, f, known), s # "CREATED"
  PROVE  NoBirth
BY DEF NoBirth, UpdateOrder, LedgerTypeOK

LEMMA SameNoBirth == ASSUME UNCHANGED ledger PROVE NoBirth
BY DEF NoBirth, ledger

LEMMA ApplyNoBirth == ASSUME NEW o, ApplyCoreFill(o) PROVE NoBirth
BY DEF NoBirth, ApplyCoreFill

LEMMA ReceiptStatus == ASSUME IInv, NEW t \in Threads PROVE rcpt[t].status # "CREATED"
<1>1. rcpt[t] \in Receipts \cup {NoReceipt}
  BY DEF IInv, TypeOK, LocalsTypeOK
<1>2. QED BY <1>1 DEF Receipts, NoReceipt

Reserving == \E t \in Threads, o \in Orders : BuyReserve(t, o) \/ SellSubmit(t, o)

LEMMA Births == ASSUME IInv, Next PROVE NoBirth \/ Reserving
<1>1. LedgerTypeOK
  BY DEF IInv, TypeOK
<1>2. ASSUME NEW t \in Threads, Monitor(t) PROVE NoBirth
  <2>1. rcpt[t].status # "CREATED"
    BY ReceiptStatus
  <2>2. QED
    BY <1>1, <1>2, <2>1, UpdateNoBirth, SameNoBirth, ApplyNoBirth
       DEF Monitor, MonStart, MonDone, MonStore, MonStaleCancel, MonCancelGet,
           MonCancelStore, MonApply, MonExpiredCancel, MonSettle, MonGet, MonGetFails
<1>3. ASSUME NEW t \in Threads, Reconcile(t) PROVE NoBirth
  <2>1. rcpt[t].status # "CREATED"
    BY ReceiptStatus
  <2>2. QED
    BY <1>1, <1>3, <2>1, UpdateNoBirth, SameNoBirth, ApplyNoBirth
       DEF Reconcile, RecRead, RecList, RecStore, RecApply, RecJudge, RecHoldings,
           RecCompare, RecGet
<1>4. ASSUME NEW t \in Threads, Trade(t) PROVE NoBirth \/ Reserving
  BY <1>1, <1>4, UpdateNoBirth, SameNoBirth, ApplyNoBirth
     DEF Trade, Quarantine, TryRelease, TradeSkip, BuyPrecheck, BuyReserveFails, BuyGate,
         Post, RecordPost, Escalate, AllocReconcile, SellAgain, Reserving
<1>5. ASSUME NEW t \in Threads, Operate(t) \/ Restart(t) PROVE NoBirth
  BY <1>5, SameNoBirth, ApplyNoBirth
     DEF Operate, OperHalt, ResumeStart, ResumeClear, ResumeReopen, Restart, Start,
         RecoverDone, Recover
<1>6. ASSUME Broker \/ Crash PROVE NoBirth
  BY <1>6, SameNoBirth DEF Broker, BrokerAccept, BrokerFill, BrokerClose, Crash
<1>7. QED
  BY <1>2, <1>3, <1>4, <1>5, <1>6 DEF Next, Step

-----------------------------------------------------------------------------
(* Sums of the ledger and the broker.                                      *)

LEMMA SumsTyped ==
  ASSUME LedgerInv, NEW S, IsFiniteSet(S), S \subseteq Orders
  PROVE  /\ Sum(Commit, S) \in Nat /\ Sum(applied, S) \in Nat /\ Sum(bfilled, S) \in Nat
         /\ Sum(applied, S) <= Sum(Commit, S)
<1>1. \A o \in S : Commit[o] \in Nat /\ applied[o] \in Nat /\ bfilled[o] \in Nat
  BY CommitTyped, QtyTypes DEF LedgerInv, LedgerTypeOK, BrokerTypeOK
<1>2. \A o \in S : applied[o] <= Commit[o]
  BY CommitCovers
<1>3. \A o \in S : applied[o] \in Int /\ Commit[o] \in Int /\ applied[o] <= Commit[o]
  BY <1>1, <1>2
<1>4. Sum(Commit, S) \in Nat /\ Sum(applied, S) \in Nat /\ Sum(bfilled, S) \in Nat
  BY <1>1, SumNat
<1>5. Sum(applied, S) <= Sum(Commit, S)
  BY <1>3, SumAtMost
<1>6. QED BY <1>4, <1>5

LEMMA CommittedIs ==
  ASSUME LedgerInv PROVE CommittedBuy = Sum(Commit, BuyOrders) - Sum(applied, BuyOrders)
<1> DEFINE share == [o \in BuyOrders |->
                       (IF o \in Open THEN ordered[o] ELSE filled[o]) - applied[o]]
<1>1. CommittedBuy = Total(share)
  BY DEF CommittedBuy, Total
<1>2. Total(share) = Sum(share, BuyOrders)
  <2>1. DOMAIN share = BuyOrders
    OBVIOUS
  <2> HIDE DEF share
  <2>2. QED BY <2>1, TotalIs
<1>3. \A o \in BuyOrders : Commit[o] \in Int /\ applied[o] \in Int
  BY CommitTyped, SidesFinite, QtyTypes DEF LedgerInv, LedgerTypeOK
<1>4. \A o \in BuyOrders : share[o] = Commit[o] - applied[o]
  BY SidesFinite DEF Commit, Committing
<1>5. Sum(share, BuyOrders) = Sum(Commit, BuyOrders) - Sum(applied, BuyOrders)
  <2> HIDE DEF share
  <2>1. QED BY <1>3, <1>4, SidesFinite, SumMinus
<1>6. QED BY <1>1, <1>2, <1>5

(* A change of one order's value changes the sum of its side alone. *)
LEMMA SideChanges ==
  ASSUME NEW f, NEW g, NEW o \in Orders,
         \A p \in Orders : f[p] \in Int /\ g[p] \in Int,
         \A p \in Orders : p # o => g[p] = f[p]
  PROVE  /\ o \in BuyOrders => /\ Sum(g, BuyOrders) = Sum(f, BuyOrders) - f[o] + g[o]
                               /\ Sum(g, SellOrders) = Sum(f, SellOrders)
         /\ o \in SellOrders => /\ Sum(g, SellOrders) = Sum(f, SellOrders) - f[o] + g[o]
                                /\ Sum(g, BuyOrders) = Sum(f, BuyOrders)
<1>1. /\ \A p \in BuyOrders : f[p] \in Int /\ g[p] \in Int
      /\ \A p \in SellOrders : f[p] \in Int /\ g[p] \in Int
  BY SidesFinite
<1>2. ASSUME o \in BuyOrders
      PROVE  /\ Sum(g, BuyOrders) = Sum(f, BuyOrders) - f[o] + g[o]
             /\ Sum(g, SellOrders) = Sum(f, SellOrders)
  <2>1. \A p \in BuyOrders : p # o => g[p] = f[p]
    BY SidesFinite
  <2>2. \A p \in SellOrders : g[p] = f[p]
    BY <1>2, SidesFinite
  <2>3. Sum(g, SellOrders) = Sum(f, SellOrders)
    BY <2>2, SidesFinite, SumSame
  <2>4. Sum(g, BuyOrders) = Sum(f, BuyOrders) - f[o] + g[o]
    BY <1>1, <1>2, <2>1, SidesFinite, SumMoves
  <2>5. QED BY <2>3, <2>4
<1>3. ASSUME o \in SellOrders
      PROVE  /\ Sum(g, SellOrders) = Sum(f, SellOrders) - f[o] + g[o]
             /\ Sum(g, BuyOrders) = Sum(f, BuyOrders)
  <2>1. \A p \in SellOrders : p # o => g[p] = f[p]
    BY SidesFinite
  <2>2. \A p \in BuyOrders : g[p] = f[p]
    BY <1>3, SidesFinite
  <2>3. Sum(g, BuyOrders) = Sum(f, BuyOrders)
    BY <2>2, SidesFinite, SumSame
  <2>4. Sum(g, SellOrders) = Sum(f, SellOrders) - f[o] + g[o]
    BY <1>1, <1>3, <2>1, SidesFinite, SumMoves
  <2>5. QED BY <2>3, <2>4
<1>4. QED BY <1>2, <1>3

-----------------------------------------------------------------------------
(* What the steps do to the sums.                                          *)

Waning ==
  /\ \A o \in Orders : status[o] = "NONE" => status'[o] = "NONE"
  /\ \A o \in Orders : Commit'[o] <= Commit[o]

LEMMA BoundKept ==
  ASSUME LedgerInv, LedgerInv', BoundInv, Waning
  PROVE  BoundInv'
<1>1. \A o \in Orders : Commit[o] \in Int /\ Commit'[o] \in Int
  BY QtyTypes DEF Commit, LedgerInv, LedgerTypeOK
<1>2. ASSUME NEW S, IsFiniteSet(S), S \subseteq Orders
      PROVE  Sum(Commit', S) <= Sum(Commit, S) /\ Sum(Commit', S) \in Int
             /\ Sum(Commit, S) \in Int
  <2>1. \A o \in S : Commit'[o] \in Int /\ Commit[o] \in Int /\ Commit'[o] <= Commit[o]
    BY <1>1, <1>2 DEF Waning
  <2>2. (\A o \in S : Commit'[o] \in Int) /\ \A o \in S : Commit[o] \in Int
    BY <2>1
  <2>3. QED BY <1>2, <2>1, <2>2, SumAtMost, SumInt
<1>3. /\ Sum(Commit', BuyOrders) <= Sum(Commit, BuyOrders)
      /\ Sum(Commit', SellOrders) <= Sum(Commit, SellOrders)
      /\ Sum(Commit', BuyOrders) \in Int /\ Sum(Commit, BuyOrders) \in Int
      /\ Sum(Commit', SellOrders) \in Int /\ Sum(Commit, SellOrders) \in Int
  BY <1>2, SidesFinite
<1>4. StartQty <= Target => StartQty + Sum(Commit', BuyOrders) <= Target
  BY <1>3, QtyTypes DEF BoundInv
<1>5. StartQty >= Target => StartQty - Sum(Commit', SellOrders) >= Target
  BY <1>3, QtyTypes DEF BoundInv
<1>6. QED BY <1>4, <1>5, SidesFinite DEF BoundInv, Waning

LEMMA MovedKept == ASSUME MovedInv, UNCHANGED <<qty, applied, held, bfilled>> PROVE MovedInv'
BY DEF MovedInv

(* Nothing is committed or let go by a step that leaves the rows alone.    *)
LEMMA SameWanes ==
  ASSUME UNCHANGED <<status, ordered, filled>>,
         misread' # misread =>
           \E o \in Orders : status[o] = "CREATED" /\ misread' = misread \cup {o}
  PROVE  Waning \/ ~LedgerInv
<1>1. Commit' = Commit
  <2>1. Disowned' = Disowned
    BY DEF Disowned
  <2>2. QED BY <2>1 DEF Commit, Committing, Open
<1>2. ASSUME LedgerInv PROVE \A o \in Orders : Commit[o] <= Commit[o]
  BY <1>2, CommitTyped
<1>3. QED BY <1>1, <1>2 DEF Waning

LEMMA UpdateWanes ==
  ASSUME LedgerInv, LedgerInv', NEW o \in Orders, NEW s, NEW f, NEW known,
         TrueUpdate(o, s, f, known)
  PROVE  Waning
<1>1. /\ status[o] # "NONE" /\ status' = [status EXCEPT ![o] = s]
      /\ filled' = [filled EXCEPT ![o] = f] /\ ordered' = ordered /\ bfilled' = bfilled
      /\ misread' = misread
  BY DEF TrueUpdate, UpdateOrder, broker
<1>2. /\ status \in [Orders -> OpenStatuses \cup TerminalStatuses \cup {"NONE"}]
      /\ filled \in [Orders -> Nat] /\ ordered \in [Orders -> Nat] /\ bfilled \in [Orders -> Nat]
      /\ f \in Nat
  BY QtyTypes DEF LedgerInv, LedgerTypeOK, BrokerTypeOK, TrueUpdate
<1>3. \A p \in Orders : p # o => status'[p] = status[p] /\ filled'[p] = filled[p]
  BY <1>1
<1>4. status'[o] = s /\ filled'[o] = f
  BY <1>1, <1>2
<1>5. \A p \in Orders : p # o => Commit'[p] = Commit[p] /\ Commit[p] <= Commit[p]
  <2>1. \A p \in Orders : p # o => (p \in Committing' <=> p \in Committing)
    BY <1>1, <1>3 DEF Committing, Disowned, Open
  <2>2. \A p \in Orders : Commit[p] \in Int
    BY CommitTyped
  <2>3. QED BY <1>1, <1>3, <2>1, <2>2 DEF Commit
<1>6. f <= ordered[o] /\ (o \in Closed => s = status[o] /\ f <= filled[o])
  <2>1. f <= ordered[o] /\ (status[o] \in TerminalStatuses => s = status[o])
    BY <1>2 DEF TrueUpdate, UpdateOrder, Conflicts
  <2>2. f <= bfilled[o]
    BY DEF TrueUpdate
  <2>3. ASSUME o \in Closed PROVE f <= filled[o]
    <3>1. o \in misread => f = 0
      BY DEF TrueUpdate
    <3>2. o \notin misread => bfilled[o] = filled[o] \/ bfilled[o] = 0
      BY <2>3 DEF LedgerInv, TerminalTruth, Disowned
    <3>3. QED BY <1>2, <2>2, <3>1, <3>2
  <2>4. QED BY <2>1, <2>3 DEF Closed
<1>7. Commit'[o] <= Commit[o]
  <2>1. Commit'[o] = ordered[o] \/ Commit'[o] = f
    BY <1>1, <1>4 DEF Commit
  <2>2. CASE o \in Committing
    <3>1. Commit[o] = ordered[o]
      BY <2>2 DEF Commit
    <3>2. QED BY <1>2, <1>6, <2>1, <3>1
  <2>3. CASE o \in Closed /\ o \notin Committing
    <3>1. o \notin Committing'
      BY <1>1, <1>4, <1>6, <2>3 DEF Committing, Disowned, Open, Closed, OpenStatuses
    <3>2. Commit[o] = filled[o] /\ Commit'[o] = f
      BY <1>4, <2>3, <3>1 DEF Commit
    <3>3. QED BY <1>2, <1>6, <2>3, <3>2
  <2>4. QED BY <1>1, <1>2, <2>2, <2>3 DEF Committing, Open, Closed
<1>8. QED BY <1>1, <1>3, <1>5, <1>7 DEF Waning

LEMMA ApplyMoves ==
  ASSUME LedgerInv, LedgerInv', MovedInv, NEW o \in Orders, ApplyCoreFill(o), UNCHANGED broker
  PROVE  MovedInv'
<1>1. /\ applied' = [applied EXCEPT ![o] = filled[o]] /\ held' = held /\ bfilled' = bfilled
      /\ qty' = IF o \in SellOrders THEN qty - (filled[o] - applied[o])
                ELSE qty + (filled[o] - applied[o])
  BY DEF ApplyCoreFill, Delta, broker
<1>2. applied \in [Orders -> Nat] /\ filled \in [Orders -> Nat]
  BY QtyTypes DEF LedgerInv, LedgerTypeOK
<1>3. /\ applied'[o] = filled[o] /\ \A p \in Orders : p # o => applied'[p] = applied[p]
      /\ \A p \in Orders : applied[p] \in Int /\ applied'[p] \in Int
  BY <1>1, <1>2
<1>4. /\ o \in BuyOrders =>
           /\ Sum(applied', BuyOrders) = Sum(applied, BuyOrders) - applied[o] + applied'[o]
           /\ Sum(applied', SellOrders) = Sum(applied, SellOrders)
      /\ o \in SellOrders =>
           /\ Sum(applied', SellOrders) = Sum(applied, SellOrders) - applied[o] + applied'[o]
           /\ Sum(applied', BuyOrders) = Sum(applied, BuyOrders)
  BY <1>3, SideChanges
<1>5. Sum(applied, BuyOrders) \in Int /\ Sum(applied, SellOrders) \in Int
  BY SidesFinite, SumsTyped
<1>6. o \in BuyOrders \/ o \in SellOrders
  BY SidesFinite
<1>7. o \in BuyOrders => o \notin SellOrders
  BY SidesFinite
<1>8. qty' = StartQty + Sum(applied', BuyOrders) - Sum(applied', SellOrders)
  <2>1. filled[o] \in Int /\ applied[o] \in Int /\ applied'[o] = filled[o]
    BY <1>2, <1>3
  <2>2. qty = StartQty + Sum(applied, BuyOrders) - Sum(applied, SellOrders)
    BY DEF MovedInv
  <2>3. QED BY <1>1, <1>4, <1>5, <1>6, <1>7, <2>1, <2>2, QtyTypes
<1>9. QED BY <1>1, <1>8 DEF MovedInv

LEMMA FillMoves ==
  ASSUME LedgerInv, MovedInv, NEW o \in Orders, BrokerFill(o)
  PROVE  MovedInv'
<1>1. /\ bfilled' = [bfilled EXCEPT ![o] = bfilled[o] + 1] /\ UNCHANGED <<qty, applied>>
      /\ held' = IF o \in SellOrders THEN held - 1 ELSE held + 1
  BY DEF BrokerFill, ledger
<1>2. bfilled \in [Orders -> Nat]
  BY DEF LedgerInv, BrokerTypeOK
<1>3. /\ bfilled'[o] = bfilled[o] + 1 /\ \A p \in Orders : p # o => bfilled'[p] = bfilled[p]
      /\ \A p \in Orders : bfilled[p] \in Int /\ bfilled'[p] \in Int
  BY <1>1, <1>2
<1>4. /\ o \in BuyOrders =>
           /\ Sum(bfilled', BuyOrders) = Sum(bfilled, BuyOrders) - bfilled[o] + bfilled'[o]
           /\ Sum(bfilled', SellOrders) = Sum(bfilled, SellOrders)
      /\ o \in SellOrders =>
           /\ Sum(bfilled', SellOrders) = Sum(bfilled, SellOrders) - bfilled[o] + bfilled'[o]
           /\ Sum(bfilled', BuyOrders) = Sum(bfilled, BuyOrders)
  BY <1>3, SideChanges
<1>5. Sum(bfilled, BuyOrders) \in Int /\ Sum(bfilled, SellOrders) \in Int
  BY SidesFinite, SumsTyped
<1>6. (o \in BuyOrders \/ o \in SellOrders) /\ (o \in BuyOrders => o \notin SellOrders)
  BY SidesFinite
<1>7. held' = StartQty + Sum(bfilled', BuyOrders) - Sum(bfilled', SellOrders)
  <2>1. bfilled[o] \in Int /\ bfilled'[o] = bfilled[o] + 1
    BY <1>2, <1>3
  <2>2. held = StartQty + Sum(bfilled, BuyOrders) - Sum(bfilled, SellOrders)
    BY DEF MovedInv
  <2>3. QED BY <1>1, <1>4, <1>5, <1>6, <2>1, <2>2, QtyTypes
<1>8. QED BY <1>1, <1>7 DEF MovedInv

(* A row of n shares is new. *)
LEMMA ReserveCommits ==
  ASSUME LedgerInv, NEW o \in Orders, NEW n \in 1..MaxQty, ReserveOrder(o, n),
         UNCHANGED broker
  PROVE  /\ status[o] = "NONE" /\ Commit[o] = 0 /\ Commit'[o] = n
         /\ \A p \in Orders : p # o => status'[p] = status[p] /\ Commit'[p] = Commit[p]
         /\ \A p \in Orders : Commit[p] \in Int /\ Commit'[p] \in Int
<1>1. /\ status[o] = "NONE" /\ status' = [status EXCEPT ![o] = "CREATED"]
      /\ ordered' = [ordered EXCEPT ![o] = n] /\ filled' = filled /\ misread' = misread
  BY DEF ReserveOrder, broker
<1>2. /\ status \in [Orders -> OpenStatuses \cup TerminalStatuses \cup {"NONE"}]
      /\ ordered \in [Orders -> Nat] /\ filled \in [Orders -> Nat] /\ n \in Nat
  BY QtyTypes DEF LedgerInv, LedgerTypeOK
<1>3. Commit[o] = 0
  BY <1>1, CommitCovers
<1>4. /\ status'[o] = "CREATED" /\ ordered'[o] = n
      /\ \A p \in Orders : p # o => status'[p] = status[p] /\ ordered'[p] = ordered[p]
  BY <1>1, <1>2
<1>5. Commit'[o] = n
  BY <1>4 DEF Commit, Committing, Open, OpenStatuses
<1>6. \A p \in Orders : p # o => Commit'[p] = Commit[p]
  <2>1. \A p \in Orders : p # o => (p \in Committing' <=> p \in Committing)
    BY <1>1, <1>4 DEF Committing, Disowned, Open
  <2>2. QED BY <1>1, <1>4, <2>1 DEF Commit
<1>7. \A p \in Orders : Commit[p] \in Int
  BY CommitTyped
<1>8. \A p \in Orders : Commit'[p] \in Int
  BY <1>2, <1>5, <1>6, <1>7
<1>9. QED BY <1>1, <1>3, <1>4, <1>5, <1>6, <1>7, <1>8

(* No orders of a side, no shares of it. *)
LEMMA NoneMoved ==
  ASSUME LedgerInv, NEW S, IsFiniteSet(S), S \subseteq Orders,
         \A o \in S : status[o] = "NONE"
  PROVE  Sum(Commit, S) = 0 /\ Sum(applied, S) = 0 /\ Sum(bfilled, S) = 0
<1>1. \A o \in S : Commit[o] = 0 /\ bfilled[o] = 0
  BY CommitCovers
<1>2. \A o \in S : applied[o] = 0
  BY DEF LedgerInv, RowInv
<1>3. QED BY <1>1, <1>2, SumZero

(* The position is within what the generation is committed to. *)
LEMMA PositionBound ==
  ASSUME LedgerInv, ShareInv
  PROVE  /\ StartQty <= Target => qty <= Target /\ qty = StartQty + Sum(applied, BuyOrders)
         /\ StartQty >= Target => qty >= Target
<1>1. /\ Sum(Commit, BuyOrders) \in Nat /\ Sum(applied, BuyOrders) \in Nat
      /\ Sum(applied, BuyOrders) <= Sum(Commit, BuyOrders)
      /\ Sum(Commit, SellOrders) \in Nat /\ Sum(applied, SellOrders) \in Nat
      /\ Sum(applied, SellOrders) <= Sum(Commit, SellOrders)
  BY SidesFinite, SumsTyped
<1>2. qty = StartQty + Sum(applied, BuyOrders) - Sum(applied, SellOrders)
  BY DEF ShareInv, MovedInv
<1>3. ASSUME StartQty <= Target PROVE qty <= Target /\ qty = StartQty + Sum(applied, BuyOrders)
  <2>1. Sum(applied, SellOrders) = 0 /\ StartQty + Sum(Commit, BuyOrders) <= Target
    BY <1>3, SidesFinite, NoneMoved DEF ShareInv, BoundInv
  <2>2. QED BY <1>1, <1>2, <2>1, QtyTypes
<1>4. ASSUME StartQty >= Target PROVE qty >= Target
  <2>1. Sum(applied, BuyOrders) = 0 /\ StartQty - Sum(Commit, SellOrders) >= Target
    BY <1>4, SidesFinite, NoneMoved DEF ShareInv, BoundInv
  <2>2. QED BY <1>1, <1>2, <2>1, QtyTypes
<1>5. QED BY <1>3, <1>4

(* reserve_buy_order_with_managed_cash asks for no more than the target leaves. *)
LEMMA BuyBounded ==
  ASSUME LedgerInv, LedgerInv', ShareInv, NEW t, NEW o \in Orders, BuyReserve(t, o)
  PROVE  BoundInv'
<1>1. PICK n \in 1..MaxQty :
        n <= Target - qty - CommittedBuy /\ ReserveOrder(o, n) /\ UNCHANGED broker
  BY DEF BuyReserve
<1>2. /\ o \in BuyOrders /\ n \in Nat /\ n >= 1 /\ qty \in Int
  BY QtyTypes DEF BuyReserve, LedgerInv, LedgerTypeOK
<1>3. /\ Commit[o] = 0 /\ Commit'[o] = n
      /\ \A p \in Orders : p # o => status'[p] = status[p] /\ Commit'[p] = Commit[p]
      /\ \A p \in Orders : Commit[p] \in Int /\ Commit'[p] \in Int
  BY <1>1, ReserveCommits
<1>4. Sum(Commit', BuyOrders) = Sum(Commit, BuyOrders) - Commit[o] + Commit'[o]
  BY <1>2, <1>3, SideChanges
<1>5. /\ Sum(Commit, BuyOrders) \in Nat /\ Sum(applied, BuyOrders) \in Nat
      /\ Sum(applied, BuyOrders) <= Sum(Commit, BuyOrders)
  BY SidesFinite, SumsTyped
<1>6. n <= Target - qty - (Sum(Commit, BuyOrders) - Sum(applied, BuyOrders))
  BY <1>1, CommittedIs
<1>7. qty < Target
  BY <1>2, <1>5, <1>6, QtyTypes
<1>8. ~(StartQty >= Target)
  <2>1. StartQty >= Target => qty >= Target
    BY PositionBound
  <2>2. QED BY <1>2, <1>7, <2>1, QtyTypes
<1>9. StartQty <= Target /\ qty = StartQty + Sum(applied, BuyOrders)
  BY <1>8, PositionBound, QtyTypes
<1>10. StartQty + Sum(Commit', BuyOrders) <= Target
  BY <1>2, <1>3, <1>4, <1>5, <1>6, <1>9, QtyTypes
<1>11. \A p \in SellOrders : status'[p] = "NONE"
  BY <1>2, <1>3, <1>9, SidesFinite DEF ShareInv, BoundInv
<1>12. QED BY <1>8, <1>10, <1>11 DEF BoundInv

(* _sell_core asks for what the position has above the target, once. *)
LEMMA SellBounded ==
  ASSUME LedgerInv, LedgerInv', ShareInv, NEW t, NEW o \in Orders, SellSubmit(t, o)
  PROVE  BoundInv'
<1>1. PICK n \in 1..MaxQty : n = qty - Target /\ ReserveOrder(o, n) /\ UNCHANGED broker
  BY DEF SellSubmit
<1>2. /\ o \in SellOrders /\ n \in Nat /\ n >= 1 /\ qty \in Int /\ qty > Target
  BY QtyTypes DEF SellSubmit, LedgerInv, LedgerTypeOK
<1>3. /\ status[o] = "NONE" /\ Commit[o] = 0 /\ Commit'[o] = n
      /\ \A p \in Orders : p # o => status'[p] = status[p] /\ Commit'[p] = Commit[p]
      /\ \A p \in Orders : Commit[p] \in Int /\ Commit'[p] \in Int
  BY <1>1, ReserveCommits
<1>4. Sum(Commit', SellOrders) = Sum(Commit, SellOrders) - Commit[o] + Commit'[o]
  BY <1>2, <1>3, SideChanges
<1>5. \A p \in SellOrders : status[p] = "NONE"
  BY <1>2, <1>3, SellAssumption
<1>6. Sum(Commit, SellOrders) = 0 /\ Sum(applied, SellOrders) = 0
  BY <1>5, SidesFinite, NoneMoved
<1>7. ~(StartQty <= Target)
  <2>1. StartQty <= Target => qty <= Target
    BY PositionBound
  <2>2. QED BY <1>2, <2>1, QtyTypes
<1>8. StartQty >= Target
  BY <1>7, QtyTypes
<1>9. \A p \in BuyOrders : status[p] = "NONE"
  BY <1>8 DEF ShareInv, BoundInv
<1>10. Sum(applied, BuyOrders) = 0
  BY <1>9, SidesFinite, NoneMoved
<1>11. qty = StartQty + Sum(applied, BuyOrders) - Sum(applied, SellOrders)
  BY DEF ShareInv, MovedInv
<1>12. StartQty - Sum(Commit', SellOrders) >= Target
  BY <1>1, <1>2, <1>3, <1>4, <1>6, <1>10, <1>11, QtyTypes
<1>13. \A p \in BuyOrders : status'[p] = "NONE"
  BY <1>2, <1>3, <1>9, SidesFinite
<1>14. QED BY <1>7, <1>12, <1>13 DEF BoundInv

-----------------------------------------------------------------------------
(* The invariant of the sums, and the two theorems.                        *)

LEMMA InitShare == Init => ShareInv
<1> SUFFICES ASSUME Init PROVE ShareInv
  OBVIOUS
<1>1. \A o \in Orders : /\ status[o] = "NONE" /\ applied[o] = 0 /\ bfilled[o] = 0
                        /\ filled[o] = 0 /\ o \notin misread
  BY DEF Init
<1>2. qty = StartQty /\ held = StartQty
  BY DEF Init
<1>3. \A o \in Orders : Commit[o] = 0
  BY <1>1 DEF Commit, Committing, Disowned, Open, OpenStatuses
<1>4. ASSUME NEW S, IsFiniteSet(S), S \subseteq Orders
      PROVE  Sum(Commit, S) = 0 /\ Sum(applied, S) = 0 /\ Sum(bfilled, S) = 0
  <2>1. /\ \A o \in S : Commit[o] = 0
        /\ \A o \in S : applied[o] = 0
        /\ \A o \in S : bfilled[o] = 0
    BY <1>1, <1>3, <1>4
  <2>2. QED BY <1>4, <2>1, SumZero
<1>5. /\ Sum(Commit, BuyOrders) = 0 /\ Sum(applied, BuyOrders) = 0 /\ Sum(bfilled, BuyOrders) = 0
      /\ Sum(Commit, SellOrders) = 0 /\ Sum(applied, SellOrders) = 0
      /\ Sum(bfilled, SellOrders) = 0
  BY <1>4, SidesFinite
<1>6. MovedInv
  BY <1>2, <1>5, QtyTypes DEF MovedInv
<1>7. BoundInv
  BY <1>1, <1>5, SidesFinite, QtyTypes DEF BoundInv
<1>8. QED BY <1>6, <1>7 DEF ShareInv

LEMMA ShareKept == IInv /\ ShareInv /\ [Next]_vars => ShareInv'
<1> SUFFICES ASSUME IInv, ShareInv, [Next]_vars PROVE ShareInv'
  OBVIOUS
<1>1. LedgerInv /\ LedgerInv'
  <2>1. IInv'
    BY NextIInv
  <2>2. QED BY <2>1 DEF IInv, LedgerInv, TypeOK
<1>2. MovedInv /\ BoundInv
  BY DEF ShareInv
<1>3. ASSUME UNCHANGED <<ledger, broker>> PROVE ShareInv'
  <2>1. /\ UNCHANGED <<qty, applied, held, bfilled>> /\ UNCHANGED <<status, ordered, filled>>
        /\ misread' = misread
    BY <1>3 DEF ledger, broker
  <2>2. QED BY <1>1, <1>2, <2>1, MovedKept, SameWanes, BoundKept DEF ShareInv
<1>4. ASSUME Next PROVE ShareInv'
  <2>1. LedgerStep
    BY <1>4, NextStep
  <2>2. ASSUME NEW o \in Orders, NEW s, NEW f, NEW known, TrueUpdate(o, s, f, known)
        PROVE  ShareInv'
    <3>1. UNCHANGED <<qty, applied, held, bfilled>>
      BY <2>2 DEF TrueUpdate, UpdateOrder, broker
    <3>2. MovedInv'
      BY <1>2, <3>1, MovedKept
    <3>3. BoundInv'
      BY <1>1, <1>2, <2>2, UpdateWanes, BoundKept
    <3>4. QED BY <3>2, <3>3 DEF ShareInv
  <2>3. ASSUME NEW o \in Orders, ApplyCoreFill(o), UNCHANGED broker PROVE ShareInv'
    <3>1. UNCHANGED <<status, ordered, filled>> /\ misread' = misread
      BY <2>3 DEF ApplyCoreFill, broker
    <3>2. MovedInv'
      BY <1>1, <1>2, <2>3, ApplyMoves
    <3>3. BoundInv'
      BY <1>1, <1>2, <3>1, SameWanes, BoundKept
    <3>4. QED BY <3>2, <3>3 DEF ShareInv
  <2>4. ASSUME NEW o \in Orders, NEW n \in 1..MaxQty, ReserveOrder(o, n), UNCHANGED broker
        PROVE  ShareInv'
    <3>1. UNCHANGED <<qty, applied, held, bfilled>>
      BY <2>4 DEF ReserveOrder, broker
    <3>2. MovedInv'
      BY <1>2, <3>1, MovedKept
    <3>3. ~NoBirth
      <4>1. status[o] = "NONE" /\ status'[o] = "CREATED"
        BY <1>1, <2>4 DEF ReserveOrder, LedgerInv, LedgerTypeOK
      <4>2. QED BY <4>1 DEF NoBirth
    <3>4. BoundInv'
      BY <1>1, <1>4, <3>3, Births, BuyBounded, SellBounded DEF Reserving
    <3>5. QED BY <3>2, <3>4 DEF ShareInv
  <2>5. ASSUME NEW o \in Orders, NEW b, FirstPost(o, b) PROVE ShareInv'
    <3>1. /\ UNCHANGED <<qty, applied, held, bfilled>> /\ UNCHANGED <<status, ordered, filled>>
          /\ misread' # misread => status[o] = "CREATED" /\ misread' = misread \cup {o}
      BY <2>5 DEF FirstPost, ledger
    <3>2. QED BY <1>1, <1>2, <3>1, MovedKept, SameWanes, BoundKept DEF ShareInv
  <2>6. ASSUME NEW o \in Orders, BrokerAccept(o) \/ BrokerClose(o) PROVE ShareInv'
    <3>1. /\ UNCHANGED <<qty, applied, held, bfilled>> /\ UNCHANGED <<status, ordered, filled>>
          /\ misread' = misread
      BY <2>6 DEF BrokerAccept, BrokerClose, ledger
    <3>2. QED BY <1>1, <1>2, <3>1, MovedKept, SameWanes, BoundKept DEF ShareInv
  <2>7. ASSUME NEW o \in Orders, BrokerFill(o) PROVE ShareInv'
    <3>1. UNCHANGED <<status, ordered, filled>> /\ misread' = misread
      BY <2>7 DEF BrokerFill, ledger
    <3>2. MovedInv'
      BY <1>1, <1>2, <2>7, FillMoves
    <3>3. BoundInv'
      BY <1>1, <1>2, <3>1, SameWanes, BoundKept
    <3>4. QED BY <3>2, <3>3 DEF ShareInv
  <2>8. QED
    BY <1>3, <2>1, <2>2, <2>3, <2>4, <2>5, <2>6, <2>7 DEF LedgerStep
<1>5. QED BY <1>3, <1>4 DEF vars

LEMMA ShareHolds == Spec => []ShareInv
<1>1. IInv /\ ShareInv /\ [Next]_vars => ShareInv'
  BY ShareKept
<1>2. QED BY <1>1, InitShare, Invariance, PTL DEF Spec

(* Each fill is in the position once, whoever applied it and however often *)
(* it was tried (apply_core_fill).                                         *)
THEOREM ConservationHolds == Spec => []Conservation
<1>1. ShareInv => Conservation
  <2> SUFFICES ASSUME ShareInv PROVE Conservation
    OBVIOUS
  <2>1. /\ Total([o \in BuyOrders |-> applied[o]]) = Sum(applied, BuyOrders)
        /\ Total([o \in SellOrders |-> applied[o]]) = Sum(applied, SellOrders)
    BY SidesFinite, TotalOn
  <2>2. QED BY <2>1 DEF ShareInv, MovedInv, Conservation
<1>2. QED BY <1>1, ShareHolds, PTL

(* What the broker may still trade for the generation ends at the target,  *)
(* never past it, but for what a BUY that the ledger disowned buys: it is  *)
(* left out of the account here as the ledger leaves it out of what is     *)
(* committed (reserve_buy_order_with_managed_cash, _sell_core).            *)
THEOREM AccountWithinTargetHolds == Spec => []AccountWithinTarget
<1>1. IInv /\ ShareInv => AccountWithinTarget
  <2> SUFFICES ASSUME IInv, ShareInv PROVE AccountWithinTarget
    OBVIOUS
  <2>1. LedgerInv
    BY DEF IInv, LedgerInv, TypeOK
  <2> DEFINE lost(o) == o \in Disowned /\ o \in BuyOrders
             work == [o \in Orders |-> IF lost(o) THEN -bfilled[o]
                                       ELSE IF Working(o) THEN ordered[o] - bfilled[o] ELSE 0]
             left == [o \in Orders |-> Commit[o] - bfilled[o]]
  <2>2. \A o \in Orders : Commit[o] \in Int /\ bfilled[o] \in Int /\ ordered[o] \in Int
    BY <2>1, CommitTyped, QtyTypes DEF LedgerInv, LedgerTypeOK, BrokerTypeOK
  <2>3. \A o \in Orders : work[o] \in Int /\ left[o] \in Int /\ work[o] <= left[o]
    <3> SUFFICES ASSUME NEW o \in Orders
                 PROVE  work[o] \in Int /\ left[o] \in Int /\ work[o] <= left[o]
      OBVIOUS
    <3>1. Commit[o] \in Nat /\ bfilled[o] \in Int /\ ordered[o] \in Int
      BY <2>1, <2>2, CommitTyped
    <3>2. ~lost(o) => bfilled[o] <= Commit[o] /\ (Working(o) => Commit[o] = ordered[o])
      BY <2>1, CommitCovers
    <3> HIDE DEF lost
    <3>3. QED BY <3>1, <3>2
  <2>4. \A o \in Orders : left[o] = Commit[o] - bfilled[o]
    OBVIOUS
  <2>5. ASSUME NEW S, IsFiniteSet(S), S \subseteq Orders
        PROVE  /\ Sum(work, S) <= Sum(Commit, S) - Sum(bfilled, S)
               /\ Sum(work, S) \in Int
    <3> HIDE DEF work, left
    <3>1. \A o \in S : work[o] \in Int /\ left[o] \in Int /\ work[o] <= left[o]
      BY <2>3, <2>5
    <3>2. \A o \in S : /\ Commit[o] \in Int /\ bfilled[o] \in Int
                       /\ left[o] = Commit[o] - bfilled[o]
      BY <2>2, <2>4, <2>5
    <3>3. Sum(work, S) <= Sum(left, S)
      BY <2>5, <3>1, SumAtMost
    <3>4. Sum(left, S) = Sum(Commit, S) - Sum(bfilled, S)
      BY <2>5, <3>2, SumMinus
    <3>5. \A o \in S : work[o] \in Int
      BY <3>1
    <3>6. Sum(work, S) \in Int
      BY <2>5, <3>5, SumInt
    <3>7. QED BY <3>3, <3>4, <3>6
  <2>6. /\ Sum(work, BuyOrders) <= Sum(Commit, BuyOrders) - Sum(bfilled, BuyOrders)
        /\ Sum(work, SellOrders) <= Sum(Commit, SellOrders) - Sum(bfilled, SellOrders)
        /\ Sum(work, BuyOrders) \in Int /\ Sum(work, SellOrders) \in Int
    <3> HIDE DEF work
    <3>1. QED BY <2>5, SidesFinite
  <2>7. /\ Sum(Commit, BuyOrders) \in Nat /\ Sum(bfilled, BuyOrders) \in Nat
        /\ Sum(Commit, SellOrders) \in Nat /\ Sum(bfilled, SellOrders) \in Nat
    BY <2>1, SidesFinite, SumsTyped
  <2>8. held = StartQty + Sum(bfilled, BuyOrders) - Sum(bfilled, SellOrders)
    BY DEF ShareInv, MovedInv
  <2>9. ASSUME StartQty <= Target PROVE held + Sum(work, BuyOrders) <= Target
    <3>1. Sum(bfilled, SellOrders) = 0 /\ StartQty + Sum(Commit, BuyOrders) <= Target
      BY <2>1, <2>9, SidesFinite, NoneMoved DEF ShareInv, BoundInv
    <3> HIDE DEF work
    <3>2. QED BY <2>6, <2>7, <2>8, <3>1, QtyTypes
  <2>10. ASSUME StartQty >= Target PROVE held - Sum(work, SellOrders) >= Target
    <3>1. Sum(bfilled, BuyOrders) = 0 /\ StartQty - Sum(Commit, SellOrders) >= Target
      BY <2>1, <2>10, SidesFinite, NoneMoved DEF ShareInv, BoundInv
    <3> HIDE DEF work
    <3>2. QED BY <2>6, <2>7, <2>8, <3>1, QtyTypes
  <2> DEFINE working(o) == IF Working(o) THEN ordered[o] - bfilled[o] ELSE 0
             counted(o) == IF o \in Disowned THEN -bfilled[o] ELSE working(o)
  <2>11. /\ [o \in BuyOrders |-> counted(o)] = [o \in BuyOrders |-> work[o]]
         /\ [o \in SellOrders |-> working(o)] = [o \in SellOrders |-> work[o]]
    BY SidesFinite
  <2>12. /\ Total([o \in BuyOrders |-> counted(o)]) = Sum(work, BuyOrders)
         /\ Total([o \in SellOrders |-> working(o)]) = Sum(work, SellOrders)
    <3> HIDE DEF work
    <3>1. /\ Total([o \in BuyOrders |-> work[o]]) = Sum(work, BuyOrders)
          /\ Total([o \in SellOrders |-> work[o]]) = Sum(work, SellOrders)
      BY SidesFinite, TotalOn
    <3>2. QED BY <2>11, <3>1
  <2>13. QED BY <2>9, <2>10, <2>12 DEF AccountWithinTarget
<1>2. QED BY <1>1, ShareHolds, Invariance, PTL
=============================================================================
