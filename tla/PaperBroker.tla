----------------------------- MODULE PaperBroker -----------------------------
(***************************************************************************)
(* The dry-run broker and the start of the dry-run bot.  DryRunBroker holds *)
(* the paper account in memory: orders, holdings and the number of the last *)
(* order.  The database holds the order rows and the position.  A process   *)
(* that ends loses the first; bot.main rebuilds it from the second, after   *)
(* applying the fills that had not reached the position.                    *)
(* One symbol, whole fills, one share an order.  A call of the broker is a  *)
(* step, a transaction of the database is a step, and two threads of the    *)
(* bot (the handlers and the monitor) interleave between them.              *)
(***************************************************************************)
EXTENDS Integers, FiniteSets

CONSTANTS
    PaperBuys, PaperSells,   \* client order ids
    PaperThreads,            \* threads that work on orders
    MaxStarts                \* bound on the restarts

ASSUME PaperAssumption == PaperBuys \cap PaperSells = {} /\ MaxStarts \in Nat

(* Orders are rows of a table.  One generation is followed, and _sell_core derives its
   sale's client order id from the generation: there is one. *)
ASSUME PaperRowsAssumption == IsFiniteSet(PaperBuys) /\ IsFiniteSet(PaperSells)
ASSUME PaperSaleAssumption == \A o, p \in PaperSells : o = p

VARIABLES
    row,       \* orders table: status, DRY number (0: none), filled
    credited,  \* core_fill_progress: fills already in the position
    shares,    \* core_positions.qty
    dry,       \* broker.orders: DRY number -> client order id, status
    stock,     \* broker.holdings
    lastDry,   \* broker.sequence
    task,      \* what each thread is doing, with the receipt it carries
    starts     \* restarts so far

rowVars == <<row, credited, shares>>
brokerMemory == <<dry, stock, lastDry>>
paperVars == <<row, credited, shares, dry, stock, lastDry, task, starts>>

PaperOrders == PaperBuys \cup PaperSells
Statuses == {"CREATED", "PENDING", "FILLED", "CANCELED", "UNKNOWN"}
Live_ == {"CREATED", "PENDING", "UNKNOWN"}    \* the OPEN_ORDER_STATUSES met here

Rest == [at |-> "rest"]
Idle(t) == task[t].at = "rest"
Doing(t, at) == task[t].at = at

(* The quantity an order moves when it fills. *)
Moves(o, qty) == IF o \in PaperBuys THEN qty + 1 ELSE qty - 1

(* Rows the monitor asks the broker about. *)
Asked == {o \in PaperOrders : row[o].status \in Live_ /\ row[o].dry # 0}

(* A snapshot the broker returns for an order it knows. *)
Receipt(o, n, status) ==
    [at |-> "store", order |-> o, dry |-> n, status |-> status]

-----------------------------------------------------------------------------
(* OrderManager.submit reserves the row; SELLs only what is held and free. *)
PaperReserve(t, o) ==
    /\ Idle(t)
    /\ row[o].status = "NONE"
    /\ o \in PaperSells =>
         Cardinality({p \in PaperSells : row[p].status \in Live_}) < shares
    /\ row' = [row EXCEPT ![o].status = "CREATED"]
    /\ task' = [task EXCEPT ![t] = [at |-> "place", order |-> o]]
    /\ UNCHANGED <<credited, shares, brokerMemory, starts>>

(* place_order: a new number, and the fill when the price allows it. *)
PaperPlace(t) ==
    /\ Doing(t, "place")
    /\ LET o == task[t].order
           n == lastDry + 1
       IN  \E status \in {"PENDING", "FILLED"} :
             /\ lastDry' = n
             /\ dry' = [m \in DOMAIN dry \cup {n} |->
                          IF m = n THEN [order |-> o, status |-> status] ELSE dry[m]]
             /\ stock' = IF status = "FILLED" THEN Moves(o, stock) ELSE stock
             /\ task' = [task EXCEPT ![t] = Receipt(o, n, status)]
    /\ UNCHANGED <<rowVars, starts>>

(* No price: the number is used up and the row becomes UNKNOWN. *)
PaperPlaceFails(t) ==
    /\ Doing(t, "place")
    /\ lastDry' = lastDry + 1
    /\ row' = [row EXCEPT ![task[t].order].status = "UNKNOWN"]
    /\ task' = [task EXCEPT ![t] = Rest]
    /\ UNCHANGED <<credited, shares, dry, stock, starts>>

(* refresh_order asks for the order: a price that crosses fills it now. *)
PaperGet(t, o) ==
    /\ Idle(t)
    /\ o \in Asked
    /\ row[o].dry \in DOMAIN dry
    /\ LET n == row[o].dry
       IN  \E status \in IF dry[n].status = "PENDING" THEN {"PENDING", "FILLED"}
                                                      ELSE {dry[n].status} :
             /\ dry' = [dry EXCEPT ![n].status = status]
             /\ stock' = IF dry[n].status = "PENDING" /\ status = "FILLED"
                         THEN Moves(dry[n].order, stock) ELSE stock
             /\ task' = [task EXCEPT ![t] = Receipt(o, n, status)]
    /\ UNCHANGED <<rowVars, lastDry, starts>>

(* cancel_order before a refresh: a pending order only. *)
PaperCancel(t, o) ==
    /\ Idle(t)
    /\ o \in Asked
    /\ row[o].dry \in DOMAIN dry
    /\ LET n == row[o].dry
           status == IF dry[n].status = "PENDING" THEN "CANCELED" ELSE dry[n].status
       IN  /\ dry' = [dry EXCEPT ![n].status = status]
           /\ task' = [task EXCEPT ![t] = Receipt(o, n, status)]
    /\ UNCHANGED <<rowVars, stock, lastDry, starts>>

(* update_order with the receipt; an old receipt of a settled row raises. *)
PaperStore(t) ==
    /\ Doing(t, "store")
    /\ LET o == task[t].order
           settled == row[o].status \in {"FILLED", "CANCELED"}
       IN  IF settled /\ row[o].status # task[t].status
           THEN /\ task' = [task EXCEPT ![t] = Rest]
                /\ UNCHANGED row
           ELSE /\ row' = [row EXCEPT ![o].status = task[t].status, ![o].dry = task[t].dry]
                /\ task' = [task EXCEPT ![t] = [at |-> "apply", order |-> o]]
    /\ UNCHANGED <<credited, shares, brokerMemory, starts>>

(* Orders whose fill is not in the position. *)
Uncredited == {o \in PaperOrders : row[o].status = "FILLED" /\ o \notin credited}

(* apply_core_fill: once, whoever comes first. *)
PaperApply(t) ==
    /\ Doing(t, "apply")
    /\ IF task[t].order \in Uncredited
       THEN /\ credited' = credited \cup {task[t].order}
            /\ shares' = Moves(task[t].order, shares)
       ELSE UNCHANGED <<credited, shares>>
    /\ task' = [task EXCEPT ![t] = Rest]
    /\ UNCHANGED <<row, brokerMemory, starts>>

-----------------------------------------------------------------------------
(* bot.main after a process end. *)

(* recover_unapplied_core_fills: the position after the missing fills. *)
Recovered ==
    shares + Cardinality(Uncredited \cap PaperBuys)
           - Cardinality(Uncredited \cap PaperSells)

(* Mutant: the holdings are restored before the fills are recovered. *)
RestoredStockFirst == shares

(* restore_dry_run_holdings, from the recovered position. *)
RestoredStock == Recovered

(* restore_dry_run_orders: provable open orders come back as PENDING. *)
RestoredOrders ==
    LET back == {o \in Asked : row[o].status \in {"CREATED", "PENDING"}}
    IN  [n \in {row[o].dry : o \in back} |->
           [order |-> CHOOSE o \in back : row[o].dry = n, status |-> "PENDING"]]

(* Mutant: only the numbers of open orders count. *)
RestoredNumberOpen ==
    CHOOSE n \in {0} \cup {row[o].dry : o \in Asked} :
      \A o \in Asked : row[o].dry <= n

(* ... and the highest number ever recorded is where numbering goes on. *)
RestoredNumber ==
    CHOOSE n \in {0} \cup {row[o].dry : o \in PaperOrders} :
      \A o \in PaperOrders : row[o].dry <= n

PaperRestart ==
    /\ starts < MaxStarts
    /\ starts' = starts + 1
    /\ credited' = credited \cup Uncredited
    /\ shares' = Recovered
    /\ stock' = RestoredStock
    /\ dry' = RestoredOrders
    /\ lastDry' = RestoredNumber
    /\ task' = [t \in PaperThreads |-> Rest]
    /\ UNCHANGED row

PaperInit ==
    /\ row = [o \in PaperOrders |-> [status |-> "NONE", dry |-> 0]]
    /\ credited = {}
    /\ shares = 0 /\ stock = 0
    /\ dry = [n \in {} |-> Rest]
    /\ lastDry = 0
    /\ task = [t \in PaperThreads |-> Rest]
    /\ starts = 0

PaperStep(t) ==
    \/ \E o \in PaperOrders : PaperReserve(t, o) \/ PaperGet(t, o) \/ PaperCancel(t, o)
    \/ PaperPlace(t)
    \/ PaperPlaceFails(t)
    \/ PaperStore(t)
    \/ PaperApply(t)

PaperNext == PaperRestart \/ \E t \in PaperThreads : PaperStep(t)

PaperSpec == PaperInit /\ [][PaperNext]_paperVars

-----------------------------------------------------------------------------
PaperTypeOK ==
    /\ \A o \in PaperOrders : row[o].status \in Statuses \cup {"NONE"} /\ row[o].dry \in Nat
    /\ credited \subseteq PaperOrders
    /\ shares \in Nat /\ stock \in Nat /\ lastDry \in Nat
    /\ \A t \in PaperThreads :
         task[t].at \in {"rest", "place", "store", "apply"}

(* A DRY number recorded in a row is never given to another order, the      *)
(* numbers of settled orders from before a restart included.                *)
DryNumberIsOne ==
    \A o, p \in PaperOrders : o # p /\ row[o].dry # 0 => row[o].dry # row[p].dry

(* Whenever no thread is in the middle of an order, restarts between any    *)
(* two steps included, what reconciliation compares agrees: the paper       *)
(* holdings are the position, and the orders the paper broker has pending   *)
(* are the rows that name them; get_order never meets an unknown number,    *)
(* nor the number of another order.                                         *)
PaperAgrees ==
    /\ DryNumberIsOne
    /\ (\A t \in PaperThreads : Idle(t)) =>
         /\ stock = shares
         /\ {<<n, dry[n].order>> : n \in {m \in DOMAIN dry : dry[m].status = "PENDING"}}
              = {<<row[o].dry, o>> : o \in Asked}
=============================================================================
