----------------------------- MODULE OrderFlow -----------------------------
(***************************************************************************)
(* One allocation generation of one symbol in the live process: the        *)
(* scheduler thread (order monitor, reconciliation, quarantine release,    *)
(* one automatic BUY, one risk-reducing SELL), the Telegram thread (/halt  *)
(* and /resume), the broker, and the end and restart of the process.       *)
(*                                                                         *)
(* A broker read, a ledger transaction and a system-flag write are steps   *)
(* of their own wherever another thread, the broker or a crash can come    *)
(* in between.  target is the frozen target_qty of the generation.         *)
(*                                                                         *)
(* The broker is external: it is modelled from what the code may see of    *)
(* it.  A cancel request changes nothing at once; an open order may be     *)
(* ended by the broker at any time (a cancel taking effect, the DAY order  *)
(* expiring), so that step is BrokerClose.                                 *)
(***************************************************************************)
EXTENDS OrderLedger

CONSTANTS
  Threads,       \* the threads that run: the scheduler, and the operator's
  StartQty,      \* shares held when the generation starts
  Target,        \* core_positions.target_qty of the generation
  MaxCrashes     \* bound on process crashes

Sched == "sched"
Oper == "oper"

ASSUME ThreadsAssumption == Sched \in Threads /\ Threads \subseteq {Sched, Oper}
(* _sell_core derives its client order id from the generation's trade date. *)
ASSUME SellAssumption == \A o, p \in SellOrders : o = p
ASSUME QtyAssumption == StartQty \in Nat /\ Target \in Nat /\ MaxCrashes \in Nat

VARIABLES
  \* the broker's account
  bstate,        \* its order: "none", "sent", "open", "FILLED", "CANCELED"
  bfilled,       \* shares of it executed
  held,          \* shares of the symbol in the account
  posts,         \* history: POSTs sent per client order id
  misread,       \* history: orders it took whose answer reads as a refusal
  \* system_state flags, and BUY_EXECUTION_LOCK
  halt,          \* operator_buy_halt
  latch,         \* jh_auto_operator_halt_latched
  safe,          \* SAFE_MODE, of the portfolio or the symbol
  lock,          \* the thread that holds BUY_EXECUTION_LOCK
  \* local variables of the threads
  pc,            \* where the thread is
  cont,          \* the caller its reconciliation returns to
  ord,           \* the order it handles
  rcpt,          \* the receipt it holds
  todo,          \* the rest of its open_orders() list
  seen,          \* filled_qty of that list's rows (prior_filled)
  snap,          \* order statuses read ahead by the live reconciliation
  hold,          \* holdings read by the reconciliation
  fresh,         \* fills its reconciliation found, by side
  clean,         \* monitor_clean of the scheduler's cycle
  crashes        \* crashes so far

broker == <<bstate, bfilled, held, posts, misread>>
flags == <<halt, latch, safe, lock>>
locals == <<pc, cont, ord, rcpt, todo, seen, snap, hold, fresh, clean>>
vars == <<ledger, broker, flags, locals, crashes>>

Nobody == "nobody"
NoOrder == "no order"
NoHold == -1
NoReceipt == [status |-> "NONE", filled |-> 0]
Receipts == [status : {"PENDING", "UNKNOWN", "FILLED", "CANCELED"}, filled : 0..MaxQty]
None == [o \in Orders |-> NoReceipt]
(* What a read-ahead says of an order whose status it did not ask for: it  *)
(* is in the broker's OPEN list or is not.                                 *)
Listed == [status |-> "LISTED", filled |-> 0]
Unlisted == [status |-> "UNLISTED", filled |-> 0]
Unasked == {NoReceipt, Listed, Unlisted}
NoFresh == [buy |-> 0, sell |-> 0]

-----------------------------------------------------------------------------
(* What get_order may return: the order as it is, or the same fills under  *)
(* a status the receipt parser cannot tell (receipt_from_order defaults a  *)
(* missing status to UNKNOWN).                                             *)
Visible(o) == IF bstate[o] = "open" THEN "PENDING" ELSE bstate[o]
Report(o) == [status : {Visible(o), "UNKNOWN"}, filled : {bfilled[o]}]

Goto(t, label) == pc' = [pc EXCEPT ![t] = label]
At(t, label) == pc[t] = label

(* A thread that leaves a pass forgets the locals of the pass.             *)
Forget(t) ==
  /\ ord' = [ord EXCEPT ![t] = NoOrder] /\ rcpt' = [rcpt EXCEPT ![t] = NoReceipt]
  /\ todo' = [todo EXCEPT ![t] = {}]
  /\ seen' = [seen EXCEPT ![t] = [o \in Orders |-> 0]]
  /\ snap' = [snap EXCEPT ![t] = None] /\ hold' = [hold EXCEPT ![t] = NoHold]
  /\ fresh' = [fresh EXCEPT ![t] = NoFresh]
Leave(t, label) == Goto(t, label) /\ Forget(t) /\ UNCHANGED <<cont, clean>>
Move(t, label) ==
  Goto(t, label) /\ UNCHANGED <<cont, ord, rcpt, todo, seen, snap, hold, fresh, clean>>

EnterSafeMode == safe' = TRUE /\ UNCHANGED <<halt, latch, lock>>
Incomplete(o, r) == r.status \in TerminalStatuses /\ r.filled < ordered[o]

-----------------------------------------------------------------------------
(* The order monitor (run_once): FinalOpsOrderMonitor on core orders.      *)

MonStart(t) ==
  /\ t = Sched /\ At(t, "idle") /\ Goto(t, "mon")
  /\ todo' = [todo EXCEPT ![t] = Tracked]
  /\ seen' = [seen EXCEPT ![t] = filled]
  /\ cont' = [cont EXCEPT ![t] = "cycle"]
  /\ clean' = TRUE
  /\ UNCHANGED <<ledger, broker, flags, ord, rcpt, snap, hold, fresh, crashes>>

(* An exception leaves run_once; the cycle goes on unclean.                *)
MonRaise(t) ==
  /\ Goto(t, "rRead") /\ clean' = FALSE
  /\ Forget(t) /\ UNCHANGED cont

MonNext(t) ==
  /\ Goto(t, "mon")
  /\ ord' = [ord EXCEPT ![t] = NoOrder] /\ rcpt' = [rcpt EXCEPT ![t] = NoReceipt]
  /\ UNCHANGED <<cont, todo, seen, snap, hold, fresh, clean>>

MonGet(t, o) ==
  /\ At(t, "mon") /\ o \in todo[t] /\ Goto(t, "mStore")
  /\ \E r \in Report(o) : rcpt' = [rcpt EXCEPT ![t] = r]
  /\ ord' = [ord EXCEPT ![t] = o]
  /\ todo' = [todo EXCEPT ![t] = @ \ {o}]
  /\ UNCHANGED <<ledger, broker, flags, cont, seen, snap, hold, fresh, clean, crashes>>

(* The read fails, or its receipt fails validation: then refresh_order     *)
(* first stores UNKNOWN, which a terminal row refuses.  The KeyError that  *)
(* run_once handles apart is raised by no call of the live broker client.  *)
MonGetFails(t, o) ==
  /\ At(t, "mon") /\ o \in todo[t] /\ MonRaise(t)
  /\ \/ UpdateOrder(o, "UNKNOWN", filled[o], FALSE)
     \/ UNCHANGED ledger
  /\ UNCHANGED <<broker, flags, crashes>>

MonDone(t) ==
  /\ At(t, "mon") /\ todo[t] = {} /\ Leave(t, "rRead")
  /\ UNCHANGED <<ledger, broker, flags, crashes>>

MonStore(t) ==
  /\ At(t, "mStore")
  /\ \/ /\ UpdateOrder(ord[t], rcpt[t].status, rcpt[t].filled, TRUE)
        /\ Move(t, "mAct")
     \/ /\ Conflicts(ord[t], rcpt[t].status, rcpt[t].filled)
        /\ MonRaise(t) /\ UNCHANGED ledger
  /\ UNCHANGED <<broker, flags, crashes>>

(* A BUY older than the fill timeout that is not terminal is cancelled and *)
(* read again.  When either fails, or the order is still not terminal, the *)
(* symbol goes to SAFE_MODE and the handler returns at once.               *)
MonStaleCancel(t) ==
  /\ At(t, "mAct") /\ ord[t] \in BuyOrders
  /\ rcpt[t].status \notin TerminalStatuses
  /\ \/ Move(t, "sGet") /\ UNCHANGED flags
     \/ EnterSafeMode /\ MonNext(t)
  /\ UNCHANGED <<ledger, broker, crashes>>

(* The read after a cancel, of a stale ("s") or an expired ("x") BUY.      *)
MonCancelGet(t) ==
  /\ pc[t] \in {"sGet", "xGet"}
  /\ \/ /\ \E r \in Report(ord[t]) : rcpt' = [rcpt EXCEPT ![t] = r]
        /\ Goto(t, IF At(t, "sGet") THEN "sStore" ELSE "xStore")
        /\ UNCHANGED <<ledger, flags, cont, ord, todo, seen, snap, hold, fresh, clean>>
     \/ /\ EnterSafeMode /\ MonNext(t)
        /\ \/ UpdateOrder(ord[t], "UNKNOWN", filled[ord[t]], FALSE)
           \/ UNCHANGED ledger
  /\ UNCHANGED <<broker, crashes>>

MonCancelStore(t) ==
  /\ pc[t] \in {"sStore", "xStore"}
  /\ \/ /\ UpdateOrder(ord[t], rcpt[t].status, rcpt[t].filled, TRUE)
        /\ IF At(t, "sStore") /\ rcpt[t].status \notin TerminalStatuses
           THEN EnterSafeMode /\ MonNext(t)
           ELSE /\ Move(t, IF At(t, "sStore") THEN "mApply" ELSE "xApply")
                /\ UNCHANGED flags
     \/ /\ Conflicts(ord[t], rcpt[t].status, rcpt[t].filled)
        /\ EnterSafeMode /\ MonNext(t) /\ UNCHANGED ledger
  /\ UNCHANGED <<broker, crashes>>

(* The position takes the fill only when the receipt shows more than the   *)
(* row did when the pass listed it (or, after the cancel of an expired     *)
(* BUY, than the receipt before the cancel did).                           *)
MonApply(t) ==
  /\ pc[t] \in {"mAct", "mApply", "xApply"}
  /\ IF rcpt[t].filled > seen[t][ord[t]]
     THEN \/ /\ ApplyCoreFill(ord[t])
             /\ Move(t, IF At(t, "xApply") THEN "xSettle" ELSE "mSettle")
          \/ /\ ApplyRaises(ord[t]) /\ MonRaise(t) /\ UNCHANGED ledger
     ELSE /\ Move(t, IF At(t, "xApply") THEN "xSettle" ELSE "mSettle")
          /\ UNCHANGED ledger
  /\ UNCHANGED <<broker, flags, crashes>>

(* A BUY whose signal has expired is cancelled, read and applied again.    *)
MonExpiredCancel(t) ==
  /\ At(t, "mSettle") /\ ord[t] \in BuyOrders /\ rcpt[t].status = "PENDING"
  /\ \/ /\ seen' = [seen EXCEPT ![t][ord[t]] = rcpt[t].filled]
        /\ Goto(t, "xGet")
        /\ UNCHANGED <<flags, cont, ord, rcpt, todo, snap, hold, fresh, clean>>
     \/ EnterSafeMode /\ MonNext(t)
  /\ UNCHANGED <<ledger, broker, crashes>>

MonSettle(t) ==
  /\ pc[t] \in {"mSettle", "xSettle"} /\ MonNext(t)
  /\ IF \/ rcpt[t].status = "UNKNOWN"
        \/ At(t, "xSettle") /\ rcpt[t].status \notin TerminalStatuses
        \/ ord[t] \in SellOrders /\ Incomplete(ord[t], rcpt[t])
     THEN EnterSafeMode ELSE UNCHANGED flags
  /\ UNCHANGED <<ledger, broker, crashes>>

-----------------------------------------------------------------------------
(* The reconciliation (ReconciliationService.run), behind the read-ahead   *)
(* of ResilientLiveReconciliationService for every caller but the          *)
(* allocator, which runs it on the broker itself.                          *)

(* An exception ends the reconciliation, and at start-up the process.      *)
RecRaise(t) == Leave(t, IF cont[t] = "boot" THEN "down" ELSE "idle")
RecStep(t, label) == Goto(t, label) /\ UNCHANGED <<cont, clean>>

(* Holdings, the status of every open core order and the broker's OPEN     *)
(* list are read before anything is compared.  A temporary outage ends the *)
(* run without SAFE_MODE; the scheduler then quarantines.  Any other       *)
(* failure falls back to the canonical run with nothing read ahead.        *)
RecRead(t) ==
  /\ At(t, "rRead")
  /\ \/ \E odd \in SUBSET Tracked :
          /\ snap' = [snap EXCEPT ![t] = [o \in Orders |->
               IF o \notin Tracked
               THEN IF bstate[o] = "open" THEN Listed ELSE Unlisted
               ELSE [status |-> IF o \in odd THEN "UNKNOWN" ELSE Visible(o),
                     filled |-> bfilled[o]]]]
          /\ hold' = [hold EXCEPT ![t] = held]
          /\ RecStep(t, "rList") /\ UNCHANGED <<ord, rcpt, todo, seen, fresh>>
     \/ Move(t, "rList")
     \/ IF cont[t] = "cycle" THEN Leave(t, "quarantine") ELSE RecRaise(t)
  /\ UNCHANGED <<ledger, broker, flags, crashes>>

RecList(t) ==
  /\ At(t, "rList") /\ RecStep(t, "rNext")
  /\ todo' = [todo EXCEPT ![t] = Tracked]
  /\ seen' = [seen EXCEPT ![t] = filled]
  /\ UNCHANGED <<ledger, broker, flags, ord, rcpt, snap, hold, fresh, crashes>>

RecGet(t, o) ==
  /\ At(t, "rNext") /\ o \in todo[t]
  /\ \/ /\ \E r \in IF snap[t][o] \in Unasked THEN Report(o) ELSE {snap[t][o]} :
             rcpt' = [rcpt EXCEPT ![t] = r]
        /\ ord' = [ord EXCEPT ![t] = o]
        /\ todo' = [todo EXCEPT ![t] = @ \ {o}]
        /\ RecStep(t, "rStore") /\ UNCHANGED <<flags, seen, snap, hold, fresh>>
     \/ EnterSafeMode /\ RecRaise(t)
  /\ UNCHANGED <<ledger, broker, crashes>>

RecStore(t) ==
  /\ At(t, "rStore")
  /\ \/ /\ UpdateOrder(ord[t], rcpt[t].status, rcpt[t].filled, TRUE)
        /\ Move(t, "rApply") /\ UNCHANGED flags
     \/ /\ Conflicts(ord[t], rcpt[t].status, rcpt[t].filled)
        /\ EnterSafeMode /\ RecRaise(t) /\ UNCHANGED ledger
  /\ UNCHANGED <<broker, crashes>>

RecApply(t) ==
  /\ At(t, "rApply")
  /\ \/ /\ IF rcpt[t].filled > 0 THEN ApplyCoreFill(ord[t]) ELSE UNCHANGED ledger
        /\ Move(t, "rJudge") /\ UNCHANGED flags
     \/ /\ rcpt[t].filled > 0 /\ ApplyRaises(ord[t])
        /\ EnterSafeMode /\ RecRaise(t) /\ UNCHANGED ledger
  /\ UNCHANGED <<broker, crashes>>

(* An unknown status, or a SELL that ended short, is SAFE_MODE and ends    *)
(* the run; otherwise new fills widen the comparison of holdings.          *)
RecJudge(t) ==
  LET o == ord[t]
      new == IF rcpt[t].filled > seen[t][o] THEN rcpt[t].filled - seen[t][o] ELSE 0
  IN
  /\ At(t, "rJudge")
  /\ IF rcpt[t].status = "UNKNOWN" \/ (o \in SellOrders /\ Incomplete(o, rcpt[t]))
     THEN EnterSafeMode /\ RecRaise(t)
     ELSE /\ IF o \in SellOrders
             THEN fresh' = [fresh EXCEPT ![t].sell = @ + new]
             ELSE fresh' = [fresh EXCEPT ![t].buy = @ + new]
          /\ RecStep(t, "rNext")
          /\ UNCHANGED <<flags, ord, rcpt, todo, seen, snap, hold>>
  /\ UNCHANGED <<ledger, broker, crashes>>

RecHoldings(t) ==
  /\ At(t, "rNext") /\ todo[t] = {}
  /\ \/ /\ hold' = [hold EXCEPT ![t] = IF @ = NoHold THEN held ELSE @]
        /\ RecStep(t, "rCompare")
        /\ UNCHANGED <<flags, ord, rcpt, todo, seen, snap, fresh>>
     \/ hold[t] = NoHold /\ EnterSafeMode /\ RecRaise(t)
  /\ UNCHANGED <<ledger, broker, crashes>>

(* Shares the open orders of one side may still move.                      *)
Remaining(side) ==
  FoldFunction(+, 0, [o \in side |->
    IF o \in Tracked /\ status[o] # "UNKNOWN" THEN ordered[o] - filled[o] ELSE 0])

(* _core_fill_transition_explains_quantity.                                *)
Explained(t) ==
  LET buys == Remaining(BuyOrders)
      sells == Remaining(SellOrders)
  IN  /\ buys + sells + fresh[t].buy + fresh[t].sell > 0
      /\ qty - sells - fresh[t].buy <= hold[t]
      /\ hold[t] <= qty + buys + fresh[t].sell

(* The broker lists an open order that is no open row with a broker id.    *)
UnexpectedOpen(t) ==
  \E o \in Orders \ Tracked :
    IF snap[t] = None THEN bstate[o] = "open"
                      ELSE snap[t][o].status \in {"PENDING", "UNKNOWN", "LISTED"}

Mismatch(t) ==
  \/ hold[t] # qty /\ ~Explained(t)
  \/ \E o \in Open : status[o] = "UNKNOWN" \/ ~bid[o]
  \/ UnexpectedOpen(t)

RecCompare(t) ==
  /\ At(t, "rCompare")
  /\ IF Mismatch(t)
     THEN EnterSafeMode /\ Leave(t, "idle")
     ELSE /\ Leave(t, CASE cont[t] = "boot" -> "idle"
                          [] cont[t] = "cycle" -> IF clean THEN "release" ELSE "idle"
                          [] cont[t] = "alloc" -> IF safe THEN "idle" ELSE "sell"
                          [] cont[t] = "settled" -> "idle"
                          [] cont[t] = "resume" -> "clear")
          /\ UNCHANGED flags
  /\ UNCHANGED <<ledger, broker, crashes>>

-----------------------------------------------------------------------------
(* The rest of the scheduler's cycle.                                      *)

(* quarantine: close the BUY gate until a later clean cycle.  An outage    *)
(* ends the cycle; after a failed BUY the allocator still gets its turn.   *)
Quarantine(t) ==
  /\ pc[t] \in {"quarantine", "stop"} /\ lock = Nobody
  /\ Leave(t, IF At(t, "stop") THEN "allocate" ELSE "idle")
  /\ halt' = TRUE
  /\ UNCHANGED <<ledger, broker, latch, safe, lock, crashes>>

(* try_release_quarantine: never past the operator's latch, SAFE_MODE or   *)
(* an open order.                                                          *)
TryRelease(t) ==
  /\ At(t, "release") /\ lock = Nobody /\ Move(t, "trade")
  /\ halt' = (halt /\ (latch \/ safe \/ Open # {}))
  /\ UNCHANGED <<ledger, broker, latch, safe, lock, crashes>>

TradeSkip(t) ==
  /\ pc[t] \in {"trade", "allocate", "sell", "sold"} /\ Move(t, "idle")
  /\ UNCHANGED <<ledger, broker, flags, crashes>>

(* Mutant: an open order does not stop the next BUY.                       *)
BuyPrecheckAnyOpen(t) ==
  /\ At(t, "trade") /\ ~halt /\ ~latch /\ ~safe /\ Move(t, "reserve")
  /\ UNCHANGED <<ledger, broker, flags, crashes>>

(* execute_one goes on only with no open order; submit's first checks.     *)
BuyPrecheck(t) ==
  /\ At(t, "trade") /\ ~halt /\ ~latch /\ ~safe /\ Open = {} /\ Move(t, "reserve")
  /\ UNCHANGED <<ledger, broker, flags, crashes>>

(* reserve_buy_order_with_managed_cash: no more than the target leaves.    *)
BuyReserve(t, o) ==
  /\ At(t, "reserve") /\ o \in BuyOrders
  /\ \E n \in 1..MaxQty : n <= Target - qty - CommittedBuy /\ ReserveOrder(o, n)
  /\ Goto(t, "gate") /\ ord' = [ord EXCEPT ![t] = o]
  /\ UNCHANGED <<broker, flags, cont, rcpt, todo, seen, snap, hold, fresh, clean, crashes>>

(* The quantity or the money is refused: an error, hence a quarantine.     *)
BuyReserveFails(t) ==
  /\ At(t, "reserve") /\ Move(t, "stop")
  /\ UNCHANGED <<ledger, broker, flags, crashes>>

(* The final checks, inside BUY_EXECUTION_LOCK.  A failed AUTO contract or *)
(* a closed session raises before the POST, and the generic handler still  *)
(* stores UNKNOWN.                                                         *)
BuyGate(t) ==
  LET o == ord[t] IN
  /\ At(t, "gate") /\ lock = Nobody
  /\ \/ /\ halt \/ safe
        /\ UpdateOrder(o, "REJECTED", filled[o], FALSE)
        /\ Move(t, "stop") /\ UNCHANGED lock
     \/ /\ ~halt /\ ~safe
        /\ UpdateOrder(o, "UNKNOWN", filled[o], FALSE)
        /\ Move(t, "escalate") /\ UNCHANGED lock
     \/ /\ ~halt /\ ~safe /\ ~latch
        /\ lock' = t /\ Move(t, "post") /\ UNCHANGED ledger
  /\ UNCHANGED <<broker, halt, latch, safe, crashes>>

(* place_order: one POST, never sent again.  The broker takes the order    *)
(* ("open"), is still to see it when the client gives up ("sent"), or      *)
(* refuses it.  The client reads a receipt, an unclear outcome (a          *)
(* retryable TossApiError, or any other exception), or a refusal, which is *)
(* every other TossApiError: the broker's own, but as well an answer of    *)
(* 2xx that is no JSON object, and an HTTP status that is not among the    *)
(* retryable ones, for an order the broker took or is still to take.       *)
Post(t) ==
  LET o == ord[t] IN
  /\ At(t, "post")
  /\ posts' = [posts EXCEPT ![o] = @ + 1]
  /\ \/ /\ bstate' = [bstate EXCEPT ![o] = "open"]
        /\ Move(t, "record") /\ UNCHANGED misread
     \/ /\ \E b \in {"open", "sent"} : bstate' = [bstate EXCEPT ![o] = b]
        /\ \/ Move(t, "unknown") /\ UNCHANGED misread
           \/ Move(t, "refused") /\ misread' = misread \cup {o}
     \/ /\ Move(t, "refused") \/ Move(t, "unknown")
        /\ UNCHANGED <<bstate, misread>>
  /\ lock' = IF lock = t THEN Nobody ELSE lock
  /\ UNCHANGED <<ledger, bfilled, held, halt, latch, safe, crashes>>

(* Mutant: a POST whose answer is lost counts as refused.                  *)
RecordPostGivesUp(t) ==
  LET o == ord[t] IN
  /\ \/ /\ At(t, "record") /\ UpdateOrder(o, "PENDING", 0, TRUE) /\ Leave(t, "idle")
     \/ /\ pc[t] \in {"unknown", "refused"} /\ UpdateOrder(o, "REJECTED", filled[o], FALSE)
        /\ Move(t, IF o \in SellOrders THEN "escalate" ELSE "stop")
  /\ UNCHANGED <<broker, flags, crashes>>

(* The outcome is written outside the lock: REJECTED for a refusal, which  *)
(* is final for the ledger even where it was misread; SAFE_MODE follows an *)
(* unknown outcome, and any failure of a SELL.                             *)
RecordPost(t) ==
  LET o == ord[t] IN
  /\ \/ /\ At(t, "record") /\ UpdateOrder(o, "PENDING", 0, TRUE) /\ Leave(t, "idle")
     \/ /\ At(t, "unknown") /\ UpdateOrder(o, "UNKNOWN", filled[o], FALSE)
        /\ Move(t, "escalate")
     \/ /\ At(t, "refused") /\ UpdateOrder(o, "REJECTED", filled[o], FALSE)
        /\ Move(t, IF o \in SellOrders THEN "escalate" ELSE "stop")
  /\ UNCHANGED <<broker, flags, crashes>>

Escalate(t) ==
  /\ At(t, "escalate") /\ EnterSafeMode
  /\ Leave(t, IF ord[t] \in SellOrders THEN "idle" ELSE "stop")
  /\ UNCHANGED <<ledger, broker, crashes>>

(* run_allocation reconciles again before it sells, and once more when     *)
(* there is nothing to sell, or what there was is sold.                    *)
AllocReconcile(t) ==
  /\ Goto(t, "rList")
  /\ \/ /\ pc[t] \in {"trade", "allocate"}
        /\ cont' = [cont EXCEPT ![t] = "alloc"]
     \/ /\ At(t, "sold") \/ (At(t, "sell") /\ qty <= Target)
        /\ SellOrders \cap Open = {}
        /\ cont' = [cont EXCEPT ![t] = "settled"]
  /\ UNCHANGED <<ledger, broker, flags, ord, rcpt, todo, seen, snap, hold, fresh, clean, crashes>>

(* Mutant: the whole position is sold instead of what exceeds the target.  *)
SellSubmitAll(t, o) ==
  /\ At(t, "sell") /\ o \in SellOrders /\ SellOrders \cap Open = {} /\ qty > Target
  /\ ReserveOrder(o, qty)
  /\ Goto(t, "post") /\ ord' = [ord EXCEPT ![t] = o]
  /\ UNCHANGED <<broker, flags, cont, rcpt, todo, seen, snap, hold, fresh, clean, crashes>>

(* _sell_core.  The client order id is one per generation, so a second     *)
(* SELL finds the first one's row and answers with it.                     *)
SellSubmit(t, o) ==
  /\ At(t, "sell") /\ o \in SellOrders /\ SellOrders \cap Open = {} /\ qty > Target
  /\ \E n \in 1..MaxQty : n = qty - Target /\ ReserveOrder(o, n)
  /\ Goto(t, "post") /\ ord' = [ord EXCEPT ![t] = o]
  /\ UNCHANGED <<broker, flags, cont, rcpt, todo, seen, snap, hold, fresh, clean, crashes>>

SellAgain(t, o) ==
  /\ At(t, "sell") /\ o \in SellOrders /\ o \in Closed /\ qty > Target
  /\ \/ /\ IF filled[o] > 0 THEN ApplyCoreFill(o) ELSE UNCHANGED ledger
        /\ IF filled[o] < ordered[o]
           THEN Goto(t, "escalate") /\ ord' = [ord EXCEPT ![t] = o]
           ELSE Goto(t, "sold") /\ UNCHANGED ord
     \/ /\ bid[o] \/ ApplyRaises(o)
        /\ Goto(t, "escalate") /\ ord' = [ord EXCEPT ![t] = o]
        /\ UNCHANGED ledger
  /\ UNCHANGED <<broker, flags, cont, rcpt, todo, seen, snap, hold, fresh, clean, crashes>>

-----------------------------------------------------------------------------
(* The operator.  The bot answers once the start-up sequence is over.      *)
Up == /\ pc[Sched] \notin {"down", "recover"}
      /\ cont[Sched] # "boot" \/ pc[Sched] = "idle"

(* Mutant: /halt does not wait for BUY_EXECUTION_LOCK.                     *)
OperHaltAnyTime(t) ==
  /\ t = Oper /\ At(t, "idle") /\ Up
  /\ halt' = TRUE /\ latch' = TRUE
  /\ UNCHANGED <<ledger, broker, safe, lock, locals, crashes>>

OperHalt(t) ==
  /\ t = Oper /\ At(t, "idle") /\ Up /\ lock = Nobody
  /\ halt' = TRUE /\ latch' = TRUE
  /\ UNCHANGED <<ledger, broker, safe, lock, locals, crashes>>

(* /resume closes the gate first when it was open.                         *)
ResumeStart(t) ==
  /\ t = Oper /\ At(t, "idle") /\ Up
  /\ halt \/ safe \/ latch
  /\ halt \/ lock = Nobody
  /\ halt' = TRUE
  /\ Goto(t, "rRead") /\ cont' = [cont EXCEPT ![t] = "resume"]
  /\ UNCHANGED <<ledger, broker, latch, safe, lock, ord, rcpt, todo, seen, snap, hold, fresh, clean, crashes>>

(* _recover_clean_reconciliation_safe_mode.                                *)
ResumeClear(t) ==
  /\ At(t, "clear") /\ Move(t, "reopen")
  /\ safe' = FALSE
  /\ UNCHANGED <<ledger, broker, halt, latch, lock, crashes>>

(* Mutant: the gate reopens whatever BUY is still open.                    *)
ResumeReopenUnchecked(t) ==
  /\ At(t, "reopen") /\ lock = Nobody /\ Move(t, "idle")
  /\ IF safe THEN UNCHANGED <<halt, latch>> ELSE halt' = FALSE /\ latch' = FALSE
  /\ UNCHANGED <<ledger, broker, safe, lock, crashes>>

ResumeReopen(t) ==
  /\ At(t, "reopen") /\ lock = Nobody /\ Move(t, "idle")
  /\ IF safe \/ BuyOrders \cap Open # {}
     THEN UNCHANGED <<halt, latch>>
     ELSE halt' = FALSE /\ latch' = FALSE
  /\ UNCHANGED <<ledger, broker, safe, lock, crashes>>

-----------------------------------------------------------------------------
(* The broker.                                                             *)
BrokerAccept(o) ==
  /\ bstate[o] = "sent"
  /\ bstate' = [bstate EXCEPT ![o] = "open"]
  /\ UNCHANGED <<ledger, bfilled, held, posts, misread, flags, locals, crashes>>

BrokerFill(o) ==
  /\ bstate[o] = "open"
  /\ bfilled' = [bfilled EXCEPT ![o] = @ + 1]
  /\ bstate' = [bstate EXCEPT ![o] = IF bfilled[o] + 1 = ordered[o] THEN "FILLED" ELSE @]
  /\ held' = IF o \in SellOrders THEN held - 1 ELSE held + 1
  /\ UNCHANGED <<ledger, posts, misread, flags, locals, crashes>>

BrokerClose(o) ==
  /\ bstate[o] = "open"
  /\ bstate' = [bstate EXCEPT ![o] = "CANCELED"]
  /\ UNCHANGED <<ledger, bfilled, held, posts, misread, flags, locals, crashes>>

-----------------------------------------------------------------------------
(* The end of the process and its next start.                              *)
Crash ==
  /\ crashes < MaxCrashes /\ pc[Sched] # "down"
  /\ crashes' = crashes + 1 /\ lock' = Nobody /\ clean' = TRUE
  /\ pc' = [t \in Threads |-> IF t = Sched THEN "down" ELSE "idle"]
  /\ cont' = [t \in Threads |-> "boot"]
  /\ ord' = [t \in Threads |-> NoOrder] /\ rcpt' = [t \in Threads |-> NoReceipt]
  /\ todo' = [t \in Threads |-> {}]
  /\ seen' = [t \in Threads |-> [o \in Orders |-> 0]]
  /\ snap' = [t \in Threads |-> None] /\ hold' = [t \in Threads |-> NoHold]
  /\ fresh' = [t \in Threads |-> NoFresh]
  /\ UNCHANGED <<ledger, broker, halt, latch, safe>>

(* arm_live_startup_buy_halt, before anything else.                        *)
Start(t) ==
  /\ t = Sched /\ At(t, "down") /\ Goto(t, "recover")
  /\ cont' = [cont EXCEPT ![t] = "boot"]
  /\ halt' = TRUE
  /\ UNCHANGED <<ledger, broker, latch, safe, lock, ord, rcpt, todo, seen, snap, hold, fresh, clean, crashes>>

(* recover_unapplied_core_fills, then the start-up reconciliation.         *)
Recover(t, o) ==
  /\ At(t, "recover") /\ o \in Unapplied
  /\ ApplyCoreFill(o)
  /\ UNCHANGED <<broker, flags, locals, crashes>>

RecoverDone(t) ==
  /\ At(t, "recover") /\ Unapplied = {} /\ Move(t, "rRead")
  /\ UNCHANGED <<ledger, broker, flags, crashes>>

-----------------------------------------------------------------------------
Init ==
  /\ status = [o \in Orders |-> "NONE"] /\ bid = [o \in Orders |-> FALSE]
  /\ ordered = [o \in Orders |-> 0] /\ filled = [o \in Orders |-> 0]
  /\ applied = [o \in Orders |-> 0] /\ qty = StartQty
  /\ bstate = [o \in Orders |-> "none"] /\ bfilled = [o \in Orders |-> 0]
  /\ held = StartQty /\ posts = [o \in Orders |-> 0]
  /\ misread = {}
  /\ halt = FALSE /\ latch = FALSE /\ safe = FALSE /\ lock = Nobody
  /\ pc = [t \in Threads |-> "idle"] /\ cont = [t \in Threads |-> "boot"]
  /\ ord = [t \in Threads |-> NoOrder] /\ rcpt = [t \in Threads |-> NoReceipt]
  /\ todo = [t \in Threads |-> {}] /\ seen = [t \in Threads |-> [o \in Orders |-> 0]]
  /\ snap = [t \in Threads |-> None] /\ hold = [t \in Threads |-> NoHold]
  /\ fresh = [t \in Threads |-> NoFresh] /\ clean = TRUE /\ crashes = 0

Monitor(t) ==
  \/ MonStart(t) \/ MonDone(t) \/ MonStore(t) \/ MonStaleCancel(t)
  \/ MonCancelGet(t) \/ MonCancelStore(t) \/ MonApply(t)
  \/ MonExpiredCancel(t) \/ MonSettle(t)
  \/ \E o \in Orders : MonGet(t, o) \/ MonGetFails(t, o)

Reconcile(t) ==
  \/ RecRead(t) \/ RecList(t) \/ RecStore(t) \/ RecApply(t) \/ RecJudge(t)
  \/ RecHoldings(t) \/ RecCompare(t)
  \/ \E o \in Orders : RecGet(t, o)

Trade(t) ==
  \/ Quarantine(t) \/ TryRelease(t) \/ TradeSkip(t) \/ BuyPrecheck(t)
  \/ BuyReserveFails(t) \/ BuyGate(t) \/ Post(t) \/ RecordPost(t)
  \/ Escalate(t) \/ AllocReconcile(t)
  \/ \E o \in Orders : BuyReserve(t, o) \/ SellSubmit(t, o) \/ SellAgain(t, o)

Operate(t) == OperHalt(t) \/ ResumeStart(t) \/ ResumeClear(t) \/ ResumeReopen(t)

Restart(t) == Start(t) \/ RecoverDone(t) \/ \E o \in Orders : Recover(t, o)

Broker == \E o \in Orders : BrokerAccept(o) \/ BrokerFill(o) \/ BrokerClose(o)

Step(t) == Monitor(t) \/ Reconcile(t) \/ Trade(t) \/ Operate(t) \/ Restart(t)

Next == (\E t \in Threads : Step(t)) \/ Broker \/ Crash

Spec == Init /\ [][Next]_vars

(* The scheduler's loop never stops while the process is up, and a dead    *)
(* process is started again (Restart=on-failure of the systemd unit).  An  *)
(* order does not work for ever: it is a DAY order.  The broker does not   *)
(* answer every single read of an order with a failure or a status the     *)
(* parser cannot tell.                                                     *)
TruthfulRead ==
  /\ RecRead(Sched) /\ hold'[Sched] # NoHold
  /\ \A o \in Tracked : snap'[Sched][o].status = Visible(o)
TruthfulGet(o) ==
  /\ MonGet(Sched, o) \/ RecGet(Sched, o)
  /\ ord'[Sched] = o /\ rcpt'[Sched].status = Visible(o)
Fairness ==
  /\ WF_vars(Step(Sched))
  /\ \A o \in Orders : WF_vars(BrokerFill(o) \/ BrokerClose(o))
  /\ SF_vars(TruthfulRead)
  /\ \A o \in Orders : SF_vars(TruthfulGet(o))

FairSpec == Spec /\ Fairness

-----------------------------------------------------------------------------
(* Properties.                                                             *)

Labels ==
  {"idle", "down", "recover", "mon", "mStore", "mAct", "mApply", "mSettle",
   "sGet", "sStore", "xGet", "xStore", "xApply", "xSettle",
   "rRead", "rList", "rNext", "rStore", "rApply", "rJudge", "rCompare",
   "release", "quarantine", "stop", "trade", "allocate", "reserve", "gate", "post", "record",
   "unknown", "refused", "escalate", "sell", "sold", "clear", "reopen"}

BrokerTypeOK ==
  /\ bstate \in [Orders -> {"none", "sent", "open", "FILLED", "CANCELED"}]
  /\ bfilled \in [Orders -> Nat]
  /\ held \in Int
  /\ posts \in [Orders -> Nat]
  /\ misread \subseteq Orders

FlagsTypeOK ==
  /\ halt \in BOOLEAN /\ latch \in BOOLEAN /\ safe \in BOOLEAN
  /\ lock \in Threads \cup {Nobody}
  /\ crashes \in 0..MaxCrashes

LocalsTypeOK ==
  /\ pc \in [Threads -> Labels]
  /\ cont \in [Threads -> {"boot", "cycle", "alloc", "settled", "resume"}]
  /\ ord \in [Threads -> Orders \cup {NoOrder}]
  /\ rcpt \in [Threads -> Receipts \cup {NoReceipt}]
  /\ todo \in [Threads -> SUBSET Orders]
  /\ seen \in [Threads -> [Orders -> 0..MaxQty]]
  /\ snap \in [Threads -> [Orders -> Receipts \cup Unasked]]
  /\ hold \in [Threads -> Int]
  /\ fresh \in [Threads -> [buy : Nat, sell : Nat]]
  /\ clean \in BOOLEAN

(* Every variable holds a value of its type.                               *)
TypeOK == LedgerTypeOK /\ BrokerTypeOK /\ FlagsTypeOK /\ LocalsTypeOK

(* The position is never credited with more of an order than its row       *)
(* shows, the row never shows more than the broker executed, and the       *)
(* broker never executes more than was ordered: however monitor,           *)
(* reconciliation, allocator and restart interleave, and however old the   *)
(* receipt a thread stores (update_order, apply_core_fill).                *)
FillChain ==
  \A o \in Orders :
    /\ applied[o] <= filled[o]
    /\ filled[o] <= bfilled[o]
    /\ bfilled[o] <= ordered[o]

(* The orders the ledger gave up although the broker took them, or is      *)
(* still to: submit stored REJECTED for an answer it misread as a refusal. *)
(* Nothing lists or asks about them again.                                 *)
Disowned == {o \in misread : status[o] = "REJECTED"}

(* A row becomes terminal only with the broker's own final word: no fill   *)
(* can still arrive for it, and none it had is missing.  open_orders()     *)
(* never returns the row again, so a wrong terminal status would be final. *)
(* It is wrong in one way only, the misread answer to a POST: such a row   *)
(* has no broker id and no fill, whatever the broker executes (submit,     *)
(* refresh_order, update_order).                                           *)
TerminalTruth ==
  \A o \in Closed :
    IF o \in Disowned THEN ~bid[o] /\ filled[o] = 0
    ELSE IF status[o] = "REJECTED" THEN bstate[o] = "none" /\ bfilled[o] = 0
    ELSE bstate[o] = status[o] /\ bfilled[o] = filled[o]

(* An order is sent to the broker at most once, and one the broker took,   *)
(* or is still to, has the broker's id or an open row, so it stays in the  *)
(* committed quantity through timeouts, lost answers and crashes.  Only an *)
(* order whose answer was misread as a refusal is given up, and no such    *)
(* order ever has the broker's id.                                         *)
NeverForgotten ==
  \A o \in Orders :
    /\ posts[o] <= 1
    /\ bstate[o] # "none" => (o \notin Disowned <=> bid[o] \/ o \in Open)

Total(f) == FoldFunction(+, 0, f)
Working(o) == bstate[o] \in {"sent", "open"}

(* The account, counting what the broker may still buy, stays within the   *)
(* target quantity, but for what a BUY bought or may buy that the ledger   *)
(* disowned: nothing counts it as committed.  What the broker may still    *)
(* sell never takes the account below the target, a disowned SELL included *)
(* (reserve_buy_order_with_managed_cash, _sell_core).                      *)
AccountWithinTarget ==
  LET working(o) == IF Working(o) THEN ordered[o] - bfilled[o] ELSE 0
      counted(o) == IF o \in Disowned THEN -bfilled[o] ELSE working(o)
  IN  /\ StartQty <= Target =>
           held + Total([o \in BuyOrders |-> counted(o)]) <= Target
      /\ StartQty >= Target =>
           held - Total([o \in SellOrders |-> working(o)]) >= Target

(* core_positions.qty is the starting quantity plus every fill it was      *)
(* credited with, each counted once.                                       *)
Conservation ==
  qty = StartQty + Total([o \in BuyOrders |-> applied[o]])
                 - Total([o \in SellOrders |-> applied[o]])

(* Once a row is terminal neither its status nor its filled quantity       *)
(* changes again, whatever late receipt a second thread still holds.       *)
SettledIsFinal ==
  [][\A o \in Closed : status'[o] = status[o] /\ filled'[o] = filled[o]]_vars

(* No BUY is POSTed while the operator halt or its latch is set: /halt and *)
(* the final check share BUY_EXECUTION_LOCK.                               *)
HaltBarrier ==
  [][\A o \in BuyOrders : posts'[o] # posts[o] => ~halt /\ ~latch]_vars

(* A BUY is POSTed only when every other order of the ledger is settled:   *)
(* an order recorded UNKNOWN, or one a crash left without a broker id,     *)
(* stops all buying.  So no other order is then working at the broker,     *)
(* except one the ledger disowned.                                         *)
BuysOneAtATime ==
  [][\A o \in BuyOrders : posts'[o] # posts[o] =>
       /\ Open = {o}
       /\ \A p \in Orders \ Disowned : ~Working(p)]_vars

(* The gate reopens only when no BUY is working at the broker and every    *)
(* BUY fill is in the ledger's rows (try_release_quarantine, resume), BUYs *)
(* the ledger disowned apart: what the next BUY counts as committed is     *)
(* then all there is but for those.                                        *)
GateReopensSettled ==
  [][halt /\ ~halt' =>
       \A o \in BuyOrders \ Disowned : ~Working(o) /\ filled[o] = bfilled[o]]_vars

(* "The order response is unclear: UNKNOWN, no new BUY" (STRATEGY_GUIDE.md, *)
(* safety table): no BUY is POSTed while an earlier order may still be     *)
(* worked by the broker.  The code records every TossApiError that is not  *)
(* retryable REJECTED, and an order the broker is still to take is in no   *)
(* OPEN list: the reconciliation is clean, and the quarantine is released. *)
UnclearStopsBuying ==
  [][\A o \in BuyOrders : posts'[o] # posts[o] => \A p \in Orders : ~Working(p)]_vars

(* "Apply broker-confirmed core fills before holdings reconciliation"      *)
(* (reconciliation.py, _refresh_open_core_orders): when holdings are       *)
(* compared, no fill a row records is missing from the position.           *)
AppliedBeforeComparison ==
  \A t \in Threads : At(t, "rCompare") => Unapplied = {}

(* No order the broker took stays undecided for ever.  One the ledger has  *)
(* an id for is settled: whatever failed reads, unknown statuses, failed   *)
(* cancels, SAFE_MODE or crash come first, the monitor goes on asking      *)
(* until it has the final status (run_once, open_orders).  The shares of   *)
(* one whose answer was misread, of which the ledger knows nothing, are    *)
(* not overlooked: the holdings then differ from the position, and the     *)
(* comparison ends in SAFE_MODE, however long the broker cannot be read    *)
(* and whatever restarts come in between.                                  *)
Undecided(o) == o \in Tracked \/ (o \in misread /\ bfilled[o] > 0)
EveryOrderEnds ==
  \A o \in Orders : Undecided(o) ~> IF o \in misread THEN safe ELSE o \in Closed

(* The whole order flow implements OrderPromise.                           *)
RowOf(o) == CASE status[o] = "NONE" -> "none"
              [] status[o] \in OpenStatuses -> "open"
              [] OTHER -> "settled"
WorkOf(o) == CASE bstate[o] = "none" -> "none"
               [] Working(o) -> "live"
               [] OTHER -> "over"
Promise == INSTANCE OrderPromise WITH
  Sizes <- 1..MaxQty, row <- [o \in Orders |-> RowOf(o)], size <- ordered,
  sent <- posts, work <- [o \in Orders |-> WorkOf(o)], lost <- misread,
  executed <- bfilled, booked <- filled, credited <- applied, position <- qty

(* Every step of monitor, reconciliation, trades, operator, broker and     *)
(* restart is a step of OrderPromise or changes nothing it speaks of: an   *)
(* order is sent at most once, settled with its final quantity when the    *)
(* broker is done with it (or unfilled and for ever when its answer was    *)
(* misread), and each fill is credited once.                               *)
PromiseKept == Promise!Spec

-----------------------------------------------------------------------------
(* The inductive strengthening of the properties above: what the ledger    *)
(* and the broker agree on for every order, what a receipt in a thread's   *)
(* hands still says of its order, and what the trading thread has done.    *)

(* The labels at which a thread handles an order it holds a receipt for.   *)
Holding == {"mStore", "mAct", "mApply", "mSettle", "sGet", "sStore", "xGet",
            "xStore", "xApply", "xSettle", "rStore", "rApply", "rJudge"}
(* The labels from a reservation to the record of its outcome.             *)
Trading == {"gate", "post", "record", "unknown", "refused"}
(* The labels of the reconciliation, and of the operator's thread.         *)
Reconciling == {"rRead", "rList", "rNext", "rStore", "rApply", "rJudge", "rCompare"}
Operating == Reconciling \cup {"idle", "clear", "reopen"}

(* A receipt may be old, but a terminal one never is.                      *)
Fits(r, o) ==
  /\ r \in Receipts
  /\ r.filled <= bfilled[o]
  /\ r.status \in TerminalStatuses => r.status = bstate[o] /\ r.filled = bfilled[o]

RowInv ==
  \A o \in Orders :
    /\ status[o] = "NONE" => ~bid[o] /\ posts[o] = 0 /\ filled[o] = 0 /\ applied[o] = 0
    /\ status[o] # "NONE" => ordered[o] > 0
    /\ posts[o] = 0 => bstate[o] = "none"
    /\ bid[o] => bstate[o] \notin {"none", "sent"} /\ status[o] # "CREATED"
    /\ bstate[o] \in {"none", "sent"} => bfilled[o] = 0
    /\ bstate[o] = "open" => bfilled[o] < ordered[o]
    /\ bstate[o] = "FILLED" => bfilled[o] = ordered[o]
    /\ o \in misread => /\ bstate[o] # "none" /\ ~bid[o] /\ filled[o] = 0
                         /\ status[o] \in {"CREATED", "REJECTED"}

ReceiptInv ==
  \A t \in Threads :
    /\ pc[t] \in Holding => ord[t] \in Orders /\ bid[ord[t]] /\ Fits(rcpt[t], ord[t])
    /\ \A o \in todo[t] : bid[o]
    /\ \A o \in Orders : snap[t][o] \notin Unasked => bid[o] /\ Fits(snap[t][o], o)

(* The operator's thread does nothing but reconcile for a /resume.         *)
OperatingOK(t) ==
  t = Oper => /\ pc[t] \in Operating
              /\ pc[t] \in Reconciling => cont[t] = "resume"

(* The order in flight is a row nobody else writes, sent at most once; a   *)
(* BUY is the only open row, and its POST is under the lock.               *)
TradingOK(t) ==
  /\ pc[t] \in Trading =>
       /\ ord[t] \in Orders /\ status[ord[t]] = "CREATED"
       /\ pc[t] \in {"gate", "post"} => posts[ord[t]] = 0
       /\ pc[t] = "record" => bstate[ord[t]] \notin {"none", "sent"}
       /\ pc[t] \in {"record", "unknown"} => ord[t] \notin misread
       /\ pc[t] = "refused" => bstate[ord[t]] = "none" \/ ord[t] \in misread
  /\ pc[t] = "reserve" => Open = {}
  /\ pc[t] = "gate" => ord[t] \in BuyOrders
  /\ pc[t] \in {"gate", "post"} /\ ord[t] \in BuyOrders => Open = {ord[t]}
  /\ pc[t] = "post" /\ ord[t] \in BuyOrders => lock = t /\ ~halt /\ ~latch

ThreadInv == \A t \in Threads : OperatingOK(t) /\ TradingOK(t)

IInv ==
  TypeOK /\ FillChain /\ TerminalTruth /\ NeverForgotten
         /\ RowInv /\ ReceiptInv /\ ThreadInv
=============================================================================
