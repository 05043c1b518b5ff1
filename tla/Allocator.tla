----------------------------- MODULE Allocator -----------------------------
(***************************************************************************)
(* PortfolioService.run_allocation over all allocation symbols: how the    *)
(* weights of a completed session become a target generation, how the      *)
(* generation is frozen into share targets when the next session starts,   *)
(* and how SELLs come before BUY signals; with the one-time staged entry   *)
(* of InitialOnboardingPortfolioService.                                   *)
(*                                                                         *)
(* A pass is a sequence of separate SQLite transactions and broker calls.  *)
(* Between any two of them the process may end, the chat may withdraw the  *)
(* generation (live, JH AUTO capital change) or run a pass of its own      *)
(* (dry run, onboarding button).  What happens to one order on its way is  *)
(* module OrderFlow's matter: here it is open, filled, or ended short.     *)
(***************************************************************************)
EXTENDS Integers, FiniteSets, Sequences

CONSTANTS
  SymbolCount,   \* the allocation symbols, in the order of ALLOCATION_SYMBOLS
  Plans,         \* target weights per completed session and symbol
  Budgets,       \* risk budgets
  Price,         \* of one share, fee included
  Fractions,     \* cumulative_fractions of the onboarding, in per cent
  Gap,           \* minimum_sessions_between_stages
  MaxDay,        \* bound: completed sessions
  MaxCrashes,    \* bound: ends of the process
  MaxRetargets   \* bound: capital changes

ASSUME SymbolsAssumption == SymbolCount \in Nat \ {0}
ASSUME AmountsAssumption ==
  /\ Plans \subseteq [1..MaxDay -> [1..SymbolCount -> Nat]]
  /\ Budgets \subseteq Nat /\ Price \in Nat \ {0}
ASSUME BoundsAssumption ==
  /\ Gap \in Nat /\ MaxDay \in Nat \ {0}
  /\ MaxCrashes \in Nat /\ MaxRetargets \in Nat
ASSUME FractionsAssumption ==
  /\ Fractions \in Seq(1..100) /\ Fractions # <<>>
  /\ \A i, j \in 1..Len(Fractions) : i < j => Fractions[i] < Fractions[j]
  /\ Fractions[Len(Fractions)] = 100

VARIABLES
  live,          \* live trading under JH AUTO, or the dry run (never changes)
  strategy,      \* the weights each completed session calls for (never changes)
  day, open,     \* last completed session; whether the next one is running
  marker,        \* last_v322_allocation_trade_date, 0 when missing
  frozen,        \* v322_target_qty_generation, 0 when empty
  gen, weight, tqty, qty,    \* core_positions: signal_trade_date, ...
  budget,        \* the risk budget read when quantities are frozen
  safe,          \* a symbol or the portfolio is in SAFE_MODE
  sell,          \* per symbol, the SELL row of its latest generation
  buy,           \* per symbol, the unfilled shares of its open BUY
  signal,        \* per symbol, its latest BUY signal row
  status, stage, startedOn, filledOn,   \* v322_initial_onboarding_*
  pc, at, sized, \* each thread: where it is, its symbol, the sizes it read
  crashes, retargets,
  raced          \* history: rows changed under a pass already trading on them

allocVars == <<live, strategy, day, open, marker, frozen, gen, weight, tqty,
               qty, budget, safe, sell, buy, signal, status, stage, startedOn, filledOn,
               pc, at, sized, crashes, retargets, raced>>
ledgerVars == <<gen, weight, tqty, qty, sell, buy, signal>>
stageVars == <<status, stage, startedOn, filledOn>>
clockVars == <<day, open, live, strategy, crashes, retargets, budget>>

Symbols == 1..SymbolCount
Threads == {"scheduler", "chat"}
NoSell == [gen |-> 0, st |-> "none", n |-> 0, left |-> 0]
NoSignal == [gen |-> 0, st |-> "none", size |-> 0]
Least(a, b) == IF a < b THEN a ELSE b
Excess(a, b) == IF a > b THEN a - b ELSE 0

(* Labels at which a pass has settled which generation it trades on.       *)
Trading == {"freeze", "key", "sell", "sold", "buy", "signal"}
OpenSells == {s \in Symbols : sell[s].st = "open"}
OpenOrders == OpenSells \cup {s \in Symbols : buy[s] > 0}
Flat == \A s \in Symbols : qty[s] = 0
Goto(t, l) == pc' = [pc EXCEPT ![t] = l]
Next1(t, l) == IF at[t] < SymbolCount
               THEN at' = [at EXCEPT ![t] = @ + 1] /\ UNCHANGED pc
               ELSE at' = [at EXCEPT ![t] = 1] /\ Goto(t, l)
Pressing == {"idle", "start", "stage", "date", "run"}
RacedBy(t) == raced \/ \E u \in Threads \ {t} : pc[u] \notin Pressing

(* target_quantity: whole shares the weight buys out of the budget.        *)
Full(s, b) == (weight[s] * b) \div Price

(* _effective_fraction, for a status the cap applies to.                   *)
Fraction == IF status = "ACTIVE" /\ stage >= 1 THEN Fractions[stage] ELSE 0

(* _effective_target_quantity.                                             *)
Effective(s, target) ==
  CASE status = "NOT_STARTED" -> Least(qty[s], target)
    [] status = "ACTIVE" -> (target * Fraction) \div 100
    [] OTHER -> target

(* invalidate_active_signals for every symbol.                             *)
Invalidated ==
  [s \in Symbols |-> IF signal[s].st = "ACTIVE"
                     THEN [signal[s] EXCEPT !.st = "INVALID"] ELSE signal[s]]

Init ==
  /\ live \in BOOLEAN
  /\ strategy \in Plans
  /\ day = 1 /\ open = FALSE /\ marker = 0 /\ frozen = 0
  /\ gen = [s \in Symbols |-> 0] /\ weight = [s \in Symbols |-> 0]
  /\ tqty = [s \in Symbols |-> 0] /\ qty = [s \in Symbols |-> 0]
  /\ budget \in Budgets /\ safe = FALSE
  /\ sell = [s \in Symbols |-> NoSell] /\ buy = [s \in Symbols |-> 0]
  /\ signal = [s \in Symbols |-> NoSignal]
  /\ status \in IF live THEN {"COMPLETED"} ELSE {"NOT_STARTED", "BYPASSED"}
  /\ stage = IF live THEN Len(Fractions) ELSE 0
  /\ startedOn = 0 /\ filledOn = 0
  /\ pc = [t \in Threads |-> "idle"] /\ at = [t \in Threads |-> 1]
  /\ sized = [t \in Threads |-> [s \in Symbols |-> 0]]
  /\ crashes = 0 /\ retargets = 0 /\ raced = FALSE

-----------------------------------------------------------------------------
(* run_allocation.  It starts with a reconciliation; a mismatch or an      *)
(* outage ends it there, and so does SAFE_MODE.                            *)
Evaluate(t) ==
  /\ pc[t] = "run" /\ ~safe
  /\ Goto(t, IF marker = day THEN "check"
             ELSE IF \E s \in Symbols : weight[s] # strategy[day][s] THEN "supersede"
             ELSE "mark")
  /\ at' = [at EXCEPT ![t] = 1]
  /\ UNCHANGED <<clockVars, ledgerVars, stageVars, marker, frozen, safe, sized,
                 raced>>

Run(t) ==
  /\ pc[t] = "idle" /\ t = "scheduler"
  /\ Goto(t, "run")
  /\ UNCHANGED <<clockVars, ledgerVars, stageVars, marker, frozen, safe, at,
                 sized, raced>>

(* A reconciliation that does not agree, a session not allowed, a price or  *)
(* an account that cannot be read: nothing is traded.                       *)
GiveUp(t) ==
  /\ pc[t] \in {"run", "check", "sold"}
  /\ \E l \in {"idle", "progress"} : Goto(t, l)
  /\ UNCHANGED <<clockVars, ledgerVars, stageVars, marker, frozen, safe, at,
                 sized, raced>>

Supersede(t) ==
  /\ pc[t] = "supersede"
  /\ signal' = Invalidated
  /\ Goto(t, "cancel")
  /\ UNCHANGED <<clockVars, stageVars, marker, frozen, gen, weight, tqty, qty,
                 sell, buy, safe, at, sized, raced>>

(* _cancel_open_core_orders: the broker confirms the end of one order, with *)
(* the k shares it filled before, or SAFE_MODE and an exception.            *)
CancelOrder(t, s) ==
  /\ pc[t] = "cancel"
  /\ \/ /\ sell[s].st = "open"
        /\ \E k \in 0..sell[s].left :
             /\ sell' = [sell EXCEPT ![s].left = @ - k, ![s].st = "ended"]
             /\ qty' = [qty EXCEPT ![s] = @ - k]
             /\ live \/ k \in {0, sell[s].left}
        /\ UNCHANGED buy
     \/ /\ buy[s] > 0
        /\ \E k \in 0..buy[s] :
             /\ qty' = [qty EXCEPT ![s] = @ + k]
             /\ live \/ k \in {0, buy[s]}
        /\ buy' = [buy EXCEPT ![s] = 0]
        /\ UNCHANGED sell
  /\ UNCHANGED <<clockVars, stageVars, marker, frozen, gen, weight, tqty,
                 signal, safe, pc, at, sized, raced>>

CancelUnconfirmed(t) ==
  /\ pc[t] = "cancel" /\ live /\ OpenOrders # {}
  /\ safe' = TRUE
  /\ Goto(t, "idle")
  /\ UNCHANGED <<clockVars, ledgerVars, stageVars, marker, frozen, at, sized,
                 raced>>

Cancelled(t) ==
  /\ pc[t] = "cancel" /\ OpenOrders = {}
  /\ Goto(t, "write")
  /\ UNCHANGED <<clockVars, ledgerVars, stageVars, marker, frozen, safe, at,
                 sized, raced>>

(* Mutant: rows whose weight is unchanged are left in their generation.    *)
WriteTargetIfChanged(t) ==
  LET s == at[t] IN
  /\ pc[t] = "write"
  /\ weight' = [weight EXCEPT ![s] = strategy[day][s]]
  /\ gen' = [gen EXCEPT ![s] = IF weight[s] # strategy[day][s] THEN day ELSE @]
  /\ tqty' = [tqty EXCEPT ![s] = 0]
  /\ Next1(t, "reset")
  /\ raced' = RacedBy(t)
  /\ UNCHANGED <<clockVars, stageVars, marker, frozen, qty, sell, buy, signal,
                 safe, sized>>

(* set_core_target of a new generation, its quantity still unknown.        *)
WriteTarget(t) ==
  LET s == at[t] IN
  /\ pc[t] = "write"
  /\ weight' = [weight EXCEPT ![s] = strategy[day][s]]
  /\ gen' = [gen EXCEPT ![s] = day]
  /\ tqty' = [tqty EXCEPT ![s] = 0]
  /\ Next1(t, "reset")
  /\ raced' = RacedBy(t)
  /\ UNCHANGED <<clockVars, stageVars, marker, frozen, qty, sell, buy, signal,
                 safe, sized>>

ResetKey(t) ==
  /\ pc[t] = "reset"
  /\ frozen' = 0
  /\ Goto(t, "mark")
  /\ raced' = RacedBy(t)
  /\ UNCHANGED <<clockVars, ledgerVars, stageVars, marker, safe, at, sized>>

Mark(t) ==
  /\ pc[t] = "mark"
  /\ marker' = day
  /\ Goto(t, "check")
  /\ UNCHANGED <<clockVars, ledgerVars, stageVars, frozen, safe, at, sized, raced>>

Generations == {gen[s] : s \in Symbols} \ {0}

(* Mutant: the key is set before the quantities are written.               *)
CheckKeyFirst(t) ==
  /\ pc[t] = "check"
  /\ IF Cardinality(Generations) # 1 \/ ~open
     THEN Goto(t, "progress") /\ UNCHANGED <<sized, frozen>>
     ELSE IF frozen \in Generations
     THEN Goto(t, "sell") /\ UNCHANGED <<sized, frozen>>
     ELSE /\ Goto(t, "freeze")
          /\ \E g \in Generations : frozen' = g
          /\ sized' = [sized EXCEPT ![t] = [s \in Symbols |-> Full(s, budget)]]
  /\ UNCHANGED <<clockVars, ledgerVars, stageVars, marker, safe, at, raced>>

(* Nothing is traded unless every row belongs to one generation and the    *)
(* session after it has started; with a frozen generation the SELLs begin, *)
(* otherwise the budget and every price are read first.                    *)
Check(t) ==
  /\ pc[t] = "check"
  /\ IF Cardinality(Generations) # 1 \/ ~open
     THEN Goto(t, "progress") /\ UNCHANGED sized
     ELSE IF frozen \in Generations
     THEN Goto(t, "sell") /\ UNCHANGED sized
     ELSE /\ Goto(t, "freeze")
          /\ sized' = [sized EXCEPT ![t] = [s \in Symbols |-> Full(s, budget)]]
  /\ UNCHANGED <<clockVars, ledgerVars, stageVars, marker, frozen, safe, at, raced>>

(* set_core_target again, with the quantity.                               *)
FreezeTarget(t) ==
  LET s == at[t] IN
  /\ pc[t] = "freeze"
  /\ tqty' = [tqty EXCEPT ![s] = sized[t][s]]
  /\ \E g \in Generations : gen' = [gen EXCEPT ![s] = g]
  /\ Next1(t, "key")
  /\ raced' = RacedBy(t)
  /\ UNCHANGED <<clockVars, stageVars, marker, frozen, weight, qty, sell,
                 buy, signal, safe, sized>>

SetKey(t) ==
  /\ pc[t] = "key"
  /\ \E g \in Generations : frozen' = g
  /\ Goto(t, "sell")
  /\ UNCHANGED <<clockVars, ledgerVars, stageVars, marker, safe, at, sized, raced>>

(* The SELL's client order id names symbol and generation.                 *)
Spent(s) == sell[s].gen = gen[s] /\ sell[s].st # "none"
Surplus(s) == Excess(qty[s], Effective(s, tqty[s]))

(* An open SELL is a barrier for the whole pass.                           *)
SellBarrier(t) ==
  /\ pc[t] = "sell" /\ at[t] = 1 /\ OpenSells # {}
  /\ Goto(t, "progress")
  /\ UNCHANGED <<clockVars, ledgerVars, stageVars, marker, frozen, safe, at,
                 sized, raced>>

NoSurplus(t) ==
  LET s == at[t] IN
  /\ pc[t] = "sell" /\ (at[t] = 1 => OpenSells = {})
  /\ Surplus(s) = 0
  /\ Next1(t, "sold")
  /\ UNCHANGED <<clockVars, ledgerVars, stageVars, marker, frozen, safe, sized,
                 raced>>

(* _sell_core with an id not used before: the broker keeps the order open, *)
(* fills it, or ends it after k shares.                                    *)
SellNew(t) ==
  LET s == at[t] n == Surplus(s) IN
  /\ pc[t] = "sell" /\ (at[t] = 1 => OpenSells = {})
  /\ n > 0 /\ ~Spent(s)
  /\ \E k \in 0..n :
       /\ qty' = [qty EXCEPT ![s] = @ - k]
       /\ \/ /\ k = n \/ live
             /\ sell' = [sell EXCEPT ![s] =
                  [gen |-> gen[s], st |-> IF k = n THEN "filled" ELSE "open",
                   n |-> n, left |-> n - k]]
             /\ Next1(t, "sold") /\ UNCHANGED safe
          \/ /\ k < n /\ live
             /\ sell' = [sell EXCEPT ![s] =
                  [gen |-> gen[s], st |-> "ended", n |-> n, left |-> n - k]]
             /\ safe' = TRUE /\ Goto(t, "idle") /\ UNCHANGED at
  /\ UNCHANGED <<clockVars, stageVars, marker, frozen, gen, weight, tqty, buy,
                 signal, sized, raced>>

(* The id was used: the stored order answers for the new one.  A filled or *)
(* open row of the same quantity is taken for success; anything else is an *)
(* exception and SAFE_MODE.                                                *)
SellAgain(t) ==
  LET s == at[t] IN
  /\ pc[t] = "sell" /\ (at[t] = 1 => OpenSells = {})
  /\ Surplus(s) > 0 /\ Spent(s)
  /\ IF sell[s].n = Surplus(s) /\ sell[s].st \in {"open", "filled"}
     THEN Next1(t, "sold") /\ UNCHANGED safe
     ELSE safe' = TRUE /\ Goto(t, "idle") /\ UNCHANGED at
  /\ UNCHANGED <<clockVars, ledgerVars, stageVars, marker, frozen, sized, raced>>

(* Mutant: the barrier after the SELL phase is dropped.                    *)
SoldUnbarred(t) ==
  /\ pc[t] = "sold"
  /\ Goto(t, IF safe THEN "progress" ELSE "buy")
  /\ UNCHANGED <<clockVars, ledgerVars, stageVars, marker, frozen, safe, at,
                 sized, raced>>

(* BUYs wait for every SELL, a second reconciliation and SAFE_MODE; then   *)
(* expire_stale_signals.                                                   *)
Sold(t) ==
  /\ pc[t] = "sold"
  /\ Goto(t, IF OpenSells # {} \/ safe THEN "progress" ELSE "buy")
  /\ UNCHANGED <<clockVars, ledgerVars, stageVars, marker, frozen, safe, at,
                 sized, raced>>

(* _apply_target reads what is missing ...                                 *)
Wanted(s) == Excess(Effective(s, tqty[s]), qty[s] + buy[s])
ReadMissing(t) ==
  LET s == at[t] IN
  /\ pc[t] = "buy"
  /\ IF Wanted(s) = 0 \/ safe
     THEN Next1(t, "progress") /\ UNCHANGED sized
     ELSE /\ sized' = [sized EXCEPT ![t][s] = Wanted(s)]
          /\ Goto(t, "signal") /\ UNCHANGED at
  /\ UNCHANGED <<clockVars, ledgerVars, stageVars, marker, frozen, safe, raced>>

(* ... and after a price read creates the signal, or reactivates the one of *)
(* this generation; the next pass's sizes are read afresh.                  *)
OpenSignal(t) ==
  LET s == at[t] IN
  /\ pc[t] = "signal"
  /\ signal' = IF signal[s].gen = gen[s] /\ signal[s].st = "ACTIVE" THEN signal
               ELSE [signal EXCEPT ![s] =
                      [gen |-> gen[s], st |-> "ACTIVE", size |-> sized[t][s]]]
  /\ IF s < SymbolCount
     THEN at' = [at EXCEPT ![t] = s + 1] /\ Goto(t, "buy")
     ELSE at' = [at EXCEPT ![t] = 1] /\ Goto(t, "progress")
  /\ raced' = (raced \/ pc["chat"] = "start")
  /\ UNCHANGED <<clockVars, stageVars, marker, frozen, gen, weight, tqty, qty,
                 sell, buy, safe, sized>>

-----------------------------------------------------------------------------
(* _stage_is_filled.                                                       *)
StageFilled ==
  frozen # 0 /\ \A s \in Symbols : qty[s] >= Effective(s, tqty[s])

(* _refresh_onboarding_progress, its outcome.                              *)
FilledNow == IF ~StageFilled THEN 0 ELSE IF filledOn = 0 THEN day ELSE filledOn
StatusNow == IF StageFilled /\ stage = Len(Fractions) THEN "COMPLETED" ELSE status

Progress(t) ==
  /\ pc[t] = "progress"
  /\ IF status = "ACTIVE" /\ ~safe /\ stage >= 1
     THEN filledOn' = FilledNow /\ status' = StatusNow
     ELSE UNCHANGED <<filledOn, status>>
  /\ Goto(t, "idle")
  /\ sized' = [sized EXCEPT ![t] = [s \in Symbols |-> 0]]
  /\ UNCHANGED <<clockVars, ledgerVars, stage, startedOn, marker, frozen, safe, at,
                 raced>>

(* Mutant: BUY signals from before the start stay ACTIVE.                  *)
PressStartKeepsSignals ==
  /\ pc["chat"] = "idle" /\ status \in {"NOT_STARTED", "BYPASSED"}
  /\ Flat /\ OpenOrders = {} /\ ~safe
  /\ Goto("chat", "start")
  /\ UNCHANGED <<clockVars, ledgerVars, stageVars, marker, frozen, safe, at,
                 sized, raced>>

(* start_onboarding: three committed steps, then a pass on the chat thread. *)
PressStart ==
  /\ pc["chat"] = "idle" /\ status \in {"NOT_STARTED", "BYPASSED"}
  /\ Flat /\ OpenOrders = {} /\ ~safe
  /\ signal' = Invalidated
  /\ Goto("chat", "start")
  /\ UNCHANGED <<clockVars, stageVars, marker, frozen, gen, weight, tqty, qty,
                 sell, buy, safe, at, sized, raced>>

Activate ==
  /\ pc["chat"] = "start"
  /\ status' = "ACTIVE"
  /\ Goto("chat", "stage")
  /\ raced' = (raced \/ pc["scheduler"] = "signal")
  /\ UNCHANGED <<clockVars, ledgerVars, stage, startedOn, filledOn, marker,
                 frozen, safe, at, sized>>

OpenStage ==
  /\ pc["chat"] = "stage"
  /\ stage' = stage + 1
  /\ Goto("chat", "date")
  /\ UNCHANGED <<clockVars, ledgerVars, status, startedOn, filledOn, marker,
                 frozen, safe, at, sized, raced>>

(* Mutant: the date the previous stage was filled on is kept.              *)
DateStageKept ==
  /\ pc["chat"] = "date"
  /\ startedOn' = day
  /\ Goto("chat", "run")
  /\ UNCHANGED <<clockVars, ledgerVars, status, stage, filledOn, marker, frozen,
                 safe, at, sized, raced>>

(* The date the new stage was filled on is cleared.                        *)
DateStage ==
  /\ pc["chat"] = "date"
  /\ startedOn' = day /\ filledOn' = 0
  /\ Goto("chat", "run")
  /\ UNCHANGED <<clockVars, ledgerVars, status, stage, marker, frozen, safe, at,
                 sized, raced>>

(* advance_onboarding refreshes the progress and then decides on it.       *)
NextStageReady ==
  /\ status = "ACTIVE" /\ stage \in 1..(Len(Fractions) - 1)
  /\ StageFilled /\ filledOn # 0 /\ day - filledOn >= Gap

PressAdvance ==
  /\ pc["chat"] = "idle" /\ NextStageReady
  /\ signal' = Invalidated
  /\ Goto("chat", "stage")
  /\ UNCHANGED <<clockVars, stageVars, marker, frozen, gen, weight, tqty, qty,
                 sell, buy, safe, at, sized, raced>>

-----------------------------------------------------------------------------
(* _build_quote: the signal's plan, and what the target still lacks.       *)
BuySize(s) ==
  Least(signal[s].size,
        Excess(IF tqty[s] > 0 THEN tqty[s] ELSE signal[s].size, qty[s] + buy[s]))

(* A BUY is executed, by execute_one between two passes or by the chat.  A  *)
(* higher price buys fewer shares.                                         *)
BuyPlaced(s) ==
  /\ signal[s].st = "ACTIVE" /\ open /\ weight[s] > 0 /\ ~safe
  /\ IF live THEN frozen # 0 /\ OpenOrders = {} /\ pc["scheduler"] = "idle"
             ELSE pc["chat"] = "idle"
  /\ \E n \in 1..BuySize(s) : buy' = [buy EXCEPT ![s] = @ + n]
  /\ signal' = [signal EXCEPT ![s].st = "PROCESSED"]
  /\ raced' = (raced \/ \E t \in Threads : pc[t] = "signal" /\ at[t] = s)
  /\ UNCHANGED <<clockVars, stageVars, marker, frozen, gen, weight, tqty, qty,
                 sell, safe, pc, at, sized>>

(* The dry-run broker fills an order whole.                                *)
BuyFills(s) ==
  /\ buy[s] > 0
  /\ \E k \in 1..buy[s] :
       /\ live \/ k = buy[s]
       /\ qty' = [qty EXCEPT ![s] = @ + k]
       /\ buy' = [buy EXCEPT ![s] = @ - k]
  /\ UNCHANGED <<clockVars, stageVars, marker, frozen, gen, weight, tqty, sell,
                 signal, safe, pc, at, sized, raced>>

(* A live BUY ends short: the monitor reopens its signal while it is valid. *)
BuyEnds(s) ==
  /\ buy[s] > 0 /\ live /\ pc["scheduler"] = "idle"
  /\ buy' = [buy EXCEPT ![s] = 0]
  /\ signal' = [signal EXCEPT ![s].st =
                IF open /\ weight[s] > 0 THEN "ACTIVE" ELSE "EXPIRED"]
  /\ UNCHANGED <<clockVars, stageVars, marker, frozen, gen, weight, tqty, qty,
                 sell, safe, pc, at, sized, raced>>

SellFills(s) ==
  /\ sell[s].st = "open"
  /\ qty' = [qty EXCEPT ![s] = @ - sell[s].left]
  /\ sell' = [sell EXCEPT ![s].st = "filled", ![s].left = 0]
  /\ UNCHANGED <<clockVars, stageVars, marker, frozen, gen, weight, tqty, buy,
                 signal, safe, pc, at, sized, raced>>

SellEnds(s) ==
  /\ sell[s].st = "open" /\ pc["scheduler"] = "idle"
  /\ sell' = [sell EXCEPT ![s].st = "ended"]
  /\ safe' = TRUE
  /\ UNCHANGED <<clockVars, stageVars, marker, frozen, gen, weight, tqty, qty,
                 buy, signal, pc, at, sized, raced>>

-----------------------------------------------------------------------------
(* OperatorSafetyService.resume, when the broker and the ledger agree.     *)
AllocResume ==
  /\ safe /\ pc["chat"] = "idle" /\ OpenOrders = {}
  /\ safe' = FALSE
  /\ UNCHANGED <<clockVars, ledgerVars, stageVars, marker, frozen, pc, at, sized,
                 raced>>

(* A JH AUTO capital change: _invalidate_target_generation.                *)
Retarget(b) ==
  /\ live /\ OpenOrders = {} /\ pc["chat"] = "idle"
  /\ retargets < MaxRetargets /\ b # budget
  /\ retargets' = retargets + 1
  /\ budget' = b /\ frozen' = 0
  /\ tqty' = [s \in Symbols |-> 0]
  /\ signal' = Invalidated
  /\ raced' = (raced \/ pc["scheduler"] \in Trading)
  /\ UNCHANGED <<live, strategy, day, open, crashes, stageVars, marker, gen,
                 weight, qty, sell, buy, safe, pc, at, sized>>

(* The process ends and starts again; only the database is left.           *)
AllocCrash ==
  /\ crashes < MaxCrashes /\ \E t \in Threads : pc[t] # "idle"
  /\ crashes' = crashes + 1
  /\ pc' = [t \in Threads |-> "idle"] /\ at' = [t \in Threads |-> 1]
  /\ sized' = [t \in Threads |-> [s \in Symbols |-> 0]]
  /\ UNCHANGED <<live, strategy, day, open, retargets, budget, ledgerVars,
                 stageVars, marker, frozen, safe, raced>>

SessionOpens ==
  /\ ~open /\ \A t \in Threads : pc[t] = "idle"
  /\ open' = TRUE
  /\ UNCHANGED <<live, strategy, day, crashes, retargets, budget, ledgerVars,
                 stageVars, marker, frozen, safe, pc, at, sized, raced>>

(* The session completes: the next day's bars may be evaluated, and every  *)
(* BUY signal has reached its valid_until.                                 *)
DayEnds ==
  /\ open /\ day < MaxDay /\ \A t \in Threads : pc[t] = "idle"
  /\ day' = day + 1 /\ open' = FALSE
  /\ signal' = [s \in Symbols |-> IF signal[s].st = "ACTIVE"
                THEN [signal[s] EXCEPT !.st = "EXPIRED"] ELSE signal[s]]
  /\ UNCHANGED <<live, strategy, crashes, retargets, budget, stageVars, gen,
                 weight, tqty, qty, sell, buy, marker, frozen, safe, pc, at,
                 sized, raced>>

-----------------------------------------------------------------------------
Pass(t) ==
  \/ Run(t) \/ Evaluate(t) \/ GiveUp(t) \/ Supersede(t)
  \/ \E s \in Symbols : CancelOrder(t, s)
  \/ CancelUnconfirmed(t) \/ Cancelled(t) \/ WriteTarget(t) \/ ResetKey(t)
  \/ Mark(t) \/ Check(t) \/ FreezeTarget(t) \/ SetKey(t)
  \/ SellBarrier(t) \/ NoSurplus(t) \/ SellNew(t) \/ SellAgain(t) \/ Sold(t)
  \/ ReadMissing(t) \/ OpenSignal(t) \/ Progress(t)

Onboarding ==
  PressStart \/ Activate \/ OpenStage \/ DateStage \/ PressAdvance

Orders == \E s \in Symbols :
  BuyPlaced(s) \/ BuyFills(s) \/ BuyEnds(s) \/ SellFills(s) \/ SellEnds(s)

AllocEnv ==
  AllocResume \/ (\E b \in Budgets : Retarget(b)) \/ AllocCrash
  \/ SessionOpens \/ DayEnds

AllocNext == (\E t \in Threads : Pass(t)) \/ Onboarding \/ Orders \/ AllocEnv
AllocSpec == Init /\ [][AllocNext]_allocVars

-----------------------------------------------------------------------------
AllocTypeOK ==
  /\ live \in BOOLEAN /\ open \in BOOLEAN /\ safe \in BOOLEAN /\ raced \in BOOLEAN
  /\ strategy \in Plans
  /\ day \in 1..MaxDay /\ marker \in 0..MaxDay /\ frozen \in 0..MaxDay
  /\ gen \in [Symbols -> 0..MaxDay] /\ weight \in [Symbols -> Nat]
  /\ tqty \in [Symbols -> Nat] /\ qty \in [Symbols -> Nat] /\ budget \in Budgets
  /\ sell \in [Symbols -> [gen : 0..MaxDay, n : Nat, left : Nat,
                           st : {"none", "open", "filled", "ended"}]]
  /\ buy \in [Symbols -> Nat]
  /\ signal \in [Symbols -> [gen : 0..MaxDay, size : Nat,
         st : {"none", "ACTIVE", "PROCESSED", "INVALID", "EXPIRED"}]]
  /\ status \in {"NOT_STARTED", "ACTIVE", "COMPLETED", "BYPASSED"}
  /\ stage \in 0..Len(Fractions)
  /\ startedOn \in 0..MaxDay /\ filledOn \in 0..MaxDay
  /\ at \in [Threads -> Symbols] /\ sized \in [Threads -> [Symbols -> Nat]]
  /\ crashes \in 0..MaxCrashes /\ retargets \in 0..MaxRetargets

(* A pass sells a symbol down to what the weight of its generation and the *)
(* onboarding stage allow, not a share further, unless its rows were       *)
(* changed under it: the target quantities written in several transactions *)
(* (run_allocation 237-270) are never traded on half-written.              *)
SoldToTarget ==
  [][\A s \in Symbols :
       sell'[s].gen # sell[s].gen /\ ~raced =>
         \E b \in Budgets :
           qty[s] - sell'[s].n = Effective(s, Full(s, b))]_allocVars

(* "위험축소 SELL을 우선합니다": a pass opens BUY signals only when no symbol  *)
(* is above its target any more and no SELL is open.                       *)
SellsFirst ==
  [][\A s \in Symbols :
       signal'[s].st = "ACTIVE" /\ signal[s].st # "ACTIVE" /\ ~raced
         => \A r \in Symbols : Surplus(r) = 0 /\ sell[r].st # "open"]_allocVars

(* The same, except for a symbol whose SELL of this generation was already *)
(* used up: the BUY barrier (run_allocation 272-302) itself never leaks.   *)
SellsFirstUnspent ==
  [][\A s \in Symbols :
       signal'[s].st = "ACTIVE" /\ signal[s].st # "ACTIVE" /\ ~raced
         => \A r \in Symbols : (Surplus(r) = 0 \/ Spent(r))
                              /\ sell[r].st # "open"]_allocVars

(* While the first entry is staged, no BUY lifts a symbol above its stage: *)
(* "Only risk-increasing BUY quantity is capped while onboarding is        *)
(* active" (initial_onboarding_portfolio 42-45), although an order itself  *)
(* is only bounded by its signal's plan and the full target.               *)
CapHeld ==
  [][\A s \in Symbols :
       buy'[s] > buy[s] /\ status = "ACTIVE" /\ ~raced
         => qty[s] + buy'[s] <= Effective(s, tqty[s])]_allocVars

(* Two stages are opened at least Gap completed sessions apart, however the *)
(* weights change in between and however little a stage adds: a stage that  *)
(* asks for no further share does not inherit the date of the one before,  *)
(* unless the process died while it was opened (advance_onboarding 163-168). *)
StagesApart ==
  [][stage' > stage /\ stage >= 1 /\ crashes = 0
       => day - startedOn >= Gap]_allocVars

(* Both promises of the staged first entry: its size and its pace.          *)
FirstEntryStaged == CapHeld /\ StagesApart

(* Between passes all rows belong to one generation, whatever order weight *)
(* changes, retargets and failures come in, unless the process died among  *)
(* the writes (run_allocation 150-161).                                    *)
OneGeneration ==
  (\A t \in Threads : pc[t] = "idle") /\ crashes = 0 /\ ~raced
    => Cardinality(Generations) <= 1
=============================================================================
