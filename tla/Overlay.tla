------------------------------- MODULE Overlay -------------------------------
(***************************************************************************)
(* The virtual JDSS position of one leveraged symbol.  The allocator never *)
(* trades it: every session it replays the simulation over all completed   *)
(* bars, and the position decides whether the symbol's overlay weight is   *)
(* on.  One session is three steps, in the order of the engine's loop:     *)
(*   Opening   the decision of the previous close is executed at the open; *)
(*   Climb     the day's high meets the take-profit prices;                *)
(*   Closing   the recovery is armed, a new decision is taken and the      *)
(*             session is replayed from the list of its trades.            *)
(* Prices of bars are ticks, the average price a fraction of hundredths of *)
(* a tick, cash ten-thousandths: fee, slippage and percentages are exact.  *)
(* What the indicators say (score, regime, reversal, guards, recovery) is  *)
(* chosen at each close; a bar missing from one of the frames is not here. *)
(***************************************************************************)
EXTENDS Integers, Sequences, FiniteSets

CONSTANTS
    Prices,          \* the prices of a bar, in ticks
    Scores,          \* total scores a session may earn
    Capital,         \* capital_per_symbol, in ticks
    Sessions,        \* bound on the sessions of the replay
    Bands,           \* pairs <<score, percent>> of the exposure bands
    Weights,         \* cumulative stage weights, percent
    Drops,           \* min_drop_from_anchor of each stage, percent
    StageScore,      \* the score a further stage needs
    Fee, FillSlip,       \* fee of a trade, slippage of a fill, percent
    Chase,           \* entry_max_chase_pct
    First, FirstPart, Second,  \* tp1_base, tp1_fraction, tp2_base, percent
    Rebuys, RebuyScore, RebuyDrop,  \* max_rebuy_per_cycle (0: disabled), ...
    Patience, ExitGain              \* remainder_exit: wait_trading_days, ...

(* At least one stage, each with its weight and drop, all of them together  *)
(* at most the whole cap; percentages are not negative, and a fee is a part *)
(* of its trade.                                                            *)
ASSUME OverlayAssumption ==
    /\ Prices \subseteq Nat \ {0}
    /\ Capital \in Nat \ {0}
    /\ Sessions \in Nat
    /\ Weights \in Seq(Nat) /\ Drops \in Seq(Nat)
    /\ Len(Weights) = Len(Drops) /\ Len(Weights) >= 1
    /\ \A i \in DOMAIN Weights : Weights[i] <= 100
    /\ IsFiniteSet(Bands) /\ Bands \subseteq Nat \X Nat
    /\ Fee \in 0..100
    /\ {FillSlip, Chase, First, FirstPart, Second, Rebuys, RebuyDrop, Patience,
        ExitGain} \subseteq Nat

VARIABLES
    sim,      \* _SimulationState
    pend,     \* the decision waiting for the next open, in a set
    part,     \* the step the session is at
    bar,      \* the highest price of the session so far
    session,  \* sessions simulated
    bought, shed,   \* quantities of the session's BUY and SELL trades
    endQty,   \* end_of_day_quantity of virtual_active_series
    lit       \* the replay's flag of the session, before its shift

simVars == <<sim, pend, part, bar, session, bought, shed, endQty, lit>>

-----------------------------------------------------------------------------
(* Arithmetic: quotients of naturals, rounded as Decimal rounds them. *)
Ceiling(n, d) == (n + d - 1) \div d

HalfEven(n, d) ==
    LET q == n \div d
        r == 2 * (n % d)
    IN  IF r > d \/ (r = d /\ q % 2 = 1) THEN q + 1 ELSE q

Lower(a, b) == IF a < b THEN a ELSE b
Upper(a, b) == IF a > b THEN a ELSE b

(* The state of an empty cycle with this cash: _reset_cycle. *)
Blank(cash) ==
    [state |-> "empty", qty |-> 0, avg |-> <<0, 1>>, cap |-> 0, staged |-> 0,
     cash |-> cash, stage |-> 0, anchor |-> 0, rebuys |-> 0, armed |-> FALSE,
     firstQty |-> 0, tp |-> {}, done |-> FALSE, days |-> 0, firstDay |-> 0,
     began |-> 0]

(* current_cost_basis never exceeds this many ticks when n is the cap. *)
CostWithin(s, n) == s.avg[1] * s.qty <= n * 100 * s.avg[2]

-----------------------------------------------------------------------------
(* The decision of a close. *)

(* score_to_exposure: the best band the score reaches. *)
Exposure(score) ==
    LET earned == {b[2] : b \in {c \in Bands : score >= c[1]}}
    IN  IF earned = {} THEN 0
        ELSE (Capital * (CHOOSE m \in earned : \A n \in earned : n <= m)) \div 100

(* update_cycle_exposure_cap: within a cycle the cap only rises. *)
NewCap(cap, score) ==
    IF cap = 0 THEN Exposure(score) ELSE Lower(Capital, Upper(cap, Exposure(score)))

(* Mutant: what the earlier stages used is not taken off. *)
StageBudgetWhole(cap, stage, staged) == HalfEven(cap * Weights[stage], 100)

(* calculate_stage_budget, in ticks. *)
StageBudget(cap, stage, staged) ==
    HalfEven(Upper(0, HalfEven(cap * Weights[stage], 100) * 10000 - staged), 10000)

(* A stage's trigger and the rebuy's, in hundredths of a tick. *)
Trigger(s, stage) == s.anchor * (100 - Drops[stage])
RebuyTrigger(s) == HalfEven(s.avg[1] * (100 - RebuyDrop), s.avg[2] * 100)

(* evaluate_entry. *)
EntryDecision(s, close, score) ==
    LET cap == Exposure(score)
        budget == StageBudget(cap, 1, 0)
    IN  {d \in {[action |-> "first", stage |-> 1, cap |-> cap, budget |-> budget,
                 trigger |-> 0, close |-> close]} :
           /\ s.state = "empty"
           /\ cap > 0
           /\ budget > 0}

(* evaluate_additional_entry: one stage further, at a price below the anchor. *)
AddDecision(s, close, score) ==
    LET stage == s.stage + 1
        cap == NewCap(s.cap, score)
    IN  {d \in {[action |-> "add", stage |-> stage, cap |-> cap,
                 budget |-> StageBudget(cap, stage, s.staged),
                 trigger |-> HalfEven(Trigger(s, stage), 100), close |-> close] :
                   n \in {m \in DOMAIN Weights : m = stage}} :
           /\ s.state = "held"
           /\ score >= StageScore
           /\ d.budget > 0
           /\ close * 10000 <= Trigger(s, stage)}

(* evaluate_rebuy: room up to the cap, at most what the first sale sold. *)
RebuyBudget(s, close) ==
    LET room == s.cap * 100 * s.avg[2] - s.avg[1] * s.qty
        asked == s.firstQty * close * (100 + Fee)
    IN  Lower(HalfEven(Upper(0, room), s.avg[2] * 100), HalfEven(asked, 100))

RebuyDecision(s, close, score, reoversold) ==
    {d \in {[action |-> "rebuy", stage |-> s.stage, cap |-> s.cap,
             budget |-> RebuyBudget(s, close), trigger |-> RebuyTrigger(s),
             close |-> close]} :
       /\ s.state = "partial"
       /\ s.armed
       /\ reoversold
       /\ s.rebuys < Rebuys
       /\ score >= RebuyScore
       /\ d.budget > 0
       /\ close * 10000 * s.avg[2] <= s.avg[1] * (100 - RebuyDrop)}

(* evaluate_strategy dispatches on the state: at most one applies. *)
Decided(s, close, score, reoversold) ==
    UNION {EntryDecision(s, close, score), AddDecision(s, close, score),
           RebuyDecision(s, close, score, reoversold)}

-----------------------------------------------------------------------------
(* _execute_pending at an open. *)

(* calculate_execution_price_ceiling, in hundredths of a tick; a rebuy's is *)
(* taken from the average price again.                                      *)
CeilingPrice(s, d) ==
    LET chase == d.close * (100 + Chase)
    IN  CASE d.action = "first" -> chase
          [] d.action = "add" -> Lower(chase, d.trigger)
          [] d.action = "rebuy" ->
               Lower(chase, (s.avg[1] * (100 - RebuyDrop)) \div (s.avg[2] * 100))

(* calculate_order_quantity from the budget and the cash left. *)
Affordable(s, d, fill) ==
    LET n == Lower(d.budget * 10000, s.cash) \div (fill * (100 + Fee))
    IN  IF d.action = "rebuy" THEN Lower(n, s.firstQty) ELSE n

(* calculate_take_profit: the prices in ticks, the first part rounded up. *)
TakeProfit(avg, qty) ==
    [first |-> Ceiling(avg[1] * (100 + First), avg[2] * 10000),
     second |-> Ceiling(avg[1] * (100 + Second), avg[2] * 10000),
     part |-> Upper(1, Lower(qty, Ceiling(qty * FirstPart, 100)))]

(* Mutant: the new average ignores what is already held. *)
AveragedFresh(s, n, fill) == <<fill, 1>>

(* The average price after n more at this fill: cost over quantity. *)
Averaged(s, n, fill) ==
    <<s.avg[1] * s.qty + n * fill * s.avg[2], s.avg[2] * (s.qty + n)>>

(* A fraction whose denominator is the quantity again, when it can be. *)
Reduced(avg, qty) ==
    IF (avg[1] * qty) % avg[2] = 0 THEN <<(avg[1] * qty) \div avg[2], qty>> ELSE avg

Filled(s, d, n, fill) ==
    LET gross == n * fill * (100 + Fee)
        avg == Reduced(Averaged(s, n, fill), s.qty + n)
        held == [s EXCEPT !.qty = @ + n, !.avg = avg, !.cash = @ - gross,
                          !.tp = {TakeProfit(avg, s.qty + n)}, !.done = FALSE]
    IN  CASE d.action = "first" ->
               [held EXCEPT !.state = "held", !.stage = 1, !.anchor = fill,
                            !.cap = d.cap, !.staged = gross, !.began = s.cash,
                            !.days = 0, !.firstQty = 0, !.rebuys = 0, !.armed = FALSE]
          [] d.action = "add" ->
               [held EXCEPT !.state = "held", !.stage = d.stage, !.cap = d.cap,
                            !.staged = @ + gross]
          [] d.action = "rebuy" ->
               [held EXCEPT !.state = "rebought", !.rebuys = @ + 1, !.armed = FALSE]

(* The fill of a pending decision at this open, or nothing: the chase rule, *)
(* a recovered stage price, the ceiling and a quantity of none skip it.     *)
Executed(s, d, open) ==
    LET fill == open * (100 + FillSlip)
        n == Affordable(s, d, fill)
    IN  IF \/ open * 100 > d.close * (100 + Chase)
           \/ d.action # "first" /\ open * 100 > d.trigger
           \/ fill > CeilingPrice(s, d)
           \/ n < 1
        THEN s
        ELSE Filled(s, d, n, fill)

-----------------------------------------------------------------------------
(* The take profits of a high, in the engine's order. *)

Reduce(s, n, price) ==
    [s EXCEPT !.qty = @ - n, !.cash = @ + n * price * (100 - Fee) * 100]

(* The first sale: the planned part, and the state becomes PARTIAL_TP_1. *)
TakeFirst(s, high) ==
    LET hit == {p \in s.tp : ~s.done /\ s.qty > 0 /\ high >= p.first}
    IN  IF hit = {} THEN s
        ELSE LET p == CHOOSE p \in hit : TRUE
                 n == Lower(p.part, s.qty)
                 sold == [Reduce(s, n, p.first) EXCEPT !.firstQty = n, !.done = TRUE,
                                                       !.firstDay = s.days]
             IN  IF n = s.qty THEN sold
                 ELSE [sold EXCEPT !.state = "partial", !.armed = FALSE]

(* The second sale: everything left. *)
TakeSecond(s, high) ==
    LET hit == {p \in s.tp : s.qty > 0 /\ high >= p.second}
    IN  IF hit = {} THEN s ELSE Reduce(s, s.qty, (CHOOSE p \in hit : TRUE).second)

(* A cycle with nothing left is closed. *)
Closed(s) == IF s.state # "empty" /\ s.qty = 0 THEN Blank(s.cash) ELSE s

(* StrategyBacktestEngine: after the wait, the rest leaves at a lower gain. *)
ExitRemainder(s, high) ==
    LET price == Ceiling(s.avg[1] * (100 + ExitGain), s.avg[2] * 10000)
    IN  IF /\ s.state = "partial"
           /\ s.done
           /\ s.days - s.firstDay >= Patience
           /\ high >= price
        THEN Closed(Reduce(s, s.qty, price))
        ELSE s

TakeProfits(s, high) ==
    ExitRemainder(Closed(TakeSecond(TakeFirst(s, high), high)), high)

-----------------------------------------------------------------------------
(* virtual_active_series: one session of the replay of the trades. *)

(* Mutant: the session's sales are applied before its purchases. *)
ReplayedSalesFirst(qty, buys, sales) == Upper(0, qty - sales) + buys

Replayed(qty, buys, sales) == Upper(0, qty + buys - sales)

(* The session opens: a pending decision is executed or skipped, never kept. *)
Opening ==
    /\ part = "open"
    /\ session < Sessions
    /\ \E open \in Prices :
         LET after == IF pend = {} THEN sim
                      ELSE Executed(sim, CHOOSE d \in pend : TRUE, open)
         IN  /\ sim' = IF after.qty > 0 THEN [after EXCEPT !.days = @ + 1] ELSE after
             /\ bought' = after.qty - sim.qty
             /\ bar' = open
    /\ pend' = {}
    /\ session' = session + 1
    /\ part' = "high"
    /\ UNCHANGED <<shed, endQty, lit>>

(* The high of the session, at least its open. *)
Climb ==
    /\ part = "high"
    /\ \E high \in {p \in Prices : p >= bar} :
         /\ sim' = TakeProfits(sim, high)
         /\ shed' = sim.qty - sim'.qty
         /\ bar' = high
    /\ part' = "close"
    /\ UNCHANGED <<pend, session, bought, endQty, lit>>

(* The close: a first sale's recovery is armed, then the strategy decides *)
(* (regime, reversal and guards may block it) and the session is replayed. *)
Closing ==
    /\ part = "close"
    /\ \E recovery \in BOOLEAN :
         sim' = IF sim.state = "partial" /\ recovery
                THEN [sim EXCEPT !.armed = TRUE] ELSE sim
    /\ \E close \in {p \in Prices : p <= bar}, score \in Scores, reoversold \in BOOLEAN :
         pend' \in {{}, Decided(sim', close, score, reoversold)}
    /\ lit' = (endQty + bought > 0)
    /\ endQty' = Replayed(endQty, bought, shed)
    /\ bought' = 0
    /\ shed' = 0
    /\ bar' = 0
    /\ part' = "open"
    /\ UNCHANGED session

OverlayInit ==
    /\ sim = Blank(Capital * 10000)
    /\ pend = {}
    /\ part = "open"
    /\ bar = 0
    /\ session = 0
    /\ bought = 0 /\ shed = 0
    /\ endQty = 0
    /\ lit = FALSE

OverlayNext == Opening \/ Climb \/ Closing

OverlaySpec == OverlayInit /\ [][OverlayNext]_simVars

-----------------------------------------------------------------------------
(* What two of the properties need of the settings beyond their validation. *)

(* The caps a cycle may have.                                               *)
Caps == ({Capital} \cup {(Capital * b[2]) \div 100 : b \in Bands}) \ {0}

(* The stages leave room below every cap for a budget that is rounded up.   *)
RoomForRounding ==
    \A cap \in Caps : \A i \in DOMAIN Weights : HalfEven(cap * Weights[i], 100) < cap

(* Every sale's gain pays the fees of the purchase and of the sale.         *)
GainsCoverFees ==
    \A gain \in {First, Second, ExitGain} :
      100 * (100 + Fee) < (100 + gain) * (100 - Fee)

-----------------------------------------------------------------------------
OverlayTypeOK ==
    /\ sim.state \in {"empty", "held", "partial", "rebought"}
    /\ {sim.qty, sim.cap, sim.staged, sim.cash, sim.stage, sim.rebuys,
        sim.firstQty, sim.days, session, bought, shed, endQty} \subseteq Nat
    /\ Cardinality(pend) <= 1
    /\ part \in {"open", "high", "close"}
    /\ lit \in BOOLEAN

(* The replay of virtual_active_series ends every session with the position *)
(* the engine holds, so its AssertionError never stops the daily job, and   *)
(* its flag is on exactly in the sessions that held something after their   *)
(* open, one that sold everything the same day included.                    *)
ReplayAgrees ==
    /\ part = "open" => endQty = sim.qty
    /\ part = "open" /\ sim.qty > 0 => lit

(* Whatever the stages, partial sales and rebuys of a cycle and however its *)
(* cap rises, the cost of what is held and the capital staged stay within   *)
(* the cycle's cap, and cash is never spent twice.                          *)
CapHonoured ==
    /\ CostWithin(sim, sim.cap)
    /\ sim.staged <= sim.cap * 10000
    /\ sim.cash >= 0
    /\ sim.qty > 0 <=> sim.state # "empty"

(* There is no stop loss: a cycle of the replay ends only by sales above    *)
(* its average cost, so it never ends with less cash than it began with.    *)
CycleGains ==
    [][sim.state # "empty" /\ sim'.state = "empty" => sim'.cash > sim.began]_simVars
=============================================================================
