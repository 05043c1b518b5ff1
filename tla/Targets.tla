------------------------------- MODULE Targets -------------------------------
(***************************************************************************)
(* The V3.2.2 target and the portfolio simulation that trades it.  At each *)
(* close the trend of QQQ sets the leverage of the month and SOXX against  *)
(* QQQ its semiconductor sleeve; within the month both may only fall.  The *)
(* weights of QQQ, TQQQ and SOXL follow, the JDSS overlay moves a twentieth*)
(* out of QQQ (with the flags of the session before), and at the next open *)
(* the simulation rebalances to them, its budget 75% of the high water.    *)
(* Live, the last target is what the allocator applies; the simulation is  *)
(* the report's.  Leverage is in quarters, weights in 400ths, the entry    *)
(* fraction in quarters, fee and slippage in tenths and money in 100ths:   *)
(* the report's floating point is exact here.                              *)
(***************************************************************************)
EXTENDS Integers, Sequences, FiniteSets

CONSTANTS
    Quotes,       \* prices of a session, functions of the asset
    Trends,       \* sets of trend votes a session may show
    Endowment,    \* initial_capital
    BuyFee, SellFee, Slippage,   \* tenths
    EntrySteps,   \* cumulative_fractions of the first entry, quarters
    Interval,     \* minimum_sessions_between_stages of the first entry
    MaxSession,   \* bound on the sessions simulated
    MaxMonth      \* bound on the months

(* InitialOnboardingPolicy.validate: the stages of the entry grow up to all. *)
ASSUME TargetsAssumption ==
    /\ \A t \in Trends : t \subseteq {"short", "medium", "long", "cross", "slope"}
    /\ \A quote \in Quotes : \A a \in {"QQQ", "TQQQ", "SOXL"} : quote[a] \in Nat \ {0}
    /\ Endowment \in Nat \ {0}
    /\ EntrySteps \in Seq(1..4) \ {<<>>}
    /\ \A i, j \in DOMAIN EntrySteps : i < j => EntrySteps[i] < EntrySteps[j]
    /\ EntrySteps[Len(EntrySteps)] = 4
    /\ {Interval, MaxSession, MaxMonth} \subseteq Nat \ {0}
    /\ {BuyFee, SellFee, Slippage} \subseteq 0..9

VARIABLES
    alloc,    \* AllocationState: month, leverage, semiconductor sleeve
    reset,    \* the leverage the month began with
    flags,    \* the overlay flags of the last session, used by the next
    wish,     \* weights to trade at the next open (pending)
    traded,   \* weights last traded (current), in a set
    purse, units,   \* cash and quantities
    peak,     \* high_water
    missed,   \* history: the last rebalance did not reach its quantities
    turn, stamp     \* step of the session, sessions simulated

targetVars == <<alloc, reset, flags, wish, traded, purse, units, peak, missed, turn, stamp>>

-----------------------------------------------------------------------------
Assets == {"QQQ", "TQQQ", "SOXL"}
Leveraged == {"TQQQ", "SOXL"}

(* Leverage levels: defensive, normal, trend, strong. *)
Defensive == 2
Normal == 4
Trending == 5
Strong == 6
Levels == {Defensive, Normal, Trending, Strong}

(* What the feature row of a session says; ready is _row_ready. *)
Rows == [ready : BOOLEAN, brake : BOOLEAN, above : BOOLEAN, votes : Trends]

(* trend_vote: three of five. *)
TrendVote(row) == row.ready /\ Cardinality(row.votes) >= 3

(* base_leverage: the brake first, then the long average, then the trend. *)
BaseLeverage(row) ==
    CASE ~row.ready -> Normal
      [] row.ready /\ row.brake -> Defensive
      [] row.ready /\ ~row.brake /\ ~row.above -> Normal
      [] row.ready /\ ~row.brake /\ row.above ->
           CASE {"cross", "medium", "long"} \subseteq row.votes -> Strong
             [] ~({"cross", "medium", "long"} \subseteq row.votes) /\ TrendVote(row) -> Trending
             [] OTHER -> Normal

(* advance_state: a new month starts over, within one both only fall. *)
Advanced(state, month, row, wins) ==
    IF month # state.month
    THEN [month |-> month, lev |-> BaseLeverage(row), semi |-> wins]
    ELSE [month |-> month,
          lev |-> IF row.brake /\ state.lev > Defensive THEN Defensive ELSE state.lev,
          semi |-> state.semi /\ wins]

(* base_weights. *)
BaseWeights(state) ==
    LET sleeve == 50 * (state.lev - 4)
    IN  CASE state.lev <= Normal ->
               [a \in Assets |-> IF a = "QQQ" THEN 100 * state.lev ELSE 0]
          [] state.lev > Normal /\ state.semi ->
               [a \in Assets |-> IF a = "QQQ" THEN 400 - sleeve ELSE sleeve \div 2]
          [] state.lev > Normal /\ ~state.semi ->
               [QQQ |-> 400 - sleeve, TQQQ |-> sleeve, SOXL |-> 0]

(* Mutant: every active symbol receives the whole shift. *)
OverlaidTwice(weights, active) ==
    [a \in Assets |-> IF a = "QQQ" THEN weights[a] - (IF active = {} THEN 0 ELSE 20)
                      ELSE IF a \in active THEN weights[a] + 20 ELSE weights[a]]

(* apply_jdss_overlay: a twentieth of the account, shared by the active ones. *)
Overlaid(weights, active) ==
    LET shift == IF active = {} THEN 0
                 ELSE IF weights["QQQ"] < 20 THEN weights["QQQ"] ELSE 20
    IN  [a \in Assets |->
           CASE a = "QQQ" -> weights[a] - shift
             [] a \in active -> weights[a] + shift \div Cardinality(active)
             [] OTHER -> weights[a]]

(* _apply_initial_onboarding: a part of the weights, by session, then all. *)
EntryFraction(index) ==
    LET stage == index \div Interval + 1
    IN  EntrySteps[IF stage < Len(EntrySteps) THEN stage ELSE Len(EntrySteps)]

Entered(weights, index) == [a \in Assets |-> weights[a] * EntryFraction(index)]

-----------------------------------------------------------------------------
Worth(held, quote, discount) ==
    held["QQQ"] * quote["QQQ"] * discount + held["TQQQ"] * quote["TQQQ"] * discount
      + held["SOXL"] * quote["SOXL"] * discount

(* Mutant: the budget is not limited by what the account is worth. *)
RiskBudgetUnlimited(high, equity) ==
    LET start == Endowment * 100
    IN  start + (3 * (IF high > start THEN high - start ELSE 0)) \div 4

(* hwm_risk_budget: three quarters of the gain at the high water are risked *)
(* again, never more than the account is worth.                             *)
RiskBudget(high, equity) ==
    LET start == Endowment * 100
        gain == IF high > start THEN high - start ELSE 0
        budget == start + (3 * gain) \div 4
    IN  IF budget < equity THEN budget ELSE equity

BuyCost(quote, a) == quote[a] * (10 + Slippage) * (10 + BuyFee)

SaleNet(quote, a) == quote[a] * (10 - Slippage) * (10 - SellFee)

(* Quantities wanted of a budget. *)
Desired(weights, budget, quote) ==
    [a \in Assets |-> ((budget * weights[a]) \div 1600) \div BuyCost(quote, a)]

(* What exceeds the target is sold, in any order: sales never wait. *)
Sale(b, a, want, quote) ==
    LET n == IF b.units[a] > want[a] THEN b.units[a] - want[a] ELSE 0
    IN  [purse |-> b.purse + n * SaleNet(quote, a), units |-> [b.units EXCEPT ![a] = @ - n]]

SoldDown(book, want, quote) ==
    Sale(Sale(Sale(book, "QQQ", want, quote), "TQQQ", want, quote), "SOXL", want, quote)

(* How many of an asset are bought: what is missing, as far as cash goes. *)
Purchase(b, a, want, quote) ==
    LET missing == want[a] - b.units[a]
        affordable == b.purse \div BuyCost(quote, a)
    IN  IF missing <= 0 THEN 0
        ELSE IF missing < affordable THEN missing ELSE affordable

(* Then what is missing is bought, QQQ first. *)
Bought(b, a, want, quote) ==
    LET n == Purchase(b, a, want, quote)
    IN  [purse |-> b.purse - n * BuyCost(quote, a), units |-> [b.units EXCEPT ![a] = @ + n]]

BoughtUp(book, want, quote) ==
    Bought(Bought(Bought(book, "QQQ", want, quote), "TQQQ", want, quote), "SOXL", want, quote)

(* The account at an open: it is rebalanced when the weights have changed. *)
Rebalanced(quote) ==
    LET equity == purse + Worth(units, quote, (10 - SellFee) * 10)
        want == Desired(wish, RiskBudget(peak, equity), quote)
        book == BoughtUp(SoldDown([purse |-> purse, units |-> units], want, quote),
                         want, quote)
    IN  IF traded = {wish}
        THEN UNCHANGED <<purse, units, missed>>
        ELSE purse' = book.purse /\ units' = book.units /\ missed' = (book.units # want)

Rebalance ==
    /\ turn = "open"
    /\ \E quote \in Quotes : Rebalanced(quote)
    /\ traded' = {wish}
    /\ stamp' = stamp + 1
    /\ turn' = "close"
    /\ UNCHANGED <<alloc, reset, flags, wish, peak>>

(* The close: the high water is marked, the state of the month advances and *)
(* the next weights use the overlay flags of the session before.            *)
CloseSession ==
    /\ turn = "close"
    /\ stamp < MaxSession
    /\ \E quote \in Quotes :
         LET equity == purse + Worth(units, quote, (10 - SellFee) * 10)
         IN  peak' = IF equity > peak THEN equity ELSE peak
    /\ \E month \in {m \in {alloc.month, alloc.month + 1} : m \in 1..MaxMonth},
          row \in Rows, wins \in BOOLEAN :
         /\ alloc' = Advanced(alloc, month, row, wins)
         /\ reset' = IF month = alloc.month THEN reset ELSE alloc'.lev
    /\ wish' = Entered(Overlaid(BaseWeights(alloc'), flags), stamp)
    /\ flags' \in SUBSET Leveraged
    /\ turn' = "open"
    /\ UNCHANGED <<traded, purse, units, missed, stamp>>

TargetsInit ==
    /\ alloc = [month |-> 0, lev |-> Normal, semi |-> FALSE]
    /\ reset = Normal
    /\ flags = {}
    /\ wish = [a \in Assets |-> 0]
    /\ traded = {}
    /\ purse = Endowment * 100
    /\ units = [a \in Assets |-> 0]
    /\ peak = Endowment * 100
    /\ missed = FALSE
    /\ turn = "close"
    /\ stamp = 0

TargetsNext == Rebalance \/ CloseSession

TargetsSpec == TargetsInit /\ [][TargetsNext]_targetVars

-----------------------------------------------------------------------------
TargetsTypeOK ==
    /\ alloc \in [month : 0..MaxMonth, lev : Levels, semi : BOOLEAN]
    /\ reset \in Levels
    /\ flags \subseteq Leveraged
    /\ DOMAIN wish = Assets
    /\ DOMAIN units = Assets /\ \A a \in Assets : units[a] >= 0
    /\ purse >= 0
    /\ turn \in {"open", "close"}
    /\ stamp \in 0..MaxSession

(* The market exposure of traded weights in quarters of 400 * 4: QQQ counts *)
(* once, the leveraged funds three times.                                   *)
MarketExposure(weights) ==
    weights["QQQ"] + 3 * (weights["TQQQ"] + weights["SOXL"])

(* Whatever the trend does, the weights are a portfolio without borrowing,  *)
(* whose exposure is at most the leverage the month began with plus twice   *)
(* the overlay's twentieth: neither a trend that turns up within the month, *)
(* a brake that releases nor two active overlays raise it further.          *)
ExposureBounded ==
    /\ \A a \in Assets : wish[a] >= 0
    /\ wish["QQQ"] + wish["TQQQ"] + wish["SOXL"] <= 1600
    /\ MarketExposure(wish) <= EntryFraction(stamp) * (100 * reset + 40)

(* What exceeds a target is sold, the rest of an asset is kept; what the two *)
(* are worth at the prices of an open.                                      *)
ExcessUnits(held, want, a) == IF held[a] > want[a] THEN held[a] - want[a] ELSE 0
KeptUnits(held, want, a) == held[a] - ExcessUnits(held, want, a)

SoldValue(held, want, quote) ==
    ExcessUnits(held, want, "QQQ") * quote["QQQ"] + ExcessUnits(held, want, "TQQQ") * quote["TQQQ"]
      + ExcessUnits(held, want, "SOXL") * quote["SOXL"]

KeptValue(held, want, quote) ==
    KeptUnits(held, want, "QQQ") * quote["QQQ"] + KeptUnits(held, want, "TQQQ") * quote["TQQQ"]
      + KeptUnits(held, want, "SOXL") * quote["SOXL"]

(* A rebalance is sized from the account at the prices of the open, without *)
(* the slippage its sales then pay, and buys only what its cash allows.  It *)
(* may therefore end short of the quantities wanted, but only by slippage   *)
(* and only after it has sold more, at those prices, than it kept: fees, the *)
(* high water, the stages of the entry and prices that have moved are all   *)
(* covered by the budget (_rebalance).                                      *)
ShortOnlyByTurnover ==
    [][\A quote \in Quotes :
         turn = "open" /\ Rebalanced(quote) /\ traded # {wish} /\ missed'
         => Slippage > 0 /\ KeptValue(units, units', quote) < SoldValue(units, units', quote)
      ]_targetVars

(* What a target promises: no more exposure than decided, and reached when  *)
(* traded, but for the slippage of a turnover.                              *)
TargetHonoured == []ExposureBounded /\ ShortOnlyByTurnover
=============================================================================
