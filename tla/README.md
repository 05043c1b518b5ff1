# JH Holdings live trading: a TLA+ verification project

JH Holdings is a single-process automatic trading program. It decides a monthly
allocation over QQQ, TQQQ and SOXL, buys and sells through the Toss broker API,
and keeps its own ledger in SQLite so that only shares and money it manages are
ever touched. A Telegram thread lets the operator halt, resume and configure it
while the scheduler thread trades. This directory holds TLA+ models of the parts
whose correctness depends on the order of events, the TLC runs that check them
on small instances, and TLAPS proofs for every instance.

File paths below are relative to `src/src/jd_holdings/` of the repository.

## 1. The system

| Component | State | Operations | Talks to |
|---|---|---|---|
| Order ledger (`application/database.py`, `managed_account.py`) | `orders`, `core_fill_progress`, `core_positions` rows, `system_state` flags | `reserve_order`, `update_order`, `apply_core_fill`, `open_orders`, `unapplied_core_fill_order_ids`, `reserve_buy_order_with_managed_cash` | every component; each operation is one SQLite transaction |
| Order submission (`order_manager.py`, `jh_auto_runtime_services.py`, `toss_client.py`) | `BUY_EXECUTION_LOCK` | `submit`, `refresh_order` | ledger, broker |
| Order monitor (`order_monitor.py`, `infrastructure/final_ops_runtime.py`) | local lists of one pass | `run_once`, stale and expired BUY cancel | submission, ledger, SAFE_MODE |
| Reconciliation (`reconciliation.py`, `infrastructure/live_reconciliation.py`, `provider_recovery.py`) | read-ahead snapshots, recovery flag and streak | `run`, `arm_/advance_transient_recovery` | broker, ledger, SAFE_MODE |
| Safety cycle (`live_runtime_hardening.py`, `jh_auto_telegram.py`) | `monitor_clean`, timers, daily retry gate | one cycle: monitor, reconcile, release, BUY, allocate, analyse | all of the above |
| Operator (`operational_safety.py`) | `operator_buy_halt`, halt latch | `halt`, `resume` | its own thread against the scheduler's |
| JH AUTO control (`automation/*.py`) | launch, quarantine, state, capital, ramp stage, index units, cycles | `quarantine`, `try_release_quarantine`, `authorize_launch`, `_set_operator_config`, `advance_ramp_if_ready`, `execute_one` | flags, submission |
| Allocator (`portfolio_service.py`, `initial_onboarding_portfolio.py`) | target generation, `target_qty`, onboarding stage | `run_allocation`, `_apply_target`, `_sell_core`, `_cancel_open_core_orders`, `start_onboarding`, `advance_onboarding` | reconciliation, submission, signals |
| Signals and approvals (`trading_service.py`, `allocation_trading_service.py`, `telegram_bot*.py`) | signal rows, one-time approvals, the active batch | `create_review_approval`, `consume_review`, `execute`, batch prepare and execute, cancel | ledger, submission |
| Strategy (`core/*.py`, `v322_allocation.py`, `backtest/engine.py`, `backtest/portfolio_engine.py`) | replayed on each use: virtual position, allocation state | decisions, target weights, replay | daily bars; the allocator reads its last target |
| Daily bars (`infrastructure/market_data.py`, `dual_market_data.py`) | cache directory | `daily(refresh=True)`: Yahoo, cache, Toss candles | strategy, analysis |
| Morning brief (`infrastructure/morning_brief_runtime.py`) | two marks in `system_state`, a retry gate in memory | one cycle of its own loop | daily analysis (read), strategy, operator |
| Dry-run broker (`application/broker.py`, `bot.py`) | paper orders, holdings, order number, all in memory | place, get, cancel; rebuilt at start | submission, monitor |
| Token cache (`infrastructure/shared_toss_token.py`, `live_runtime_resilience.py`, `toss_client.py`) | token file under `flock`, token in memory | load, store, discard; replay after 401 | other processes, broker |
| Idle cash (`idle_cash_manager.py`) | SGOV shares, release intents | sweep, release | switched off in the configuration |
| Legacy booster (`position_manager.py`, `tp_manager.py`) | position state machine, TP plans | buy/sell fills, TP replacement | no signal reaches it under V3.2.2 |
| Everything else | | user interface, research, commissioning, deployment | see `PROJECT.json`, "components" |

What is hard: threads that share flags and rows; a broker whose answers get
lost, come late, or cannot be parsed; cancels that race fills; a process that may
end between any two steps and is started again by systemd; reads that are
compared only after the world has moved on; work that is done in several
transactions and stops halfway; buttons that are pressed twice, late, or by two
threads at once. `PROJECT.json` lists each such hazard at its line, with the
properties that guard it.

What makes each component correct:

* ledger: a terminal row never changes; no fill is lost or credited twice;
* submission: at most one POST per client order id; an order of unknown outcome is never given up
  (the code keeps this for a lost answer, and breaks it for one it misreads, section 5);
* monitor and reconciliation: a row with a broker id is closed only with the broker's final word; every order ends, closed or noticed; fills are in the position before holdings are compared; after an outage two clean cycles come before any BUY;
* operator: no BUY once `/halt` has been answered; the gate reopens only when nothing the ledger knows of is in flight;
* AUTO control: buying only while launched, configured, released and within the stage's principal; a stage advances only on evidence;
* allocator: SELL before BUY, never through the target in either direction, one generation at a time, the first entry in stages;
* approvals: one order per approval, of the quantity shown, none from a cancelled one, and none beyond the target;
* strategy: no borrowing beyond the month's leverage; capital staged stays under the cycle's cap; a replay agrees with what it replays;
* daily bars: the newest session is there, nothing is missing that could have been filled;
* morning brief: one telling a day, and no mark without a message (the code marks one brief it
  did not send, section 5);
* dry-run broker: a restart changes nothing reconciliation could see;
* token cache: a good token is never thrown away or replaced.

## 2. Modules

| Module | What it is |
|---|---|
| `OrderLedger` | the ledger's rows and its transactions, each one indivisible |
| `OrderFlow` | extends it with the broker, the flags, both threads and restarts |
| `OrderPromise` | the abstract specification `OrderFlow` implements |
| `MCOrderFlow`, `MCBuyCycle` + `OrderFlow*.cfg` | instances for TLC |
| `OrderFlow_proofs`, `OrderPromise_proofs` | the inductive invariant and the theorems that follow; the refinement theorem |
| `AutoControl` | JH AUTO's capital, ramp, marks, quarantine and confirmations, around an automatic order reduced to what they need |
| `MCAutoControl` + `AutoControl*.cfg` | instances for TLC |
| `AutoControl_proofs` | its inductive invariant and the theorems that follow |
| `Allocator` | `run_allocation` over all symbols: generations, freezing, SELL before BUY, the staged first entry |
| `Approvals` | signals, one-time approvals, quotes, the batch, callback threads |
| `DailyCycle` | the scheduler's pass as a sequence of jobs, and the two recoveries that span passes |
| `TokenCache` | the broker token shared by processes and threads |
| `Overlay` | the virtual position the strategy replays, and the replay of its trades |
| `Targets` | the V3.2.2 weights and the portfolio simulation that trades them |
| `PaperBroker` | the dry-run broker and its restart |
| `MorningBrief` | the loop of the morning brief |
| `DailyBars` | the daily bars of two providers and a cache |
| `AutoAttempts` | the limits and the cooldown of `execute_one` |
| `Allocator_proofs` | the theorems about `Allocator` |
| `Approvals_proofs` | the theorems about `Approvals` |
| `Daily_proofs` | the theorems about `DailyCycle`, `MorningBrief`, `DailyBars`, `Overlay`, `Targets` |
| `Broker_proofs` | the theorems about `TokenCache`, `AutoAttempts`, `PaperBroker` |
| `Totals` | sums over finite sets and least and greatest elements, as lemmas for the proofs |
| `MCDesk` + `Desk.cfg` | one instance of the ten modules above |
| `MCAllocator` + `AllocatorReduction.cfg`, `DailyCycleRetry.cfg` | instances for two findings |

How they meet: `OrderFlow` follows one order through all its layers; `AutoControl`
opens the gate `OrderFlow` takes as a flag and reduces the order to open and
filled; `Allocator` reduces it to open, filled and ended short, and takes from
`AutoControl` that a capital change may withdraw the generation; `Approvals`
takes from `Allocator` that signals come, go and are reactivated; `DailyCycle` says
in which order a pass calls them. `Targets` takes the flags of `Overlay` as an
input, `Allocator` the weights of `Targets`, `MorningBrief` the outcome of
`DailyCycle`'s analysis and of `DailyBars`. `AutoAttempts` counts what `AutoControl`
allows, and reduces order and gate to a flag each.

### OrderLedger and OrderFlow

`OrderFlow` follows one symbol through one target generation (`Target` is the
frozen `core_positions.target_qty`). Variables fall into groups: the ledger rows
(`status`, `ordered`, `filled`, `bid`, `applied`, `qty`), the broker's own truth
(`bstate`, `bfilled`, `held`, and the history variables `posts` and `misread`), the shared flags
(`halt`, `latch`, `safe`, `lock`) and the locals of each thread (`pc`, `ord`,
`rcpt`, `todo`, `seen`, `snap`, `hold`, `fresh`, ...). A label of `pc` stands
between two statements of the code where another thread, the broker or a crash
can come in between; a ledger transaction is one step.

| Actions | Code |
|---|---|
| `Mon*` | `OrderMonitor.run_once` with `FinalOpsOrderMonitor._handle_core_order`: read each open row, store the receipt, cancel and read again when stale or expired, apply, settle |
| `Rec*` | `ResilientLiveReconciliationService.run` (read ahead) and `ReconciliationService.run`: refresh and apply core orders, read holdings, compare |
| `TryRelease`, `Quarantine`, `BuyPrecheck`, `BuyReserve`, `BuyReserveFails`, `BuyGate`, `Post`, `RecordPost`, `Escalate` | the automatic BUY: `try_release_quarantine`, `execute_one`, `reserve_buy_order_with_managed_cash`, `OrderManager.submit`, `_execute_core_buy` |
| `AllocReconcile`, `SellSubmit`, `SellAgain` | `run_allocation`'s reconciliations and `_sell_core`; the SELL's client order id is one per generation, so a repeated SELL answers with the existing row |
| `OperHalt`, `Resume*` | `OperatorSafetyService.halt` and `resume` |
| `Start`, `Recover`, `RecoverDone`, `Crash` | `live_bot._run_locked_live` and the end of the process |
| `BrokerAccept`, `BrokerFill`, `BrokerClose` | external: what the code may observe of the broker |

What a POST may come to (`Post`, `RecordPost`):

* the broker takes the order and its receipt is read: the row gets the broker's id;
* the outcome is unclear to the client (a timeout, a network error, a retryable status,
  a receipt that cannot be used): UNKNOWN and SAFE_MODE. The row stays open, has no id,
  and stops all buying until a person repairs it;
* the client reads a refusal: REJECTED. `submit` takes every `TossApiError` that is not
  retryable for one (`order_manager.py:233-234`). It is one for the broker's own
  refusals; but a 2xx answer that is no JSON object (`toss_client.py:211-225`) and an
  HTTP status outside the list of `toss_client.py:246` arrive the same way, for an
  order the broker has taken or is still to take. Such an order is in `misread`,
  and once its row is written it is `Disowned`: terminal, without an id, listed by
  nothing and counted by nothing.

The properties say what holds all the same. A disowned order is the only one the
ledger gives up (`NeverForgotten`) and the only wrong terminal row (`TerminalTruth`);
it never gets an id or a fill, and is never sent again; a disowned SELL is no danger to the target,
since its one id per generation is used up; a disowned BUY may be bought again beside, and
`AccountWithinTarget` bounds all the rest. Its shares are not
overlooked: the holdings then differ from the position and the comparison ends in
SAFE_MODE (the second half of `EveryOrderEnds`). What the documents promise instead is in the run
`bought_again`.

Abstractions, and the direction of each:

* Money is absent. Quantities are bounded by the target only, so the managed-cash
  bound can only remove behaviours (`BuyReserveFails` covers its refusal).
* The five working statuses of an order are one, `PENDING`; no code modelled here
  tells them apart. `REPLACED` is treated in the code as `CANCELED` is.
* Clocks are nondeterministic: an order may be stale or expired at any time.
* The symbol's SAFE_MODE and the portfolio's are one flag.
* `halt` stands for "the AUTO gate is closed": `operator_buy_halt`, the quarantine
  flag and a state other than RUNNING. After `/resume` the code still wants a
  clean cycle before the state is RUNNING; the model may buy at once, which only
  adds behaviours.
* The read-ahead takes all order statuses at one instant, and the broker's list of
  open orders from the same instant (`Listed`, `Unlisted`). A fill between two of its reads is not shown
  as a torn snapshot; each receipt stored may still be arbitrarily old.
* A broker call fails or answers. `KeyError` from `refresh_order` cannot be raised
  by the live client and is left out.

### OrderPromise

One order as a reader would describe it: reserved, sent at most once, executed
share by share, booked late but never too much, settled once with the final
quantity, each booked share credited once. One thing it does not promise: an order may be
`lost` on its sending, and is then settled as nothing, at any time, and never booked.
`OrderFlow!Promise` gives the
refinement mapping: a row's status collapses to none/open/settled, the broker's to
none/live/over.

### AutoControl

`OrderFlow` takes the AUTO gate as one flag; `AutoControl` opens it up and keeps of
an order only whether it is open, whether it has filled, and whether its fill may
complete the targets (`plan`: no quantities, some missing, all met). The deployed
class is `FinalOpsProductionJHAutoService` (`live_bot.py`), so a handler stands for
all the layers of its class chain.

Variables: settings and capital (`base`, `ratio`, `target`, `eff`, `revision`), the
ramp (`stage`, `rampBase`, `rampTarget`, `age`, `autoFill`), high-water mark and risk
budget (`hwm`, `budget`), the gate's flags (`launched`, `quar`, `state`, `halt`,
`latch`, `safe`), the account (`held`, unrealised and realised profit `pnl`), and
the locals of the two threads. `raced`, `ownOrder`, `ownFill`, `proof` and `peak` are
history for the properties and guard nothing.

| Actions | Code |
|---|---|
| `Monitor*`, `Sync` | `OrderMonitor.run_once`, `FinalOpsOrderMonitor._sync_auto_cycle` |
| `Reconcile*` | the cycle's reconciliation and what a failure quarantines |
| `Release*` | `try_release_quarantine`: its reads outside the lock, then the decision under it |
| `Ramp*` | `advance_ramp_if_ready`, `_stage_filled`, `_apply_external_flow` |
| `BuyChosen`, `NoBuy`, `Submit*` | `execute_one` with `require_live_auto_buy_contract` at the final boundary |
| `Allocate*`, `ReadEquity`, `RecordEquity`, `NewWeights`, `ReadBudget`, `WriteTargets`, `NoTargets` | `run_allocation` as far as capital and generations go |
| `Review`, `Withdraw`, `Confirm`, `ConfirmChecked`, `Commit*` | `/auto` requests and their confirmation: `_set_operator_config`, `_retarget_live_principal`, `authorize_launch` |
| `Halt`, `Resume*` | `OperatorSafetyService` |
| `Restart` | the end of the process, `arm_live_startup_buy_halt`, `arm_startup_quarantine` |
| `Market`, `Session` | external: prices, the end of a market session |

Abstractions:

* What `atomic_auto_change` wraps is one step: lock and SQLite transaction make it
  so. Its CONFIGURING state and a rolled back failure are therefore not visible.
* Amounts are whole cents; the budget, three quarters of a gain, is kept in quarter
  cents. Performance units are kept only as the refusal of a flow larger than the
  equity (`FlowPossible`).
* One chat command at a time. The Telegram library runs callbacks on a pool of two
  threads (`telegram_bot.py:545`), so two confirmations may overlap in the program;
  what they change is then still serialised by the lock, but their checks before it
  are not, and that overlap is not in `AutoControl` (it is in `Approvals`).
  `Withdraw` stands for every way a button is used up without effect: cancelled,
  expired, or refused.
* SELLs and quantities of shares are `OrderFlow`'s matter. That a budget read
  earlier may size quantities written after a change is kept as the window between
  `ReadBudget` and `WriteTargets`, without a value.
* `age` stops counting at `MinimumStageSessions`. The equity may be recorded at any
  run of the allocation, not once a session, which only adds behaviours.
* A quarantine by the attempt limits may happen at any BUY (`NoBuy`); the counters
  themselves are in `AutoAttempts`.

### Allocator

`OrderFlow` follows one symbol through one frozen target; `Allocator` is the pass
that makes the targets, over all symbols and several sessions. Variables: the rows
of `core_positions` (`gen`, `weight`, `tqty`, `qty`), the two keys in `system_state`
(`marker`, the last session evaluated; `frozen`, the generation whose quantities
are fixed), the one SELL and BUY signal a symbol may have (`sell`, `signal`, `buy`),
the onboarding (`status`, `stage`, `startedOn`, `filledOn`) and each thread's place
in the pass. Two worlds share the code and are chosen by `live`: under JH AUTO
the chat changes the capital; in the dry run it presses the onboarding buttons,
which run a pass of their own.

| Actions | Code |
|---|---|
| `Run`, `Evaluate`, `GiveUp` | `run_allocation` up to the choice between evaluated and new weights, and what ends it early |
| `Supersede`, `CancelOrder`, `CancelUnconfirmed`, `Cancelled` | new weights: signals withdrawn, each open order cancelled and confirmed, a second reconciliation |
| `WriteTarget`, `ResetKey`, `Mark` | the generation, row by row, then its keys |
| `Check`, `FreezeTarget`, `SetKey` | one generation, a session after it; its quantities, row by row, then the key |
| `SellBarrier`, `NoSurplus`, `SellNew`, `SellAgain`, `Sold` | the SELL phase and the barriers around it |
| `ReadMissing`, `OpenSignal`, `Progress` | `_apply_target`'s read and its signal; the onboarding's progress |
| `PressStart`, `Activate`, `OpenStage`, `DateStage`, `PressAdvance` | `start_onboarding` and `advance_onboarding`, write by write |
| `Buy*`, `Sell*` | external: how orders end |
| `AllocResume`, `Retarget`, `AllocCrash`, `SessionOpens`, `DayEnds` | `/resume`, `_invalidate_target_generation`, the end of the process, the calendar |

Properties: `OneGeneration`, `SellsFirstUnspent` (and `SellsFirst`, see Findings),
`SoldToTarget`, `FirstEntryStaged`. `raced` remembers that the chat moved the rows
while a pass was trading on them. Abstractions: one price and one budget
stand for prices and account, so that a weight of 2 and a budget of 2 buy two
shares; the weights of each session are chosen at the start, and are `Targets`'
matter; a BUY placed at a higher price buys fewer shares (`BuyPlaced`).

### Approvals

Approvals are rows (`slips`: signal, REVIEW or EXECUTION, status, quantity shown);
a callback thread carries the approval it has consumed from step to step.

| Actions | Code |
|---|---|
| `OpenBuySignal`, `Supersede_`, `SignalExpires` | the allocator's writes to signals, while buttons live |
| `SendCard`, `PressReview`, `ReviewQuoted` | `_send_signal`, `consume_review`, `_build_quote` and the second approval bound to it |
| `PressExecute`, `Requote`, `Reserve`, `Posted`, `MarkProcessed`, `Reopen` | `execute`: consumed first, quoted again, reserved, sent, recorded |
| `PrepareBatch`, `Collect`, `OfferBatch`, `RunBatch`, `NextItem`, `CancelBatch` | the batch of today's BUYs, under its own lock |
| `CancelCard`, `ApprRestart`, `OrderFills` | the cancel button; a restart loses the batch and keeps the rows; external fills |

Properties: `NeverOverbought`, `SlipHonoured`. An approval is either in time or
not when it is pressed; amounts of money are left out, so the managed-cash check of
the reservation only removes behaviours.

### DailyCycle

One pass of `_scheduler_loop` and what lies inside it, job by job: `Wake` (the
monitor), `Clean`/`Dirty`/`Outage` (reconciliation), `Arm`, `Rezero`, `Disarm` (the
writes of `provider_recovery`), `DailyCheck` and `AutoTrades`, `Clock`, `DailyAllocate`,
`Analyse`, `Record`, `JobFails`; around it the calendar (`SkyTurns`), the delay of the
retry gate (`DelayEnds`), an exception that leaves the loop (`LoopRaises`) and a restart.
Properties: `TwoCleanCycles` and `DailyRetry` (see Findings). `torn` remembers a
process that ended between the two writes of an outage's bookkeeping. The gate's
delay is over at any time; its five lengths are not told apart.

### TokenCache

Tokens are numbered as the broker issues them, and a new one revokes the last. A
call goes through `Load` (the file, under the lock), `Issue`, `Store`, `Send`, and after
a 401 `Reject` and `Replay`; `TokenExpires`, `CacheAges` and `ProcessEnds` happen at any
time. A damaged or unreadable file counts as none. Property: `TokensConverge`. The
instance has one thread in each of two processes; two threads that share a client's
memory make the `Mistaken` refresh possible that the property names.

### Overlay

The decisions of the strategy as operators (`EntryDecision`, `AddDecision`,
`RebuyDecision`, `StageBudget`, `TakeProfit`, `Executed`, ...) inside the loop of
`StrategyBacktestEngine`: `Opening`, `Climb`, `Closing`. `Replayed` is
`virtual_active_series`, which counts the trades again and raises an `AssertionError`
when it disagrees. Indicators, regime and guards are chosen freely at each close.
`Decimal` is exact: ticks, fractions and percentages as integers, `HalfEven` and
`Ceiling` as the code rounds. Properties: `ReplayAgrees`, `CapHonoured`, `CycleGains`.
The fee is 1 % instead of the code's fraction of a per cent, and rebuy and remainder
exit, which `strategy.yaml` switches off, are on: more behaviours, not fewer.

### Targets

`Advanced`, `BaseLeverage`, `BaseWeights`, `Overlaid` and `RiskBudget` are the V3.2.2
arithmetic; `CloseSession` and `Rebalance` are the loop of `portfolio_engine`. Leverage
is counted in quarters, weights in 400ths and fee and slippage in tenths, so that
what the report computes in floating point is exact here; fee and slippage of 10 %
are far beyond the code's (a thousandth each), so that a rebalance does end short in
the instance. An order is sized from the account at the prices of the open, before the slippage its
sales then pay, and is bought as far as the cash goes; `missed` remembers a
rebalance that did not reach its quantities. Property: `TargetHonoured`, which is
`ExposureBounded` (the weights never ask for more than the month's leverage) and
`ShortOnlyByTurnover` (a rebalance ends short only where there is slippage and it sold, at the
prices of the open, more than it kept). The code does not promise more: with a slippage, a
portfolio turned over may be left short, and is until its weights next change.

### PaperBroker

`PaperReserve`, `PaperPlace`, `PaperPlaceFails`, `PaperGet`, `PaperCancel`, `PaperStore`,
`PaperApply`: submission and refresh against `DryRunBroker`, call by call, on two
threads. `PaperRestart` is the start of `bot.main`: `Recovered`, `RestoredStock`,
`RestoredOrders`, `RestoredNumber` in its order. One share an order and whole fills
(the bot never simulates partial ones); cash and prices are left out. Property:
`PaperAgrees`.

### MorningBrief

`Look`, `ReplayTarget`, `SendBrief`, `MarkBrief`, `SendNotice`, `MarkNotice` are the cycle of
`_run_morning_brief_cycle`, between whose steps the time, a send's failure and the
end of the process may fall; `AnalysisDone`, `BarsChange`, `PatienceEnds`, `KstTurns` and
`BriefRestart` are around it. `told` counts what the operator received. Property:
`MorningTold`; `crossed` are the days on which 09:00 passed between the look at the
clock and the send. On those the brief is dropped and marked all the same, against the
documents (see Findings), so `MorningTold` excepts their mark. A cycle is taken to end within
its day;
failures beyond the first, and the reason named in the notice, are not told apart.

### DailyBars

A series is a function from sessions to the adjustment basis of their prices; a
split changes the basis of what providers send from then on, never of a file.
`AskBars`, `YahooAnswers`, `YahooFails`, `TossAnswers`, `TossFails` are
`YahooTossDualDataSource.daily(refresh=True)` with `_toss_daily_fallback`, `Best` and
`LaidOver` the choice of the history and the merge; `SessionCloses`, `Split` and `FileLost`
happen at any time, during a call too. One call at a time; Yahoo's two paths
and their retries are one outcome. Property: `BarsTrusted`.

### AutoAttempts

| Actions | Code |
|---|---|
| `EnforceLimits` | `_enforce_attempt_limits`: count today's cycle rows, quarantine, or put a signal off to the next day |
| `ChooseSignal` | `execute_one` up to the cycle row: gate, open orders, session, `_retry_allowed` |
| `AttemptRefused`, `AttemptPosted`, `AttemptTaken`, `AttemptEnded`, `AttemptUnknown` | what review, execution and submission may come to |
| `CoolDown`, `AttemptQuarantined` | `_set_retry_cooldown` and the quarantine after an exception |
| `RestOfCycle`, `GateShuts`, `TimePasses`, `AttemptCrash` | the jobs around it, `/halt`, the clock, the end of the process |

The limit and the cooldown write one value, `jh_auto_retry_after`, each over the other;
`AttemptsBounded` (`PostsLimited`, `Cooled`) says that neither loses by it. Cycle
rows are counted, not kept; the gate is one flag, an order open or not; SELLs are left
out. A pass ends within its day. A regular session lies inside one New York day and one
UTC day, and the night is longer than the cooldown (`AttemptsAssumption`).
`posts` and `failedAt` are history; `failedAt` forgets when the process ends, since a crash
before `CoolDown` writes nothing.

### MCDesk

`MCDesk` instantiates these ten modules at once. `focus` is chosen at the start
and says which of them moves; the others keep their first state, so the state
spaces add instead of multiplying (the modules share no variable). What each
focus leaves out is an action constraint of the module, written into `DeskNext`:
`AllocationSlice` stops a behaviour once `raced` (after it `SoldToTarget` says
nothing) and gives the live world two sessions instead of three; `CardSlice`
has one signal under the single buttons, `BatchSlice` both signals under the batch,
with no card, one share each and no expiry of a signal; in both the second
callback thread starts only while the first is busy (`FirstFree`: the threads are
alike); `TargetSlice` leaves out the sessions in which the overlay of TQQQ alone
is on; `AttemptSlice` leaves the second day one signal, one attempt and no crash.

## 3. Runs

| Run | Instance | Shows |
|---|---|---|
| `buy_cycle` | 2 BUYs, up to 2 shares, target 2, scheduler alone, 1 crash, and 1 BUY followed under fairness (1.02 million states) | the inductive invariant (its first part is the type), ledger invariants, one BUY at a time, refinement of `OrderPromise`, with answers lost and misread; an order with a broker id is settled in the end, and the shares of a misread one end in SAFE_MODE |
| `operator_race` | 1 BUY of up to 2 shares, target 2, both threads, 1 crash (4.54 million states) | a terminal row is final, the halt is a barrier, the gate reopens only when nothing the ledger knows of is in flight |
| `sell_cycle` | 1 SELL, 3 shares held, target 1, both threads, 1 crash (2.66 million states) | on the risk-reducing side: never sold below the target, every sold share leaves the position once |
| `bought_again` | 2 BUYs, target 2, no crash | a violation: see Findings |
| `stranded_fill` | 1 BUY of 2 shares, no crash | a violation: see Findings |
| `launch_ramp` | one amount, two settings, 2 sessions a stage, 1 crash, 1 resume, fairness (252,530 states) | the inductive invariant; a process opens the gate only behind a clean reconciliation of its own; a launched account's quarantine ends unless a person is needed |
| `settings_change` | two amounts, three settings, 1 session a stage, profit and loss, a ledger with an old mark (4.7 million states) | the BUY contract and the stage's capital survive every sequence of changes; a confirmation takes effect only on what was reviewed; no BUY on evidence older than a flow; every stage proves itself, and no withdrawal is a profit, unless one of the two races below happens |
| `withdrawal_mark` | two amounts, three settings, no profit | a violation: see Findings |
| `late_stage_fill` | as above | a violation: see Findings |
| `desk` | the ten modules of `MCDesk`, one after the other (1.33 million states; see below) | all their properties, 17 in number |
| `reduction_unsold` | `Allocator`: two symbols held, the capital cut twice in one session | a violation: see Findings |
| `daily_retry` | `DailyCycle`: two sessions, one fault, fairness | a violation: see Findings |

Why these bounds are enough to be interesting: two shares make partial fills,
fills between cancel and read, and regressing receipts possible; two BUYs make a
second order meet an unsettled first; one crash reaches every label of every
thread and is followed by a full recovery; both threads interleave at every label.
The runs split these: `buy_cycle` has the two BUYs, the runs with the operator's thread
one order of two shares each, whose receipts may regress between two threads; two
BUYs with both threads are left to the proofs.
In `AutoControl`, two amounts give launch, increase, reduction and the unchanged
retarget; three settings are capital, ratio and one change after launch; the base
of 4 or 8 cents after the ratio makes every share of the ramp exact (rounding is
covered by the proofs); two sessions a
stage in `launch_ramp` show the count itself. `settings_change` has neither crash
nor resume, which its properties do not turn on (a resume only opens the operator's
flag, a restart only shuts the gate): `launch_ramp` has both.

In `desk`:

* allocation: two symbols and three sessions of weights, a first entry, a
  rotation (all of one symbol into the other) and a retreat; one crash; one capital
  change; three stages of entry. Two symbols are enough for a SELL that must come
  before another's BUY, and for rows written halfway;
* approvals: two signals, two callback threads, three approvals (a card, its quote,
  and one more of the same signal), one change of the target or restart;
* daily: two sessions and three faults, so that an outage may come again between
  its two clean cycles and a restart after that;
* tokens: two processes and three tokens: each may refresh while the other does;
* overlay: five sessions and four prices, in which a position is opened, staged or
  rebought, partly sold, and closed;
* targets: three sessions over two months, both kinds of trend, and two kinds of prices: all
  alike, and QQQ fallen to an eighth while TQQQ has risen, after which a rebalance into QQQ
  sells more than it keeps and ends short;
* paper: two BUYs and a SELL on two threads, two restarts;
* brief: two mornings and one mishap;
* bars: three sessions, one split, answers of up to two candles, so that a gap they
  cannot bridge exists;
* attempts: two signals, three attempts a day, two of one signal, so that either limit
  may come first; two days of two session ticks and a night; one crash.

Deadlock is checked in the runs of `OrderFlow` and `AutoControl`. `desk`,
`reduction_unsold` and `daily_retry` do without: their behaviours are bounded (sessions,
faults, approvals, restarts) and stop when the bound is used up.

Fairness, in `buy_cycle` (for the BUY that `MCBuyCycle` follows; nothing is assumed of the
rest) and `launch_ramp`. The scheduler's loop never stops while the process is
up (`_scheduler_loop` catches every exception) and systemd restarts it
(`Restart=on-failure`): weak fairness of its steps. An order is a DAY order:
weak fairness of its fill or end. No outage of reading lasts for ever: strong fairness of
a truthful read of an order, and of a read-ahead that also answers the holdings.
Nothing is assumed of the operator, of cancels, or of sends.
In `launch_ramp` a chat callback that has begun runs to its end (weak fairness of
`Callback`), an open order is found closed if it is asked for again and again, and
a clean reconciliation is reached again and again (strong fairness of these two):
the broker and the network do not fail for ever.
`daily_retry` assumes that passes go on, that the monitor is due in some of them again
and again, and that a retry gate's delay ends; nothing of the calendar, so the next
session need not come; faults are bounded by one.

Each property of a passing run has a mutant, a plausible bug the run detects; they
stand beside the definition they change.

## 4. Proofs

### OrderFlow

Assumptions: `Orders` is finite, `SellOrders` is a part of it and has at most one
element (`_sell_core` derives the client order id from the generation's date, so a
generation has one sale), `MaxQty` is positive, the scheduler is one of the threads,
quantities are naturals. Everything proved holds for any number of BUY orders, any
shares and crashes.

The properties are not inductive: whether a terminal receipt may be stored depends
on how it was obtained, perhaps long ago. `IInv` adds what is needed:

* `RowInv`: what row and broker agree on (a row without a POST is unknown to the
  broker; a row with a broker id was accepted; a misread order has neither id nor fill, and its
  row is CREATED or REJECTED);
* `ReceiptInv`: every receipt, list entry or read-ahead a thread carries `Fits` its
  order: it may be old, but if it is terminal it is the last word;
* `ThreadInv`: the order in flight is a CREATED row nobody else writes, sent at
  most once, and a BUY in flight is the only open row and under the lock.

The argument has four layers. (1) `LedgerStep` lists the few ways a step can touch
rows and broker; every action is one of them (`NextStep`) and each keeps the
ledger part (`LedgerKept`). (2) `Aging`: a receipt that fitted still fits after
such a step; `Carries`: a thread's carried receipts come from a fresh read or from
what it carried before. (3) The operator's thread only ever does `OperatorEffect`,
the scheduler `SchedulerEffect`; neither disturbs what the other relies on.
(4) The theorems follow: the invariants from `Invariance`, the action properties
(`SettledIsFinal`, `HaltBarrier`, `BuysOneAtATime`, `GateReopensSettled`) from one
step under `IInv`, and `PromiseIsKept` because each kind of `LedgerStep` is a step
of `OrderPromise` or a stutter.

`Conservation` and `AccountWithinTarget` are about sums over the orders. `ShareInv`,
proved on top of `IInv`, says what each sum is: position and account are the start plus
what the orders of the two sides moved (`MovedInv`), and the start plus what every row
may still cost (`Commit`: the ordered quantity while it is open, the filled one after)
never passes the target (`BoundInv`); a disowned BUY counts for nothing, as in the code, a
disowned SELL in full. A reservation adds one term, within the room
it has read; every other step lowers a term or leaves it, because a row that closes
has the broker's last word or is disowned (`IInv`). `Totals` supplies that a sum over a finite set
follows the change of one term.

### AutoControl

Assumptions: amounts and old marks are naturals, ratios lie between 1% and 100%, a target
principal is at least two cents (the code demands a positive base and a ratio of at
least one per cent, so half of it is a positive amount), profits are integers with
zero among them, a stage lasts at least one session. Everything proved holds for any
such amounts and any number of changes, confirmations, crashes and resumes.

`IInv` is `TypeOK` with one part for each argument:

* `CycleInv`: a RUNNING state is one this process has proven, and between a clean
  reconciliation and a BUY a flow has withdrawn the generation. This gives
  `GateIsProven` and `BuyAfterFlow`.
* `ConfirmInv`: while a confirmation is at work, nothing its button is bound to
  moves. It needs that every writer of that state is kept out by the lock, or is the
  operator's own thread. This gives `ConfirmedAsReviewed`.
* `CapitalInv`: settings and ramp before launch too, so that launch finds what the
  contract needs; the ramp leads upwards (`rampBase <= rampTarget`), so that an
  advance never lowers the principal. This gives `ContractHolds` and `StageCapital`.
* `MarkInv`: an equity on its way to the mark is no larger than principal and profit
  allow, unless `raced` remembers a withdrawal. This gives `MarkIsEarnedUnraced`.
* `FillInv`: an open order of a running stage is the stage's own, and so is every
  fill written down or on its way, unless `raced` remembers it. This gives
  `StageProvenUnraced`.

`PrincipalNat`, `ShareBounds`, `BudgetBounds` and `FlowResult` say once what the
arithmetic yields; `SchedulerSettled` and `OthersSettled` which steps touch capital
at all, so that the proofs look only at those.

### Allocator

Assumptions: at least one symbol; weights and budgets are naturals and the price is
positive; the fractions of the entry grow up to all, as `InitialOnboardingPolicy`
validates them; bounds are naturals (`BoundsAssumption`). Proved for any
number of symbols, sessions, crashes and capital changes.

`Typed` says where each thread is and what an open SELL can still sell (`SoldInv`: never more
than is held). `DayInv` is the calendar: nothing is dated ahead of the completed
session, and a pass trades only on the session it has marked. `RenewInv` says how
far a pass that replaces a generation has come, `GenInv` that all rows belong to one
generation between two writes; this is `OneGeneration`. `FreezeInv`: quantities that are
traded on are those of weights and budget, row by row while they are written; this
is `SoldToTarget`. `SizeInv`: a BUY on its way or working stays within the stage, and
`PaceInv`: two stages open at least the gap apart; these are `FirstEntryStaged`.
`BarrierInv`: whoever has come to the BUYs met no symbol above its target with its SELL
unused; this is `SellsFirstUnspent`. All but the types stand only until `raced`
or a crash, as the properties do: the lemma `Unraced` says which meetings of two passes
that leaves out.

One definition changed for these proofs: the branches of `Evaluate` were a `CASE`
whose conditions could overlap, which TLA+ leaves open; they are now an ordered
choice, as the code's returns are.

### Approvals

Assumptions: `Signals` is finite (the batch lists them), targets are naturals.
Proved for any number of signals, callback threads and approvals.

`HandsInv`: what a callback carries exists. `SlipInv`: an approval in a hand is used up and
in no other hand, and one the operator cancelled stays cancelled; `Kept` is the lemma
that an approval never loses what is printed on it and ends once. Thus an order
has an approval of its own (`SlipHonoured`), and is reserved only after the quote
was taken again against holdings, open orders and target (`NeverOverbought`).

### DailyCycle, MorningBrief, DailyBars

Proved for any number of sessions, faults, mornings, mishaps and splits.

* `RecoveryInv`: unless a process ended inside the bookkeeping of an outage (`torn`), the streak
  never counts more than the clean reconciliations since it, and the flag stands
  until there were two; a job that trades meets the flag cleared. This gives
  `TwoCleanCycles`.
* `BriefInv`: a cycle belongs to a day not yet marked (`CycleInv`); each message of a day beyond
  the first is paid for by a mishap (`CountInv`, `DelayInv`); what is about to be marked
  has been told, or is a brief that met 09:00 (`MarksInv`). This gives `MorningTold`, with that exception.
* `BarsInv`: every stored file, the series a call goes on with and the one handed over is sound,
  that is without a gap Toss could have bridged and of one basis in its recent part, and
  none reaches beyond the session that was completed when it was stored. This gives
  `BarsTrusted`; the lemmas about `Best` and `LaidOver` say that the merge keeps it.

### Overlay and Targets

Assumptions of `Overlay`: positive prices and capital, at least one stage with its weight
and drop, finitely many bands, percentages not negative, a fee not above the whole:
what `validate_config` demands (its stage weights add up to at most the whole), and the
fee's bound. `OverlayInv` types the position
(cash included: `Affords` shows that what can be bought is paid from the cash there
is) and says that the trades of the session account for the difference
between replay and engine (`TradesInv`); each take profit only ever lowers the
quantity (`Fewer`). This gives `ReplayAgrees`.

The money of a cycle needs a ledger, `LedgerInv`: neither `CapHonoured` nor `CycleGains` is
inductive, since a state that satisfies them may hold shares dearer than its plans sell
them for, or rebuy past its cap.

* `CostAt`: what is held cost no more than the cap allows and, until the first sale, no
  more than was staged, so that a further stage adds its budget to a cost within
  the room it was sized from. After a first sale the cost of the shares it sold is
  counted too: a rebuy takes back at most those, and below the average price.
* `PlansAt`: the take-profit prices lie above the average by their gains, whatever
  their rounding (`TakeProfitCovers`); the remainder exit has its own gain.
* `GainAt`: what a cycle has paid and not got back is at most the cost, with its fee, of
  what it still holds. Every sale lowers the left side by more than the right one, so that
  nothing is owed when nothing is held.
* `DecidedAt`: a decision waiting for the next open fits the position it was taken for.

A budget is rounded to the nearest unit, so that with weights of 100 % the cap may be passed.
`CapNearlyHolds` says by how much, for any stages: half a tick. `CapHonouredHolds` assumes
`RoomForRounding`, that no stage's budget rounds up to the cap (the stages of
`strategy.yaml` leave a tenth of it). `CycleGainsHolds` assumes `GainsCoverFees`: a gain
smaller than both fees loses whatever the code does; `strategy.yaml` has 4 % and 10 %
against twice 0.1 %. `MCDesk` assumes both of its instance (`InstanceAssumption`), so TLC
evaluates them there.

Assumptions of `Targets`: positive prices, the stages of the entry as
`InitialOnboardingPolicy.validate` demands them, fee and slippage below the whole. `TargetsInv`: the
leverage stays at or below the one the month began with, and the weights of the last close
have no more exposure than it allows (`BaseExposure`, `OverlaidExposure`,
`EnteredExposure` follow the three operators; `EntryGrows` says that a stage never
shrinks, since the weights stay while the session moves on). This gives
`ExposureIsBounded`, the first part of `TargetHonoured`, and that the account never
borrows (`TargetsTypeCorrect`).

`ShortOnlyByTurnover`, the second part, asks when the cash of the sales is enough for
purchases that were sized by the equity before them. The lemmas add up the three assets:
what is wanted costs at most the discounted equity (`TargetCost`); a share that is
sold brings less than it counted for, one that is kept counts for less than the
price it is sized with, by the same slippage (`AssetFunded`). So the purchases are
funded where no more value is sold than kept (`LossesCovered`, `RebalanceReaches`), and,
since both the valuation and the sale carry the selling fee, always where there is no
slippage. `TargetHonouredHolds` puts both parts together, with no further assumption.

### TokenCache, AutoAttempts, PaperBroker

* `TokenCache`, for any processes, threads and tokens. `LockInv`: only the holder of the file's
  lock issues and stores, and while it does the file offers nothing; `NumberInv`: no one
  has a token the broker did not issue; `RefusedInv`: a rejected token is not the valid one.
  This gives `TokensConverge`.
* `AutoAttempts`, for any limits, signals and length of the day; assumed is that the
  cooldown is not longer than the night, without which the next session could open
  inside it. `LimitInv`: rows bound the orders and are within the limits; `RoomInv`: once a
  signal may be chosen there is room for its row, or it is put off; `CoolInv`: a failed attempt has
  its cooldown in the value both rules write, or is about to write it. This gives
  `AttemptsBounded`.
* `PaperBroker`, for any purchases, threads and restarts. Assumed is one sale
  (`PaperSaleAssumption`, the sale of a generation as in `OrderFlow`; the code raises an
  error when the simulated holdings would fall below zero, which the module leaves
  out, and two sales of one generation do not occur) and finitely many rows.
  `NumbersInv`: an order number belongs to one order; `RowsInv`: a row settled in the database is
  settled at the broker in the same way; `CarriedInv`: what the rows do not say yet, some thread is about to
  write; `StockInv`: the holdings are the position and the fills still to be credited
  (`Ahead`). This gives `PaperAgrees`: the restart rebuilds the holdings from rows in which a
  fill may be missing, and `Recovered` credits it before.

### Totals

`tlapm` cannot instantiate the library's induction rules, which take an operator. `Totals` does
without: a claim about all finite sets that failed would fail for a smallest one
(`LeastSubset`, from the library's well-founded orders, `WFMin`), and adding or
removing an element leads to a contradiction. In this way it shows that `Sum`
exists, does not depend on the order of its elements and follows the change of one
term, and that a bounded set of naturals has a least and a greatest element.

### Only model-checked

* Liveness: `EveryOrderEnds` (`FollowedOrderEnds` in `MCBuyCycle`) and `AutoRecovers` need fairness, which the prover cannot
  treat (`ENABLED`).
* `DeskTypeOK` puts together the types of ten modules, each of which is a theorem here (`DailyTypeCorrect`,
  `TokenTypeCorrect`, `OverlayTypeCorrect`, ...).
* The properties of the `violation` runs are false.

## 5. Findings

`bought_again`. `submit` stores REJECTED for every `TossApiError` that is not retryable
(`order_manager.py:233-234`). A 2xx answer to the POST that is no JSON object
(`toss_client.py:211-225`) and every HTTP status outside the list of `toss_client.py:246`
(520 to 524 of a gateway, say) are such errors and say nothing about the order, which the
broker may have taken or be about to take. The row is then terminal, without a broker id: no
monitor, reconciliation or restart asks for the order again, and the committed
quantity leaves it out. As long as the broker has not taken the order, it is in no OPEN list
and in no holdings; the reconciliation is clean, the quarantine of the failed submission is
released, and the next BUY is sent at the size of the first. Both may fill, past the target;
the comparison of holdings notices it afterwards (`EveryOrderEnds`).
`docs/STRATEGY_GUIDE.md:203`: an unclear order response means UNKNOWN, no automatic resend, no
new BUY; `docs/infra/SECURITY.md:134` too wants a POST's timeout, lost response and unclear
result UNKNOWN. The exceptions for `misread` and `Disowned` in the properties of `OrderFlow` are
this case and no other.

`stranded_fill`. The monitor stores a receipt's fill in the row. If the cancel of
that stale BUY then fails, `FinalOpsOrderMonitor._handle_core_order` enters
SAFE_MODE and returns before the position is credited (`final_ops_runtime.py`
292-308). If the reconciliation of the cycle stops at a transient outage, the next
pass starts from a row that already shows the fill, so "is there more than before"
(`order_monitor.py:143`) is false; and if the order is terminal by then, it is never
listed again. The holdings comparison then sees a position without the fill,
against `reconciliation.py:138`: "Apply broker-confirmed core fills before holdings
reconciliation." A restart repairs it (`recover_unapplied_core_fills`).

`withdrawal_mark`. `run_allocation` reads the marked equity
(`portfolio_service.py:134`) and records it (`:135`) without the lock. When the
operator's capital reduction commits in between, mark and principal both go down,
and the recording lifts the mark to the equity from before. The withdrawn amount
then counts as a gain in the risk budget: "so a capital reduction cannot be mistaken
for investment profit" (`managed_account.py:399`). `MarkIsEarnedUnraced` shows that
this read is the only way it happens in the instance.

`late_stage_fill`. `_sync_auto_cycle` reads the ramp stage
(`final_ops_runtime.py:267`) after the receipt is stored. If that was the last fill
of the only open order, an increase of the capital can start stage 1 in between;
the fill then counts for it, and if whole shares already meet the new targets the
ramp advances without an AUTO fill of the stage, against
`automation/final_ops_hardening.py:56`. `StageProvenUnraced` excludes other ways.

`reduction_unsold`. The SELL's client order id is made of symbol, purpose and
generation only (`portfolio_service.py:594`). When the capital is reduced a second
time within a generation, `submit` finds the first SELL's row: if it asks for the same
quantity, its FILLED receipt is taken for the new SELL's success, the pass goes on to
open BUY signals and the reduced symbol stays above its target; with another
quantity the receipt does not match and the symbol enters SAFE_MODE. The
specification says that a decrease is taken over at once and risk-reducing SELLs come
first (`docs/JH_AUTO_SPEC.md:73`). `SellsFirstUnspent` shows that a used-up id is the
only way past the barrier in the instance.

`daily_retry`. When `run_month_end` fails after the session's analysis has succeeded,
`_record_daily_job_failure` sets the recovery flag. From then on
`_run_order_safety_cycle` returns False (`live_runtime_hardening.py:385`), the
allocation waits for a ready cycle, the analysis is already done, and so no job ever
clears the flag: AUTO stays shut until the next session is completed. The message
sent at that moment promises retries after 5, 10, 15, 30 and 60 minutes (`:286`).

Seen while modelling, not runs of their own:

* `try_release_quarantine` waits for the lock while a settings change holds it, and
  may then release the very quarantine that change has set, in the same cycle,
  where `prelive_hardening.py:98` says "on a later independent cycle". No BUY
  follows in that cycle, because the change has withdrawn the generation
  (`BuyAfterFlow`).
* A settings change that fails rolls back the quarantine its own handler wrote, as
  that is inside the transaction.
* A fill stored by a reconciliation, not by the monitor, never reaches
  `_sync_auto_cycle`: the stage's evidence waits for another fill.
* SAFE_MODE entered by the reconciliation inside `authorize_launch` is rolled back
  with the launch.

In the components of `desk`:

* Morning brief. A brief that is built in time and reaches `_send` after 09:00 is dropped
  there without an exception (`operational_safety_telegram.py:143-153`).
  `_run_morning_brief_cycle` takes that for a delivery (`morning_brief_runtime.py:204`) and marks
  the day (`:247`), and the mark ends every later cycle of the day (`:168`) before the
  cutoff notice (`:181`): the morning gets neither. `CURRENT_WORK.md:38-39` and
  `docs/TELEGRAM_BOT_GUIDE.md:256` promise one message a day when there was no brief by 09:00.
  `MorningTold` excepts the mark of those days (`crossed`). The other cutoff loop, in `OperationalSafetyTelegramBotApp`, never acts: the
  live `run` does not start it, and the dry-run bot never sets its pending flag.
* Portfolio simulation. With slippage a turnover may end short of its quantities, and stays
  so until the weights change again (`ShortOnlyByTurnover`).
* Daily bars. A gap the candles cannot bridge is accepted and stored, and history
  before them may be in the basis of before a split, which shows as a jump at the
  junction. An answer of Yahoo that lacks the last session is stored under today's
  end, where a reader that does not refresh takes it. `docs/infra/DEPLOYMENT.md:211` says the Toss
  daily fallback is not activated by itself, `CURRENT_WORK.md` section 3 and
  `live_bot.py:21` that it is.
* Allocator. A capital change between the freeze check (`portfolio_service.py:237`)
  and `_apply_target`'s read leaves targets of zero, which the SELL phase then sells down
  to (`SoldToTarget` excepts this, `raced`). A crash among the writes of changed weights
  leaves rows of two generations, and no pass trades until the weights change again
  (`OneGeneration` excepts crashes). In `start_onboarding` a crash between the status
  and the stage leaves a first entry that neither starts nor can be started; one
  between a stage and its date opens the next stage early (`StagesApart`). In the
  dry run a BUY executed by hand between a pass's read and its signal makes that
  signal larger than what is missing; the next quote corrects it.
* Approvals. A REVIEW press in flight creates an EXECUTION approval after a cancel
  has ended all others of the signal; it is a new approval, and `SlipHonoured` says
  what holds. `_reopen_core_signal` may set a signal ACTIVE that new weights have
  superseded meanwhile.
* Token cache. `authenticate(force=True)` takes for the rejected token the one its
  client holds at that moment, not the one the 401 answered
  (`live_runtime_resilience.py:70`): of two threads of one process the slower may
  discard the new good token (`Mistaken`). An entry past its age limit is stored
  again as fresh when the client still holds it.
* Recovery. A reconciliation that fails with something else than an outage, between
  the two clean cycles, does not reset the streak; a crash between the two writes
  that arm it leaves a streak of one (`torn`).
* Strategy. `virtual_active_series` raises when a session of the engine is missing from
  the index it is replayed on; the module gives both the same sessions.
* Dry-run broker. A SELL larger than the holdings raises after its order is FILLED, and
  submission's check of the free shares keeps that away. Nothing locks an order
  against being filled by two threads at once; the module takes a broker call as one
  step and does not show it.
* Attempt limits. After the limit of the day the gate is released by every clean
  cycle and quarantined again by `execute_one`, until the day ends. `docs/JH_AUTO_SPEC.md:352`
  counts by UTC day, the code by New York day; for attempts in regular
  sessions it is the same. An order that the monitor cancels as stale has no cooldown:
  only the receipt at submission and an exception set one.

## 6. Plan

In this order; each module states its own promise and joins the runs.

1. `OrderLedger`, `OrderFlow`, `OrderPromise`; `AutoControl`: modelled, checked, their
   safety properties proved.
2. `Allocator`, `Approvals`, `DailyCycle`, `TokenCache`, `Overlay`, `Targets`, `PaperBroker`,
   `MorningBrief`, `DailyBars`, `AutoAttempts`: modelled and checked.
3. The safety properties of those modules proved, for any number of symbols, signals,
   threads, sessions or tokens: done but for what "Only model-checked" lists.
4. Two chat commands at a time in `AutoControl`.
5. Liveness of the morning brief and of the token refresh.

Not modelled, with the reason, also per component in `PROJECT.json`:

* Idle cash (SGOV): `strategy.yaml` has it disabled, and its entry points return at
  once. A reader who switches it on should know that reconciliation keeps only the
  allocation symbols, so its holdings comparison reads SGOV as zero.
* The legacy booster: `analysis_service.py:54` creates its signals only for another
  configuration version, and reconciliation answers a position or plan of it with
  SAFE_MODE.
* Rendering and status commands, commissioning and preflight, research, reports and
  deployment scripts keep no state whose order matters to trading; of systemd only
  `Restart=on-failure` is used.
