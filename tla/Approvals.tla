----------------------------- MODULE Approvals -----------------------------
(***************************************************************************)
(* How a BUY signal is approved by hand: a card with a review button, a     *)
(* quote with an execution button, or the whole day's batch behind one      *)
(* button (TradingService, AllocationTradingService, TelegramBotApp and     *)
(* V322TelegramBotApp).  Buttons carry one-time approvals, rows of the      *)
(* database.  The Telegram library runs callbacks on several threads, and   *)
(* the scheduler reactivates and withdraws signals meanwhile.  Only the     *)
(* batch handlers exclude each other.                                       *)
(***************************************************************************)
EXTENDS Integers, Sequences, FiniteSets

CONSTANTS
  Signals,      \* BUY signals of a generation, one per symbol
  Handlers,     \* callback threads
  Targets,      \* share targets
  MaxSlips,     \* bound: approvals created
  MaxShifts     \* bound: changes of the targets, restarts

ASSUME SlipsAssumption ==
  MaxSlips \in Nat /\ Targets \subseteq Nat /\ IsFiniteSet(Signals)

VARIABLES
  sigStatus, plan,   \* per signal: status, planned quantity
  held, onOrder,     \* per symbol: shares in the ledger; in open BUY orders
  goal,              \* per symbol: target_qty
  slips,             \* approvals: signal, stage, status, quantity shown
  batch,             \* _active_buy_batch, the slips of its items
  hand,              \* per handler: step, slip, signals or slips still to do
  shifts,
  void               \* history: slips the operator cancelled unpressed

apprVars == <<sigStatus, plan, held, onOrder, goal, slips, batch, hand, shifts, void>>
bookVars == <<held, onOrder, goal, plan, shifts>>

NoHand == [step |-> "idle", slip |-> 0, todo |-> <<>>, got |-> <<>>]
LockFree == \A h \in Handlers : hand[h].got = <<>>
Lesser(a, b) == IF a < b THEN a ELSE b
Slip(s, stage, q) == [sig |-> s, stage |-> stage, st |-> "ACTIVE", qty |-> q]
Set(h, r) == hand' = [hand EXCEPT ![h] = r]

ApprInit ==
  /\ sigStatus = [s \in Signals |-> "none"] /\ plan = [s \in Signals |-> 0]
  /\ held = [s \in Signals |-> 0] /\ onOrder = [s \in Signals |-> 0]
  /\ goal \in [Signals -> Targets]
  /\ slips = <<>> /\ batch = <<>> /\ shifts = 0 /\ void = {}
  /\ hand = [h \in Handlers |-> NoHand]

(* Mutant: what is on order is left out.                                   *)
LacksHeldOnly(s) == IF goal[s] > held[s] THEN goal[s] - held[s] ELSE 0

(* What the target still lacks, orders under way included.                 *)
Lacks(s) ==
  IF goal[s] > held[s] + onOrder[s] THEN goal[s] - held[s] - onOrder[s] ELSE 0

(* _build_quote: the quantity a signal buys now.                           *)
Quote(s) == Lesser(plan[s], Lacks(s))

(* Mutant: only the button's own approval ends.                            *)
CancelOnly(S) == [i \in DOMAIN slips |->
  IF slips[i].sig \in S /\ slips[i].st = "ACTIVE" /\ slips[i].stage = "REVIEW"
  THEN [slips[i] EXCEPT !.st = "CANCELED"] ELSE slips[i]]

(* cancel_approval: every ACTIVE approval of the signal.                   *)
Canceled(S) == [i \in DOMAIN slips |->
  IF slips[i].sig \in S /\ slips[i].st = "ACTIVE"
  THEN [slips[i] EXCEPT !.st = "CANCELED"] ELSE slips[i]]

SigsOf(q) == {slips[q[k]].sig : k \in DOMAIN q}
Live(S) == {i \in DOMAIN slips : slips[i].sig \in S /\ slips[i].st = "ACTIVE"}

-----------------------------------------------------------------------------
(* The allocator opens or reactivates a signal; its old buttons die.       *)
OpenBuySignal(s) ==
  /\ sigStatus[s] \notin {"ACTIVE", "UNKNOWN"} /\ Lacks(s) > 0
  /\ sigStatus' = [sigStatus EXCEPT ![s] = "ACTIVE"]
  /\ plan' = [plan EXCEPT ![s] = Lacks(s)]
  /\ slips' = Canceled({s})
  /\ UNCHANGED <<held, onOrder, goal, batch, hand, shifts, void>>

(* New weights: signals are withdrawn, open orders cancelled.              *)
Supersede_(g) ==
  /\ shifts < MaxShifts /\ g # goal
  /\ sigStatus' = [s \in Signals |->
       IF sigStatus[s] = "ACTIVE" THEN "INVALID" ELSE sigStatus[s]]
  /\ goal' = g /\ onOrder' = [s \in Signals |-> 0]
  /\ shifts' = shifts + 1
  /\ UNCHANGED <<plan, held, slips, batch, hand, void>>

SignalExpires(s) ==
  /\ sigStatus[s] = "ACTIVE"
  /\ sigStatus' = [sigStatus EXCEPT ![s] = "EXPIRED"]
  /\ UNCHANGED <<bookVars, slips, batch, hand, void>>

(* _send_signal: a card with a review button.                              *)
SendCard(s) ==
  /\ sigStatus[s] = "ACTIVE" /\ Len(slips) < MaxSlips
  /\ slips' = Append(slips, Slip(s, "REVIEW", 0))
  /\ UNCHANGED <<bookVars, sigStatus, batch, hand, void>>

OrderFills(s) ==
  /\ onOrder[s] > 0
  /\ held' = [held EXCEPT ![s] = @ + onOrder[s]]
  /\ onOrder' = [onOrder EXCEPT ![s] = 0]
  /\ UNCHANGED <<plan, goal, shifts, sigStatus, slips, batch, hand, void>>

-----------------------------------------------------------------------------
(* consume_approval: an ACTIVE approval of the right stage, once.  A press *)
(* after expires_at is refused and changes nothing.                        *)
PressReview(h, i) ==
  /\ hand[h] = NoHand /\ slips[i].stage = "REVIEW" /\ slips[i].st = "ACTIVE"
  /\ slips' = [slips EXCEPT ![i].st = "USED"]
  /\ Set(h, [NoHand EXCEPT !.step = "review", !.slip = i])
  /\ UNCHANGED <<bookVars, sigStatus, batch, void>>

(* The quote is built and a second approval bound to it, or it is refused. *)
ReviewQuoted(h) ==
  LET s == slips[hand[h].slip].sig IN
  /\ hand[h].step = "review"
  /\ IF sigStatus[s] = "ACTIVE" /\ Quote(s) > 0 /\ Len(slips) < MaxSlips
     THEN slips' = Append(slips, Slip(s, "EXECUTION", Quote(s)))
     ELSE UNCHANGED slips
  /\ Set(h, NoHand)
  /\ UNCHANGED <<bookVars, sigStatus, batch, void>>

(* Mutant: an approval is looked up, but not marked as used.               *)
PressExecuteUnmarked(h, i) ==
  /\ hand[h] = NoHand /\ slips[i].stage = "EXECUTION" /\ slips[i].st = "ACTIVE"
  /\ Set(h, [NoHand EXCEPT !.step = "quote", !.slip = i])
  /\ UNCHANGED <<bookVars, sigStatus, slips, batch, void>>

PressExecute(h, i) ==
  /\ hand[h] = NoHand /\ slips[i].stage = "EXECUTION" /\ slips[i].st = "ACTIVE"
  /\ \A k \in DOMAIN batch : batch[k] # i
  /\ slips' = [slips EXCEPT ![i].st = "USED"]
  /\ Set(h, [NoHand EXCEPT !.step = "quote", !.slip = i])
  /\ UNCHANGED <<bookVars, sigStatus, batch, void>>

(* After a failure the rest of a batch is cancelled.                       *)
Failed(h) ==
  /\ Set(h, NoHand)
  /\ slips' = Canceled(SigsOf(hand[h].todo))

(* execute: the quote is built again and must be the approved one.         *)
Requote(h) ==
  LET i == hand[h].slip s == slips[i].sig IN
  /\ hand[h].step = "quote"
  /\ IF sigStatus[s] = "ACTIVE" /\ Quote(s) = slips[i].qty
     THEN Set(h, [hand[h] EXCEPT !.step = "submit"]) /\ UNCHANGED slips
     ELSE Failed(h)
  /\ UNCHANGED <<bookVars, sigStatus, batch, void>>

(* Mutant: the reservation trusts the quote.                               *)
ReserveUnchecked(h) ==
  LET i == hand[h].slip s == slips[i].sig IN
  /\ hand[h].step = "submit"
  /\ onOrder' = [onOrder EXCEPT ![s] = @ + slips[i].qty]
  /\ Set(h, [hand[h] EXCEPT !.step = "post"])
  /\ UNCHANGED <<held, goal, plan, shifts, sigStatus, slips, batch, void>>

(* reserve_buy_order_with_managed_cash checks the target once more.        *)
Reserve(h) ==
  LET i == hand[h].slip s == slips[i].sig IN
  /\ hand[h].step = "submit"
  /\ IF slips[i].qty <= Lacks(s)
     THEN /\ onOrder' = [onOrder EXCEPT ![s] = @ + slips[i].qty]
          /\ Set(h, [hand[h] EXCEPT !.step = "post"])
     ELSE Set(h, [hand[h] EXCEPT !.step = "reopen"]) /\ UNCHANGED onOrder
  /\ UNCHANGED <<held, goal, plan, shifts, sigStatus, slips, batch, void>>

(* The broker keeps the order open, or it is halted or rejected.           *)
Posted(h) ==
  LET i == hand[h].slip s == slips[i].sig IN
  /\ hand[h].step = "post"
  /\ \/ Set(h, [hand[h] EXCEPT !.step = "mark"]) /\ UNCHANGED onOrder
     \/ /\ onOrder[s] >= slips[i].qty
        /\ onOrder' = [onOrder EXCEPT ![s] = @ - slips[i].qty]
        /\ Set(h, [hand[h] EXCEPT !.step = "reopen"])
  /\ UNCHANGED <<held, goal, plan, shifts, sigStatus, slips, batch, void>>

MarkProcessed(h) ==
  /\ hand[h].step = "mark"
  /\ sigStatus' = [sigStatus EXCEPT ![slips[hand[h].slip].sig] = "PROCESSED"]
  /\ Set(h, IF hand[h].got = <<>> THEN NoHand ELSE [hand[h] EXCEPT !.step = "next"])
  /\ UNCHANGED <<bookVars, slips, batch, void>>

(* _reopen_core_signal, whatever has become of the signal meanwhile.       *)
Reopen(h) ==
  /\ hand[h].step = "reopen"
  /\ sigStatus' = [sigStatus EXCEPT ![slips[hand[h].slip].sig] = "ACTIVE"]
  /\ Failed(h)
  /\ UNCHANGED <<bookVars, batch, void>>

-----------------------------------------------------------------------------
(* _prepare_today_buy_batch: no batch is active, nothing is on order; one  *)
(* execution approval per signal.                                          *)
PrepareBatch(h) ==
  /\ hand[h] = NoHand /\ LockFree /\ batch = <<>>
  /\ \A s \in Signals : onOrder[s] = 0
  /\ \E q \in [1..Cardinality({s \in Signals : sigStatus[s] = "ACTIVE"}) ->
                {s \in Signals : sigStatus[s] = "ACTIVE"}] :
       /\ q # <<>> /\ \A j, k \in DOMAIN q : j # k => q[j] # q[k]
       /\ Set(h, [step |-> "collect", slip |-> 0, todo |-> q, got |-> <<0>>])
  /\ UNCHANGED <<bookVars, sigStatus, slips, batch, void>>

Collect(h) ==
  LET s == Head(hand[h].todo) got == Tail(hand[h].got) IN
  /\ hand[h].step = "collect" /\ hand[h].todo # <<>>
  /\ IF sigStatus[s] = "ACTIVE" /\ Quote(s) > 0 /\ Len(slips) < MaxSlips
     THEN /\ slips' = Append(slips, Slip(s, "EXECUTION", Quote(s)))
          /\ Set(h, [hand[h] EXCEPT !.todo = Tail(@),
                                    !.got = <<0>> \o got \o <<Len(slips) + 1>>])
     ELSE slips' = Canceled(SigsOf(got)) /\ Set(h, NoHand)
  /\ UNCHANGED <<bookVars, sigStatus, batch, void>>

(* The batch becomes the active one, or does not fit the managed cash.     *)
OfferBatch(h) ==
  /\ hand[h].step = "collect" /\ hand[h].todo = <<>>
  /\ Set(h, NoHand)
  /\ \/ batch' = Tail(hand[h].got) /\ UNCHANGED slips
     \/ slips' = Canceled(SigsOf(Tail(hand[h].got))) /\ UNCHANGED batch
  /\ UNCHANGED <<bookVars, sigStatus, void>>

(* _execute_today_buy_batch: used up first; then its barriers.             *)
RunBatch(h) ==
  /\ hand[h] = NoHand /\ LockFree /\ batch # <<>>
  /\ batch' = <<>>
  /\ \/ /\ \A s \in Signals : onOrder[s] = 0
        /\ Set(h, [step |-> "next", slip |-> 0, todo |-> batch, got |-> <<0>>])
        /\ UNCHANGED slips
     \/ slips' = Canceled(SigsOf(batch)) /\ UNCHANGED hand
  /\ UNCHANGED <<bookVars, sigStatus, void>>

NextItem(h) ==
  /\ hand[h].step = "next"
  /\ LET q == hand[h].todo IN
     IF q = <<>> THEN Set(h, NoHand) /\ UNCHANGED slips
     ELSE \/ /\ slips[Head(q)].st = "ACTIVE"
             /\ slips' = [slips EXCEPT ![Head(q)].st = "USED"]
             /\ Set(h, [hand[h] EXCEPT !.step = "quote", !.slip = Head(q), !.todo = Tail(q)])
          \/ Set(h, NoHand) /\ slips' = Canceled(SigsOf(Tail(q)))
  /\ UNCHANGED <<bookVars, sigStatus, batch, void>>

CancelBatch(h) ==
  /\ hand[h] = NoHand /\ LockFree /\ batch # <<>>
  /\ batch' = <<>>
  /\ slips' = Canceled(SigsOf(batch))
  /\ void' = void \cup Live(SigsOf(batch))
  /\ UNCHANGED <<bookVars, sigStatus, hand>>

(* The cancel button of one card or quote.                                 *)
CancelCard(h, i) ==
  /\ hand[h] = NoHand /\ slips[i].st = "ACTIVE"
  /\ slips' = Canceled({slips[i].sig})
  /\ void' = void \cup Live({slips[i].sig})
  /\ UNCHANGED <<bookVars, sigStatus, batch, hand>>

(* The process restarts: the database and its approvals stay.              *)
ApprRestart ==
  /\ shifts < MaxShifts
  /\ shifts' = shifts + 1
  /\ hand' = [h \in Handlers |-> NoHand] /\ batch' = <<>>
  /\ UNCHANGED <<held, onOrder, goal, plan, sigStatus, slips, void>>

-----------------------------------------------------------------------------
Callback_(h) ==
  \/ \E i \in DOMAIN slips : PressReview(h, i) \/ PressExecute(h, i) \/ CancelCard(h, i)
  \/ ReviewQuoted(h) \/ Requote(h) \/ Reserve(h) \/ Posted(h) \/ MarkProcessed(h)
  \/ Reopen(h) \/ PrepareBatch(h) \/ Collect(h) \/ OfferBatch(h) \/ RunBatch(h)
  \/ NextItem(h) \/ CancelBatch(h)

ApprNext ==
  \/ \E s \in Signals : OpenBuySignal(s) \/ SignalExpires(s) \/ SendCard(s) \/ OrderFills(s)
  \/ \E g \in [Signals -> Targets] : Supersede_(g)
  \/ \E h \in Handlers : Callback_(h)
  \/ ApprRestart

ApprSpec == ApprInit /\ [][ApprNext]_apprVars

ApprTypeOK ==
  /\ sigStatus \in [Signals -> {"none", "ACTIVE", "PROCESSED", "INVALID", "EXPIRED"}]
  /\ plan \in [Signals -> Nat] /\ held \in [Signals -> Nat]
  /\ onOrder \in [Signals -> Nat] /\ goal \in [Signals -> Targets]
  /\ Len(slips) <= MaxSlips /\ void \subseteq DOMAIN slips
  /\ \A i \in DOMAIN slips :
       slips[i] \in [sig : Signals, stage : {"REVIEW", "EXECUTION"}, qty : Nat,
                     st : {"ACTIVE", "USED", "CANCELED"}]

(* However many buttons of one signal are live, whatever threads press them *)
(* and however the target moves, no order takes a symbol above its target:  *)
(* an approval is not worth more than what is lacking when it is spent.     *)
NeverOverbought ==
  [][\A s \in Signals : held'[s] + onOrder'[s] > held[s] + onOrder[s]
       => held'[s] + onOrder'[s] <= goal[s]]_apprVars

(* One order per approval, of the quantity shown on its button, and none    *)
(* from an approval the operator had cancelled with any button of the same  *)
(* signal ("all active buttons of the signal end", cancel_callback).        *)
SlipHonoured ==
  [][\A h \in Handlers : hand[h].step = "submit" /\ hand'[h].step = "post" =>
       /\ hand[h].slip \notin void
       /\ onOrder'[slips[hand[h].slip].sig]
            = onOrder[slips[hand[h].slip].sig] + slips[hand[h].slip].qty
       /\ \A k \in Handlers \ {h} :
            hand[k].step \in {"quote", "submit", "post", "mark", "reopen"}
              => hand[k].slip # hand[h].slip]_apprVars
=============================================================================
