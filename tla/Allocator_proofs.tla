-------------------------- MODULE Allocator_proofs --------------------------
(***************************************************************************)
(* The allocation pass (Allocator): its inductive invariant, and the        *)
(* theorems that follow, for any number of symbols, any weights, budgets,   *)
(* price and onboarding fractions, and any number of days, crashes and      *)
(* capital changes.                                                         *)
(***************************************************************************)
EXTENDS Allocator, FiniteSetTheorems, SequenceTheorems, TLAPS

-----------------------------------------------------------------------------
(* Arithmetic of the targets.                                              *)

LEMMA ProductNat == ASSUME NEW x \in Nat, NEW y \in Nat PROVE x * y \in Nat
OBVIOUS

LEMMA ProductOrder ==
  ASSUME NEW x \in Nat, NEW y \in Nat, NEW z \in Nat, y <= z PROVE x * y <= x * z
<1>1. z - y \in Nat /\ z = y + (z - y)
  OBVIOUS
<1>2. x * z = x * y + x * (z - y)
  BY <1>1
<1>3. x * y \in Nat /\ x * z \in Nat /\ x * (z - y) \in Nat
  BY <1>1, ProductNat
<1>4. QED BY <1>2, <1>3

LEMMA QuotientNat == ASSUME NEW x \in Nat, NEW d \in Nat \ {0} PROVE x \div d \in Nat
OBVIOUS

LEMMA PartNat == ASSUME NEW x \in Nat PROVE x \div 100 \in Nat
OBVIOUS

LEMMA PartOrder ==
  ASSUME NEW x \in Nat, NEW y \in Nat, x <= y PROVE x \div 100 <= y \div 100
OBVIOUS

LEMMA WholePart == ASSUME NEW x \in Nat PROVE (x * 100) \div 100 = x
OBVIOUS

-----------------------------------------------------------------------------
(* Types.                                                                  *)

Labels == {"idle", "run", "check", "progress", "supersede", "cancel", "write", "reset", "mark",
           "freeze", "key", "sell", "sold", "buy", "signal", "start", "stage", "date"}
ChatLabels == {"start", "stage", "date"}
SignalForms == [gen : 0..MaxDay, size : Nat,
                st : {"none", "ACTIVE", "PROCESSED", "INVALID", "EXPIRED"}]
SellForms == [gen : 0..MaxDay, n : Nat, left : Nat, st : {"none", "open", "filled", "ended"}]

(* Where the threads are; a loop over the symbols begins with the first.   *)
PlaceInv ==
  /\ pc \in [Threads -> Labels] /\ pc["scheduler"] \notin ChatLabels
  /\ \A t \in Threads :
       pc[t] \in {"supersede", "cancel", "reset", "mark", "check", "key", "sold"} => at[t] = 1

(* The onboarding belongs to the dry run; it starts with nothing held and  *)
(* nothing ordered, and opens a stage only while one is left.              *)
Unstarted == {"NOT_STARTED", "BYPASSED"}
LadderInv ==
  /\ live => pc["chat"] = "idle" /\ status = "COMPLETED"
  /\ pc["chat"] = "start" => status \in Unstarted /\ Flat /\ OpenOrders = {}
  /\ status \in Unstarted => stage = 0
  /\ pc["chat"] \in {"stage", "date"} => status \notin Unstarted
  /\ pc["chat"] = "stage" => stage < Len(Fractions)

(* A SELL never has more left than is held; only the live broker leaves one *)
(* open.                                                                    *)
SoldInv ==
  /\ \A s \in Symbols : sell[s].st = "open" => sell[s].left <= qty[s]
  /\ ~live => OpenSells = {}

Typed == AllocTypeOK /\ PlaceInv /\ LadderInv /\ SoldInv

LEMMA FractionsFacts ==
  /\ Len(Fractions) \in Nat \ {0}
  /\ \A i \in 1..Len(Fractions) : Fractions[i] \in 1..100
  /\ Fractions[Len(Fractions)] = 100
  /\ \A i, j \in 1..Len(Fractions) : i < j => Fractions[i] < Fractions[j]
<1>1. Fractions \in Seq(1..100) /\ Fractions # <<>>
  BY FractionsAssumption, Zenon
<1>2. Len(Fractions) \in Nat /\ \A i \in 1..Len(Fractions) : Fractions[i] \in 1..100
  BY <1>1, ElementOfSeq, LenProperties
<1>3. Len(Fractions) # 0
  BY <1>1, EmptySeq
<1>4. QED BY <1>2, <1>3, FractionsAssumption, Zenon

(* The numbers of the state, apart from the records.                       *)
LEMMA Amounts ==
  ASSUME AllocTypeOK
  PROVE  /\ Symbols \subseteq Nat /\ 1 \in Symbols /\ SymbolCount \in Nat \ {0}
         /\ Price \in Nat \ {0} /\ Budgets \subseteq Nat /\ budget \in Nat
         /\ day \in Nat \ {0} /\ frozen \in Nat /\ marker \in Nat
         /\ startedOn \in Nat /\ filledOn \in Nat /\ stage \in Nat
         /\ \A s \in Symbols : /\ gen[s] \in Nat /\ weight[s] \in Nat /\ tqty[s] \in Nat
                               /\ qty[s] \in Nat /\ buy[s] \in Nat
                               /\ strategy[day][s] \in Nat
         /\ \A t \in Threads : at[t] \in Symbols /\ \A s \in Symbols : sized[t][s] \in Nat
<1>1. Symbols \subseteq Nat /\ 1 \in Symbols /\ SymbolCount \in Nat \ {0}
  BY SymbolsAssumption DEF Symbols
<1>2. /\ Price \in Nat \ {0} /\ Budgets \subseteq Nat /\ budget \in Nat
      /\ strategy \in [1..MaxDay -> [Symbols -> Nat]]
  BY AmountsAssumption, Zenon DEF AllocTypeOK, Symbols
<1>3. day \in 1..MaxDay /\ frozen \in 0..MaxDay /\ marker \in 0..MaxDay
      /\ startedOn \in 0..MaxDay /\ filledOn \in 0..MaxDay /\ stage \in 0..Len(Fractions)
  BY Zenon DEF AllocTypeOK
<1>4. /\ gen \in [Symbols -> 0..MaxDay] /\ weight \in [Symbols -> Nat]
      /\ tqty \in [Symbols -> Nat] /\ qty \in [Symbols -> Nat] /\ buy \in [Symbols -> Nat]
      /\ at \in [Threads -> Symbols] /\ sized \in [Threads -> [Symbols -> Nat]]
  BY Zenon DEF AllocTypeOK
<1> HIDE DEF Symbols, Threads
<1>5. day \in Nat \ {0} /\ frozen \in Nat /\ marker \in Nat
      /\ startedOn \in Nat /\ filledOn \in Nat /\ stage \in Nat
  BY <1>3, BoundsAssumption, FractionsFacts
<1>6. \A s \in Symbols : gen[s] \in Nat
  BY <1>4, BoundsAssumption
<1>7. \A s \in Symbols : strategy[day][s] \in Nat
  BY <1>2, <1>3
<1>8. \A s \in Symbols : /\ weight[s] \in Nat /\ tqty[s] \in Nat
                         /\ qty[s] \in Nat /\ buy[s] \in Nat
  BY <1>4
<1>9. \A t \in Threads : at[t] \in Symbols /\ \A s \in Symbols : sized[t][s] \in Nat
  BY <1>4
<1>10. QED BY <1>1, <1>2, <1>5, <1>6, <1>7, <1>8, <1>9, Zenon

LEMMA Targeted ==
  ASSUME AllocTypeOK
  PROVE  /\ \A s \in Symbols : \A b \in Budgets : Full(s, b) \in Nat
         /\ Fraction \in 0..100
         /\ \A s \in Symbols : Effective(s, tqty[s]) \in Nat /\ Surplus(s) \in Nat
                              /\ Surplus(s) <= qty[s] /\ Wanted(s) \in Nat
<1>1. \A s \in Symbols : \A b \in Budgets : Full(s, b) \in Nat
  <2> SUFFICES ASSUME NEW s \in Symbols, NEW b \in Budgets PROVE Full(s, b) \in Nat
    OBVIOUS
  <2>1. weight[s] \in Nat /\ b \in Nat
    BY Amounts
  <2>2. weight[s] * b \in Nat
    BY <2>1, ProductNat
  <2>3. QED BY <2>2, QuotientNat, Amounts DEF Full
<1>2. Fraction \in 0..100
  <2>1. stage \in 0..Len(Fractions)
    BY Zenon DEF AllocTypeOK
  <2>2. QED BY <2>1, FractionsFacts DEF Fraction
<1>3. \A s \in Symbols : Effective(s, tqty[s]) \in Nat
  <2> SUFFICES ASSUME NEW s \in Symbols PROVE Effective(s, tqty[s]) \in Nat
    OBVIOUS
  <2>1. qty[s] \in Nat /\ tqty[s] \in Nat
    BY Amounts
  <2>2. (tqty[s] * Fraction) \div 100 \in Nat
    BY <2>1, <1>2, ProductNat, PartNat
  <2>3. CASE status = "NOT_STARTED"
    BY <2>1, <2>3 DEF Effective, Least
  <2>4. CASE status = "ACTIVE"
    BY <2>2, <2>4 DEF Effective
  <2>5. CASE status \notin {"NOT_STARTED", "ACTIVE"}
    BY <2>1, <2>5 DEF Effective
  <2>6. QED BY <2>3, <2>4, <2>5
<1>4. \A s \in Symbols : Surplus(s) \in Nat /\ Surplus(s) <= qty[s] /\ Wanted(s) \in Nat
  <2> SUFFICES ASSUME NEW s \in Symbols
               PROVE  Surplus(s) \in Nat /\ Surplus(s) <= qty[s] /\ Wanted(s) \in Nat
    OBVIOUS
  <2>1. qty[s] \in Nat /\ buy[s] \in Nat /\ Effective(s, tqty[s]) \in Nat
    BY <1>3, Amounts
  <2>2. QED BY <2>1 DEF Surplus, Wanted, Excess
<1>5. QED BY <1>1, <1>2, <1>3, <1>4

(* The type invariant by parts, and the steps that leave a part alone.     *)
ClockTypes ==
  /\ live \in BOOLEAN /\ open \in BOOLEAN /\ strategy \in Plans /\ day \in 1..MaxDay
  /\ budget \in Budgets /\ crashes \in 0..MaxCrashes /\ retargets \in 0..MaxRetargets
TargetTypes ==
  /\ gen \in [Symbols -> 0..MaxDay] /\ weight \in [Symbols -> Nat]
  /\ tqty \in [Symbols -> Nat]
OrderTypes ==
  /\ qty \in [Symbols -> Nat] /\ buy \in [Symbols -> Nat]
  /\ sell \in [Symbols -> SellForms] /\ signal \in [Symbols -> SignalForms]
StageTypes ==
  /\ status \in {"NOT_STARTED", "ACTIVE", "COMPLETED", "BYPASSED"}
  /\ stage \in 0..Len(Fractions) /\ startedOn \in 0..MaxDay /\ filledOn \in 0..MaxDay
KeyTypes == marker \in 0..MaxDay /\ frozen \in 0..MaxDay
FlagTypes == safe \in BOOLEAN /\ raced \in BOOLEAN
ThreadTypes == at \in [Threads -> Symbols] /\ sized \in [Threads -> [Symbols -> Nat]]

LEMMA TypeParts ==
  AllocTypeOK <=> /\ ClockTypes /\ TargetTypes /\ OrderTypes /\ StageTypes
                  /\ KeyTypes /\ FlagTypes /\ ThreadTypes
BY Zenon DEF AllocTypeOK, ClockTypes, TargetTypes, OrderTypes, StageTypes, KeyTypes, FlagTypes,
             ThreadTypes, SellForms, SignalForms

LEMMA TypePartsNext ==
  /\ ClockTypes /\ TargetTypes /\ OrderTypes /\ StageTypes /\ KeyTypes /\ FlagTypes
     /\ ThreadTypes => AllocTypeOK
  /\ (ClockTypes /\ TargetTypes /\ OrderTypes /\ StageTypes /\ KeyTypes /\ FlagTypes
      /\ ThreadTypes)' => AllocTypeOK'
<1>1. /\ ClockTypes /\ TargetTypes /\ OrderTypes /\ StageTypes /\ KeyTypes /\ FlagTypes
         /\ ThreadTypes => AllocTypeOK
  BY TypeParts, Zenon
<1>2. (/\ ClockTypes /\ TargetTypes /\ OrderTypes /\ StageTypes /\ KeyTypes /\ FlagTypes
         /\ ThreadTypes => AllocTypeOK)'
  BY <1>1, PTL
<1>3. QED BY <1>1, <1>2

LEMMA WalkTypes ==
  ASSUME Typed, NEW t \in Threads, NEW l \in Labels
  PROVE  /\ Goto(t, l) => /\ pc' \in [Threads -> Labels] /\ pc'[t] = l
                          /\ \A u \in Threads \ {t} : pc'[u] = pc[u]
         /\ Next1(t, l) =>
              /\ pc' \in [Threads -> Labels] /\ at' \in [Threads -> Symbols]
              /\ \A u \in Threads \ {t} : pc'[u] = pc[u] /\ at'[u] = at[u]
              /\ \/ at[t] < SymbolCount /\ at'[t] = at[t] + 1 /\ pc'[t] = pc[t]
                 \/ at[t] = SymbolCount /\ at'[t] = 1 /\ pc'[t] = l
<1>1. pc \in [Threads -> Labels] /\ at \in [Threads -> Symbols]
  BY Zenon DEF Typed, AllocTypeOK, PlaceInv
<1> HIDE DEF Threads, Labels
<1>2. SymbolCount \in Nat \ {0} /\ Symbols = 1..SymbolCount
  BY SymbolsAssumption DEF Symbols
<1>3. Goto(t, l) => /\ pc' \in [Threads -> Labels] /\ pc'[t] = l
                    /\ \A u \in Threads \ {t} : pc'[u] = pc[u]
  BY <1>1 DEF Goto
<1>4. ASSUME Next1(t, l), at[t] < SymbolCount
      PROVE  /\ pc' \in [Threads -> Labels] /\ at' \in [Threads -> Symbols]
             /\ at'[t] = at[t] + 1 /\ pc'[t] = pc[t]
             /\ \A u \in Threads \ {t} : pc'[u] = pc[u] /\ at'[u] = at[u]
  BY <1>1, <1>2, <1>4 DEF Next1
<1>5. ASSUME Next1(t, l), ~(at[t] < SymbolCount)
      PROVE  /\ pc' \in [Threads -> Labels] /\ at' \in [Threads -> Symbols]
             /\ at[t] = SymbolCount /\ at'[t] = 1 /\ pc'[t] = l
             /\ \A u \in Threads \ {t} : pc'[u] = pc[u] /\ at'[u] = at[u]
  BY <1>1, <1>2, <1>3, <1>5 DEF Next1
<1>6. QED BY <1>3, <1>4, <1>5

(* A step of a pass moves one thread and leaves the clock alone.           *)
Moved(t) ==
  /\ pc' \in [Threads -> Labels] /\ ThreadTypes'
  /\ pc[t] \notin ChatLabels /\ pc'[t] \notin ChatLabels
  /\ \A u \in Threads \ {t} : pc'[u] = pc[u] /\ at'[u] = at[u] /\ sized'[u] = sized[u]
  /\ UNCHANGED <<clockVars, stage, startedOn>>

LEMMA PassMoves == ASSUME Typed, NEW t \in Threads, Pass(t) PROVE Moved(t)
<1>1. ThreadTypes /\ pc \in [Threads -> Labels] /\ AllocTypeOK
  BY TypeParts, Zenon DEF Typed, PlaceInv
<1>2. Symbols \subseteq Nat /\ 1 \in Symbols /\ SymbolCount \in Nat \ {0}
      /\ \A i \in Nat : i < SymbolCount /\ i >= 1 => i + 1 \in Symbols
  BY SymbolsAssumption DEF Symbols
<1>3. at[t] \in Symbols /\ at[t] \in Nat /\ at[t] >= 1
  BY <1>1, SymbolsAssumption DEF ThreadTypes, Symbols
<1>4. [s \in Symbols |-> 0] \in [Symbols -> Nat]
      /\ \A s \in Symbols : Wanted(s) \in Nat /\ Full(s, budget) \in Nat
  BY <1>1, Targeted DEF AllocTypeOK
<1> DEFINE Gone == /\ pc' \in [Threads -> Labels] /\ pc[t] \notin ChatLabels
                   /\ pc'[t] \notin ChatLabels
                   /\ \A u \in Threads \ {t} : pc'[u] = pc[u]
           Stepped == \A u \in Threads \ {t} : at'[u] = at[u]
<1>5. ASSUME Gone, Stepped, at' \in [Threads -> Symbols], UNCHANGED <<sized, clockVars, stage, startedOn>>
      PROVE  Moved(t)
  BY <1>1, <1>5, Zenon DEF Moved, ThreadTypes
<1>6. ASSUME Gone, UNCHANGED <<at, sized, clockVars, stage, startedOn>>
      PROVE  Moved(t)
  BY <1>1, <1>6, Zenon DEF Moved, ThreadTypes
<1>7. CASE Run(t)
  <2>1. Gone
    BY <1>7, WalkTypes DEF Run, Labels, ChatLabels
  <2>2. QED BY <2>1, <1>6, <1>7 DEF Run, clockVars, stageVars
<1>8. CASE GiveUp(t)
  <2>1. Gone
    BY <1>8, WalkTypes DEF GiveUp, Labels, ChatLabels
  <2>2. QED BY <2>1, <1>6, <1>8 DEF GiveUp, clockVars, stageVars
<1>9. CASE Supersede(t)
  <2>1. Gone
    BY <1>9, WalkTypes DEF Supersede, Labels, ChatLabels
  <2>2. QED BY <2>1, <1>6, <1>9 DEF Supersede, clockVars, stageVars
<1>10. CASE CancelUnconfirmed(t)
  <2>1. Gone
    BY <1>10, WalkTypes DEF CancelUnconfirmed, Labels, ChatLabels
  <2>2. QED BY <2>1, <1>6, <1>10 DEF CancelUnconfirmed, clockVars, stageVars
<1>11. CASE Cancelled(t)
  <2>1. Gone
    BY <1>11, WalkTypes DEF Cancelled, Labels, ChatLabels
  <2>2. QED BY <2>1, <1>6, <1>11 DEF Cancelled, clockVars, stageVars
<1>12. CASE ResetKey(t)
  <2>1. Gone
    BY <1>12, WalkTypes DEF ResetKey, Labels, ChatLabels
  <2>2. QED BY <2>1, <1>6, <1>12 DEF ResetKey, clockVars, stageVars
<1>13. CASE Mark(t)
  <2>1. Gone
    BY <1>13, WalkTypes DEF Mark, Labels, ChatLabels
  <2>2. QED BY <2>1, <1>6, <1>13 DEF Mark, clockVars, stageVars
<1>14. CASE SetKey(t)
  <2>1. Gone
    BY <1>14, WalkTypes DEF SetKey, Labels, ChatLabels
  <2>2. QED BY <2>1, <1>6, <1>14 DEF SetKey, clockVars, stageVars
<1>15. CASE SellBarrier(t)
  <2>1. Gone
    BY <1>15, WalkTypes DEF SellBarrier, Labels, ChatLabels
  <2>2. QED BY <2>1, <1>6, <1>15 DEF SellBarrier, clockVars, stageVars
<1>16. CASE Sold(t)
  <2>1. Gone
    BY <1>16, WalkTypes DEF Sold, Labels, ChatLabels
  <2>2. QED BY <2>1, <1>6, <1>16 DEF Sold, clockVars, stageVars
<1>17. CASE Evaluate(t)
  <2>1. Gone
    BY <1>17, WalkTypes DEF Evaluate, Labels, ChatLabels
  <2>2. QED BY <2>1, <1>1, <1>2, <1>5, <1>17 DEF Evaluate, clockVars, stageVars, ThreadTypes
<1>18. CASE \E s \in Symbols : CancelOrder(t, s)
  <2>1. Gone
    BY <1>1, <1>18 DEF CancelOrder, Labels, ChatLabels
  <2>2. QED BY <2>1, <1>6, <1>18 DEF CancelOrder, clockVars, stageVars
<1>19. CASE NoSurplus(t)
  <2>1. Gone
    BY <1>19, WalkTypes DEF NoSurplus, Labels, ChatLabels
  <2>2. QED BY <2>1, <1>5, <1>19, WalkTypes DEF NoSurplus, Labels, clockVars, stageVars
<1>20. CASE WriteTarget(t)
  <2>1. Gone
    BY <1>20, WalkTypes DEF WriteTarget, Labels, ChatLabels
  <2>2. QED BY <2>1, <1>5, <1>20, WalkTypes DEF WriteTarget, Labels, clockVars, stageVars
<1>21. CASE FreezeTarget(t)
  <2>1. Gone
    BY <1>21, WalkTypes DEF FreezeTarget, Labels, ChatLabels
  <2>2. QED BY <2>1, <1>5, <1>21, WalkTypes DEF FreezeTarget, Labels, clockVars, stageVars
<1>22. CASE SellNew(t)
  <2>1. Gone
    BY <1>22, WalkTypes DEF SellNew, Labels, ChatLabels
  <2>2. QED BY <2>1, <1>1, <1>5, <1>22, WalkTypes DEF SellNew, Labels, clockVars, stageVars, ThreadTypes
<1>23. CASE SellAgain(t)
  <2>1. Gone
    BY <1>23, WalkTypes DEF SellAgain, Labels, ChatLabels
  <2>2. QED BY <2>1, <1>1, <1>5, <1>23, WalkTypes DEF SellAgain, Labels, clockVars, stageVars, ThreadTypes
<1>24. CASE Check(t)
  <2>1. Gone
    BY <1>24, WalkTypes DEF Check, Labels, ChatLabels
  <2>2. QED BY <2>1, <1>1, <1>4, <1>24 DEF Check, clockVars, stageVars, ThreadTypes, Moved
<1>25. CASE ReadMissing(t)
  <2>1. Gone
    BY <1>25, WalkTypes DEF ReadMissing, Labels, ChatLabels
  <2>2. ASSUME Next1(t, "progress"), UNCHANGED sized PROVE Moved(t)
    BY <2>1, <2>2, <1>5, <1>25, WalkTypes DEF ReadMissing, Labels, clockVars, stageVars
  <2>3. ASSUME sized' = [sized EXCEPT ![t][at[t]] = Wanted(at[t])], UNCHANGED at PROVE Moved(t)
    <3>1. sized' \in [Threads -> [Symbols -> Nat]] /\ at' \in [Threads -> Symbols]
          /\ \A u \in Threads \ {t} : sized'[u] = sized[u] /\ at'[u] = at[u]
      BY <2>3, <1>1, <1>3, <1>4 DEF ThreadTypes
    <3>2. UNCHANGED <<clockVars, stage, startedOn>>
      BY <1>25 DEF ReadMissing, stageVars
    <3>3. QED BY <2>1, <3>1, <3>2, Zenon DEF Moved, ThreadTypes
  <2>4. QED BY <2>2, <2>3, <1>25 DEF ReadMissing
<1>26. CASE OpenSignal(t)
  <2>1. Gone
    BY <1>26, WalkTypes DEF OpenSignal, Labels, ChatLabels
  <2>2. QED BY <2>1, <1>1, <1>2, <1>3, <1>5, <1>26 DEF OpenSignal, clockVars, stageVars, ThreadTypes
<1>27. CASE Progress(t)
  <2>1. Gone
    BY <1>27, WalkTypes DEF Progress, Labels, ChatLabels
  <2>2. QED BY <2>1, <1>1, <1>4, <1>27 DEF Progress, clockVars, ThreadTypes, Moved
<1>28. QED
  BY <1>7, <1>8, <1>9, <1>10, <1>11, <1>12, <1>13, <1>14, <1>15, <1>16, <1>17, <1>18, <1>19, <1>20, <1>21, <1>22, <1>23, <1>24, <1>25, <1>26, <1>27 DEF Pass

(* What each kind of step leaves alone.                                    *)
Touches ==
  /\ UNCHANGED <<live, strategy>>
  /\ UNCHANGED day \/ DayEnds
  /\ UNCHANGED <<gen, weight>>
       \/ \E t \in Threads : WriteTarget(t) \/ FreezeTarget(t)
  /\ UNCHANGED tqty \/ (\E t \in Threads : WriteTarget(t) \/ FreezeTarget(t))
       \/ \E b \in Budgets : Retarget(b)
  /\ UNCHANGED <<budget, retargets>> \/ \E b \in Budgets : Retarget(b)
  /\ UNCHANGED crashes \/ AllocCrash
  /\ UNCHANGED open \/ SessionOpens \/ DayEnds
  /\ UNCHANGED marker \/ \E t \in Threads : Mark(t)
  /\ UNCHANGED frozen \/ (\E t \in Threads : ResetKey(t) \/ SetKey(t))
       \/ \E b \in Budgets : Retarget(b)
  /\ UNCHANGED stage \/ OpenStage
  /\ UNCHANGED startedOn \/ DateStage
  /\ UNCHANGED status \/ Activate \/ \E t \in Threads : Progress(t)
  /\ UNCHANGED filledOn \/ DateStage \/ \E t \in Threads : Progress(t)
  /\ UNCHANGED qty
       \/ (\E t \in Threads : SellNew(t) \/ \E s \in Symbols : CancelOrder(t, s))
       \/ \E s \in Symbols : BuyFills(s) \/ SellFills(s)
  /\ UNCHANGED buy
       \/ (\E t \in Threads : \E s \in Symbols : CancelOrder(t, s))
       \/ \E s \in Symbols : BuyPlaced(s) \/ BuyFills(s) \/ BuyEnds(s)
  /\ UNCHANGED sell
       \/ (\E t \in Threads : SellNew(t) \/ \E s \in Symbols : CancelOrder(t, s))
       \/ \E s \in Symbols : SellFills(s) \/ SellEnds(s)
  /\ UNCHANGED signal \/ (\E t \in Threads : Supersede(t) \/ OpenSignal(t))
       \/ PressStart \/ PressAdvance \/ DayEnds
       \/ (\E b \in Budgets : Retarget(b)) \/ \E s \in Symbols : BuyPlaced(s) \/ BuyEnds(s)

LEMMA Touched == ASSUME AllocNext PROVE Touches
<1> USE DEF Touches
<1>1. ASSUME NEW t \in Threads, Run(t) PROVE Touches
  BY <1>1 DEF Run, clockVars, ledgerVars, stageVars
<1>2. ASSUME NEW t \in Threads, Evaluate(t) PROVE Touches
  BY <1>2 DEF Evaluate, clockVars, ledgerVars, stageVars
<1>3. ASSUME NEW t \in Threads, GiveUp(t) PROVE Touches
  BY <1>3 DEF GiveUp, clockVars, ledgerVars, stageVars
<1>4. ASSUME NEW t \in Threads, Supersede(t) PROVE Touches
  BY <1>4 DEF Supersede, clockVars, ledgerVars, stageVars
<1>5. ASSUME NEW t \in Threads, CancelUnconfirmed(t) PROVE Touches
  BY <1>5 DEF CancelUnconfirmed, clockVars, ledgerVars, stageVars
<1>6. ASSUME NEW t \in Threads, Cancelled(t) PROVE Touches
  BY <1>6 DEF Cancelled, clockVars, ledgerVars, stageVars
<1>7. ASSUME NEW t \in Threads, WriteTarget(t) PROVE Touches
  BY <1>7 DEF WriteTarget, clockVars, ledgerVars, stageVars
<1>8. ASSUME NEW t \in Threads, ResetKey(t) PROVE Touches
  BY <1>8 DEF ResetKey, clockVars, ledgerVars, stageVars
<1>9. ASSUME NEW t \in Threads, Mark(t) PROVE Touches
  BY <1>9 DEF Mark, clockVars, ledgerVars, stageVars
<1>10. ASSUME NEW t \in Threads, Check(t) PROVE Touches
  BY <1>10 DEF Check, clockVars, ledgerVars, stageVars
<1>11. ASSUME NEW t \in Threads, FreezeTarget(t) PROVE Touches
  BY <1>11 DEF FreezeTarget, clockVars, ledgerVars, stageVars
<1>12. ASSUME NEW t \in Threads, SetKey(t) PROVE Touches
  BY <1>12 DEF SetKey, clockVars, ledgerVars, stageVars
<1>13. ASSUME NEW t \in Threads, SellBarrier(t) PROVE Touches
  BY <1>13 DEF SellBarrier, clockVars, ledgerVars, stageVars
<1>14. ASSUME NEW t \in Threads, NoSurplus(t) PROVE Touches
  BY <1>14 DEF NoSurplus, clockVars, ledgerVars, stageVars
<1>15. ASSUME NEW t \in Threads, SellNew(t) PROVE Touches
  BY <1>15 DEF SellNew, clockVars, ledgerVars, stageVars
<1>16. ASSUME NEW t \in Threads, SellAgain(t) PROVE Touches
  BY <1>16 DEF SellAgain, clockVars, ledgerVars, stageVars
<1>17. ASSUME NEW t \in Threads, Sold(t) PROVE Touches
  BY <1>17 DEF Sold, clockVars, ledgerVars, stageVars
<1>18. ASSUME NEW t \in Threads, ReadMissing(t) PROVE Touches
  BY <1>18 DEF ReadMissing, clockVars, ledgerVars, stageVars
<1>19. ASSUME NEW t \in Threads, OpenSignal(t) PROVE Touches
  BY <1>19 DEF OpenSignal, clockVars, ledgerVars, stageVars
<1>20. ASSUME NEW t \in Threads, Progress(t) PROVE Touches
  BY <1>20 DEF Progress, clockVars, ledgerVars, stageVars
<1>21. ASSUME NEW t \in Threads, NEW s \in Symbols, CancelOrder(t, s) PROVE Touches
  BY <1>21 DEF CancelOrder, clockVars, stageVars
<1>22. CASE PressStart
  BY <1>22 DEF PressStart, clockVars, ledgerVars, stageVars
<1>23. CASE Activate
  BY <1>23 DEF Activate, clockVars, ledgerVars, stageVars
<1>24. CASE OpenStage
  BY <1>24 DEF OpenStage, clockVars, ledgerVars, stageVars
<1>25. CASE DateStage
  BY <1>25 DEF DateStage, clockVars, ledgerVars, stageVars
<1>26. CASE PressAdvance
  BY <1>26 DEF PressAdvance, clockVars, ledgerVars, stageVars
<1>27. CASE AllocResume
  BY <1>27 DEF AllocResume, clockVars, ledgerVars, stageVars
<1>28. CASE AllocCrash
  BY <1>28 DEF AllocCrash, clockVars, ledgerVars, stageVars
<1>29. CASE SessionOpens
  BY <1>29 DEF SessionOpens, clockVars, ledgerVars, stageVars
<1>30. CASE DayEnds
  BY <1>30 DEF DayEnds, clockVars, ledgerVars, stageVars
<1>31. ASSUME NEW s \in Symbols, BuyPlaced(s) PROVE Touches
  BY <1>31 DEF BuyPlaced, clockVars, ledgerVars, stageVars
<1>32. ASSUME NEW s \in Symbols, BuyFills(s) PROVE Touches
  BY <1>32 DEF BuyFills, clockVars, ledgerVars, stageVars
<1>33. ASSUME NEW s \in Symbols, BuyEnds(s) PROVE Touches
  BY <1>33 DEF BuyEnds, clockVars, ledgerVars, stageVars
<1>34. ASSUME NEW s \in Symbols, SellFills(s) PROVE Touches
  BY <1>34 DEF SellFills, clockVars, ledgerVars, stageVars
<1>35. ASSUME NEW s \in Symbols, SellEnds(s) PROVE Touches
  BY <1>35 DEF SellEnds, clockVars, ledgerVars, stageVars
<1>36. ASSUME NEW b \in Budgets, Retarget(b) PROVE Touches
  BY <1>36 DEF Retarget, clockVars, ledgerVars, stageVars
<1> HIDE DEF Touches
<1>37. QED
  BY <1>1, <1>2, <1>3, <1>4, <1>5, <1>6, <1>7, <1>8, <1>9, <1>10, <1>11, <1>12, <1>13, <1>14, <1>15, <1>16, <1>17, <1>18, <1>19, <1>20, <1>21, <1>22, <1>23, <1>24, <1>25, <1>26, <1>27, <1>28, <1>29, <1>30, <1>31, <1>32, <1>33, <1>34, <1>35, <1>36, Zenon DEF AllocNext, Pass, Onboarding, Orders, AllocEnv

LEMMA ClockTypesStep == ASSUME Typed, AllocNext PROVE ClockTypes'
<1>1. ClockTypes
  BY TypeParts, Zenon DEF Typed
<1>2. Touches
  BY Touched
<1>3. live' \in BOOLEAN /\ strategy' \in Plans
  BY <1>1, <1>2, Zenon DEF Touches, ClockTypes
<1>4. day' \in 1..MaxDay
  BY <1>1, <1>2, BoundsAssumption DEF Touches, ClockTypes, DayEnds
<1>5. open' \in BOOLEAN
  BY <1>1, <1>2, Zenon DEF Touches, ClockTypes, DayEnds, SessionOpens
<1>6. budget' \in Budgets /\ retargets' \in 0..MaxRetargets
  BY <1>1, <1>2, BoundsAssumption DEF Touches, ClockTypes, Retarget
<1>7. crashes' \in 0..MaxCrashes
  BY <1>1, <1>2, BoundsAssumption DEF Touches, ClockTypes, AllocCrash
<1>8. QED BY <1>3, <1>4, <1>5, <1>6, <1>7, Zenon DEF ClockTypes

LEMMA TargetTypesStep == ASSUME Typed, AllocNext PROVE TargetTypes'
<1>1. TargetTypes /\ ThreadTypes /\ ClockTypes /\ AllocTypeOK
  BY TypeParts, Zenon DEF Typed
<1>2. Touches
  BY Touched
<1>3. ASSUME NEW t \in Threads, WriteTarget(t) PROVE TargetTypes'
  <2>1. at[t] \in Symbols /\ strategy[day][at[t]] \in Nat /\ day \in 0..MaxDay
    BY <1>1, Amounts DEF ClockTypes, ThreadTypes
  <2>2. QED BY <1>1, <1>3, <2>1 DEF TargetTypes, WriteTarget
<1>4. ASSUME NEW t \in Threads, FreezeTarget(t) PROVE TargetTypes'
  <2>1. at[t] \in Symbols /\ sized[t][at[t]] \in Nat /\ Generations \subseteq 0..MaxDay
    BY <1>1 DEF TargetTypes, ThreadTypes, Generations
  <2>2. weight' = weight /\ gen' \in [Symbols -> 0..MaxDay]
    BY <1>1, <1>4, <2>1 DEF TargetTypes, FreezeTarget
  <2>3. tqty' \in [Symbols -> Nat]
    BY <1>1, <1>4, <2>1 DEF TargetTypes, FreezeTarget
  <2>4. QED BY <1>1, <2>2, <2>3 DEF TargetTypes
<1>5. ASSUME NEW b \in Budgets, Retarget(b) PROVE TargetTypes'
  BY <1>1, <1>5 DEF TargetTypes, Retarget
<1>6. CASE UNCHANGED <<gen, weight, tqty>>
  BY <1>1, <1>6, Zenon DEF TargetTypes
<1>7. QED BY <1>2, <1>3, <1>4, <1>5, <1>6 DEF Touches

LEMMA KeyTypesStep == ASSUME Typed, AllocNext PROVE KeyTypes'
<1>1. KeyTypes /\ ClockTypes /\ TargetTypes
  BY TypeParts, Zenon DEF Typed
<1>2. Touches /\ Generations \subseteq 0..MaxDay
  BY <1>1, Touched DEF Generations, TargetTypes
<1>3. marker' \in 0..MaxDay
  BY <1>1, <1>2 DEF Touches, KeyTypes, ClockTypes, Mark
<1>4. frozen' \in 0..MaxDay
  BY <1>1, <1>2, BoundsAssumption DEF Touches, KeyTypes, ResetKey, SetKey, Retarget
<1>5. QED BY <1>3, <1>4, Zenon DEF KeyTypes

LEMMA StageTypesStep == ASSUME Typed, AllocNext PROVE StageTypes'
<1>1. StageTypes /\ ClockTypes
  BY TypeParts, Zenon DEF Typed
<1>2. Touches
  BY Touched
<1>3. stage' \in 0..Len(Fractions)
  BY <1>1, <1>2, FractionsFacts DEF Touches, StageTypes, OpenStage, Typed, LadderInv
<1>4. startedOn' \in 0..MaxDay
  BY <1>1, <1>2, BoundsAssumption DEF Touches, StageTypes, ClockTypes, DateStage
<1>5. filledOn' \in 0..MaxDay
  BY <1>1, <1>2, BoundsAssumption
     DEF Touches, StageTypes, ClockTypes, DateStage, Progress, FilledNow
<1>6. status' \in {"NOT_STARTED", "ACTIVE", "COMPLETED", "BYPASSED"}
  BY <1>1, <1>2 DEF Touches, StageTypes, Activate, Progress, StatusNow
<1>7. QED BY <1>3, <1>4, <1>5, <1>6, Zenon DEF StageTypes

LEMMA QtyStep ==
  ASSUME Typed, AllocNext PROVE qty' \in [Symbols -> Nat] /\ buy' \in [Symbols -> Nat]
<1>1. OrderTypes /\ ThreadTypes /\ AllocTypeOK /\ SoldInv
  BY TypeParts, Zenon DEF Typed
<1>2. Touches
  BY Touched
<1>3. qty \in [Symbols -> Nat] /\ buy \in [Symbols -> Nat]
      /\ \A s \in Symbols : sell[s].left \in Nat
  BY <1>1 DEF OrderTypes, SellForms
<1>4. ASSUME NEW t \in Threads, NEW s \in Symbols, CancelOrder(t, s)
      PROVE  qty' \in [Symbols -> Nat] /\ buy' \in [Symbols -> Nat]
  <2>1. sell[s].st = "open" => sell[s].left <= qty[s]
    BY <1>1 DEF SoldInv
  <2>2. ASSUME sell[s].st = "open", NEW k \in 0..sell[s].left, qty' = [qty EXCEPT ![s] = @ - k],
               UNCHANGED buy
        PROVE  qty' \in [Symbols -> Nat] /\ buy' \in [Symbols -> Nat]
    <3>1. qty[s] - k \in Nat
      BY <1>3, <2>1, <2>2
    <3>2. QED BY <1>3, <2>2, <3>1
  <2>3. ASSUME NEW k \in 0..buy[s], qty' = [qty EXCEPT ![s] = @ + k],
               buy' = [buy EXCEPT ![s] = 0]
        PROVE  qty' \in [Symbols -> Nat] /\ buy' \in [Symbols -> Nat]
    BY <1>3, <2>3
  <2>4. QED BY <1>4, <2>2, <2>3, Zenon DEF CancelOrder
<1>5. ASSUME NEW t \in Threads, SellNew(t) PROVE qty' \in [Symbols -> Nat]
  <2>1. at[t] \in Symbols /\ Surplus(at[t]) \in Nat /\ Surplus(at[t]) <= qty[at[t]]
    BY <1>1, Targeted DEF ThreadTypes
  <2>2. QED BY <1>3, <1>5, <2>1 DEF SellNew
<1>6. ASSUME NEW s \in Symbols, BuyFills(s)
      PROVE  qty' \in [Symbols -> Nat] /\ buy' \in [Symbols -> Nat]
  BY <1>3, <1>6 DEF BuyFills
<1>7. ASSUME NEW s \in Symbols, SellFills(s) PROVE qty' \in [Symbols -> Nat]
  BY <1>1, <1>3, <1>7 DEF SellFills, SoldInv
<1>8. ASSUME NEW s \in Symbols, BuyEnds(s) PROVE buy' \in [Symbols -> Nat]
  BY <1>3, <1>8 DEF BuyEnds
<1>9. ASSUME NEW s \in Symbols, BuyPlaced(s) PROVE buy' \in [Symbols -> Nat]
  <2>1. PICK n \in 1..BuySize(s) : buy' = [buy EXCEPT ![s] = @ + n]
    BY <1>9 DEF BuyPlaced
  <2>2. BuySize(s) \in Nat
    <3>1. signal[s].size \in Nat
      BY <1>1 DEF OrderTypes, SignalForms
    <3>2. tqty[s] \in Nat /\ qty[s] \in Nat /\ buy[s] \in Nat
      BY <1>1, Amounts
    <3>3. QED BY <3>1, <3>2 DEF BuySize, Least, Excess
  <2>3. QED BY <1>3, <2>1, <2>2
<1>10. qty' \in [Symbols -> Nat]
  BY <1>2, <1>3, <1>4, <1>5, <1>6, <1>7, Zenon DEF Touches
<1>11. buy' \in [Symbols -> Nat]
  BY <1>2, <1>3, <1>4, <1>6, <1>8, <1>9, Zenon DEF Touches
<1>12. QED BY <1>10, <1>11

LEMMA RowFits ==
  /\ \A r \in SellForms : \A st \in {"none", "open", "filled", "ended"} : \A k \in Nat :
       /\ [r EXCEPT !.st = st] \in SellForms
       /\ [r EXCEPT !.st = st, !.left = k] \in SellForms
       /\ [r EXCEPT !.left = k, !.st = st] \in SellForms
  /\ \A r \in SignalForms : \A st \in {"none", "ACTIVE", "PROCESSED", "INVALID", "EXPIRED"} :
       [r EXCEPT !.st = st] \in SignalForms
  /\ \A g \in 0..MaxDay : \A n, k \in Nat : \A st \in {"none", "open", "filled", "ended"} :
       [gen |-> g, st |-> st, n |-> n, left |-> k] \in SellForms
  /\ \A g \in 0..MaxDay : \A n \in Nat :
     \A st \in {"none", "ACTIVE", "PROCESSED", "INVALID", "EXPIRED"} :
       [gen |-> g, st |-> st, size |-> n] \in SignalForms
BY DEF SellForms, SignalForms

LEMMA SellStep == ASSUME Typed, AllocNext PROVE sell' \in [Symbols -> SellForms]
<1>1. OrderTypes /\ ThreadTypes /\ AllocTypeOK /\ SoldInv /\ TargetTypes
  BY TypeParts, Zenon DEF Typed
<1>2. Touches
  BY Touched
<1>3. sell \in [Symbols -> SellForms] /\ gen \in [Symbols -> 0..MaxDay]
      /\ \A s \in Symbols : sell[s].left \in Nat
  BY <1>1 DEF OrderTypes, SellForms, TargetTypes
<1>4. ASSUME NEW t \in Threads, NEW s \in Symbols, CancelOrder(t, s)
      PROVE  sell' \in [Symbols -> SellForms]
  <2>1. ASSUME NEW k \in 0..sell[s].left,
               sell' = [sell EXCEPT ![s].left = @ - k, ![s].st = "ended"]
        PROVE  sell' \in [Symbols -> SellForms]
    <3>1. sell[s].left - k \in Nat
      BY <1>3, <2>1
    <3>2. [sell[s] EXCEPT !.left = sell[s].left - k, !.st = "ended"] \in SellForms
      BY <1>3, <3>1, RowFits
    <3>3. sell' = [sell EXCEPT ![s] = [sell[s] EXCEPT !.left = sell[s].left - k, !.st = "ended"]]
      BY <1>3, <2>1 DEF SellForms
    <3>4. QED BY <1>3, <3>2, <3>3
  <2>2. QED BY <1>3, <1>4, <2>1 DEF CancelOrder
<1>5. ASSUME NEW t \in Threads, SellNew(t) PROVE sell' \in [Symbols -> SellForms]
  <2> DEFINE s == at[t]
  <2>1. s \in Symbols /\ Surplus(s) \in Nat /\ gen[s] \in 0..MaxDay
    BY <1>1, <1>3, Targeted DEF ThreadTypes
  <2>2. PICK k \in 0..Surplus(s) :
          \/ sell' = [sell EXCEPT ![s] =
               [gen |-> gen[s], st |-> IF k = Surplus(s) THEN "filled" ELSE "open",
                n |-> Surplus(s), left |-> Surplus(s) - k]]
          \/ sell' = [sell EXCEPT ![s] =
               [gen |-> gen[s], st |-> "ended", n |-> Surplus(s), left |-> Surplus(s) - k]]
    BY <1>5, Zenon DEF SellNew
  <2>3. Surplus(s) - k \in Nat
    BY <2>1
  <2> HIDE DEF s
  <2>4. \A st \in {"none", "open", "filled", "ended"} :
          [gen |-> gen[s], st |-> st, n |-> Surplus(s), left |-> Surplus(s) - k] \in SellForms
    BY <2>1, <2>3, RowFits, Zenon
  <2>5. (IF k = Surplus(s) THEN "filled" ELSE "open") \in {"none", "open", "filled", "ended"}
        /\ "ended" \in {"none", "open", "filled", "ended"}
    OBVIOUS
  <2>6. PICK st \in {"none", "open", "filled", "ended"} :
          sell' = [sell EXCEPT ![s] =
                    [gen |-> gen[s], st |-> st, n |-> Surplus(s), left |-> Surplus(s) - k]]
    BY <2>2, <2>5, Zenon
  <2>7. QED BY <1>3, <2>1, <2>4, <2>6, Zenon
<1>6. ASSUME NEW s \in Symbols, SellFills(s) PROVE sell' \in [Symbols -> SellForms]
  <2>1. [sell[s] EXCEPT !.st = "filled", !.left = 0] \in SellForms
    BY <1>3, RowFits
  <2>2. sell' = [sell EXCEPT ![s] = [sell[s] EXCEPT !.st = "filled", !.left = 0]]
    BY <1>3, <1>6 DEF SellFills, SellForms
  <2>3. QED BY <1>3, <2>1, <2>2
<1>7. ASSUME NEW s \in Symbols, SellEnds(s) PROVE sell' \in [Symbols -> SellForms]
  <2>1. [sell[s] EXCEPT !.st = "ended"] \in SellForms
    BY <1>3, RowFits
  <2>2. QED BY <1>3, <1>7, <2>1 DEF SellEnds
<1>8. QED BY <1>2, <1>3, <1>4, <1>5, <1>6, <1>7, Zenon DEF Touches

LEMMA SignalStep == ASSUME Typed, AllocNext PROVE signal' \in [Symbols -> SignalForms]
<1>1. OrderTypes /\ ThreadTypes /\ TargetTypes
  BY TypeParts, Zenon DEF Typed
<1>2. Touches
  BY Touched
<1>3. signal \in [Symbols -> SignalForms] /\ gen \in [Symbols -> 0..MaxDay]
  BY <1>1, Zenon DEF OrderTypes, TargetTypes
<1>4. Invalidated \in [Symbols -> SignalForms]
  BY <1>3, RowFits DEF Invalidated
<1>5. CASE DayEnds
  BY <1>3, <1>5, RowFits DEF DayEnds
<1>6. ASSUME NEW t \in Threads, OpenSignal(t) PROVE signal' \in [Symbols -> SignalForms]
  <2>1. at[t] \in Symbols /\ gen[at[t]] \in 0..MaxDay /\ sized[t][at[t]] \in Nat
    BY <1>1, <1>3 DEF ThreadTypes
  <2>2. [gen |-> gen[at[t]], st |-> "ACTIVE", size |-> sized[t][at[t]]] \in SignalForms
    BY <2>1, RowFits
  <2>3. QED BY <1>3, <1>6, <2>1, <2>2, Zenon DEF OpenSignal
<1>7. ASSUME NEW s \in Symbols, BuyPlaced(s) PROVE signal' \in [Symbols -> SignalForms]
  <2>1. [signal[s] EXCEPT !.st = "PROCESSED"] \in SignalForms
    BY <1>3, RowFits
  <2>2. QED BY <1>3, <1>7, <2>1 DEF BuyPlaced
<1>8. ASSUME NEW s \in Symbols, BuyEnds(s) PROVE signal' \in [Symbols -> SignalForms]
  <2>1. [signal[s] EXCEPT !.st = "ACTIVE"] \in SignalForms
        /\ [signal[s] EXCEPT !.st = "EXPIRED"] \in SignalForms
    BY <1>3, RowFits
  <2>2. QED BY <1>3, <1>8, <2>1 DEF BuyEnds
<1>9. QED BY <1>2, <1>3, <1>4, <1>5, <1>6, <1>7, <1>8
          DEF Touches, Supersede, PressStart, PressAdvance, Retarget

(* Apart from the passes, only the chat's buttons and a crash move threads. *)
Parked == pc' = [t \in Threads |-> "idle"] /\ at' = [t \in Threads |-> 1]
          /\ sized' = [t \in Threads |-> [s \in Symbols |-> 0]]

LEMMA OthersMove ==
  ASSUME AllocNext
  PROVE  \/ \E t \in Threads : Pass(t)
         \/ Parked /\ AllocCrash
         \/ Onboarding /\ UNCHANGED <<at, sized>>
         \/ UNCHANGED <<pc, at, sized>>
<1>1. CASE Onboarding
  BY <1>1 DEF Onboarding, PressStart, Activate, OpenStage, DateStage, PressAdvance
<1>2. CASE Orders
  BY <1>2 DEF Orders, BuyPlaced, BuyFills, BuyEnds, SellFills, SellEnds
<1>3. CASE AllocEnv
  BY <1>3 DEF AllocEnv, AllocResume, Retarget, AllocCrash, SessionOpens, DayEnds, Parked
<1>4. QED BY <1>1, <1>2, <1>3 DEF AllocNext

LEMMA PressMoves ==
  ASSUME Typed, Onboarding
  PROVE  /\ pc' \in [Threads -> Labels] /\ UNCHANGED <<at, sized>>
         /\ pc'["scheduler"] = pc["scheduler"] /\ pc["chat"] \in ChatLabels \cup {"idle"}
         /\ pc'["chat"] \in ChatLabels \cup {"run"}
<1>1. pc \in [Threads -> Labels]
  BY DEF Typed, PlaceInv
<1>2. QED
  BY <1>1 DEF Onboarding, PressStart, Activate, OpenStage, DateStage, PressAdvance, Goto, Threads,
              Labels, ChatLabels

LEMMA ThreadsStep ==
  ASSUME Typed, AllocNext
  PROVE  /\ ThreadTypes' /\ pc' \in [Threads -> Labels]
         /\ pc'["scheduler"] \notin ChatLabels
<1>1. ThreadTypes /\ pc \in [Threads -> Labels] /\ pc["scheduler"] \notin ChatLabels
  BY TypeParts, Zenon DEF Typed, PlaceInv
<1>2. ASSUME NEW t \in Threads, Pass(t)
      PROVE  /\ ThreadTypes' /\ pc' \in [Threads -> Labels]
             /\ pc'["scheduler"] \notin ChatLabels
  <2>1. Moved(t)
    BY <1>2, PassMoves
  <2>2. "scheduler" \in Threads
    BY DEF Threads
  <2>3. QED BY <1>1, <2>1, <2>2 DEF Moved
<1>3. CASE Parked
  <2>1. 1 \in Symbols
    BY SymbolsAssumption DEF Symbols
  <2>2. QED BY <1>3, <2>1 DEF Parked, ThreadTypes, Threads, Labels, ChatLabels
<1>4. CASE Onboarding
  BY <1>1, <1>4, PressMoves, Zenon DEF ThreadTypes
<1>5. CASE UNCHANGED <<pc, at, sized>>
  BY <1>1, <1>5, Zenon DEF ThreadTypes
<1>6. QED BY <1>2, <1>3, <1>4, <1>5, OthersMove

LEMMA FlagTypesStep == ASSUME Typed, AllocNext PROVE FlagTypes'
<1>1. safe \in BOOLEAN /\ raced \in BOOLEAN
  BY Zenon DEF Typed, AllocTypeOK
<1>2. safe' \in BOOLEAN
  BY <1>1 DEF AllocNext, Pass, Onboarding, Orders, AllocEnv, Run, Evaluate, GiveUp, Supersede,
     CancelOrder, CancelUnconfirmed, Cancelled, WriteTarget, ResetKey, Mark, Check, FreezeTarget,
     SetKey, SellBarrier, NoSurplus, SellNew, SellAgain, Sold, ReadMissing, OpenSignal, Progress,
     PressStart, Activate, OpenStage, DateStage, PressAdvance, BuyPlaced, BuyFills, BuyEnds,
     SellFills, SellEnds, AllocResume, Retarget, AllocCrash, SessionOpens, DayEnds
<1>3. raced' \in BOOLEAN
  BY <1>1 DEF AllocNext, Pass, Onboarding, Orders, AllocEnv, Run, Evaluate, GiveUp, Supersede,
     CancelOrder, CancelUnconfirmed, Cancelled, WriteTarget, ResetKey, Mark, Check, FreezeTarget,
     SetKey, SellBarrier, NoSurplus, SellNew, SellAgain, Sold, ReadMissing, OpenSignal, Progress,
     PressStart, Activate, OpenStage, DateStage, PressAdvance, BuyPlaced, BuyFills, BuyEnds,
     SellFills, SellEnds, AllocResume, Retarget, AllocCrash, SessionOpens, DayEnds, RacedBy
<1>4. QED BY <1>2, <1>3 DEF FlagTypes

FirstLabels == {"supersede", "cancel", "reset", "mark", "check", "key", "sold"}

LEMMA FirstStep ==
  ASSUME Typed, AllocNext
  PROVE  \A t \in Threads : pc'[t] \in FirstLabels => at'[t] = 1
<1>1. /\ pc \in [Threads -> Labels] /\ at \in [Threads -> Symbols]
      /\ \A t \in Threads : pc[t] \in FirstLabels => at[t] = 1
  BY Zenon DEF Typed, AllocTypeOK, PlaceInv, FirstLabels
<1>2. ASSUME NEW t \in Threads, Pass(t)
      PROVE  \A u \in Threads : pc'[u] \in FirstLabels => at'[u] = 1
  <2>1. \A u \in Threads \ {t} : pc'[u] = pc[u] /\ at'[u] = at[u]
    BY <1>2, PassMoves DEF Moved
  <2>2. pc'[t] \in FirstLabels => at'[t] = 1
    <3> HIDE DEF Threads
    <3>1. CASE Run(t) \/ GiveUp(t) \/ CancelUnconfirmed(t) \/ Progress(t) \/ Cancelled(t)
                \/ SellBarrier(t)
      BY <1>1, <3>1 DEF Run, GiveUp, CancelUnconfirmed, Progress, Cancelled, SellBarrier, Goto,
                        FirstLabels
    <3>2. CASE Evaluate(t) \/ Supersede(t) \/ ResetKey(t) \/ Mark(t) \/ SetKey(t) \/ Sold(t)
                \/ Check(t) \/ \E s \in Symbols : CancelOrder(t, s)
      BY <1>1, <3>2 DEF Evaluate, Supersede, ResetKey, Mark, SetKey, Sold, Check, CancelOrder,
                        Goto, FirstLabels
    <3>3. CASE WriteTarget(t) \/ FreezeTarget(t) \/ NoSurplus(t)
      BY <1>1, <3>3 DEF WriteTarget, FreezeTarget, NoSurplus, Next1, Goto, FirstLabels
    <3>4. CASE SellNew(t) \/ SellAgain(t) \/ ReadMissing(t) \/ OpenSignal(t)
      BY <1>1, <3>4 DEF SellNew, SellAgain, ReadMissing, OpenSignal, Next1, Goto, FirstLabels
    <3>5. QED BY <1>2, <3>1, <3>2, <3>3, <3>4 DEF Pass
  <2>3. QED BY <1>1, <2>1, <2>2
<1>3. CASE Parked
  BY <1>3 DEF Parked, FirstLabels
<1>4. CASE Onboarding
  <2>1. pc'["scheduler"] = pc["scheduler"] /\ pc'["chat"] \notin FirstLabels /\ at' = at
    BY <1>4, PressMoves DEF FirstLabels, ChatLabels
  <2>2. QED BY <1>1, <2>1 DEF Threads
<1>5. CASE UNCHANGED <<pc, at, sized>>
  BY <1>1, <1>5, Zenon
<1>6. QED BY <1>2, <1>3, <1>4, <1>5, OthersMove

LEMMA SoldStep == ASSUME Typed, AllocNext PROVE SoldInv'
<1>1. OrderTypes /\ ThreadTypes /\ AllocTypeOK /\ SoldInv
  BY TypeParts, Zenon DEF Typed
<1>2. Touches /\ OrderTypes'
  BY Touched, QtyStep, SellStep, SignalStep, Zenon DEF OrderTypes
<1>3. /\ qty \in [Symbols -> Nat] /\ buy \in [Symbols -> Nat] /\ sell \in [Symbols -> SellForms]
      /\ \A s \in Symbols : sell[s].left \in Nat
      /\ live' = live
  BY <1>1, <1>2 DEF OrderTypes, SellForms, Touches
<1> DEFINE Safe(s) == /\ sell'[s].st = "open" => sell'[s].left <= qty'[s]
                      /\ ~live => sell'[s].st # "open"
<1> SUFFICES \A s \in Symbols : Safe(s)
  BY <1>3 DEF SoldInv, OpenSells
<1>4. \A s \in Symbols : /\ sell[s].st = "open" => sell[s].left <= qty[s]
                         /\ ~live => sell[s].st # "open"
  BY <1>1 DEF SoldInv, OpenSells
<1> HIDE DEF Symbols, Threads
<1>5. ASSUME NEW t \in Threads, NEW r \in Symbols, CancelOrder(t, r), NEW s \in Symbols
      PROVE  Safe(s)
  <2>1. CASE s # r
    BY <1>3, <1>4, <1>5, <2>1 DEF CancelOrder
  <2>2. CASE s = r
    <3>1. ASSUME NEW k, sell' = [sell EXCEPT ![r].left = @ - k, ![r].st = "ended"]
          PROVE  sell'[r].st = "ended"
      BY <1>3, <3>1 DEF SellForms
    <3>2. ASSUME NEW k \in 0..buy[r], qty' = [qty EXCEPT ![r] = @ + k], UNCHANGED sell
          PROVE  Safe(r)
      BY <1>3, <1>4, <3>2
    <3>3. QED BY <1>5, <2>2, <3>1, <3>2 DEF CancelOrder
  <2>3. QED BY <2>1, <2>2
<1>6. ASSUME NEW t \in Threads, SellNew(t), NEW s \in Symbols PROVE Safe(s)
  <2>1. at[t] \in Symbols /\ Surplus(at[t]) \in Nat /\ Surplus(at[t]) <= qty[at[t]]
    BY <1>1, Targeted DEF ThreadTypes
  <2>2. CASE s # at[t]
    BY <1>3, <1>4, <1>6, <2>1, <2>2 DEF SellNew
  <2>3. CASE s = at[t]
    BY <1>3, <1>6, <2>1, <2>3 DEF SellNew
  <2>4. QED BY <2>2, <2>3
<1>7. ASSUME NEW r \in Symbols, BuyFills(r), NEW s \in Symbols PROVE Safe(s)
  BY <1>3, <1>4, <1>7 DEF BuyFills
<1>8. ASSUME NEW r \in Symbols, SellFills(r) \/ SellEnds(r), NEW s \in Symbols PROVE Safe(s)
  <2>1. CASE s # r
    BY <1>3, <1>4, <1>8, <2>1 DEF SellFills, SellEnds
  <2>2. CASE s = r
    BY <1>3, <1>8, <2>2 DEF SellFills, SellEnds, SellForms
  <2>3. QED BY <2>1, <2>2
<1>9. CASE UNCHANGED <<qty, sell>>
  BY <1>4, <1>9
<1>10. QED BY <1>2, <1>5, <1>6, <1>7, <1>8, <1>9, Zenon DEF Touches

LEMMA LadderStep == ASSUME Typed, AllocNext PROVE LadderInv'
<1>1. OrderTypes /\ ThreadTypes /\ AllocTypeOK /\ SoldInv /\ LadderInv /\ StageTypes
      /\ pc \in [Threads -> Labels] /\ pc["scheduler"] \notin ChatLabels
  BY TypeParts, Zenon DEF Typed, PlaceInv
<1>2. Touches
  BY Touched
<1>3. /\ live' = live /\ "chat" \in Threads
      /\ \A t \in Threads : t = "chat" \/ t = "scheduler"
  BY <1>2 DEF Touches, Threads
(* Where the chat's thread goes. *)
<1>4. /\ pc'["chat"] \in ChatLabels => Onboarding \/ pc'["chat"] = pc["chat"]
      /\ live => pc'["chat"] = "idle"
      /\ Onboarding => ~live
  <2>1. ASSUME NEW t \in Threads, Pass(t)
        PROVE  /\ pc'["chat"] \in ChatLabels => pc'["chat"] = pc["chat"]
               /\ live => pc'["chat"] = "idle"
    <3>1. Moved(t)
      BY <2>1, PassMoves
    <3>2. CASE t = "chat"
      <4>1. pc["chat"] # "idle"
        BY <2>1, <3>2 DEF Pass, Run, Evaluate, GiveUp, Supersede, CancelOrder, CancelUnconfirmed,
           Cancelled, WriteTarget, ResetKey, Mark, Check, FreezeTarget, SetKey, SellBarrier,
           NoSurplus, SellNew, SellAgain, Sold, ReadMissing, OpenSignal, Progress
      <4>2. QED BY <1>1, <3>1, <3>2, <4>1 DEF Moved, LadderInv
    <3>3. CASE t # "chat"
      BY <1>1, <1>3, <3>1, <3>3 DEF Moved, LadderInv
    <3>4. QED BY <3>2, <3>3
  <2>2. Onboarding => ~live
    <3>1. live => status = "COMPLETED" /\ pc["chat"] = "idle"
      BY <1>1 DEF LadderInv
    <3>2. QED BY <3>1 DEF Onboarding, PressStart, Activate, OpenStage, DateStage, PressAdvance,
                          NextStageReady
  <2>3. CASE Parked
    BY <1>3, <2>2, <2>3 DEF Parked, ChatLabels
  <2>4. CASE UNCHANGED <<pc, at, sized>>
    BY <1>1, <2>2, <2>4 DEF LadderInv
  <2>5. QED BY <2>1, <2>2, <2>3, <2>4, OthersMove
<1>5. /\ live => status' = "COMPLETED"
      /\ status' \in Unstarted => status = status' /\ stage' = 0
  <2>1. \A t \in Threads : Progress(t) => status' = status \/ (status = "ACTIVE" /\ status' = "COMPLETED")
    BY DEF Progress, StatusNow
  <2>2. Activate => ~live /\ status' = "ACTIVE"
    BY <1>4 DEF Activate, Onboarding
  <2>3. OpenStage => status \notin Unstarted
    BY <1>1 DEF OpenStage, LadderInv
  <2>4. /\ live => status = "COMPLETED"
        /\ status \in Unstarted => stage = 0
    BY <1>1 DEF LadderInv
  <2>5. status' = status \/ status' \in {"ACTIVE", "COMPLETED"}
    BY <1>2, <2>1, <2>2 DEF Touches
  <2>6. live => status' = "COMPLETED"
    BY <1>2, <2>1, <2>2, <2>4 DEF Touches
  <2>7. status' \in Unstarted => status = status' /\ stage' = 0
    BY <1>2, <2>3, <2>4, <2>5 DEF Touches, Unstarted
  <2>8. QED BY <2>6, <2>7
<1>6. pc'["chat"] = "start" => status' \in Unstarted /\ Flat' /\ OpenOrders' = {}
  <2> SUFFICES ASSUME pc'["chat"] = "start"
               PROVE  status' \in Unstarted /\ Flat' /\ OpenOrders' = {}
    OBVIOUS
  <2>1. CASE Onboarding
    <3>1. PressStart
      BY <1>1, <1>3, <2>1 DEF Onboarding, PressStart, Activate, OpenStage, DateStage, PressAdvance, Goto
    <3>2. QED BY <3>1 DEF PressStart, Unstarted, Flat, OpenOrders, OpenSells, stageVars
  <2>2. CASE ~Onboarding
    <3>1. pc["chat"] = "start"
      BY <1>4, <2>2 DEF ChatLabels
    <3>2. ~live /\ status \in Unstarted
      BY <1>1, <3>1 DEF LadderInv
    <3>3. \A s \in Symbols : qty[s] = 0 /\ ~(buy[s] > 0) /\ sell[s].st # "open"
      BY <1>1, <3>1 DEF LadderInv, Flat, OpenOrders, OpenSells
    <3>4. status' = status
      BY <1>2, <2>2, <3>2 DEF Touches, Progress, Unstarted, Onboarding
    <3>5. \A t \in Threads : ~SellNew(t)
      BY <1>1, <3>3, Targeted DEF SellNew, ThreadTypes
    <3>6. /\ \A t \in Threads : \A s \in Symbols : ~CancelOrder(t, s)
          /\ \A s \in Symbols : ~BuyPlaced(s) /\ ~BuyFills(s) /\ ~BuyEnds(s) /\ ~SellFills(s)
                                /\ ~SellEnds(s)
      BY <3>1, <3>2, <3>3 DEF CancelOrder, BuyPlaced, BuyFills, BuyEnds, SellFills, SellEnds
    <3>7. UNCHANGED <<qty, buy, sell>>
      BY <1>2, <3>5, <3>6, Zenon DEF Touches
    <3>8. QED BY <3>2, <3>3, <3>4, <3>7 DEF Flat, OpenOrders, OpenSells
  <2>3. QED BY <2>1, <2>2
<1>7. /\ pc'["chat"] \in {"stage", "date"} => status' \notin Unstarted
      /\ pc'["chat"] = "stage" => stage' < Len(Fractions)
  <2>1. /\ pc["chat"] \in {"stage", "date"} => status \notin Unstarted
        /\ pc["chat"] = "stage" => stage < Len(Fractions)
        /\ pc["chat"] = "start" => stage = 0
    BY <1>1 DEF LadderInv
  <2>2. CASE Onboarding
    <3>1. CASE PressStart \/ Activate
      <4>1. pc'["chat"] # "date" /\ (pc'["chat"] = "stage" => Activate)
        BY <1>1, <1>3, <3>1 DEF PressStart, Activate, Goto
      <4>2. Activate => status' = "ACTIVE" /\ stage' = 0
        BY <2>1 DEF Activate
      <4>3. QED BY <1>1, <3>1, <4>1, <4>2, FractionsFacts DEF Unstarted, PressStart, Activate, Goto
    <3>2. CASE OpenStage \/ DateStage
      BY <1>1, <1>3, <2>1, <3>2 DEF OpenStage, DateStage, Goto
    <3>3. CASE PressAdvance
      BY <1>1, <1>3, <3>3, FractionsFacts DEF PressAdvance, NextStageReady, Goto, Unstarted, stageVars
    <3>4. QED BY <2>2, <3>1, <3>2, <3>3 DEF Onboarding
  <2>3. CASE ~Onboarding
    <3>1. stage' = stage
      BY <1>2, <2>3 DEF Touches, Onboarding
    <3>2. QED BY <1>4, <1>5, <2>1, <2>3, <3>1 DEF ChatLabels
  <2>4. QED BY <2>2, <2>3
<1>8. status' \in Unstarted => stage' = 0
  BY <1>5
<1>9. QED BY <1>3, <1>4, <1>5, <1>6, <1>7, <1>8, Zenon DEF LadderInv

LEMMA TypedInit == Init => Typed
<1> SUFFICES ASSUME Init PROVE Typed
  OBVIOUS
<1>1. 1 \in Symbols /\ 1 \in 1..MaxDay /\ 0 \in 0..MaxDay /\ 0 \in Nat /\ 0 \in 0..MaxCrashes
      /\ 0 \in 0..MaxRetargets /\ 0 \in 0..Len(Fractions) /\ Len(Fractions) \in 0..Len(Fractions)
  BY SymbolsAssumption, BoundsAssumption, FractionsFacts DEF Symbols
<1>2. ClockTypes
  BY <1>1 DEF Init, ClockTypes
<1>3. TargetTypes
  BY <1>1 DEF Init, TargetTypes
<1>4. OrderTypes
  <2>1. NoSell \in SellForms /\ NoSignal \in SignalForms
    BY <1>1, RowFits DEF NoSell, NoSignal
  <2>2. QED BY <1>1, <2>1 DEF Init, OrderTypes
<1>5. StageTypes
  BY <1>1 DEF Init, StageTypes
<1>6. KeyTypes /\ FlagTypes
  BY <1>1 DEF Init, KeyTypes, FlagTypes
<1>7. ThreadTypes
  BY <1>1 DEF Init, ThreadTypes
<1>8. PlaceInv
  BY DEF Init, PlaceInv, Labels, ChatLabels, Threads
<1>9. LadderInv
  BY DEF Init, LadderInv, Threads, Unstarted
<1>10. SoldInv
  BY DEF Init, SoldInv, OpenSells, NoSell
<1>11. QED BY <1>2, <1>3, <1>4, <1>5, <1>6, <1>7, <1>8, <1>9, <1>10, TypeParts DEF Typed

LEMMA TypedStep == Typed /\ [AllocNext]_allocVars => Typed'
<1>1. ASSUME Typed, AllocNext PROVE Typed'
  <2>1. OrderTypes'
    BY <1>1, QtyStep, SellStep, SignalStep, Zenon DEF OrderTypes
  <2>2. ThreadTypes' /\ pc' \in [Threads -> Labels] /\ pc'["scheduler"] \notin ChatLabels
    BY <1>1, ThreadsStep
  <2>3. AllocTypeOK'
    BY <1>1, <2>1, <2>2, ClockTypesStep, TargetTypesStep, StageTypesStep, KeyTypesStep,
       FlagTypesStep, TypePartsNext, Zenon
  <2>4. PlaceInv'
    BY <1>1, <2>2, FirstStep, Zenon DEF PlaceInv, FirstLabels
  <2>5. QED BY <1>1, <2>3, <2>4, LadderStep, SoldStep, Zenon DEF Typed
<1>2. ASSUME Typed, UNCHANGED allocVars PROVE Typed'
  BY <1>2, Zenon DEF Typed, AllocTypeOK, PlaceInv, LadderInv, SoldInv, OpenOrders, OpenSells, Flat,
                     allocVars
<1>3. QED BY <1>1, <1>2

LEMMA TypedHolds == AllocSpec => []Typed
BY TypedInit, TypedStep, PTL DEF AllocSpec

(* Every variable keeps its type: in particular no step sells more than is *)
(* held (SellNew, CancelOrder, SellFills), and the onboarding never opens a *)
(* stage past its last fraction (OpenStage).                               *)
THEOREM AllocTypeCorrect == AllocSpec => []AllocTypeOK
<1>1. Typed => AllocTypeOK
  BY DEF Typed
<1>2. QED BY <1>1, TypedHolds, PTL

-----------------------------------------------------------------------------
(* The calendar of a generation: nothing is dated ahead of the completed    *)
(* session, a pass trades only on the session it has marked, and a frozen   *)
(* generation covers every row.                                             *)

DayInv ==
  /\ marker <= day /\ frozen <= day /\ startedOn <= day /\ filledOn <= day
  /\ \A s \in Symbols : gen[s] <= day
  /\ frozen = day => marker = day
  /\ \A t \in Threads : pc[t] \in Trading \cup {"check"} => marker = day
  /\ frozen # 0 => \A s \in Symbols : gen[s] # 0
  /\ \A t \in Threads : pc[t] = "key" => \A s \in Symbols : gen[s] # 0
  /\ \A t \in Threads : pc[t] = "freeze" => \A s \in Symbols : s < at[t] => gen[s] # 0

LEMMA IdleAtDayEnd ==
  ASSUME DayEnds PROVE \A t \in Threads : pc[t] = "idle" /\ pc'[t] = "idle"
BY DEF DayEnds

(* The actions by which a pass comes to a label.                           *)
Arrivals(t) ==
  /\ pc'[t] = "supersede" => Evaluate(t)
  /\ pc'[t] = "cancel" => Supersede(t) \/ \E s \in Symbols : CancelOrder(t, s)
  /\ pc'[t] = "write" => Cancelled(t) \/ WriteTarget(t)
  /\ pc'[t] = "reset" => WriteTarget(t)
  /\ pc'[t] = "mark" => ResetKey(t) \/ Evaluate(t)
  /\ pc'[t] = "check" => Mark(t) \/ Evaluate(t)
  /\ pc'[t] = "freeze" => Check(t) \/ FreezeTarget(t)
  /\ pc'[t] = "key" => FreezeTarget(t)
  /\ pc'[t] = "sell" => Check(t) \/ SetKey(t) \/ NoSurplus(t) \/ SellNew(t) \/ SellAgain(t)
  /\ pc'[t] = "sold" => NoSurplus(t) \/ SellNew(t) \/ SellAgain(t)
  /\ pc'[t] = "buy" => Sold(t) \/ ReadMissing(t) \/ OpenSignal(t)
  /\ pc'[t] = "signal" => ReadMissing(t)

LEMMA Arrived == ASSUME Typed, NEW t \in Threads, Pass(t) PROVE Arrivals(t)
<1>1. pc \in [Threads -> Labels]
  BY DEF Typed, PlaceInv
<1> HIDE DEF Threads
<1>2. CASE Run(t)
  BY <1>1, <1>2 DEF Run, Goto, Next1, Arrivals
<1>3. CASE Evaluate(t)
  BY <1>1, <1>3 DEF Evaluate, Goto, Next1, Arrivals
<1>4. CASE GiveUp(t)
  BY <1>1, <1>4 DEF GiveUp, Goto, Next1, Arrivals
<1>5. CASE Supersede(t)
  BY <1>1, <1>5 DEF Supersede, Goto, Next1, Arrivals
<1>6. CASE CancelUnconfirmed(t)
  BY <1>1, <1>6 DEF CancelUnconfirmed, Goto, Next1, Arrivals
<1>7. CASE Cancelled(t)
  BY <1>1, <1>7 DEF Cancelled, Goto, Next1, Arrivals
<1>8. CASE WriteTarget(t)
  BY <1>1, <1>8 DEF WriteTarget, Goto, Next1, Arrivals
<1>9. CASE ResetKey(t)
  BY <1>1, <1>9 DEF ResetKey, Goto, Next1, Arrivals
<1>10. CASE Mark(t)
  BY <1>1, <1>10 DEF Mark, Goto, Next1, Arrivals
<1>11. CASE Check(t)
  BY <1>1, <1>11 DEF Check, Goto, Next1, Arrivals
<1>12. CASE FreezeTarget(t)
  BY <1>1, <1>12 DEF FreezeTarget, Goto, Next1, Arrivals
<1>13. CASE SetKey(t)
  BY <1>1, <1>13 DEF SetKey, Goto, Next1, Arrivals
<1>14. CASE SellBarrier(t)
  BY <1>1, <1>14 DEF SellBarrier, Goto, Next1, Arrivals
<1>15. CASE NoSurplus(t)
  BY <1>1, <1>15 DEF NoSurplus, Goto, Next1, Arrivals
<1>16. CASE SellNew(t)
  BY <1>1, <1>16 DEF SellNew, Goto, Next1, Arrivals
<1>17. CASE SellAgain(t)
  BY <1>1, <1>17 DEF SellAgain, Goto, Next1, Arrivals
<1>18. CASE Sold(t)
  BY <1>1, <1>18 DEF Sold, Goto, Next1, Arrivals
<1>19. CASE ReadMissing(t)
  BY <1>1, <1>19 DEF ReadMissing, Goto, Next1, Arrivals
<1>20. CASE OpenSignal(t)
  BY <1>1, <1>20 DEF OpenSignal, Goto, Next1, Arrivals
<1>21. CASE Progress(t)
  BY <1>1, <1>21 DEF Progress, Goto, Next1, Arrivals
<1>22. CASE \E s \in Symbols : CancelOrder(t, s)
  BY <1>1, <1>22 DEF CancelOrder, Arrivals
<1>23. QED
  BY <1>2, <1>3, <1>4, <1>5, <1>6, <1>7, <1>8, <1>9, <1>10, <1>11, <1>12, <1>13, <1>14, <1>15, <1>16, <1>17, <1>18, <1>19, <1>20, <1>21, <1>22 DEF Pass

(* A thread comes to trade from the checks before it.                      *)
LEMMA TradeEntry ==
  ASSUME Typed, NEW t \in Threads, Pass(t), pc'[t] \in Trading \cup {"check"}
  PROVE  pc[t] \in Trading \cup {"check"} \/ marker' = day
<1>1. Arrivals(t)
  BY Arrived
<1>2. pc \in [Threads -> Labels]
  BY DEF Typed, PlaceInv
<1>3. Mark(t) => marker' = day
  BY DEF Mark
<1>4. Evaluate(t) => marker' = marker /\ (pc'[t] \in Trading \cup {"check"} => marker = day)
  BY <1>2 DEF Evaluate, Goto, Trading
<1>5. \/ Mark(t) \/ Evaluate(t) \/ Check(t) \/ FreezeTarget(t) \/ SetKey(t) \/ NoSurplus(t)
      \/ SellNew(t) \/ SellAgain(t) \/ Sold(t) \/ ReadMissing(t) \/ OpenSignal(t)
  BY <1>1, Zenon DEF Arrivals, Trading
<1>6. QED BY <1>3, <1>4, <1>5 DEF Trading, Check, FreezeTarget, SetKey, NoSurplus, SellNew,
                                  SellAgain, Sold, ReadMissing, OpenSignal

LEMMA DayStep == ASSUME Typed, DayInv, AllocNext PROVE DayInv'
<1>1. /\ pc \in [Threads -> Labels] /\ at \in [Threads -> Symbols] /\ AllocTypeOK
      /\ gen \in [Symbols -> 0..MaxDay] /\ Symbols \subseteq Nat
  BY Amounts, Zenon DEF Typed, AllocTypeOK, PlaceInv
<1>2. Touches
  BY Touched
<1>3. day \in Nat \ {0} /\ frozen \in Nat /\ marker \in Nat /\ startedOn \in Nat /\ filledOn \in Nat
      /\ \A s \in Symbols : gen[s] \in Nat
  BY <1>1, Amounts
<1> HIDE DEF Symbols, Threads
<1>4. day' \in Nat /\ day <= day' /\ (~DayEnds => day' = day) /\ (DayEnds => day' = day + 1)
  BY <1>2, <1>3 DEF Touches, DayEnds
<1>5. \A g \in Generations : g \in Nat \ {0} /\ g <= day
  BY <1>3 DEF Generations, DayInv
<1>6. marker' <= day' /\ (marker' = marker \/ marker' = day) /\ (DayEnds => marker' = marker)
  BY <1>2, <1>3, <1>4 DEF Touches, Mark, DayInv, DayEnds
<1>7. frozen' <= day' /\ (DayEnds => frozen' = frozen)
  BY <1>2, <1>3, <1>4, <1>5 DEF Touches, DayInv, ResetKey, SetKey, Retarget, DayEnds
<1>8. startedOn' <= day' /\ filledOn' <= day'
  BY <1>2, <1>3, <1>4 DEF Touches, DayInv, DateStage, Progress, FilledNow
<1>9. \A s \in Symbols : gen'[s] <= day' /\ (gen[s] # 0 => gen'[s] # 0)
  <2>1. ASSUME NEW t \in Threads, WriteTarget(t) \/ FreezeTarget(t), NEW s \in Symbols
        PROVE  gen'[s] <= day /\ (gen[s] # 0 => gen'[s] # 0)
    BY <1>1, <1>3, <1>5, <2>1 DEF WriteTarget, FreezeTarget, DayInv
  <2>2. CASE UNCHANGED gen
    BY <1>3, <1>4, <2>2 DEF DayInv
  <2>3. QED BY <1>2, <1>3, <1>4, <2>1, <2>2, TargetTypesStep DEF Touches, WriteTarget, FreezeTarget, clockVars
<1>10. frozen' = day' => marker' = day'
  <2>1. CASE DayEnds
    BY <1>3, <1>4, <1>7, <2>1 DEF DayInv
  <2>2. ASSUME NEW t \in Threads, SetKey(t) PROVE marker' = day'
    BY <2>2 DEF SetKey, DayInv, Trading, clockVars
  <2>3. CASE ~DayEnds /\ frozen' \in {frozen, 0}
    BY <1>3, <1>4, <1>6, <2>3 DEF DayInv
  <2>4. frozen' \in {frozen, 0} \/ \E t \in Threads : SetKey(t)
    BY <1>2 DEF Touches, ResetKey, Retarget
  <2>5. QED BY <2>1, <2>2, <2>3, <2>4
<1>11. frozen' # 0 => \A s \in Symbols : gen'[s] # 0
  <2>1. ASSUME NEW t \in Threads, SetKey(t) PROVE \A s \in Symbols : gen'[s] # 0
    BY <1>9, <2>1 DEF SetKey, DayInv
  <2>2. frozen' \in {frozen, 0} \/ \E t \in Threads : SetKey(t)
    BY <1>2 DEF Touches, ResetKey, Retarget
  <2>3. QED BY <1>9, <2>1, <2>2 DEF DayInv
<1>12. ASSUME NEW t \in Threads
       PROVE  /\ pc'[t] \in Trading \cup {"check"} => marker' = day'
              /\ pc'[t] = "key" => \A s \in Symbols : gen'[s] # 0
              /\ pc'[t] = "freeze" => \A s \in Symbols : s < at'[t] => gen'[s] # 0
  <2> DEFINE Fine == /\ pc'[t] \in Trading \cup {"check"} => marker' = day'
                     /\ pc'[t] = "key" => \A s \in Symbols : gen'[s] # 0
                     /\ pc'[t] = "freeze" => \A s \in Symbols : s < at'[t] => gen'[s] # 0
  <2>1. CASE pc'[t] \notin Trading \cup {"check"}
    BY <2>1 DEF Trading
  <2>2. CASE pc'[t] = pc[t] /\ at'[t] = at[t]
    <3>1. pc[t] \in Trading \cup {"check"} => ~DayEnds
      BY IdleAtDayEnd DEF Trading
    <3>2. QED BY <1>4, <1>6, <1>9, <2>2, <3>1 DEF DayInv
  <2>3. ASSUME Pass(t), pc'[t] \in Trading \cup {"check"} PROVE Fine
    <3>1. marker' = day /\ ~DayEnds
      <4>1. pc[t] \in Trading \cup {"check"} => marker' = day
        BY <1>6 DEF DayInv
      <4>2. ~DayEnds
        BY <2>3, PassMoves, IdleAtDayEnd DEF Trading
      <4>3. QED BY <2>3, <4>1, <4>2, TradeEntry
    <3>2. \A i \in Symbols : i = SymbolCount \/ i < SymbolCount
      BY SymbolsAssumption DEF Symbols
    <3>3. ASSUME FreezeTarget(t)
          PROVE  /\ gen'[at[t]] # 0
                 /\ \A s \in Symbols : s < at[t] => gen[s] # 0
                 /\ pc'[t] = "key" => at[t] = SymbolCount
                 /\ pc'[t] = "freeze" => at'[t] = at[t] + 1
      <4>1. at[t] \in Symbols
        BY <1>1
      <4>2. gen'[at[t]] # 0
        BY <1>1, <1>5, <3>3, <4>1 DEF FreezeTarget
      <4>3. Next1(t, "key") /\ "key" \in Labels /\ pc[t] = "freeze"
        BY <3>3 DEF FreezeTarget, Labels
      <4>4. QED BY <4>2, <4>3, WalkTypes DEF DayInv
    <3>4. /\ pc'[t] = "key" => \A s \in Symbols : gen'[s] # 0
          /\ pc'[t] = "freeze" => \A s \in Symbols : s < at'[t] => gen'[s] # 0
      <4>1. CASE FreezeTarget(t)
        <5>1. gen'[at[t]] # 0 /\ \A s \in Symbols : s < at[t] => gen'[s] # 0
          BY <1>9, <3>3, <4>1
        <5>2. at[t] \in Nat /\ \A s \in Symbols : s \in Nat
          BY <1>1
        <5>3. ASSUME NEW s \in Symbols,
                     pc'[t] = "key" \/ (pc'[t] = "freeze" /\ s < at'[t])
              PROVE  s < at[t] \/ s = at[t]
          BY <3>2, <3>3, <4>1, <5>2, <5>3
        <5>4. QED BY <5>1, <5>3
      <4>2. CASE ~FreezeTarget(t)
        <5>1. pc'[t] # "key" /\ (pc'[t] = "freeze" => Check(t))
          BY <2>3, <4>2, Arrived DEF Arrivals
        <5>2. Check(t) => at'[t] = 1
          BY DEF Check, Typed, PlaceInv
        <5>3. \A s \in Symbols : ~(s < 1)
          BY DEF Symbols
        <5>4. QED BY <5>1, <5>2, <5>3
      <4>3. QED BY <4>1, <4>2
    <3>5. QED BY <1>4, <3>1, <3>4
  <2>4. ASSUME Onboarding PROVE pc'[t] \notin Trading \cup {"check"} \/ (pc'[t] = pc[t] /\ at'[t] = at[t])
    BY <2>4, PressMoves DEF Threads, ChatLabels, Trading
  <2>5. ASSUME NEW u \in Threads, Pass(u), u # t PROVE pc'[t] = pc[t] /\ at'[t] = at[t]
    BY <2>5, PassMoves DEF Moved
  <2>6. Parked => pc'[t] \notin Trading \cup {"check"}
    BY DEF Parked, Trading
  <2>7. QED BY <2>1, <2>2, <2>3, <2>4, <2>5, <2>6, OthersMove
<1>13. QED BY <1>6, <1>7, <1>8, <1>9, <1>10, <1>11, <1>12 DEF DayInv

-----------------------------------------------------------------------------
(* The pace of the first entry: unless the process died, the date a stage   *)
(* was filled on belongs to that stage, except while the next one is being  *)
(* dated.                                                                   *)

PaceInv ==
  crashes = 0 /\ stage >= 1 =>
    /\ pc["chat"] # "date" => filledOn = 0 \/ filledOn >= startedOn
    /\ pc["chat"] = "stage" => day - startedOn >= Gap

LEMMA PaceStep == ASSUME Typed, DayInv, PaceInv, AllocNext PROVE PaceInv'
<1>1. /\ pc \in [Threads -> Labels] /\ pc["scheduler"] \notin ChatLabels /\ AllocTypeOK
      /\ "chat" \in Threads
  BY Zenon DEF Typed, PlaceInv, Threads
<1>2. Touches
  BY Touched
<1>3. /\ day \in Nat /\ startedOn \in Nat /\ filledOn \in Nat /\ stage \in Nat
      /\ startedOn <= day /\ Gap \in Nat /\ crashes \in Nat
  BY <1>1, Amounts, BoundsAssumption DEF DayInv, AllocTypeOK
<1> SUFFICES ASSUME crashes' = 0, stage' >= 1
             PROVE  /\ pc'["chat"] # "date" => filledOn' = 0 \/ filledOn' >= startedOn'
                    /\ pc'["chat"] = "stage" => day' - startedOn' >= Gap
  BY DEF PaceInv
<1>4. crashes = 0 /\ ~AllocCrash
  BY <1>2, <1>3 DEF Touches, AllocCrash
<1>5. CASE OpenStage
  BY <1>1, <1>5 DEF OpenStage, Goto
<1>6. CASE DateStage
  BY <1>1, <1>6 DEF DateStage, Goto
<1>7. CASE PressAdvance
  BY <1>1, <1>3, <1>4, <1>7 DEF PressAdvance, NextStageReady, Goto, PaceInv, stageVars, clockVars
<1>8. CASE PressStart \/ Activate
  <2>1. stage = 0 /\ stage' = stage
    BY <1>8 DEF PressStart, Activate, Typed, LadderInv, Unstarted, stageVars
  <2>2. QED BY <2>1, <1>3
<1>9. CASE ~Onboarding
  <2>1. stage' = stage /\ startedOn' = startedOn
    BY <1>2, <1>9 DEF Touches, Onboarding
  <2>2. filledOn' \in {0, day, filledOn}
    BY <1>2, <1>9 DEF Touches, Onboarding, Progress, FilledNow
  <2>3. /\ pc["chat"] = "date" => pc'["chat"] = "date"
        /\ pc'["chat"] = "stage" => pc["chat"] = "stage"
    <3>1. ASSUME NEW t \in Threads, Pass(t)
          PROVE  /\ pc["chat"] = "date" => pc'["chat"] = "date"
                 /\ pc'["chat"] = "stage" => pc["chat"] = "stage"
      BY <1>1, <3>1, PassMoves DEF Moved, ChatLabels
    <3>2. QED BY <1>4, <1>9, <3>1, OthersMove
  <2>4. pc["chat"] = "stage" => day' = day
    BY <1>1, <1>2, IdleAtDayEnd DEF Touches
  <2>5. QED BY <1>3, <1>4, <2>1, <2>2, <2>3, <2>4 DEF PaceInv
<1>10. QED BY <1>5, <1>6, <1>7, <1>8, <1>9 DEF Onboarding

(* What OpenStage finds: the part of FirstEntryStaged about the pace.      *)
LEMMA StageIsApart ==
  ASSUME Typed, PaceInv, AllocNext
  PROVE  stage' > stage /\ stage >= 1 /\ crashes = 0 => day - startedOn >= Gap
<1>1. stage \in Nat
  BY Amounts DEF Typed
<1>2. Touches
  BY Touched
<1>3. QED BY <1>1, <1>2 DEF Touches, OpenStage, PaceInv

-----------------------------------------------------------------------------
(* The rows of a generation while no two passes met on them.               *)

Renewing == {"supersede", "cancel", "write", "reset"}
Settled == {"key", "sell", "sold", "buy", "signal"}
NoneActive == \A s \in Symbols : signal[s].st # "ACTIVE"
NoBuys == \A s \in Symbols : buy[s] = 0

(* A pass that replaces the generation: until its first row is written the *)
(* day is not marked and some weight differs; meanwhile no other pass trades *)
(* and no BUY signal is left.                                              *)
Renews(t) ==
  /\ pc[t] = "write" => \A s \in Symbols : s < at[t] => /\ gen[s] = day
                                                        /\ weight[s] = strategy[day][s]
  /\ pc[t] = "reset" => \A s \in Symbols : gen[s] = day
  /\ pc[t] \in {"reset", "mark"} => \A s \in Symbols : weight[s] = strategy[day][s]
  /\ pc[t] \in {"supersede", "cancel"} \/ (pc[t] = "write" /\ at[t] = 1)
       => marker # day /\ \E s \in Symbols : weight[s] # strategy[day][s]
  /\ pc[t] \in Renewing => frozen # day /\ \A u \in Threads : pc[u] \notin Settled
  /\ pc[t] \in {"cancel", "write", "reset"} => NoneActive
  /\ pc[t] \in {"write", "reset"} => NoBuys

RenewInv == ~raced => \A t \in Threads : Renews(t)

(* Whom a step that leaves the rows unraced did not meet.                  *)
LEMMA Unraced ==
  ASSUME AllocNext, ~raced'
  PROVE  /\ ~raced
         /\ \A t \in Threads : WriteTarget(t) \/ FreezeTarget(t) \/ ResetKey(t)
                                 => \A u \in Threads \ {t} : pc[u] \in Pressing
         /\ \A b \in Budgets : Retarget(b) => pc["scheduler"] \notin Trading
         /\ Activate => pc["scheduler"] # "signal"
         /\ \A t \in Threads : OpenSignal(t) => pc["chat"] # "start"
         /\ \A s \in Symbols : BuyPlaced(s) =>
              \A t \in Threads : ~(pc[t] = "signal" /\ at[t] = s)
<1>1. \A t \in Threads : WriteTarget(t) \/ FreezeTarget(t) \/ ResetKey(t) => ~RacedBy(t)
  BY DEF WriteTarget, FreezeTarget, ResetKey
<1>2. /\ \A b \in Budgets : Retarget(b) => pc["scheduler"] \notin Trading
      /\ Activate => pc["scheduler"] # "signal"
      /\ \A t \in Threads : OpenSignal(t) => pc["chat"] # "start"
      /\ \A s \in Symbols : BuyPlaced(s) =>
              \A t \in Threads : ~(pc[t] = "signal" /\ at[t] = s)
  BY DEF Retarget, Activate, OpenSignal, BuyPlaced
<1>3. ~raced
  BY DEF AllocNext, Pass, Onboarding, Orders, AllocEnv, Run, Evaluate, GiveUp, Supersede,
     CancelOrder, CancelUnconfirmed, Cancelled, WriteTarget, ResetKey, Mark, Check, FreezeTarget,
     SetKey, SellBarrier, NoSurplus, SellNew, SellAgain, Sold, ReadMissing, OpenSignal, Progress,
     PressStart, Activate, OpenStage, DateStage, PressAdvance, BuyPlaced, BuyFills, BuyEnds,
     SellFills, SellEnds, AllocResume, Retarget, AllocCrash, SessionOpens, DayEnds, RacedBy
<1>4. QED BY <1>1, <1>2, <1>3 DEF RacedBy

LEMMA OneGenerationLeft ==
  ASSUME AllocTypeOK, Cardinality(Generations) = 1
  PROVE  \E g \in Generations : Generations = {g} /\ g \in Nat \ {0}
                                /\ \A s \in Symbols : gen[s] \in {0, g}
<1>1. \A s \in Symbols : gen[s] \in Nat
  BY Amounts
<1>2. IsFiniteSet(Generations)
  <2>1. Generations \subseteq 0..MaxDay
    BY DEF Generations, AllocTypeOK
  <2>2. IsFiniteSet(0..MaxDay)
    BY FS_Interval, BoundsAssumption
  <2>3. QED BY <2>1, <2>2, FS_Subset
<1>3. PICK g : Generations = {g}
  BY <1>2, FS_Singleton
<1>4. QED BY <1>1, <1>3 DEF Generations

LEMMA SettledTrades ==
  ASSUME DayInv, NEW t \in Threads, pc[t] \in Settled \cup {"freeze"} PROVE marker = day
BY DEF DayInv, Settled, Trading

LEMMA Bases ==
  ASSUME Typed
  PROVE  /\ pc \in [Threads -> Labels] /\ at \in [Threads -> Symbols] /\ AllocTypeOK
         /\ Symbols \subseteq Nat /\ day \in Nat \ {0} /\ frozen \in Nat
         /\ gen \in [Symbols -> 0..MaxDay] /\ weight \in [Symbols -> Nat]
         /\ tqty \in [Symbols -> Nat] /\ SymbolCount \in Nat \ {0}
         /\ \A s \in Symbols : gen[s] \in Nat /\ s \in Nat /\ s <= SymbolCount /\ ~(s < 1)
         /\ \A t \in Threads : at[t] \in Symbols /\ at[t] \in Nat
<1>1. /\ pc \in [Threads -> Labels] /\ at \in [Threads -> Symbols] /\ AllocTypeOK
      /\ gen \in [Symbols -> 0..MaxDay] /\ weight \in [Symbols -> Nat]
      /\ tqty \in [Symbols -> Nat]
  BY Zenon DEF Typed, AllocTypeOK, PlaceInv
<1>2. /\ Symbols \subseteq Nat /\ day \in Nat \ {0} /\ frozen \in Nat
      /\ \A s \in Symbols : gen[s] \in Nat
  BY <1>1, Amounts, Zenon
<1>3. SymbolCount \in Nat \ {0} /\ \A s \in Symbols : s \in Nat /\ s <= SymbolCount /\ ~(s < 1)
  BY SymbolsAssumption DEF Symbols
<1>4. \A t \in Threads : at[t] \in Symbols /\ at[t] \in Nat
  BY <1>1, <1>2
<1>5. QED BY <1>1, <1>2, <1>3, <1>4

LEMMA RenewStays ==
  ASSUME Typed, DayInv, RenewInv, AllocNext, ~raced', NEW t \in Threads,
         pc'[t] = pc[t], at'[t] = at[t]
  PROVE  Renews(t)'
<1>1. /\ pc \in [Threads -> Labels] /\ at \in [Threads -> Symbols] /\ AllocTypeOK
      /\ Symbols \subseteq Nat /\ day \in Nat \ {0} /\ frozen \in Nat
      /\ \A s \in Symbols : gen[s] \in Nat
  BY Amounts, Zenon DEF Typed, AllocTypeOK, PlaceInv
<1>2. Touches
  BY Touched
<1>3. ~raced /\ \A u \in Threads : Renews(u)
  BY Unraced DEF RenewInv
<1> HIDE DEF Threads, Symbols
<1>4. CASE pc[t] \notin Renewing \cup {"mark"}
  BY <1>4 DEF Renews, Renewing
<1>5. CASE pc[t] \in Renewing \cup {"mark"}
  <2>1. pc[t] # "idle" /\ pc[t] \notin Pressing /\ ~DayEnds
    BY <1>5, IdleAtDayEnd DEF Renewing, Pressing
  <2>2. day' = day /\ strategy' = strategy
    BY <1>2, <2>1 DEF Touches
  <2>3. \A u \in Threads : ~WriteTarget(u) /\ ~FreezeTarget(u)
    <3>1. ASSUME NEW u \in Threads, WriteTarget(u) \/ FreezeTarget(u) PROVE u = t
      BY <3>1, <2>1, Unraced
    <3>2. ~FreezeTarget(t)
      BY <1>5 DEF FreezeTarget, Renewing
    <3>3. ASSUME WriteTarget(t) PROVE FALSE
      <4>1. pc[t] = "write" /\ Next1(t, "reset") /\ "reset" \in Labels
        BY <3>3 DEF WriteTarget, Labels
      <4>2. at[t] \in Nat
        BY <1>1
      <4>3. QED BY <4>1, <4>2, WalkTypes
    <3>4. QED BY <3>1, <3>2, <3>3
  <2>4. gen' = gen /\ weight' = weight
    BY <1>2, <2>3 DEF Touches
  <2>5. ASSUME pc[t] \in {"supersede", "cancel"} \/ (pc[t] = "write" /\ at[t] = 1)
        PROVE  marker' # day /\ \E s \in Symbols : weight[s] # strategy[day][s]
    <3>1. marker # day /\ \E s \in Symbols : weight[s] # strategy[day][s]
      BY <1>3, <2>5 DEF Renews
    <3>2. \A u \in Threads : ~Mark(u)
      BY <1>3, <3>1 DEF Renews, Mark
    <3>3. QED BY <1>2, <3>1, <3>2 DEF Touches
  <2>6. ASSUME pc[t] \in Renewing
        PROVE  frozen' # day /\ \A u \in Threads : pc'[u] \notin Settled
    <3>1. frozen # day /\ \A u \in Threads : pc[u] \notin Settled
      BY <1>3, <2>6 DEF Renews
    <3>2. frozen' \in {frozen, 0}
      BY <1>2, <3>1 DEF Touches, ResetKey, SetKey, Retarget, Settled
    <3>3. ASSUME NEW u \in Threads, Pass(u), pc'[u] \in Settled PROVE FALSE
      <4>1. Check(u) /\ pc'[u] = "sell"
        BY <3>1, <3>3, <2>3, Arrived DEF Arrivals, Settled, SetKey, NoSurplus, SellNew, SellAgain,
                                         Sold, ReadMissing, OpenSignal
      <4>2. Cardinality(Generations) = 1 /\ frozen \in Generations /\ pc[u] = "check"
        BY <1>1, <4>1 DEF Check, Goto
      <4>3. marker = day
        BY <4>2 DEF DayInv
      <4>4. pc[t] = "reset" \/ (pc[t] = "write" /\ at[t] # 1)
        BY <1>3, <2>6, <4>3 DEF Renews, Renewing
      <4>5. \E s \in Symbols : gen[s] = day
        <5>1. 1 \in Symbols /\ \A i \in Symbols : i # 1 => 1 < i
          BY SymbolsAssumption DEF Symbols
        <5>2. QED BY <1>1, <1>3, <4>4, <5>1 DEF Renews
      <4>6. day \in Generations
        BY <1>1, <4>5 DEF Generations
      <4>7. QED BY <1>1, <3>1, <4>2, <4>6, OneGenerationLeft
    <3>4. \A u \in Threads : pc'[u] \in Settled => \/ pc'[u] = pc[u]
                                                   \/ Pass(u)
      <4>1. ASSUME NEW v \in Threads, Pass(v), NEW u \in Threads
            PROVE  pc'[u] = pc[u] \/ u = v
        BY <4>1, PassMoves DEF Moved
      <4>2. Parked => \A u \in Threads : pc'[u] \notin Settled
        BY DEF Parked, Settled
      <4>3. Onboarding => \A u \in Threads : pc'[u] \in Settled => pc'[u] = pc[u]
        BY PressMoves DEF Threads, ChatLabels, Settled
      <4>4. QED BY <4>1, <4>2, <4>3, OthersMove
    <3>5. QED BY <1>1, <3>1, <3>2, <3>3, <3>4
  <2>7. ASSUME pc[t] \in {"cancel", "write", "reset"} PROVE NoneActive'
    <3>1. NoneActive /\ \A u \in Threads : pc[u] \notin Settled
      BY <1>3, <2>7 DEF Renews, Renewing
    <3>2. \A u \in Threads : ~OpenSignal(u)
      BY <3>1 DEF OpenSignal, Settled
    <3>3. \A s \in Symbols : ~BuyPlaced(s)
      BY <3>1 DEF BuyPlaced, NoneActive
    <3>4. \A s \in Symbols : ~BuyEnds(s)
      <4>1. live => pc["chat"] = "idle"
        BY DEF Typed, LadderInv
      <4>2. QED BY <2>1, <4>1 DEF BuyEnds, Threads
    <3>5. \/ signal' = signal \/ signal' = Invalidated
          \/ signal' = [s \in Symbols |-> IF signal[s].st = "ACTIVE"
                          THEN [signal[s] EXCEPT !.st = "EXPIRED"] ELSE signal[s]]
      BY <1>2, <3>2, <3>3, <3>4
         DEF Touches, Supersede, PressStart, PressAdvance, DayEnds, Retarget
    <3>6. QED BY <3>1, <3>5 DEF NoneActive, Invalidated
  <2>8. ASSUME pc[t] \in {"write", "reset"} PROVE NoBuys'
    <3>1. NoneActive /\ NoBuys
      BY <1>3, <2>8 DEF Renews
    <3>2. \A s \in Symbols : ~BuyPlaced(s) /\ ~BuyFills(s) /\ ~BuyEnds(s)
      BY <3>1 DEF NoneActive, NoBuys, BuyPlaced, BuyFills, BuyEnds
    <3>3. ASSUME NEW u \in Threads, NEW s \in Symbols, CancelOrder(u, s) PROVE buy' = buy
      BY <3>1, <3>3 DEF CancelOrder, NoBuys
    <3>4. QED BY <1>2, <3>1, <3>2, <3>3 DEF Touches, NoBuys
  <2>9. QED
    <3>1. /\ pc'[t] = "write" => \A s \in Symbols : s < at'[t] => /\ gen'[s] = day'
                                                        /\ weight'[s] = strategy'[day'][s]
          /\ pc'[t] = "reset" => \A s \in Symbols : gen'[s] = day'
          /\ pc'[t] \in {"reset", "mark"} => \A s \in Symbols : weight'[s] = strategy'[day'][s]
      BY <1>3, <2>2, <2>4 DEF Renews
    <3>2. pc'[t] \in {"supersede", "cancel"} \/ (pc'[t] = "write" /\ at'[t] = 1)
            => marker' # day' /\ \E s \in Symbols : weight'[s] # strategy'[day'][s]
      BY <2>2, <2>4, <2>5
    <3>3. QED BY <2>2, <2>6, <2>7, <2>8, <3>1, <3>2 DEF Renews
<1>6. QED BY <1>4, <1>5

LEMMA RenewMoves ==
  ASSUME Typed, DayInv, RenewInv, AllocNext, ~raced', NEW t \in Threads, Pass(t)
  PROVE  Renews(t)'
<1>1. /\ pc \in [Threads -> Labels] /\ at \in [Threads -> Symbols] /\ AllocTypeOK
      /\ Symbols \subseteq Nat /\ day \in Nat \ {0} /\ frozen \in Nat
      /\ gen \in [Symbols -> 0..MaxDay] /\ weight \in [Symbols -> Nat]
      /\ SymbolCount \in Nat \ {0} /\ at[t] \in Nat
      /\ \A s \in Symbols : gen[s] \in Nat /\ s \in Nat /\ s <= SymbolCount /\ ~(s < 1)
  BY Bases
<1>2. Arrivals(t) /\ Moved(t)
  BY Arrived, PassMoves
<1>3. ~raced /\ Renews(t)
  BY Unraced DEF RenewInv
<1>4. day' = day /\ strategy' = strategy
  BY <1>2 DEF Moved, clockVars
<1> HIDE DEF Threads, Symbols
<1>5. ASSUME pc'[t] = pc[t], at'[t] = at[t] PROVE Renews(t)'
  BY <1>5, RenewStays
<1>6. CASE Evaluate(t)
  <2>1. UNCHANGED <<gen, weight, marker, frozen>>
    BY <1>6 DEF Evaluate, ledgerVars
  <2>2. /\ pc'[t] = "supersede" => marker # day /\ \E s \in Symbols : weight[s] # strategy[day][s]
        /\ pc'[t] = "mark" => \A s \in Symbols : weight[s] = strategy[day][s]
        /\ pc'[t] \in {"supersede", "mark", "check"}
    <3>1. CASE marker = day
      BY <1>1, <1>6, <3>1 DEF Evaluate, Goto
    <3>2. CASE marker # day /\ \E s \in Symbols : weight[s] # strategy[day][s]
      BY <1>1, <1>6, <3>2 DEF Evaluate, Goto
    <3>3. CASE marker # day /\ ~\E s \in Symbols : weight[s] # strategy[day][s]
      BY <1>1, <1>6, <3>3 DEF Evaluate, Goto
    <3>4. QED BY <3>1, <3>2, <3>3
  <2>3. pc'[t] = "supersede" => frozen # day /\ \A u \in Threads : pc'[u] \notin Settled
    <3>1. marker # day => frozen # day /\ \A u \in Threads : pc[u] \notin Settled
      BY SettledTrades DEF DayInv
    <3>2. QED BY <1>2, <2>2, <3>1 DEF Moved, Settled
  <2>4. QED BY <1>4, <2>1, <2>2, <2>3 DEF Renews, Renewing
<1>7. CASE Supersede(t)
  <2>1. pc[t] = "supersede" /\ pc'[t] = "cancel" /\ UNCHANGED <<gen, weight, marker, frozen>>
    BY <1>1, <1>7 DEF Supersede, Goto
  <2>2. NoneActive'
    <3>1. signal' = Invalidated
      BY <1>7 DEF Supersede
    <3>2. QED BY <3>1 DEF NoneActive, Invalidated
  <2>3. \A u \in Threads : pc'[u] \notin Settled
    BY <1>2, <1>3, <2>1 DEF Moved, Renews, Renewing, Settled
  <2>4. QED BY <1>3, <1>4, <2>1, <2>2, <2>3 DEF Renews, Renewing
<1>8. CASE Cancelled(t)
  <2>1. pc[t] = "cancel" /\ pc'[t] = "write" /\ at'[t] = 1 /\ at[t] = 1
        /\ UNCHANGED <<gen, weight, marker, frozen, signal, buy>>
    BY <1>1, <1>8 DEF Cancelled, Goto, ledgerVars, Typed, PlaceInv
  <2>2. NoneActive' /\ NoBuys'
    <3>1. NoneActive
      BY <1>3, <2>1 DEF Renews
    <3>2. NoBuys
      <4>1. \A s \in Symbols : ~(buy[s] > 0)
        BY <1>8 DEF Cancelled, OpenOrders
      <4>2. \A s \in Symbols : buy[s] \in Nat
        BY <1>1, Amounts
      <4>3. QED BY <4>1, <4>2 DEF NoBuys
    <3>3. QED BY <2>1, <3>1, <3>2 DEF NoneActive, NoBuys
  <2>3. \A u \in Threads : pc'[u] \notin Settled
    BY <1>2, <1>3, <2>1 DEF Moved, Renews, Renewing, Settled
  <2>4. \A s \in Symbols : ~(s < at'[t])
    BY <1>1, <2>1
  <2>5. QED BY <1>3, <1>4, <2>1, <2>2, <2>3, <2>4 DEF Renews, Renewing
<1>9. CASE WriteTarget(t)
  <2>1. /\ pc[t] = "write" /\ UNCHANGED <<marker, frozen, signal, buy>> /\ at[t] \in Symbols
        /\ \A s \in Symbols : s # at[t] => gen'[s] = gen[s] /\ weight'[s] = weight[s]
        /\ gen'[at[t]] = day /\ weight'[at[t]] = strategy[day][at[t]]
    BY <1>1, <1>9 DEF WriteTarget
  <2>2. \/ at[t] < SymbolCount /\ at'[t] = at[t] + 1 /\ pc'[t] = "write"
        \/ at[t] = SymbolCount /\ at'[t] = 1 /\ pc'[t] = "reset"
    <3>1. Next1(t, "reset") /\ "reset" \in Labels
      BY <1>9 DEF WriteTarget, Labels
    <3>2. QED BY <2>1, <3>1, WalkTypes
  <2>3. NoneActive' /\ NoBuys'
    BY <1>3, <2>1 DEF Renews, NoneActive, NoBuys
  <2>4. \A u \in Threads : pc'[u] \notin Settled
    BY <1>2, <1>3, <2>1, <2>2 DEF Moved, Renews, Renewing, Settled
  <2>5. \A s \in Symbols : s <= at[t] => gen'[s] = day /\ weight'[s] = strategy[day][s]
    <3>1. \A s \in Symbols : s <= at[t] => s < at[t] \/ s = at[t]
      BY <1>1
    <3>2. QED BY <1>3, <2>1, <3>1 DEF Renews
  <2>6. pc'[t] = "write" => /\ at'[t] # 1
                            /\ \A s \in Symbols : s < at'[t] => s <= at[t]
    <3>1. ASSUME pc'[t] = "write" PROVE at'[t] = at[t] + 1
      BY <2>2, <3>1
    <3>2. at[t] >= 1
      BY <1>1, <2>1
    <3>3. QED BY <1>1, <3>1, <3>2
  <2>7. pc'[t] = "reset" => \A s \in Symbols : s <= at[t]
    BY <1>1, <2>2
  <2>8. QED BY <1>3, <1>4, <2>1, <2>2, <2>3, <2>4, <2>5, <2>6, <2>7 DEF Renews, Renewing
<1>10. CASE ResetKey(t)
  <2>1. pc[t] = "reset" /\ pc'[t] = "mark" /\ UNCHANGED weight
    BY <1>1, <1>10 DEF ResetKey, Goto, ledgerVars
  <2>2. QED BY <1>3, <1>4, <2>1 DEF Renews, Renewing
<1>11. ASSUME NEW s \in Symbols, CancelOrder(t, s) PROVE Renews(t)'
  BY <1>5, <1>11 DEF CancelOrder
<1>12. CASE pc'[t] \notin Renewing \cup {"mark"}
  BY <1>12 DEF Renews, Renewing
<1>13. QED BY <1>2, <1>6, <1>7, <1>8, <1>9, <1>10, <1>11, <1>12 DEF Arrivals, Renewing

LEMMA RenewStep == ASSUME Typed, DayInv, RenewInv, AllocNext PROVE RenewInv'
<1> SUFFICES ASSUME ~raced', NEW t \in Threads PROVE Renews(t)'
  BY DEF RenewInv
<1>1. CASE Pass(t)
  BY <1>1, RenewMoves
<1>2. CASE pc'[t] = pc[t] /\ at'[t] = at[t]
  BY <1>2, RenewStays
<1>3. CASE pc'[t] \notin Renewing \cup {"mark"}
  BY <1>3 DEF Renews, Renewing
<1>4. ASSUME NEW u \in Threads, Pass(u), u # t PROVE pc'[t] = pc[t] /\ at'[t] = at[t]
  BY <1>4, PassMoves DEF Moved
<1>5. Parked => pc'[t] \notin Renewing \cup {"mark"}
  BY DEF Parked, Renewing
<1>6. Onboarding => pc'[t] \notin Renewing \cup {"mark"} \/ (pc'[t] = pc[t] /\ at'[t] = at[t])
  BY PressMoves DEF Threads, ChatLabels, Renewing
<1>7. QED BY <1>1, <1>2, <1>3, <1>4, <1>5, <1>6, OthersMove

(* Between two writes of a generation, all rows belong to one, unless the  *)
(* process died or two passes met.                                         *)
GenInv ==
  ~raced /\ crashes = 0 /\ (\A t \in Threads : pc[t] = "write" => at[t] = 1)
    => \A r, s \in Symbols : gen[r] = gen[s]

LEMMA WriteStays ==
  ASSUME Typed, AllocNext, ~AllocCrash, NEW t \in Threads, pc[t] = "write", ~WriteTarget(t)
  PROVE  pc'[t] = "write" /\ at'[t] = at[t]
<1>1. ASSUME Pass(t) PROVE FALSE
  BY <1>1 DEF Pass, Run, Evaluate, GiveUp, Supersede, CancelOrder, CancelUnconfirmed,
     Cancelled, WriteTarget, ResetKey, Mark, Check, FreezeTarget, SetKey, SellBarrier,
     NoSurplus, SellNew, SellAgain, Sold, ReadMissing, OpenSignal, Progress
<1>2. ASSUME NEW u \in Threads, Pass(u) PROVE pc'[t] = pc[t] /\ at'[t] = at[t]
  BY <1>1, <1>2, PassMoves DEF Moved
<1>3. Onboarding => pc'[t] = pc[t] /\ at'[t] = at[t]
  BY PressMoves DEF Threads, ChatLabels
<1>4. QED BY <1>2, <1>3, OthersMove

LEMMA GenStep == ASSUME Typed, RenewInv, GenInv, AllocNext PROVE GenInv'
<1> SUFFICES ASSUME ~raced', crashes' = 0, \A t \in Threads : pc'[t] = "write" => at'[t] = 1
             PROVE  \A r, s \in Symbols : gen'[r] = gen'[s]
  BY DEF GenInv
<1>1. /\ at \in [Threads -> Symbols] /\ gen \in [Symbols -> 0..MaxDay]
      /\ SymbolCount \in Nat \ {0} /\ \A t \in Threads : at[t] \in Symbols /\ at[t] \in Nat
      /\ \A s \in Symbols : s \in Nat /\ s <= SymbolCount /\ ~(s < 1)
      /\ pc \in [Threads -> Labels] /\ crashes \in Nat
  BY Bases, BoundsAssumption DEF AllocTypeOK
<1>2. Touches
  BY Touched
<1>3. ~raced /\ crashes = 0 /\ ~AllocCrash /\ \A t \in Threads : Renews(t)
  BY <1>1, <1>2, Unraced DEF RenewInv, Touches, AllocCrash
<1> HIDE DEF Threads, Symbols
<1>4. ASSUME NEW t \in Threads, WriteTarget(t) PROVE \A s \in Symbols : gen'[s] = day
  <2>1. pc[t] = "write" /\ gen' = [gen EXCEPT ![at[t]] = day]
    BY <1>4 DEF WriteTarget
  <2>2. Next1(t, "reset") /\ "reset" \in Labels
    BY <1>4 DEF WriteTarget, Labels
  <2>3. ~(pc'[t] = pc[t] /\ at'[t] = at[t] + 1)
    BY <1>1, <2>1
  <2>4. at[t] = SymbolCount
    BY <2>2, <2>3, WalkTypes
  <2>5. \A s \in Symbols : s < at[t] \/ s = at[t]
    BY <1>1, <2>4
  <2>6. QED BY <1>1, <1>3, <2>1, <2>5 DEF Renews
<1>5. ASSUME \A t \in Threads : ~WriteTarget(t) PROVE \A r, s \in Symbols : gen[r] = gen[s]
  BY <1>3, <1>5, WriteStays DEF GenInv
<1>6. ASSUME NEW t \in Threads, FreezeTarget(t), \A r, s \in Symbols : gen[r] = gen[s]
      PROVE  gen' = gen
  BY <1>1, <1>6 DEF FreezeTarget, Generations
<1>7. QED BY <1>2, <1>4, <1>5, <1>6 DEF Touches

(* What OneGeneration needs of it.                                         *)
LEMMA OneGenerationFollows == ASSUME Typed, GenInv PROVE OneGeneration
<1> SUFFICES ASSUME \A t \in Threads : pc[t] = "idle", crashes = 0, ~raced
             PROVE  Cardinality(Generations) <= 1
  BY DEF OneGeneration
<1>1. \A r, s \in Symbols : gen[r] = gen[s]
  BY DEF GenInv
<1>2. 1 \in Symbols
  BY SymbolsAssumption DEF Symbols
<1>3. Generations \subseteq {gen[1]}
  BY <1>1, <1>2 DEF Generations
<1>4. Generations = {} \/ Generations = {gen[1]}
  BY <1>3
<1>5. Cardinality({}) = 0 /\ Cardinality({gen[1]}) = 1
  BY FS_EmptySet, FS_Singleton, Zenon
<1>6. Cardinality(Generations) = 0 \/ Cardinality(Generations) = 1
  BY <1>4, <1>5
<1>7. QED BY <1>6

-----------------------------------------------------------------------------
(* The quantities of a generation: from the moment its key is set they are *)
(* what its weights buy out of the budget.                                 *)

Selling == {"sell", "sold", "buy", "signal"}
Keyed == frozen # 0 /\ \A s \in Symbols : gen[s] = frozen
OneLeft == \E r \in Symbols : gen[r] # 0 /\ \A s \in Symbols : gen[s] \in {0, gen[r]}
Wishes == \E s \in Symbols : signal[s].st = "ACTIVE" \/ buy[s] > 0

Freezes(t) ==
  /\ pc[t] = "freeze" => \A s \in Symbols :
       sized[t][s] = Full(s, budget) /\ (s < at[t] => tqty[s] = Full(s, budget))
  /\ pc[t] \in Settled => \A s \in Symbols : tqty[s] = Full(s, budget)
  /\ pc[t] \in {"freeze", "key"} => OneLeft
  /\ pc[t] \in Selling => Keyed

FreezeInv ==
  ~raced =>
    /\ \A t \in Threads : Freezes(t)
    /\ \A s \in Symbols : frozen # 0 /\ gen[s] = frozen => tqty[s] = Full(s, budget)
    /\ Wishes => Keyed

LEMMA KeyedAfter ==
  ASSUME Typed, DayInv, FreezeInv, ~raced, NEW t \in Threads, SetKey(t) PROVE Keyed'
<1>1. pc[t] = "key" /\ gen' = gen /\ \E g \in Generations : frozen' = g
  BY DEF SetKey, ledgerVars
<1>2. OneLeft /\ \A s \in Symbols : gen[s] # 0
  BY <1>1 DEF FreezeInv, Freezes, DayInv
<1>3. QED BY <1>1, <1>2 DEF OneLeft, Generations, Keyed

(* While some pass settles or trades, its rows stand still.                *)
LEMMA RowsStand ==
  ASSUME Typed, AllocNext, ~raced', NEW t \in Threads, pc[t] \in Trading, ~FreezeTarget(t)
  PROVE  /\ UNCHANGED <<gen, weight, tqty, budget>>
         /\ \A s \in Symbols : Full(s, budget)' = Full(s, budget)
         /\ frozen' = frozen \/ \E u \in Threads : SetKey(u)
<1>1. Touches
  BY Touched
<1>2. pc[t] \notin Pressing /\ pc[t] # "write" /\ pc[t] # "reset"
  BY DEF Pressing, Trading
<1>3. \A u \in Threads : ~WriteTarget(u) /\ ~FreezeTarget(u) /\ ~ResetKey(u)
  <2> SUFFICES ASSUME NEW u \in Threads, WriteTarget(u) \/ FreezeTarget(u) \/ ResetKey(u)
               PROVE  FALSE
    OBVIOUS
  <2>1. u = t
    BY <1>2, Unraced
  <2>2. QED BY <1>2, <2>1 DEF WriteTarget, ResetKey
<1>4. \A b \in Budgets : ~Retarget(b)
  <2> SUFFICES ASSUME NEW b \in Budgets, Retarget(b) PROVE FALSE
    OBVIOUS
  <2>1. pc["chat"] = "idle"
    BY DEF Retarget
  <2>2. t = "scheduler"
    BY <2>1 DEF Threads, Trading
  <2>3. QED BY <2>2, Unraced
<1>5. UNCHANGED <<gen, weight, tqty, budget>>
  BY <1>1, <1>3, <1>4 DEF Touches
<1>6. QED BY <1>1, <1>3, <1>4, <1>5 DEF Touches, Full

LEMMA FreezeStays ==
  ASSUME Typed, DayInv, RenewInv, FreezeInv, AllocNext, ~raced', NEW t \in Threads,
         pc'[t] = pc[t], at'[t] = at[t], sized'[t] = sized[t]
  PROVE  Freezes(t)'
<1>1. ~raced /\ Freezes(t) /\ at[t] \in Nat
  BY Unraced, Bases DEF FreezeInv
<1>2. CASE pc[t] \notin Trading
  BY <1>2 DEF Freezes, Trading, Settled, Selling
<1>3. CASE pc[t] \in Trading
  <2>1. ~FreezeTarget(t)
    <3>1. FreezeTarget(t) => Next1(t, "key") /\ "key" \in Labels /\ pc[t] = "freeze"
      BY DEF FreezeTarget, Labels
    <3>2. QED BY <1>1, <3>1, WalkTypes
  <2>2. /\ UNCHANGED <<gen, weight, tqty, budget>>
        /\ \A s \in Symbols : Full(s, budget)' = Full(s, budget)
        /\ frozen' = frozen \/ \E u \in Threads : SetKey(u)
    BY <1>3, <2>1, RowsStand
  <2>3. Keyed => Keyed'
    BY <1>1, <2>2, KeyedAfter DEF Keyed
  <2>4. QED BY <1>1, <2>2, <2>3 DEF Freezes, OneLeft
<1>4. QED BY <1>2, <1>3

LEMMA FreezeMoves ==
  ASSUME Typed, DayInv, RenewInv, FreezeInv, AllocNext, ~raced', NEW t \in Threads, Pass(t)
  PROVE  Freezes(t)'
<1>1. /\ pc \in [Threads -> Labels] /\ at \in [Threads -> Symbols] /\ AllocTypeOK
      /\ gen \in [Symbols -> 0..MaxDay] /\ tqty \in [Symbols -> Nat] /\ SymbolCount \in Nat \ {0}
      /\ \A s \in Symbols : gen[s] \in Nat /\ s \in Nat /\ s <= SymbolCount /\ ~(s < 1)
      /\ at[t] \in Symbols /\ at[t] \in Nat
  BY Bases
<1>2. Arrivals(t) /\ budget' = budget
  BY Arrived, PassMoves DEF Moved, clockVars
<1>3. /\ ~raced /\ Freezes(t)
      /\ \A s \in Symbols : frozen # 0 /\ gen[s] = frozen => tqty[s] = Full(s, budget)
  BY Unraced DEF FreezeInv
<1> HIDE DEF Threads, Symbols
<1>4. CASE pc'[t] \notin Trading
  BY <1>4 DEF Freezes, Trading, Settled, Selling
<1>5. CASE Check(t)
  <2>1. /\ pc[t] = "check" /\ at[t] = 1 /\ at'[t] = at[t]
        /\ UNCHANGED <<gen, weight, tqty, frozen>>
    BY <1>5 DEF Check, ledgerVars, Typed, PlaceInv
  <2>2. pc'[t] \in {"progress", "sell", "freeze"}
    BY <1>1, <1>5 DEF Check, Goto
  <2>3. \A s \in Symbols : Full(s, budget)' = Full(s, budget)
    BY <1>2, <2>1 DEF Full
  <2>4. pc'[t] # "progress" => Cardinality(Generations) = 1
    BY <1>1, <1>5 DEF Check, Goto
  <2>5. pc'[t] # "progress" =>
          \E g \in Generations : Generations = {g} /\ g \in Nat \ {0}
                                 /\ \A s \in Symbols : gen[s] \in {0, g}
    BY <1>1, <2>4, OneGenerationLeft
  <2>6. CASE pc'[t] = "freeze"
    <3>1. sized'[t] = [s \in Symbols |-> Full(s, budget)]
      <4>1. sized \in [Threads -> [Symbols -> Nat]]
        BY <1>1 DEF AllocTypeOK
      <4>2. QED BY <1>1, <1>5, <2>6, <4>1 DEF Check, Goto
    <3>2. OneLeft
      BY <2>5, <2>6 DEF OneLeft, Generations
    <3>3. \A s \in Symbols : ~(s < at'[t])
      BY <1>1, <2>1
    <3>4. QED BY <1>2, <2>1, <2>3, <2>6, <3>1, <3>2, <3>3 DEF Freezes, OneLeft, Settled, Selling
  <2>7. CASE pc'[t] = "sell"
    <3>1. frozen \in Generations
      BY <1>1, <1>5, <2>7 DEF Check, Goto
    <3>2. Keyed
      BY <2>5, <2>7, <3>1 DEF Keyed, DayInv, Generations
    <3>3. QED BY <1>3, <2>1, <2>3, <2>7, <3>2 DEF Freezes, Keyed, Settled, Selling
  <2>8. QED BY <1>4, <2>2, <2>6, <2>7 DEF Trading
<1>6. CASE FreezeTarget(t)
  <2>1. /\ pc[t] = "freeze" /\ UNCHANGED <<weight, frozen, sized>>
        /\ \A s \in Symbols : s # at[t] => gen'[s] = gen[s] /\ tqty'[s] = tqty[s]
        /\ tqty'[at[t]] = sized[t][at[t]] /\ gen'[at[t]] \in Generations
    BY <1>1, <1>6 DEF FreezeTarget
  <2>2. \/ at[t] < SymbolCount /\ at'[t] = at[t] + 1 /\ pc'[t] = "freeze"
        \/ at[t] = SymbolCount /\ at'[t] = 1 /\ pc'[t] = "key"
    <3>1. Next1(t, "key") /\ "key" \in Labels
      BY <1>6 DEF FreezeTarget, Labels
    <3>2. QED BY <2>1, <3>1, WalkTypes
  <2>3. \A s \in Symbols : Full(s, budget)' = Full(s, budget)
    BY <1>2, <2>1 DEF Full
  <2>4. \A s \in Symbols : s < at[t] \/ s = at[t] => tqty'[s] = Full(s, budget)
    <3>1. \A s \in Symbols : s < at[t] => s # at[t]
      BY <1>1
    <3>2. QED BY <1>1, <1>3, <2>1, <3>1 DEF Freezes
  <2>5. OneLeft'
    <3>1. PICK r \in Symbols : gen[r] # 0 /\ \A s \in Symbols : gen[s] \in {0, gen[r]}
      BY <1>3, <2>1 DEF Freezes, OneLeft
    <3>2. gen'[at[t]] = gen[r]
      BY <2>1, <3>1 DEF Generations
    <3>3. gen'[r] = gen[r] /\ \A s \in Symbols : gen'[s] \in {0, gen[r]}
      BY <2>1, <3>1, <3>2
    <3>4. QED BY <3>1, <3>3 DEF OneLeft
  <2>6. CASE pc'[t] = "freeze"
    <3>1. at'[t] = at[t] + 1
      BY <2>2, <2>6
    <3>2. \A s \in Symbols : s < at'[t] => s < at[t] \/ s = at[t]
      BY <1>1, <3>1
    <3>3. QED BY <1>2, <1>3, <2>1, <2>3, <2>4, <2>5, <2>6, <3>2 DEF Freezes, Settled, Selling
  <2>7. CASE pc'[t] = "key"
    <3>1. \A s \in Symbols : s < at[t] \/ s = at[t]
      BY <1>1, <2>2, <2>7
    <3>2. QED BY <2>3, <2>4, <2>5, <2>7, <3>1 DEF Freezes, Settled, Selling
  <2>8. QED BY <2>2, <2>6, <2>7
<1>7. CASE pc[t] \in Settled
  <2>1. /\ \A s \in Symbols : Full(s, budget)' = Full(s, budget)
        /\ UNCHANGED <<gen, tqty>> /\ (frozen' = frozen \/ \E u \in Threads : SetKey(u))
    <3>1. pc[t] \in Trading /\ ~FreezeTarget(t)
      BY <1>7 DEF Settled, Trading, FreezeTarget
    <3>2. QED BY <3>1, RowsStand
  <2>2. Keyed => Keyed'
    BY <1>3, <2>1, KeyedAfter DEF Keyed
  <2>3. pc'[t] \notin {"freeze", "key"}
    BY <1>2, <1>7 DEF Arrivals, Settled, Check, FreezeTarget
  <2>4. pc'[t] \in Selling => Keyed'
    <3>1. CASE pc[t] = "key"
      <4>1. pc'[t] \in Selling => SetKey(t)
        BY <1>2, <3>1 DEF Arrivals, Selling, Check, NoSurplus, SellNew, SellAgain, Sold, ReadMissing,
                          OpenSignal
      <4>2. QED BY <1>3, <4>1, KeyedAfter
    <3>2. CASE pc[t] \in Selling
      BY <1>3, <2>2, <3>2 DEF Freezes
    <3>3. QED BY <1>7, <3>1, <3>2 DEF Settled, Selling
  <2>5. QED BY <1>3, <1>7, <2>1, <2>3, <2>4 DEF Freezes
<1>8. pc'[t] \in Trading => Check(t) \/ FreezeTarget(t) \/ pc[t] \in Settled
  BY <1>2 DEF Arrivals, Trading, Settled, SetKey, NoSurplus, SellNew, SellAgain, Sold, ReadMissing,
              OpenSignal
<1>9. QED BY <1>4, <1>5, <1>6, <1>7, <1>8

(* Wishes begin with a signal of a pass.                                   *)
LEMMA WishesBegin ==
  ASSUME Typed, AllocNext PROVE Wishes' => Wishes \/ \E t \in Threads : OpenSignal(t)
<1>1. buy \in [Symbols -> Nat]
  BY TypeParts DEF Typed, OrderTypes
<1>2. Touches
  BY Touched
<1> HIDE DEF Threads, Symbols
<1>3. ASSUME NEW s \in Symbols, BuyPlaced(s) \/ BuyEnds(s) \/ BuyFills(s) PROVE Wishes
  BY <1>3 DEF BuyPlaced, BuyEnds, BuyFills, Wishes
<1>4. ASSUME NEW t \in Threads, NEW s \in Symbols, CancelOrder(t, s), Wishes' PROVE Wishes
  BY <1>1, <1>4 DEF CancelOrder, Wishes
<1>5. ASSUME UNCHANGED buy,
             \A s \in Symbols : signal'[s].st = "ACTIVE" => signal[s].st = "ACTIVE"
      PROVE  Wishes' => Wishes
  BY <1>5 DEF Wishes
<1>6. \/ UNCHANGED signal \/ (\E t \in Threads : OpenSignal(t))
      \/ (\A s \in Symbols : signal'[s].st = "ACTIVE" => signal[s].st = "ACTIVE")
      \/ \E s \in Symbols : BuyPlaced(s) \/ BuyEnds(s)
  BY <1>2 DEF Touches, Supersede, PressStart, PressAdvance, DayEnds, Retarget, Invalidated
<1>7. QED BY <1>2, <1>3, <1>4, <1>5, <1>6, Zenon DEF Touches

(* A BUY signal, or an order from one, exists only under a frozen generation *)
(* that every row belongs to.                                              *)
LEMMA WishesKeyed ==
  ASSUME Typed, DayInv, RenewInv, FreezeInv, AllocNext, ~raced'
  PROVE  Wishes' => Keyed'
<1>1. /\ gen \in [Symbols -> 0..MaxDay] /\ \A s \in Symbols : gen[s] \in Nat
      /\ \A s \in Symbols : buy[s] \in Nat /\ buy \in [Symbols -> Nat]
      /\ signal \in [Symbols -> SignalForms]
  BY Bases, Amounts, TypeParts DEF OrderTypes
<1>2. Touches
  BY Touched
<1>3. ~raced /\ (Wishes => Keyed) /\ \A t \in Threads : Freezes(t) /\ Renews(t)
  BY Unraced DEF FreezeInv, RenewInv
<1> HIDE DEF Threads, Symbols
<1>4. Wishes' => Wishes \/ \E t \in Threads : OpenSignal(t)
  BY WishesBegin
<1>5. \A t \in Threads : OpenSignal(t) => Keyed
  BY <1>3 DEF OpenSignal, Freezes, Selling
<1>6. CASE \E t \in Threads : WriteTarget(t) \/ ResetKey(t)
  <2>1. NoneActive /\ NoBuys /\ UNCHANGED <<signal, buy>>
    BY <1>3, <1>6 DEF WriteTarget, ResetKey, Renews, ledgerVars
  <2>2. QED BY <2>1 DEF Wishes, NoneActive, NoBuys
<1>7. CASE \E b \in Budgets : Retarget(b)
  <2>1. /\ \A s \in Symbols : ~(buy'[s] > 0)
        /\ signal' = Invalidated
    BY <1>7 DEF Retarget, OpenOrders
  <2>2. QED BY <2>1 DEF Wishes, Invalidated
<1>8. ASSUME NEW t \in Threads, SetKey(t) PROVE Keyed'
  BY <1>3, <1>8, KeyedAfter
<1>9. ASSUME NEW t \in Threads, FreezeTarget(t), Keyed PROVE Keyed'
  BY <1>1, <1>9 DEF Keyed, FreezeTarget, Generations
<1>10. CASE UNCHANGED <<gen, frozen>>
  BY <1>3, <1>4, <1>5, <1>10 DEF Keyed
<1>11. (\E t \in Threads : FreezeTarget(t)) => (Wishes' => Keyed)
  <2>1. ASSUME NEW t \in Threads, FreezeTarget(t) PROVE UNCHANGED <<signal, buy>>
    BY <2>1 DEF FreezeTarget
  <2>2. QED BY <1>3, <2>1 DEF Wishes
<1>12. QED BY <1>2, <1>6, <1>7, <1>8, <1>9, <1>10, <1>11, Zenon DEF Touches

LEMMA FrozenRows ==
  ASSUME Typed, DayInv, RenewInv, FreezeInv, AllocNext, ~raced', NEW s \in Symbols,
         frozen' # 0, gen'[s] = frozen'
  PROVE  tqty'[s] = Full(s, budget)'
<1>1. /\ gen \in [Symbols -> 0..MaxDay] /\ tqty \in [Symbols -> Nat]
      /\ \A t \in Threads : at[t] \in Symbols
  BY Bases
<1>2. Touches
  BY Touched
<1>3. /\ ~raced /\ \A t \in Threads : Freezes(t) /\ Renews(t)
      /\ frozen # 0 /\ gen[s] = frozen => tqty[s] = Full(s, budget)
  BY Unraced DEF FreezeInv, RenewInv
<1> HIDE DEF Threads, Symbols
<1>4. ASSUME NEW t \in Threads, WriteTarget(t) PROVE tqty'[s] = Full(s, budget)'
  <2>1. frozen' = frozen /\ frozen # day /\ budget' = budget
    BY <1>3, <1>4 DEF WriteTarget, Renews, Renewing, clockVars
  <2>2. s # at[t]
    BY <1>1, <1>4, <2>1 DEF WriteTarget
  <2>3. gen'[s] = gen[s] /\ weight'[s] = weight[s] /\ tqty'[s] = tqty[s]
    BY <1>1, <1>4, <2>2, Bases DEF WriteTarget
  <2>4. QED BY <1>3, <2>1, <2>3 DEF Full
<1>5. ASSUME NEW t \in Threads, FreezeTarget(t) PROVE tqty'[s] = Full(s, budget)'
  <2>1. frozen' = frozen /\ weight' = weight /\ budget' = budget /\ pc[t] = "freeze"
    BY <1>5 DEF FreezeTarget, clockVars
  <2>2. CASE s = at[t]
    BY <1>1, <1>3, <1>5, <2>1, <2>2 DEF FreezeTarget, Freezes, Full
  <2>3. CASE s # at[t]
    BY <1>1, <1>3, <1>5, <2>1, <2>3 DEF FreezeTarget, Full
  <2>4. QED BY <2>2, <2>3
<1>6. ASSUME NEW t \in Threads, SetKey(t) PROVE tqty'[s] = Full(s, budget)'
  BY <1>3, <1>6 DEF SetKey, Freezes, Settled, Full, ledgerVars, clockVars
<1>7. \A t \in Threads : ~ResetKey(t)
  BY DEF ResetKey
<1>8. \A b \in Budgets : ~Retarget(b)
  BY DEF Retarget
<1>9. CASE UNCHANGED <<gen, weight, tqty, frozen, budget>>
  BY <1>3, <1>9 DEF Full
<1>10. QED BY <1>2, <1>4, <1>5, <1>6, <1>7, <1>8, <1>9, Zenon DEF Touches

LEMMA FreezeStep == ASSUME Typed, DayInv, RenewInv, FreezeInv, AllocNext PROVE FreezeInv'
<1> SUFFICES ASSUME ~raced' PROVE \A t \in Threads : Freezes(t)'
  BY WishesKeyed, FrozenRows DEF FreezeInv
<1> SUFFICES ASSUME NEW t \in Threads PROVE Freezes(t)'
  OBVIOUS
<1>1. CASE Pass(t)
  BY <1>1, FreezeMoves
<1>2. CASE pc'[t] = pc[t] /\ at'[t] = at[t] /\ sized'[t] = sized[t]
  BY <1>2, FreezeStays
<1>3. CASE pc'[t] \notin Trading
  BY <1>3 DEF Freezes, Trading, Settled, Selling
<1>4. ASSUME NEW u \in Threads, Pass(u), u # t
      PROVE  pc'[t] = pc[t] /\ at'[t] = at[t] /\ sized'[t] = sized[t]
  BY <1>4, PassMoves DEF Moved
<1>5. Parked => pc'[t] \notin Trading
  BY DEF Parked, Trading
<1>6. Onboarding => \/ pc'[t] \notin Trading
                    \/ pc'[t] = pc[t] /\ at'[t] = at[t] /\ sized'[t] = sized[t]
  BY PressMoves DEF Threads, ChatLabels, Trading
<1>7. QED BY <1>1, <1>2, <1>3, <1>4, <1>5, <1>6, OthersMove

(* What a pass that sells finds: the part of SoldToTarget about its step.  *)
LEMMA SellsToTarget ==
  ASSUME Typed, FreezeInv, AllocNext, ~raced, NEW s \in Symbols, sell'[s].gen # sell[s].gen
  PROVE  \E b \in Budgets : qty[s] - sell'[s].n = Effective(s, Full(s, b))
<1>1. /\ AllocTypeOK /\ sell \in [Symbols -> SellForms] /\ budget \in Budgets
      /\ \A t \in Threads : at[t] \in Symbols
  BY Bases, TypeParts DEF OrderTypes, ClockTypes
<1>2. Touches
  BY Touched
<1> HIDE DEF Threads, Symbols
<1>3. PICK t \in Threads : SellNew(t)
  <2>1. \A t \in Threads : \A r \in Symbols : CancelOrder(t, r) => sell'[s].gen = sell[s].gen
    <3> SUFFICES ASSUME NEW t \in Threads, NEW r \in Symbols, CancelOrder(t, r)
                 PROVE  sell'[s].gen = sell[s].gen
      OBVIOUS
    <3>1. ASSUME NEW k, sell' = [sell EXCEPT ![r].left = @ - k, ![r].st = "ended"]
          PROVE  sell'[s].gen = sell[s].gen
      BY <1>1, <3>1 DEF SellForms
    <3>2. QED BY <3>1 DEF CancelOrder
  <2>2. \A r \in Symbols : SellFills(r) \/ SellEnds(r) => sell'[s].gen = sell[s].gen
    BY <1>1 DEF SellFills, SellEnds, SellForms
  <2>3. QED BY <1>2, <2>1, <2>2 DEF Touches
<1>4. /\ pc[t] = "sell" /\ s = at[t] /\ sell'[s].n = Surplus(s) /\ Surplus(s) > 0
  BY <1>1, <1>3 DEF SellNew
<1>5. tqty[s] = Full(s, budget)
  BY <1>4 DEF FreezeInv, Freezes, Settled
<1>6. qty[s] \in Nat /\ Effective(s, tqty[s]) \in Nat
  BY <1>1, Amounts, Targeted
<1>7. qty[s] - Surplus(s) = Effective(s, tqty[s])
  BY <1>4, <1>6 DEF Surplus, Excess
<1>8. QED BY <1>1, <1>4, <1>5, <1>7

-----------------------------------------------------------------------------
(* What a target leaves room for.                                          *)

LEMMA SurplusMeans ==
  ASSUME AllocTypeOK, NEW s \in Symbols
  PROVE  Surplus(s) = 0 <=> qty[s] <= Effective(s, tqty[s])
<1>1. qty[s] \in Nat /\ Effective(s, tqty[s]) \in Nat
  BY Amounts, Targeted
<1>2. QED BY <1>1 DEF Surplus, Excess

LEMMA EffectiveMeans ==
  ASSUME AllocTypeOK, NEW s \in Symbols
  PROVE  /\ status = "NOT_STARTED" =>
              /\ Effective(s, tqty[s]) <= qty[s]
              /\ qty[s] <= Effective(s, tqty[s]) <=> qty[s] <= tqty[s]
         /\ status = "ACTIVE" => Effective(s, tqty[s]) = (tqty[s] * Fraction) \div 100
         /\ status \in {"COMPLETED", "BYPASSED"} => Effective(s, tqty[s]) = tqty[s]
         /\ status # "NOT_STARTED" /\ Effective(s, tqty[s]) > 0 => tqty[s] > 0
<1>1. qty[s] \in Nat /\ tqty[s] \in Nat /\ Fraction \in 0..100
      /\ status \in {"NOT_STARTED", "ACTIVE", "COMPLETED", "BYPASSED"}
  BY Amounts, Targeted, TypeParts DEF StageTypes
<1>2. status = "NOT_STARTED" => Effective(s, tqty[s]) = Least(qty[s], tqty[s])
  BY DEF Effective
<1>3. status = "ACTIVE" => Effective(s, tqty[s]) = (tqty[s] * Fraction) \div 100
  BY DEF Effective
<1>4. status \in {"COMPLETED", "BYPASSED"} => Effective(s, tqty[s]) = tqty[s]
  BY DEF Effective
<1>5. status = "NOT_STARTED" =>
              /\ Effective(s, tqty[s]) <= qty[s]
              /\ qty[s] <= Effective(s, tqty[s]) <=> qty[s] <= tqty[s]
  BY <1>1, <1>2 DEF Least
<1>6. ASSUME status = "ACTIVE", tqty[s] = 0 PROVE Effective(s, tqty[s]) = 0
  <2>1. 0 * Fraction = 0 /\ 0 \div 100 = 0
    BY <1>1
  <2>2. QED BY <1>3, <1>6, <2>1
<1>7. status # "NOT_STARTED" /\ Effective(s, tqty[s]) > 0 => tqty[s] > 0
  BY <1>1, <1>4, <1>6
<1>8. QED BY <1>3, <1>4, <1>5, <1>7

LEMMA EffectiveNat == Typed => \A s \in Symbols : Effective(s, tqty[s]) \in Nat
BY Targeted DEF Typed

LEMMA EffectiveNatNext == Typed' => \A s \in Symbols : Effective(s, tqty[s])' \in Nat
<1>1. (Typed => \A s \in Symbols : Effective(s, tqty[s]) \in Nat)'
  BY EffectiveNat, PTL
<1>2. QED BY <1>1

(* Only the start of the onboarding takes a target back; a stage raises it, *)
(* and its end leaves it.                                                  *)
LEMMA EffectiveRises ==
  ASSUME Typed, AllocNext, ~Activate, NEW s \in Symbols, tqty'[s] = tqty[s]
  PROVE  /\ status = "NOT_STARTED" <=> status' = "NOT_STARTED"
         /\ status' = "ACTIVE" => status = "ACTIVE"
         /\ status # "NOT_STARTED" => Effective(s, tqty[s]) <= Effective(s, tqty[s])'
<1>1. Touches
  BY Touched
<1>2. /\ AllocTypeOK /\ tqty[s] \in Nat /\ stage \in Nat
      /\ status \in {"NOT_STARTED", "ACTIVE", "COMPLETED", "BYPASSED"}
      /\ stage \in 0..Len(Fractions) /\ Effective(s, tqty[s]) \in Nat
  BY Amounts, TypeParts, Targeted DEF Typed, StageTypes
<1>3. CASE UNCHANGED <<status, stage>>
  <2>1. status # "NOT_STARTED" => Effective(s, tqty[s])' = Effective(s, tqty[s])
    BY <1>2, <1>3 DEF Effective, Fraction
  <2>2. QED BY <1>2, <1>3, <2>1
<1>4. CASE OpenStage
  <2>1. status' = status /\ stage' = stage + 1 /\ stage < Len(Fractions)
    BY <1>4 DEF OpenStage, Typed, LadderInv
  <2>2. Fraction \in Nat /\ Fraction' \in Nat /\ Fraction <= Fraction'
    <3>1. stage + 1 \in 1..Len(Fractions) /\ (stage >= 1 => stage \in 1..Len(Fractions))
      BY <1>2, <2>1, FractionsFacts
    <3>2. Fractions[stage + 1] \in Nat
          /\ (stage >= 1 => Fractions[stage] \in Nat /\ Fractions[stage] < Fractions[stage + 1])
      <4>1. \A i \in 1..Len(Fractions) : Fractions[i] \in Nat
        <5>1. \A p \in 1..100 : p \in Nat
          OBVIOUS
        <5>2. QED BY <5>1, FractionsFacts, Zenon
      <4>2. stage < stage + 1
        BY <1>2
      <4>3. QED BY <3>1, <4>1, <4>2, FractionsFacts
    <3>3. QED BY <1>2, <2>1, <3>2 DEF Fraction
  <2>3. (tqty[s] * Fraction) \div 100 <= (tqty[s] * Fraction') \div 100
    <3>1. tqty[s] * Fraction \in Nat /\ tqty[s] * Fraction' \in Nat
          /\ tqty[s] * Fraction <= tqty[s] * Fraction'
      BY <1>2, <2>2, ProductNat, ProductOrder
    <3>2. QED BY <3>1, PartOrder
  <2>4. CASE status = "ACTIVE"
    <3>1. Effective(s, tqty[s])' = (tqty[s] * Fraction') \div 100
      BY <2>1, <2>4 DEF Effective
    <3>2. Effective(s, tqty[s]) = (tqty[s] * Fraction) \div 100
      BY <2>4 DEF Effective
    <3>3. QED BY <2>1, <2>3, <2>4, <3>1, <3>2
  <2>5. CASE status # "ACTIVE"
    <3>1. status # "NOT_STARTED" => Effective(s, tqty[s])' = Effective(s, tqty[s])
      BY <2>1, <2>5 DEF Effective
    <3>2. QED BY <1>2, <2>1, <2>5, <3>1
  <2>6. QED BY <2>4, <2>5
<1>5. ASSUME NEW t \in Threads, Progress(t), status' # status
      PROVE  /\ status = "ACTIVE" /\ status' = "COMPLETED"
             /\ Effective(s, tqty[s])' = Effective(s, tqty[s])
  <2>1. status = "ACTIVE" /\ status' = "COMPLETED" /\ stage = Len(Fractions) /\ stage >= 1
    BY <1>5 DEF Progress, StatusNow
  <2>2. Fraction = 100
    BY <2>1, FractionsFacts DEF Fraction
  <2>3. Effective(s, tqty[s]) = tqty[s] /\ Effective(s, tqty[s])' = tqty[s]
    BY <1>2, <2>1, <2>2, WholePart DEF Effective
  <2>4. QED BY <2>1, <2>3
<1>6. (\E t \in Threads : Progress(t)) => stage' = stage
  BY DEF Progress
<1>7. (\E t \in Threads : Progress(t) /\ status' # status) =>
        /\ status = "ACTIVE" /\ status' = "COMPLETED"
        /\ Effective(s, tqty[s]) <= Effective(s, tqty[s])'
  BY <1>2, <1>5
<1>8. QED BY <1>1, <1>3, <1>4, <1>6, <1>7 DEF Touches

(* Shares held and on their way: only a new BUY adds to them.               *)
LEMMA SumFalls ==
  ASSUME Typed, AllocNext, NEW s \in Symbols
  PROVE  /\ qty[s] \in Nat /\ buy[s] \in Nat /\ qty'[s] \in Nat /\ buy'[s] \in Nat
         /\ qty'[s] <= qty[s] + buy[s]
         /\ BuyPlaced(s) \/ qty'[s] + buy'[s] <= qty[s] + buy[s]
<1>1. /\ qty \in [Symbols -> Nat] /\ buy \in [Symbols -> Nat] /\ qty' \in [Symbols -> Nat]
      /\ buy' \in [Symbols -> Nat]
      /\ \A r \in Symbols : sell[r].left \in Nat /\ (sell[r].st = "open" => sell[r].left <= qty[r])
  BY TypeParts, QtyStep DEF Typed, OrderTypes, SellForms, SoldInv
<1>2. Touches
  BY Touched
<1>3. /\ qty[s] \in Nat /\ buy[s] \in Nat /\ qty'[s] \in Nat /\ buy'[s] \in Nat
  BY <1>1
<1> DEFINE Falls == qty'[s] <= qty[s] + buy[s] /\ qty'[s] + buy'[s] <= qty[s] + buy[s]
<1> HIDE DEF Threads, Symbols
<1>4. ASSUME NEW t \in Threads, NEW r \in Symbols, CancelOrder(t, r) PROVE Falls
  <2>1. ASSUME NEW k \in 0..sell[r].left, qty' = [qty EXCEPT ![r] = @ - k], UNCHANGED buy
        PROVE  Falls
    BY <1>1, <1>3, <2>1
  <2>2. ASSUME NEW k \in 0..buy[r], qty' = [qty EXCEPT ![r] = @ + k],
               buy' = [buy EXCEPT ![r] = 0]
        PROVE  Falls
    BY <1>1, <1>3, <2>2
  <2>3. QED BY <1>4, <2>1, <2>2, Zenon DEF CancelOrder
<1>5. ASSUME NEW t \in Threads, SellNew(t) PROVE Falls
  <2>1. at[t] \in Symbols /\ Surplus(at[t]) \in Nat /\ buy' = buy
    BY <1>5, Bases, Targeted DEF SellNew
  <2>2. PICK k \in 0..Surplus(at[t]) : qty' = [qty EXCEPT ![at[t]] = @ - k]
    BY <1>5 DEF SellNew
  <2>3. QED BY <1>1, <1>3, <2>1, <2>2
<1>6. ASSUME NEW r \in Symbols, BuyFills(r) PROVE Falls
  <2>1. PICK k \in 1..buy[r] : /\ qty' = [qty EXCEPT ![r] = @ + k]
                               /\ buy' = [buy EXCEPT ![r] = @ - k]
    BY <1>6 DEF BuyFills
  <2>2. QED BY <1>1, <1>3, <2>1
<1>7. ASSUME NEW r \in Symbols, SellFills(r) PROVE Falls
  BY <1>1, <1>3, <1>7 DEF SellFills
<1>8. ASSUME NEW r \in Symbols, BuyEnds(r) PROVE Falls
  BY <1>1, <1>3, <1>8 DEF BuyEnds
<1>9. ASSUME NEW r \in Symbols, BuyPlaced(r)
      PROVE  qty'[s] <= qty[s] + buy[s] /\ (r = s \/ Falls)
  BY <1>1, <1>3, <1>9 DEF BuyPlaced
<1>10. CASE UNCHANGED <<qty, buy>>
  BY <1>3, <1>10
<1>11. Falls \/ (qty'[s] <= qty[s] + buy[s] /\ BuyPlaced(s))
  BY <1>2, <1>4, <1>5, <1>6, <1>7, <1>8, <1>9, <1>10, Zenon DEF Touches
<1>12. QED BY <1>3, <1>11

(* While BUYs are wished for, no step but a capital change moves a target.  *)
LEMMA TargetsStand ==
  ASSUME Typed, RenewInv, FreezeInv, AllocNext, ~raced', Wishes,
         \A b \in Budgets : ~Retarget(b)
  PROVE  UNCHANGED <<gen, tqty>>
<1>1. /\ gen \in [Symbols -> 0..MaxDay] /\ tqty \in [Symbols -> Nat]
      /\ \A s \in Symbols : buy[s] \in Nat
      /\ \A t \in Threads : at[t] \in Symbols
  BY Bases, Amounts
<1>2. Touches
  BY Touched
<1>3. /\ ~raced /\ Keyed /\ \A t \in Threads : Freezes(t) /\ Renews(t)
      /\ \A s \in Symbols : frozen # 0 /\ gen[s] = frozen => tqty[s] = Full(s, budget)
  BY Unraced DEF FreezeInv, RenewInv
<1> HIDE DEF Threads, Symbols
<1>4. \A t \in Threads : ~WriteTarget(t)
  BY <1>1, <1>3 DEF WriteTarget, Renews, Wishes, NoneActive, NoBuys
<1>5. ASSUME NEW t \in Threads, FreezeTarget(t) PROVE UNCHANGED <<gen, tqty>>
  <2>1. gen' = gen
    BY <1>1, <1>3, <1>5 DEF FreezeTarget, Keyed, Generations
  <2>2. sized[t][at[t]] = tqty[at[t]]
    BY <1>1, <1>3, <1>5 DEF FreezeTarget, Freezes, Keyed
  <2>3. tqty' = tqty
    BY <1>1, <1>5, <2>2 DEF FreezeTarget
  <2>4. QED BY <2>1, <2>3
<1>6. QED BY <1>2, <1>4, <1>5 DEF Touches

(* A BUY of n more shares stays within what the stage allows.              *)
Fits(s, n) ==
  /\ status # "NOT_STARTED" /\ tqty[s] > 0
  /\ status = "ACTIVE" => n + qty[s] + buy[s] <= Effective(s, tqty[s])

SizeInv ==
  ~raced =>
    /\ \A s \in Symbols : signal[s].st = "ACTIVE" => Fits(s, signal[s].size)
    /\ \A t \in Threads : pc[t] = "signal" => Fits(at[t], sized[t][at[t]])
    /\ \A s \in Symbols : buy[s] > 0 => qty[s] + buy[s] <= Effective(s, tqty[s])
    /\ pc["chat"] = "start" => NoneActive

LEMMA FitsStands ==
  ASSUME Typed, AllocNext, NEW s \in Symbols, NEW n \in Nat, Fits(s, n), tqty'[s] = tqty[s],
         ~Activate, ~BuyPlaced(s)
  PROVE  /\ status' # "NOT_STARTED" /\ tqty'[s] > 0
         /\ status' = "ACTIVE" => n + qty'[s] + buy'[s] <= Effective(s, tqty[s])'
<1>1. /\ qty[s] \in Nat /\ buy[s] \in Nat /\ qty'[s] \in Nat /\ buy'[s] \in Nat
      /\ qty'[s] + buy'[s] <= qty[s] + buy[s]
  BY SumFalls
<1>2. /\ status = "NOT_STARTED" <=> status' = "NOT_STARTED"
      /\ status' = "ACTIVE" => status = "ACTIVE"
      /\ status # "NOT_STARTED" => Effective(s, tqty[s]) <= Effective(s, tqty[s])'
  BY EffectiveRises
<1>3. Effective(s, tqty[s]) \in Nat /\ Effective(s, tqty[s])' \in Nat
  BY TypedStep, EffectiveNat, EffectiveNatNext
<1>4. QED BY <1>1, <1>2, <1>3 DEF Fits

(* Each BUY signal fits after the step.                                    *)
LEMMA SignalsFit ==
  ASSUME Typed, DayInv, RenewInv, FreezeInv, SizeInv, AllocNext, ~raced', NEW s \in Symbols,
         signal'[s].st = "ACTIVE"
  PROVE  Fits(s, signal[s].size)'
<1>1. /\ signal \in [Symbols -> SignalForms] /\ AllocTypeOK
      /\ \A t \in Threads : at[t] \in Symbols /\ \A r \in Symbols : sized[t][r] \in Nat
      /\ \A r \in Symbols : signal[r].size \in Nat
  BY Amounts, TypeParts, Zenon DEF Typed, OrderTypes, SignalForms
<1>2. Touches
  BY Touched
<1>3. /\ ~raced /\ \A r \in Symbols : signal[r].st = "ACTIVE" => Fits(r, signal[r].size)
      /\ \A t \in Threads : pc[t] = "signal" => Fits(at[t], sized[t][at[t]])
      /\ \A r \in Symbols : buy[r] > 0 => qty[r] + buy[r] <= Effective(r, tqty[r])
      /\ pc["chat"] = "start" => NoneActive
  BY Unraced DEF SizeInv
<1> HIDE DEF Threads, Symbols
<1>4. CASE \E t \in Threads : OpenSignal(t)
  <2>1. PICK t \in Threads : OpenSignal(t)
    BY <1>4
  <2>2. UNCHANGED <<tqty, qty, buy, status, stage>> /\ pc[t] = "signal"
    BY <2>1 DEF OpenSignal, stageVars
  <2>3. \/ signal[s].st = "ACTIVE" /\ signal'[s] = signal[s]
        \/ s = at[t] /\ signal'[s].size = sized[t][s]
    BY <1>1, <2>1 DEF OpenSignal
  <2>4. Fits(s, signal'[s].size)
    BY <1>3, <2>2, <2>3
  <2>5. QED BY <2>2, <2>4 DEF Fits, Effective, Fraction
<1>5. CASE \E r \in Symbols : BuyEnds(r)
  <2>1. PICK r \in Symbols : BuyEnds(r)
    BY <1>5
  <2>2. UNCHANGED <<tqty, qty, status, stage>> /\ live /\ buy[r] > 0 /\ status = "COMPLETED"
    BY <2>1, <1>1 DEF BuyEnds, stageVars, Typed, LadderInv
  <2>3. tqty[s] > 0
    <3>1. CASE s = r
      <4>1. Effective(s, tqty[s]) = tqty[s] /\ qty[s] \in Nat /\ buy[s] \in Nat /\ tqty[s] \in Nat
        BY <1>1, <2>2, EffectiveMeans, Amounts
      <4>2. qty[s] + buy[s] <= Effective(s, tqty[s]) /\ buy[s] > 0
        BY <1>3, <2>2, <3>1
      <4>3. QED BY <4>1, <4>2
    <3>2. CASE s # r
      BY <1>1, <1>3, <2>1, <3>2 DEF BuyEnds, Fits
    <3>3. QED BY <3>1, <3>2
  <2>4. QED BY <2>2, <2>3 DEF Fits
<1>6. CASE (\A t \in Threads : ~OpenSignal(t)) /\ \A r \in Symbols : ~BuyEnds(r)
  <2>1. signal[s].st = "ACTIVE" /\ signal'[s].size = signal[s].size /\ ~BuyPlaced(s)
        /\ \A b \in Budgets : ~Retarget(b)
    <3>1. ASSUME NEW r \in Symbols, BuyPlaced(r)
          PROVE  r # s /\ signal[s].st = "ACTIVE" /\ signal'[s].size = signal[s].size
      BY <1>1, <3>1 DEF BuyPlaced, SignalForms
    <3>2. signal' # Invalidated /\ (DayEnds => FALSE)
      <4>1. signal' # Invalidated
        BY <1>1 DEF Invalidated, SignalForms
      <4>2. DayEnds => FALSE
        BY <1>1 DEF DayEnds, SignalForms
      <4>3. QED BY <4>1, <4>2
    <3>3. ~BuyPlaced(s) /\ \A b \in Budgets : ~Retarget(b)
      BY <3>1, <3>2 DEF Retarget
    <3>4. signal' = signal \/ \E r \in Symbols : BuyPlaced(r)
      BY <1>2, <1>6, <3>2, <3>3 DEF Touches, Supersede, PressStart, PressAdvance
    <3>5. QED BY <3>1, <3>3, <3>4
  <2>2. tqty'[s] = tqty[s]
    BY <2>1, TargetsStand DEF Wishes
  <2>3. ~Activate
    BY <1>3, <2>1 DEF Activate, NoneActive
  <2>4. Fits(s, signal[s].size) /\ signal[s].size \in Nat
    BY <1>1, <1>3, <2>1
  <2>5. QED BY <2>1, <2>2, <2>3, <2>4, FitsStands DEF Fits
<1>7. QED BY <1>4, <1>5, <1>6

(* Each size a pass read fits until it becomes a signal.                   *)
LEMMA SizesFit ==
  ASSUME Typed, DayInv, RenewInv, FreezeInv, SizeInv, AllocNext, ~raced', NEW t \in Threads,
         pc'[t] = "signal"
  PROVE  Fits(at[t], sized[t][at[t]])'
<1>1. /\ AllocTypeOK /\ pc \in [Threads -> Labels]
      /\ at[t] \in Symbols /\ \A r \in Symbols : sized[t][r] \in Nat
      /\ sized \in [Threads -> [Symbols -> Nat]]
  BY Bases, Amounts, TypeParts DEF ThreadTypes
<1>2. ~raced /\ (pc[t] = "signal" => Fits(at[t], sized[t][at[t]]))
  BY Unraced DEF SizeInv
<1> HIDE DEF Threads, Symbols
<1> DEFINE s == at[t]
<1>3. CASE ReadMissing(t)
  <2>1. at' = at /\ sized' = [sized EXCEPT ![t][s] = Wanted(s)] /\ Wanted(s) # 0
    <3>1. pc[t] = "buy" /\ (Next1(t, "progress") => pc'[t] \in {"buy", "progress"})
      <4>1. "progress" \in Labels
        BY DEF Labels
      <4>2. QED BY <1>3, <4>1, WalkTypes DEF ReadMissing
    <3>2. QED BY <1>3, <3>1 DEF ReadMissing
  <2>2. sized'[t][s] = Wanted(s)
    BY <1>1, <2>1
  <2>3. qty[s] \in Nat /\ buy[s] \in Nat /\ tqty[s] \in Nat /\ Effective(s, tqty[s]) \in Nat
    BY <1>1, Amounts, Targeted
  <2>4. Effective(s, tqty[s]) > qty[s] + buy[s] /\ Wanted(s) = Effective(s, tqty[s]) - (qty[s] + buy[s])
    BY <2>1, <2>3 DEF Wanted, Excess
  <2>5. Fits(s, Wanted(s))
    BY <1>1, <2>3, <2>4, EffectiveMeans DEF Fits
  <2>6. UNCHANGED <<status, stage, tqty, qty, buy>>
    BY <1>3 DEF ReadMissing, stageVars, ledgerVars
  <2>7. QED BY <2>1, <2>2, <2>5, <2>6 DEF Fits, Effective, Fraction
<1>4. CASE pc[t] = "signal" /\ at'[t] = at[t] /\ sized'[t] = sized[t]
  <2>1. tqty' = tqty
    BY <1>4, RowsStand DEF Trading, FreezeTarget
  <2>2. ~Activate /\ ~BuyPlaced(s)
    <3>1. ~BuyPlaced(s)
      BY <1>1, <1>4, Unraced
    <3>2. ASSUME Activate PROVE FALSE
      <4>1. pc["chat"] = "start" /\ pc["scheduler"] # "signal"
        BY <3>2, Unraced DEF Activate
      <4>2. QED BY <1>4, <4>1 DEF Threads
    <3>3. QED BY <3>1, <3>2
  <2>3. Fits(s, sized[t][s]) /\ sized[t][s] \in Nat
    BY <1>1, <1>2, <1>4
  <2>4. QED BY <1>1, <1>4, <2>1, <2>2, <2>3, FitsStands DEF Fits
<1>5. Pass(t) => ReadMissing(t)
  BY Arrived DEF Arrivals
<1>6. ASSUME NEW u \in Threads, Pass(u), u # t
      PROVE  pc'[t] = pc[t] /\ at'[t] = at[t] /\ sized'[t] = sized[t]
  BY <1>6, PassMoves DEF Moved
<1>7. ~Parked
  BY DEF Parked
<1>8. Onboarding => pc'[t] = pc[t] /\ at'[t] = at[t] /\ sized'[t] = sized[t]
  BY PressMoves DEF Threads, ChatLabels
<1>9. QED BY <1>3, <1>4, <1>5, <1>6, <1>7, <1>8, OthersMove

(* A BUY is placed within what the stage allows: CapHeld's step.           *)
LEMMA PlacedFits ==
  ASSUME Typed, SizeInv, ~raced, NEW s \in Symbols, BuyPlaced(s)
  PROVE  qty[s] + buy'[s] <= Effective(s, tqty[s]) /\ status # "NOT_STARTED"
<1>1. /\ AllocTypeOK /\ buy \in [Symbols -> Nat] /\ signal[s].size \in Nat
      /\ qty[s] \in Nat /\ buy[s] \in Nat /\ tqty[s] \in Nat /\ Effective(s, tqty[s]) \in Nat
      /\ status \in {"NOT_STARTED", "ACTIVE", "COMPLETED", "BYPASSED"}
  BY Amounts, TypeParts, Targeted DEF Typed, OrderTypes, SignalForms, StageTypes
<1>2. Fits(s, signal[s].size)
  BY DEF BuyPlaced, SizeInv
<1>3. PICK n \in 1..BuySize(s) : buy' = [buy EXCEPT ![s] = @ + n]
  BY DEF BuyPlaced
<1>4. tqty[s] > 0
  BY <1>2 DEF Fits
<1>5. BuySize(s) = Least(signal[s].size, Excess(tqty[s], qty[s] + buy[s]))
  BY <1>4 DEF BuySize
<1>6. n \in Nat /\ n >= 1 /\ n <= signal[s].size /\ n <= Excess(tqty[s], qty[s] + buy[s])
  BY <1>1, <1>3, <1>5 DEF Least, Excess
<1>7. n + qty[s] + buy[s] <= tqty[s]
  BY <1>1, <1>6 DEF Excess
<1>8. buy'[s] = buy[s] + n
  BY <1>1, <1>3
<1>9. CASE status = "ACTIVE"
  BY <1>1, <1>2, <1>6, <1>8, <1>9 DEF Fits
<1>10. CASE status # "ACTIVE"
  <2>1. Effective(s, tqty[s]) = tqty[s]
    BY <1>1, <1>2, <1>10, EffectiveMeans DEF Fits
  <2>2. QED BY <1>1, <1>2, <1>6, <1>7, <1>8, <2>1 DEF Fits
<1>11. QED BY <1>9, <1>10, <1>2 DEF Fits

LEMMA BuysFit ==
  ASSUME Typed, DayInv, RenewInv, FreezeInv, SizeInv, AllocNext, ~raced', NEW s \in Symbols,
         buy'[s] > 0
  PROVE  qty'[s] + buy'[s] <= Effective(s, tqty[s])'
<1>1. /\ AllocTypeOK /\ Effective(s, tqty[s]) \in Nat /\ Effective(s, tqty[s])' \in Nat
  BY TypedStep, EffectiveNat, EffectiveNatNext DEF Typed
<1>2. ~raced /\ (buy[s] > 0 => qty[s] + buy[s] <= Effective(s, tqty[s]))
  BY Unraced DEF SizeInv
<1>3. CASE BuyPlaced(s)
  <2>1. UNCHANGED <<qty, tqty, status, stage>>
    BY <1>3 DEF BuyPlaced, stageVars
  <2>2. qty[s] + buy'[s] <= Effective(s, tqty[s]) /\ status # "NOT_STARTED"
    BY <1>2, <1>3, PlacedFits
  <2>3. Effective(s, tqty[s])' = Effective(s, tqty[s])
    BY <2>1 DEF Effective, Fraction
  <2>4. QED BY <2>1, <2>2, <2>3
<1>4. CASE ~BuyPlaced(s)
  <2>1. /\ qty[s] \in Nat /\ buy[s] \in Nat /\ qty'[s] \in Nat /\ buy'[s] \in Nat
        /\ qty'[s] + buy'[s] <= qty[s] + buy[s]
    BY <1>4, SumFalls
  <2>2. buy[s] > 0
    <3>1. ASSUME buy[s] = 0 PROVE FALSE
      <4>1. \A r \in Symbols : ~(BuyPlaced(r) /\ r = s)
        BY <1>4
      <4>2. buy'[s] = 0
        <5>1. buy \in [Symbols -> Nat]
          BY TypeParts DEF Typed, OrderTypes
        <5>2. ASSUME NEW t \in Threads, NEW r \in Symbols, CancelOrder(t, r) PROVE buy'[s] = 0
          BY <3>1, <5>1, <5>2 DEF CancelOrder
        <5>3. ASSUME NEW r \in Symbols, BuyPlaced(r) \/ BuyFills(r) \/ BuyEnds(r)
              PROVE  buy'[s] = 0
          <6>1. r # s
            BY <3>1, <4>1, <5>3 DEF BuyFills, BuyEnds
          <6>2. QED BY <3>1, <5>1, <5>3, <6>1 DEF BuyPlaced, BuyFills, BuyEnds
        <5>4. QED BY <3>1, <5>2, <5>3, Touched DEF Touches
      <4>3. QED BY <4>2
    <3>2. QED BY <2>1, <3>1
  <2>3. \A b \in Budgets : ~Retarget(b)
    BY <2>2 DEF Retarget, OpenOrders
  <2>4. tqty'[s] = tqty[s]
    BY <2>2, <2>3, TargetsStand DEF Wishes
  <2>5. ~Activate
    BY <2>2 DEF Activate, Typed, LadderInv, OpenOrders
  <2>6. status # "NOT_STARTED"
    BY <1>1, <1>2, <2>1, <2>2, EffectiveMeans
  <2>7. Effective(s, tqty[s]) <= Effective(s, tqty[s])'
    BY <2>4, <2>5, <2>6, EffectiveRises
  <2>8. QED BY <1>1, <1>2, <2>1, <2>2, <2>7
<1>5. QED BY <1>3, <1>4

LEMMA StartQuiet ==
  ASSUME Typed, SizeInv, AllocNext, ~raced', pc'["chat"] = "start" PROVE NoneActive'
<1>1. /\ ~raced /\ (pc["chat"] = "start" => NoneActive) /\ pc \in [Threads -> Labels]
      /\ (live => pc["chat"] = "idle") /\ signal \in [Symbols -> SignalForms]
  BY Unraced, TypeParts, Zenon DEF SizeInv, Typed, PlaceInv, LadderInv, OrderTypes
<1>2. CASE Onboarding
  <2>1. PressStart
    BY <1>1, <1>2 DEF Onboarding, PressStart, Activate, OpenStage, DateStage, PressAdvance, Goto, Threads
  <2>2. QED BY <2>1 DEF PressStart, NoneActive, Invalidated
<1>3. CASE ~Onboarding
  <2>1. pc["chat"] = "start"
    <3>1. ASSUME NEW t \in Threads, Pass(t) PROVE pc["chat"] = "start"
      BY <3>1, PassMoves DEF Moved, Threads, ChatLabels
    <3>2. ~Parked
      BY DEF Parked, Threads
    <3>3. QED BY <1>3, <3>1, <3>2, OthersMove
  <2>2. NoneActive /\ ~live
    BY <1>1, <2>1
  <2>3. \A t \in Threads : ~OpenSignal(t)
    BY <2>1, Unraced
  <2>4. \A s \in Symbols : ~BuyPlaced(s) /\ ~BuyEnds(s)
    BY <2>2 DEF BuyPlaced, BuyEnds, NoneActive
  <2>5. \/ signal' = signal \/ signal' = Invalidated
        \/ signal' = [s \in Symbols |-> IF signal[s].st = "ACTIVE"
                        THEN [signal[s] EXCEPT !.st = "EXPIRED"] ELSE signal[s]]
    BY Touched, <2>3, <2>4
       DEF Touches, Supersede, PressStart, PressAdvance, DayEnds, Retarget
  <2>6. QED BY <2>2, <2>5 DEF NoneActive, Invalidated
<1>4. QED BY <1>2, <1>3

LEMMA SizeStep ==
  ASSUME Typed, DayInv, RenewInv, FreezeInv, SizeInv, AllocNext PROVE SizeInv'
BY SignalsFit, SizesFit, BuysFit, StartQuiet DEF SizeInv

-----------------------------------------------------------------------------
(* The barrier between SELLs and BUYs: a symbol a pass has dealt with is not *)
(* above its target, or its SELL of this generation was used; a pass comes to *)
(* the BUYs, and live a BUY is wished for, only when that holds of every     *)
(* symbol and no SELL is open.                                             *)

Done(s) == Surplus(s) = 0 \/ Spent(s)
AllDone == \A s \in Symbols : Done(s)
Past(t) ==
  /\ pc[t] = "sell" => \A s \in Symbols : s < at[t] => Done(s)
  /\ pc[t] \in {"sold", "buy", "signal"} => AllDone
  /\ pc[t] \in {"buy", "signal"} => OpenSells = {}
BarrierInv ==
  ~raced => /\ \A t \in Threads : Past(t)
            /\ live /\ Wishes => OpenSells = {} /\ AllDone

LEMMA SurplusMeansNow ==
  Typed => \A s \in Symbols : Surplus(s) = 0 <=> qty[s] <= Effective(s, tqty[s])
BY SurplusMeans DEF Typed

LEMMA SurplusMeansNext ==
  Typed' => \A s \in Symbols : Surplus(s)' = 0 <=> qty'[s] <= Effective(s, tqty[s])'
<1>1. (Typed => \A s \in Symbols : Surplus(s) = 0 <=> qty[s] <= Effective(s, tqty[s]))'
  BY SurplusMeansNow, PTL
<1>2. QED BY <1>1

LEMMA SpentStands ==
  ASSUME Typed, AllocNext, NEW s \in Symbols, gen'[s] = gen[s], Spent(s) PROVE Spent(s)'
<1>1. /\ sell \in [Symbols -> SellForms] /\ \A t \in Threads : at[t] \in Symbols
      /\ sell[s].gen = gen[s] /\ sell[s].st # "none"
  BY TypeParts, Bases DEF Typed, OrderTypes, Spent
<1>2. Touches
  BY Touched
<1> SUFFICES sell'[s].gen = gen[s] /\ sell'[s].st # "none"
  BY DEF Spent
<1> HIDE DEF Threads, Symbols
<1>3. ASSUME NEW t \in Threads, NEW r \in Symbols, CancelOrder(t, r)
      PROVE  sell'[s].gen = gen[s] /\ sell'[s].st # "none"
  <2>1. ASSUME NEW k, sell' = [sell EXCEPT ![r].left = @ - k, ![r].st = "ended"]
        PROVE  sell'[s].gen = gen[s] /\ sell'[s].st # "none"
    BY <1>1, <2>1 DEF SellForms
  <2>2. QED BY <1>1, <1>3, <2>1 DEF CancelOrder
<1>4. ASSUME NEW r \in Symbols, SellFills(r) \/ SellEnds(r)
      PROVE  sell'[s].gen = gen[s] /\ sell'[s].st # "none"
  BY <1>1, <1>4 DEF SellFills, SellEnds, SellForms
<1>5. ASSUME NEW t \in Threads, SellNew(t)
      PROVE  sell'[s].gen = gen[s] /\ sell'[s].st # "none"
  <2>1. at[t] \in Symbols
        /\ \E row : sell' = [sell EXCEPT ![at[t]] = row] /\ row.gen = gen[at[t]] /\ row.st # "none"
    BY <1>1, <1>5 DEF SellNew
  <2>2. QED BY <1>1, <2>1
<1>6. QED BY <1>1, <1>2, <1>3, <1>4, <1>5 DEF Touches

(* A symbol that is dealt with stays so while its target is left alone.    *)
LEMMA DoneStands ==
  ASSUME Typed, SizeInv, AllocNext, ~raced', NEW s \in Symbols, gen'[s] = gen[s],
         tqty'[s] = tqty[s], Done(s)
  PROVE  Done(s)'
<1>1. /\ ~raced /\ (buy[s] > 0 => qty[s] + buy[s] <= Effective(s, tqty[s]))
      /\ Effective(s, tqty[s]) \in Nat /\ Effective(s, tqty[s])' \in Nat
      /\ tqty[s] \in Nat /\ AllocTypeOK
  BY Unraced, TypedStep, EffectiveNat, EffectiveNatNext, Amounts DEF SizeInv, Typed
<1>2. /\ qty[s] \in Nat /\ buy[s] \in Nat /\ qty'[s] \in Nat
      /\ qty'[s] <= qty[s] + buy[s]
  BY SumFalls
<1>3. CASE Spent(s)
  BY <1>3, SpentStands DEF Done
<1>4. CASE Surplus(s) = 0
  <2>1. qty[s] <= Effective(s, tqty[s])
    BY <1>1, <1>4, SurplusMeans
  <2>2. qty'[s] <= Effective(s, tqty[s])'
    <3>1. CASE Activate
      BY <1>1, <3>1 DEF Activate, Typed, LadderInv, Flat, ledgerVars
    <3>2. CASE ~Activate /\ status = "NOT_STARTED"
      <4>1. Effective(s, tqty[s]) <= qty[s] /\ qty[s] <= tqty[s]
        BY <1>1, <2>1, <3>2, EffectiveMeans
      <4>2. qty'[s] <= tqty'[s]
        BY <1>1, <1>2, <4>1
      <4>3. Effective(s, tqty[s])' = Least(qty'[s], tqty'[s])
        <5>1. status' = "NOT_STARTED"
          BY <3>2, EffectiveRises
        <5>2. QED BY <5>1 DEF Effective
      <4>4. QED BY <1>2, <4>2, <4>3 DEF Least
    <3>3. CASE ~Activate /\ status # "NOT_STARTED"
      <4>1. Effective(s, tqty[s]) <= Effective(s, tqty[s])'
        BY <3>3, EffectiveRises
      <4>2. QED BY <1>1, <1>2, <2>1, <4>1
    <3>4. QED BY <3>1, <3>2, <3>3
  <2>3. Surplus(s)' = 0
    BY <2>2, TypedStep, SurplusMeansNext
  <2>4. QED BY <2>3 DEF Done
<1>5. QED BY <1>3, <1>4 DEF Done

LEMMA OpenSellsStand ==
  ASSUME Typed, AllocNext, OpenSells = {}, ~live \/ \A t \in Threads : ~SellNew(t)
  PROVE  OpenSells' = {}
<1>1. sell \in [Symbols -> SellForms] /\ Touches
  BY Touched, TypeParts DEF Typed, OrderTypes
<1>2. CASE ~live
  BY <1>1, <1>2, TypedStep DEF Touches, Typed, SoldInv
<1>3. CASE \A t \in Threads : ~SellNew(t)
  <2> SUFFICES ASSUME NEW s \in Symbols, sell'[s].st = "open" PROVE FALSE
    BY DEF OpenSells
  <2> HIDE DEF Threads, Symbols
  <2>1. \A r \in Symbols : sell[r].st # "open"
    BY DEF OpenSells
  <2>2. QED BY <1>1, <1>3, <2>1 DEF Touches, CancelOrder, SellFills, SellEnds
<1>4. QED BY <1>2, <1>3

(* The SELL loop leaves the symbol it goes on from dealt with.             *)
LEMMA PastOne ==
  ASSUME Typed, SizeInv, AllocNext, ~raced', NEW t \in Threads, Past(t),
         NoSurplus(t) \/ SellNew(t) \/ SellAgain(t)
  PROVE  \A s \in Symbols : s < at[t] \/ s = at[t] => Done(s)'
<1>1. /\ pc[t] = "sell" /\ UNCHANGED <<gen, tqty>> /\ sell \in [Symbols -> SellForms]
      /\ \A s \in Symbols : s < at[t] => Done(s)
  BY TypeParts DEF NoSurplus, SellNew, SellAgain, Past, ledgerVars, Typed, OrderTypes
<1>2. \A s \in Symbols : Done(s) => Done(s)'
  BY <1>1, DoneStands
<1>3. ASSUME NEW s \in Symbols, s = at[t] PROVE Done(s)'
  <2>1. CASE NoSurplus(t)
    BY <1>2, <1>3, <2>1 DEF NoSurplus, Done
  <2>2. CASE SellAgain(t)
    BY <1>2, <1>3, <2>2 DEF SellAgain, Done
  <2>3. CASE SellNew(t)
    <3>1. sell'[s].gen = gen[s] /\ sell'[s].st # "none"
      BY <1>1, <1>3, <2>3 DEF SellNew
    <3>2. QED BY <1>1, <3>1 DEF Done, Spent
  <2>4. QED BY <2>1, <2>2, <2>3
<1>4. QED BY <1>1, <1>2, <1>3

LEMMA PastMoves ==
  ASSUME Typed, SizeInv, BarrierInv, AllocNext, ~raced', NEW t \in Threads, Pass(t)
  PROVE  Past(t)'
<1>1. /\ pc \in [Threads -> Labels] /\ at \in [Threads -> Symbols] /\ SymbolCount \in Nat \ {0}
      /\ \A s \in Symbols : s \in Nat /\ s <= SymbolCount /\ ~(s < 1)
      /\ at[t] \in Symbols /\ at[t] \in Nat
  BY Bases
<1>2. Arrivals(t) /\ Past(t)
  BY Arrived, Unraced DEF BarrierInv
<1> HIDE DEF Threads, Symbols
<1>3. ASSUME UNCHANGED <<gen, tqty>>, AllDone PROVE AllDone'
  BY <1>3, DoneStands DEF AllDone
<1>4. ASSUME NoSurplus(t) \/ SellNew(t) \/ SellAgain(t), pc'[t] # "idle"
      PROVE  /\ pc'[t] = "sell" => \A s \in Symbols : s < at'[t] => Done(s)'
             /\ pc'[t] = "sold" => AllDone'
  <2>1. pc[t] = "sell" /\ "sold" \in Labels /\ (Next1(t, "sold") \/ Goto(t, "idle"))
    BY <1>4 DEF NoSurplus, SellNew, SellAgain, Labels
  <2>2. Next1(t, "sold")
    BY <1>1, <1>4, <2>1 DEF Goto
  <2>3. \/ pc'[t] = "sell" /\ at'[t] = at[t] + 1
        \/ pc'[t] = "sold" /\ at[t] = SymbolCount
    BY <1>1, <2>1, <2>2, WalkTypes
  <2>4. \A s \in Symbols : s < at[t] \/ s = at[t] => Done(s)'
    BY <1>2, <1>4, PastOne
  <2>5. CASE pc'[t] = "sell" /\ at'[t] = at[t] + 1
    BY <1>1, <2>4, <2>5
  <2>6. CASE pc'[t] = "sold" /\ at[t] = SymbolCount
    BY <1>1, <2>4, <2>6 DEF AllDone
  <2>7. QED BY <2>3, <2>5, <2>6
<1>5. CASE pc'[t] = "sell"
  <2>1. CASE Check(t) \/ SetKey(t)
    BY <1>1, <1>5, <2>1 DEF Check, SetKey, Typed, PlaceInv, Past
  <2>2. CASE NoSurplus(t) \/ SellNew(t) \/ SellAgain(t)
    BY <1>4, <1>5, <2>2 DEF Past
  <2>3. QED BY <1>2, <1>5, <2>1, <2>2 DEF Arrivals
<1>6. CASE pc'[t] = "sold"
  BY <1>2, <1>4, <1>6 DEF Arrivals, Past
<1>7. CASE pc'[t] \in {"buy", "signal"}
  <2>1. CASE Sold(t)
    <3>1. pc[t] = "sold" /\ OpenSells = {} /\ UNCHANGED <<gen, tqty, sell>>
      BY <1>1, <1>7, <2>1 DEF Sold, Goto, ledgerVars
    <3>2. QED BY <1>2, <1>3, <1>7, <3>1 DEF Past, OpenSells
  <2>2. CASE ReadMissing(t) \/ OpenSignal(t)
    <3>1. pc[t] \in {"buy", "signal"} /\ UNCHANGED <<gen, tqty, sell>>
      BY <2>2 DEF ReadMissing, OpenSignal, ledgerVars
    <3>2. QED BY <1>2, <1>3, <1>7, <3>1 DEF Past, OpenSells
  <2>3. QED BY <1>2, <1>7, <2>1, <2>2 DEF Arrivals
<1>8. QED BY <1>5, <1>6, <1>7 DEF Past

LEMMA PastStays ==
  ASSUME Typed, SizeInv, BarrierInv, AllocNext, ~raced', NEW t \in Threads,
         pc'[t] = pc[t], at'[t] = at[t]
  PROVE  Past(t)'
<1>1. Past(t)
  BY Unraced DEF BarrierInv
<1>2. CASE pc[t] \notin Selling
  BY <1>2 DEF Past, Selling
<1>3. CASE pc[t] \in Selling
  <2>1. UNCHANGED <<gen, tqty>>
    BY <1>3, RowsStand DEF Selling, Trading, FreezeTarget
  <2>2. \A s \in Symbols : Done(s) => Done(s)'
    BY <2>1, DoneStands
  <2>3. pc[t] \in {"buy", "signal"} => OpenSells' = {}
    <3> SUFFICES ASSUME pc[t] \in {"buy", "signal"} PROVE OpenSells' = {}
      OBVIOUS
    <3>1. OpenSells = {}
      BY <1>1 DEF Past
    <3>2. ~live \/ \A u \in Threads : ~SellNew(u)
      BY DEF Typed, LadderInv, Threads, SellNew
    <3>3. QED BY <3>1, <3>2, OpenSellsStand
  <2>4. QED BY <1>1, <2>2, <2>3 DEF Past, AllDone
<1>4. QED BY <1>2, <1>3

LEMMA LiveWishes ==
  ASSUME Typed, DayInv, RenewInv, FreezeInv, SizeInv, BarrierInv, AllocNext, ~raced',
         live', Wishes'
  PROVE  OpenSells' = {} /\ AllDone'
<1>1. /\ live /\ Touches /\ \A t \in Threads : at[t] \in Symbols /\ Past(t)
      /\ Wishes => OpenSells = {} /\ AllDone
  BY Unraced, Touched, Bases DEF BarrierInv, Touches
<1>2. CASE \E t \in Threads : OpenSignal(t)
  <2>1. OpenSells = {} /\ AllDone /\ UNCHANGED <<gen, tqty, sell>>
    BY <1>1, <1>2 DEF OpenSignal, Past
  <2>2. QED BY <2>1, DoneStands DEF AllDone, OpenSells
<1>3. CASE Wishes
  <2>1. \A b \in Budgets : ~Retarget(b)
    <3> SUFFICES ASSUME NEW b \in Budgets, Retarget(b) PROVE FALSE
      OBVIOUS
    <3>1. (\A s \in Symbols : ~(buy'[s] > 0)) /\ signal' = Invalidated
      BY DEF Retarget, OpenOrders
    <3>2. QED BY <3>1 DEF Wishes, Invalidated
  <2>2. UNCHANGED <<gen, tqty>>
    BY <1>3, <2>1, TargetsStand
  <2>3. AllDone'
    BY <1>1, <1>3, <2>2, DoneStands DEF AllDone
  <2>4. \A t \in Threads : ~SellNew(t)
    BY <1>1, <1>3 DEF SellNew, AllDone, Done
  <2>5. QED BY <1>1, <1>3, <2>3, <2>4, OpenSellsStand
<1>4. QED BY <1>2, <1>3, WishesBegin

LEMMA BarrierStep ==
  ASSUME Typed, DayInv, RenewInv, FreezeInv, SizeInv, BarrierInv, AllocNext PROVE BarrierInv'
<1> SUFFICES ASSUME ~raced', NEW t \in Threads PROVE Past(t)'
  BY LiveWishes DEF BarrierInv
<1>1. CASE Pass(t)
  BY <1>1, PastMoves
<1>2. CASE pc'[t] = pc[t] /\ at'[t] = at[t]
  BY <1>2, PastStays
<1>3. CASE pc'[t] \notin Selling
  BY <1>3 DEF Past, Selling
<1>4. ASSUME NEW u \in Threads, Pass(u), u # t PROVE pc'[t] = pc[t] /\ at'[t] = at[t]
  BY <1>4, PassMoves DEF Moved
<1>5. Parked => pc'[t] \notin Selling
  BY DEF Parked, Selling
<1>6. Onboarding => pc'[t] \notin Selling \/ (pc'[t] = pc[t] /\ at'[t] = at[t])
  BY PressMoves DEF Threads, ChatLabels, Selling
<1>7. QED BY <1>1, <1>2, <1>3, <1>4, <1>5, <1>6, OthersMove

-----------------------------------------------------------------------------
(* The inductive invariant of the pass.                                    *)

AllocInv == /\ Typed /\ DayInv /\ PaceInv /\ RenewInv /\ GenInv
            /\ FreezeInv /\ SizeInv /\ BarrierInv

LEMMA AllocInvInit == Init => AllocInv
<1> SUFFICES ASSUME Init PROVE AllocInv
  OBVIOUS
<1>1. Typed
  BY TypedInit
<1>2. /\ day = 1 /\ marker = 0 /\ frozen = 0 /\ startedOn = 0 /\ filledOn = 0
      /\ \A s \in Symbols : gen[s] = 0 /\ buy[s] = 0 /\ signal[s].st = "none"
      /\ \A t \in Threads : pc[t] = "idle"
  BY DEF Init, NoSignal
<1>3. pc["chat"] = "idle" /\ ~Wishes
  BY <1>2 DEF Threads, Wishes
<1> HIDE DEF Threads, Symbols
<1>4. DayInv
  BY <1>2 DEF DayInv, Trading
<1>5. PaceInv
  BY <1>2, <1>3 DEF PaceInv
<1>6. RenewInv
  BY <1>2 DEF RenewInv, Renews, Renewing
<1>7. GenInv
  BY <1>2 DEF GenInv
<1>8. FreezeInv
  BY <1>2, <1>3 DEF FreezeInv, Freezes, Settled, Selling
<1>9. SizeInv
  BY <1>2, <1>3 DEF SizeInv
<1>10. BarrierInv
  BY <1>2, <1>3 DEF BarrierInv, Past
<1>11. QED BY <1>1, <1>4, <1>5, <1>6, <1>7, <1>8, <1>9, <1>10 DEF AllocInv

LEMMA AllocInvStep == AllocInv /\ [AllocNext]_allocVars => AllocInv'
<1>1. ASSUME AllocInv, AllocNext PROVE AllocInv'
  BY <1>1, TypedStep, DayStep, PaceStep, RenewStep, GenStep, FreezeStep, SizeStep, BarrierStep
     DEF AllocInv
<1>2. ASSUME AllocInv, UNCHANGED allocVars PROVE AllocInv'
  <2>1. Typed'
    BY <1>2, TypedStep DEF AllocInv
  <2>2. DayInv' /\ PaceInv'
    BY <1>2, Zenon DEF AllocInv, DayInv, PaceInv, allocVars
  <2>3. RenewInv' /\ GenInv'
    BY <1>2, Zenon DEF AllocInv, RenewInv, Renews, NoneActive, NoBuys, GenInv, allocVars
  <2>4. FreezeInv'
    BY <1>2, Zenon DEF AllocInv, FreezeInv, Freezes, OneLeft, Keyed, Wishes, Full, allocVars
  <2>5. SizeInv'
    BY <1>2, Zenon DEF AllocInv, SizeInv, Fits, NoneActive, Effective, Fraction, allocVars
  <2>6. BarrierInv'
    BY <1>2, Zenon DEF AllocInv, BarrierInv, Past, AllDone, Done, Surplus, Spent, Effective,
                       Fraction, Wishes, OpenSells, allocVars
  <2>7. QED BY <2>1, <2>2, <2>3, <2>4, <2>5, <2>6 DEF AllocInv
<1>3. QED BY <1>1, <1>2

LEMMA AllocInvHolds == AllocSpec => []AllocInv
BY AllocInvInit, AllocInvStep, PTL DEF AllocSpec

-----------------------------------------------------------------------------
(* Between passes all rows belong to one generation, as long as the process *)
(* did not end among the writes of set_core_target and no two passes met on *)
(* them (run_allocation 150-161).                                          *)
THEOREM OneGenerationHolds == AllocSpec => []OneGeneration
<1>1. AllocInv => OneGeneration
  BY OneGenerationFollows DEF AllocInv
<1>2. QED BY <1>1, AllocInvHolds, PTL

(* A SELL takes a symbol to the quantity its weight buys out of a budget,   *)
(* capped by the onboarding stage, and not a share below: quantities that   *)
(* were written for some symbols only (run_allocation 237-270) are never    *)
(* sold on.                                                                *)
THEOREM SoldToTargetHolds == AllocSpec => SoldToTarget
<1>1. AllocInv /\ [AllocNext]_allocVars =>
        [\A s \in Symbols : sell'[s].gen # sell[s].gen /\ ~raced =>
           \E b \in Budgets : qty[s] - sell'[s].n = Effective(s, Full(s, b))]_allocVars
  BY SellsToTarget DEF AllocInv
<1>2. QED BY <1>1, AllocInvHolds, PTL DEF AllocSpec, SoldToTarget

(* No BUY signal comes up while a symbol is above its target with its SELL  *)
(* of the generation unused, or a SELL is open: neither from a pass (the    *)
(* barriers of run_allocation 272-302) nor from the monitor that reopens    *)
(* the signal of a BUY that ended short.                                   *)
THEOREM SellsFirstUnspentHolds == AllocSpec => SellsFirstUnspent
<1>1. ASSUME AllocInv, AllocNext, ~raced, NEW s \in Symbols,
             signal'[s].st = "ACTIVE", signal[s].st # "ACTIVE"
      PROVE  \A r \in Symbols : (Surplus(r) = 0 \/ Spent(r)) /\ sell[r].st # "open"
  <2>1. Touches /\ signal \in [Symbols -> SignalForms]
    BY <1>1, Touched, TypeParts DEF AllocInv, Typed, OrderTypes
  <2>2. /\ \A t \in Threads : Past(t)
        /\ live /\ Wishes => OpenSells = {} /\ AllDone
    BY <1>1 DEF AllocInv, BarrierInv
  <2> SUFFICES OpenSells = {} /\ AllDone
    BY DEF OpenSells, AllDone, Done
  <2> HIDE DEF Threads, Symbols
  <2>3. CASE \E t \in Threads : OpenSignal(t)
    BY <2>2, <2>3 DEF OpenSignal, Past
  <2>4. CASE \E r \in Symbols : BuyEnds(r)
    BY <2>2, <2>4 DEF BuyEnds, Wishes
  <2>5. ~(\E r \in Symbols : BuyPlaced(r))
    <3> SUFFICES ASSUME NEW r \in Symbols, BuyPlaced(r) PROVE FALSE
      OBVIOUS
    <3>1. signal' = [signal EXCEPT ![r].st = "PROCESSED"]
      BY DEF BuyPlaced
    <3>2. QED BY <1>1, <2>1, <3>1 DEF SignalForms
  <2>6. signal' # signal /\ signal' # Invalidated /\ ~DayEnds
    BY <1>1, <2>1 DEF Invalidated, DayEnds, SignalForms
  <2>7. QED
    BY <2>1, <2>3, <2>4, <2>5, <2>6
       DEF Touches, Supersede, PressStart, PressAdvance, Retarget
<1>2. AllocInv /\ [AllocNext]_allocVars =>
        [\A s \in Symbols :
           signal'[s].st = "ACTIVE" /\ signal[s].st # "ACTIVE" /\ ~raced
             => \A r \in Symbols : (Surplus(r) = 0 \/ Spent(r))
                                  /\ sell[r].st # "open"]_allocVars
  BY <1>1
<1>3. QED BY <1>2, AllocInvHolds, PTL DEF AllocSpec, SellsFirstUnspent

(* The two promises of the staged first entry: no BUY lifts a symbol above  *)
(* what its stage allows, although an order is only bounded by its signal   *)
(* and the full target (initial_onboarding_portfolio 42-45), and two stages *)
(* open at least the minimum number of sessions apart (advance_onboarding). *)
THEOREM FirstEntryStagedHolds == AllocSpec => FirstEntryStaged
<1>1. ASSUME AllocInv, AllocNext, ~raced, NEW s \in Symbols, buy'[s] > buy[s]
      PROVE  qty[s] + buy'[s] <= Effective(s, tqty[s])
  <2>1. Touches /\ buy \in [Symbols -> Nat]
    BY <1>1, Touched, TypeParts DEF AllocInv, Typed, OrderTypes
  <2>2. buy[s] \in Nat
    BY <2>1
  <2>3. BuyPlaced(s)
    <3> HIDE DEF Threads, Symbols
    <3>1. \A t \in Threads : \A r \in Symbols : ~CancelOrder(t, r)
      <4> SUFFICES ASSUME NEW t \in Threads, NEW r \in Symbols, CancelOrder(t, r) PROVE FALSE
        OBVIOUS
      <4>1. buy' = buy \/ buy' = [buy EXCEPT ![r] = 0]
        BY DEF CancelOrder
      <4>2. QED BY <1>1, <2>1, <2>2, <4>1
    <3>2. \A r \in Symbols : ~BuyFills(r)
      <4> SUFFICES ASSUME NEW r \in Symbols, BuyFills(r) PROVE FALSE
        OBVIOUS
      <4>1. PICK k \in 1..buy[r] : buy' = [buy EXCEPT ![r] = @ - k]
        BY DEF BuyFills
      <4>2. buy[r] \in Nat
        BY <2>1
      <4>3. QED BY <1>1, <2>1, <2>2, <4>1, <4>2
    <3>3. \A r \in Symbols : ~BuyEnds(r)
      BY <1>1, <2>1, <2>2 DEF BuyEnds
    <3>4. PICK r \in Symbols : BuyPlaced(r)
      BY <1>1, <2>1, <2>2, <3>1, <3>2, <3>3 DEF Touches
    <3>5. r = s
      BY <1>1, <2>1, <2>2, <3>4 DEF BuyPlaced
    <3>6. QED BY <3>4, <3>5
  <2>4. QED BY <1>1, <2>3, PlacedFits DEF AllocInv
<1>2. AllocInv /\ [AllocNext]_allocVars =>
        [\A s \in Symbols : buy'[s] > buy[s] /\ status = "ACTIVE" /\ ~raced
           => qty[s] + buy'[s] <= Effective(s, tqty[s])]_allocVars
  BY <1>1
<1>3. AllocInv /\ [AllocNext]_allocVars =>
        [stage' > stage /\ stage >= 1 /\ crashes = 0 => day - startedOn >= Gap]_allocVars
  BY StageIsApart DEF AllocInv
<1>4. AllocSpec => CapHeld
  BY <1>2, AllocInvHolds, PTL DEF AllocSpec, CapHeld
<1>5. AllocSpec => StagesApart
  BY <1>3, AllocInvHolds, PTL DEF AllocSpec, StagesApart
<1>6. QED BY <1>4, <1>5 DEF FirstEntryStaged
=============================================================================
