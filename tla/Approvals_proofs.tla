-------------------------- MODULE Approvals_proofs --------------------------
(***************************************************************************)
(* The approvals by hand (Approvals): their inductive invariant, and the    *)
(* theorems that follow, for any set of signals and targets, any number of  *)
(* callback threads and of approvals.                                       *)
(***************************************************************************)
EXTENDS Approvals, SequenceTheorems, FiniteSetTheorems, TLAPS

-----------------------------------------------------------------------------
(* Types, and what a step makes of the approvals.                          *)

SlipForms == [sig : Signals, stage : {"REVIEW", "EXECUTION"}, qty : Nat,
              st : {"ACTIVE", "USED", "CANCELED"}]
Spending == {"quote", "submit", "post", "mark", "reopen"}
HandSteps == Spending \cup {"idle", "review", "collect", "next"}
HandForms == [step : HandSteps, slip : Nat, todo : Seq(Signals \cup Nat), got : Seq(Nat)]
Papers == 1..Len(slips)

(* An approval is never lost, keeps what is printed on it, and ends once. *)
Kept ==
  /\ slips' \in Seq(SlipForms) /\ Len(slips') >= Len(slips)
  /\ \A i \in Papers : /\ slips'[i].sig = slips[i].sig /\ slips'[i].qty = slips[i].qty
                       /\ slips'[i].st = slips[i].st \/ slips[i].st = "ACTIVE"

LEMMA SlipFits ==
  ASSUME NEW r \in SlipForms, NEW st \in {"ACTIVE", "USED", "CANCELED"}
  PROVE  /\ [r EXCEPT !.st = st] \in SlipForms
         /\ [r EXCEPT !.st = st].sig = r.sig /\ [r EXCEPT !.st = st].qty = r.qty
         /\ [r EXCEPT !.st = st].st = st
BY DEF SlipForms

(* cancel_approval: the live approvals of the signals end, nothing else.   *)
LEMMA CanceledFacts ==
  ASSUME slips \in Seq(SlipForms), NEW S, slips' = Canceled(S)
  PROVE  /\ Kept /\ Len(slips') = Len(slips)
         /\ \A i \in Live(S) : slips'[i].st = "CANCELED"
<1>1. DOMAIN slips = Papers /\ Len(slips) \in Nat /\ \A i \in Papers : slips[i] \in SlipForms
  BY LenProperties, ElementOfSeq DEF Papers
<1>2. \A i \in Papers : slips'[i] = IF slips[i].sig \in S /\ slips[i].st = "ACTIVE"
                                    THEN [slips[i] EXCEPT !.st = "CANCELED"] ELSE slips[i]
  BY <1>1 DEF Canceled
<1>3. \A i \in Papers :
        /\ slips'[i] \in SlipForms
        /\ slips'[i].sig = slips[i].sig /\ slips'[i].qty = slips[i].qty
        /\ slips'[i].st = slips[i].st \/ slips[i].st = "ACTIVE"
        /\ slips[i].sig \in S /\ slips[i].st = "ACTIVE" => slips'[i].st = "CANCELED"
  <2> TAKE i \in Papers
  <2>1. CASE slips[i].sig \in S /\ slips[i].st = "ACTIVE"
    <3>1. slips'[i] = [slips[i] EXCEPT !.st = "CANCELED"] /\ slips[i] \in SlipForms
      BY <1>1, <1>2, <2>1
    <3>2. "CANCELED" \in {"ACTIVE", "USED", "CANCELED"}
      OBVIOUS
    <3>3. /\ slips'[i] \in SlipForms /\ slips'[i].sig = slips[i].sig
          /\ slips'[i].qty = slips[i].qty /\ slips'[i].st = "CANCELED"
      BY <3>1, <3>2, SlipFits, Zenon
    <3>4. QED BY <2>1, <3>3
  <2>2. CASE ~(slips[i].sig \in S /\ slips[i].st = "ACTIVE")
    <3>1. slips'[i] = slips[i]
      BY <1>2, <2>2
    <3>2. QED BY <1>1, <2>2, <3>1
  <2>3. QED BY <2>1, <2>2
<1>4. slips' \in [Papers -> SlipForms]
  BY <1>1, <1>3 DEF Canceled
<1>5. slips' \in Seq(SlipForms) /\ Len(slips') = Len(slips)
  BY <1>1, <1>4 DEF Papers
<1>6. QED BY <1>1, <1>3, <1>5 DEF Kept, Live

LEMMA UsedFacts ==
  ASSUME slips \in Seq(SlipForms), NEW i \in Papers, slips' = [slips EXCEPT ![i].st = "USED"],
         slips[i].st = "ACTIVE"
  PROVE  Kept /\ Len(slips') = Len(slips) /\ slips'[i].st = "USED"
<1>1. Len(slips) \in Nat /\ slips[i] \in SlipForms
  BY LenProperties, ElementOfSeq DEF Papers
<1>2. slips' = [slips EXCEPT ![i] = [slips[i] EXCEPT !.st = "USED"]]
  OBVIOUS
<1>3. [slips[i] EXCEPT !.st = "USED"] \in SlipForms
  BY <1>1, SlipFits
<1>4. /\ slips' \in Seq(SlipForms) /\ Len(slips') = Len(slips)
      /\ \A j \in Papers : slips'[j] = IF j = i THEN [slips[i] EXCEPT !.st = "USED"] ELSE slips[j]
  BY <1>2, <1>3, ExceptSeq DEF Papers
<1>5. slips'[i].sig = slips[i].sig /\ slips'[i].qty = slips[i].qty /\ slips'[i].st = "USED"
  BY <1>1, <1>4, SlipFits
<1>6. QED BY <1>1, <1>4, <1>5 DEF Kept

LEMMA AppendFacts ==
  ASSUME slips \in Seq(SlipForms), NEW r \in SlipForms, slips' = Append(slips, r)
  PROVE  Kept /\ Len(slips') = Len(slips) + 1
<1>1. Len(slips) \in Nat
  BY LenProperties
<1>2. /\ slips' \in Seq(SlipForms) /\ Len(slips') = Len(slips) + 1
      /\ \A j \in Papers : slips'[j] = slips[j]
  BY <1>1 DEF Papers
<1>3. \A i \in Papers : /\ slips'[i].sig = slips[i].sig /\ slips'[i].qty = slips[i].qty
                         /\ (slips'[i].st = slips[i].st \/ slips[i].st = "ACTIVE")
  BY <1>2, Zenon
<1>4. Len(slips') >= Len(slips)
  BY <1>1, <1>2
<1>5. QED BY <1>2, <1>3, <1>4, Zenon DEF Kept

LEMMA SameFacts == ASSUME slips \in Seq(SlipForms), UNCHANGED slips
                   PROVE  Kept /\ Len(slips') = Len(slips)
<1>1. Len(slips) \in Nat
  BY LenProperties
<1>2. QED BY <1>1 DEF Kept

(* One handler moves. *)
LEMMA SetHand ==
  ASSUME hand \in [Handlers -> HandForms], NEW h \in Handlers, NEW r \in HandForms, Set(h, r)
  PROVE  /\ hand' \in [Handlers -> HandForms] /\ hand'[h] = r
         /\ \A k \in Handlers : k # h => hand'[k] = hand[k]
BY DEF Set

LEMMA HandFits ==
  ASSUME NEW r \in HandForms, NEW step \in HandSteps, NEW i \in Nat
  PROVE  /\ [r EXCEPT !.step = step] \in HandForms
         /\ [r EXCEPT !.step = step].step = step
         /\ [r EXCEPT !.step = step].slip = r.slip /\ [r EXCEPT !.step = step].todo = r.todo
         /\ [r EXCEPT !.step = step].got = r.got
         /\ [r EXCEPT !.step = step, !.slip = i] \in HandForms
         /\ [r EXCEPT !.step = step, !.slip = i].step = step
         /\ [r EXCEPT !.step = step, !.slip = i].slip = i
         /\ [r EXCEPT !.step = step, !.slip = i].todo = r.todo
BY DEF HandForms

LEMMA NoHandFits == NoHand \in HandForms /\ NoHand.step = "idle"
<1>1. <<>> \in Seq(Signals \cup Nat) /\ <<>> \in Seq(Nat)
  BY EmptySeq
<1>2. QED BY <1>1 DEF NoHand, HandForms, HandSteps

LEMMA FunSeq ==
  ASSUME NEW n \in Nat, NEW S, NEW f \in [1..n -> S]
  PROVE  f \in Seq(S) /\ Len(f) = n
OBVIOUS

(* The items a batch has gathered so far, behind the mark of its lock. *)
LEMMA GotGrows ==
  ASSUME NEW m \in Nat, NEW q \in Seq(1..m)
  PROVE  LET g == <<0>> \o q \o <<m + 1>>
         IN  g \in Seq(Nat) /\ g # <<>> /\ Tail(g) \in Seq(1..(m + 1))
<1> DEFINE a == <<0>> \o q
           g == a \o <<m + 1>>
<1>1. q \in Seq(0..(m + 1)) /\ <<0>> \in Seq(0..(m + 1)) /\ <<m + 1>> \in Seq(0..(m + 1))
  BY SeqMonotonic
<1>2. /\ a \in Seq(0..(m + 1)) /\ Len(a) = 1 + Len(q)
      /\ \A i \in 1..(1 + Len(q)) : a[i] = IF i <= 1 THEN 0 ELSE q[i - 1]
  BY <1>1, ConcatProperties
<1> HIDE DEF a
<1>3. /\ g \in Seq(0..(m + 1)) /\ Len(g) = Len(q) + 2
      /\ \A i \in 1..(Len(q) + 2) : g[i] = IF i <= 1 + Len(q) THEN a[i] ELSE m + 1
  <2>1. /\ g \in Seq(0..(m + 1)) /\ Len(g) = Len(a) + Len(<<m + 1>>)
        /\ \A i \in 1..(Len(a) + Len(<<m + 1>>)) :
             g[i] = IF i <= Len(a) THEN a[i] ELSE <<m + 1>>[i - Len(a)]
    BY <1>1, <1>2, ConcatProperties
  <2>2. Len(<<m + 1>>) = 1 /\ Len(q) \in Nat /\ Len(a) + 1 = Len(q) + 2
    BY <1>2
  <2> HIDE DEF g
  <2>3. ASSUME NEW i \in 1..(Len(q) + 2), ~(i <= 1 + Len(q))
        PROVE  g[i] = m + 1
    <3>1. i - Len(a) = 1
      BY <1>2, <2>2, <2>3
    <3>2. <<m + 1>>[1] = m + 1 /\ ~(i <= Len(a)) /\ i \in 1..(Len(a) + Len(<<m + 1>>))
      BY <1>2, <2>2, <2>3
    <3>3. g[i] = <<m + 1>>[i - Len(a)]
      BY <2>1, <3>2, Zenon
    <3>4. QED BY <3>1, <3>2, <3>3, Zenon
  <2>4. QED BY <1>2, <2>1, <2>2, <2>3
<1> HIDE DEF g
<1>4. g # <<>> /\ Len(q) \in Nat
  <2>1. Len(g) # 0
    BY <1>3, LenProperties
  <2>2. QED BY <2>1
<1>5. /\ Tail(g) \in Seq(0..(m + 1)) /\ Len(Tail(g)) = Len(q) + 1
      /\ \A i \in 1..(Len(q) + 1) : Tail(g)[i] = g[i + 1]
  BY <1>3, <1>4, HeadTailProperties
<1>6. \A i \in 1..(Len(q) + 1) : Tail(g)[i] \in 1..(m + 1)
  <2> TAKE i \in 1..(Len(q) + 1)
  <2>1. CASE i <= Len(q)
    <3>1. Tail(g)[i] = q[i]
      <4>1. i + 1 \in 1..(Len(q) + 2) /\ i + 1 <= 1 + Len(q) /\ i + 1 \in 1..(1 + Len(q))
            /\ ~(i + 1 <= 1) /\ (i + 1) - 1 = i
        BY <1>4, <2>1
      <4>2. g[i + 1] = a[i + 1]
        BY <1>3, <4>1, Zenon
      <4>3. a[i + 1] = q[(i + 1) - 1]
        BY <1>2, <4>1, Zenon
      <4>4. QED BY <1>5, <4>1, <4>2, <4>3, Zenon
    <3>2. q[i] \in 1..m
      BY <1>4, <2>1, ElementOfSeq
    <3>3. 1..m \subseteq 1..(m + 1)
      OBVIOUS
    <3>4. QED BY <3>1, <3>2, <3>3, Zenon
  <2>2. CASE ~(i <= Len(q))
    BY <1>3, <1>4, <1>5, <2>2
  <2>3. QED BY <2>1, <2>2
<1>7. Tail(g) \in Seq(1..(m + 1))
  <2>1. Tail(g) \in [1..(Len(q) + 1) -> 0..(m + 1)]
    BY <1>5, LenProperties
  <2>2. Tail(g) \in [1..(Len(q) + 1) -> 1..(m + 1)]
    BY <1>6, <2>1
  <2>3. Len(q) + 1 \in Nat
    BY <1>4
  <2>4. QED BY <2>2, <2>3, FunSeq, Zenon
<1>8. g \in Seq(Nat)
  BY <1>3, SeqMonotonic
<1>9. QED BY <1>4, <1>7, <1>8 DEF g, a

-----------------------------------------------------------------------------
(* Who holds which approval.                                               *)

Statuses == {"none", "ACTIVE", "PROCESSED", "INVALID", "EXPIRED"}
BookTypes ==
  /\ sigStatus \in [Signals -> Statuses] /\ plan \in [Signals -> Nat]
  /\ held \in [Signals -> Nat] /\ onOrder \in [Signals -> Nat] /\ goal \in [Signals -> Targets]
PaperTypes ==
  /\ slips \in Seq(SlipForms) /\ Len(slips) <= MaxSlips
  /\ hand \in [Handlers -> HandForms]

(* A handler's hand among n approvals: what it spends, and what it has still to do, exist. *)
HandFit(r, n) ==
  /\ r.step = "collect" => /\ r.todo \in Seq(Signals)
                           /\ r.got # <<>> /\ Tail(r.got) \in Seq(1..n)
  /\ r.step \in Spending \cup {"next"} => r.todo \in Seq(1..n)
  /\ r.step \in Spending \cup {"review"} => r.slip \in 1..n
HandsInv ==
  /\ batch \in Seq(Papers)
  /\ \A h \in Handlers : HandFit(hand[h], Len(slips))

(* An approval in a hand is used up, and in no other hand; one that the operator
   cancelled unpressed is cancelled. *)
SlipInv ==
  /\ \A h \in Handlers : hand[h].step \in Spending => slips[hand[h].slip].st = "USED"
  /\ \A h, k \in Handlers : h # k /\ hand[h].step \in Spending /\ hand[k].step \in Spending
                              => hand[h].slip # hand[k].slip
  /\ \A i \in void : i \in Papers /\ slips[i].st = "CANCELED"

LEMMA FitKept ==
  ASSUME NEW m \in Nat, NEW n \in Nat, m <= n, NEW r, HandFit(r, m)
  PROVE  HandFit(r, n)
<1>1. 1..m \subseteq 1..n
  OBVIOUS
<1>2. r.step = "collect" => Tail(r.got) \in Seq(1..n)
  BY <1>1, SeqMonotonic DEF HandFit
<1>3. r.step \in Spending \cup {"next"} => r.todo \in Seq(1..n)
  BY <1>1, SeqMonotonic DEF HandFit
<1>4. QED BY <1>1, <1>2, <1>3, Zenon DEF HandFit

(* What a handler's step does to its hand: it may take an approval only from the live
   ones, which it uses up. *)
Takes(h, r) ==
  /\ r \in HandForms /\ Set(h, r) /\ HandFit(r, Len(slips'))
  /\ r.step \in Spending =>
       \/ hand[h].step \in Spending /\ r.slip = hand[h].slip
       \/ r.slip \in Papers /\ slips[r.slip].st = "ACTIVE" /\ slips'[r.slip].st = "USED"
Turn(h) == UNCHANGED hand \/ \E r \in HandForms : Takes(h, r)

(* The history of cancelled approvals follows the cancellation. *)
Voided == void' = void \/ \E S : slips' = Canceled(S) /\ void' = void \cup Live(S)

LEMMA LetsGo ==
  ASSUME NEW h \in Handlers, Set(h, NoHand)
  PROVE  Takes(h, NoHand)
BY NoHandFits DEF Takes, HandFit, Spending

LEMMA TurnKeeps ==
  ASSUME PaperTypes, HandsInv, SlipInv, Kept, Voided, NEW h \in Handlers, Turn(h)
  PROVE  /\ hand' \in [Handlers -> HandForms] /\ SlipInv'
         /\ \A k \in Handlers : HandFit(hand'[k], Len(slips'))
<1> USE DEF PaperTypes
<1>1. Len(slips) \in Nat /\ Len(slips') \in Nat /\ Len(slips) <= Len(slips')
  BY LenProperties DEF Kept
<1>2. \A k \in Handlers : HandFit(hand[k], Len(slips'))
  BY <1>1, FitKept DEF HandsInv
<1>3. \A i \in Papers : i \in Papers' /\ (slips[i].st # "ACTIVE" => slips'[i].st = slips[i].st)
  BY <1>1 DEF Kept, Papers
<1>4. \A k \in Handlers : hand[k].step \in Spending =>
        hand[k].slip \in Papers /\ slips[hand[k].slip].st = "USED"
  BY DEF HandsInv, HandFit, SlipInv, Papers
<1>5. \A i \in void' : i \in Papers' /\ slips'[i].st = "CANCELED"
  <2>1. \A i \in void : i \in Papers' /\ slips'[i].st = "CANCELED"
    BY <1>3 DEF SlipInv
  <2>2. CASE void' = void
    BY <2>1, <2>2
  <2>3. ASSUME NEW S, slips' = Canceled(S), void' = void \cup Live(S)
        PROVE  \A i \in void' : i \in Papers' /\ slips'[i].st = "CANCELED"
    <3>1. \A i \in Live(S) : i \in Papers /\ slips'[i].st = "CANCELED"
      BY <2>3, CanceledFacts, LenProperties DEF Live, Papers
    <3>2. QED BY <1>3, <2>1, <2>3, <3>1
  <2>4. QED BY <2>2, <2>3 DEF Voided
<1>6. CASE UNCHANGED hand
  <2>1. \A k \in Handlers : hand[k].step \in Spending => slips'[hand[k].slip].st = "USED"
    BY <1>3, <1>4
  <2>2. QED BY <1>2, <1>5, <1>6, <2>1 DEF SlipInv
<1>7. ASSUME NEW r \in HandForms, Takes(h, r)
      PROVE  /\ hand' \in [Handlers -> HandForms] /\ SlipInv'
             /\ \A k \in Handlers : HandFit(hand'[k], Len(slips'))
  <2>1. /\ hand' \in [Handlers -> HandForms] /\ hand'[h] = r
        /\ \A k \in Handlers : k # h => hand'[k] = hand[k]
    BY <1>7, SetHand DEF Takes
  <2>2. \A k \in Handlers : HandFit(hand'[k], Len(slips'))
    BY <1>2, <1>7, <2>1 DEF Takes
  <2>3. \A k \in Handlers : hand'[k].step \in Spending => slips'[hand'[k].slip].st = "USED"
    <3>1. \A k \in Handlers : k # h /\ hand'[k].step \in Spending
                                => slips'[hand'[k].slip].st = "USED"
      BY <1>3, <1>4, <2>1
    <3>2. r.step \in Spending => slips'[r.slip].st = "USED"
      BY <1>3, <1>4, <1>7 DEF Takes
    <3>3. QED BY <2>1, <3>1, <3>2
  <2>4. \A k \in Handlers : k # h /\ r.step \in Spending /\ hand[k].step \in Spending
                              => r.slip # hand[k].slip
    BY <1>4, <1>7 DEF Takes, SlipInv
  <2>5. \A j, k \in Handlers :
          j # k /\ hand'[j].step \in Spending /\ hand'[k].step \in Spending
            => hand'[j].slip # hand'[k].slip
    BY <2>1, <2>4 DEF SlipInv
  <2>6. QED BY <1>5, <2>1, <2>2, <2>3, <2>5 DEF SlipInv
<1>8. QED BY <1>6, <1>7 DEF Turn

(* Every action of a handler is a turn of it.                              *)
Turned(h) ==
  /\ Kept /\ Len(slips') <= MaxSlips /\ batch' \in Seq(1..Len(slips'))
  /\ Voided /\ Turn(h)

(* The batch's items stay among the approvals. *)
LEMMA BatchKept ==
  ASSUME PaperTypes, HandsInv, Kept
  PROVE  /\ Len(slips) \in Nat /\ Len(slips') \in Nat /\ Len(slips) <= Len(slips')
         /\ batch \in Seq(1..Len(slips')) /\ <<>> \in Seq(1..Len(slips'))
         /\ \A r : HandFit(r, Len(slips)) => HandFit(r, Len(slips'))
<1>1. Len(slips) \in Nat /\ Len(slips') \in Nat /\ Len(slips) <= Len(slips')
  BY LenProperties DEF Kept, PaperTypes
<1>2. 1..Len(slips) \subseteq 1..Len(slips')
  BY <1>1
<1>3. batch \in Seq(1..Len(slips'))
  BY <1>2, SeqMonotonic DEF HandsInv, Papers
<1>4. QED BY <1>1, <1>3, EmptySeq, FitKept

LEMMA CancelsFacts ==
  ASSUME PaperTypes, HandsInv, NEW h \in Handlers, NEW S, slips' = Canceled(S),
         Set(h, NoHand), void' = void, batch' \in {batch, <<>>}
  PROVE  Turned(h)
<1>1. Kept /\ Len(slips') = Len(slips)
  BY CanceledFacts DEF PaperTypes
<1>2. batch' \in Seq(1..Len(slips'))
  BY <1>1, BatchKept
<1>3. QED BY <1>1, <1>2, LetsGo, NoHandFits DEF Turned, Turn, Voided, PaperTypes

LEMMA StaysFacts ==
  ASSUME PaperTypes, HandsInv, NEW h \in Handlers, UNCHANGED <<slips, void>>,
         NEW r \in HandForms, Set(h, r), HandFit(r, Len(slips)),
         r.step \in Spending => hand[h].step \in Spending /\ r.slip = hand[h].slip,
         batch' \in Seq(1..Len(slips))
  PROVE  Turned(h)
<1>1. Kept /\ Len(slips') = Len(slips)
  BY SameFacts DEF PaperTypes
<1>2. Takes(h, r)
  BY <1>1 DEF Takes
<1>3. QED BY <1>1, <1>2 DEF Turned, Turn, Voided, PaperTypes

(* Within one purchase only the step changes. *)
LEMMA StepsFacts ==
  ASSUME PaperTypes, HandsInv, NEW h \in Handlers, UNCHANGED <<slips, void, batch>>,
         hand[h].step \in Spending, NEW step \in Spending \cup {"next"},
         Set(h, [hand[h] EXCEPT !.step = step])
  PROVE  Turned(h)
<1> DEFINE r == [hand[h] EXCEPT !.step = step]
<1>1. hand[h] \in HandForms /\ step \in HandSteps /\ 0 \in Nat
  BY DEF PaperTypes, HandSteps
<1>2. r \in HandForms /\ r.step = step /\ r.slip = hand[h].slip /\ r.todo = hand[h].todo
  BY <1>1, HandFits
<1>3. HandFit(hand[h], Len(slips))
  BY DEF HandsInv
<1> HIDE DEF r
<1>4. step # "collect" /\ step # "review"
  BY DEF Spending
<1>5. HandFit(r, Len(slips))
  BY <1>2, <1>3, <1>4 DEF HandFit
<1>6. batch' \in Seq(1..Len(slips))
  BY DEF HandsInv, Papers
<1>7. Set(h, r)
  BY DEF r
<1>8. QED BY <1>2, <1>5, <1>6, <1>7, StaysFacts

LEMMA HandlerTurns ==
  ASSUME PaperTypes, BookTypes, HandsInv, NEW h \in Handlers, Callback_(h)
  PROVE  Turned(h)
<1> USE DEF PaperTypes
<1>0. /\ hand[h] \in HandForms /\ HandFit(hand[h], Len(slips)) /\ Len(slips) \in Nat
      /\ DOMAIN slips = Papers /\ batch \in Seq(1..Len(slips))
      /\ \A i \in Papers : slips[i] \in SlipForms
  BY LenProperties, ElementOfSeq DEF HandsInv, Papers
<1>a. \A r \in SlipForms : r.sig \in Signals /\ r.qty \in Nat
  BY DEF SlipForms
<1>b. \A s \in Signals : Quote(s) \in Nat
  <2> TAKE s \in Signals
  <2>1. plan[s] \in Nat /\ held[s] \in Nat /\ onOrder[s] \in Nat /\ goal[s] \in Nat
    BY SlipsAssumption DEF BookTypes
  <2>2. Lacks(s) \in Nat
    BY <2>1 DEF Lacks
  <2>3. QED BY <2>1, <2>2 DEF Quote, Lesser
(* A button takes its approval. *)
<1>c. ASSUME NEW i \in Papers, slips[i].st = "ACTIVE", slips' = [slips EXCEPT ![i].st = "USED"],
             NEW r \in HandForms, Set(h, r), HandFit(r, Len(slips)), r.slip = i,
             UNCHANGED <<void, batch>>
      PROVE  Turned(h)
  <2>1. Kept /\ Len(slips') = Len(slips) /\ slips'[i].st = "USED"
    BY <1>c, UsedFacts
  <2>2. Takes(h, r)
    BY <1>c, <2>1 DEF Takes
  <2>3. QED BY <1>0, <1>c, <2>1, <2>2 DEF Turned, Turn, Voided
<1>d. ASSUME NEW i \in DOMAIN slips, PressReview(h, i) PROVE Turned(h)
  <2> DEFINE r == [NoHand EXCEPT !.step = "review", !.slip = i]
  <2>1. i \in Papers /\ i \in Nat /\ "review" \in HandSteps
    BY <1>0 DEF Papers, HandSteps
  <2>2. r \in HandForms /\ r.step = "review" /\ r.slip = i
    BY <2>1, HandFits, NoHandFits DEF NoHand
  <2>3. Set(h, r)
    BY <1>d DEF PressReview
  <2> HIDE DEF r
  <2>4. HandFit(r, Len(slips))
    BY <2>1, <2>2 DEF HandFit, Spending, Papers
  <2>5. QED BY <1>c, <1>d, <2>1, <2>2, <2>3, <2>4 DEF PressReview
<1>e. ASSUME NEW i \in DOMAIN slips, PressExecute(h, i) PROVE Turned(h)
  <2> DEFINE r == [NoHand EXCEPT !.step = "quote", !.slip = i]
  <2>1. i \in Papers /\ i \in Nat /\ "quote" \in HandSteps
    BY <1>0 DEF Papers, HandSteps, Spending
  <2>2. r \in HandForms /\ r.step = "quote" /\ r.slip = i /\ r.todo = <<>>
    BY <2>1, HandFits, NoHandFits DEF NoHand
  <2>3. Set(h, r)
    BY <1>e DEF PressExecute
  <2> HIDE DEF r
  <2>4. HandFit(r, Len(slips))
    BY <2>1, <2>2, EmptySeq DEF HandFit, Papers
  <2>5. QED BY <1>c, <1>e, <2>1, <2>2, <2>3, <2>4 DEF PressExecute
<1>f. ASSUME NEW S, slips' = Canceled(S), void' = void \cup Live(S), UNCHANGED hand,
             batch' \in {batch, <<>>}
      PROVE  Turned(h)
  <2>1. Kept /\ Len(slips') = Len(slips)
    BY <1>f, CanceledFacts
  <2>2. batch' \in Seq(1..Len(slips'))
    BY <1>f, <2>1, BatchKept
  <2>3. Voided
    BY <1>f DEF Voided
  <2>4. QED BY <1>f, <2>1, <2>2, <2>3 DEF Turned, Turn
<1>1. ASSUME NEW i \in DOMAIN slips, CancelCard(h, i) PROVE Turned(h)
  BY <1>1, <1>f DEF CancelCard
<1>2. CASE ReviewQuoted(h)
  <2> DEFINE s == slips[hand[h].slip].sig
  <2>1. hand[h].slip \in Papers
    BY <1>0, <1>2 DEF ReviewQuoted, HandFit, Papers
  <2>2. s \in Signals /\ Quote(s) \in Nat
    BY <1>0, <1>a, <1>b, <2>1
  <2>3. UNCHANGED <<void, batch>> /\ Set(h, NoHand)
    BY <1>2 DEF ReviewQuoted
  <2>4. CASE slips' = Append(slips, Slip(s, "EXECUTION", Quote(s))) /\ Len(slips) < MaxSlips
    <3>1. Slip(s, "EXECUTION", Quote(s)) \in SlipForms
      BY <2>2 DEF Slip, SlipForms
    <3>2. Kept /\ Len(slips') = Len(slips) + 1
      BY <2>4, <3>1, AppendFacts
    <3>3. Len(slips') <= MaxSlips
      BY <1>0, <2>4, <3>2, SlipsAssumption
    <3>4. QED BY <2>3, <3>2, <3>3, BatchKept, LetsGo, NoHandFits DEF Turned, Turn, Voided
  <2>5. CASE UNCHANGED slips
    BY <2>3, <2>5, SameFacts, BatchKept, LetsGo, NoHandFits DEF Turned, Turn, Voided
  <2>6. QED BY <1>2, <2>4, <2>5 DEF ReviewQuoted
<1>3. CASE Requote(h)
  <2>1. CASE Set(h, [hand[h] EXCEPT !.step = "submit"]) /\ UNCHANGED slips
    BY <1>3, <2>1, StepsFacts DEF Requote, Spending
  <2>2. CASE Failed(h)
    BY <1>3, <2>2, CancelsFacts DEF Requote, Failed
  <2>3. QED BY <1>3, <2>1, <2>2 DEF Requote
<1>4. CASE Reserve(h)
  BY <1>4, StepsFacts DEF Reserve, Spending
<1>5. CASE Posted(h)
  BY <1>5, StepsFacts DEF Posted, Spending
<1>6. CASE MarkProcessed(h)
  <2>1. CASE Set(h, NoHand)
    BY <1>0, <1>6, <2>1, SameFacts, LetsGo, NoHandFits DEF MarkProcessed, Turned, Turn, Voided
  <2>2. CASE Set(h, [hand[h] EXCEPT !.step = "next"])
    BY <1>6, <2>2, StepsFacts DEF MarkProcessed, Spending
  <2>3. QED BY <1>6, <2>1, <2>2 DEF MarkProcessed
<1>7. CASE Reopen(h)
  BY <1>7, CancelsFacts DEF Reopen, Failed
<1>8. CASE PrepareBatch(h)
  <2> DEFINE A == {s \in Signals : sigStatus[s] = "ACTIVE"}
  <2>1. PICK q \in [1..Cardinality(A) -> A] :
          q # <<>> /\ Set(h, [step |-> "collect", slip |-> 0, todo |-> q, got |-> <<0>>])
    BY <1>8 DEF PrepareBatch
  <2>2. Cardinality(A) \in Nat
    <3>1. IsFiniteSet(A)
      BY SlipsAssumption, FS_Subset
    <3>2. QED BY <3>1, FS_CardinalityType
  <2> HIDE DEF A
  <2>3. q \in Seq(A)
    BY <2>1, <2>2, FunSeq
  <2>4. q \in Seq(Signals)
    BY <2>3, SeqMonotonic DEF A
  <2>5. q \in Seq(Signals \cup Nat)
    BY <2>4, SeqMonotonic
  <2> DEFINE r == [step |-> "collect", slip |-> 0, todo |-> q, got |-> <<0>>]
  <2>6. <<0>> \in Seq(Nat) /\ <<0>> # <<>> /\ Tail(<<0>>) \in Seq(1..Len(slips))
    <3>1. <<0>> \in Seq(Nat) /\ <<0>> # <<>> /\ Tail(<<0>>) = <<>>
      OBVIOUS
    <3>2. QED BY <3>1, EmptySeq
  <2>7. r \in HandForms /\ r.step = "collect" /\ r.todo = q /\ r.got = <<0>>
    BY <2>5, <2>6 DEF HandForms, HandSteps
  <2>8. Set(h, r)
    BY <2>1
  <2> HIDE DEF r
  <2>9. HandFit(r, Len(slips)) /\ r.step \notin Spending
    BY <2>4, <2>6, <2>7 DEF HandFit, Spending
  <2>10. UNCHANGED <<slips, void, batch>>
    BY <1>8 DEF PrepareBatch
  <2>11. QED BY <1>0, <2>7, <2>8, <2>9, <2>10, StaysFacts
<1>9. CASE Collect(h)
  <2> DEFINE s == Head(hand[h].todo)
             got == Tail(hand[h].got)
  <2>1. CASE slips' = Canceled(SigsOf(got)) /\ Set(h, NoHand)
    BY <1>9, <2>1, CancelsFacts DEF Collect
  <2>2. CASE /\ slips' = Append(slips, Slip(s, "EXECUTION", Quote(s))) /\ Len(slips) < MaxSlips
             /\ Set(h, [hand[h] EXCEPT !.todo = Tail(@), !.got = <<0>> \o got \o <<Len(slips) + 1>>])
    <3>1. /\ hand[h].todo \in Seq(Signals) /\ hand[h].todo # <<>> /\ hand[h].step = "collect"
          /\ got \in Seq(1..Len(slips))
      BY <1>0, <1>9 DEF Collect, HandFit
    <3>2. s \in Signals /\ Tail(hand[h].todo) \in Seq(Signals)
      BY <3>1, HeadTailProperties
    <3>3. Slip(s, "EXECUTION", Quote(s)) \in SlipForms
      BY <1>b, <3>2 DEF Slip, SlipForms
    <3>4. Kept /\ Len(slips') = Len(slips) + 1
      BY <2>2, <3>3, AppendFacts
    <3>5. Len(slips') <= MaxSlips
      BY <1>0, <2>2, <3>4, SlipsAssumption
    <3> DEFINE g == <<0>> \o got \o <<Len(slips) + 1>>
               r == [hand[h] EXCEPT !.todo = Tail(hand[h].todo), !.got = g]
    <3>6. g \in Seq(Nat) /\ g # <<>> /\ Tail(g) \in Seq(1..Len(slips'))
      BY <1>0, <3>1, <3>4, GotGrows
    <3>7. Set(h, r)
      BY <2>2
    <3> HIDE DEF g
    <3>8. Tail(hand[h].todo) \in Seq(Signals \cup Nat)
      BY <3>2, SeqMonotonic
    <3>9. /\ r \in HandForms /\ r.step = "collect" /\ r.todo = Tail(hand[h].todo) /\ r.got = g
      BY <1>0, <3>1, <3>6, <3>8 DEF HandForms
    <3> HIDE DEF r
    <3>10. HandFit(r, Len(slips')) /\ r.step \notin Spending
      BY <3>2, <3>6, <3>9 DEF HandFit, Spending
    <3>11. Takes(h, r)
      BY <3>7, <3>9, <3>10 DEF Takes
    <3>12. UNCHANGED <<void, batch>>
      BY <1>9 DEF Collect
    <3>13. QED BY <3>4, <3>5, <3>9, <3>11, <3>12, BatchKept DEF Turned, Turn, Voided
  <2>3. QED BY <1>9, <2>1, <2>2 DEF Collect
<1>10. CASE OfferBatch(h)
  <2>1. CASE batch' = Tail(hand[h].got) /\ UNCHANGED slips
    <3>1. batch' \in Seq(1..Len(slips))
      BY <1>0, <1>10, <2>1 DEF OfferBatch, HandFit
    <3>2. QED BY <1>10, <2>1, <3>1, SameFacts, LetsGo, NoHandFits DEF OfferBatch, Turned, Turn, Voided
  <2>2. CASE slips' = Canceled(SigsOf(Tail(hand[h].got))) /\ UNCHANGED batch
    BY <1>10, <2>2, CancelsFacts DEF OfferBatch
  <2>3. QED BY <1>10, <2>1, <2>2 DEF OfferBatch
<1>11. CASE RunBatch(h)
  <2>1. CASE slips' = Canceled(SigsOf(batch)) /\ UNCHANGED hand
    <3>1. Kept /\ Len(slips') = Len(slips) /\ batch' = <<>>
      BY <1>11, <2>1, CanceledFacts DEF RunBatch
    <3>2. QED BY <1>11, <2>1, <3>1, BatchKept DEF RunBatch, Turned, Turn, Voided
  <2>2. CASE /\ Set(h, [step |-> "next", slip |-> 0, todo |-> batch, got |-> <<0>>])
             /\ UNCHANGED slips
    <3> DEFINE r == [step |-> "next", slip |-> 0, todo |-> batch, got |-> <<0>>]
    <3>0. 1..Len(slips) \subseteq Signals \cup Nat
      BY <1>0
    <3>1. <<0>> \in Seq(Nat) /\ batch \in Seq(Signals \cup Nat)
      BY <1>0, <3>0, SeqMonotonic
    <3>2. r \in HandForms /\ r.step = "next" /\ r.todo = batch
      BY <3>1 DEF HandForms, HandSteps
    <3>3. Set(h, r)
      BY <2>2
    <3> HIDE DEF r
    <3>4. HandFit(r, Len(slips)) /\ r.step \notin Spending
      BY <1>0, <3>2 DEF HandFit, Spending
    <3>5. UNCHANGED void /\ batch' \in Seq(1..Len(slips))
      BY <1>11, EmptySeq DEF RunBatch
    <3>6. QED BY <2>2, <3>2, <3>3, <3>4, <3>5, StaysFacts
  <2>3. QED BY <1>11, <2>1, <2>2 DEF RunBatch
<1>12. CASE NextItem(h)
  <2> DEFINE q == hand[h].todo
  <2>1. CASE Set(h, NoHand) /\ UNCHANGED slips
    BY <1>0, <1>12, <2>1, SameFacts, LetsGo, NoHandFits DEF NextItem, Turned, Turn, Voided
  <2>2. CASE Set(h, NoHand) /\ slips' = Canceled(SigsOf(Tail(q)))
    BY <1>12, <2>2, CancelsFacts DEF NextItem
  <2>3. CASE /\ q # <<>> /\ slips[Head(q)].st = "ACTIVE"
             /\ slips' = [slips EXCEPT ![Head(q)].st = "USED"]
             /\ Set(h, [hand[h] EXCEPT !.step = "quote", !.slip = Head(q), !.todo = Tail(q)])
    <3>1. q \in Seq(1..Len(slips))
      BY <1>0, <1>12 DEF NextItem, HandFit
    <3>2. Head(q) \in Papers /\ Tail(q) \in Seq(1..Len(slips))
      BY <2>3, <3>1, HeadTailProperties DEF Papers
    <3> DEFINE i == Head(q)
               t == Tail(q)
               r == [hand[h] EXCEPT !.step = "quote", !.slip = i, !.todo = t]
    <3>3. t \in Seq(Signals \cup Nat) /\ i \in Nat
      <4>1. 1..Len(slips) \subseteq Signals \cup Nat
        BY <1>0
      <4>2. t \in Seq(Signals \cup Nat)
        BY <3>2, <4>1, SeqMonotonic
      <4>3. i \in Nat
        BY <3>2 DEF Papers
      <4>4. QED BY <4>2, <4>3
    <3>4. i \in Papers /\ t \in Seq(1..Len(slips)) /\ slips[i].st = "ACTIVE" /\ Set(h, r)
          /\ slips' = [slips EXCEPT ![i].st = "USED"]
      BY <2>3, <3>2
    <3> HIDE DEF i, t
    <3>5. r \in HandForms /\ r.step = "quote" /\ r.slip = i /\ r.todo = t
      BY <1>0, <3>3 DEF HandForms, HandSteps, Spending
    <3> HIDE DEF r
    <3>6. HandFit(r, Len(slips))
      BY <3>4, <3>5 DEF HandFit, Papers
    <3>7. QED BY <1>12, <1>c, <3>4, <3>5, <3>6 DEF NextItem
  <2>4. QED BY <1>12, <2>1, <2>2, <2>3 DEF NextItem
<1>13. CASE CancelBatch(h)
  BY <1>13, <1>f DEF CancelBatch
<1>14. QED
  BY <1>d, <1>e, <1>1, <1>2, <1>3, <1>4, <1>5, <1>6, <1>7, <1>8, <1>9, <1>10, <1>11, <1>12,
     <1>13 DEF Callback_

-----------------------------------------------------------------------------
(* The inductive invariant, and what follows from it.                      *)

ApprInv == PaperTypes /\ BookTypes /\ HandsInv /\ SlipInv

LEMMA BookTypesStep ==
  PaperTypes /\ BookTypes /\ HandsInv /\ [ApprNext]_apprVars => BookTypes'
<1> SUFFICES ASSUME PaperTypes, BookTypes, HandsInv, [ApprNext]_apprVars
             PROVE  BookTypes'
  OBVIOUS
<1> USE DEF BookTypes, bookVars, Statuses
<1>0. \A s \in Signals : Lacks(s) \in Nat
  <2> TAKE s \in Signals
  <2>1. held[s] \in Nat /\ onOrder[s] \in Nat /\ goal[s] \in Nat
    BY SlipsAssumption
  <2>2. QED BY <2>1 DEF Lacks
<1>a. \A h \in Handlers : hand[h].step \in Spending =>
        /\ slips[hand[h].slip].sig \in Signals /\ slips[hand[h].slip].qty \in Nat
  <2>1. \A i \in Papers : slips[i] \in SlipForms
    BY ElementOfSeq DEF PaperTypes, Papers
  <2>2. \A h \in Handlers : hand[h].step \in Spending => slips[hand[h].slip] \in SlipForms
    BY <2>1 DEF HandsInv, HandFit, Papers
  <2>3. QED BY <2>2 DEF SlipForms
<1>1. ASSUME NEW s \in Signals, OpenBuySignal(s) PROVE BookTypes'
  BY <1>0, <1>1 DEF OpenBuySignal
<1>2. ASSUME NEW s \in Signals, SignalExpires(s) \/ SendCard(s) PROVE BookTypes'
  BY <1>2 DEF SignalExpires, SendCard
<1>3. ASSUME NEW s \in Signals, OrderFills(s) PROVE BookTypes'
  BY <1>3 DEF OrderFills
<1>4. ASSUME NEW g \in [Signals -> Targets], Supersede_(g) PROVE BookTypes'
  BY <1>4 DEF Supersede_
<1>5. ASSUME NEW h \in Handlers, Callback_(h) PROVE BookTypes'
  <2>1. CASE Reserve(h)
    <3>1. hand[h].step \in Spending
      BY <2>1 DEF Reserve, Spending
    <3>2. QED BY <1>a, <2>1, <3>1 DEF Reserve
  <2>2. CASE Posted(h)
    <3>1. hand[h].step \in Spending
      BY <2>2 DEF Posted, Spending
    <3>2. QED BY <1>a, <2>2, <3>1 DEF Posted
  <2>3. CASE MarkProcessed(h)
    BY <2>3 DEF MarkProcessed
  <2>4. CASE Reopen(h)
    BY <2>4 DEF Reopen
  <2>5. CASE \E i \in DOMAIN slips : PressReview(h, i) \/ PressExecute(h, i) \/ CancelCard(h, i)
    BY <2>5 DEF PressReview, PressExecute, CancelCard
  <2>6. CASE ReviewQuoted(h) \/ Requote(h) \/ PrepareBatch(h) \/ Collect(h) \/ OfferBatch(h)
    BY <2>6 DEF ReviewQuoted, Requote, PrepareBatch, Collect, OfferBatch
  <2>7. CASE RunBatch(h) \/ NextItem(h) \/ CancelBatch(h)
    BY <2>7 DEF RunBatch, NextItem, CancelBatch
  <2>8. QED BY <1>5, <2>1, <2>2, <2>3, <2>4, <2>5, <2>6, <2>7 DEF Callback_
<1>6. CASE ApprRestart
  BY <1>6 DEF ApprRestart
<1>7. CASE UNCHANGED apprVars
  BY <1>7 DEF apprVars
<1>8. QED BY <1>1, <1>2, <1>3, <1>4, <1>5, <1>6, <1>7 DEF ApprNext

(* The hands stay as they are, or are all empty, while the approvals wear. *)
LEMMA IdleKeeps ==
  ASSUME PaperTypes, HandsInv, SlipInv, Kept, Len(slips') <= MaxSlips, UNCHANGED void,
         UNCHANGED <<hand, batch>> \/ (hand' = [h \in Handlers |-> NoHand] /\ batch' = <<>>)
  PROVE  PaperTypes' /\ HandsInv' /\ SlipInv'
<1>1. /\ Len(slips) \in Nat /\ Len(slips') \in Nat /\ Len(slips) <= Len(slips')
      /\ batch' \in Seq(1..Len(slips'))
      /\ \A r : HandFit(r, Len(slips)) => HandFit(r, Len(slips'))
  BY BatchKept
<1>2. \A i \in Papers : i \in Papers' /\ (slips[i].st # "ACTIVE" => slips'[i].st = slips[i].st)
  BY <1>1 DEF Kept, Papers
<1>3. \A i \in void' : i \in Papers' /\ slips'[i].st = "CANCELED"
  BY <1>2 DEF SlipInv
<1>4. CASE UNCHANGED <<hand, batch>>
  <2>1. \A k \in Handlers : hand[k].step \in Spending =>
          hand[k].slip \in Papers /\ slips[hand[k].slip].st = "USED"
    BY DEF HandsInv, HandFit, SlipInv, Papers
  <2>2. SlipInv'
    BY <1>2, <1>3, <1>4, <2>1 DEF SlipInv
  <2>3. QED BY <1>1, <1>4, <2>2 DEF PaperTypes, HandsInv, Kept, Papers
<1>5. CASE hand' = [h \in Handlers |-> NoHand]
  <2>1. \A h \in Handlers : hand'[h] = NoHand /\ hand'[h].step = "idle"
    BY <1>5, NoHandFits
  <2>2. hand' \in [Handlers -> HandForms]
    BY <1>5, NoHandFits
  <2>3. \A h \in Handlers : HandFit(hand'[h], Len(slips'))
    BY <2>1 DEF HandFit, Spending
  <2>4. SlipInv'
    BY <1>3, <2>1 DEF SlipInv, Spending
  <2>5. QED BY <1>1, <2>2, <2>3, <2>4 DEF PaperTypes, HandsInv, Kept, Papers
<1>6. QED BY <1>4, <1>5

LEMMA ApprInvStep == ApprInv /\ [ApprNext]_apprVars => ApprInv'
<1> SUFFICES ASSUME ApprInv, [ApprNext]_apprVars
             PROVE  ApprInv'
  OBVIOUS
<1>0. PaperTypes /\ BookTypes /\ HandsInv /\ SlipInv /\ slips \in Seq(SlipForms)
  BY DEF ApprInv, PaperTypes
<1>a. BookTypes'
  BY <1>0, BookTypesStep
<1> USE DEF bookVars
<1>1. ASSUME NEW s \in Signals, OpenBuySignal(s) PROVE ApprInv'
  <2>1. Kept /\ Len(slips') = Len(slips)
    BY <1>0, <1>1, CanceledFacts DEF OpenBuySignal
  <2>2. QED BY <1>0, <1>a, <1>1, <2>1, IdleKeeps DEF OpenBuySignal, ApprInv, PaperTypes
<1>2. ASSUME NEW s \in Signals, SendCard(s) PROVE ApprInv'
  <2>1. Slip(s, "REVIEW", 0) \in SlipForms
    BY DEF Slip, SlipForms
  <2>2. Kept /\ Len(slips') = Len(slips) + 1
    BY <1>0, <1>2, <2>1, AppendFacts DEF SendCard
  <2>3. Len(slips') <= MaxSlips
    BY <1>0, <1>2, <2>2, LenProperties, SlipsAssumption DEF SendCard
  <2>4. QED BY <1>0, <1>a, <1>2, <2>2, <2>3, IdleKeeps DEF SendCard, ApprInv
<1>3. ASSUME UNCHANGED <<slips, void>>,
             UNCHANGED <<hand, batch>> \/ (hand' = [h \in Handlers |-> NoHand] /\ batch' = <<>>)
      PROVE  ApprInv'
  <2>1. Kept /\ Len(slips') = Len(slips)
    BY <1>0, <1>3, SameFacts
  <2>2. QED BY <1>0, <1>a, <1>3, <2>1, IdleKeeps DEF ApprInv, PaperTypes
<1>4. ASSUME NEW s \in Signals, SignalExpires(s) \/ OrderFills(s) PROVE ApprInv'
  BY <1>3, <1>4 DEF SignalExpires, OrderFills
<1>5. ASSUME NEW g \in [Signals -> Targets], Supersede_(g) PROVE ApprInv'
  BY <1>3, <1>5 DEF Supersede_
<1>6. ASSUME NEW h \in Handlers, Callback_(h) PROVE ApprInv'
  <2>1. Turned(h)
    BY <1>0, <1>6, HandlerTurns
  <2>2. /\ hand' \in [Handlers -> HandForms] /\ SlipInv'
        /\ \A k \in Handlers : HandFit(hand'[k], Len(slips'))
    BY <1>0, <2>1, TurnKeeps DEF Turned
  <2>3. QED BY <1>a, <2>1, <2>2 DEF Turned, Kept, ApprInv, PaperTypes, HandsInv, Papers
<1>7. CASE ApprRestart
  BY <1>3, <1>7 DEF ApprRestart
<1>8. CASE UNCHANGED apprVars
  BY <1>3, <1>8 DEF apprVars
<1>9. QED BY <1>1, <1>2, <1>4, <1>5, <1>6, <1>7, <1>8 DEF ApprNext

LEMMA ApprInitial == ApprInit => ApprInv
<1> SUFFICES ASSUME ApprInit PROVE ApprInv
  OBVIOUS
<1> USE DEF ApprInit
<1>1. BookTypes
  BY DEF BookTypes, Statuses
<1>2. \A h \in Handlers : hand[h] = NoHand /\ hand[h].step = "idle"
  BY NoHandFits
<1>3. PaperTypes
  BY NoHandFits, EmptySeq, SlipsAssumption DEF PaperTypes
<1>4. HandsInv
  BY <1>2, EmptySeq DEF HandsInv, HandFit, Spending
<1>5. SlipInv
  BY <1>2 DEF SlipInv, Spending
<1>6. QED BY <1>1, <1>3, <1>4, <1>5 DEF ApprInv

LEMMA ApprInductive == ApprSpec => []ApprInv
BY ApprInitial, ApprInvStep, PTL DEF ApprSpec

(* A symbol's shares in the ledger and on order together grow in one place: where the
   reservation looks at the target once more. *)
LEMMA OverboughtStep ==
  ASSUME ApprInv, [ApprNext]_apprVars, NEW s \in Signals,
         held'[s] + onOrder'[s] > held[s] + onOrder[s]
  PROVE  held'[s] + onOrder'[s] <= goal[s]
<1> USE DEF bookVars
<1>0. held[s] \in Nat /\ onOrder[s] \in Nat /\ goal[s] \in Nat
  BY SlipsAssumption DEF ApprInv, BookTypes
<1>1. held \in [Signals -> Nat] /\ onOrder \in [Signals -> Nat]
  BY DEF ApprInv, BookTypes
<1>2. \A t \in Signals : ~OrderFills(t)
  <2> SUFFICES ASSUME NEW t \in Signals, OrderFills(t) PROVE FALSE
    OBVIOUS
  <2>1. held'[s] + onOrder'[s] = held[s] + onOrder[s]
    BY <1>0, <1>1 DEF OrderFills
  <2>2. QED BY <2>1, <1>0
<1>3. ~(UNCHANGED <<held, onOrder>>)
  BY <1>0
<1>4. ASSUME NEW h \in Handlers, Posted(h) PROVE FALSE
  <2> DEFINE i == hand[h].slip
             t == slips[i].sig
  <2>1. i \in Papers /\ slips[i] \in SlipForms
    BY <1>4, ElementOfSeq DEF ApprInv, HandsInv, HandFit, PaperTypes, Papers, Posted, Spending
  <2>2. t \in Signals /\ slips[i].qty \in Nat
    BY <2>1 DEF SlipForms
  <2>3. held' = held /\ (onOrder' = onOrder \/ onOrder' = [onOrder EXCEPT ![t] = onOrder[t] - slips[i].qty])
    BY <1>4 DEF Posted
  <2> HIDE DEF t
  <2>4. onOrder'[s] <= onOrder[s]
    BY <1>0, <1>1, <2>2, <2>3
  <2>5. held'[s] = held[s] /\ onOrder'[s] \in Int
    BY <1>0, <1>1, <2>2, <2>3
  <2>6. QED BY <1>0, <2>4, <2>5
<1>5. ASSUME NEW h \in Handlers, Reserve(h) PROVE held'[s] + onOrder'[s] <= goal[s]
  <2> DEFINE i == hand[h].slip
             t == slips[i].sig
  <2>1. i \in Papers /\ slips[i] \in SlipForms
    BY <1>5, ElementOfSeq DEF ApprInv, HandsInv, HandFit, PaperTypes, Papers, Reserve, Spending
  <2>2. t \in Signals /\ slips[i].qty \in Nat
    BY <2>1 DEF SlipForms
  <2>3. /\ held' = held /\ slips[i].qty <= Lacks(t)
        /\ onOrder' = [onOrder EXCEPT ![t] = onOrder[t] + slips[i].qty]
    BY <1>3, <1>5 DEF Reserve
  <2> HIDE DEF t, i
  <2>4. t = s
    BY <1>0, <1>1, <2>2, <2>3
  <2>5. onOrder'[s] = onOrder[s] + slips[i].qty /\ slips[i].qty > 0
    BY <1>0, <1>1, <2>2, <2>3, <2>4
  <2>6. slips[i].qty <= goal[s] - held[s] - onOrder[s]
    <3>1. slips[i].qty <= Lacks(s) /\ slips[i].qty \in Nat /\ slips[i].qty > 0
      BY <2>2, <2>3, <2>4, <2>5
    <3>2. Lacks(s) = goal[s] - held[s] - onOrder[s] \/ Lacks(s) = 0
      BY DEF Lacks
    <3>3. QED BY <1>0, <3>1, <3>2
  <2>7. QED BY <1>0, <2>2, <2>3, <2>5, <2>6
<1>6. ASSUME NEW g \in [Signals -> Targets], Supersede_(g) PROVE FALSE
  <2>1. held'[s] = held[s] /\ onOrder'[s] = 0
    BY <1>6 DEF Supersede_
  <2>2. QED BY <1>0, <2>1
<1>7. ASSUME NEW h \in Handlers, Callback_(h) PROVE Reserve(h)
  <2>1. ~Posted(h)
    BY <1>4
  <2>2. UNCHANGED <<held, onOrder>> \/ Reserve(h)
    BY <1>7, <2>1 DEF Callback_, PressReview, PressExecute, CancelCard, ReviewQuoted, Requote,
       MarkProcessed, Reopen, PrepareBatch, Collect, OfferBatch, RunBatch, NextItem, CancelBatch
  <2>3. QED BY <1>3, <2>2
<1>8. ~(\E t \in Signals : OpenBuySignal(t) \/ SignalExpires(t) \/ SendCard(t))
  BY <1>3 DEF OpenBuySignal, SignalExpires, SendCard
<1>9. ~ApprRestart /\ ~UNCHANGED apprVars
  BY <1>3 DEF ApprRestart, apprVars
<1>10. QED BY <1>2, <1>5, <1>6, <1>7, <1>8, <1>9 DEF ApprNext

(* An order comes from one hand, for what its approval shows.              *)
LEMMA HonouredStep ==
  ASSUME ApprInv, [ApprNext]_apprVars, NEW h \in Handlers,
         hand[h].step = "submit", hand'[h].step = "post"
  PROVE  /\ hand[h].slip \notin void
         /\ onOrder'[slips[hand[h].slip].sig]
              = onOrder[slips[hand[h].slip].sig] + slips[hand[h].slip].qty
         /\ \A k \in Handlers \ {h} :
              hand[k].step \in {"quote", "submit", "post", "mark", "reopen"}
                => hand[k].slip # hand[h].slip
<1> USE DEF bookVars
<1>0. /\ hand \in [Handlers -> HandForms] /\ onOrder \in [Signals -> Nat]
      /\ hand[h].step \in Spending
  BY DEF ApprInv, PaperTypes, BookTypes, Spending
<1>1. hand[h].slip \notin void
  BY <1>0 DEF ApprInv, SlipInv
<1>2. \A k \in Handlers \ {h} : hand[k].step \in Spending => hand[k].slip # hand[h].slip
  BY <1>0 DEF ApprInv, SlipInv
(* Only the handler's own step moves its hand. *)
<1>3. ~UNCHANGED hand /\ hand'[h] # NoHand
  BY NoHandFits
<1>4. ASSUME NEW k \in Handlers, Callback_(k) PROVE Reserve(h)
  <2>1. \A r : Set(k, r) /\ k # h => hand'[h] = hand[h]
    BY <1>0 DEF Set
  <2>2. k = h
    <3>1. UNCHANGED hand \/ \E r : Set(k, r)
      <4>1. HandFit(hand[k], Len(slips))
        BY DEF ApprInv, HandsInv
      <4>2. Turned(k)
        BY <1>4, HandlerTurns DEF ApprInv
      <4>3. QED BY <4>2 DEF Turned, Turn, Takes
    <3>2. QED BY <1>3, <2>1, <3>1
  <2>3. ~\E i \in DOMAIN slips : PressReview(h, i) \/ PressExecute(h, i) \/ CancelCard(h, i)
    BY NoHandFits DEF PressReview, PressExecute, CancelCard
  <2>4. ~(PrepareBatch(h) \/ RunBatch(h) \/ CancelBatch(h))
    BY NoHandFits DEF PrepareBatch, RunBatch, CancelBatch
  <2>5. Reserve(h)
    BY <1>4, <2>2, <2>3, <2>4 DEF Callback_, ReviewQuoted, Requote, Posted, MarkProcessed, Reopen,
       Collect, OfferBatch, NextItem
  <2>6. QED BY <2>5
<1>5. Reserve(h)
  <2>1. ~ApprRestart
    BY <1>3 DEF ApprRestart
  <2>2. ~(\E s \in Signals : OpenBuySignal(s) \/ SignalExpires(s) \/ SendCard(s) \/ OrderFills(s))
    BY <1>3 DEF OpenBuySignal, SignalExpires, SendCard, OrderFills
  <2>3. ~(\E g \in [Signals -> Targets] : Supersede_(g)) /\ ~UNCHANGED apprVars
    BY <1>3 DEF Supersede_, apprVars
  <2>4. QED BY <1>4, <2>1, <2>2, <2>3 DEF ApprNext
<1>6. slips[hand[h].slip].sig \in Signals
  <2>1. hand[h].slip \in Papers /\ slips \in Seq(SlipForms)
    BY <1>0 DEF ApprInv, HandsInv, HandFit, PaperTypes, Papers
  <2>2. slips[hand[h].slip] \in SlipForms
    BY <2>1, ElementOfSeq DEF Papers
  <2>3. QED BY <2>2 DEF SlipForms
<1>7. onOrder' = [onOrder EXCEPT ![slips[hand[h].slip].sig] = @ + slips[hand[h].slip].qty]
  <2>1. hand[h] \in HandForms /\ "reopen" \in HandSteps /\ 0 \in Nat
    BY <1>0 DEF HandSteps, Spending
  <2>2. [hand[h] EXCEPT !.step = "reopen"].step = "reopen" /\ [hand[h] EXCEPT !.step = "reopen"] \in HandForms
    BY <2>1, HandFits
  <2>3. ~Set(h, [hand[h] EXCEPT !.step = "reopen"])
    BY <1>0, <2>2, SetHand
  <2>4. QED BY <1>5, <2>3 DEF Reserve
<1>8. QED BY <1>0, <1>1, <1>2, <1>6, <1>7 DEF Spending

(* Every variable of the approvals keeps its type.                         *)
THEOREM ApprTypeCorrect == ApprSpec => []ApprTypeOK
<1>1. ApprInv => ApprTypeOK
  <2> SUFFICES ASSUME ApprInv PROVE ApprTypeOK
    OBVIOUS
  <2>1. DOMAIN slips = Papers /\ \A i \in Papers : slips[i] \in SlipForms
    BY LenProperties, ElementOfSeq DEF ApprInv, PaperTypes, Papers
  <2>2. void \subseteq DOMAIN slips
    BY <2>1 DEF ApprInv, SlipInv
  <2>3. QED BY <2>1, <2>2 DEF ApprInv, PaperTypes, BookTypes, Statuses, SlipForms, ApprTypeOK
<1>2. QED BY <1>1, ApprInductive, PTL

(* However many buttons of a signal are live and whatever threads press them while the
   targets move, no order takes a symbol above its target
   (reserve_buy_order_with_managed_cash checks it once more). *)
THEOREM NeverOverboughtHolds == ApprSpec => NeverOverbought
<1>1. ApprInv /\ [ApprNext]_apprVars
        => [\A s \in Signals : held'[s] + onOrder'[s] > held[s] + onOrder[s]
              => held'[s] + onOrder'[s] <= goal[s]]_apprVars
  BY OverboughtStep
<1>2. QED BY <1>1, ApprInductive, PTL DEF ApprSpec, NeverOverbought

(* One order per approval, of the quantity on its button, and none from an approval the
   operator cancelled (consume_approval, cancel_callback), for any number of threads. *)
THEOREM SlipHonouredHolds == ApprSpec => SlipHonoured
<1>1. ApprInv /\ [ApprNext]_apprVars
        => [\A h \in Handlers : hand[h].step = "submit" /\ hand'[h].step = "post" =>
              /\ hand[h].slip \notin void
              /\ onOrder'[slips[hand[h].slip].sig]
                   = onOrder[slips[hand[h].slip].sig] + slips[hand[h].slip].qty
              /\ \A k \in Handlers \ {h} :
                   hand[k].step \in {"quote", "submit", "post", "mark", "reopen"}
                     => hand[k].slip # hand[h].slip]_apprVars
  BY HonouredStep
<1>2. QED BY <1>1, ApprInductive, PTL DEF ApprSpec, SlipHonoured

==============================================================================
