------------------------ MODULE AutoControl_proofs ------------------------
(***************************************************************************)
(* The inductive invariant IInv of AutoControl, and the safety properties  *)
(* that follow from it, for all amounts, ratios, profits and bounds.       *)
(***************************************************************************)
EXTENDS AutoControl, TLAPS

(* A target principal is an amount, zero while the settings are incomplete. *)
LEMMA PrincipalNat ==
  ASSUME NEW b \in Bases \cup {0}, NEW r \in Ratios \cup {0}
  PROVE  Principal(b, r) \in Nat
<1>1. CASE b = 0 \/ r = 0
  <2>1. b \in Nat /\ r \in Nat
    BY CapitalAssumption
  <2>2. b * r = 0
    BY <1>1, <2>1
  <2>3. QED BY <2>2 DEF Principal
<1>2. CASE b # 0 /\ r # 0
  BY <1>2, CapitalAssumption
<1>3. QED BY <1>1, <1>2

(* The shares of the ramp grow from one end to the other.                  *)
LEMMA ShareBounds ==
  ASSUME NEW from \in Nat, NEW to \in Nat, NEW k \in 1..3
  PROVE  /\ Share(from, to, k) \in Nat
         /\ from <= to => from <= Share(from, to, k) /\ Share(from, to, k) <= to
         /\ to >= 2 /\ from = 0 => Share(from, to, k) > 0
         /\ k = 3 => Share(from, to, k) = to
<1>1. Quarters[k] = k + 1
  BY DEF Quarters
<1>2. CASE k = 1
  BY <1>1, <1>2 DEF Share
<1>3. CASE k = 2
  BY <1>1, <1>3 DEF Share
<1>4. CASE k = 3
  BY <1>1, <1>4 DEF Share
<1>5. QED BY <1>2, <1>3, <1>4

(* A budget is never negative, and never above what the mark allows.       *)
LEMMA BudgetBounds ==
  ASSUME NEW p \in Nat, NEW m \in Nat, NEW e \in Int, p <= m
  PROVE  Budget(p, m, e) \in Nat /\ Budget(p, m, e) <= 4 * p + 3 * (m - p)
BY DEF Budget, Smaller, Larger

(* What a flow leaves behind.                                              *)
LEMMA FlowResult ==
  ASSUME TypeOK, NEW new \in Nat, NEW mark \in Nat, Flow(new, mark)
  PROVE  /\ eff' = new
         /\ new = eff => UNCHANGED <<hwm, budget, plan>>
         /\ new # eff => /\ hwm' = Larger(new, mark + new - eff) /\ hwm' \in Nat
                         /\ budget' \in Nat /\ budget' <= 4 * new + 3 * (hwm' - new)
                         /\ plan' = "none"
<1> USE DEF Flow
<1>1. CASE new = eff
  BY <1>1
<1>2. CASE new # eff
  <2>1. eff \in Nat /\ pnl \in Int
    BY MarkAssumption DEF TypeOK
  <2>2. hwm' = Larger(new, mark + new - eff) /\ plan' = "none"
    BY <1>2
  <2>3. hwm' \in Nat /\ new <= hwm'
    BY <2>1, <2>2 DEF Larger
  <2>4. Equity + new - eff \in Int
    BY <2>1 DEF Equity
  <2>5. budget' = Budget(new, hwm', Equity + new - eff)
    BY <1>2
  <2>6. QED BY <1>2, <2>2, <2>3, <2>4, <2>5, BudgetBounds
<1>3. QED BY <1>1, <1>2

-----------------------------------------------------------------------------
(* Types.                                                                  *)

Plans == {"none", "short", "met"}
Orders == {"none", "open", "partial"}

LEMMA BookTypes ==
  ASSUME TypeOK, NEW f \in BOOLEAN, NEW final \in BOOLEAN, Fill(f, final), Completes(f)
  PROVE  /\ order' \in Orders /\ held' \in BOOLEAN /\ plan' \in Plans
         /\ UNCHANGED <<pnl, peak, raced>>
<1>1. order' \in Orders
  BY DEF Fill, Orders
<1>2. held' \in BOOLEAN /\ UNCHANGED <<pnl, peak, raced>>
  BY DEF Fill
<1>3. plan' \in Plans
  BY DEF Completes, TypeOK, Plans
<1>4. QED BY <1>1, <1>2, <1>3

LEMMA BookedTypes ==
  ASSUME TypeOK, Booked \/ NotBooked
  PROVE  /\ order' \in Orders /\ held' \in BOOLEAN /\ plan' \in Plans
         /\ ownOrder' \in BOOLEAN /\ ownFill' \in BOOLEAN
         /\ UNCHANGED <<pnl, peak, raced>>
<1>1. CASE NotBooked
  BY <1>1 DEF NotBooked, account, TypeOK, Orders, Plans
<1>2. CASE Booked
  <2>1. PICK f \in Fills, final \in BOOLEAN : Book(f, final) /\ Completes(f)
    BY <1>2 DEF Booked
  <2>2. f \in BOOLEAN
    BY <2>1 DEF Fills
  <2>3. ownOrder' \in BOOLEAN /\ ownFill' \in BOOLEAN
    BY <2>1, Zenon DEF Book
  <2>4. QED BY <2>1, <2>2, <2>3, BookTypes DEF Book
<1>3. QED BY <1>1, <1>2

LEMMA ConfirmationTypes ==
  ASSUME TypeOK
  PROVE  Confirmation \in Confirmations
<1>1. base \in Nat /\ ratio \in Nat
  <2>1. base \in Bases \cup {0} /\ ratio \in Ratios \cup {0}
    BY DEF TypeOK
  <2>2. Bases \subseteq Nat /\ Ratios \subseteq Nat
    BY CapitalAssumption
  <2>3. QED BY <2>1, <2>2
<1>2. /\ target \in Nat /\ eff \in Nat /\ revision \in Nat /\ stage \in 0..3
      /\ rampTarget \in Nat /\ launched \in BOOLEAN /\ latch \in BOOLEAN
  BY DEF TypeOK
<1>3. QED BY <1>1, <1>2 DEF Confirmation, Confirmations

LEMMA MonitorTypes ==
  ASSUME TypeOK, Monitor \/ Reconcile
  PROVE  TypeOK'
<1> USE DEF capital, ramp, marks, gate, desk, account, sched, oper, history, bounds
<1> DEFINE BookOK == /\ order' \in Orders /\ held' \in BOOLEAN /\ plan' \in Plans
                     /\ ownOrder' \in BOOLEAN /\ ownFill' \in BOOLEAN
                     /\ UNCHANGED <<pnl, peak, raced>>
<1>1. CASE MonitorIdle
  BY <1>1 DEF MonitorIdle, TypeOK, Labels
<1>2. CASE MonitorOrder
  <2>1. PICK f \in Fills, final \in BOOLEAN :
          /\ Book(f, final) /\ Completes(f)
          /\ got' = [filled |-> f, final |-> final, back |-> "reconcile"]
    BY <1>2 DEF MonitorOrder
  <2>2. Booked
    BY <1>2, <2>1 DEF MonitorOrder, Booked
  <2>3. got' \in Receipts
    BY <2>1 DEF Fills, Receipts
  <2>4. BookOK
    BY <2>2, BookedTypes
  <2>5. QED BY <1>2, <2>3, <2>4 DEF MonitorOrder, TypeOK, Labels, Orders, Plans
<1>3. CASE MonitorFails
  <2>1. BookOK
    BY <1>3, BookedTypes DEF MonitorFails
  <2>2. safe' \in BOOLEAN /\ clean' \in BOOLEAN
    BY <1>3 DEF MonitorFails, TypeOK
  <2>3. QED BY <1>3, <2>1, <2>2 DEF MonitorFails, TypeOK, Labels, Orders, Plans
<1>4. CASE Sync
  BY <1>4 DEF Sync, TypeOK, Labels, Receipts, NoReceipt
<1>5. CASE ReconcileClean
  <2>1. BookOK
    BY <1>5, BookedTypes DEF ReconcileClean
  <2>2. pc' \in Labels /\ proof' \subseteq Since
    BY <1>5 DEF ReconcileClean, Labels
  <2>3. QED BY <1>5, <2>1, <2>2 DEF ReconcileClean, TypeOK, Orders, Plans
<1>6. CASE ReconcileFails
  <2>1. /\ safe' \in BOOLEAN /\ quar' \in BOOLEAN /\ halt' \in BOOLEAN /\ state' \in States
        /\ UNCHANGED <<launched, latch>>
    BY <1>6 DEF ReconcileFails, Quarantine, TypeOK, States
  <2>2. QED BY <1>6, <2>1 DEF ReconcileFails, TypeOK, Labels
<1>7. QED BY <1>1, <1>2, <1>3, <1>4, <1>5, <1>6 DEF Monitor, Reconcile

LEMMA ReleaseTypes ==
  ASSUME TypeOK, ReleaseStep
  PROVE  TypeOK'
<1> USE DEF capital, ramp, marks, gate, desk, account, sched, oper, history, bounds
<1>1. CASE ReleaseRead
  BY <1>1 DEF ReleaseRead, TypeOK, Labels, States
<1>2. CASE ReleaseDeclined
  BY <1>2 DEF ReleaseDeclined, TypeOK, Labels, States
<1>3. CASE Release
  <2>1. halt' \in BOOLEAN /\ quar' \in BOOLEAN /\ state' \in States /\ pc' \in Labels
    BY <1>3 DEF Release, TypeOK, States, Labels
  <2>2. QED BY <1>3, <2>1 DEF Release, TypeOK
<1>4. QED BY <1>1, <1>2, <1>3 DEF ReleaseStep

LEMMA FlowTypes ==
  ASSUME TypeOK, NEW new \in Nat, NEW mark \in Nat, Flow(new, mark), FlowHistory(new)
  PROVE  /\ eff' \in Nat /\ hwm' \in Nat /\ budget' \in Nat /\ plan' \in Plans
         /\ raced' \subseteq {"mark", "fill"} /\ proof' \subseteq Since
<1>1. eff' \in Nat /\ hwm' \in Nat /\ budget' \in Nat /\ plan' \in Plans
  <2>1. hwm \in Nat /\ budget \in Nat /\ plan \in Plans
    BY DEF TypeOK, Plans
  <2>2. CASE new = eff
    BY <2>1, <2>2 DEF Flow
  <2>3. CASE new # eff
    BY <2>3, FlowResult DEF Plans
  <2>4. QED BY <2>2, <2>3
<1>2. raced' \subseteq {"mark", "fill"} /\ proof' \subseteq Since
  BY DEF FlowHistory, TypeOK, Since
<1>3. QED BY <1>1, <1>2

LEMMA StartTypes ==
  ASSUME NEW k \in 0..3, StartStage(k)
  PROVE  stage' \in 0..3 /\ age' \in -1..MinimumStageSessions /\ autoFill' \in BOOLEAN
<1>1. -1 \in -1..MinimumStageSessions
  BY SessionAssumption
<1>2. age' = -1
  BY DEF StartStage, Unfilled
<1>3. stage' \in 0..3 /\ autoFill' \in BOOLEAN
  BY DEF StartStage
<1>4. QED BY <1>1, <1>2, <1>3

LEMMA OwnTypes ==
  ASSUME OwnNothing
  PROVE  ownOrder' \in BOOLEAN /\ ownFill' \in BOOLEAN
BY Zenon DEF OwnNothing

LEMMA RampTypes ==
  ASSUME TypeOK, RampStep
  PROVE  TypeOK'
<1> USE DEF capital, ramp, marks, gate, desk, account, sched, oper, history, bounds
<1>1. CASE RampWaits
  <2>1. age' \in -1..MinimumStageSessions
    BY <1>1, SessionAssumption DEF RampWaits, TypeOK, Unfilled, Larger
  <2>2. QED BY <1>1, <2>1 DEF RampWaits, TypeOK, Labels
<1>2. CASE RampAdvances
  <2> DEFINE new == Share(rampBase, rampTarget, stage + 1)
  <2>1. stage + 1 \in 1..3 /\ StartStage(stage + 1)
    BY <1>2 DEF RampAdvances, RampReady, TypeOK
  <2>2. new \in Nat
    BY <2>1, ShareBounds DEF TypeOK
  <2>3. Flow(new, hwm) /\ FlowHistory(new)
    BY <1>2 DEF RampAdvances
  <2>4. /\ eff' \in Nat /\ hwm' \in Nat /\ budget' \in Nat /\ plan' \in Plans
        /\ raced' \subseteq {"mark", "fill"} /\ proof' \subseteq Since
    <3> HIDE DEF new
    <3>1. hwm \in Nat
      BY DEF TypeOK
    <3>2. QED BY <2>2, <2>3, <3>1, FlowTypes
  <2>5. stage' \in 0..3 /\ age' \in -1..MinimumStageSessions /\ autoFill' \in BOOLEAN
    BY <2>1, StartTypes
  <2>6. QED BY <1>2, <2>4, <2>5, OwnTypes DEF RampAdvances, TypeOK, Labels, Plans
<1>3. CASE RampCompletes
  <2>1. stage' \in 0..3 /\ age' \in -1..MinimumStageSessions /\ autoFill' \in BOOLEAN
    BY <1>3, StartTypes DEF RampCompletes
  <2>2. QED BY <1>3, <2>1, OwnTypes DEF RampCompletes, TypeOK, Labels
<1>4. QED BY <1>1, <1>2, <1>3 DEF RampStep

LEMMA BuyTypes ==
  ASSUME TypeOK, BuyStep
  PROVE  TypeOK'
<1> USE DEF capital, ramp, marks, gate, desk, account, sched, oper, history, bounds
<1> DEFINE GateOK ==
      /\ quar' \in BOOLEAN /\ halt' \in BOOLEAN /\ state' \in States
      /\ UNCHANGED <<launched, latch>>
<1>1. CASE BuyChosen
  BY <1>1 DEF BuyChosen, TypeOK, Labels
<1>2. CASE NoBuy
  <2>1. GateOK /\ UNCHANGED safe
    BY <1>2 DEF NoBuy, Quarantine, TypeOK, States
  <2>2. QED BY <1>2, <2>1 DEF NoBuy, TypeOK, Labels
<1>3. CASE Submit
  <2>1. PICK f \in BOOLEAN, final \in BOOLEAN :
          /\ Fill(f, final) /\ Completes(f)
          /\ ownFill' = (ownFill \/ f) /\ ownOrder' = ~final
          /\ got' = [filled |-> f, final |-> final, back |-> "idle"]
    BY <1>3 DEF Submit
  <2>2. got' \in Receipts
    BY <2>1 DEF Receipts
  <2>3. ownOrder' \in BOOLEAN /\ ownFill' \in BOOLEAN
    BY <2>1, Zenon
  <2>4. order' \in Orders /\ held' \in BOOLEAN /\ plan' \in Plans /\ UNCHANGED <<pnl, peak, raced>>
    BY <2>1, BookTypes
  <2>5. QED BY <1>3, <2>2, <2>3, <2>4 DEF Submit, TypeOK, Labels, Orders, Plans
<1>4. CASE SubmitUnknown
  BY <1>4 DEF SubmitUnknown, Quarantine, TypeOK, Labels, States
<1>5. CASE SubmitRefused
  <2>1. GateOK /\ UNCHANGED safe
    BY <1>5 DEF SubmitRefused, Quarantine, TypeOK, States
  <2>2. QED BY <1>5, <2>1 DEF SubmitRefused, TypeOK, Labels
<1>6. QED BY <1>1, <1>2, <1>3, <1>4, <1>5 DEF BuyStep

LEMMA AllocateTypes ==
  ASSUME TypeOK, Allocate
  PROVE  TypeOK'
<1> USE DEF capital, ramp, marks, gate, desk, account, sched, oper, history, bounds
<1> DEFINE BookOK == /\ order' \in Orders /\ held' \in BOOLEAN /\ plan' \in Plans
                     /\ ownOrder' \in BOOLEAN /\ ownFill' \in BOOLEAN
                     /\ UNCHANGED <<pnl, peak, raced>>
<1>1. CASE AllocateBlocked
  <2>1. BookOK
    BY <1>1, BookedTypes DEF AllocateBlocked
  <2>2. safe' \in BOOLEAN
    BY <1>1 DEF AllocateBlocked, TypeOK
  <2>3. QED BY <1>1, <2>1, <2>2 DEF AllocateBlocked, TypeOK, Labels, Orders, Plans
<1>2. CASE AllocateReconciled
  <2>1. BookOK
    BY <1>2, BookedTypes DEF AllocateReconciled
  <2>2. QED BY <1>2, <2>1 DEF AllocateReconciled, TypeOK, Labels, Orders, Plans
<1>3. CASE ReadEquity
  <2>1. read' \in Nat
    BY <1>3, MarkAssumption DEF ReadEquity, Equity, TypeOK
  <2>2. QED BY <1>3, <2>1 DEF ReadEquity, TypeOK, Labels
<1>4. CASE RecordEquity
  <2>1. hwm' \in Nat /\ eff <= hwm'
    BY <1>4 DEF RecordEquity, Larger, TypeOK
  <2>2. budget' \in Nat
    BY <1>4, <2>1, BudgetBounds DEF RecordEquity, TypeOK
  <2>3. QED BY <1>4, <2>1, <2>2 DEF RecordEquity, TypeOK, Labels
<1>5. CASE NewWeights
  <2>1. CASE pc' = "size" /\ plan' = "none" /\ UNCHANGED safe
    <3>1. BookOK
      <4>1. CASE Open
        <5>1. PICK f \in Fills : Book(f, TRUE)
          BY <1>5, <2>1, <4>1 DEF NewWeights
        <5>2. order' \in Orders /\ held' \in BOOLEAN /\ UNCHANGED <<pnl, peak, raced>>
          BY <5>1 DEF Book, Fill, Orders
        <5>3. ownOrder' \in BOOLEAN /\ ownFill' \in BOOLEAN
          BY <5>1, Zenon DEF Book
        <5>4. QED BY <2>1, <5>2, <5>3 DEF Plans
      <4>2. CASE ~Open
        BY <1>5, <2>1, <4>2 DEF NewWeights, TypeOK, Orders, Plans
      <4>3. QED BY <4>1, <4>2
    <3>2. QED BY <1>5, <2>1, <3>1 DEF NewWeights, TypeOK, Labels, Orders, Plans
  <2>2. CASE pc' = "idle" /\ safe' = TRUE /\ (NotBooked \/ Booked)
    <3>1. BookOK
      BY <2>2, BookedTypes
    <3>2. QED BY <1>5, <2>2, <3>1 DEF NewWeights, TypeOK, Labels, Orders, Plans
  <2>3. QED BY <1>5, <2>1, <2>2 DEF NewWeights
<1>6. CASE ReadBudget
  BY <1>6 DEF ReadBudget, TypeOK, Labels
<1>7. CASE WriteTargets
  BY <1>7 DEF WriteTargets, TypeOK, Labels
<1>8. CASE NoTargets
  BY <1>8 DEF NoTargets, TypeOK, Labels
<1>9. QED BY <1>1, <1>2, <1>3, <1>4, <1>5, <1>6, <1>7, <1>8 DEF Allocate

LEMMA RetargetTypes ==
  ASSUME TypeOK, NEW new \in Nat, Retarget(new)
  PROVE  /\ eff' \in Nat /\ hwm' \in Nat /\ budget' \in Nat /\ plan' \in Plans
         /\ stage' \in 0..3 /\ rampBase' \in Nat /\ rampTarget' \in Nat
         /\ age' \in -1..MinimumStageSessions /\ autoFill' \in BOOLEAN
         /\ raced' \subseteq {"mark", "fill"} /\ proof' \subseteq Since
         /\ ownOrder' \in BOOLEAN /\ ownFill' \in BOOLEAN
<1> USE DEF ramp, marks, history
<1>0. /\ eff \in Nat /\ hwm \in Nat /\ budget \in Nat /\ plan \in Plans
      /\ stage \in 0..3 /\ rampBase \in Nat /\ rampTarget \in Nat
      /\ age \in -1..MinimumStageSessions /\ autoFill \in BOOLEAN
      /\ raced \subseteq {"mark", "fill"} /\ proof \subseteq Since
      /\ ownOrder \in BOOLEAN /\ ownFill \in BOOLEAN
  BY DEF TypeOK, Plans
<1>1. CASE new = target /\ UNCHANGED <<eff, ramp, marks, plan, history>>
  BY <1>0, <1>1
<1>2. CASE /\ stage' = 0 /\ rampBase' = new /\ rampTarget' = new
           /\ Flow(new, hwm) /\ FlowHistory(new) /\ OwnNothing
           /\ UNCHANGED <<age, autoFill>>
  <2>1. /\ eff' \in Nat /\ hwm' \in Nat /\ budget' \in Nat /\ plan' \in Plans
        /\ raced' \subseteq {"mark", "fill"} /\ proof' \subseteq Since
    BY <1>0, <1>2, FlowTypes
  <2>2. QED BY <1>0, <1>2, <2>1, OwnTypes
<1>3. CASE /\ stage' = 0 /\ rampBase' = eff /\ rampTarget' = new /\ OwnNothing
           /\ UNCHANGED <<eff, age, autoFill, marks, plan, raced, proof>>
  BY <1>0, <1>3, OwnTypes
<1>4. CASE /\ rampBase' = eff /\ rampTarget' = new /\ StartStage(1) /\ OwnNothing
           /\ Flow(Share(eff, new, 1), hwm) /\ FlowHistory(Share(eff, new, 1))
  <2>1. Share(eff, new, 1) \in Nat
    BY <1>0, ShareBounds, 1 \in 1..3
  <2>2. /\ eff' \in Nat /\ hwm' \in Nat /\ budget' \in Nat /\ plan' \in Plans
        /\ raced' \subseteq {"mark", "fill"} /\ proof' \subseteq Since
    BY <1>0, <1>4, <2>1, FlowTypes
  <2>3. stage' \in 0..3 /\ age' \in -1..MinimumStageSessions /\ autoFill' \in BOOLEAN
    BY <1>4, StartTypes
  <2>4. QED
    BY <1>0, <1>4, <2>2, <2>3, OwnTypes
<1>5. QED BY <1>1, <1>2, <1>3, <1>4 DEF Retarget

LEMMA ButtonTypes ==
  ASSUME TypeOK, NEW r \in Requests
  PROVE  [kind |-> r.kind, value |-> r.value, seen |-> Confirmation] \in Buttons
BY ConfirmationTypes DEF Requests, Buttons

LEMMA CallbackTypes ==
  ASSUME TypeOK, Callback
  PROVE  TypeOK'
<1> USE DEF capital, ramp, marks, gate, desk, account, sched, oper, history, bounds
<1>0. Done => /\ opc' \in {"idle", "check", "commit", "resume", "reopen"}
              /\ conf' \in Buttons \cup {NoRequest} /\ UNCHANGED pending
  BY DEF Done
<1>1. CASE ConfirmChecked
  <2>1. /\ safe' \in BOOLEAN /\ conf' \in Buttons \cup {NoRequest}
        /\ opc' \in {"idle", "check", "commit", "resume", "reopen"}
    BY <1>1 DEF ConfirmChecked, TypeOK
  <2>2. QED BY <1>1, <2>1 DEF ConfirmChecked, TypeOK
<1>2. CASE CommitFails
  BY <1>0, <1>2 DEF CommitFails, TypeOK
<1>3. CASE CommitConfig
  <2>1. conf \in Buttons
    BY <1>3 DEF CommitConfig, TypeOK, NoRequest
  <2>2. base' \in Bases \cup {0} /\ ratio' \in Ratios \cup {0}
    BY <1>3, <2>1 DEF CommitConfig, TypeOK, Buttons
  <2>3. target' \in Nat
    BY <1>3, <2>2, PrincipalNat DEF CommitConfig
  <2>4. revision' \in Nat
    BY <1>3 DEF CommitConfig, TypeOK
  <2>5. /\ eff' \in Nat /\ hwm' \in Nat /\ budget' \in Nat /\ plan' \in Plans
        /\ stage' \in 0..3 /\ rampBase' \in Nat /\ rampTarget' \in Nat
        /\ age' \in -1..MinimumStageSessions /\ autoFill' \in BOOLEAN
        /\ raced' \subseteq {"mark", "fill"} /\ proof' \subseteq Since
        /\ ownOrder' \in BOOLEAN /\ ownFill' \in BOOLEAN
    <3>1. CASE launched
      BY <1>3, <2>3, <3>1, RetargetTypes DEF CommitConfig
    <3>2. CASE ~launched
      BY <1>3, <3>2 DEF CommitConfig, TypeOK, Plans
    <3>3. QED BY <3>1, <3>2
  <2>6. quar' \in BOOLEAN /\ halt' \in BOOLEAN /\ state' \in States
    BY <1>3 DEF CommitConfig, TypeOK, States
  <2>7. QED
    BY <1>0, <1>3, <2>2, <2>3, <2>4, <2>5, <2>6 DEF CommitConfig, TypeOK, Plans
<1>4. CASE CommitLaunch
  <2>1. stage' \in 0..3 /\ age' \in -1..MinimumStageSessions /\ autoFill' \in BOOLEAN
    BY <1>4, StartTypes, 1 \in 0..3 DEF CommitLaunch
  <2>2. target \in Nat /\ Share(0, target, 1) \in Nat
    BY ShareBounds, 0 \in Nat, 1 \in 1..3 DEF TypeOK
  <2>3. /\ eff' \in Nat /\ hwm' \in Nat /\ budget' \in Nat /\ plan' \in Plans
        /\ raced' \subseteq {"mark", "fill"} /\ proof' \subseteq Since
    BY <1>4, <2>2, FlowTypes, 0 \in Nat DEF CommitLaunch
  <2>4. launched' \in BOOLEAN /\ quar' \in BOOLEAN /\ state' \in States
    BY <1>4 DEF CommitLaunch, States
  <2>5. rampBase' \in Nat /\ rampTarget' \in Nat
    BY <1>4, <2>2 DEF CommitLaunch
  <2>6. QED
    BY <1>0, <1>4, <2>1, <2>3, <2>4, <2>5, OwnTypes DEF CommitLaunch, TypeOK, Plans
<1>5. QED BY <1>1, <1>2, <1>3, <1>4 DEF Callback

LEMMA OperatorTypes ==
  ASSUME TypeOK, OperatorStep
  PROVE  TypeOK'
<1> USE DEF capital, ramp, marks, gate, desk, account, sched, oper, history, bounds
<1>1. ASSUME NEW r \in Requests, Review(r) PROVE TypeOK'
  <2>1. pending' \subseteq Buttons
    BY <1>1, ButtonTypes DEF Review, TypeOK
  <2>2. QED BY <1>1, <2>1 DEF Review, TypeOK
<1>2. ASSUME NEW p \in pending, Withdraw(p) PROVE TypeOK'
  BY <1>2 DEF Withdraw, TypeOK
<1>3. ASSUME NEW p \in pending, Confirm(p) PROVE TypeOK'
  <2>1. conf' \in Buttons /\ pending' \subseteq Buttons
    BY <1>3 DEF Confirm, TypeOK
  <2>2. QED BY <1>3, <2>1 DEF Confirm, TypeOK
<1>4. CASE Callback
  BY <1>4, CallbackTypes
<1>5. CASE Halt
  BY <1>5 DEF Halt, TypeOK
<1>6. CASE ResumeStart
  BY <1>6 DEF ResumeStart, TypeOK
<1>7. CASE ResumeReconcile
  <2>1. /\ order' \in Orders /\ held' \in BOOLEAN /\ plan' \in Plans
        /\ ownOrder' \in BOOLEAN /\ ownFill' \in BOOLEAN
        /\ UNCHANGED <<pnl, peak, raced>>
    BY <1>7, BookedTypes DEF ResumeReconcile
  <2>2. safe' \in BOOLEAN /\ opc' \in {"idle", "check", "commit", "resume", "reopen"}
    BY <1>7 DEF ResumeReconcile, TypeOK
  <2>3. QED BY <1>7, <2>1, <2>2 DEF ResumeReconcile, TypeOK, Orders, Plans
<1>8. CASE ResumeReopen
  <2>1. halt' \in BOOLEAN /\ latch' \in BOOLEAN
    BY <1>8 DEF ResumeReopen, TypeOK
  <2>2. QED BY <1>8, <2>1 DEF ResumeReopen, TypeOK
<1>9. QED
  BY <1>1, <1>2, <1>3, <1>4, <1>5, <1>6, <1>7, <1>8 DEF OperatorStep, Resume

LEMMA TypeKept ==
  ASSUME TypeOK, [Next]_vars
  PROVE  TypeOK'
<1> USE DEF capital, ramp, marks, gate, desk, account, sched, oper, history, bounds
<1>1. CASE SchedulerStep
  BY <1>1, MonitorTypes, ReleaseTypes, RampTypes, BuyTypes, AllocateTypes DEF SchedulerStep
<1>2. CASE OperatorStep
  BY <1>2, OperatorTypes
<1>3. CASE Restart
  <2>1. state' \in States
    BY <1>3 DEF Restart, States
  <2>2. safe' \in BOOLEAN
    BY <1>3 DEF Restart, TypeOK
  <2>3. got' \in Receipts /\ proof' \subseteq Since /\ crashes' \in Nat
    BY <1>3 DEF Restart, TypeOK, NoReceipt, Receipts
  <2>4. QED BY <1>3, <2>1, <2>2, <2>3 DEF Restart, TypeOK, Labels
<1>4. CASE Market
  <2>1. pnl' \in Profits /\ peak' \in Nat
    BY <1>4, MarkAssumption DEF Market, Larger, TypeOK
  <2>2. QED BY <1>4, <2>1 DEF Market, TypeOK
<1>5. CASE Session
  <2>1. age' \in -1..MinimumStageSessions
    BY <1>5, SessionAssumption DEF Session
  <2>2. QED BY <1>5, <2>1 DEF Session, TypeOK
<1>6. CASE UNCHANGED vars
  BY <1>6 DEF vars, TypeOK
<1>7. QED BY <1>1, <1>2, <1>3, <1>4, <1>5, <1>6 DEF Next

-----------------------------------------------------------------------------
(* The cycle: what the way to a BUY knows of the last reconciliation.      *)

Armed == "start" \in proof /\ ("flow" \in proof \/ plan = "none")

LEMMA FlowArmed ==
  ASSUME NEW new, NEW mark, Flow(new, mark), FlowHistory(new)
  PROVE  /\ Armed => Armed'
         /\ "start" \in proof => "start" \in proof'
<1>1. CASE new = eff
  BY <1>1 DEF Flow, FlowHistory, Armed
<1>2. CASE new # eff
  BY <1>2 DEF Flow, FlowHistory, Armed
<1>3. QED BY <1>1, <1>2

LEMMA RetargetArmed ==
  ASSUME NEW new, Retarget(new)
  PROVE  Armed => Armed'
BY FlowArmed DEF Retarget, Armed, history, StartStage

LEMMA BookedPlan ==
  ASSUME Booked \/ NotBooked
  PROVE  plan = "none" => plan' = "none"
BY DEF Booked, NotBooked, Completes

LEMMA CycleKept ==
  ASSUME TypeOK, CycleInv, [Next]_vars
  PROVE  CycleInv'
<1> USE DEF CycleInv, capital, ramp, marks, gate, desk, account, sched, oper, history, bounds
<1>1. CASE Monitor
  BY <1>1 DEF Monitor, MonitorIdle, MonitorOrder, MonitorFails, Sync, NoReceipt, TypeOK, Receipts
<1>2. CASE ReconcileClean
  BY <1>2 DEF ReconcileClean, Since
<1>3. CASE ReconcileFails
  BY <1>3 DEF ReconcileFails, Quarantine
<1>4. CASE ReleaseRead
  BY <1>4 DEF ReleaseRead
<1>5. CASE ReleaseDeclined
  BY <1>5 DEF ReleaseDeclined
<1>6. CASE Release
  BY <1>6 DEF Release
<1>7. CASE RampWaits \/ RampCompletes
  BY <1>7 DEF RampWaits, RampCompletes
<1>8. CASE RampAdvances
  <2>1. PICK new : Flow(new, hwm) /\ FlowHistory(new)
    BY <1>8 DEF RampAdvances
  <2>2. Armed'
    BY <1>8, <2>1, FlowArmed DEF RampAdvances, Armed
  <2>3. QED BY <1>8, <2>2 DEF RampAdvances, Armed
<1>9. CASE BuyChosen
  BY <1>9 DEF BuyChosen
<1>10. CASE NoBuy \/ SubmitRefused
  BY <1>10 DEF NoBuy, SubmitRefused, Quarantine
<1>11. CASE Submit
  BY <1>11 DEF Submit
<1>12. CASE SubmitUnknown
  BY <1>12 DEF SubmitUnknown, Quarantine
<1>13. CASE Allocate
  BY <1>13 DEF Allocate, AllocateBlocked, AllocateReconciled, ReadEquity, RecordEquity,
               NewWeights, ReadBudget, WriteTargets, NoTargets
<1>14. CASE \E r \in Requests : Review(r)
  BY <1>14 DEF Review
<1>15. CASE \E p \in pending : Withdraw(p) \/ Confirm(p)
  BY <1>15 DEF Withdraw, Confirm
<1>16. CASE ConfirmChecked \/ CommitFails
  BY <1>16 DEF ConfirmChecked, CommitFails, Done
<1>17. CASE CommitConfig
  <2>1. Armed => Armed'
    <3>1. CASE launched
      BY <1>17, <3>1, RetargetArmed DEF CommitConfig
    <3>2. CASE ~launched
      BY <1>17, <3>2 DEF CommitConfig, Armed
    <3>3. QED BY <3>1, <3>2
  <2>2. UNCHANGED <<pc, rel>> /\ state' # "RUNNING"
    BY <1>17 DEF CommitConfig
  <2>3. QED BY <2>1, <2>2 DEF Armed
<1>18. CASE CommitLaunch
  <2>1. Armed => Armed'
    BY <1>18, FlowArmed DEF CommitLaunch
  <2>2. UNCHANGED <<pc, rel>> /\ state' # "RUNNING"
    BY <1>18 DEF CommitLaunch
  <2>3. QED BY <2>1, <2>2 DEF Armed
<1>19. CASE Halt \/ ResumeStart \/ ResumeReopen
  BY <1>19 DEF Halt, ResumeStart, ResumeReopen
<1>20. CASE ResumeReconcile
  BY <1>20, BookedPlan DEF ResumeReconcile
<1>21. CASE Restart
  BY <1>21 DEF Restart
<1>22. CASE Market \/ Session
  BY <1>22 DEF Market, Session
<1>23. CASE UNCHANGED vars
  BY <1>23 DEF vars
<1>24. QED
  BY <1>1, <1>2, <1>3, <1>4, <1>5, <1>6, <1>7, <1>8, <1>9, <1>10, <1>11, <1>12, <1>13, <1>14,
     <1>15, <1>16, <1>17, <1>18, <1>19, <1>20, <1>21, <1>22, <1>23
  DEF Next, SchedulerStep, OperatorStep, Reconcile, ReleaseStep, RampStep, BuyStep, Callback,
      Resume

-----------------------------------------------------------------------------
(* Which steps touch settings, ramp, marks and launch at all.              *)

Settled == UNCHANGED <<base, ratio, target, eff, revision, launched, stage, rampBase, rampTarget>>

LEMMA SchedulerSettled ==
  ASSUME SchedulerStep
  PROVE  \/ RampAdvances \/ RampCompletes
         \/ RecordEquity /\ Settled /\ UNCHANGED <<latch, oper>>
         \/ Settled /\ UNCHANGED <<hwm, budget, latch, oper>>
<1> USE DEF Settled, capital, ramp, marks, gate, desk, account, sched, bounds
<1>1. CASE Monitor \/ Reconcile
  BY <1>1 DEF Monitor, MonitorIdle, MonitorOrder, MonitorFails, Sync, Reconcile, ReconcileClean,
              ReconcileFails, Quarantine
<1>2. CASE ReleaseStep \/ RampWaits
  BY <1>2 DEF ReleaseStep, ReleaseRead, ReleaseDeclined, Release, RampWaits
<1>3. CASE BuyStep
  BY <1>3 DEF BuyStep, BuyChosen, NoBuy, Submit, SubmitUnknown, SubmitRefused, Quarantine
<1>4. CASE Allocate /\ ~RecordEquity
  BY <1>4 DEF Allocate, AllocateBlocked, AllocateReconciled, ReadEquity, NewWeights, ReadBudget,
              WriteTargets, NoTargets
<1>5. CASE RecordEquity
  BY <1>5 DEF RecordEquity
<1>6. QED BY <1>1, <1>2, <1>3, <1>4, <1>5 DEF SchedulerStep, RampStep

LEMMA OthersSettled ==
  ASSUME OperatorStep \/ Restart \/ Market \/ Session \/ UNCHANGED vars
  PROVE  \/ CommitConfig \/ CommitLaunch
         \/ Settled /\ UNCHANGED <<hwm, budget>>
<1> USE DEF Settled, capital, ramp, marks, gate, desk, account, sched, bounds
<1>1. CASE \E r \in Requests : Review(r)
  BY <1>1 DEF Review
<1>2. CASE \E p \in pending : Withdraw(p) \/ Confirm(p)
  BY <1>2 DEF Withdraw, Confirm
<1>3. CASE ConfirmChecked \/ CommitFails \/ Halt \/ Resume
  BY <1>3 DEF ConfirmChecked, CommitFails, Halt, Resume, ResumeStart, ResumeReconcile,
              ResumeReopen
<1>4. CASE Restart \/ Market \/ Session \/ UNCHANGED vars
  BY <1>4 DEF Restart, Market, Session, vars
<1>5. QED BY <1>1, <1>2, <1>3, <1>4 DEF OperatorStep, Callback

LEMMA ConfirmKept ==
  ASSUME ConfirmInv, [Next]_vars
  PROVE  ConfirmInv'
<1> USE DEF ConfirmInv, Confirmation, Settled, oper
<1>1. CASE SchedulerStep
  <2>1. CASE RampAdvances \/ RampCompletes
    BY <2>1 DEF RampAdvances, RampCompletes, LockFree, oper
  <2>2. CASE Settled /\ UNCHANGED <<latch, oper>>
    BY <2>2
  <2>3. QED BY <1>1, <2>1, <2>2, SchedulerSettled
<1>2. CASE CommitConfig \/ CommitLaunch
  BY <1>2 DEF CommitConfig, CommitLaunch, Done
<1>3. CASE Settled /\ (OperatorStep \/ Restart \/ Market \/ Session \/ UNCHANGED vars)
  <2>1. CASE \E r \in Requests : Review(r)
    BY <2>1 DEF Review
  <2>2. CASE \E p \in pending : Withdraw(p) \/ Confirm(p)
    BY <1>3, <2>2 DEF Withdraw, Confirm, gate
  <2>3. CASE Callback
    BY <1>3, <1>2, <2>3 DEF Callback, ConfirmChecked, CommitFails, Done, gate
  <2>4. CASE Halt \/ Resume
    BY <2>4 DEF Halt, Resume, ResumeStart, ResumeReconcile, ResumeReopen
  <2>5. CASE Restart \/ Market \/ Session \/ UNCHANGED vars
    BY <1>3, <2>5 DEF Restart, Market, Session, vars, gate
  <2>6. QED BY <1>3, <2>1, <2>2, <2>3, <2>4, <2>5 DEF OperatorStep
<1>4. QED BY <1>1, <1>2, <1>3, OthersSettled DEF Next

-----------------------------------------------------------------------------
(* Capital: principal, target, mark and budget.                            *)

(* The part of the contract a flow must restore.                           *)
MarksHold == eff <= hwm /\ 0 <= budget /\ budget <= 4 * eff + 3 * (hwm - eff)

LEMMA FlowMarks ==
  ASSUME TypeOK, NEW new \in Nat, NEW mark \in Nat, Flow(new, mark), new # eff \/ MarksHold
  PROVE  MarksHold' /\ eff' = new
<1>1. CASE new = eff
  BY <1>1 DEF Flow, MarksHold
<1>2. CASE new # eff
  <2>1. eff \in Nat
    BY DEF TypeOK
  <2>2. hwm' = Larger(new, mark + new - eff) /\ budget' \in Nat
        /\ budget' <= 4 * new + 3 * (hwm' - new) /\ eff' = new
    BY <1>2, FlowResult
  <2>3. new <= hwm'
    BY <2>1, <2>2 DEF Larger
  <2>4. QED BY <2>2, <2>3 DEF MarksHold
<1>3. QED BY <1>1, <1>2

LEMMA CapitalTypes ==
  ASSUME TypeOK
  PROVE  /\ target \in Nat /\ eff \in Nat /\ hwm \in Nat /\ budget \in Nat
         /\ stage \in 0..3 /\ rampBase \in Nat /\ rampTarget \in Nat
         /\ launched \in BOOLEAN
BY DEF TypeOK

LEMMA RetargetKept ==
  ASSUME TypeOK, CapitalInv, launched, NEW new \in Nat, new > 0, Retarget(new)
  PROVE  /\ MarksHold' /\ 0 < eff' /\ eff' <= new
         /\ stage' # 0 => /\ rampTarget' = new /\ rampBase' <= rampTarget'
                          /\ eff' = Share(rampBase', rampTarget', stage')
<1> USE DEF CapitalInv, ContractHolds, StageCapital, ramp, marks
<1>0. MarksHold /\ 0 < eff /\ eff <= target
  BY DEF MarksHold
<1>1. CASE new = target /\ UNCHANGED <<eff, ramp, marks, plan, history>>
  BY <1>0, <1>1 DEF MarksHold
<1>2. CASE stage' = 0 /\ Flow(new, hwm)
  BY <1>0, <1>2, FlowMarks, CapitalTypes
<1>3. CASE eff <= new /\ stage' = 0 /\ UNCHANGED <<eff, marks>>
  BY <1>0, <1>3 DEF MarksHold
<1>4. CASE /\ new > target /\ stage' = 1 /\ rampBase' = eff /\ rampTarget' = new
           /\ Flow(Share(eff, new, 1), hwm)
  <2>1. eff \in Nat /\ hwm \in Nat /\ target \in Nat
    BY CapitalTypes
  <2>2. /\ Share(eff, new, 1) \in Nat /\ eff <= Share(eff, new, 1)
        /\ Share(eff, new, 1) <= new
    BY <1>0, <1>4, <2>1, ShareBounds, 1 \in 1..3
  <2>3. MarksHold' /\ eff' = Share(eff, new, 1)
    BY <1>0, <1>4, <2>1, <2>2, FlowMarks
  <2>4. QED BY <1>0, <1>4, <2>1, <2>2, <2>3
<1>5. QED BY <1>1, <1>2, <1>3, <1>4 DEF Retarget, StartStage

LEMMA CapitalKept ==
  ASSUME TypeOK, CapitalInv, [Next]_vars
  PROVE  CapitalInv'
<1> USE DEF CapitalInv, ContractHolds, StageCapital
<1>0. MarksHold => /\ eff <= hwm /\ 0 <= budget
                   /\ budget <= 4 * eff + 3 * (hwm - eff)
  BY DEF MarksHold
<1>1. CASE Settled /\ UNCHANGED <<hwm, budget>>
  BY <1>1 DEF Settled
<1>2. CASE RecordEquity
  <2>1. read \in Nat /\ eff \in Nat /\ hwm \in Nat
    BY DEF TypeOK
  <2>2. hwm' \in Nat /\ eff <= hwm'
    BY <1>2, <2>1 DEF RecordEquity, Larger
  <2>3. budget' \in Nat /\ budget' <= 4 * eff + 3 * (hwm' - eff)
    <3>1. budget' = Budget(eff, hwm', read)
      BY <1>2 DEF RecordEquity
    <3>2. QED BY <2>1, <2>2, <3>1, BudgetBounds
  <2>4. UNCHANGED <<base, ratio, target, eff, launched, stage, rampBase, rampTarget>>
    BY <1>2 DEF RecordEquity, capital, ramp, gate
  <2>5. QED BY <2>2, <2>3, <2>4
<1>3. CASE RampAdvances
  <2> DEFINE new == Share(rampBase, rampTarget, stage + 1)
  <2>1. /\ stage # 0 /\ stage + 1 \in 1..3 /\ stage' = stage + 1
        /\ UNCHANGED <<base, ratio, target, launched, rampBase, rampTarget>>
    BY <1>3 DEF RampAdvances, RampReady, StartStage, TypeOK, gate
  <2>2. rampBase \in Nat /\ rampTarget \in Nat /\ rampBase <= rampTarget /\ stage \in 1..3
        /\ hwm \in Nat
    BY <2>1, CapitalTypes
  <2>3. /\ new \in Nat /\ new <= rampTarget /\ Share(rampBase, rampTarget, stage) <= new
    <3>1. Quarters[stage] = stage + 1 /\ Quarters[stage + 1] = stage + 2
      BY <2>1, <2>2 DEF Quarters
    <3>2. stage = 1 \/ stage = 2
      BY <2>1, <2>2
    <3>3. Share(rampBase, rampTarget, stage) <= new
      <4>1. CASE stage = 1
        BY <2>2, <3>1, <4>1 DEF Share
      <4>2. CASE stage = 2
        BY <2>2, <3>1, <4>2 DEF Share
      <4>3. QED BY <3>2, <4>1, <4>2
    <3>4. QED BY <2>1, <2>2, <3>3, ShareBounds
  <2>4. MarksHold' /\ eff' = new
    <3>1. MarksHold
      BY <2>1 DEF MarksHold
    <3>2. Flow(new, hwm)
      BY <1>3 DEF RampAdvances
    <3>3. QED BY <2>2, <2>3, <3>1, <3>2, FlowMarks
  <2>5. MarksHold' => /\ eff' <= hwm' /\ 0 <= budget'
                      /\ budget' <= 4 * eff' + 3 * (hwm' - eff')
    BY DEF MarksHold
  <2>6. eff = Share(rampBase, rampTarget, stage) /\ eff > 0 /\ rampTarget = target /\ eff \in Nat
    BY <2>1, CapitalTypes
  <2>7. QED
    <3> HIDE DEF new
    <3>1. 0 < eff' /\ eff' <= target
      BY <2>3, <2>4, <2>6, <2>2
    <3>2. eff' = Share(rampBase', rampTarget', stage')
      BY <2>1, <2>4 DEF new
    <3>3. QED BY <2>1, <2>2, <2>4, <2>5, <2>6, <3>1, <3>2
<1>4. CASE RampCompletes
  BY <1>4 DEF RampCompletes, StartStage, capital, marks, gate
<1>5. CASE CommitConfig
  <2>1. conf \in Buttons
    BY <1>5 DEF CommitConfig, TypeOK, NoRequest
  <2>2. base' \in Bases \cup {0} /\ ratio' \in Ratios \cup {0} /\ target' = Principal(base', ratio')
        /\ UNCHANGED launched
    BY <1>5, <2>1 DEF CommitConfig, TypeOK, Buttons
  <2>3. target' \in Nat
    BY <2>2, PrincipalNat
  <2>4. CASE launched
    <3>1. base' \in Bases /\ ratio' \in Ratios
      BY <1>5, <2>1, <2>4 DEF CommitConfig, Buttons
    <3>2. target' >= 2
      BY <2>2, <3>1, CapitalAssumption
    <3>3. /\ MarksHold' /\ 0 < eff' /\ eff' <= target'
          /\ stage' # 0 => /\ rampTarget' = target' /\ rampBase' <= rampTarget'
                           /\ eff' = Share(rampBase', rampTarget', stage')
      BY <1>5, <2>3, <2>4, <3>2, RetargetKept DEF CommitConfig
    <3>4. QED BY <2>2, <2>4, <3>1, <3>3 DEF MarksHold
  <2>5. CASE ~launched
    BY <1>5, <2>2, <2>5 DEF CommitConfig, ramp
  <2>6. QED BY <2>4, <2>5
<1>6. CASE CommitLaunch
  <2>1. /\ ~launched /\ launched' /\ base \in Bases /\ ratio \in Ratios /\ eff = 0
        /\ stage' = 1 /\ rampBase' = 0 /\ rampTarget' = target
        /\ UNCHANGED <<base, ratio, target>>
    BY <1>6 DEF CommitLaunch, Configured, StartStage, TypeOK
  <2>2. target \in Nat /\ target >= 2
    BY <2>1, CapitalAssumption
  <2>3. /\ Share(0, target, 1) \in Nat /\ 0 < Share(0, target, 1)
        /\ Share(0, target, 1) <= target
    BY <2>2, ShareBounds, 0 \in Nat, 1 \in 1..3
  <2>4. MarksHold' /\ eff' = Share(0, target, 1)
    BY <1>6, <2>1, <2>3, FlowMarks, 0 \in Nat DEF CommitLaunch
  <2>5. QED BY <2>1, <2>2, <2>3, <2>4 DEF MarksHold
<1>7. QED
  BY <1>1, <1>2, <1>3, <1>4, <1>5, <1>6, SchedulerSettled, OthersSettled DEF Next

-----------------------------------------------------------------------------
(* The high-water mark and the equity on its way to it.                    *)

MarkBound == "mark" \notin raced => hwm <= eff + peak
ReadBound == "mark" \notin raced /\ pc = "mark" => read <= eff + peak

LEMMA MarkTypes ==
  ASSUME TypeOK
  PROVE  /\ pnl \in Int /\ peak \in Nat /\ eff \in Nat /\ hwm \in Nat /\ read \in Nat
         /\ launched \in BOOLEAN
BY MarkAssumption DEF TypeOK

(* A flow moves mark and principal together; one that lowers the principal *)
(* under an equity already read is remembered in raced.                    *)
LEMMA FlowMark ==
  ASSUME TypeOK, NEW new \in Nat, NEW mark \in Nat, Flow(new, mark), FlowHistory(new),
         UNCHANGED <<peak, read, pc>>
  PROVE  /\ ReadBound => ReadBound'
         /\ mark = hwm /\ MarkBound => MarkBound'
         /\ mark = 0 /\ new # eff => MarkBound'
<1>1. raced \subseteq raced'
  BY DEF FlowHistory
<1>2. CASE new = eff
  BY <1>1, <1>2 DEF Flow, MarkBound, ReadBound
<1>3. CASE new # eff
  <2>1. /\ eff' = new /\ hwm' = Larger(new, mark + new - eff)
        /\ peak' = peak /\ read' = read /\ pc' = pc
        /\ pc = "mark" /\ new < eff => "mark" \in raced'
    BY <1>3 DEF Flow, FlowHistory
  <2>2. ReadBound => ReadBound'
    BY <1>1, <2>1, MarkTypes DEF ReadBound
  <2>3. mark = hwm /\ MarkBound => MarkBound'
    BY <1>1, <2>1, MarkTypes DEF MarkBound, Larger
  <2>4. mark = 0 => MarkBound'
    BY <2>1, MarkTypes DEF MarkBound, Larger
  <2>5. QED BY <2>2, <2>3, <2>4
<1>4. QED BY <1>2, <1>3

LEMMA MarkKept ==
  ASSUME TypeOK, CapitalInv, MarkInv, [Next]_vars
  PROVE  MarkInv'
<1> USE DEF MarkInv
<1>0. /\ (launched => MarkBound) /\ ReadBound /\ pnl <= peak
      /\ ((launched => MarkBound)' /\ ReadBound' /\ (pnl <= peak)' => MarkInv')
  BY DEF MarkBound, ReadBound
<1> DEFINE Still == UNCHANGED <<eff, hwm, peak, pnl, launched>> /\ raced \subseteq raced'
<1> USE DEF capital, ramp, marks, gate, desk, account, sched, bounds
<1>1. ASSUME Still, pc' # "mark" \/ UNCHANGED <<pc, read>> PROVE MarkInv'
  BY <1>1
<1>2. CASE Monitor \/ Reconcile \/ ReleaseStep \/ RampWaits \/ RampCompletes \/ BuyStep
  <2>1. Booked \/ NotBooked => UNCHANGED <<pnl, peak, raced>>
    BY DEF Booked, NotBooked, Book, Fill
  <2>2. CASE Monitor \/ Reconcile
    BY <1>1, <2>1, <2>2 DEF Monitor, MonitorIdle, MonitorOrder, MonitorFails, Sync, Reconcile,
       ReconcileClean, ReconcileFails, Quarantine, Book, Fill, history, TypeOK, Receipts
  <2>3. CASE ReleaseStep \/ RampWaits \/ RampCompletes
    BY <1>1, <2>3 DEF ReleaseStep, ReleaseRead, ReleaseDeclined, Release, RampWaits,
       RampCompletes, StartStage, history
  <2>4. CASE BuyStep
    BY <1>1, <2>4 DEF BuyStep, BuyChosen, NoBuy, Submit, SubmitUnknown, SubmitRefused,
       Quarantine, Fill, history
  <2>5. QED BY <1>2, <2>2, <2>3, <2>4
<1>3. CASE RampAdvances
  <2> DEFINE new == Share(rampBase, rampTarget, stage + 1)
  <2>1. new \in Nat
    <3>1. stage + 1 \in 1..3 /\ rampBase \in Nat /\ rampTarget \in Nat
      BY <1>3 DEF RampAdvances, RampReady, TypeOK
    <3>2. QED BY <3>1, ShareBounds
  <2>2. Flow(new, hwm) /\ FlowHistory(new)
    BY <1>3 DEF RampAdvances
  <2> HIDE DEF new
  <2>3. /\ eff' = new /\ raced \subseteq raced' /\ pc' # "mark" /\ UNCHANGED <<pnl, peak, launched>>
        /\ IF new = eff THEN hwm' = hwm ELSE hwm' = Larger(new, hwm + new - eff)
    BY <1>3, <2>2 DEF RampAdvances, Flow, FlowHistory
  <2>4. MarkBound => MarkBound'
    BY <2>1, <2>3, MarkTypes DEF MarkBound, Larger
  <2>5. QED BY <1>0, <2>3, <2>4 DEF ReadBound
<1>4. CASE RecordEquity
  <2>1. /\ hwm' = Larger(Larger(hwm, read), eff) /\ pc = "mark" /\ pc' # "mark"
        /\ UNCHANGED <<eff, pnl, peak, launched, raced>>
    BY <1>4 DEF RecordEquity, history
  <2>2. MarkBound => MarkBound'
    BY <1>0, <2>1, MarkTypes DEF MarkBound, ReadBound, Larger
  <2>3. QED BY <1>0, <2>1, <2>2 DEF ReadBound
<1>5. CASE ReadEquity
  <2>1. read' = Equity /\ UNCHANGED <<eff, hwm, pnl, peak, launched, raced>>
    BY <1>5 DEF ReadEquity, history
  <2>2. read' <= eff + peak
    BY <1>0, <2>1, MarkTypes DEF Equity
  <2>3. QED BY <2>1, <2>2
<1>6. CASE Allocate /\ ~RecordEquity /\ ~ReadEquity
  <2>1. Booked \/ NotBooked => UNCHANGED <<pnl, peak, raced>>
    BY DEF Booked, NotBooked, Book, Fill
  <2>2. CASE AllocateBlocked \/ AllocateReconciled
    BY <1>1, <2>1, <2>2 DEF AllocateBlocked, AllocateReconciled
  <2>3. CASE NewWeights
    BY <1>1, <2>1, <2>3 DEF NewWeights, Book, Fill
  <2>4. CASE ReadBudget \/ WriteTargets \/ NoTargets
    BY <1>1, <2>4 DEF ReadBudget, WriteTargets, NoTargets, history
  <2>5. QED BY <1>6, <2>2, <2>3, <2>4 DEF Allocate
<1>7. CASE CommitConfig
  <2>1. UNCHANGED <<launched, pnl, peak, read, pc>>
    BY <1>7 DEF CommitConfig
  <2>2. CASE launched
    <3>1. /\ hwm \in Nat /\ eff \in Nat /\ Retarget(target')
          /\ target' \in Nat
      <4>1. base' \in Bases \cup {0} /\ ratio' \in Ratios \cup {0}
        BY <1>7 DEF CommitConfig, TypeOK, NoRequest, Buttons
      <4>2. QED BY <1>7, <2>2, <4>1, PrincipalNat, MarkTypes DEF CommitConfig
    <3>2. Share(eff, target', 1) \in Nat
      BY <3>1, ShareBounds, 1 \in 1..3
    <3>3. CASE UNCHANGED <<eff, hwm, raced>>
      BY <1>0, <2>1, <3>3 DEF MarkBound, ReadBound
    <3>4. ASSUME NEW new \in Nat, Flow(new, hwm), FlowHistory(new) PROVE MarkInv'
      BY <1>0, <2>1, <2>2, <3>1, <3>4, FlowMark
    <3>5. QED BY <3>1, <3>2, <3>3, <3>4 DEF Retarget, history
  <2>3. CASE ~launched
    BY <1>0, <1>7, <2>1, <2>3 DEF CommitConfig, MarkBound, ReadBound, history
  <2>4. QED BY <2>2, <2>3, MarkTypes
<1>8. CASE CommitLaunch
  <2>1. /\ UNCHANGED <<pnl, peak, read, pc>> /\ eff = 0 /\ target \in Nat /\ target >= 2
        /\ Flow(Share(0, target, 1), 0) /\ FlowHistory(Share(0, target, 1))
    <3>1. /\ UNCHANGED <<pnl, peak, read, pc>> /\ ~launched /\ base # 0 /\ ratio # 0
          /\ Flow(Share(0, target, 1), 0) /\ FlowHistory(Share(0, target, 1))
      BY <1>8 DEF CommitLaunch, Configured
    <3>2. base \in Bases /\ ratio \in Ratios
      BY <3>1 DEF TypeOK
    <3>3. eff = 0 /\ target = Principal(base, ratio)
      BY <3>1 DEF CapitalInv
    <3>4. QED BY <3>1, <3>2, <3>3, CapitalAssumption
  <2>2. Share(0, target, 1) \in Nat /\ Share(0, target, 1) > 0
    BY <2>1, ShareBounds, 0 \in Nat, 1 \in 1..3
  <2>3. MarkBound' /\ ReadBound'
    BY <1>0, <2>1, <2>2, FlowMark, 0 \in Nat
  <2>4. QED BY <1>0, <2>1, <2>3
<1>9. CASE \/ \E r \in Requests : Review(r)
           \/ \E p \in pending : Withdraw(p) \/ Confirm(p)
           \/ ConfirmChecked \/ CommitFails \/ Halt \/ ResumeStart \/ ResumeReopen
  BY <1>1, <1>9 DEF Review, Withdraw, Confirm, ConfirmChecked, CommitFails, Halt, ResumeStart,
     ResumeReopen, history
<1>10. CASE ResumeReconcile
  BY <1>1, <1>10 DEF ResumeReconcile, Booked, NotBooked, Book, Fill
<1>11. CASE Restart \/ Session \/ UNCHANGED vars
  BY <1>1, <1>11 DEF Restart, Session, vars, history
<1>12. CASE Market
  <2>1. /\ pnl' \in Int /\ peak' = Larger(peak, pnl')
        /\ UNCHANGED <<eff, hwm, launched, raced, read, pc>>
    BY <1>12, MarkAssumption DEF Market, history
  <2>2. peak <= peak' /\ pnl' <= peak'
    BY <2>1, MarkTypes DEF Larger
  <2>3. (MarkBound => MarkBound') /\ (ReadBound => ReadBound')
    BY <2>1, <2>2, MarkTypes DEF MarkBound, ReadBound, Larger
  <2>4. QED BY <1>0, <2>1, <2>2, <2>3
<1>13. QED
  BY <1>2, <1>3, <1>4, <1>5, <1>6, <1>7, <1>8, <1>9, <1>10, <1>11, <1>12
  DEF Next, SchedulerStep, OperatorStep, RampStep, Callback, Resume

-----------------------------------------------------------------------------
(* The evidence of a stage.                                                *)

OrderIsOwn == stage # 0 /\ Open => ownOrder
FillIsOwn == "fill" \notin raced /\ stage # 0 /\ ~ownFill => ~autoFill
SyncIsOwn == "fill" \notin raced /\ stage # 0 /\ ~ownFill => ~(pc = "sync" /\ got.filled)

LEMMA FillParts ==
  /\ FillInv <=> OrderIsOwn /\ FillIsOwn /\ SyncIsOwn
  /\ FillInv' <=> OrderIsOwn' /\ FillIsOwn' /\ SyncIsOwn'
BY DEF FillInv, OrderIsOwn, FillIsOwn, SyncIsOwn

(* An order of the stage stays its own, and its fills are the stage's.     *)
LEMMA BookOwn ==
  ASSUME NEW f \in BOOLEAN, NEW final \in BOOLEAN, Book(f, final), Open, OrderIsOwn,
         UNCHANGED stage
  PROVE  /\ OrderIsOwn' /\ UNCHANGED raced
         /\ ownFill => ownFill'
         /\ stage # 0 /\ f => ownFill'
<1>1. UNCHANGED raced /\ (final => order' = "none")
  BY DEF Book, Fill
<1>2. /\ ownFill => ownFill'
      /\ ownOrder /\ f => ownFill'
      /\ ownOrder /\ ~final => ownOrder'
  BY Zenon DEF Book
<1>3. QED BY <1>1, <1>2 DEF OrderIsOwn, Open

LEMMA BookedOwn ==
  ASSUME Booked \/ NotBooked, OrderIsOwn, UNCHANGED stage
  PROVE  OrderIsOwn' /\ UNCHANGED raced /\ (ownFill => ownFill')
<1>1. CASE NotBooked
  BY <1>1 DEF NotBooked, OrderIsOwn, Open
<1>2. CASE Booked
  <2>1. PICK f \in Fills, final \in BOOLEAN : Book(f, final) /\ Open
    BY <1>2 DEF Booked
  <2>2. f \in BOOLEAN
    BY <2>1 DEF Fills
  <2>3. QED BY <2>1, <2>2, BookOwn
<1>3. QED BY <1>1, <1>2

(* A stage starts with nothing of its own, and nothing on its way but what *)
(* raced remembers.                                                        *)
LEMMA StartOwn ==
  ASSUME NEW k, StartStage(k), ~Open, UNCHANGED order,
         pc = "sync" => "fill" \in raced' \/ k = 0, UNCHANGED pc
  PROVE  FillInv'
BY FillParts DEF OrderIsOwn, FillIsOwn, SyncIsOwn, StartStage, Open

LEMMA FillKept ==
  ASSUME TypeOK, CapitalInv, FillInv, [Next]_vars
  PROVE  FillInv'
<1> USE DEF capital, ramp, marks, gate, desk, account, sched, oper, bounds
<1>0. OrderIsOwn /\ FillIsOwn /\ SyncIsOwn
  BY FillParts
<1>1. ASSUME UNCHANGED <<stage, autoFill, order, raced, ownOrder, ownFill>>,
             pc' # "sync" \/ UNCHANGED <<pc, got>>
      PROVE  FillInv'
  BY <1>1 DEF FillInv, Open
<1>2. ASSUME UNCHANGED <<stage, autoFill>>, pc' # "sync" \/ UNCHANGED <<pc, got>>,
             Booked \/ NotBooked
      PROVE  FillInv'
  <2>1. OrderIsOwn' /\ UNCHANGED raced /\ (ownFill => ownFill')
    BY <1>0, <1>2, BookedOwn
  <2>2. FillIsOwn' /\ SyncIsOwn'
    BY <1>0, <1>2, <2>1 DEF FillIsOwn, SyncIsOwn
  <2>3. QED BY <2>1, <2>2, FillParts
<1>3. CASE MonitorOrder
  <2>1. PICK f \in Fills, final \in BOOLEAN :
          Book(f, final) /\ got' = [filled |-> f, final |-> final, back |-> "reconcile"]
    BY <1>3 DEF MonitorOrder
  <2>2. f \in BOOLEAN /\ Open /\ UNCHANGED <<stage, autoFill>> /\ got'.filled = f
    BY <1>3, <2>1 DEF MonitorOrder, Fills
  <2>3. /\ OrderIsOwn' /\ UNCHANGED raced
        /\ ownFill => ownFill'
        /\ stage # 0 /\ f => ownFill'
    BY <1>0, <2>1, <2>2, BookOwn
  <2>4. FillIsOwn' /\ SyncIsOwn'
    BY <1>0, <2>2, <2>3 DEF FillIsOwn, SyncIsOwn
  <2>5. QED BY <2>3, <2>4, FillParts
<1>4. CASE MonitorIdle \/ MonitorFails
  BY <1>1, <1>2, <1>4 DEF MonitorIdle, MonitorFails, history
<1>5. CASE Sync
  <2>1. /\ UNCHANGED <<stage, order, raced, ownOrder, ownFill>> /\ pc = "sync" /\ pc' # "sync"
    BY <1>5 DEF Sync, history, TypeOK, Receipts
  <2>2. autoFill' => autoFill \/ (got.filled /\ stage > 0)
    BY <1>5, Zenon DEF Sync
  <2>3. stage # 0 => (stage > 0 <=> TRUE)
    BY DEF TypeOK
  <2>4. OrderIsOwn' /\ SyncIsOwn'
    BY <1>0, <2>1 DEF OrderIsOwn, SyncIsOwn, Open
  <2>5. FillIsOwn'
    BY <1>0, <2>1, <2>2, <2>3 DEF FillIsOwn, SyncIsOwn
  <2>6. QED BY <2>4, <2>5, FillParts
<1>6. CASE Reconcile
  BY <1>1, <1>2, <1>6 DEF Reconcile, ReconcileClean, ReconcileFails, history
<1>7. CASE ReleaseStep \/ RampWaits
  BY <1>1, <1>7 DEF ReleaseStep, ReleaseRead, ReleaseDeclined, Release, RampWaits, history
<1>8. CASE RampAdvances \/ RampCompletes
  <2>1. ~Open /\ pc' = "buy" /\ UNCHANGED order /\ autoFill' = FALSE
    BY <1>8 DEF RampAdvances, RampCompletes, RampReady, StartStage
  <2>2. QED BY <2>1 DEF FillInv, Open
<1>9. CASE BuyChosen \/ NoBuy \/ SubmitRefused
  BY <1>1, <1>9 DEF BuyChosen, NoBuy, SubmitRefused, history
<1>10. CASE Submit
  <2>1. PICK f \in BOOLEAN, final \in BOOLEAN :
          /\ Fill(f, final)
          /\ ownFill' = (ownFill \/ f) /\ ownOrder' = ~final
          /\ got' = [filled |-> f, final |-> final, back |-> "idle"]
    BY <1>10 DEF Submit
  <2>2. (ownFill \/ f => ownFill') /\ (~final => ownOrder')
    BY <2>1, Zenon
  <2>3. UNCHANGED <<stage, autoFill, raced>> /\ got'.filled = f /\ (final => order' = "none")
    BY <1>10, <2>1 DEF Submit, Fill
  <2>4. OrderIsOwn' /\ FillIsOwn' /\ SyncIsOwn'
    BY <1>0, <2>2, <2>3 DEF OrderIsOwn, FillIsOwn, SyncIsOwn, Open
  <2>5. QED BY <2>4, FillParts
<1>11. CASE SubmitUnknown
  <2>1. UNCHANGED <<stage, autoFill, raced, ownFill>> /\ ownOrder' /\ pc' # "sync"
    BY <1>11 DEF SubmitUnknown
  <2>2. QED BY <1>0, <2>1, FillParts DEF OrderIsOwn, FillIsOwn, SyncIsOwn
<1>12. CASE AllocateBlocked \/ AllocateReconciled
  BY <1>2, <1>12 DEF AllocateBlocked, AllocateReconciled
<1>13. CASE NewWeights
  <2>1. UNCHANGED <<stage, autoFill>> /\ pc' # "sync"
    BY <1>13 DEF NewWeights
  <2>2. CASE \E f \in Fills : Book(f, TRUE) /\ Open
    <3>1. PICK f \in Fills : Book(f, TRUE) /\ Open
      BY <2>2
    <3>2. OrderIsOwn' /\ UNCHANGED raced /\ (ownFill => ownFill')
      BY <1>0, <2>1, <3>1, BookOwn DEF Fills
    <3>3. QED BY <1>0, <2>1, <3>2, FillParts DEF FillIsOwn, SyncIsOwn
  <2>3. CASE Booked \/ NotBooked
    BY <1>2, <2>1, <2>3
  <2>4. CASE UNCHANGED <<order, account, raced, ownOrder, ownFill>>
    BY <1>1, <2>1, <2>4
  <2>5. QED BY <1>13, <2>2, <2>3, <2>4 DEF NewWeights
<1>14. CASE ReadEquity \/ RecordEquity \/ ReadBudget \/ WriteTargets \/ NoTargets
  BY <1>1, <1>14 DEF ReadEquity, RecordEquity, ReadBudget, WriteTargets, NoTargets, history
<1>15. CASE \/ \E r \in Requests : Review(r)
            \/ \E p \in pending : Withdraw(p) \/ Confirm(p)
            \/ ConfirmChecked \/ CommitFails \/ Halt \/ ResumeStart \/ ResumeReopen
  BY <1>1, <1>15 DEF Review, Withdraw, Confirm, ConfirmChecked, CommitFails, Halt, ResumeStart,
     ResumeReopen, history
<1>16. CASE CommitConfig
  <2>1. UNCHANGED <<order, pc, got>>
    BY <1>16 DEF CommitConfig
  <2>2. CASE stage' = 0
    BY <2>2, FillParts DEF OrderIsOwn, FillIsOwn, SyncIsOwn
  <2>3. CASE UNCHANGED <<stage, autoFill, history>>
    BY <1>1, <2>1, <2>3 DEF history
  <2>4. CASE ~Open /\ StartStage(1) /\ \E new : FlowHistory(new)
    BY <2>1, <2>4, StartOwn DEF FlowHistory, StartStage
  <2>5. QED BY <1>16, <2>2, <2>3, <2>4 DEF CommitConfig, Retarget
<1>17. CASE CommitLaunch
  <2>1. /\ ~Open /\ StartStage(1) /\ FlowHistory(Share(0, target, 1))
        /\ UNCHANGED <<order, pc, got>>
    BY <1>17 DEF CommitLaunch
  <2>2. QED BY <2>1, StartOwn DEF FlowHistory, StartStage
<1>18. CASE ResumeReconcile
  BY <1>2, <1>18 DEF ResumeReconcile
<1>19. CASE Restart \/ Market \/ Session \/ UNCHANGED vars
  BY <1>1, <1>19 DEF Restart, Market, Session, vars, history
<1>20. QED
  BY <1>3, <1>4, <1>5, <1>6, <1>7, <1>8, <1>9, <1>10, <1>11, <1>12, <1>13, <1>14, <1>15, <1>16,
     <1>17, <1>18, <1>19
  DEF Next, SchedulerStep, OperatorStep, Monitor, RampStep, BuyStep, Allocate, Callback, Resume

-----------------------------------------------------------------------------
(* The theorems.                                                           *)

LEMMA InitHolds == Init => IInv
<1> SUFFICES ASSUME Init PROVE IInv
  OBVIOUS
<1>1. TypeOK
  <2>1. age \in -1..MinimumStageSessions
    BY SessionAssumption DEF Init, Unfilled
  <2>2. hwm \in Nat /\ budget \in Nat /\ pnl \in Profits
    BY MarkAssumption DEF Init
  <2>3. got \in Receipts
    BY DEF Init, NoReceipt, Receipts
  <2>4. ownOrder \in BOOLEAN /\ ownFill \in BOOLEAN
    BY Zenon DEF Init
  <2>5. /\ pc \in Labels /\ rel \in States \cup {"go"} /\ state \in States
        /\ opc \in {"idle", "check", "commit", "resume", "reopen"}
        /\ pending \subseteq Buttons /\ conf \in Buttons \cup {NoRequest}
        /\ plan \in {"none", "short", "met"} /\ order \in {"none", "open", "partial"}
        /\ raced \subseteq {"mark", "fill"} /\ proof \subseteq Since
    BY DEF Init, States, Labels
  <2>6. /\ base \in Bases \cup {0} /\ ratio \in Ratios \cup {0}
        /\ target \in Nat /\ eff \in Nat /\ revision \in Nat /\ stage \in 0..3
        /\ rampBase \in Nat /\ rampTarget \in Nat /\ peak \in Nat
        /\ read \in Nat /\ crashes \in Nat /\ resumes \in Nat
    BY DEF Init
  <2>7. /\ autoFill \in BOOLEAN /\ launched \in BOOLEAN /\ quar \in BOOLEAN
        /\ halt \in BOOLEAN /\ latch \in BOOLEAN /\ safe \in BOOLEAN
        /\ autoCycles \in BOOLEAN /\ held \in BOOLEAN /\ clean \in BOOLEAN
    BY Zenon DEF Init
  <2>8. QED BY <2>1, <2>2, <2>3, <2>4, <2>5, <2>6, <2>7 DEF TypeOK
<1>2. CycleInv /\ ConfirmInv /\ MarkInv /\ FillInv
  BY DEF Init, CycleInv, ConfirmInv, MarkInv, FillInv, Open
<1>3. CapitalInv
  <2>1. target = Principal(base, ratio)
    BY DEF Init, Principal
  <2>2. QED BY <2>1 DEF Init, CapitalInv, ContractHolds, StageCapital
<1>4. QED BY <1>1, <1>2, <1>3 DEF IInv

(* Every reachable state satisfies the inductive invariant.                *)
THEOREM Invariance == Spec => []IInv
<1>1. IInv /\ [Next]_vars => IInv'
  BY TypeKept, CycleKept, ConfirmKept, CapitalKept, MarkKept, FillKept DEF IInv
<1>2. QED BY InitHolds, <1>1, PTL DEF Spec

(* Every variable of the control keeps its type.                           *)
THEOREM TypeCorrect == Spec => []TypeOK
<1>1. IInv => TypeOK
  BY DEF IInv
<1>2. QED BY Invariance, <1>1, PTL

(* No sequence of launches, settings changes, ramp steps and recordings    *)
(* leaves the BUY contract of require_live_auto_buy_contract violated.     *)
THEOREM ContractIsKept == Spec => []ContractHolds
<1>1. IInv => ContractHolds
  BY DEF IInv, CapitalInv
<1>2. QED BY Invariance, <1>1, PTL

(* A running stage has exactly its share of the way to the target the      *)
(* operator set last (_retarget_live_principal, advance_ramp_if_ready).    *)
THEOREM StageCapitalIsKept == Spec => []StageCapital
<1>1. IInv => StageCapital
  BY DEF IInv, CapitalInv
<1>2. QED BY Invariance, <1>1, PTL

(* The gate is open only in a process that has reconciled cleanly          *)
(* (try_release_quarantine, arm_startup_quarantine).                       *)
THEOREM GateIsAlwaysProven == Spec => []GateIsProven
<1>1. IInv => GateIsProven
  BY DEF IInv, CycleInv, GateIsProven, Gate
<1>2. QED BY Invariance, <1>1, PTL

(* Reading the equity before a withdrawal and recording it after is the    *)
(* only way a withdrawal enters the high-water mark (_apply_external_flow, *)
(* record_v322_equity).                                                    *)
THEOREM MarkIsAlwaysEarned == Spec => []MarkIsEarnedUnraced
<1>1. IInv => MarkIsEarnedUnraced
  <2> SUFFICES ASSUME IInv, "mark" \notin raced, launched
               PROVE  hwm - eff <= peak
    BY DEF MarkIsEarnedUnraced, MarkIsEarned
  <2>1. hwm <= eff + peak
    BY DEF IInv, MarkInv
  <2>2. QED BY <2>1, MarkTypes DEF IInv
<1>2. QED BY Invariance, <1>1, PTL

(* A confirmation takes effect only on the state its button was shown      *)
(* with: whatever writes that state is kept out while the callback holds   *)
(* BUY_EXECUTION_LOCK (_confirm_pending, confirmation_state).              *)
THEOREM ConfirmationHolds == Spec => ConfirmedAsReviewed
<1> DEFINE Step == revision' # revision \/ launched' # launched => conf.seen = Confirmation
<1>1. IInv /\ [Next]_vars => Step
  <2> SUFFICES ASSUME IInv, [Next]_vars PROVE Step
    OBVIOUS
  <2>1. CASE CommitConfig \/ CommitLaunch
    BY <2>1 DEF CommitConfig, CommitLaunch, IInv, ConfirmInv
  <2>2. CASE RampAdvances \/ RampCompletes
    BY <2>2 DEF RampAdvances, RampCompletes, capital, gate
  <2>3. CASE Settled
    BY <2>3 DEF Settled
  <2>4. QED BY <2>1, <2>2, <2>3, SchedulerSettled, OthersSettled DEF Next
<1>2. IInv /\ [Next]_vars => [Step]_vars
  BY <1>1
<1>3. QED BY Invariance, <1>2, PTL DEF Spec, ConfirmedAsReviewed

(* A BUY is sent only after a clean reconciliation later than the last     *)
(* flow of capital and the last start of the process: a flow withdraws the *)
(* generation the BUY would have come from (_apply_external_flow).         *)
THEOREM BuysAfterFlow == Spec => BuyAfterFlow
<1> DEFINE Step == Submit \/ SubmitUnknown => {"start", "flow"} \subseteq proof
<1>1. IInv => [Step]_vars
  BY DEF IInv, CycleInv, Submit, SubmitUnknown
<1>2. QED BY Invariance, <1>1, PTL DEF BuyAfterFlow

(* Except for a fill that was on its way when the stage started, the ramp  *)
(* moves on only after an AUTO fill of the stage itself and the sessions   *)
(* it must last (_stage_filled, advance_ramp_if_ready).                    *)
THEOREM StagesAreProven == Spec => StageProvenUnraced
<1> DEFINE Step == stage # 0 /\ stage' = stage + 1 =>
                     (ownFill \/ "fill" \in raced) /\ age = MinimumStageSessions
<1>1. IInv /\ [Next]_vars => Step
  <2> SUFFICES ASSUME IInv, [Next]_vars, stage # 0, stage' = stage + 1
               PROVE  (ownFill \/ "fill" \in raced) /\ age = MinimumStageSessions
    OBVIOUS
  <2>0. stage \in 0..3 /\ age \in -1..MinimumStageSessions
    BY DEF IInv, TypeOK
  <2>1. CASE RampAdvances
    <3>1. autoFill /\ age >= MinimumStageSessions
      BY <2>1 DEF RampAdvances, StageFilled
    <3>2. ownFill \/ "fill" \in raced
      BY <3>1 DEF IInv, FillInv
    <3>3. QED BY <2>0, <3>1, <3>2, SessionAssumption
  <2>2. CASE RampCompletes
    BY <2>0, <2>2 DEF RampCompletes, StartStage
  <2>3. CASE CommitConfig
    <3>1. stage' = 0 \/ stage' = stage \/ stage = 0
      BY <2>3 DEF CommitConfig, Retarget, StartStage, ramp
    <3>2. QED BY <2>0, <3>1
  <2>4. CASE CommitLaunch
    BY <2>4 DEF CommitLaunch, IInv, CapitalInv
  <2>5. CASE Settled
    BY <2>0, <2>5 DEF Settled
  <2>6. QED BY <2>1, <2>2, <2>3, <2>4, <2>5, SchedulerSettled, OthersSettled DEF Next
<1>2. IInv /\ [Next]_vars => [Step]_vars
  BY <1>1
<1>3. QED BY Invariance, <1>2, PTL DEF Spec, StageProvenUnraced

=============================================================================
