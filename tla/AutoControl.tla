---------------------------- MODULE AutoControl ----------------------------
(***************************************************************************)
(* JH AUTO's control of capital and of the BUY gate: launch, settings,     *)
(* the 50-75-100% ramp, high-water mark and risk budget, the quarantine,   *)
(* the operator's two-step confirmations, and the automatic BUY reduced to *)
(* what they need to know of it.  OrderFlow details the order itself.      *)
(*                                                                         *)
(* Money is in cents; budget is kept in quarter cents, because 75% of a    *)
(* gain is not rounded.  What atomic_auto_change wraps is one step: it     *)
(* holds BUY_EXECUTION_LOCK and one SQLite transaction, so its CONFIGURING *)
(* state is never seen, and an exception leaves nothing behind.            *)
(***************************************************************************)
EXTENDS Integers, FiniteSets

CONSTANTS
  Bases,         \* amounts the operator may enter, in cents
  Ratios,        \* ratios the operator may enter, in hundredths of a percent
  OldMarks,      \* high-water marks a ledger may hold from before JH AUTO
  MinimumStageSessions,  \* MINIMUM_STAGE_SESSIONS, 3 in the code
  Profits,       \* profits and losses the market may show
  MaxPending,    \* bound on confirmations waiting at once
  MaxChanges,    \* bound on configuration changes
  MaxCrashes,    \* bound on process crashes
  MaxResumes     \* bound on the operator's resumes

Principal(b, r) == (b * r) \div 10000      \* _target_principal, in cents

ASSUME CapitalAssumption ==
  /\ Bases \subseteq Nat /\ Ratios \subseteq Nat
  /\ \A r \in Ratios : 100 <= r /\ r <= 10000
  /\ \A b \in Bases, r \in Ratios : Principal(b, r) \in Nat /\ Principal(b, r) >= 2
ASSUME MarkAssumption == OldMarks \subseteq Nat /\ Profits \subseteq Int /\ 0 \in Profits
ASSUME SessionAssumption == MinimumStageSessions \in Nat \ {0}
ASSUME BoundAssumption == MaxPending \in Nat /\ MaxChanges \in Nat /\ MaxCrashes \in Nat
                            /\ MaxResumes \in Nat

VARIABLES
  \* settings and capital; 0 stands for an unset amount or ratio
  base, ratio, target, eff, revision,
  \* the ramp; age counts sessions since the stage was filled, -1 if it is not
  stage, rampBase, rampTarget, age, autoFill,
  \* high-water mark, and risk budget in quarter cents
  hwm, budget,
  \* the gate
  launched, quar, state, halt, latch, safe,
  \* the target generation: none, short of its quantities, or met
  plan,
  \* the automatic order, and whether a completed cycle had a fill
  order, autoCycles,
  \* the account: shares held, unrealised and realised profit, its peak
  held, pnl, peak,
  \* the scheduler's thread: label, release decision, amount read, receipt
  pc, rel, read, got, clean,
  \* the operator's thread: label, confirmations offered, the one being done
  opc, pending, conf,
  \* history: whether a withdrawal met an equity already read ("mark") and a
  \* new stage a receipt not yet synchronized ("fill"); the order and the fills
  \* of the stage itself; what the last clean reconciliation came after
  raced, ownOrder, ownFill, proof,
  crashes, resumes

capital == <<base, ratio, target, eff, revision>>
ramp == <<stage, rampBase, rampTarget, age, autoFill>>
marks == <<hwm, budget>>
gate == <<launched, quar, state, halt, latch, safe>>
desk == <<order, autoCycles>>
account == <<held, pnl, peak>>
sched == <<pc, rel, read, got, clean>>
oper == <<opc, pending, conf>>
bounds == <<crashes, resumes>>
history == <<raced, ownOrder, ownFill, proof>>
vars == <<capital, ramp, marks, gate, plan, desk, account, sched, oper, history, bounds>>

Unfilled == -1
Configured == base # 0 /\ ratio # 0
Equity == IF eff + pnl > 0 THEN eff + pnl ELSE 0
Larger(a, b) == IF a > b THEN a ELSE b
Smaller(a, b) == IF a < b THEN a ELSE b
Quarters == [k \in 1..3 |-> k + 1]         \* RAMP_FRACTIONS: 50, 75, 100%
Share(from, to, k) == from + ((to - from) * Quarters[k]) \div 4
Budget(principal, mark, equity) ==
  Larger(0, Smaller(4 * equity, 4 * principal + 3 * (mark - principal)))

NoReceipt == [filled |-> FALSE, final |-> FALSE, back |-> "idle"]
Open == order # "none"                     \* open_orders()
Since == {"start", "flow"}

(* confirmation_state: what a confirmation button is bound to.             *)
Confirmation == [revision |-> revision, base |-> base, ratio |-> ratio,
                 target |-> target, eff |-> eff, launched |-> launched,
                 stage |-> stage, rampTarget |-> rampTarget, latch |-> latch]
NoRequest == [kind |-> "none", value |-> 0, seen |-> <<>>]

(* Mutant: the confirmation callback takes no lock.                        *)
LockNeverTaken == TRUE

(* The confirmation callback holds BUY_EXECUTION_LOCK over several steps.  *)
LockFree == opc \notin {"check", "commit"}

(* The conditions of execute_one and of require_live_auto_buy_contract     *)
(* that are about the gate.                                                *)
Gate == launched /\ ~quar /\ ~latch /\ state = "RUNNING" /\ ~halt /\ ~safe

-----------------------------------------------------------------------------
(* Mutant: a flow leaves the target generation alone.                      *)
FlowKeepsPlan(new, mark) ==
  /\ eff' = new /\ UNCHANGED plan
  /\ IF new = eff THEN UNCHANGED <<hwm, budget>>
     ELSE /\ hwm' = Larger(new, mark + new - eff)
          /\ budget' = Budget(new, hwm', Equity + new - eff)

(* Mutant: a flow leaves the risk budget to the next recording.            *)
FlowKeepsBudget(new, mark) ==
  /\ eff' = new /\ UNCHANGED budget
  /\ IF new = eff THEN UNCHANGED <<hwm, plan>>
     ELSE hwm' = Larger(new, mark + new - eff) /\ plan' = "none"

(* _apply_external_flow to a principal new, with the mark counted from     *)
(* mark.  It refuses a withdrawal larger than the equity, because the      *)
(* performance units would turn negative.                                  *)
FlowPossible(new) == new # eff => Equity + new - eff >= 0
Flow(new, mark) ==
  /\ eff' = new
  /\ IF new = eff THEN UNCHANGED <<hwm, budget, plan>>
     ELSE /\ hwm' = Larger(new, mark + new - eff)
          /\ budget' = Budget(new, hwm', Equity + new - eff)
          /\ plan' = "none"

(* The history variables of a flow, and of a stage that starts.            *)
FlowHistory(new) ==
  /\ raced' = raced \cup (IF pc = "mark" /\ new < eff THEN {"mark"} ELSE {})
                   \cup (IF pc = "sync" /\ stage' = 1 THEN {"fill"} ELSE {})
  /\ proof' = IF new = eff THEN proof ELSE proof \ {"flow"}

(* Mutant: the fill that proved a stage proves the next too.               *)
StartStageProven(k) == stage' = k /\ age' = Unfilled /\ UNCHANGED autoFill

StartStage(k) == stage' = k /\ age' = Unfilled /\ autoFill' = FALSE
OwnNothing == ownOrder' = FALSE /\ ownFill' = FALSE

(* quarantine(): under the lock, and not the operator's latch.             *)
Quarantine ==
  /\ LockFree
  /\ quar' = TRUE /\ halt' = TRUE /\ state' = "AUTO_QUARANTINE"
  /\ UNCHANGED <<launched, latch>>

(* The ledger learns what was filled, and whether the order is over; a     *)
(* fill may complete the target quantities.                                *)
Fill(filled, final) ==
  /\ order' = IF final THEN "none" ELSE IF filled THEN "partial" ELSE "open"
  /\ held' = (held \/ filled) /\ UNCHANGED <<pnl, peak, raced>>
Completes(filled) == plan' \in {plan} \cup IF filled /\ plan = "short" THEN {"met"} ELSE {}
Book(filled, final) ==
  /\ Fill(filled, final)
  /\ ownFill' = (ownFill \/ (ownOrder /\ filled)) /\ ownOrder' = (ownOrder /\ ~final)
Fills == {order = "partial", TRUE}
Booked == Open /\ \E f \in Fills, final \in BOOLEAN : Book(f, final) /\ Completes(f)
NotBooked == UNCHANGED <<order, plan, account, raced, ownOrder, ownFill>>

-----------------------------------------------------------------------------
(* The scheduler's thread: one safety cycle.                               *)

MonitorIdle ==
  /\ pc = "idle" /\ ~Open /\ pc' = "reconcile" /\ clean' = TRUE
  /\ UNCHANGED <<capital, ramp, marks, gate, plan, desk, account, rel, read, got,
                 oper, history, bounds>>

MonitorOrder ==
  /\ pc = "idle" /\ Open /\ pc' = "sync" /\ clean' = TRUE
  /\ \E f \in Fills, final \in BOOLEAN :
       /\ Book(f, final) /\ Completes(f)
       /\ got' = [filled |-> f, final |-> final, back |-> "reconcile"]
  /\ UNCHANGED <<capital, ramp, marks, gate, autoCycles, rel, read,
                 oper, proof, bounds>>

(* A read that fails, or a stale order whose cancel fails: the receipt may *)
(* be stored, the cycle row is not synchronized.                           *)
MonitorFails ==
  /\ pc = "idle" /\ Open /\ pc' = "reconcile"
  /\ \/ NotBooked /\ clean' = FALSE /\ UNCHANGED safe
     \/ Booked /\ safe' = TRUE /\ clean' = TRUE
  /\ UNCHANGED <<capital, ramp, marks, launched, quar, state, halt, latch, autoCycles, rel,
                 read, got, oper, proof, bounds>>

(* _sync_auto_cycle, and the same writes at the end of execute_one.        *)
Sync ==
  /\ pc = "sync" /\ pc' = got.back /\ got' = NoReceipt
  /\ autoCycles' = (autoCycles \/ (got.final /\ got.filled))
  /\ autoFill' = (autoFill \/ (got.filled /\ stage > 0))
  /\ UNCHANGED <<capital, stage, rampBase, rampTarget, age, marks, gate, plan, order,
                 account, rel, read, clean, oper, history, bounds>>

(* A clean reconciliation.  It stores what open orders became without      *)
(* touching the cycle rows.  The two-clean-cycles rule after an outage and *)
(* a due daily analysis may still hold the cycle back.                     *)
ReconcileClean ==
  /\ pc = "reconcile"
  /\ NotBooked \/ Booked
  /\ pc' \in IF clean THEN {"release", "idle"} ELSE {"idle"}
  /\ clean' = TRUE
  /\ proof' = Since
  /\ UNCHANGED <<capital, ramp, marks, gate, autoCycles, rel, read, got, oper, bounds>>

ReconcileFails ==
  /\ pc = "reconcile" /\ pc' = "idle" /\ clean' = TRUE
  /\ \/ safe' = TRUE /\ UNCHANGED <<launched, quar, state, halt, latch>>
     \/ launched /\ ~latch /\ ~quar /\ Quarantine /\ UNCHANGED safe
     \/ UNCHANGED gate
  /\ UNCHANGED <<capital, ramp, marks, plan, desk, account, rel, read, got, oper,
                 history, bounds>>

(* try_release_quarantine reads settings and orders outside the lock.  Its *)
(* contract check cannot fail: ContractHolds.                              *)
ReleaseRead ==
  /\ pc = "release"
  /\ rel' = IF ~launched THEN IF Configured THEN "READY" ELSE "SETUP"
            ELSE IF latch THEN "OPERATOR_HALT"
            ELSE IF safe THEN "SAFE_MODE" ELSE "go"
  /\ pc' = IF rel' = "go" /\ Open THEN "buy" ELSE "decide"
  /\ UNCHANGED <<capital, ramp, marks, gate, plan, desk, account, read, got, clean,
                 oper, history, bounds>>

ReleaseDeclined ==
  /\ pc = "decide" /\ rel # "go" /\ pc' = "buy"
  /\ state' = rel /\ rel' = "go"
  /\ UNCHANGED <<capital, ramp, marks, launched, quar, halt, latch, safe, plan, desk,
                 account, read, got, clean, oper, history, bounds>>

(* Mutant: the release forgets the halt that came with the quarantine.     *)
ReleaseKeepsHalt ==
  /\ pc = "decide" /\ rel = "go" /\ LockFree
  /\ UNCHANGED halt
  /\ \/ latch /\ state' = "OPERATOR_HALT" /\ pc' = "buy" /\ UNCHANGED quar
     \/ ~latch /\ (safe \/ Open) /\ pc' = "buy" /\ UNCHANGED <<quar, state>>
     \/ /\ ~latch /\ ~safe /\ ~Open
        /\ quar' = FALSE /\ state' = "RUNNING" /\ pc' = "ramp"
  /\ UNCHANGED <<capital, ramp, marks, launched, latch, safe, plan, desk, account, rel,
                 read, got, clean, oper, history, bounds>>

(* The decision itself, under the lock.                                    *)
Release ==
  /\ pc = "decide" /\ rel = "go" /\ LockFree
  /\ \/ latch /\ state' = "OPERATOR_HALT" /\ pc' = "buy" /\ UNCHANGED <<quar, halt>>
     \/ ~latch /\ (safe \/ Open) /\ pc' = "buy" /\ UNCHANGED <<quar, halt, state>>
     \/ /\ ~latch /\ ~safe /\ ~Open
        /\ halt' = FALSE /\ quar' = FALSE /\ state' = "RUNNING" /\ pc' = "ramp"
  /\ UNCHANGED <<capital, ramp, marks, launched, latch, safe, plan, desk, account, rel,
                 read, got, clean, oper, history, bounds>>

(* advance_ramp_if_ready: a stage counts sessions from the moment its     *)
(* targets are met and an AUTO BUY of it has filled.                       *)
StageFilled ==
  /\ plan = "met" /\ ~Open
  /\ stage = 1 /\ rampBase = 0 => autoCycles
  /\ autoFill
RampReady == stage # 0 /\ Gate /\ ~Open

RampWaits ==
  /\ pc = "ramp" /\ LockFree /\ pc' = "buy"
  /\ \/ ~RampReady /\ UNCHANGED age
     \/ RampReady /\ ~StageFilled /\ age' = Unfilled
     \/ /\ RampReady /\ StageFilled /\ stage # 3 /\ age < MinimumStageSessions
        /\ age' = Larger(age, 0)
  /\ UNCHANGED <<capital, stage, rampBase, rampTarget, autoFill, marks, gate, plan, desk,
                 account, rel, read, got, clean, oper, history, bounds>>

RampAdvances ==
  /\ pc = "ramp" /\ LockFree /\ pc' = "buy"
  /\ RampReady /\ StageFilled /\ stage < 3 /\ age >= MinimumStageSessions
  /\ StartStage(stage + 1) /\ OwnNothing
  /\ LET new == Share(rampBase, rampTarget, stage + 1)
     IN  Flow(new, hwm) /\ FlowHistory(new)
  /\ UNCHANGED <<base, ratio, target, revision, rampBase, rampTarget, gate, desk,
                 account, rel, read, got, clean, oper, bounds>>

(* The last stage ends the ramp; the principal is the target's already.    *)
RampCompletes ==
  /\ pc = "ramp" /\ LockFree /\ pc' = "buy"
  /\ RampReady /\ StageFilled /\ stage = 3
  /\ StartStage(0) /\ OwnNothing
  /\ UNCHANGED <<capital, rampBase, rampTarget, marks, gate, plan, desk, account, rel,
                 read, got, clean, oper, raced, proof, bounds>>

(* execute_one, up to its choice of a signal.  The limit on attempts per   *)
(* day may quarantine instead.                                             *)
BuyChosen ==
  /\ pc = "buy" /\ pc' = "submit"
  /\ Gate /\ ~Open /\ plan = "short"
  /\ UNCHANGED <<capital, ramp, marks, gate, plan, desk, account, rel, read, got, clean,
                 oper, history, bounds>>

NoBuy ==
  /\ pc = "buy" /\ pc' = "allocate"
  /\ UNCHANGED gate \/ (launched /\ Quarantine /\ UNCHANGED safe)
  /\ UNCHANGED <<capital, ramp, marks, plan, desk, account, rel, read, got, clean,
                 oper, history, bounds>>

(* The final boundary, under the lock: the gate again, and a signal that   *)
(* is still active, so not invalidated with its generation.                *)
Submit ==
  /\ pc = "submit" /\ pc' = "sync" /\ LockFree
  /\ Gate /\ ~Open /\ plan # "none"
  /\ \E f, final \in BOOLEAN :
       /\ Fill(f, final) /\ Completes(f)
       /\ ownFill' = (ownFill \/ f) /\ ownOrder' = ~final
       /\ got' = [filled |-> f, final |-> final, back |-> "idle"]
  /\ UNCHANGED <<capital, ramp, marks, gate, autoCycles, rel, read, clean, oper, proof,
                 bounds>>

(* The POST's outcome is unknown: SAFE_MODE, and the exception quarantines. *)
SubmitUnknown ==
  /\ pc = "submit" /\ pc' = "allocate"
  /\ Gate /\ ~Open /\ plan # "none"
  /\ Quarantine /\ safe' = TRUE
  /\ order' = "open" /\ ownOrder' = TRUE
  /\ UNCHANGED <<capital, ramp, marks, plan, autoCycles, account, rel, read, got,
                 clean, oper, raced, ownFill, proof, bounds>>

(* A refusal before the POST ends the attempt; an exception other than a   *)
(* changed quote or approval quarantines.                                  *)
SubmitRefused ==
  /\ pc = "submit" /\ pc' = "allocate"
  /\ UNCHANGED gate \/ (Quarantine /\ UNCHANGED safe)
  /\ UNCHANGED <<capital, ramp, marks, plan, desk, account, rel, read, got, clean, oper,
                 history, bounds>>

-----------------------------------------------------------------------------
(* run_allocation, as far as capital goes; it takes no lock.               *)

(* It reconciles first, and stops unless that is clean.                    *)
AllocateBlocked ==
  /\ pc = "allocate" /\ pc' = "idle" /\ safe' \in {safe, TRUE}
  /\ NotBooked \/ Booked
  /\ UNCHANGED <<capital, ramp, marks, launched, quar, state, halt, latch, autoCycles,
                 rel, read, got, clean, oper, proof, bounds>>

AllocateReconciled ==
  /\ pc = "allocate" /\ ~safe /\ pc' = "equity"
  /\ NotBooked \/ Booked
  /\ UNCHANGED <<capital, ramp, marks, gate, autoCycles, rel, read, got, clean, oper,
                 proof, bounds>>

(* Once per completed session the marked equity is read ...                *)
ReadEquity ==
  /\ pc = "equity" /\ pc' = "mark" /\ read' = Equity
  /\ UNCHANGED <<capital, ramp, marks, gate, plan, desk, account, rel, got, clean,
                 oper, history, bounds>>

(* ... and recorded (record_v322_equity).                                  *)
RecordEquity ==
  /\ pc = "mark" /\ pc' \in {"weights", "size"} /\ read' = 0
  /\ hwm' = Larger(Larger(hwm, read), eff)
  /\ budget' = Budget(eff, hwm', read)
  /\ UNCHANGED <<capital, ramp, gate, plan, desk, account, rel, got, clean, oper,
                 history, bounds>>

(* Changed weights cancel the order and invalidate the generation; a       *)
(* cancel that fails is SAFE_MODE, and the session's marker stays unset.   *)
NewWeights ==
  /\ pc = "weights"
  /\ \/ /\ pc' = "size" /\ plan' = "none" /\ UNCHANGED safe
        /\ IF Open THEN \E f \in Fills : Book(f, TRUE)
                   ELSE UNCHANGED <<order, account, raced, ownOrder, ownFill>>
     \/ Open /\ pc' = "idle" /\ safe' = TRUE /\ (NotBooked \/ Booked)
  /\ UNCHANGED <<capital, ramp, marks, launched, quar, state, halt, latch, autoCycles,
                 rel, read, got, clean, oper, proof, bounds>>

(* The budget is read and prices are asked for; later the quantities are   *)
(* written.  Markets may be closed, or the generation already there.       *)
ReadBudget ==
  /\ pc \in {"equity", "size"} /\ plan = "none" /\ pc' = "write"
  /\ UNCHANGED <<capital, ramp, marks, gate, plan, desk, account, rel, read, got, clean,
                 oper, history, bounds>>

WriteTargets ==
  /\ pc = "write" /\ pc' = "idle" /\ plan' \in {"short", "met"}
  /\ UNCHANGED <<capital, ramp, marks, gate, desk, account, rel, read, got, clean,
                 oper, history, bounds>>

NoTargets ==
  /\ pc \in {"equity", "size"} /\ pc' = "idle"
  /\ UNCHANGED <<capital, ramp, marks, gate, plan, desk, account, rel, read, got, clean,
                 oper, history, bounds>>

-----------------------------------------------------------------------------
(* The operator's thread.                                                  *)

(* /auto capital, /auto ratio, /auto start: offer a confirmation.          *)
Requests == [kind : {"capital"}, value : Bases] \cup [kind : {"ratio"}, value : Ratios]
              \cup [kind : {"start"}, value : {1}]
Review(r) ==
  /\ opc = "idle" /\ Cardinality(pending) < MaxPending
  /\ r.kind = "start" => Configured /\ ~launched
  /\ r.kind # "start" => revision < MaxChanges
  /\ pending' = pending \cup {[kind |-> r.kind, value |-> r.value, seen |-> Confirmation]}
  /\ UNCHANGED <<capital, ramp, marks, gate, plan, desk, account, sched, opc, conf,
                 history, bounds>>

(* A confirmation is cancelled, or older than AUTO_CONFIRM_TTL_SECONDS.    *)
Withdraw(p) ==
  /\ opc = "idle" /\ pending' = pending \ {p}
  /\ UNCHANGED <<capital, ramp, marks, gate, plan, desk, account, sched, opc, conf,
                 history, bounds>>

(* _confirm_pending_locked takes the button's token away, whatever follows; *)
(* a refused one is Withdraw.                                              *)
Confirm(p) ==
  /\ opc = "idle" /\ pending' = pending \ {p}
  /\ p.seen = Confirmation
  /\ p.kind # "start" => ~Open /\ revision < MaxChanges
  /\ opc' = IF p.kind # "start" /\ launched THEN "check" ELSE "commit"
  /\ conf' = p
  /\ UNCHANGED <<capital, ramp, marks, gate, plan, desk, account, sched, history, bounds>>

ConfirmChecked ==
  /\ opc = "check"
  /\ \/ ~safe /\ opc' = "commit" /\ UNCHANGED <<safe, conf>>
     \/ safe' \in {safe, TRUE} /\ opc' = "idle" /\ conf' = NoRequest
  /\ UNCHANGED <<capital, ramp, marks, launched, quar, state, halt, latch, plan, desk,
                 account, sched, pending, history, bounds>>

Done == opc' = "idle" /\ conf' = NoRequest /\ UNCHANGED pending

(* An exception inside atomic_auto_change rolls back every write of it,    *)
(* the quarantine of its own handler included.                             *)
CommitFails ==
  /\ opc = "commit" /\ (launched \/ conf.kind = "start") /\ Done
  /\ UNCHANGED <<capital, ramp, marks, gate, plan, desk, account, sched, history, bounds>>

(* Mutant: a reduction does not end the ramp.                              *)
RetargetKeepsStage(new) ==
  \/ new = target /\ UNCHANGED <<eff, ramp, marks, plan, history>>
  \/ /\ new # target /\ new < eff /\ FlowPossible(new)
     /\ rampTarget' = new /\ UNCHANGED <<stage, rampBase, age, autoFill>>
     /\ Flow(new, hwm) /\ FlowHistory(new) /\ OwnNothing
  \/ /\ eff <= new /\ new < target
     /\ rampBase' = eff /\ rampTarget' = new /\ OwnNothing
     /\ UNCHANGED <<eff, stage, age, autoFill, marks, plan, raced, proof>>
  \/ /\ new > target /\ stage = 0
     /\ rampBase' = eff /\ rampTarget' = new /\ StartStage(1) /\ OwnNothing
     /\ Flow(Share(eff, new, 1), hwm) /\ FlowHistory(Share(eff, new, 1))

(* _retarget_live_principal.                                               *)
Retarget(new) ==
  \/ /\ new = target
     /\ UNCHANGED <<eff, ramp, marks, plan, history>>
  \/ /\ new # target /\ new < eff /\ FlowPossible(new)
     /\ stage' = 0 /\ rampBase' = new /\ rampTarget' = new
     /\ Flow(new, hwm) /\ FlowHistory(new) /\ OwnNothing
     /\ UNCHANGED <<age, autoFill>>
  \/ /\ eff <= new /\ new < target
     /\ stage' = 0 /\ rampBase' = eff /\ rampTarget' = new
     /\ OwnNothing
     /\ UNCHANGED <<eff, age, autoFill, marks, plan, raced, proof>>
  \/ /\ new > target /\ stage = 0
     /\ rampBase' = eff /\ rampTarget' = new /\ StartStage(1) /\ OwnNothing
     /\ Flow(Share(eff, new, 1), hwm) /\ FlowHistory(Share(eff, new, 1))

(* _set_operator_config: BUY stays shut behind a live change.              *)
CommitConfig ==
  /\ opc = "commit" /\ conf.kind \in {"capital", "ratio"} /\ Done
  /\ base' = IF conf.kind = "capital" THEN conf.value ELSE base
  /\ ratio' = IF conf.kind = "ratio" THEN conf.value ELSE ratio
  /\ target' = Principal(base', ratio')
  /\ revision' = revision + 1
  /\ IF launched
     THEN /\ ~Open /\ Retarget(target')
          /\ quar' = TRUE /\ halt' = TRUE /\ state' = "AUTO_QUARANTINE"
     ELSE /\ state' = IF base' # 0 /\ ratio' # 0 THEN "READY" ELSE "SETUP"
          /\ UNCHANGED <<eff, ramp, marks, plan, quar, halt, history>>
  /\ UNCHANGED <<launched, latch, safe, desk, account, sched, bounds>>

(* Mutant: the marks of the strategy's fixed-capital days survive launch.  *)
CommitLaunchOldMark ==
  /\ opc = "commit" /\ conf.kind = "start" /\ Done
  /\ Configured /\ ~launched /\ ~Open /\ ~held /\ ~safe
  /\ launched' = TRUE /\ quar' = TRUE /\ state' = "STARTUP_QUARANTINE"
  /\ rampBase' = 0 /\ rampTarget' = target /\ StartStage(1) /\ OwnNothing
  /\ Flow(Share(0, target, 1), hwm) /\ FlowHistory(Share(0, target, 1))
  /\ UNCHANGED <<base, ratio, target, revision, halt, latch, safe, desk, account,
                 sched, bounds>>

(* authorize_launch: a clean, flat ledger, and the marks start anew.       *)
CommitLaunch ==
  /\ opc = "commit" /\ conf.kind = "start" /\ Done
  /\ Configured /\ ~launched /\ ~Open /\ ~held /\ ~safe
  /\ launched' = TRUE /\ quar' = TRUE /\ state' = "STARTUP_QUARANTINE"
  /\ rampBase' = 0 /\ rampTarget' = target /\ StartStage(1) /\ OwnNothing
  /\ Flow(Share(0, target, 1), 0) /\ FlowHistory(Share(0, target, 1))
  /\ UNCHANGED <<base, ratio, target, revision, halt, latch, safe, desk, account,
                 sched, bounds>>

(* OperatorSafetyService.halt and resume.                                  *)
Halt ==
  /\ opc = "idle" /\ halt' = TRUE /\ latch' = TRUE
  /\ UNCHANGED <<capital, ramp, marks, launched, quar, state, safe, plan, desk, account,
                 sched, oper, history, bounds>>

ResumeStart ==
  /\ opc = "idle" /\ (halt \/ safe \/ latch) /\ opc' = "resume" /\ halt' = TRUE
  /\ resumes < MaxResumes /\ resumes' = resumes + 1
  /\ UNCHANGED <<capital, ramp, marks, launched, quar, state, latch, safe, plan, desk,
                 account, sched, pending, conf, history, crashes>>

ResumeReconcile ==
  /\ opc = "resume"
  /\ NotBooked \/ Booked
  /\ \/ safe' = FALSE /\ opc' = "reopen"
     \/ safe' \in {safe, TRUE} /\ opc' = "idle"
  /\ UNCHANGED <<capital, ramp, marks, launched, quar, state, halt, latch, autoCycles,
                 sched, pending, conf, proof, bounds>>

ResumeReopen ==
  /\ opc = "reopen" /\ opc' = "idle"
  /\ \/ ~safe /\ ~Open /\ halt' = FALSE /\ latch' = FALSE
     \/ (safe \/ Open) /\ UNCHANGED <<halt, latch>>
  /\ UNCHANGED <<capital, ramp, marks, launched, quar, state, safe, plan, desk, account,
                 sched, pending, conf, history, bounds>>

-----------------------------------------------------------------------------
(* Mutant: a restart leaves the gate as the crash found it.                *)
RestartUnarmed ==
  /\ crashes < MaxCrashes /\ crashes' = crashes + 1
  /\ pc' = "idle" /\ rel' = "go" /\ read' = 0 /\ got' = NoReceipt /\ clean' = TRUE
  /\ opc' = "idle" /\ pending' = {} /\ conf' = NoRequest /\ proof' = {}
  /\ UNCHANGED <<capital, ramp, marks, gate, plan, desk, account, raced, ownOrder,
                 ownFill, resumes>>

(* The process ends and starts again: arm_live_startup_buy_halt and        *)
(* arm_startup_quarantine run before any thread does, and the start-up     *)
(* reconciliation may enter SAFE_MODE.                                     *)
Restart ==
  /\ crashes < MaxCrashes /\ crashes' = crashes + 1
  /\ halt' = TRUE /\ quar' = TRUE /\ safe' \in {safe, TRUE}
  /\ state' = IF launched THEN "STARTUP_QUARANTINE" ELSE "SETUP"
  /\ pc' = "idle" /\ rel' = "go" /\ read' = 0 /\ got' = NoReceipt /\ clean' = TRUE
  /\ opc' = "idle" /\ pending' = {} /\ conf' = NoRequest
  /\ proof' = {}
  /\ UNCHANGED <<capital, ramp, marks, launched, latch, plan, desk, account,
                 raced, ownOrder, ownFill, resumes>>

(* External: the market moves what is held, a session of it ends.          *)
Market ==
  /\ held /\ pnl' \in Profits /\ eff + pnl' > 0 /\ peak' = Larger(peak, pnl')
  /\ UNCHANGED <<capital, ramp, marks, gate, plan, desk, held, sched, oper, history, bounds>>

Session ==
  /\ age \in 0..(MinimumStageSessions - 1) /\ age' = age + 1
  /\ UNCHANGED <<capital, stage, rampBase, rampTarget, autoFill, marks, gate, plan, desk,
                 account, sched, oper, history, bounds>>

-----------------------------------------------------------------------------
(* A first start: bootstrap_repository over a ledger that may hold the     *)
(* marks of the strategy's fixed-capital days.                             *)
Init ==
  /\ base = 0 /\ ratio = 0 /\ target = 0 /\ eff = 0 /\ revision = 0
  /\ stage = 0 /\ rampBase = 0 /\ rampTarget = 0 /\ age = Unfilled /\ autoFill = FALSE
  /\ hwm \in OldMarks /\ budget = 4 * hwm
  /\ launched = FALSE /\ quar = TRUE /\ state = "SETUP"
  /\ halt = TRUE /\ latch = FALSE /\ safe = FALSE
  /\ plan = "none" /\ order = "none" /\ autoCycles = FALSE
  /\ held = FALSE /\ pnl = 0 /\ peak = 0
  /\ pc = "idle" /\ rel = "go" /\ read = 0 /\ got = NoReceipt /\ clean = TRUE
  /\ opc = "idle" /\ pending = {} /\ conf = NoRequest
  /\ raced = {} /\ ownOrder = FALSE /\ ownFill = FALSE /\ proof = {}
  /\ crashes = 0 /\ resumes = 0

Monitor == MonitorIdle \/ MonitorOrder \/ MonitorFails \/ Sync
Reconcile == ReconcileClean \/ ReconcileFails
ReleaseStep == ReleaseRead \/ ReleaseDeclined \/ Release
RampStep == RampWaits \/ RampAdvances \/ RampCompletes
BuyStep == BuyChosen \/ NoBuy \/ Submit \/ SubmitUnknown \/ SubmitRefused
Allocate == AllocateBlocked \/ AllocateReconciled \/ ReadEquity \/ RecordEquity
              \/ NewWeights \/ ReadBudget \/ WriteTargets \/ NoTargets
SchedulerStep == Monitor \/ Reconcile \/ ReleaseStep \/ RampStep \/ BuyStep \/ Allocate

Callback == ConfirmChecked \/ CommitFails \/ CommitConfig \/ CommitLaunch
Resume == ResumeStart \/ ResumeReconcile \/ ResumeReopen
OperatorStep ==
  \/ \E r \in Requests : Review(r)
  \/ \E p \in pending : Withdraw(p) \/ Confirm(p)
  \/ Callback \/ Halt \/ Resume

Next == SchedulerStep \/ OperatorStep \/ Restart \/ Market \/ Session
Spec == Init /\ [][Next]_vars

(* The scheduler never stops and a callback runs to its end; the broker    *)
(* does not fail for ever, and a DAY order ends.                           *)
Fairness ==
  /\ WF_vars(SchedulerStep) /\ WF_vars(Callback)
  /\ SF_vars(MonitorOrder /\ ~Open')
  /\ SF_vars(ReconcileClean /\ pc' = "release")
FairSpec == Spec /\ Fairness

-----------------------------------------------------------------------------
States == {"SETUP", "READY", "STARTUP_QUARANTINE", "AUTO_QUARANTINE", "RUNNING",
           "OPERATOR_HALT", "SAFE_MODE"}
Labels == {"idle", "sync", "reconcile", "release", "decide", "ramp", "buy", "submit",
           "allocate", "equity", "mark", "weights", "size", "write"}
Receipts == [filled : BOOLEAN, final : BOOLEAN, back : {"idle", "reconcile"}]
Confirmations == [revision : Nat, base : Nat, ratio : Nat, target : Nat, eff : Nat,
                  launched : BOOLEAN, stage : 0..3, rampTarget : Nat, latch : BOOLEAN]
Buttons == [kind : {"capital"}, value : Bases, seen : Confirmations]
             \cup [kind : {"ratio"}, value : Ratios, seen : Confirmations]
             \cup [kind : {"start"}, value : {1}, seen : Confirmations]

(* Every variable holds a value of its type.                               *)
TypeOK ==
  /\ base \in Bases \cup {0} /\ ratio \in Ratios \cup {0}
  /\ target \in Nat /\ eff \in Nat /\ revision \in Nat
  /\ stage \in 0..3 /\ rampBase \in Nat /\ rampTarget \in Nat
  /\ age \in -1..MinimumStageSessions /\ autoFill \in BOOLEAN
  /\ hwm \in Nat /\ budget \in Nat
  /\ launched \in BOOLEAN /\ quar \in BOOLEAN /\ state \in States
  /\ halt \in BOOLEAN /\ latch \in BOOLEAN /\ safe \in BOOLEAN
  /\ plan \in {"none", "short", "met"} /\ order \in {"none", "open", "partial"}
  /\ autoCycles \in BOOLEAN
  /\ held \in BOOLEAN /\ pnl \in Profits /\ peak \in Nat
  /\ pc \in Labels /\ rel \in States \cup {"go"} /\ read \in Nat
  /\ got \in Receipts /\ clean \in BOOLEAN
  /\ opc \in {"idle", "check", "commit", "resume", "reopen"}
  /\ pending \subseteq Buttons /\ conf \in Buttons \cup {NoRequest}
  /\ raced \subseteq {"mark", "fill"} /\ ownOrder \in BOOLEAN /\ ownFill \in BOOLEAN
  /\ proof \subseteq Since
  /\ crashes \in Nat /\ resumes \in Nat

(* After launch, settings, principal, mark and budget agree exactly as the *)
(* final BUY boundary demands (require_live_auto_buy_contract): no         *)
(* sequence of changes, ramp steps and recordings shuts BUY for ever, or   *)
(* leaves a budget above what the mark allows.                             *)
ContractHolds ==
  launched =>
    /\ target = Principal(base, ratio)
    /\ 0 < eff /\ eff <= target
    /\ eff <= hwm
    /\ 0 <= budget /\ budget <= 4 * eff + 3 * (hwm - eff)

(* The principal in force is exactly the running stage's share, and the    *)
(* ramp leads to the target the operator set last: a reduction and a ramp  *)
(* in progress never mix (_retarget_live_principal, advance_ramp_if_ready).*)
StageCapital ==
  stage # 0 =>
    /\ launched /\ rampTarget = target
    /\ eff = Share(rampBase, rampTarget, stage)

(* A withdrawal is not mistaken for a profit: the high-water mark stands   *)
(* above the principal by no more than the largest profit there ever was   *)
(* ("a capital reduction cannot be mistaken for investment profit",        *)
(* managed_account.py) ...                                                 *)
MarkIsEarned == launched => hwm - eff <= peak
(* ... as long as no withdrawal meets an allocation that has read the      *)
(* equity and not yet recorded it.                                         *)
MarkIsEarnedUnraced == "mark" \notin raced => MarkIsEarned

(* A confirmation takes effect only on the very state its button was       *)
(* offered for, whatever ramp step, halt or other confirmation came        *)
(* between (confirmation_state; every writer of it takes the lock).        *)
ConfirmedAsReviewed ==
  [][revision' # revision \/ launched' # launched => conf.seen = Confirmation]_vars

(* Money a launch or a change has moved is not traded on older evidence: a *)
(* BUY is submitted only after a clean reconciliation that came after the  *)
(* last flow and the last start of the process.                            *)
BuyAfterFlow ==
  [][Submit \/ SubmitUnknown => {"start", "flow"} \subseteq proof]_vars

(* A process opens the gate only behind a clean reconciliation of its own: *)
(* neither what the crash left in the database, nor a resume, a halt or a  *)
(* settings change brings the gate back (arm_startup_quarantine, resume).  *)
GateIsProven == Gate => "start" \in proof

(* Every stage proves itself: the ramp moves on only after an AUTO order   *)
(* of that very stage filled ("must prove at least one real AUTO fill      *)
(* under that stage's capital", final_ops_hardening.py), and after the     *)
(* sessions in which the stage stayed filled ...                           *)
StageProven ==
  [][stage # 0 /\ stage' = stage + 1 => ownFill /\ age = MinimumStageSessions]_vars
(* ... as long as no stage starts while the monitor has a fill of the      *)
(* stage before it to write down.                                          *)
StageProvenUnraced ==
  [][stage # 0 /\ stage' = stage + 1 =>
       (ownFill \/ "fill" \in raced) /\ age = MinimumStageSessions]_vars

(* What the proofs add.  A RUNNING state is one this process has proven;   *)
(* on the way from a clean reconciliation to a BUY, a flow has withdrawn   *)
(* the generation.                                                         *)
CycleInv ==
  /\ state = "RUNNING" => "start" \in proof
  /\ pc \in {"release", "decide", "ramp", "buy", "submit"} =>
       "start" \in proof /\ ("flow" \in proof \/ plan = "none")
  /\ rel # "RUNNING"

(* Nothing a button is bound to moves while its confirmation is at work.   *)
ConfirmInv == opc \in {"check", "commit"} => conf.seen = Confirmation

(* Settings and ramp, before launch too.                                   *)
CapitalInv ==
  /\ ContractHolds /\ StageCapital
  /\ target = Principal(base, ratio)
  /\ stage # 0 => rampBase <= rampTarget
  /\ launched => base \in Bases /\ ratio \in Ratios
  /\ ~launched => eff = 0 /\ stage = 0

(* An equity read and not yet recorded.                                    *)
MarkInv ==
  /\ pnl <= peak
  /\ "mark" \notin raced /\ launched => hwm <= eff + peak
  /\ "mark" \notin raced /\ pc = "mark" => read <= eff + peak

(* The evidence of a stage, written down or on its way.                    *)
FillInv ==
  /\ stage # 0 /\ Open => ownOrder
  /\ "fill" \notin raced /\ stage # 0 /\ ~ownFill =>
       ~autoFill /\ ~(pc = "sync" /\ got.filled)

(* The inductive invariant.                                                *)
IInv == TypeOK /\ CycleInv /\ ConfirmInv /\ CapitalInv /\ MarkInv /\ FillInv

(* Once launched, a quarantine is left again, unless the operator's halt   *)
(* or SAFE_MODE demand a person (try_release_quarantine).                  *)
AutoRecovers == launched ~> (Gate \/ latch \/ safe)
=============================================================================
