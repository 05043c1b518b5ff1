------------------------------- MODULE MCDesk -------------------------------
(***************************************************************************)
(* The components around the order flow and the control loop, checked side *)
(* by side: focus picks the one that moves, the others stay at their first *)
(* state, so their state spaces add instead of multiplying.                *)
(***************************************************************************)
EXTENDS Allocator, Approvals, DailyCycle, TokenCache, Overlay, Targets, PaperBroker,
        MorningBrief, DailyBars, AutoAttempts, TLC

VARIABLE focus

Focuses ==
    {"allocation", "cards", "batch", "daily", "tokens", "overlay", "targets", "paper",
     "brief", "bars", "attempts"}

CONSTANTS s1, s2, h1, h2, p1, p2, a, c, b1, b2, x1, t1, t2, soxx, smh

(* Allocator: a first entry, a rotation and a retreat. *)
Grow == <<<<2, 0>>, <<2, 0>>, <<2, 2>>>>
Shift == <<<<0, 2>>, <<2, 0>>, <<2, 0>>>>
Cut == <<<<2, 2>>, <<0, 2>>, <<0, 2>>>>
FewPlans == {Grow, Shift, Cut}
SmallBudgets == {1, 2}
EntryPercent == <<50, 75, 100>>

(* TokenCache: a thread of each of two services. *)
Homes == (a :> p1) @@ (c :> p2)

(* Overlay: the weights and drops of strategy.yaml, two exposure bands. *)
TwoBands == {<<55, 60>>, <<92, 100>>}
StageWeights == <<40, 70, 90>>
StageDrops == <<0, 2, 5>>

(* These stages and gains are such as CapHonouredHolds and CycleGainsHolds ask for. *)
ASSUME InstanceAssumption == RoomForRounding /\ GainsCoverFees

(* Targets: a flat session and one that has turned the portfolio over, so   *)
(* that a rebalance may end short; two kinds of trend, two entries.         *)
TwoQuotes == {[QQQ |-> 8, TQQQ |-> 8, SOXL |-> 8], [QQQ |-> 1, TQQQ |-> 12, SOXL |-> 8]}
TwoTrends == {{"short", "slope", "cross"}, {"cross", "medium", "long"}}
HalfThenAll == <<2, 4>>

(* Within the instances: what each focus leaves out to stay small. *)
AllocationSlice == ~raced /\ (live => day' <= 2)

(* The callback threads are alike: the second takes a callback when the first is busy. *)
FirstFree == hand[h2] = NoHand /\ hand'[h2] # NoHand => hand[h1] # NoHand

CardSlice == FirstFree /\ sigStatus'[s2] = "none" /\ goal'[s2] = 1

BatchSlice ==
    /\ FirstFree
    /\ \A i \in DOMAIN slips' : slips'[i].stage = "EXECUTION"
    /\ Len(slips') <= 2
    /\ \A s \in Signals : plan'[s] <= 1 /\ sigStatus'[s] # "EXPIRED"

TargetSlice == flags' # {"TQQQ"}

AttemptSlice ==
    DayOf(tick) > 0 => wanted' \subseteq {1} /\ AllOf(cycles'[1]) <= 1 /\ ends' = ends

(* The parts, and which of them each focus moves. *)
Still(part_) ==
    /\ "allocation" \in part_ => UNCHANGED allocVars
    /\ "approvals" \in part_ => UNCHANGED apprVars
    /\ "daily" \in part_ => UNCHANGED dailyVars
    /\ "tokens" \in part_ => UNCHANGED tokenVars
    /\ "overlay" \in part_ => UNCHANGED simVars
    /\ "targets" \in part_ => UNCHANGED targetVars
    /\ "paper" \in part_ => UNCHANGED paperVars
    /\ "brief" \in part_ => UNCHANGED briefVars
    /\ "bars" \in part_ => UNCHANGED barVars
    /\ "attempts" \in part_ => UNCHANGED attemptVars

Parts ==
    {"allocation", "approvals", "daily", "tokens", "overlay", "targets", "paper", "brief", "bars",
     "attempts"}

DeskInit ==
    /\ focus \in Focuses
    /\ Init
    /\ IF focus = "allocation"
       THEN (live => strategy # Grow) /\ (~live => budget = 2 /\ strategy = Grow)
       ELSE ~live /\ budget = 2 /\ strategy = Grow /\ status = "NOT_STARTED"
    /\ ApprInit
    /\ goal = [s \in Signals |-> 1]
    /\ DailyInit /\ TokenInit /\ OverlayInit /\ TargetsInit /\ PaperInit
    /\ BriefInit /\ BarsInit /\ AttemptInit

DeskNext ==
    /\ UNCHANGED focus
    /\ \/ focus = "allocation" /\ AllocNext /\ AllocationSlice /\ Still(Parts \ {"allocation"})
       \/ focus = "cards" /\ ApprNext /\ CardSlice /\ Still(Parts \ {"approvals"})
       \/ focus = "batch" /\ ApprNext /\ BatchSlice /\ Still(Parts \ {"approvals"})
       \/ focus = "daily" /\ DailyNext /\ Still(Parts \ {"daily"})
       \/ focus = "tokens" /\ TokenNext /\ Still(Parts \ {"tokens"})
       \/ focus = "overlay" /\ OverlayNext /\ Still(Parts \ {"overlay"})
       \/ focus = "targets" /\ TargetsNext /\ TargetSlice /\ Still(Parts \ {"targets"})
       \/ focus = "paper" /\ PaperNext /\ Still(Parts \ {"paper"})
       \/ focus = "brief" /\ BriefNext /\ Still(Parts \ {"brief"})
       \/ focus = "bars" /\ BarsNext /\ Still(Parts \ {"bars"})
       \/ focus = "attempts" /\ AttemptNext /\ AttemptSlice /\ Still(Parts \ {"attempts"})

deskVars == <<focus, allocVars, apprVars, dailyVars, tokenVars, simVars, targetVars, paperVars,
              briefVars, barVars, attemptVars>>

DeskSpec == DeskInit /\ [][DeskNext]_deskVars

(* Every component keeps the values its variables stand for (the others are *)
(* where they began).                                                       *)
DeskTypeOK ==
    /\ focus = "allocation" => AllocTypeOK
    /\ focus \in {"cards", "batch"} => ApprTypeOK
    /\ focus = "daily" => DailyTypeOK
    /\ focus = "tokens" => TokenTypeOK
    /\ focus = "overlay" => OverlayTypeOK
    /\ focus = "targets" => TargetsTypeOK
    /\ focus = "paper" => PaperTypeOK
    /\ focus = "brief" => BriefTypeOK
    /\ focus = "bars" => BarsTypeOK
    /\ focus = "attempts" => AttemptTypeOK
=============================================================================
