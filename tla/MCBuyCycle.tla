----------------------------- MODULE MCBuyCycle -----------------------------
(***************************************************************************)
(* Two BUYs, and one BUY followed to its end: where followed is TRUE the   *)
(* second is never reserved, and the fairness of OrderFlow is assumed.     *)
(***************************************************************************)
EXTENDS MCOrderFlow

VARIABLE followed

cycleVars == <<vars, followed>>

Follow(action) == followed /\ action /\ status'[o2] = "NONE" /\ UNCHANGED followed

CycleInit == Init /\ followed \in BOOLEAN
CycleNext == Next /\ UNCHANGED followed /\ (followed => status'[o2] = "NONE")

(* Fairness of OrderFlow, of the order that is followed. *)
CycleFairness ==
  /\ WF_cycleVars(Follow(Step(Sched)))
  /\ WF_cycleVars(Follow(BrokerFill(o1) \/ BrokerClose(o1)))
  /\ SF_cycleVars(Follow(TruthfulRead))
  /\ SF_cycleVars(Follow(TruthfulGet(o1)))

CycleSpec == CycleInit /\ [][CycleNext]_cycleVars /\ CycleFairness

(* No order the broker took stays undecided for ever (EveryOrderEnds): it  *)
(* is settled by the monitor, or its misread answer ends in SAFE_MODE.     *)
FollowedOrderEnds == followed => EveryOrderEnds
=============================================================================
