---------------------------- MODULE Daily_proofs ----------------------------
(***************************************************************************)
(* The daily work around trading: the scheduler's pass (DailyCycle), the    *)
(* morning brief beside it (MorningBrief), the daily bars the pass starts   *)
(* from (DailyBars) and the strategy it computes: the virtual position      *)
(* (Overlay) and the target weights (Targets).  For each its inductive      *)
(* invariant, and the theorems that follow, for any number of sessions,     *)
(* mornings, faults, splits and lost files, any prices, scores and stages.  *)
(***************************************************************************)
EXTENDS DailyCycle, MorningBrief, DailyBars, Overlay, Targets, SequenceTheorems, Totals

-----------------------------------------------------------------------------
(* DailyCycle: types.                                                      *)

Loops == [pc : Places, settled : BOOLEAN, safe : BOOLEAN, completed : 0..MaxDate,
          retry : BOOLEAN, attempted : BOOLEAN, failed : BOOLEAN]
Gates == [date : 0..MaxDate, failures : 0..MaxFaults, waiting : BOOLEAN]

(* A job's failures are faults. *)
Numbers ==
  /\ date \in 1..MaxDate /\ analysed \in 0..MaxDate /\ streak \in 0..1 /\ since \in 0..2
  /\ faults \in 0..MaxFaults /\ gate.failures <= faults
Flags ==
  /\ phase \in Phases /\ pendingDaily \in BOOLEAN /\ pendingTransient \in BOOLEAN
  /\ quarantined \in BOOLEAN /\ torn \in BOOLEAN
DailyTypes == Numbers /\ Flags /\ loop \in Loops /\ gate \in Gates

LEMMA RestingFits == Resting \in Loops /\ FreshGate \in Gates
<1>1. 0 \in 0..MaxDate /\ 0 \in 0..MaxFaults
  BY DailyAssumption
<1>2. QED BY <1>1, Zenon DEF Resting, Loops, Places, FreshGate, Gates

(* Every value the gate is given.                                          *)
LEMMA GateFits ==
  ASSUME NEW g \in Gates, NEW d \in 0..MaxDate, NEW n \in 0..MaxFaults, NEW b \in BOOLEAN
  PROVE  /\ [g EXCEPT !.failures = n, !.waiting = b] \in Gates
         /\ [g EXCEPT !.waiting = b] \in Gates
         /\ [g EXCEPT !.date = d] \in Gates
         /\ [date |-> d, failures |-> n, waiting |-> b] \in Gates
BY DEF Gates

(* A job that fails is counted, once, as a fault.                          *)
LEMMA JobFailure ==
  ASSUME DailyTypes, JobFails
  PROVE  gate' \in Gates /\ gate'.failures <= faults' /\ faults' \in 0..MaxFaults
<1> USE DailyAssumption DEF DailyTypes, Numbers, JobFails, Fault
<1> DEFINE g == IF gate.date = loop.completed THEN gate
                ELSE [FreshGate EXCEPT !.date = loop.completed]
<1>1. loop.completed \in 0..MaxDate
  BY DEF Loops
<1>2. g \in Gates /\ g.failures <= faults
  <2>1. CASE gate.date = loop.completed
    BY <2>1
  <2>2. CASE gate.date # loop.completed
    <3>1. g = [FreshGate EXCEPT !.date = loop.completed]
      BY <2>2
    <3>2. g \in Gates
      BY <1>1, <3>1, RestingFits, GateFits
    <3>3. g.failures = 0
      BY <3>1 DEF FreshGate
    <3>4. QED BY <3>2, <3>3
  <2>3. QED BY <2>1, <2>2
<1>3. gate' = [g EXCEPT !.failures = g.failures + 1, !.waiting = TRUE]
  OBVIOUS
<1> HIDE DEF g
<1>4. g.failures \in 0..MaxFaults
  BY <1>2 DEF Gates
<1>5. TRUE \in BOOLEAN /\ g.failures + 1 \in 0..MaxFaults /\ 0 \in 0..MaxDate
  BY <1>2, <1>4
<1>6. gate' \in Gates
  <2>1. [g EXCEPT !.failures = g.failures + 1, !.waiting = TRUE] \in Gates
    BY <1>2, <1>5, GateFits, Zenon
  <2>2. QED BY <1>3, <2>1, Zenon
<1>7. gate'.failures = g.failures + 1
  BY <1>2, <1>3 DEF Gates
<1>8. QED BY <1>2, <1>4, <1>6, <1>7

LEMMA DailyTypesStep == DailyTypes /\ [DailyNext]_dailyVars => DailyTypes'
<1> SUFFICES ASSUME DailyTypes, [DailyNext]_dailyVars
             PROVE  DailyTypes'
  OBVIOUS
<1> USE DailyAssumption DEF DailyTypes, Loops, Gates, Places, Phases, Resting, FreshGate,
        At, Onto, Unsafe, Fault, NoFault, recoveryVars, jobVars, skyVars
<1>1. CASE Wake
  <2>1. Numbers'
    BY <1>1, SMT DEF Wake, Numbers
  <2>2. Flags'
    BY <1>1, Zenon DEF Wake, Flags
  <2>3. loop' \in Loops
    BY <1>1, Zenon DEF Wake, Flags, Numbers
  <2>4. gate' \in Gates
    BY <1>1, SMT DEF Wake, Flags, Numbers
  <2>5. QED BY <2>1, <2>2, <2>3, <2>4
<1>2. CASE Outage
  <2>1. Numbers'
    BY <1>2, SMT DEF Outage, Numbers
  <2>2. Flags'
    BY <1>2, Zenon DEF Outage, Flags
  <2>3. loop' \in Loops
    BY <1>2, Zenon DEF Outage, Flags, Numbers
  <2>4. gate' \in Gates
    BY <1>2, SMT DEF Outage, Flags, Numbers
  <2>5. QED BY <2>1, <2>2, <2>3, <2>4
<1>3. CASE Arm
  <2>1. Numbers'
    BY <1>3, SMT DEF Arm, Numbers
  <2>2. Flags'
    BY <1>3, Zenon DEF Arm, Flags
  <2>3. loop' \in Loops
    BY <1>3, Zenon DEF Arm, Flags, Numbers
  <2>4. gate' \in Gates
    BY <1>3, SMT DEF Arm, Flags, Numbers
  <2>5. QED BY <2>1, <2>2, <2>3, <2>4
<1>4. CASE Rezero
  <2>1. Numbers'
    BY <1>4, SMT DEF Rezero, Numbers
  <2>2. Flags'
    BY <1>4, Zenon DEF Rezero, Flags
  <2>3. loop' \in Loops
    BY <1>4, Zenon DEF Rezero, Flags, Numbers
  <2>4. gate' \in Gates
    BY <1>4, SMT DEF Rezero, Flags, Numbers
  <2>5. QED BY <2>1, <2>2, <2>3, <2>4
<1>5. CASE Dirty
  <2>1. Numbers'
    BY <1>5, SMT DEF Dirty, Numbers
  <2>2. Flags'
    BY <1>5, Zenon DEF Dirty, Flags
  <2>3. loop' \in Loops
    BY <1>5, Zenon DEF Dirty, Flags, Numbers
  <2>4. gate' \in Gates
    BY <1>5, SMT DEF Dirty, Flags, Numbers
  <2>5. QED BY <2>1, <2>2, <2>3, <2>4
<1>6. CASE Clean
  <2>1. Numbers'
    BY <1>6, SMT DEF Clean, Numbers
  <2>2. Flags'
    BY <1>6, Zenon DEF Clean, Flags
  <2>3. loop' \in Loops
    BY <1>6, Zenon DEF Clean, Flags, Numbers
  <2>4. gate' \in Gates
    BY <1>6, SMT DEF Clean, Flags, Numbers
  <2>5. QED BY <2>1, <2>2, <2>3, <2>4
<1>7. CASE Disarm
  <2>1. Numbers'
    BY <1>7, SMT DEF Disarm, Numbers
  <2>2. Flags'
    BY <1>7, Zenon DEF Disarm, Flags
  <2>3. loop' \in Loops
    BY <1>7, Zenon DEF Disarm, Flags, Numbers
  <2>4. gate' \in Gates
    BY <1>7, SMT DEF Disarm, Flags, Numbers
  <2>5. QED BY <2>1, <2>2, <2>3, <2>4
<1>8. CASE DailyCheck
  <2>1. Numbers'
    BY <1>8, SMT DEF DailyCheck, Numbers
  <2>2. Flags'
    BY <1>8, Zenon DEF DailyCheck, Flags
  <2>3. loop' \in Loops
    BY <1>8, Zenon DEF DailyCheck, Flags, Numbers
  <2>4. gate' \in Gates
    BY <1>8, SMT DEF DailyCheck, Flags, Numbers
  <2>5. QED BY <2>1, <2>2, <2>3, <2>4
<1>9. CASE AutoTrades
  <2>1. /\ UNCHANGED <<date, analysed, gate, streak, since>>
        /\ NoFault \/ Fault
    BY <1>9 DEF AutoTrades
  <2>2. Numbers'
    BY <2>1, SMT DEF Numbers
  <2>3. UNCHANGED <<phase, pendingDaily, pendingTransient, torn>>
    BY <1>9, Zenon DEF AutoTrades
  <2>4. quarantined' \in BOOLEAN
    BY <1>9, Zenon DEF AutoTrades, Flags
  <2>5. Flags'
    BY <2>3, <2>4, Zenon DEF Flags
  <2>6. loop' \in Loops
    <3>1. loop' = [loop EXCEPT !.pc = "clock", !.safe = TRUE] \/ Unsafe
      BY <1>9, Zenon DEF AutoTrades
    <3>2. QED BY <3>1, Zenon
  <2>7. QED BY <2>1, <2>2, <2>5, <2>6
<1>10. CASE Clock
  <2>1. Numbers'
    BY <1>10, SMT DEF Clock, Dated, Numbers
  <2>2. Flags'
    BY <1>10, Zenon DEF Clock, Dated, Flags
  <2>3. loop' \in Loops
    <3>1. date \in 0..MaxDate /\ (~Dated.waiting) \in BOOLEAN
      BY DEF Numbers
    <3>2. QED BY <1>10, <3>1, Zenon DEF Clock
  <2>4. gate' \in Gates
    <3>1. date \in 0..MaxDate
      BY DEF Numbers
    <3>2. Dated \in Gates
      BY <3>1, RestingFits, GateFits DEF Dated
    <3>3. gate' = Dated \/ gate' = gate
      BY <1>10 DEF Clock
    <3>4. QED BY <3>2, <3>3
  <2>5. QED BY <2>1, <2>2, <2>3, <2>4
<1>11. CASE DailyAllocate
  <2>0. JobFails \/ UNCHANGED <<gate, faults>>
    BY <1>11 DEF DailyAllocate
  <2>1. Numbers'
    BY <1>11, <2>0, JobFailure, SMT DEF DailyAllocate, Numbers
  <2>2. Flags'
    BY <1>11, Zenon DEF DailyAllocate, JobFails, Flags
  <2>3. loop' \in Loops
    BY <1>11, Zenon DEF DailyAllocate, JobFails, Flags, Numbers
  <2>4. gate' \in Gates
    BY <2>0, JobFailure
  <2>5. QED BY <2>1, <2>2, <2>3, <2>4
<1>12. CASE Analyse
  <2>0. JobFails \/ UNCHANGED <<gate, faults>>
    BY <1>12 DEF Analyse
  <2>1. Numbers'
    BY <1>12, <2>0, JobFailure, SMT DEF Analyse, Numbers
  <2>2. Flags'
    BY <1>12, Zenon DEF Analyse, JobFails, Flags
  <2>3. loop' \in Loops
    BY <1>12, Zenon DEF Analyse, JobFails, Flags, Numbers
  <2>4. gate' \in Gates
    BY <2>0, JobFailure
  <2>5. QED BY <2>1, <2>2, <2>3, <2>4
<1>13. CASE Record
  <2>1. Numbers'
    BY <1>13, SMT DEF Record, Numbers
  <2>2. Flags'
    BY <1>13, Zenon DEF Record, Flags
  <2>3. loop' \in Loops
    BY <1>13, RestingFits DEF Record
  <2>4. gate' \in Gates
    <3>1. loop.completed \in 0..MaxDate /\ 0 \in 0..MaxFaults
      OBVIOUS
    <3>2. FALSE \in BOOLEAN
      BY Zenon
    <3>3. [date |-> loop.completed, failures |-> 0, waiting |-> FALSE] \in Gates
      BY <3>1, <3>2, GateFits
    <3>4. QED BY <1>13, <3>3 DEF Record
  <2>5. QED BY <2>1, <2>2, <2>3, <2>4
<1>14. CASE SkyTurns
  <2>1. Numbers'
    BY <1>14, SMT DEF SkyTurns, Numbers
  <2>2. Flags'
    BY <1>14, Zenon DEF SkyTurns, Flags
  <2>3. loop' \in Loops
    BY <1>14, Zenon DEF SkyTurns, Flags, Numbers
  <2>4. gate' \in Gates
    BY <1>14, SMT DEF SkyTurns, Flags, Numbers
  <2>5. QED BY <2>1, <2>2, <2>3, <2>4
<1>15. CASE DelayEnds
  <2>1. Numbers'
    BY <1>15, SMT DEF DelayEnds, Numbers
  <2>2. Flags'
    BY <1>15, Zenon DEF DelayEnds, Flags
  <2>3. loop' \in Loops
    BY <1>15, Zenon DEF DelayEnds, Flags, Numbers
  <2>4. gate' \in Gates
    BY <1>15, Zenon DEF DelayEnds
  <2>5. QED BY <2>1, <2>2, <2>3, <2>4
<1>16. CASE LoopRaises
  <2>1. Numbers'
    BY <1>16, SMT DEF LoopRaises, Torn, Numbers
  <2>2. Flags'
    BY <1>16, Zenon DEF LoopRaises, Torn, Flags
  <2>3. loop' \in Loops
    BY <1>16, RestingFits DEF LoopRaises
  <2>4. gate' \in Gates
    BY <1>16, SMT DEF LoopRaises, Torn, Flags, Numbers
  <2>5. QED BY <2>1, <2>2, <2>3, <2>4
<1>17. CASE DailyRestart
  <2>1. Numbers'
    BY <1>17, SMT DEF DailyRestart, Torn, Numbers
  <2>2. Flags'
    BY <1>17, Zenon DEF DailyRestart, Torn, Flags
  <2>3. loop' \in Loops
    BY <1>17, RestingFits DEF DailyRestart
  <2>4. gate' \in Gates
    BY <1>17, SMT DEF DailyRestart, Torn, Flags, Numbers
  <2>5. QED BY <2>1, <2>2, <2>3, <2>4
<1>18. CASE UNCHANGED dailyVars
  BY <1>18 DEF dailyVars, Numbers, Flags
<1>19. QED
  BY <1>1, <1>2, <1>3, <1>4, <1>5, <1>6, <1>7, <1>8, <1>9, <1>10, <1>11, <1>12, <1>13, <1>14,
     <1>15, <1>16, <1>17, <1>18 DEF DailyNext, DailyPass

LEMMA DailyTypesInit == DailyInit => DailyTypes
<1> SUFFICES ASSUME DailyInit PROVE DailyTypes
  OBVIOUS
<1>1. Numbers
  BY DailyAssumption DEF DailyInit, Numbers, FreshGate
<1>2. Flags
  BY Zenon DEF DailyInit, Flags, Phases
<1>3. QED BY <1>1, <1>2, RestingFits DEF DailyInit, DailyTypes

-----------------------------------------------------------------------------
(* DailyCycle: the recovery after an outage.                               *)

(* Unless the process ended inside the bookkeeping of an outage, the streak counts at
   most the clean reconciliations since it, and the flag stands until there were two.
   What comes after the check of the flag meets it cleared. *)
RecoveryInv ==
  /\ ~torn => /\ pendingTransient /\ loop.pc \notin {"arm", "rezero"} => streak <= since
              /\ ~pendingTransient /\ loop.pc # "arm" => since = 2
  /\ loop.pc = "rezero" => pendingTransient
  /\ loop.pc \in {"disarm", "daily", "auto"} => ~pendingTransient

LEMMA RecoveryInvStep == DailyTypes /\ RecoveryInv /\ [DailyNext]_dailyVars => RecoveryInv'
<1> SUFFICES ASSUME DailyTypes, RecoveryInv, [DailyNext]_dailyVars
             PROVE  RecoveryInv'
  OBVIOUS
<1> USE DEF RecoveryInv, DailyTypes, Numbers, Loops, At, Onto, Unsafe, recoveryVars
<1>1. CASE Wake
  BY <1>1 DEF Wake
<1>2. CASE Outage
  BY <1>2 DEF Outage
<1>3. CASE Arm
  BY <1>3 DEF Arm
<1>4. CASE Rezero
  BY <1>4 DEF Rezero
<1>5. CASE Dirty
  BY <1>5 DEF Dirty
<1>6. CASE Clean
  <2>1. At("reconcile") /\ torn' = torn /\ since' = IF since < 2 THEN since + 1 ELSE 2
    BY <1>6 DEF Clean
  <2>2. CASE ~pendingTransient /\ Onto("daily") /\ UNCHANGED <<pendingTransient, streak>>
    BY <2>1, <2>2
  <2>3. CASE pendingTransient /\ streak' = streak + 1 /\ Unsafe /\ UNCHANGED pendingTransient
    BY <2>1, <2>3
  <2>4. CASE pendingTransient /\ streak + 1 >= 2 /\ ~pendingTransient' /\ Onto("disarm")
    BY <2>1, <2>4
  <2>5. QED BY <1>6, <2>2, <2>3, <2>4 DEF Clean
<1>7. CASE Disarm
  BY <1>7 DEF Disarm
<1>8. CASE DailyCheck
  BY <1>8 DEF DailyCheck
<1>9. CASE AutoTrades
  BY <1>9 DEF AutoTrades
<1>10. CASE Clock
  BY <1>10 DEF Clock
<1>11. CASE DailyAllocate
  BY <1>11 DEF DailyAllocate, JobFails
<1>12. CASE Analyse
  BY <1>12 DEF Analyse, JobFails
<1>13. CASE Record
  BY <1>13 DEF Record, Resting
<1>14. CASE SkyTurns
  BY <1>14 DEF SkyTurns
<1>15. CASE DelayEnds
  BY <1>15 DEF DelayEnds
<1>16. CASE LoopRaises
  BY <1>16 DEF LoopRaises, Resting, Torn
<1>17. CASE DailyRestart
  BY <1>17 DEF DailyRestart, Resting, Torn
<1>18. CASE UNCHANGED dailyVars
  BY <1>18 DEF dailyVars
<1>19. QED
  BY <1>1, <1>2, <1>3, <1>4, <1>5, <1>6, <1>7, <1>8, <1>9, <1>10, <1>11, <1>12, <1>13, <1>14,
     <1>15, <1>16, <1>17, <1>18 DEF DailyNext, DailyPass

(* Every variable of the scheduler's pass keeps its type.                  *)
THEOREM DailyTypeCorrect == DailySpec => []DailyTypeOK
<1>1. DailyTypes => DailyTypeOK
  <2> SUFFICES ASSUME DailyTypes PROVE DailyTypeOK
    OBVIOUS
  <2>1. loop.pc \in Places /\ loop.completed \in 0..MaxDate
    BY DEF DailyTypes, Loops
  <2>2. QED BY <2>1, Zenon DEF DailyTypes, Numbers, Flags, Gates, DailyTypeOK
<1>2. QED BY <1>1, DailyTypesInit, DailyTypesStep, PTL DEF DailySpec

(* After an outage of the broker's reads (advance_transient_recovery) the engine trades
   only after two clean reconciliations, for any number of sessions, outages, errors
   and restarts between them. *)
THEOREM TwoCleanCyclesHolds == DailySpec => []TwoCleanCycles
<1>1. DailyInit => RecoveryInv
  BY DEF DailyInit, RecoveryInv, Resting
<1>2. RecoveryInv => TwoCleanCycles
  BY DEF RecoveryInv, TwoCleanCycles, At
<1>3. QED
  BY <1>1, <1>2, DailyTypesInit, DailyTypesStep, RecoveryInvStep, PTL DEF DailySpec

-----------------------------------------------------------------------------
(* MorningBrief: types.                                                    *)

Tellings == [brief : Nat, notice : Nat, delay : Nat]
Patiences == [date : 0..MaxKstDay, failures : 0..2, waiting : BOOLEAN]
Briefings == [pc : {"rest", "replay", "send", "mark", "notice", "noted"},
              today : 0..MaxKstDay, completed : 0..MaxKstDay]

KstTypes ==
  /\ kstDay \in KstDays /\ daypart \in Dayparts /\ closed \in 1..kstDay
  /\ analysedTo \in 0..MaxKstDay /\ sentOn \in 0..MaxKstDay /\ noticedOn \in 0..MaxKstDay
  /\ briefing \in Briefings /\ told \in [KstDays -> Tellings] /\ mishaps \in 0..MaxMishaps
BriefTypes ==
  /\ KstTypes /\ patience \in Patiences
  /\ down \subseteq RequiredBars \cup OptionalBars /\ crossed \subseteq KstDays

(* A message raises its own count of the current day and nothing else.     *)
LEMMA Delivered ==
  ASSUME KstTypes, NEW kind \in {"brief", "notice", "delay"}, Deliver(kind)
  PROVE  /\ told' \in [KstDays -> Tellings]
         /\ told'[kstDay][kind] = told[kstDay][kind] + 1
         /\ \A d \in KstDays : d # kstDay => told'[d] = told[d]
         /\ \A k \in {"brief", "notice", "delay"} :
              k # kind => told'[kstDay][k] = told[kstDay][k]
<1>1. told' = [told EXCEPT ![kstDay] = [told[kstDay] EXCEPT ![kind] = told[kstDay][kind] + 1]]
  BY DEF Deliver
<1>2. told[kstDay] \in Tellings /\ told[kstDay][kind] \in Nat
  BY DEF KstTypes, Tellings
<1>3. [told[kstDay] EXCEPT ![kind] = told[kstDay][kind] + 1] \in Tellings
  BY <1>2 DEF Tellings
<1>4. QED BY <1>1, <1>2, <1>3 DEF KstTypes, Tellings

(* Every value the gate of the loop is given.                              *)
LEMMA PatienceFits ==
  ASSUME NEW g \in Patiences, NEW d \in 0..MaxKstDay, NEW n \in 0..2, NEW b \in BOOLEAN
  PROVE  /\ [g EXCEPT !.failures = n, !.waiting = b] \in Patiences
         /\ [date |-> d, failures |-> n, waiting |-> b] \in Patiences
BY DEF Patiences

LEMMA PatienceOnFits ==
  ASSUME patience \in Patiences, NEW d \in 0..MaxKstDay
  PROVE  PatienceOn(d) \in Patiences /\ PatienceOn(d).date = d
<1>1. CASE patience.date = d
  BY <1>1 DEF PatienceOn
<1>2. CASE patience.date # d
  <2>1. PatienceOn(d) = [date |-> d, failures |-> 0, waiting |-> FALSE]
    BY <1>2 DEF PatienceOn, NoPatience
  <2>2. 0 \in 0..2 /\ FALSE \in BOOLEAN
    OBVIOUS
  <2>3. [date |-> d, failures |-> 0, waiting |-> FALSE] \in Patiences
    BY <2>2, PatienceFits, Zenon
  <2>4. QED BY <2>1, <2>3
<1>3. QED BY <1>1, <1>2

LEMMA AtRestFits == AtRest \in Briefings /\ NoPatience \in Patiences
<1>1. 0 \in 0..MaxKstDay /\ 0 \in 0..2 /\ FALSE \in BOOLEAN
  BY BriefAssumption
<1>2. AtRest \in Briefings
  BY <1>1, Zenon DEF AtRest, Briefings
<1>3. [date |-> 0, failures |-> 0, waiting |-> FALSE] \in Patiences
  BY <1>1, Zenon DEF Patiences
<1>4. QED BY <1>2, <1>3 DEF NoPatience

(* Failing keeps the session and counts; the gate remembers one session.   *)
LEMMA GivenUp ==
  ASSUME BriefTypes, GivesUp, briefing.completed # 0
  PROVE  /\ patience' \in Patiences /\ briefing' = AtRest
         /\ patience'.date = briefing.completed
         /\ patience.date = briefing.completed /\ patience.failures # 0 => patience'.failures = 2
         /\ patience'.failures # 0
<1> DEFINE p == PatienceOn(briefing.completed)
           n == IF p.failures < 2 THEN p.failures + 1 ELSE 2
<1>1. briefing.completed \in 0..MaxKstDay
  BY DEF BriefTypes, KstTypes, Briefings
<1>2. p \in Patiences /\ p.date = briefing.completed
  BY <1>1, PatienceOnFits DEF BriefTypes
<1>3. patience' = [p EXCEPT !.failures = n, !.waiting = TRUE] /\ briefing' = AtRest
  BY DEF GivesUp
<1>4. patience.date = briefing.completed => p = patience
  BY DEF PatienceOn
<1> HIDE DEF p
<1>5. p.failures \in 0..2
  BY <1>2 DEF Patiences
<1>6. n \in 1..2 /\ (p.failures # 0 => n = 2)
  BY <1>5
<1>7. n \in 0..2
  BY <1>6
<1> HIDE DEF n
<1>8. patience' \in Patiences
  BY <1>2, <1>3, <1>7, Zenon DEF Patiences
<1>9. patience'.date = p.date /\ patience'.failures = n
  BY <1>2, <1>3, Zenon DEF Patiences
<1>10. QED BY <1>2, <1>3, <1>4, <1>6, <1>8, <1>9

LEMMA CycleEnds ==
  ASSUME BriefTypes, GivesUp
  PROVE  briefing' \in Briefings /\ patience' \in Patiences
<1> DEFINE p == PatienceOn(briefing.completed)
           n == IF p.failures < 2 THEN p.failures + 1 ELSE 2
<1>1. briefing.completed \in 0..MaxKstDay
  BY DEF BriefTypes, KstTypes, Briefings
<1>2. p \in Patiences
  BY <1>1, PatienceOnFits DEF BriefTypes
<1>3. patience' = [p EXCEPT !.failures = n, !.waiting = TRUE] /\ briefing' = AtRest
  BY DEF GivesUp
<1> HIDE DEF p
<1>4. n \in 0..2
  BY <1>2 DEF Patiences
<1> HIDE DEF n
<1>5. QED BY <1>2, <1>3, <1>4, AtRestFits, Zenon DEF Patiences

LEMMA BriefTypesStep == BriefTypes /\ [BriefNext]_briefVars => BriefTypes'
<1> SUFFICES ASSUME BriefTypes, [BriefNext]_briefVars
             PROVE  BriefTypes'
  OBVIOUS
<1> USE BriefAssumption DEF BriefTypes, kstVars, markVars, tellVars, In, Move, NoMishap, Mishap
<1>1. CASE Look
  <2>1. PICK c \in {0, closed} :
          \/ /\ daypart = "late" /\ noticedOn # kstDay
             /\ briefing' = [pc |-> "notice", today |-> kstDay, completed |-> c]
             /\ UNCHANGED patience
          \/ /\ daypart = "window" /\ c # 0 /\ analysedTo = c
             /\ ~PatienceOn(c).waiting /\ patience' = PatienceOn(c)
             /\ briefing' = [pc |-> "replay", today |-> kstDay, completed |-> c]
    BY <1>1 DEF Look
  <2>2. c \in 0..MaxKstDay /\ kstDay \in 0..MaxKstDay
    BY DEF KstTypes, KstDays
  <2>3. briefing' \in Briefings
    BY <2>1, <2>2 DEF Briefings
  <2>4. patience' \in Patiences
    BY <2>1, <2>2, PatienceOnFits
  <2>5. QED BY <1>1, <2>3, <2>4 DEF Look, KstTypes
<1>2. CASE ReplayTarget
  <2>1. /\ UNCHANGED <<kstDay, daypart, closed, analysedTo, down, sentOn, noticedOn, crossed>>
        /\ mishaps' \in 0..MaxMishaps
    BY <1>2 DEF ReplayTarget, KstTypes
  <2>2. briefing' \in Briefings /\ patience' \in Patiences
    BY <1>2, CycleEnds DEF ReplayTarget, KstTypes, Briefings
  <2>3. told' \in [KstDays -> Tellings]
    BY <1>2, Delivered DEF ReplayTarget, KstTypes
  <2>4. QED BY <2>1, <2>2, <2>3 DEF KstTypes
<1>3. CASE SendBrief
  <2>1. /\ UNCHANGED <<kstDay, daypart, closed, analysedTo, down, sentOn, noticedOn>>
        /\ mishaps' \in 0..MaxMishaps /\ crossed' \subseteq KstDays
    BY <1>3 DEF SendBrief, KstTypes
  <2>2. briefing' \in Briefings /\ patience' \in Patiences
    BY <1>3, CycleEnds DEF SendBrief, KstTypes, Briefings
  <2>3. told' \in [KstDays -> Tellings]
    BY <1>3, Delivered DEF SendBrief, KstTypes
  <2>4. QED BY <2>1, <2>2, <2>3 DEF KstTypes
<1>4. CASE MarkBrief
  <2>1. briefing.completed \in 0..MaxKstDay /\ briefing.today \in 0..MaxKstDay
    BY DEF KstTypes, Briefings
  <2>2. PatienceOn(briefing.completed) \in Patiences
    BY <2>1, PatienceOnFits
  <2>3. 0 \in 0..2 /\ FALSE \in BOOLEAN
    OBVIOUS
  <2>4. patience' \in Patiences
    BY <1>4, <2>1, <2>2, <2>3, PatienceFits, Zenon DEF MarkBrief
  <2>5. QED BY <1>4, <2>1, <2>4, AtRestFits DEF MarkBrief, KstTypes
<1>5. CASE SendNotice
  <2>1. briefing' \in Briefings
    BY <1>5, AtRestFits DEF SendNotice, KstTypes, Briefings
  <2>2. told' \in [KstDays -> Tellings]
    BY <1>5, Delivered DEF SendNotice, KstTypes
  <2>3. QED BY <1>5, <2>1, <2>2 DEF SendNotice, KstTypes
<1>6. CASE MarkNotice
  BY <1>6, AtRestFits DEF MarkNotice, KstTypes, Briefings
<1>7. CASE KstTurns
  BY <1>7 DEF KstTurns, KstTypes, KstDays, Dayparts
<1>8. CASE AnalysisDone
  BY <1>8 DEF AnalysisDone, KstTypes, KstDays
<1>9. CASE BarsChange
  <2>1. down' \subseteq RequiredBars \cup OptionalBars
    BY <1>9 DEF BarsChange
  <2>2. QED BY <1>9, <2>1 DEF BarsChange, KstTypes
<1>10. CASE PatienceEnds
  <2>1. patience' \in Patiences
    BY <1>10, Zenon DEF PatienceEnds, Patiences
  <2>2. QED BY <1>10, <2>1 DEF PatienceEnds, KstTypes
<1>11. CASE BriefRestart
  BY <1>11, AtRestFits DEF BriefRestart, KstTypes
<1>12. CASE UNCHANGED briefVars
  BY <1>12 DEF briefVars, KstTypes
<1>13. QED
  BY <1>1, <1>2, <1>3, <1>4, <1>5, <1>6, <1>7, <1>8, <1>9, <1>10, <1>11, <1>12 DEF BriefNext






-----------------------------------------------------------------------------
(* MorningBrief: the day's one telling.                                    *)

Told(d) == told[d].brief + told[d].notice

(* A cycle belongs to the current day, which is not marked, and to the latest session;
   days to come are silent.  The notice belongs to the time from 09:00 on. *)
CycleInv ==
  /\ ~In("rest") => /\ briefing.today = kstDay /\ daypart # "early"
                    /\ sentOn # kstDay /\ noticedOn # kstDay
  /\ briefing.pc \in {"replay", "send", "mark"} => briefing.completed = closed
  /\ briefing.pc \in {"notice", "noted"} => daypart = "late"
  /\ noticedOn = kstDay => daypart = "late"
  /\ sentOn <= kstDay /\ noticedOn <= kstDay
  /\ \A d \in KstDays : d > kstDay => told[d] = Silent

(* Brief and notice together: unless today is marked or about to be, each of its
   messages is the trace of a mishap. *)
CountInv ==
  /\ \A d \in KstDays : Told(d) <= 1 + mishaps
  /\ Told(kstDay) <= mishaps \/ sentOn = kstDay \/ noticedOn = kstDay
       \/ briefing.pc \in {"mark", "noted"}

(* The delay: the gate remembers that the session's was announced. *)
DelayInv ==
  /\ \A d \in KstDays : told[d].delay <= 1 + mishaps
  /\ told[kstDay].delay <= mishaps \/ sentOn = kstDay
       \/ (patience.date = closed /\ patience.failures # 0)

(* The marks: what a cycle is about to mark has been told. *)
MarksInv ==
  /\ MarkedIsTold
  /\ In("mark") => told[kstDay].brief > 0 \/ kstDay \in crossed
  /\ In("noted") => told[kstDay].notice > 0

BriefInv == CycleInv /\ CountInv /\ DelayInv /\ MarksInv

(* The counts are numbers. *)
LEMMA Counts ==
  ASSUME KstTypes
  PROVE  \A d \in KstDays : told[d].brief \in Nat /\ told[d].notice \in Nat /\ told[d].delay \in Nat
BY DEF KstTypes, Tellings

(* What a step does to the messages: at most one more, of the current day, and then the
   step is the send or the announcement. *)
Gains(kind) ==
  /\ told'[kstDay][kind] = told[kstDay][kind] + 1
  /\ \A d \in KstDays : d # kstDay => told'[d] = told[d]
  /\ \A k \in {"brief", "notice", "delay"} : k # kind => told'[kstDay][k] = told[kstDay][k]

LEMMA DeliverGains ==
  ASSUME KstTypes, NEW kind \in {"brief", "notice", "delay"}, Deliver(kind)
  PROVE  Gains(kind)
BY Delivered DEF Gains

LEMMA CycleInvStep == BriefTypes /\ CycleInv /\ [BriefNext]_briefVars => CycleInv'
<1> SUFFICES ASSUME BriefTypes, CycleInv, [BriefNext]_briefVars
             PROVE  CycleInv'
  OBVIOUS
<1> USE BriefAssumption DEF kstVars, markVars, tellVars, In, Move, CycleInv
<1>0. /\ KstTypes /\ kstDay \in Nat /\ sentOn \in Nat /\ noticedOn \in Nat
      /\ briefing \in Briefings
  BY DEF BriefTypes, KstTypes, KstDays
<1> USE <1>0 DEF Briefings
<1>1. CASE Look
  BY <1>1 DEF Look
<1>2. CASE ReplayTarget
  <2>1. \/ UNCHANGED told
        \/ Gains("delay")
    BY <1>2, DeliverGains DEF ReplayTarget
  <2>2. \A d \in KstDays : d > kstDay => told'[d] = Silent
    BY <2>1 DEF Gains
  <2>3. UNCHANGED <<kstVars, markVars>> /\ (briefing' = [briefing EXCEPT !.pc = "send"] \/ briefing' = AtRest)
    BY <1>2 DEF ReplayTarget, GivesUp
  <2>4. QED BY <1>2, <2>2, <2>3 DEF AtRest, ReplayTarget
<1>3. CASE SendBrief
  <2>1. \/ UNCHANGED told
        \/ Gains("brief")
    BY <1>3, DeliverGains DEF SendBrief
  <2>2. \A d \in KstDays : d > kstDay => told'[d] = Silent
    BY <2>1 DEF Gains
  <2>3. UNCHANGED <<kstVars, markVars>> /\ (briefing' = [briefing EXCEPT !.pc = "mark"] \/ briefing' = AtRest)
    BY <1>3 DEF SendBrief, GivesUp
  <2>4. QED BY <1>3, <2>2, <2>3 DEF AtRest, SendBrief
<1>4. CASE MarkBrief
  BY <1>4 DEF MarkBrief, AtRest
<1>5. CASE SendNotice
  <2>1. \/ UNCHANGED told
        \/ Gains("notice")
    BY <1>5, DeliverGains DEF SendNotice
  <2>2. \A d \in KstDays : d > kstDay => told'[d] = Silent
    BY <2>1 DEF Gains
  <2>3. UNCHANGED <<kstVars, markVars>> /\ (briefing' = [briefing EXCEPT !.pc = "noted"] \/ briefing' = AtRest)
    BY <1>5 DEF SendNotice
  <2>4. QED BY <1>5, <2>2, <2>3 DEF AtRest, SendNotice
<1>6. CASE MarkNotice
  BY <1>6 DEF MarkNotice, AtRest
<1>7. CASE KstTurns
  <2>1. CASE UNCHANGED <<kstDay, closed>>
    BY <1>7, <2>1 DEF KstTurns
  <2>2. CASE kstDay' = kstDay + 1
    <3>1. In("rest") /\ UNCHANGED <<briefing, told, markVars>>
      BY <1>7, <2>2 DEF KstTurns
    <3>2. \A d \in KstDays : d > kstDay' => told'[d] = Silent
      <4>1. \A d \in KstDays : d > kstDay' => d > kstDay
        BY <2>2 DEF KstDays
      <4>2. QED BY <3>1, <4>1
    <3>3. ~(noticedOn' = kstDay') /\ sentOn' <= kstDay' /\ noticedOn' <= kstDay'
      BY <2>2, <3>1
    <3>4. QED BY <3>1, <3>2, <3>3
  <2>3. QED BY <1>7, <2>1, <2>2 DEF KstTurns
<1>8. CASE AnalysisDone
  BY <1>8 DEF AnalysisDone
<1>9. CASE BarsChange
  BY <1>9 DEF BarsChange
<1>10. CASE PatienceEnds
  BY <1>10 DEF PatienceEnds
<1>11. CASE BriefRestart
  BY <1>11 DEF BriefRestart, AtRest
<1>12. CASE UNCHANGED briefVars
  BY <1>12 DEF briefVars
<1>13. QED
  BY <1>1, <1>2, <1>3, <1>4, <1>5, <1>6, <1>7, <1>8, <1>9, <1>10, <1>11, <1>12
     DEF BriefNext

(* The part that does not follow from the current day's own step: what a message or a
   mishap leaves of a bound. *)
LEMMA CountInvStep == BriefTypes /\ BriefTypes' /\ CycleInv /\ CountInv /\ [BriefNext]_briefVars => CountInv'
<1> SUFFICES ASSUME BriefTypes, BriefTypes', CycleInv, CountInv, [BriefNext]_briefVars
             PROVE  CountInv'
  OBVIOUS
<1> USE DEF kstVars, markVars, tellVars, In, Move, CountInv, Told
<1>0. /\ KstTypes /\ kstDay \in KstDays /\ mishaps \in Nat /\ mishaps' \in Nat
      /\ briefing \in Briefings
  BY BriefAssumption DEF BriefTypes, KstTypes
<1>a. /\ \A d \in KstDays : told[d].brief \in Nat /\ told[d].notice \in Nat
      /\ \A d \in KstDays : told'[d].brief \in Nat /\ told'[d].notice \in Nat
  <2>1. KstTypes'
    BY DEF BriefTypes
  <2>2. told \in [KstDays -> Tellings] /\ told' \in [KstDays -> Tellings]
    BY <1>0, <2>1 DEF KstTypes, KstDays
  <2>3. QED BY <2>2 DEF Tellings
<1> USE <1>0, <1>a
(* Nothing is told and the day stays. *)
<1>b. ASSUME UNCHANGED <<told, kstDay, sentOn, noticedOn>>, NoMishap \/ Mishap,
             briefing'.pc \in {"mark", "noted"} \/ ~(briefing.pc \in {"mark", "noted"})
      PROVE  CountInv'
  BY <1>b DEF NoMishap, Mishap
(* The day is marked. *)
<1>c. ASSUME UNCHANGED <<told, kstDay>>, NoMishap, sentOn' = kstDay \/ noticedOn' = kstDay
      PROVE  CountInv'
  BY <1>c DEF NoMishap
(* A message is told by the day's own cycle. *)
<1>d. ASSUME NEW kind \in {"brief", "notice"}, Gains(kind), UNCHANGED <<kstDay, sentOn, noticedOn>>,
             Told(kstDay) <= mishaps,
             \/ NoMishap /\ briefing'.pc \in {"mark", "noted"}
             \/ Mishap
      PROVE  CountInv'
  <2>1. Told(kstDay)' = Told(kstDay) + 1
    BY <1>d DEF Gains
  <2>2. \A d \in KstDays : d # kstDay => Told(d)' = Told(d)
    BY <1>d DEF Gains
  <2>3. mishaps' = mishaps \/ mishaps' = mishaps + 1
    BY <1>d DEF NoMishap, Mishap
  <2>4. \A d \in KstDays : Told(d)' <= 1 + mishaps'
    BY <2>1, <2>2, <2>3, <1>d
  <2>5. mishaps' = mishaps + 1 \/ briefing'.pc \in {"mark", "noted"}
    BY <1>d DEF Mishap
  <2>6. QED BY <2>1, <2>4, <2>5, <1>d
(* A cycle that has not told finds the day within its bound. *)
<1>e. ~(briefing.pc \in {"rest", "mark", "noted"}) => Told(kstDay) <= mishaps
  BY DEF CycleInv
<1>1. CASE Look
  BY <1>1, <1>b DEF Look
<1>2. CASE ReplayTarget
  <2>1. CASE UNCHANGED told
    BY <1>2, <2>1, <1>b DEF ReplayTarget
  <2>2. CASE Gains("delay")
    <3>1. \A d \in KstDays : Told(d)' = Told(d)
      BY <2>2 DEF Gains
    <3>2. UNCHANGED <<kstDay, sentOn, noticedOn>> /\ (NoMishap \/ Mishap) /\ In("replay")
      BY <1>2 DEF ReplayTarget
    <3>3. mishaps' >= mishaps
      BY <3>2 DEF NoMishap, Mishap
    <3>4. QED BY <3>1, <3>2, <3>3
  <2>3. QED BY <1>2, <2>1, <2>2, DeliverGains DEF ReplayTarget
<1>3. CASE SendBrief
  <2>1. CASE UNCHANGED told
    BY <1>3, <2>1, <1>b DEF SendBrief
  <2>2. CASE Gains("brief") /\ ~UNCHANGED told
    <3>1. (NoMishap /\ Move("mark")) \/ Mishap
      BY <1>3, <2>2 DEF SendBrief
    <3>2. UNCHANGED <<kstDay, sentOn, noticedOn>> /\ In("send")
      BY <1>3 DEF SendBrief
    <3>3. (NoMishap /\ briefing'.pc \in {"mark", "noted"}) \/ Mishap
      BY <3>1 DEF Briefings
    <3>4. QED BY <2>2, <3>2, <3>3, <1>d, <1>e
  <2>3. QED BY <1>3, <2>1, <2>2, DeliverGains DEF SendBrief
<1>4. CASE MarkBrief
  BY <1>4, <1>c DEF MarkBrief, CycleInv
<1>5. CASE SendNotice
  <2>1. CASE UNCHANGED told
    BY <1>5, <2>1, <1>b DEF SendNotice
  <2>2. CASE Gains("notice") /\ ~UNCHANGED told
    <3>1. (NoMishap /\ Move("noted")) \/ Mishap
      BY <1>5, <2>2 DEF SendNotice
    <3>2. UNCHANGED <<kstDay, sentOn, noticedOn>> /\ In("notice")
      BY <1>5 DEF SendNotice
    <3>3. (NoMishap /\ briefing'.pc \in {"mark", "noted"}) \/ Mishap
      BY <3>1 DEF Briefings
    <3>4. QED BY <2>2, <3>2, <3>3, <1>d, <1>e
  <2>3. QED BY <1>5, <2>1, <2>2, DeliverGains DEF SendNotice
<1>6. CASE MarkNotice
  BY <1>6, <1>c DEF MarkNotice, CycleInv
<1>7. CASE KstTurns
  <2>1. CASE UNCHANGED <<kstDay, closed>>
    BY <1>7, <2>1, <1>b DEF KstTurns
  <2>2. CASE kstDay' = kstDay + 1
    <3>1. kstDay' \in KstDays /\ kstDay' > kstDay /\ UNCHANGED told /\ mishaps' = mishaps
      BY <1>7, <2>2, BriefAssumption DEF KstTurns, NoMishap, KstDays
    <3>2. told'[kstDay'] = Silent
      BY <3>1 DEF CycleInv
    <3>3. Told(kstDay)' = 0
      BY <3>2 DEF Silent
    <3>4. QED BY <3>1, <3>3
  <2>3. QED BY <1>7, <2>1, <2>2 DEF KstTurns
<1>8. CASE AnalysisDone
  BY <1>8, <1>b DEF AnalysisDone
<1>9. CASE BarsChange
  BY <1>9, <1>b DEF BarsChange
<1>10. CASE PatienceEnds
  BY <1>10, <1>b DEF PatienceEnds
<1>11. CASE BriefRestart
  <2>1. mishaps' = mishaps + 1 /\ UNCHANGED <<told, kstDay>>
    BY <1>11 DEF BriefRestart, Mishap
  <2>2. QED BY <2>1
<1>12. CASE UNCHANGED briefVars
  BY <1>12 DEF briefVars
<1>13. QED
  BY <1>1, <1>2, <1>3, <1>4, <1>5, <1>6, <1>7, <1>8, <1>9, <1>10, <1>11, <1>12
     DEF BriefNext

LEMMA DelayInvStep == BriefTypes /\ BriefTypes' /\ CycleInv /\ DelayInv /\ [BriefNext]_briefVars => DelayInv'
<1> SUFFICES ASSUME BriefTypes, BriefTypes', CycleInv, DelayInv, [BriefNext]_briefVars
             PROVE  DelayInv'
  OBVIOUS
<1> USE DEF kstVars, markVars, tellVars, In, Move, DelayInv
<1>0. /\ KstTypes /\ kstDay \in KstDays /\ mishaps \in Nat /\ mishaps' \in Nat
      /\ closed \in 1..kstDay /\ patience \in Patiences
  BY BriefAssumption DEF BriefTypes, KstTypes
<1>a. /\ \A d \in KstDays : told[d].delay \in Nat
      /\ \A d \in KstDays : told'[d].delay \in Nat
  <2>1. KstTypes'
    BY DEF BriefTypes
  <2>2. told \in [KstDays -> Tellings] /\ told' \in [KstDays -> Tellings]
    BY <1>0, <2>1 DEF KstTypes, KstDays
  <2>3. QED BY <2>2 DEF Tellings
<1> USE <1>0, <1>a
(* No delay is announced on the same day, and the gate forgets none. *)
<1>b. ASSUME \A d \in KstDays : told'[d].delay = told[d].delay,
             UNCHANGED <<kstDay, closed, sentOn>>, NoMishap \/ Mishap,
             \/ patience.date = closed => patience'.date = closed /\ patience'.failures = patience.failures
             \/ patience'.date = closed /\ patience'.failures # 0
      PROVE  DelayInv'
  BY <1>b DEF NoMishap, Mishap
(* The gate of a cycle that gave up stands for its session. *)
<1>c. ASSUME GivesUp, briefing.pc \in {"replay", "send"}
      PROVE  /\ patience'.date = closed /\ patience'.failures # 0
             /\ patience'.failures = 1 => told[kstDay].delay <= mishaps
  <2>1. briefing.completed = closed /\ briefing.completed # 0 /\ sentOn # kstDay
    BY <1>c DEF CycleInv, KstDays
  <2>2. QED BY <1>c, <2>1, GivenUp
<1>1. CASE Look
  <2>1. UNCHANGED patience \/ patience' = PatienceOn(closed)
    BY <1>1 DEF Look, KstDays
  <2>2. patience.date = closed => patience' = patience
    BY <2>1 DEF PatienceOn
  <2>3. QED BY <1>1, <1>b, <2>2 DEF Look
<1>2. CASE ReplayTarget
  <2>0. UNCHANGED <<kstDay, closed, sentOn>> /\ (NoMishap \/ Mishap) /\ In("replay")
    BY <1>2 DEF ReplayTarget
  <2>1. CASE UNCHANGED patience /\ UNCHANGED told
    BY <2>0, <2>1, <1>b
  <2>2. CASE GivesUp /\ UNCHANGED told
    BY <2>0, <2>2, <1>b, <1>c
  <2>3. CASE GivesUp /\ Deliver("delay") /\ patience'.failures = 1
    <3>1. Gains("delay")
      BY <2>3, DeliverGains
    <3>2. told'[kstDay].delay = told[kstDay].delay + 1
      BY <3>1 DEF Gains
    <3>3. \A d \in KstDays : d # kstDay => told'[d].delay = told[d].delay
      BY <3>1 DEF Gains
    <3>4. mishaps' >= mishaps /\ told[kstDay].delay <= mishaps
      BY <2>0, <2>3, <1>c DEF NoMishap, Mishap
    <3>5. \A d \in KstDays : told'[d].delay <= 1 + mishaps'
      BY <3>2, <3>3, <3>4
    <3>6. QED BY <2>0, <2>3, <3>5, <1>c
  <2>4. QED BY <1>2, <2>1, <2>2, <2>3 DEF ReplayTarget
<1>3. CASE SendBrief
  <2>1. UNCHANGED <<kstDay, closed, sentOn>> /\ (NoMishap \/ Mishap) /\ In("send")
    BY <1>3 DEF SendBrief
  <2>2. \A d \in KstDays : told'[d].delay = told[d].delay
    <3>1. UNCHANGED told \/ Gains("brief")
      BY <1>3, DeliverGains DEF SendBrief
    <3>2. QED BY <3>1 DEF Gains
  <2>3. UNCHANGED patience \/ GivesUp
    BY <1>3 DEF SendBrief
  <2>4. QED BY <2>1, <2>2, <2>3, <1>b, <1>c
<1>4. CASE MarkBrief
  <2>1. UNCHANGED <<told, kstDay, mishaps>> /\ sentOn' = kstDay
    BY <1>4 DEF MarkBrief, CycleInv, NoMishap
  <2>2. QED BY <2>1
<1>5. CASE SendNotice
  <2>1. UNCHANGED <<kstDay, closed, sentOn, patience>> /\ (NoMishap \/ Mishap)
    BY <1>5 DEF SendNotice
  <2>2. \A d \in KstDays : told'[d].delay = told[d].delay
    <3>1. UNCHANGED told \/ Gains("notice")
      BY <1>5, DeliverGains DEF SendNotice
    <3>2. QED BY <3>1 DEF Gains
  <2>3. QED BY <2>1, <2>2, <1>b
<1>6. CASE MarkNotice
  BY <1>6, <1>b DEF MarkNotice
<1>7. CASE KstTurns
  <2>1. CASE UNCHANGED <<kstDay, closed>>
    BY <1>7, <2>1, <1>b DEF KstTurns
  <2>2. CASE kstDay' = kstDay + 1
    <3>1. kstDay' \in KstDays /\ kstDay' > kstDay /\ UNCHANGED told /\ mishaps' = mishaps
      BY <1>7, <2>2, BriefAssumption DEF KstTurns, NoMishap, KstDays
    <3>2. told'[kstDay'] = Silent
      BY <3>1 DEF CycleInv
    <3>3. told'[kstDay'].delay = 0
      BY <3>2 DEF Silent
    <3>4. QED BY <3>1, <3>3
  <2>3. QED BY <1>7, <2>1, <2>2 DEF KstTurns
<1>8. CASE AnalysisDone
  BY <1>8, <1>b DEF AnalysisDone
<1>9. CASE BarsChange
  BY <1>9, <1>b DEF BarsChange
<1>10. CASE PatienceEnds
  <2>1. patience'.date = patience.date /\ patience'.failures = patience.failures
    BY <1>10, Zenon DEF PatienceEnds, Patiences
  <2>2. QED BY <1>10, <2>1, <1>b DEF PatienceEnds
<1>11. CASE BriefRestart
  <2>1. mishaps' = mishaps + 1 /\ UNCHANGED <<told, kstDay>>
    BY <1>11 DEF BriefRestart, Mishap
  <2>2. QED BY <2>1
<1>12. CASE UNCHANGED briefVars
  BY <1>12 DEF briefVars
<1>13. QED
  BY <1>1, <1>2, <1>3, <1>4, <1>5, <1>6, <1>7, <1>8, <1>9, <1>10, <1>11, <1>12
     DEF BriefNext

LEMMA MarksInvStep == BriefTypes /\ BriefTypes' /\ CycleInv /\ MarksInv /\ [BriefNext]_briefVars => MarksInv'
<1> SUFFICES ASSUME BriefTypes, BriefTypes', CycleInv, MarksInv, [BriefNext]_briefVars
             PROVE  MarksInv'
  OBVIOUS
<1> USE DEF kstVars, markVars, tellVars, In, Move, MarksInv, MarkedIsTold
<1>0. /\ KstTypes /\ kstDay \in KstDays /\ sentOn \in 0..MaxKstDay /\ noticedOn \in 0..MaxKstDay
      /\ briefing \in Briefings
  BY BriefAssumption DEF BriefTypes, KstTypes
<1>a. \A d \in KstDays : /\ told[d].brief \in Nat /\ told[d].notice \in Nat
                         /\ told'[d].brief \in Nat /\ told'[d].notice \in Nat
  <2>1. KstTypes'
    BY DEF BriefTypes
  <2>2. told \in [KstDays -> Tellings] /\ told' \in [KstDays -> Tellings]
    BY <1>0, <2>1 DEF KstTypes, KstDays
  <2>3. QED BY <2>2 DEF Tellings
<1>b. /\ sentOn # 0 => sentOn \in KstDays
      /\ noticedOn # 0 => noticedOn \in KstDays
  BY <1>0 DEF KstDays
<1> USE <1>0, <1>a, <1>b
(* What was told stays told. *)
<1>c. ASSUME \A d \in KstDays : told'[d].brief >= told[d].brief /\ told'[d].notice >= told[d].notice,
             crossed \subseteq crossed', UNCHANGED markVars, UNCHANGED kstDay,
             In("mark")' => In("mark") \/ told'[kstDay].brief > 0 \/ kstDay \in crossed',
             In("noted")' => In("noted") \/ told'[kstDay].notice > 0
      PROVE  MarksInv'
  BY <1>c
<1>d. ASSUME NEW kind \in {"brief", "notice", "delay"}, Gains(kind) \/ UNCHANGED told
      PROVE  \A d \in KstDays : told'[d].brief >= told[d].brief /\ told'[d].notice >= told[d].notice
  <2>1. CASE UNCHANGED told
    BY <2>1
  <2>2. CASE Gains(kind)
    <3>1. \A d \in KstDays : d # kstDay => told'[d] = told[d]
      BY <2>2 DEF Gains
    <3>2. told'[kstDay].brief >= told[kstDay].brief /\ told'[kstDay].notice >= told[kstDay].notice
      BY <2>2 DEF Gains
    <3>3. QED BY <3>1, <3>2
  <2>3. QED BY <1>d, <2>1, <2>2
<1>1. CASE Look
  <2>1. ~In("mark")' /\ ~In("noted")'
    BY <1>1 DEF Look
  <2>2. QED BY <1>1, <2>1, <1>c DEF Look
<1>2. CASE ReplayTarget
  <2>1. Gains("delay") \/ UNCHANGED told
    BY <1>2, DeliverGains DEF ReplayTarget
  <2>2. \A d \in KstDays : told'[d].brief >= told[d].brief /\ told'[d].notice >= told[d].notice
    BY <2>1, <1>d
  <2>3. ~In("mark")' /\ ~In("noted")'
    BY <1>2 DEF ReplayTarget, GivesUp, AtRest, Briefings
  <2>4. QED BY <1>2, <2>2, <2>3, <1>c DEF ReplayTarget
<1>3. CASE SendBrief
  <2>1. Gains("brief") \/ UNCHANGED told
    BY <1>3, DeliverGains DEF SendBrief
  <2>2. \A d \in KstDays : told'[d].brief >= told[d].brief /\ told'[d].notice >= told[d].notice
    BY <2>1, <1>d
  <2>3. ~In("noted")'
    BY <1>3 DEF SendBrief, GivesUp, AtRest, Briefings
  <2>4. In("mark")' => told'[kstDay].brief > 0 \/ kstDay \in crossed'
    <3>1. CASE Deliver("brief")
      <4>1. Gains("brief")
        BY <3>1, DeliverGains
      <4>2. QED BY <4>1 DEF Gains
    <3>2. CASE crossed' = crossed \cup {kstDay}
      BY <3>2
    <3>3. CASE GivesUp
      BY <3>3 DEF GivesUp, AtRest
    <3>4. QED BY <1>3, <3>1, <3>2, <3>3 DEF SendBrief
  <2>5. UNCHANGED markVars /\ UNCHANGED kstDay /\ crossed \subseteq crossed'
    BY <1>3 DEF SendBrief
  <2>6. QED BY <2>2, <2>3, <2>4, <2>5, <1>c
<1>4. CASE MarkBrief
  BY <1>4 DEF MarkBrief, CycleInv, AtRest
<1>5. CASE SendNotice
  <2>1. Gains("notice") \/ UNCHANGED told
    BY <1>5, DeliverGains DEF SendNotice
  <2>2. \A d \in KstDays : told'[d].brief >= told[d].brief /\ told'[d].notice >= told[d].notice
    BY <2>1, <1>d
  <2>3. ~In("mark")'
    BY <1>5 DEF SendNotice, AtRest, Briefings
  <2>4. In("noted")' => told'[kstDay].notice > 0
    <3>1. CASE Deliver("notice") /\ Move("noted")
      <4>1. Gains("notice")
        BY <3>1, DeliverGains
      <4>2. QED BY <4>1 DEF Gains
    <3>2. CASE briefing' = AtRest
      BY <3>2 DEF AtRest
    <3>3. QED BY <1>5, <3>1, <3>2 DEF SendNotice
  <2>5. UNCHANGED markVars /\ UNCHANGED kstDay /\ UNCHANGED crossed
    BY <1>5 DEF SendNotice
  <2>6. QED BY <2>2, <2>3, <2>4, <2>5, <1>c
<1>6. CASE MarkNotice
  BY <1>6 DEF MarkNotice, CycleInv, AtRest
<1>7. CASE KstTurns
  <2>1. CASE UNCHANGED <<kstDay, closed>>
    BY <1>7, <2>1, <1>c DEF KstTurns
  <2>2. CASE In("rest") /\ UNCHANGED <<briefing, told, sentOn, noticedOn, crossed>>
    BY <2>2
  <2>3. QED BY <1>7, <2>1, <2>2 DEF KstTurns
<1>8. CASE AnalysisDone
  BY <1>8, <1>c DEF AnalysisDone
<1>9. CASE BarsChange
  BY <1>9, <1>c DEF BarsChange
<1>10. CASE PatienceEnds
  BY <1>10, <1>c DEF PatienceEnds
<1>11. CASE BriefRestart
  BY <1>11 DEF BriefRestart, AtRest
<1>12. CASE UNCHANGED briefVars
  BY <1>12 DEF briefVars
<1>13. QED
  BY <1>1, <1>2, <1>3, <1>4, <1>5, <1>6, <1>7, <1>8, <1>9, <1>10, <1>11, <1>12
     DEF BriefNext

LEMMA BriefInitial == BriefInit => BriefTypes /\ BriefInv
<1> SUFFICES ASSUME BriefInit PROVE BriefTypes /\ BriefInv
  OBVIOUS
<1> USE BriefAssumption DEF BriefInit
<1>1. told \in [KstDays -> Tellings] /\ \A d \in KstDays : told[d] = Silent
  BY DEF Tellings, Silent
<1>2. KstTypes
  BY <1>1, AtRestFits DEF KstTypes, KstDays, Dayparts
<1>3. BriefTypes
  BY <1>2, AtRestFits DEF BriefTypes
<1>4. kstDay \in KstDays /\ briefing.pc = "rest"
  BY DEF KstDays, AtRest
<1>5. \A d \in KstDays : told[d].brief = 0 /\ told[d].notice = 0 /\ told[d].delay = 0
  BY <1>1 DEF Silent
<1>6. BriefInv
  BY <1>1, <1>4, <1>5 DEF BriefInv, CycleInv, CountInv, Told, DelayInv, MarksInv, MarkedIsTold, In
<1>7. QED BY <1>3, <1>6

LEMMA BriefInductive == BriefSpec => [](BriefTypes /\ BriefInv)
<1>1. BriefTypes /\ BriefInv /\ [BriefNext]_briefVars => (BriefTypes /\ BriefInv)'
  BY BriefTypesStep, CycleInvStep, CountInvStep, DelayInvStep, MarksInvStep DEF BriefInv
<1>2. QED BY <1>1, BriefInitial, PTL DEF BriefSpec

(* Every variable of the brief keeps its type.                             *)
THEOREM BriefTypeCorrect == BriefSpec => []BriefTypeOK
<1>1. BriefTypes => BriefTypeOK
  <2> SUFFICES ASSUME BriefTypes PROVE BriefTypeOK
    OBVIOUS
  <2>1. kstDay \in KstDays /\ closed \in KstDays
    BY BriefAssumption DEF BriefTypes, KstTypes, KstDays
  <2>2. QED BY <2>1, Zenon DEF BriefTypes, KstTypes, Briefings, Tellings, Patiences, BriefTypeOK
<1>2. QED BY <1>1, BriefInductive, PTL

(* The day's one telling (_run_morning_brief_cycle), for any number of mornings, failed
   sends and restarts: every message beyond the first is the trace of a mishap, and a
   mark stands for a message that was sent, except the mark of a day whose brief met 09:00
   on its way and was dropped. *)
THEOREM MorningToldHolds == BriefSpec => []MorningTold
<1>1. BriefTypes /\ BriefInv => MorningTold
  BY DEF BriefInv, CountInv, Told, DelayInv, MarksInv, MorningTold, OneTelling
<1>2. QED BY <1>1, BriefInductive, PTL

-----------------------------------------------------------------------------
(* DailyBars: what every series at hand is, stored, handed or under way.   *)

Whole(S) == \A s, t \in S : s..t \subseteq S

SoundAt(series, basis, holes) ==
  /\ series \in Series
  /\ \A s, t \in DOMAIN series : s <= t => series[s] <= series[t]
  /\ \A s \in DOMAIN series : series[s] <= basis
  /\ ~holes => Whole(DOMAIN series)

Sound(series) == SoundAt(series, quoteBasis, unbridged)
SoundThen(series) == SoundAt(series, quoteBasis', unbridged')

(* The latest session a stored series can have: that of the call under way. *)
Horizon == IF fetch.pc = "none" THEN lastClosed ELSE fetch.end

BarsTyped ==
  /\ lastClosed \in Sessions_ /\ quoteBasis \in 0..MaxSplits /\ unbridged \in BOOLEAN
  /\ DOMAIN files \subseteq Sessions_ \X Sessions_
  /\ fetch \in [pc : {"none", "yahoo", "toss"}, start : Sessions_, end : Sessions_, base : Series]
  /\ fetch.pc # "none" => fetch.end <= lastClosed

FilesInv ==
  \A r \in DOMAIN files : Sound(files[r]) /\ \A s \in DOMAIN files[r] : s <= Horizon

(* What Toss has to complete is sound and lacks the session it is asked for. *)
BaseInv ==
  /\ Sound(fetch.base)
  /\ \A s \in DOMAIN fetch.base : fetch.start <= s /\ s < fetch.end

HandedInv ==
  /\ Sound(bars.series)
  /\ Handed => bars.end \in DOMAIN bars.series /\ \A s \in DOMAIN bars.series : s <= bars.end
  /\ OneRecentBasis

BarsInv == BarsTyped /\ FilesInv /\ BaseInv /\ HandedInv

LEMMA MaxIs ==
  ASSUME NEW T, T \subseteq Sessions_, T # {} PROVE Max(T) \in T /\ \A n \in T : n <= Max(T)
<1>1. T \subseteq Nat /\ MaxClosed \in Nat /\ \A n \in T : n <= MaxClosed
  BY BarsAssumption DEF Sessions_
<1>2. \E n \in T : \A m \in T : m <= n
  BY <1>1, MaxExists
<1>3. QED BY <1>1, <1>2 DEF Max

LEMMA FirstIs ==
  ASSUME NEW series \in Series, ~Empty(series)
  PROVE  First_(series) \in DOMAIN series /\ \A s \in DOMAIN series : First_(series) <= s
<1> DEFINE T == DOMAIN series
<1>1. T \subseteq Nat /\ T # {}
  BY DEF Series, Sessions_, Empty
<1> HIDE DEF T
<1>2. Min(T) \in T /\ \A n \in T : Min(T) <= n
  BY <1>1, MinIs
<1>3. QED BY <1>2 DEF T, First_

LEMMA LastIs ==
  ASSUME NEW series \in Series, ~Empty(series)
  PROVE  Last_(series) \in DOMAIN series /\ \A s \in DOMAIN series : s <= Last_(series)
<1> DEFINE T == DOMAIN series
<1>1. T \subseteq Sessions_ /\ T # {}
  BY DEF Series, Empty
<1> HIDE DEF T
<1>2. QED BY <1>1, MaxIs DEF T, Last_

LEMMA SeriesIs ==
  ASSUME NEW f PROVE f \in Series <=> /\ f = [s \in DOMAIN f |-> f[s]]
                                      /\ DOMAIN f \subseteq Sessions_
                                      /\ \A s \in DOMAIN f : f[s] \in 0..MaxSplits
BY DEF Series

LEMMA NoBarsEver == ASSUME NEW basis, NEW holes PROVE SoundAt(NoBars, basis, holes)
<1>1. NoBars \in Series
  BY SeriesIs DEF NoBars
<1>2. QED BY <1>1 DEF SoundAt, Whole, NoBars

LEMMA NoBarsSound == Sound(NoBars)
BY NoBarsEver DEF Sound

LEMMA EmptyIsNoBars == ASSUME NEW f \in Series, f # NoBars PROVE ~Empty(f)
BY DEF Series, Empty, NoBars

(* A cut out of a sound series is sound.                                   *)
LEMMA SliceSound ==
  ASSUME NEW f, Sound(f), NEW a \in Int, NEW b \in Int
  PROVE  /\ Sound(Slice(f, a, b))
         /\ DOMAIN Slice(f, a, b) = DOMAIN f \cap a..b
         /\ \A s \in DOMAIN Slice(f, a, b) : Slice(f, a, b)[s] = f[s]
<1> DEFINE g == Slice(f, a, b)
<1>1. DOMAIN g = DOMAIN f \cap a..b /\ g = [s \in DOMAIN g |-> g[s]]
      /\ \A s \in DOMAIN g : g[s] = f[s]
  BY DEF Slice
<1>2. DOMAIN f \subseteq Sessions_ /\ \A s \in DOMAIN f : f[s] \in 0..MaxSplits
  BY SeriesIs DEF Sound, SoundAt
<1> HIDE DEF g
<1>3. g \in Series
  BY <1>1, <1>2, SeriesIs
<1>4. ~unbridged => Whole(DOMAIN g)
  <2> SUFFICES ASSUME ~unbridged, NEW s \in DOMAIN g, NEW t \in DOMAIN g, NEW u \in s..t
               PROVE  u \in DOMAIN g
    BY DEF Whole
  <2>1. u \in DOMAIN f
    BY <1>1 DEF Sound, SoundAt, Whole
  <2>2. s \in a..b /\ t \in a..b /\ s \in Int /\ t \in Int
    BY <1>1
  <2>3. u \in a..b
    BY <2>2
  <2>4. QED BY <1>1, <2>1, <2>3
<1>5. QED BY <1>1, <1>3, <1>4 DEF Sound, SoundAt, g

(* One answer of a provider: a run of sessions in the basis of the day.    *)
LEMMA AnswerSound ==
  ASSUME BarsTyped, NEW a \in Int, NEW b \in Int, a..b \subseteq Sessions_
  PROVE  Sound([s \in a..b |-> quoteBasis])
<1> DEFINE g == [s \in a..b |-> quoteBasis]
<1>1. DOMAIN g = a..b /\ \A s \in DOMAIN g : g[s] = quoteBasis
  OBVIOUS
<1>2. quoteBasis \in 0..MaxSplits /\ quoteBasis \in Int
  BY DEF BarsTyped
<1>3. g \in Series
  BY <1>2, SeriesIs
<1>4. Whole(a..b)
  BY DEF Whole
<1> HIDE DEF g
<1>5. Sound(g)
  BY <1>1, <1>2, <1>3, <1>4 DEF Sound, SoundAt
<1>6. QED BY <1>5 DEF g

LEMMA BarsStarts == BarsInit => BarsInv
<1> SUFFICES ASSUME BarsInit PROVE BarsInv
  OBVIOUS
<1> USE DEF BarsInit
<1>1. NoBars \in Series /\ DOMAIN NoBars = {} /\ Sound(NoBars)
  BY NoBarsSound DEF Sound, SoundAt, NoBars
<1>2. 1 \in Sessions_ /\ 0 \in 0..MaxSplits
  BY BarsAssumption DEF Sessions_
<1> HIDE DEF NoBars
<1>3. BarsTyped
  BY <1>1, <1>2 DEF BarsTyped, Ended
<1>4. FilesInv
  BY <1>1 DEF FilesInv
<1>5. BaseInv
  BY <1>1 DEF BaseInv, Ended
<1>6. HandedInv
  BY <1>1 DEF HandedInv, Handed, Empty, OneRecentBasis, Nothing
<1>7. QED BY <1>3, <1>4, <1>5, <1>6 DEF BarsInv

(* What is sound stays sound when the day's basis grows or nothing changes. *)
LEMMA SoundStays ==
  ASSUME BarsTyped, quoteBasis' \in Int, quoteBasis <= quoteBasis', unbridged => unbridged'
  PROVE  \A f : Sound(f) => SoundThen(f)
<1> SUFFICES ASSUME NEW f, Sound(f)
             PROVE  /\ \A s \in DOMAIN f : f[s] <= quoteBasis'
                    /\ ~unbridged' => Whole(DOMAIN f)
  BY DEF Sound, SoundThen, SoundAt
<1>1. ASSUME NEW s \in DOMAIN f PROVE f[s] <= quoteBasis'
  <2>1. f[s] \in Int /\ f[s] <= quoteBasis /\ quoteBasis \in Int
    BY SeriesIs DEF Sound, SoundAt, BarsTyped
  <2>2. QED BY <2>1
<1>2. QED BY <1>1 DEF Sound, SoundThen, SoundAt

-----------------------------------------------------------------------------
(* The provider's clock and the files.                                     *)

LEMMA SessionClosesKeeps == BarsInv /\ SessionCloses => BarsInv'
<1> SUFFICES ASSUME BarsInv, SessionCloses PROVE BarsInv'
  OBVIOUS
<1> USE DEF BarsInv, SessionCloses
<1>1. lastClosed \in Int /\ lastClosed' = lastClosed + 1 /\ lastClosed' \in Sessions_
  BY BarsAssumption DEF BarsTyped, Sessions_
<1>2. BarsTyped'
  BY <1>1 DEF BarsTyped, Sessions_
<1>3. Horizon \in Int /\ Horizon <= Horizon' /\ Horizon' \in Int
  BY <1>1 DEF Horizon, BarsTyped, Sessions_
<1>4. FilesInv'
  <2>1. \A r \in DOMAIN files : \A s \in DOMAIN files[r] : s \in Int
    BY SeriesIs DEF FilesInv, Sound, SoundAt, Sessions_
  <2>2. \A r \in DOMAIN files : \A s \in DOMAIN files[r] : s <= Horizon'
    BY <1>3, <2>1 DEF FilesInv
  <2>3. QED BY <2>2 DEF FilesInv, Sound, SoundAt
<1>5. BaseInv' /\ HandedInv'
  BY DEF BaseInv, HandedInv, Handed, OneRecentBasis, Sound, SoundAt
<1>6. QED BY <1>2, <1>4, <1>5

LEMMA SplitKeeps == BarsInv /\ Split => BarsInv'
<1> SUFFICES ASSUME BarsInv, Split PROVE BarsInv'
  OBVIOUS
<1> USE DEF BarsInv, Split
<1>1. quoteBasis \in Int /\ quoteBasis' \in 0..MaxSplits /\ quoteBasis <= quoteBasis'
  BY BarsAssumption DEF BarsTyped
<1>2. \A f : Sound(f) => SoundThen(f)
  BY <1>1, SoundStays
<1>3. BarsTyped'
  BY <1>1 DEF BarsTyped
<1>4. FilesInv'
  BY <1>2 DEF Sound, SoundThen, FilesInv, Horizon
<1>5. BaseInv'
  BY <1>2 DEF Sound, SoundThen, BaseInv
<1>6. HandedInv'
  BY <1>2 DEF Sound, SoundThen, HandedInv, Handed, OneRecentBasis
<1>7. QED BY <1>3, <1>4, <1>5, <1>6

LEMMA FileLostKeeps == BarsInv /\ FileLost => BarsInv'
<1> SUFFICES ASSUME BarsInv, FileLost PROVE BarsInv'
  OBVIOUS
<1> USE DEF BarsInv
<1>1. PICK r \in DOMAIN files : files' = [q \in DOMAIN files \ {r} |-> files[q]]
  BY DEF FileLost
<1>2. UNCHANGED <<lastClosed, quoteBasis, fetch, bars, unbridged>>
  BY DEF FileLost
<1>3. DOMAIN files' \subseteq DOMAIN files /\ \A q \in DOMAIN files' : files'[q] = files[q]
  BY <1>1
<1>4. BarsTyped'
  BY <1>2, <1>3 DEF BarsTyped
<1>5. FilesInv'
  BY <1>2, <1>3 DEF FilesInv, Sound, SoundAt, Horizon
<1>6. BaseInv' /\ HandedInv'
  BY <1>2 DEF BaseInv, HandedInv, Handed, OneRecentBasis, Sound, SoundAt
<1>7. QED BY <1>4, <1>5, <1>6

-----------------------------------------------------------------------------
(* The call.                                                               *)

LEMMA EndedBase == ASSUME fetch' = Ended PROVE BaseInv'
<1>1. fetch'.base = NoBars /\ DOMAIN NoBars = {}
  BY DEF Ended, NoBars
<1>2. SoundThen(NoBars)
  BY NoBarsEver DEF SoundThen
<1>3. QED BY <1>1, <1>2 DEF Sound, SoundThen, BaseInv

(* A call stores a sound series of its range, or nothing.                  *)
LEMMA StoredKeeps ==
  ASSUME BarsTyped, FilesInv, fetch.pc # "none", UNCHANGED <<quoteBasis, lastClosed>>,
         unbridged => unbridged', fetch' = Ended \/ fetch'.end = fetch.end,
         NEW series, SoundThen(series), \A s \in DOMAIN series : s <= fetch.end,
         files' \in {files, Stored(fetch.start, fetch.end, series)}
  PROVE  FilesInv' /\ DOMAIN files' \subseteq Sessions_ \X Sessions_
<1>1. \A f : Sound(f) => SoundThen(f)
  <2>1. quoteBasis' \in Int /\ quoteBasis <= quoteBasis'
    BY BarsAssumption DEF BarsTyped
  <2>2. QED BY <2>1, SoundStays
<1>2. fetch.end \in Int /\ lastClosed \in Int /\ fetch.end <= lastClosed /\ Horizon = fetch.end
  BY DEF BarsTyped, Sessions_, Horizon
<1>3. Horizon' \in Int /\ Horizon <= Horizon'
  BY <1>2 DEF Horizon, Ended
<1>4. ASSUME NEW r \in DOMAIN files'
      PROVE  SoundThen(files'[r]) /\ \A s \in DOMAIN files'[r] : s <= Horizon
  <2>1. CASE r \in DOMAIN files /\ files'[r] = files[r]
    BY <1>1, <2>1 DEF FilesInv
  <2>2. CASE files'[r] = series
    BY <1>2, <2>2
  <2>3. QED BY <1>4, <2>1, <2>2 DEF Stored
<1>5. \A r \in DOMAIN files' : \A s \in DOMAIN files'[r] : s <= Horizon'
  <2> SUFFICES ASSUME NEW r \in DOMAIN files', NEW s \in DOMAIN files'[r] PROVE s <= Horizon'
    OBVIOUS
  <2>1. DOMAIN files'[r] \subseteq Sessions_
    <3>1. files'[r] \in Series
      BY <1>4 DEF SoundThen, SoundAt
    <3>2. QED BY <3>1, SeriesIs
  <2>2. s \in Int /\ s <= Horizon /\ Horizon \in Int
    BY <1>2, <1>4, <2>1 DEF Sessions_
  <2>3. QED BY <1>3, <2>2
<1>6. FilesInv'
  BY <1>4, <1>5 DEF Sound, SoundThen, FilesInv
<1>7. DOMAIN files' \subseteq Sessions_ \X Sessions_
  BY DEF Stored, BarsTyped
<1>8. QED BY <1>6, <1>7

(* What is handed over ends where it was asked to.                         *)
LEMMA HandKeeps ==
  ASSUME NEW series, NEW begun, Hand(series, begun), SoundThen(series),
         ~Empty(series) => fetch.end \in DOMAIN series,
         \A s \in DOMAIN series : s <= fetch.end,
         \A s, t \in DOMAIN series : begun <= s /\ s <= t => series[s] = series[t]
  PROVE  HandedInv'
<1>1. bars' = [start |-> fetch.start, end |-> fetch.end, series |-> series, since |-> begun]
  BY DEF Hand
<1>2. bars'.series = series /\ bars'.end = fetch.end /\ bars'.since = begun
  BY <1>1
<1>3. \A s, t \in DOMAIN series : s <= t => series[s] <= series[t]
  BY DEF SoundThen, SoundAt
<1>4. OneRecentBasis'
  BY <1>2, <1>3 DEF OneRecentBasis
<1>5. QED BY <1>2, <1>4 DEF Sound, SoundThen, HandedInv, Handed, Empty

LEMMA AskBarsKeeps == BarsInv /\ AskBars => BarsInv'
<1> SUFFICES ASSUME BarsInv, AskBars PROVE BarsInv'
  OBVIOUS
<1> USE DEF BarsInv
<1>1. PICK start \in {1, IF lastClosed > Span THEN lastClosed - Span ELSE 1} :
        fetch' = [pc |-> "yahoo", start |-> start, end |-> lastClosed, base |-> NoBars]
  BY DEF AskBars
<1>2. UNCHANGED <<lastClosed, quoteBasis, files, bars, unbridged>> /\ fetch.pc = "none"
  BY DEF AskBars, Ended
<1>3. start \in Sessions_
  BY <1>1, BarsAssumption DEF BarsTyped, Sessions_
<1>4. NoBars \in Series /\ DOMAIN NoBars = {}
  BY NoBarsSound DEF Sound, SoundAt, NoBars
<1> HIDE DEF NoBars
<1>5. BarsTyped'
  BY <1>1, <1>2, <1>3, <1>4 DEF BarsTyped, Sessions_
<1>6. Horizon' = Horizon
  BY <1>1, <1>2 DEF Horizon
<1>7. FilesInv'
  BY <1>2, <1>6 DEF FilesInv, Sound, SoundAt
<1>8. BaseInv'
  <2>1. SoundThen(NoBars)
    BY NoBarsEver DEF SoundThen
  <2>2. QED BY <1>1, <1>4, <2>1 DEF Sound, SoundThen, BaseInv
<1>9. HandedInv'
  BY <1>2 DEF HandedInv, Handed, OneRecentBasis, Sound, SoundAt
<1>10. QED BY <1>5, <1>7, <1>8, <1>9

LEMMA YahooAnswersKeeps == BarsInv /\ YahooAnswers => BarsInv'
<1> SUFFICES ASSUME BarsInv, YahooAnswers PROVE BarsInv'
  OBVIOUS
<1> USE DEF BarsInv
<1>1. fetch.pc = "yahoo" /\ UNCHANGED <<lastClosed, quoteBasis, unbridged>>
  BY DEF YahooAnswers
<1>2. PICK last \in {fetch.end - 1, fetch.end} :
        LET series == [s \in fetch.start..last |-> quoteBasis]
        IN  /\ ~Empty(series)
            /\ files' = Stored(fetch.start, fetch.end, series)
            /\ IF last >= fetch.end THEN Hand(series, fetch.start)
               ELSE fetch' = [fetch EXCEPT !.pc = "toss", !.base = series] /\ UNCHANGED bars
  BY DEF YahooAnswers
<1> DEFINE series == [s \in fetch.start..last |-> quoteBasis]
<1>3. fetch.start \in Sessions_ /\ fetch.end \in Sessions_ /\ last \in Int /\ last <= fetch.end
  BY <1>2 DEF BarsTyped, Sessions_
<1>4. fetch.start..last \subseteq Sessions_
  BY <1>3, BarsAssumption DEF Sessions_
<1>5. Sound(series)
  BY <1>3, <1>4, AnswerSound DEF Sessions_
<1>6. DOMAIN series = fetch.start..last /\ \A s \in DOMAIN series : series[s] = quoteBasis
  OBVIOUS
<1>7. ~Empty(series) /\ files' = Stored(fetch.start, fetch.end, series)
  BY <1>2
<1>8. \/ last >= fetch.end /\ Hand(series, fetch.start)
      \/ ~(last >= fetch.end) /\ fetch' = [fetch EXCEPT !.pc = "toss", !.base = series]
         /\ UNCHANGED bars
  BY <1>2
<1> HIDE DEF series
<1>9. SoundThen(series)
  BY <1>1, <1>5 DEF Sound, SoundThen
<1>10. \A s \in DOMAIN series : fetch.start <= s /\ s <= last /\ s <= fetch.end /\ s \in Int
  BY <1>3, <1>6 DEF Sessions_
<1>11. series \in Series
  BY <1>5 DEF Sound, SoundAt
<1>12. fetch' = Ended \/ fetch'.end = fetch.end
  BY <1>8 DEF Hand, BarsTyped
<1>13. FilesInv' /\ DOMAIN files' \subseteq Sessions_ \X Sessions_
  BY <1>1, <1>7, <1>9, <1>10, <1>12, StoredKeeps
<1>14. CASE last >= fetch.end /\ Hand(series, fetch.start)
  <2>1. fetch' = Ended
    BY <1>14 DEF Hand
  <2>2. ~Empty(series) => fetch.end \in DOMAIN series
    <3>1. last = fetch.end
      BY <1>3, <1>14 DEF Sessions_
    <3>2. fetch.start..last # {}
      BY <1>6, <1>7 DEF Empty
    <3>3. QED BY <1>3, <1>6, <3>1, <3>2 DEF Sessions_
  <2>3. HandedInv'
    BY <1>6, <1>9, <1>10, <1>14, <2>2, HandKeeps
  <2>4. BarsTyped'
    <3>1. NoBars \in Series /\ 1 \in Sessions_
      BY NoBarsSound, BarsAssumption DEF Sound, SoundAt, Sessions_
    <3>2. QED BY <1>1, <1>13, <2>1, <3>1 DEF BarsTyped, Ended
  <2>5. QED BY <1>13, <2>1, <2>3, <2>4, EndedBase
<1>15. CASE ~(last >= fetch.end) /\ fetch' = [fetch EXCEPT !.pc = "toss", !.base = series]
            /\ UNCHANGED bars
  <2>1. fetch'.base = series /\ fetch'.start = fetch.start /\ fetch'.end = fetch.end
    BY <1>15 DEF BarsTyped
  <2>2. BarsTyped'
    BY <1>1, <1>11, <1>13, <1>15 DEF BarsTyped
  <2>3. \A s \in DOMAIN series : s < fetch.end
    BY <1>3, <1>10, <1>15 DEF Sessions_
  <2>4. BaseInv'
    BY <1>9, <1>10, <2>1, <2>3 DEF Sound, SoundThen, BaseInv
  <2>5. HandedInv'
    BY <1>1, <1>15 DEF HandedInv, Handed, OneRecentBasis, Sound, SoundAt
  <2>6. QED BY <1>13, <2>2, <2>4, <2>5
<1>16. QED BY <1>8, <1>14, <1>15

(* A usable file is cut to the range; one that is needed whole has its end. *)
LEMMA UsableIs ==
  ASSUME BarsTyped, FilesInv, fetch.pc # "none", NEW whole \in BOOLEAN, NEW f \in Usable(whole)
  PROVE  /\ Sound(f) /\ ~Empty(f)
         /\ \A s \in DOMAIN f : fetch.start <= s /\ s <= fetch.end
         /\ whole => fetch.end \in DOMAIN f
         /\ fetch.end \in DOMAIN f => f \in Usable(TRUE)
<1>1. PICK r \in DOMAIN files :
        /\ ~Empty(files[r]) /\ First_(files[r]) <= fetch.start + StartGrace
        /\ whole => Last_(files[r]) >= fetch.end
        /\ f = Slice(files[r], fetch.start, fetch.end)
  BY DEF Usable
<1>2. f # NoBars
  BY DEF Usable
<1>3. fetch.start \in Int /\ fetch.end \in Int /\ Horizon = fetch.end
  BY DEF BarsTyped, Sessions_, Horizon
<1>4. Sound(files[r]) /\ \A s \in DOMAIN files[r] : s <= fetch.end
  BY <1>3 DEF FilesInv
<1>5. Sound(f) /\ DOMAIN f = DOMAIN files[r] \cap fetch.start..fetch.end
  <2> DEFINE h == files[r]
             a == fetch.start
             b == fetch.end
  <2>1. Sound(h) /\ a \in Int /\ b \in Int /\ f = Slice(h, a, b)
    BY <1>1, <1>3, <1>4
  <2> HIDE DEF h, a, b
  <2>2. Sound(f) /\ DOMAIN f = DOMAIN h \cap a..b
    BY <2>1, SliceSound
  <2>3. QED BY <2>2 DEF h, a, b
<1>6. ~Empty(f)
  BY <1>2, <1>5, EmptyIsNoBars DEF Sound, SoundAt
<1>7. DOMAIN files[r] \subseteq Sessions_ /\ files[r] \in Series
  BY <1>4, SeriesIs DEF Sound, SoundAt
<1>8. Last_(files[r]) \in DOMAIN files[r] /\ \A s \in DOMAIN files[r] : s <= Last_(files[r])
  BY <1>1, <1>7, LastIs
<1>9. \A s \in DOMAIN f : fetch.start <= s /\ s <= fetch.end /\ s \in Int
  BY <1>3, <1>5
<1>10. ASSUME whole PROVE fetch.end \in DOMAIN f
  <2>1. Last_(files[r]) \in Int /\ Last_(files[r]) <= fetch.end /\ Last_(files[r]) >= fetch.end
    BY <1>1, <1>4, <1>7, <1>8, <1>10 DEF Sessions_
  <2>2. fetch.end \in DOMAIN files[r]
    <3>1. Last_(files[r]) = fetch.end
      BY <1>3, <2>1
    <3>2. QED BY <1>8, <3>1
  <2>3. \E s \in DOMAIN f : TRUE
    BY <1>6 DEF Empty
  <2>4. fetch.start <= fetch.end
    BY <1>3, <1>9, <2>3
  <2>5. fetch.end \in fetch.start..fetch.end
    BY <1>3, <2>4
  <2>6. QED BY <1>5, <2>2, <2>5
<1>11. ASSUME fetch.end \in DOMAIN f PROVE f \in Usable(TRUE)
  <2>1. fetch.end <= Last_(files[r]) /\ Last_(files[r]) \in Int
    BY <1>5, <1>7, <1>8, <1>11 DEF Sessions_
  <2>2. Last_(files[r]) >= fetch.end
    BY <1>3, <2>1
  <2>3. QED BY <1>1, <1>2, <2>2 DEF Usable
<1>12. QED BY <1>5, <1>6, <1>9, <1>10, <1>11

(* Without a file that covers the range, the best one lacks its end.       *)
LEMMA BestLacksEnd ==
  ASSUME BarsTyped, FilesInv, fetch.pc # "none", Best(TRUE) = {}, NEW f \in Best(FALSE)
  PROVE  fetch.end \notin DOMAIN f
<1> SUFFICES ASSUME fetch.end \in DOMAIN f PROVE FALSE
  OBVIOUS
<1>1. f \in Usable(FALSE)
      /\ \A g \in Usable(FALSE) :
           \/ Last_(g) < Last_(f)
           \/ Last_(g) = Last_(f) /\ Cardinality(DOMAIN g) <= Cardinality(DOMAIN f)
  BY DEF Best
<1>2. f \in Usable(TRUE)
  BY <1>1, UsableIs
<1>3. Usable(TRUE) \subseteq Usable(FALSE)
  BY DEF Usable
<1>4. f \in Best(TRUE)
  BY <1>1, <1>2, <1>3 DEF Best
<1>5. QED BY <1>4

LEMMA YahooFailsKeeps == BarsInv /\ YahooFails => BarsInv'
<1> SUFFICES ASSUME BarsInv, YahooFails PROVE BarsInv'
  OBVIOUS
<1> USE DEF BarsInv
<1>1. fetch.pc = "yahoo" /\ UNCHANGED <<lastClosed, quoteBasis, files, unbridged>>
  BY DEF YahooFails
<1>2. ASSUME NEW f, Sound(f) PROVE SoundThen(f)
  BY <1>1, <1>2 DEF Sound, SoundThen
<1>3. CASE \E f \in Best(TRUE) : Hand(f, fetch.end)
  <2>1. PICK f \in Best(TRUE) : Hand(f, fetch.end)
    BY <1>3
  <2>2. f \in Usable(TRUE)
    BY <2>1 DEF Best
  <2>3. Sound(f) /\ fetch.end \in DOMAIN f /\ \A s \in DOMAIN f : s <= fetch.end
    BY <1>1, <2>2, UsableIs
  <2>4. SoundThen(f)
    BY <1>2, <2>3
  <2>5. \A s, t \in DOMAIN f : fetch.end <= s /\ s <= t => f[s] = f[t]
    <3>1. \A s \in DOMAIN f : s \in Int
      BY <2>3, SeriesIs DEF Sound, SoundAt, Sessions_
    <3>2. fetch.end \in Int
      BY DEF BarsTyped, Sessions_
    <3>3. \A s, t \in DOMAIN f : fetch.end <= s /\ s <= t => s = t
      BY <2>3, <3>1, <3>2
    <3>4. QED BY <3>3
  <2>6. HandedInv'
    BY <2>1, <2>3, <2>4, <2>5, HandKeeps
  <2>7. fetch' = Ended
    BY <2>1 DEF Hand
  <2>8. BarsTyped'
    <3>1. NoBars \in Series /\ 1 \in Sessions_
      BY NoBarsSound, BarsAssumption DEF Sound, SoundAt, Sessions_
    <3>2. QED BY <1>1, <2>7, <3>1 DEF BarsTyped, Ended
  <2>9. FilesInv'
    <3>1. SoundThen(NoBars) /\ \A s \in DOMAIN NoBars : s <= fetch.end
      BY NoBarsEver DEF SoundThen, NoBars
    <3>2. unbridged => unbridged'
      BY <1>1
    <3>3. QED BY <1>1, <2>7, <3>1, <3>2, StoredKeeps
  <2>10. QED BY <2>6, <2>7, <2>8, <2>9, EndedBase
<1>4. ASSUME fetch'.pc = "toss", fetch'.start = fetch.start, fetch'.end = fetch.end,
             fetch' \in [pc : {"toss"}, start : Sessions_, end : Sessions_, base : Series],
             UNCHANGED bars, BaseInv'
      PROVE  BarsInv'
  <2>1. BarsTyped'
    BY <1>1, <1>4 DEF BarsTyped
  <2>2. Horizon' = Horizon
    BY <1>1, <1>4 DEF Horizon
  <2>3. FilesInv'
    BY <1>1, <2>2 DEF FilesInv, Sound
  <2>4. HandedInv'
    BY <1>1, <1>4 DEF HandedInv, Handed, OneRecentBasis, Sound
  <2>5. QED BY <1>4, <2>1, <2>3, <2>4
<1>5. CASE fetch' = [fetch EXCEPT !.pc = "toss"] /\ UNCHANGED bars
  <2>1. fetch'.pc = "toss" /\ fetch'.start = fetch.start /\ fetch'.end = fetch.end
        /\ fetch'.base = fetch.base
        /\ fetch' \in [pc : {"toss"}, start : Sessions_, end : Sessions_, base : Series]
    BY <1>5 DEF BarsTyped
  <2>2. BaseInv'
    BY <1>1, <2>1 DEF BaseInv, Sound
  <2>3. QED BY <1>4, <1>5, <2>1, <2>2
<1>6. CASE /\ Best(TRUE) = {}
           /\ \E f \in Best(FALSE) : fetch' = [fetch EXCEPT !.pc = "toss", !.base = f]
           /\ UNCHANGED bars
  <2>1. PICK f \in Best(FALSE) : fetch' = [fetch EXCEPT !.pc = "toss", !.base = f]
    BY <1>6
  <2>2. f \in Usable(FALSE)
    BY <2>1 DEF Best
  <2>3. Sound(f) /\ \A s \in DOMAIN f : fetch.start <= s /\ s <= fetch.end
    BY <1>1, <2>2, UsableIs
  <2>4. fetch.end \notin DOMAIN f
    BY <1>1, <1>6, <2>1, BestLacksEnd
  <2>5. f \in Series /\ DOMAIN f \subseteq Sessions_
    BY <2>3, SeriesIs DEF Sound, SoundAt
  <2>6. \A s \in DOMAIN f : s < fetch.end
    <3>1. \A s \in DOMAIN f : s \in Int /\ s # fetch.end /\ s <= fetch.end
      BY <2>3, <2>4, <2>5 DEF Sessions_
    <3>2. fetch.end \in Int
      BY DEF BarsTyped, Sessions_
    <3>3. QED BY <3>1, <3>2
  <2>7. fetch'.pc = "toss" /\ fetch'.start = fetch.start /\ fetch'.end = fetch.end
        /\ fetch'.base = f
        /\ fetch' \in [pc : {"toss"}, start : Sessions_, end : Sessions_, base : Series]
    BY <2>1, <2>5 DEF BarsTyped
  <2>8. BaseInv'
    BY <1>1, <2>3, <2>6, <2>7 DEF BaseInv, Sound
  <2>9. QED BY <1>4, <1>6, <2>7, <2>8
<1>7. QED BY <1>3, <1>5, <1>6 DEF YahooFails

LEMMA TossFailsKeeps == BarsInv /\ TossFails => BarsInv'
<1> SUFFICES ASSUME BarsInv, TossFails PROVE BarsInv'
  OBVIOUS
<1> USE DEF BarsInv
<1>1. fetch.pc = "toss" /\ fetch' = Ended
      /\ UNCHANGED <<lastClosed, quoteBasis, files, bars, unbridged>>
  BY DEF TossFails
<1>2. BarsTyped'
  <2>1. NoBars \in Series /\ 1 \in Sessions_
    BY NoBarsSound, BarsAssumption DEF Sound, SoundAt, Sessions_
  <2>2. QED BY <1>1, <2>1 DEF BarsTyped, Ended
<1>3. FilesInv'
  <2>1. SoundThen(NoBars) /\ \A s \in DOMAIN NoBars : s <= fetch.end
    BY NoBarsEver DEF SoundThen, NoBars
  <2>2. unbridged => unbridged'
    BY <1>1
  <2>3. QED BY <1>1, <2>1, <2>2, StoredKeeps
<1>4. HandedInv'
  BY <1>1 DEF HandedInv, Handed, OneRecentBasis, Sound
<1>5. QED BY <1>1, <1>2, <1>3, <1>4, EndedBase

(* A recent run of sessions laid over older history that lacks the end: what reaches the
   end is sound, unless the two do not meet. *)
RunOf(recent, c, d) == c <= d /\ recent = [s \in c..d |-> quoteBasis]
CutOf(merged, recent) == merged = Slice(LaidOver(fetch.base, recent), fetch.start, fetch.end)
Bridges(c) ==
  /\ unbridged' = (unbridged \/ (/\ ~Empty(fetch.base) /\ Last_(fetch.base) + 1 < c))
  /\ quoteBasis' = quoteBasis

LEMMA LaidOverSound ==
  ASSUME BarsTyped, BaseInv, NEW c \in Sessions_, NEW d \in Sessions_, fetch.end \in c..d,
         NEW recent, NEW merged, RunOf(recent, c, d), CutOf(merged, recent), Bridges(c)
  PROVE  /\ SoundThen(merged)
         /\ \A s \in DOMAIN merged : s <= fetch.end
         /\ \A s, t \in DOMAIN merged : c <= s /\ s <= t => merged[s] = merged[t]
<1> USE DEF RunOf, CutOf, Bridges
<1> DEFINE base == fetch.base
           a == fetch.start
           b == fetch.end
           laid == LaidOver(base, recent)
<1>1. a \in Nat /\ b \in Nat /\ c \in Nat /\ d \in Nat /\ Sessions_ \subseteq Nat
      /\ c <= b /\ b <= d /\ quoteBasis \in 0..MaxSplits /\ quoteBasis \in Int
      /\ a \in Sessions_ /\ b \in Sessions_
  BY DEF BarsTyped, Sessions_
<1>2. base \in Series /\ DOMAIN base \subseteq Sessions_
      /\ (\A s \in DOMAIN base : base[s] \in 0..MaxSplits /\ base[s] <= quoteBasis)
      /\ (\A s, t \in DOMAIN base : s <= t => base[s] <= base[t])
      /\ (\A s \in DOMAIN base : s \in Nat /\ a <= s /\ s < b)
  BY SeriesIs, <1>1 DEF BaseInv, Sound, SoundAt
<1>3. ~unbridged => Whole(DOMAIN base)
  BY DEF BaseInv, Sound, SoundAt
<1>4. ~unbridged' /\ DOMAIN base # {} =>
        \E m \in DOMAIN base : c <= m + 1 /\ \A s \in DOMAIN base : s <= m
  <2>1. ~Empty(base) => Last_(base) \in DOMAIN base /\ \A s \in DOMAIN base : s <= Last_(base)
    BY <1>2, LastIs
  <2>2. ~unbridged' /\ ~Empty(base) => ~(Last_(base) + 1 < c)
    OBVIOUS
  <2>3. ASSUME NEW m \in DOMAIN base, ~(m + 1 < c) PROVE c <= m + 1
    BY <1>1, <1>2, <2>3
  <2>4. QED BY <2>1, <2>2, <2>3 DEF Empty
<1>5. (unbridged => unbridged') /\ DOMAIN recent = c..d
      /\ \A s \in DOMAIN recent : recent[s] = quoteBasis
  OBVIOUS
<1> HIDE DEF base, a, b
<1>6. DOMAIN laid = DOMAIN base \cup c..d /\ laid = [s \in DOMAIN laid |-> laid[s]]
      /\ \A s \in DOMAIN laid : laid[s] = IF s \in c..d THEN quoteBasis ELSE base[s]
  BY <1>5 DEF LaidOver
<1> HIDE DEF laid
<1>7. DOMAIN merged = DOMAIN laid \cap a..b /\ merged = [s \in DOMAIN merged |-> merged[s]]
      /\ \A s \in DOMAIN merged : merged[s] = laid[s]
  BY DEF Slice, base, a, b, laid
<1>8. \A s \in DOMAIN merged : /\ s \in Nat /\ a <= s /\ s <= b
                               /\ s >= c => merged[s] = quoteBasis
                               /\ s < c => s \in DOMAIN base /\ merged[s] = base[s]
  <2> SUFFICES ASSUME NEW s \in DOMAIN merged
               PROVE  /\ s \in Nat /\ a <= s /\ s <= b
                      /\ s >= c => merged[s] = quoteBasis
                      /\ s < c => s \in DOMAIN base /\ merged[s] = base[s]
    OBVIOUS
  <2>1. s \in a..b /\ s \in DOMAIN base \cup c..d
        /\ merged[s] = IF s \in c..d THEN quoteBasis ELSE base[s]
    BY <1>6, <1>7
  <2>2. s \in Nat /\ a <= s /\ s <= b
    BY <1>1, <2>1
  <2>3. s >= c => s \in c..d
    BY <1>1, <2>2
  <2>4. s < c => s \notin c..d
    BY <1>1, <2>2
  <2>5. QED BY <2>1, <2>2, <2>3, <2>4
<1>9. \A s, t \in DOMAIN merged : c <= s /\ s <= t => merged[s] = merged[t]
  <2>1. \A s, t \in DOMAIN merged : c <= s /\ s <= t => s >= c /\ t >= c
    BY <1>1, <1>8
  <2>2. QED BY <1>8, <2>1
<1>10. \A s \in DOMAIN merged : merged[s] \in 0..MaxSplits /\ merged[s] <= quoteBasis
  <2> SUFFICES ASSUME NEW s \in DOMAIN merged
               PROVE  merged[s] \in 0..MaxSplits /\ merged[s] <= quoteBasis
    OBVIOUS
  <2>1. CASE s >= c
    BY <1>1, <1>8, <2>1
  <2>2. CASE s < c
    BY <1>2, <1>8, <2>2
  <2>3. QED BY <1>1, <1>8, <2>1, <2>2
<1>11. ASSUME NEW s \in DOMAIN merged, NEW t \in DOMAIN merged, s <= t
       PROVE  merged[s] <= merged[t]
  <2>1. CASE t >= c
    BY <1>1, <1>8, <1>10, <2>1
  <2>2. CASE t < c
    <3>1. s < c
      BY <1>1, <1>8, <1>11, <2>2
    <3>2. QED BY <1>2, <1>8, <1>11, <2>2, <3>1
  <2>3. QED BY <1>1, <1>8, <2>1, <2>2
<1>12. merged \in Series
  <2>1. DOMAIN merged \subseteq Sessions_
    <3>1. \A s \in DOMAIN merged : s \in Nat /\ a <= s /\ s <= b
      BY <1>8
    <3>2. \A s \in Nat : a <= s /\ s <= b => s \in Sessions_
      BY <1>1, BarsAssumption DEF Sessions_
    <3>3. QED BY <3>1, <3>2
  <2>2. QED BY <1>7, <1>10, <2>1, SeriesIs
<1>13. ASSUME ~unbridged', NEW s \in DOMAIN merged, NEW t \in DOMAIN merged, NEW u \in s..t
       PROVE  u \in DOMAIN merged
  <2>1. u \in Nat /\ s <= u /\ u <= t /\ a <= u /\ u <= b
    BY <1>1, <1>8, <1>13
  <2>2. u \in DOMAIN laid
    <3>1. CASE u >= c
      <4>1. u \in c..d
        BY <1>1, <2>1, <3>1
      <4>2. QED BY <1>6, <4>1
    <3>2. CASE u < c
      <4>1. s < c
        BY <1>1, <1>8, <2>1, <3>2
      <4>2. s \in DOMAIN base
        BY <1>8, <4>1
      <4>3. PICK m \in DOMAIN base : c <= m + 1 /\ \A v \in DOMAIN base : v <= m
        BY <1>4, <1>13, <4>2
      <4>4. u <= m /\ m \in Nat /\ s \in Nat
        BY <1>1, <1>2, <1>8, <2>1, <3>2, <4>3
      <4>5. u \in s..m
        BY <2>1, <4>4
      <4>6. s..m \subseteq DOMAIN base
        BY <1>3, <1>5, <1>13, <4>2, <4>3 DEF Whole
      <4>7. QED BY <1>6, <4>5, <4>6
    <3>3. QED BY <1>1, <2>1, <3>1, <3>2
  <2>3. u \in a..b
    BY <1>1, <2>1
  <2>4. QED BY <1>7, <2>2, <2>3
<1>14. SoundThen(merged)
  <2>1. ~unbridged' => Whole(DOMAIN merged)
    BY <1>13 DEF Whole
  <2>2. QED BY <1>10, <1>11, <1>12, <2>1 DEF SoundThen, SoundAt
<1>15. QED BY <1>8, <1>9, <1>14 DEF b

(* The sessions of a Toss answer are a run.                                *)
LEMMA CandlesAre ==
  ASSUME BarsTyped, NEW last \in {lastClosed - 1, lastClosed}, NEW count \in 1..Candles,
         NEW recent, recent = [s \in Sessions_ \cap (last - count + 1)..last |-> quoteBasis],
         ~Empty(recent)
  PROVE  \E c, d \in Sessions_ : /\ c <= d /\ recent = [s \in c..d |-> quoteBasis]
                                 /\ First_(recent) = c
<1> DEFINE c == IF last - count + 1 < 1 THEN 1 ELSE last - count + 1
<1>1. lastClosed \in 1..MaxClosed /\ MaxClosed \in Nat /\ count \in Nat /\ 1 <= count /\ last \in Int
  BY BarsAssumption DEF BarsTyped, Sessions_
<1>2. last <= MaxClosed
  BY <1>1
<1>3. DOMAIN recent = Sessions_ \cap (last - count + 1)..last /\ DOMAIN recent # {}
  BY DEF Empty
<1>4. PICK k \in Sessions_ : k \in (last - count + 1)..last
  BY <1>3
<1>5. 1 <= last
  BY <1>1, <1>4 DEF Sessions_
<1>6. c \in 1..last /\ last \in Sessions_ /\ c \in Sessions_ /\ c <= last
  BY <1>1, <1>2, <1>5 DEF Sessions_
<1>7. Sessions_ \cap (last - count + 1)..last = c..last
  BY <1>1, <1>2, <1>5 DEF Sessions_
<1>8. recent = [s \in c..last |-> quoteBasis] /\ DOMAIN recent = c..last
  BY <1>3, <1>7
<1> HIDE DEF c
<1>9. First_(recent) = c
  <2>1. recent \in Series
    <3>1. quoteBasis \in 0..MaxSplits
      BY DEF BarsTyped
    <3>2. c..last \subseteq Sessions_
      BY <1>1, <1>2, <1>6 DEF Sessions_
    <3>3. QED BY <1>8, <3>1, <3>2, SeriesIs
  <2>2. First_(recent) \in c..last /\ First_(recent) <= c
    <3>1. c \in c..last
      BY <1>1, <1>6 DEF Sessions_
    <3>2. QED BY <1>8, <2>1, <3>1, FirstIs
  <2>3. QED BY <1>1, <1>6, <2>2 DEF Sessions_
<1>10. QED BY <1>6, <1>8, <1>9

LEMMA TossAnswersKeeps == BarsInv /\ TossAnswers => BarsInv'
<1> SUFFICES ASSUME BarsInv, TossAnswers PROVE BarsInv'
  OBVIOUS
<1> USE DEF BarsInv
<1>1. fetch.pc = "toss" /\ UNCHANGED <<lastClosed, quoteBasis>>
  BY DEF TossAnswers
<1>2. PICK last \in {lastClosed - 1, lastClosed}, count \in 1..Candles :
       LET recent == [s \in Sessions_ \cap (last - count + 1)..last |-> quoteBasis]
           merged == Slice(LaidOver(fetch.base, recent), fetch.start, fetch.end)
       IN  /\ ~Empty(recent)
           /\ IF /\ ~Empty(merged)
                 /\ First_(merged) <= fetch.start + StartGrace
                 /\ Last_(merged) >= fetch.end
              THEN /\ Hand(merged, First_(recent)) /\ files' = Stored(fetch.start, fetch.end, merged)
                   /\ unbridged' = (unbridged \/ (/\ ~Empty(fetch.base)
                                                  /\ Last_(fetch.base) + 1 < First_(recent)))
              ELSE fetch' = Ended /\ UNCHANGED <<files, bars, unbridged>>
  BY DEF TossAnswers
<1>3. PICK recent, merged :
        /\ recent = [s \in Sessions_ \cap (last - count + 1)..last |-> quoteBasis]
        /\ merged = Slice(LaidOver(fetch.base, recent), fetch.start, fetch.end)
        /\ ~Empty(recent)
        /\ \/ /\ ~Empty(merged) /\ Last_(merged) >= fetch.end
              /\ Hand(merged, First_(recent)) /\ files' = Stored(fetch.start, fetch.end, merged)
              /\ unbridged' = (unbridged \/ (/\ ~Empty(fetch.base)
                                             /\ Last_(fetch.base) + 1 < First_(recent)))
           \/ fetch' = Ended /\ UNCHANGED <<files, bars, unbridged>>
  BY <1>2
<1>4. PICK c \in Sessions_, d \in Sessions_ :
        c <= d /\ recent = [s \in c..d |-> quoteBasis] /\ First_(recent) = c
  BY <1>3, CandlesAre
<1>5. CASE fetch' = Ended /\ UNCHANGED <<files, bars, unbridged>>
  <2>1. TossFails
    BY <1>1, <1>5 DEF TossFails
  <2>2. QED BY <2>1, TossFailsKeeps
<1>6. CASE /\ ~Empty(merged) /\ Last_(merged) >= fetch.end
           /\ Hand(merged, First_(recent)) /\ files' = Stored(fetch.start, fetch.end, merged)
           /\ unbridged' = (unbridged \/ (/\ ~Empty(fetch.base)
                                          /\ Last_(fetch.base) + 1 < First_(recent)))
  <2>1. fetch.start \in Int /\ fetch.end \in Int /\ Sessions_ \subseteq Int
    BY DEF BarsTyped, Sessions_
  <2>2. DOMAIN merged = (DOMAIN fetch.base \cup c..d) \cap fetch.start..fetch.end
    BY <1>3, <1>4 DEF Slice, LaidOver
  <2>3. fetch.base \in Series /\ DOMAIN fetch.base \subseteq Sessions_
        /\ fetch.end \notin DOMAIN fetch.base
    <3>1. \A s \in DOMAIN fetch.base : s < fetch.end
      BY DEF BaseInv
    <3>2. ~(fetch.end < fetch.end)
      BY <2>1
    <3>3. fetch.base \in Series /\ DOMAIN fetch.base \subseteq Sessions_
      BY SeriesIs DEF BaseInv, Sound, SoundAt
    <3>4. QED BY <3>1, <3>2, <3>3
  <2>4. DOMAIN merged \subseteq Sessions_
    <3>1. c..d \subseteq Sessions_
      BY BarsAssumption DEF Sessions_
    <3>2. QED BY <2>2, <2>3, <3>1
  <2>5. Last_(merged) \in DOMAIN merged
    <3> DEFINE T == DOMAIN merged
    <3>1. T \subseteq Sessions_ /\ T # {}
      BY <1>6, <2>4 DEF Empty
    <3> HIDE DEF T
    <3>2. QED BY <3>1, MaxIs DEF T, Last_
  <2>6. fetch.end \in DOMAIN merged
    <3>1. Last_(merged) \in fetch.start..fetch.end
      BY <2>2, <2>5
    <3>2. Last_(merged) = fetch.end
      BY <1>6, <2>1, <3>1
    <3>3. QED BY <2>5, <3>2
  <2>7. fetch.end \in c..d
    BY <2>2, <2>3, <2>6
  <2>8. unbridged' = (unbridged \/ (/\ ~Empty(fetch.base) /\ Last_(fetch.base) + 1 < c))
        /\ Hand(merged, c) /\ quoteBasis' = quoteBasis
    BY <1>1, <1>4, <1>6
  <2>9. merged = Slice(LaidOver(fetch.base, recent), fetch.start, fetch.end)
    BY <1>3
  <2>10. /\ SoundThen(merged) /\ \A s \in DOMAIN merged : s <= fetch.end
         /\ \A s, t \in DOMAIN merged : c <= s /\ s <= t => merged[s] = merged[t]
    <3>1. BarsTyped /\ BaseInv
      OBVIOUS
    <3>2. RunOf(recent, c, d) /\ CutOf(merged, recent) /\ Bridges(c)
      BY <1>4, <2>8, <2>9 DEF RunOf, CutOf, Bridges
    <3>3. QED BY <2>7, <3>1, <3>2, LaidOverSound
  <2>11. HandedInv'
    BY <2>6, <2>8, <2>10, HandKeeps
  <2>12. fetch' = Ended
    BY <2>8 DEF Hand
  <2>13. unbridged => unbridged'
    BY <2>8
  <2>14. FilesInv' /\ DOMAIN files' \subseteq Sessions_ \X Sessions_
    BY <1>1, <1>6, <2>10, <2>12, <2>13, StoredKeeps
  <2>15. BarsTyped'
    <3>1. NoBars \in Series /\ 1 \in Sessions_
      BY NoBarsSound, BarsAssumption DEF Sound, SoundAt, Sessions_
    <3>2. unbridged' \in BOOLEAN
      BY <2>8 DEF BarsTyped
    <3>3. QED BY <1>1, <2>12, <2>14, <3>1, <3>2 DEF BarsTyped, Ended
  <2>16. QED BY <2>11, <2>12, <2>14, <2>15, EndedBase
<1>7. QED BY <1>3, <1>5, <1>6

LEMMA BarsStepKeeps == BarsInv /\ [BarsNext]_barVars => BarsInv'
<1> SUFFICES ASSUME BarsInv, [BarsNext]_barVars PROVE BarsInv'
  OBVIOUS
<1>1. CASE BarsNext
  BY <1>1, AskBarsKeeps, YahooAnswersKeeps, YahooFailsKeeps, TossAnswersKeeps, TossFailsKeeps,
     SessionClosesKeeps, SplitKeeps, FileLostKeeps DEF BarsNext
<1>2. CASE UNCHANGED barVars
  BY <1>2 DEF barVars, BarsInv, BarsTyped, FilesInv, Horizon, BaseInv, HandedInv, Handed,
     OneRecentBasis, Sound
<1>3. QED BY <1>1, <1>2

THEOREM BarsInvariant == BarsSpec => []BarsInv
BY BarsStarts, BarsStepKeeps, PTL DEF BarsSpec

(* The series at hand, in the files and under way are series of completed sessions. *)
THEOREM BarsTypeCorrect == BarsSpec => []BarsTypeOK
<1>1. BarsInv => BarsTypeOK
  BY DEF BarsInv, BarsTyped, FilesInv, BaseInv, HandedInv, Sound, SoundAt, BarsTypeOK
<1>2. QED BY <1>1, BarsInvariant, PTL

(* Whatever YahooTossDualDataSource.daily made the series of, it ends at the session asked
   for, has no hole it could have filled and lays newer prices over older ones. *)
THEOREM BarsTrustedHolds == BarsSpec => []BarsTrusted
<1>1. BarsInv => BarsTrusted
  <2>1. SUFFICES ASSUME BarsInv PROVE BarsTrusted
    OBVIOUS
  <2> USE <2>1 DEF BarsInv
  <2>2. bars.series \in Series /\ DOMAIN bars.series \subseteq Nat
    BY SeriesIs DEF HandedInv, Sound, SoundAt, Sessions_
  <2>3. ASSUME Handed
        PROVE  /\ First_(bars.series) \in DOMAIN bars.series
               /\ Last_(bars.series) \in DOMAIN bars.series
               /\ \A s \in DOMAIN bars.series :
                    First_(bars.series) <= s /\ s <= Last_(bars.series)
    BY <2>2, <2>3, FirstIs, LastIs DEF Handed
  <2>4. EndReached
    <3> SUFFICES ASSUME Handed PROVE Last_(bars.series) = bars.end
      BY DEF EndReached
    <3>1. bars.end \in Nat /\ Last_(bars.series) \in Nat
          /\ bars.end <= Last_(bars.series) /\ Last_(bars.series) <= bars.end
      BY <2>2, <2>3 DEF HandedInv
    <3>2. QED BY <3>1
  <2>5. NoHole
    <3> SUFFICES ASSUME Handed, ~unbridged
                 PROVE  DOMAIN bars.series = First_(bars.series)..Last_(bars.series)
      BY DEF NoHole
    <3>1. First_(bars.series)..Last_(bars.series) \subseteq DOMAIN bars.series
      BY <2>3 DEF HandedInv, Sound, SoundAt, Whole
    <3>2. \A s \in DOMAIN bars.series : s \in First_(bars.series)..Last_(bars.series)
      BY <2>2, <2>3
    <3>3. QED BY <3>1, <3>2
  <2>6. QED BY <2>4, <2>5 DEF BarsTrusted, HandedInv
<1>2. QED BY <1>1, BarsInvariant, PTL

-----------------------------------------------------------------------------
(* Overlay: arithmetic.                                                     *)

LEMMA CeilingNat == ASSUME NEW n \in Nat, NEW d \in Nat \ {0} PROVE Ceiling(n, d) \in Nat
<1>1. n + d - 1 \in Nat
  OBVIOUS
<1>2. \A x \in Nat : x \div d \in Nat
  OBVIOUS
<1>3. QED BY <1>1, <1>2 DEF Ceiling

LEMMA HalfEvenWhole ==
  ASSUME NEW n \in Int, NEW d \in Nat \ {0}
  PROVE  HalfEven(n, d) \in Int /\ (n \in Nat => HalfEven(n, d) \in Nat)
<1>1. n \div d \in Int /\ (n \in Nat => n \div d \in Nat)
  OBVIOUS
<1> DEFINE q == n \div d
<1>2. HalfEven(n, d) = q \/ HalfEven(n, d) = q + 1
  BY DEF HalfEven
<1> HIDE DEF q
<1>3. q \in Int /\ (n \in Nat => q \in Nat)
  BY <1>1 DEF q
<1>4. QED BY <1>2, <1>3

LEMMA BoundsWhole ==
  ASSUME NEW a \in Int, NEW b \in Int
  PROVE  /\ Lower(a, b) \in {a, b} /\ Lower(a, b) <= a /\ Lower(a, b) <= b
         /\ Upper(a, b) \in {a, b} /\ a <= Upper(a, b) /\ b <= Upper(a, b)
BY DEF Lower, Upper

LEMMA WholeTimes ==
  ASSUME NEW a \in Nat, NEW b \in Nat
  PROVE  a * b \in Nat /\ (a # 0 /\ b # 0 => a * b # 0)
OBVIOUS

(* As many as the money buys cost no more than the money. *)
LEMMA Affords ==
  ASSUME NEW m \in Nat, NEW y \in Nat \ {0}, NEW n \in Nat, n <= m \div y
  PROVE  n * y <= m
<1>1. m \div y \in Nat /\ (m \div y) * y <= m
  OBVIOUS
<1> DEFINE q == m \div y
<1>2. q - n \in Nat /\ q \in Nat
  BY <1>1
<1>3. (q - n) * y \in Nat
  BY <1>2, WholeTimes
<1> HIDE DEF q
<1>4. q * y = n * y + (q - n) * y
  BY <1>2
<1>5. n * y \in Nat /\ q * y \in Nat
  BY <1>2, WholeTimes
<1>6. q * y <= m
  BY <1>1 DEF q
<1>7. QED BY <1>3, <1>4, <1>5, <1>6

(* A finite set of naturals has a greatest. *)
LEMMA GreatestOf ==
  ASSUME NEW T, IsFiniteSet(T), T \subseteq Nat, T # {}
  PROVE  \E n \in T : \A m \in T : m <= n
<1> DEFINE id == [x \in T |-> x]
<1>1. \A x \in T : id[x] \in Nat /\ id[x] = x
  OBVIOUS
<1> HIDE DEF id
<1>2. \A x \in T : Sum(id, T) \in Nat /\ x <= Sum(id, T)
  <2> TAKE x \in T
  <2>1. Sum(id, T) \in Nat /\ id[x] <= Sum(id, T)
    BY <1>1, TermAtMost
  <2>2. QED BY <1>1, <2>1
<1>3. PICK k \in Nat : \A n \in T : n <= k
  BY <1>2
<1>4. QED BY <1>3, MaxExists

-----------------------------------------------------------------------------
(* Overlay: types.                                                          *)

Averages == Nat \X (Nat \ {0})
Plans == [first : Nat, second : Nat, part : Nat]
Sims == [state : {"empty", "held", "partial", "rebought"}, qty : Nat, avg : Averages,
         cap : Nat, staged : Nat, cash : Nat, stage : Nat, anchor : Nat, rebuys : Nat,
         armed : BOOLEAN, firstQty : Nat, tp : SUBSET Plans, done : BOOLEAN,
         days : Nat, firstDay : Nat, began : Nat]
Decisions == [action : {"first", "add", "rebuy"}, stage : Nat, cap : Nat, budget : Nat,
              trigger : Int, close : Prices]

(* What the assumption says of each parameter, in the form the leaves use.   *)
LEMMA ParametersWhole ==
  /\ Prices \subseteq Nat \ {0}
  /\ Capital \in Nat /\ Capital * 10000 \in Nat
  /\ Weights \in Seq(Nat) /\ Drops \in Seq(Nat)
  /\ Len(Weights) = Len(Drops) /\ Len(Weights) >= 1
  /\ \A i \in DOMAIN Weights : Weights[i] <= 100
  /\ IsFiniteSet(Bands) /\ Bands \subseteq Nat \X Nat
  /\ Fee \in 0..100 /\ Fee \in Nat
  /\ 100 + Fee \in Nat /\ 100 + Fee \in Nat \ {0} /\ 100 - Fee \in Nat
  /\ FillSlip \in Nat /\ 100 + FillSlip \in Nat \ {0}
  /\ ExitGain \in Nat /\ 100 + ExitGain \in Nat
  /\ First \in Nat /\ Second \in Nat /\ FirstPart \in Nat
  /\ RebuyDrop \in Nat /\ Chase \in Nat
<1>1. Fee \in 0..100 /\ Capital \in Nat \ {0} /\ Prices \subseteq Nat \ {0}
  BY OverlayAssumption
<1>2. Weights \in Seq(Nat) /\ Drops \in Seq(Nat)
  BY OverlayAssumption
<1>3. Len(Weights) = Len(Drops) /\ Len(Weights) >= 1
      /\ \A i \in DOMAIN Weights : Weights[i] <= 100
  BY OverlayAssumption
<1>4. IsFiniteSet(Bands) /\ Bands \subseteq Nat \X Nat
  BY OverlayAssumption
<1>5. FillSlip \in Nat /\ ExitGain \in Nat
  BY OverlayAssumption
<1>6. First \in Nat /\ Second \in Nat /\ FirstPart \in Nat /\ RebuyDrop \in Nat
      /\ Chase \in Nat
  BY OverlayAssumption
<1>7. /\ Fee \in Nat /\ 100 + Fee \in Nat /\ 100 + Fee \in Nat \ {0}
      /\ 100 - Fee \in Nat
  BY <1>1
<1>8. 100 + FillSlip \in Nat \ {0} /\ 100 + ExitGain \in Nat
  BY <1>5
<1>9. Capital \in Nat /\ Capital * 10000 \in Nat
  BY <1>1
<1>10. QED BY <1>1, <1>2, <1>3, <1>4, <1>5, <1>6, <1>7, <1>8, <1>9

LEMMA SecondsFinite ==
  ASSUME NEW T, IsFiniteSet(T) PROVE IsFiniteSet({b[2] : b \in T})
<1> DEFINE seconds == {b[2] : b \in T}
           f == [c \in T |-> c[2]]
<1>1. f \in [T -> seconds] /\ \A b \in seconds : \E c \in T : f[c] = b
  OBVIOUS
<1> HIDE DEF f, seconds
<1>2. f \in Surjection(T, seconds)
  BY <1>1 DEF Surjection
<1>3. IsFiniteSet(seconds)
  BY <1>2, FS_Surjection
<1>4. QED BY <1>3 DEF seconds

LEMMA ExposureNat == ASSUME NEW score PROVE Exposure(score) \in Nat
<1> DEFINE reached == {c \in Bands : score >= c[1]}
           earned == {b[2] : b \in reached}
<1>1. earned \subseteq Nat /\ IsFiniteSet(reached)
  BY ParametersWhole, FS_Subset
<1>2. IsFiniteSet(earned)
  BY <1>1, SecondsFinite
<1>3. CASE earned = {}
  BY <1>3 DEF Exposure
<1>4. CASE earned # {}
  <2> DEFINE top == CHOOSE m \in earned : \A n \in earned : n <= m
  <2>1. top \in earned
    <3> HIDE DEF earned
    <3>1. QED BY <1>1, <1>2, <1>4, GreatestOf
  <2>2. top \in Nat
    <3> HIDE DEF top, earned
    <3>1. QED BY <1>1, <2>1
  <2>3. Exposure(score) = (Capital * top) \div 100
    BY <1>4 DEF Exposure
  <2> HIDE DEF top
  <2>4. Capital * top \in Nat
    BY <2>2, WholeTimes, ParametersWhole
  <2>5. \A x \in Nat : x \div 100 \in Nat
    OBVIOUS
  <2>6. QED BY <2>3, <2>4, <2>5
<1>5. QED BY <1>3, <1>4

LEMMA NewCapNat == ASSUME NEW cap \in Nat, NEW score PROVE NewCap(cap, score) \in Nat
<1>1. Exposure(score) \in Nat /\ Capital \in Nat
  BY ExposureNat, ParametersWhole
<1>2. QED BY <1>1 DEF NewCap, Lower, Upper

LEMMA StageBudgetNat ==
  ASSUME NEW cap \in Nat, NEW stage \in DOMAIN Weights, NEW staged \in Nat
  PROVE  StageBudget(cap, stage, staged) \in Nat
<1>1. Weights[stage] \in Nat
  <2>1. Weights \in Seq(Nat)
    BY ParametersWhole
  <2>2. QED BY <2>1, LenProperties, ElementOfSeq
<1>2. cap * Weights[stage] \in Nat
  BY <1>1, WholeTimes
<1> DEFINE whole == HalfEven(cap * Weights[stage], 100)
<1>3. whole \in Nat
  BY <1>2, HalfEvenWhole
<1> HIDE DEF whole
<1>4. Upper(0, whole * 10000 - staged) \in Nat
  BY <1>3 DEF Upper
<1>5. HalfEven(Upper(0, whole * 10000 - staged), 10000) \in Nat
  BY <1>4, HalfEvenWhole
<1>6. QED BY <1>5 DEF StageBudget, whole

LEMMA RebuyBudgetNat ==
  ASSUME NEW s \in Sims, NEW close \in Prices PROVE RebuyBudget(s, close) \in Nat
<1>1. s.cap \in Nat /\ s.qty \in Nat /\ s.firstQty \in Nat
  BY DEF Sims
<1>2. s.avg[1] \in Nat /\ s.avg[2] \in Nat \ {0}
  BY DEF Sims, Averages
<1>3. close \in Nat /\ Fee \in Nat
  <2>1. Fee \in 0..100 /\ Prices \subseteq Nat \ {0}
    BY ParametersWhole
  <2>2. QED BY <2>1
<1> DEFINE room == s.cap * 100 * s.avg[2] - s.avg[1] * s.qty
           asked == s.firstQty * close * (100 + Fee)
           unit == s.avg[2] * 100
<1>4. room \in Int
  <2>1. s.cap * 100 * s.avg[2] \in Nat /\ s.avg[1] * s.qty \in Nat
    BY <1>1, <1>2, WholeTimes
  <2>2. QED BY <2>1
<1>5. asked \in Nat
  <2>1. 100 + Fee \in Nat
    BY <1>3
  <2>2. QED BY <1>1, <1>3, <2>1, WholeTimes
<1>6. unit \in Nat \ {0}
  BY <1>2
<1>7. RebuyBudget(s, close) = Lower(HalfEven(Upper(0, room), unit), HalfEven(asked, 100))
  BY DEF RebuyBudget
<1> HIDE DEF room, asked, unit
<1>8. Upper(0, room) \in Nat
  BY <1>4 DEF Upper
<1>9. HalfEven(Upper(0, room), unit) \in Nat /\ HalfEven(asked, 100) \in Nat
  BY <1>5, <1>6, <1>8, HalfEvenWhole
<1>10. QED BY <1>7, <1>9 DEF Lower

LEMMA TriggersWhole ==
  ASSUME NEW s \in Sims
  PROVE  /\ \A stage \in DOMAIN Drops : HalfEven(Trigger(s, stage), 100) \in Int
         /\ RebuyTrigger(s) \in Int
<1>1. s.anchor \in Nat
  BY DEF Sims
<1>2. s.avg[1] \in Nat /\ s.avg[2] \in Nat \ {0}
  BY DEF Sims, Averages
<1>3. ASSUME NEW stage \in DOMAIN Drops PROVE HalfEven(Trigger(s, stage), 100) \in Int
  <2>1. Drops[stage] \in Nat
    <3>1. Drops \in Seq(Nat)
      BY ParametersWhole
    <3>2. QED BY <3>1, LenProperties, ElementOfSeq
  <2>2. Trigger(s, stage) \in Int
    BY <1>1, <2>1 DEF Trigger
  <2>3. QED BY <2>2, HalfEvenWhole
<1>4. RebuyDrop \in Nat
  BY ParametersWhole
<1>5. s.avg[1] * (100 - RebuyDrop) \in Int /\ s.avg[2] * 100 \in Nat \ {0}
  BY <1>2, <1>4
<1>6. RebuyTrigger(s) \in Int
  BY <1>5, HalfEvenWhole DEF RebuyTrigger
<1>7. QED BY <1>3, <1>6

(* A close decides at most once, and what it decides is a decision.         *)
LEMMA DecidedOnce ==
  ASSUME NEW s \in Sims, NEW close \in Prices, NEW score, NEW reoversold \in BOOLEAN
  PROVE  /\ Decided(s, close, score, reoversold) \subseteq Decisions
         /\ \A d, e \in Decided(s, close, score, reoversold) : d = e
<1> DEFINE E == EntryDecision(s, close, score)
           A == AddDecision(s, close, score)
           R == RebuyDecision(s, close, score, reoversold)
<1>1. E \subseteq Decisions /\ (E # {} => s.state = "empty") /\ \A d, e \in E : d = e
  <2> DEFINE cap == Exposure(score)
             budget == StageBudget(cap, 1, 0)
             r == [action |-> "first", stage |-> 1, cap |-> cap, budget |-> budget,
                   trigger |-> 0, close |-> close]
  <2>1. 1 \in DOMAIN Weights
    <3>1. Weights \in Seq(Nat) /\ Len(Weights) >= 1
      BY ParametersWhole
    <3>2. QED BY <3>1, LenProperties
  <2>2. cap \in Nat
    BY ExposureNat
  <2>3. budget \in Nat
    <3> HIDE DEF cap
    <3>1. QED BY <2>1, <2>2, StageBudgetNat
  <2>4. E \subseteq {r} /\ (E # {} => s.state = "empty")
    BY DEF EntryDecision
  <2>5. r \in Decisions
    <3> HIDE DEF cap, budget
    <3>1. QED BY <2>2, <2>3 DEF Decisions
  <2> HIDE DEF E, r
  <2>6. QED BY <2>4, <2>5
<1>2. A \subseteq Decisions /\ (A # {} => s.state = "held") /\ \A d, e \in A : d = e
  <2> DEFINE stage == s.stage + 1
             cap == NewCap(s.cap, score)
             budget == StageBudget(cap, stage, s.staged)
             trigger == HalfEven(Trigger(s, stage), 100)
             r == [action |-> "add", stage |-> stage, cap |-> cap, budget |-> budget,
                   trigger |-> trigger, close |-> close]
  <2>1. s.cap \in Nat /\ s.staged \in Nat /\ s.stage \in Nat
    BY DEF Sims
  <2>2. cap \in Nat
    BY <2>1, NewCapNat
  <2>3. stage \in DOMAIN Weights => budget \in Nat /\ trigger \in Int
    <3>1. DOMAIN Weights = DOMAIN Drops
      <4>1. Weights \in Seq(Nat) /\ Drops \in Seq(Nat) /\ Len(Weights) = Len(Drops)
        BY ParametersWhole
      <4>2. QED BY <4>1, LenProperties
    <3> HIDE DEF cap, stage
    <3>2. QED BY <2>1, <2>2, <3>1, StageBudgetNat, TriggersWhole
  <2>4. A \subseteq {r} /\ (A # {} => s.state = "held" /\ stage \in DOMAIN Weights)
    BY DEF AddDecision
  <2>5. stage \in DOMAIN Weights => r \in Decisions
    <3>1. stage \in Nat
      BY <2>1
    <3> HIDE DEF cap, budget, stage, trigger
    <3>2. QED BY <2>2, <2>3, <3>1 DEF Decisions
  <2> HIDE DEF A, r, stage
  <2>6. QED BY <2>4, <2>5
<1>3. R \subseteq Decisions /\ (R # {} => s.state = "partial") /\ \A d, e \in R : d = e
  <2> DEFINE budget == RebuyBudget(s, close)
             trigger == RebuyTrigger(s)
             r == [action |-> "rebuy", stage |-> s.stage, cap |-> s.cap, budget |-> budget,
                   trigger |-> trigger, close |-> close]
  <2>1. s.cap \in Nat /\ s.stage \in Nat
    BY DEF Sims
  <2>2. budget \in Nat /\ trigger \in Int
    BY RebuyBudgetNat, TriggersWhole
  <2>3. R \subseteq {r} /\ (R # {} => s.state = "partial")
    BY DEF RebuyDecision
  <2>4. r \in Decisions
    <3> HIDE DEF budget, trigger
    <3>1. QED BY <2>1, <2>2 DEF Decisions
  <2> HIDE DEF R, r
  <2>5. QED BY <2>3, <2>4
<1>4. Decided(s, close, score, reoversold) = E \cup A \cup R
  BY DEF Decided
<1> HIDE DEF E, A, R
<1>5. QED BY <1>1, <1>2, <1>3, <1>4

-----------------------------------------------------------------------------
(* Overlay: what a fill and a sale make of the position.                    *)

LEMMA TakeProfitFits ==
  ASSUME NEW avg \in Averages, NEW qty \in Nat PROVE TakeProfit(avg, qty) \in Plans
<1>1. avg[1] \in Nat /\ avg[2] \in Nat \ {0}
  BY DEF Averages
<1>2. First \in Nat /\ Second \in Nat /\ FirstPart \in Nat
  BY ParametersWhole
<1> DEFINE x == avg[1] * (100 + First)
           y == avg[1] * (100 + Second)
           z == avg[2] * 10000
           w == qty * FirstPart
<1>3. x \in Nat /\ y \in Nat /\ z \in Nat \ {0} /\ w \in Nat
  BY <1>1, <1>2
<1> HIDE DEF x, y, z, w
<1>4. Ceiling(x, z) \in Nat /\ Ceiling(y, z) \in Nat /\ Ceiling(w, 100) \in Nat
  BY <1>3, CeilingNat
<1>5. Upper(1, Lower(qty, Ceiling(w, 100))) \in Nat
  BY <1>4 DEF Upper, Lower
<1>6. TakeProfit(avg, qty) = [first |-> Ceiling(x, z), second |-> Ceiling(y, z),
                              part |-> Upper(1, Lower(qty, Ceiling(w, 100)))]
  BY DEF TakeProfit, x, y, z, w
<1>7. QED BY <1>4, <1>5, <1>6 DEF Plans

LEMMA AverageFits ==
  ASSUME NEW s \in Sims, NEW n \in Nat \ {0}, NEW fill \in Nat
  PROVE  Reduced(Averaged(s, n, fill), s.qty + n) \in Averages
<1>1. s.qty \in Nat /\ s.avg[1] \in Nat /\ s.avg[2] \in Nat \ {0}
  BY DEF Sims, Averages
<1> DEFINE a == s.avg[1] * s.qty + n * fill * s.avg[2]
           b == s.avg[2] * (s.qty + n)
           q == s.qty + n
<1>2. q \in Nat \ {0}
  BY <1>1
<1>3. a \in Nat
  <2>1. s.avg[1] * s.qty \in Nat /\ n * fill * s.avg[2] \in Nat
    BY <1>1, WholeTimes
  <2>2. QED BY <2>1
<1>4. b \in Nat \ {0}
  <2> HIDE DEF q
  <2>1. s.avg[2] * q \in Nat \ {0}
    BY <1>1, <1>2, WholeTimes
  <2>2. QED BY <2>1 DEF q
<1>5. Averaged(s, n, fill) = <<a, b>>
  BY DEF Averaged
<1> HIDE DEF a, b, q
<1>6. (a * q) \div b \in Nat
  <2>1. a * q \in Nat
    BY <1>2, <1>3, WholeTimes
  <2>2. \A x \in Nat : \A d \in Nat \ {0} : x \div d \in Nat
    OBVIOUS
  <2>3. QED BY <1>4, <2>1, <2>2
<1>7. <<a, b>> \in Averages /\ <<(a * q) \div b, q>> \in Averages
  BY <1>2, <1>3, <1>4, <1>6 DEF Averages
<1>8. Reduced(<<a, b>>, q) \in {<<a, b>>, <<(a * q) \div b, q>>}
  BY DEF Reduced
<1>9. QED BY <1>5, <1>7, <1>8 DEF q

(* A purchase adds its quantity to the position and nothing the cash lacks. *)
LEMMA FilledFits ==
  ASSUME NEW s \in Sims, NEW d \in Decisions, NEW n \in Nat \ {0}, NEW fill \in Nat,
         n * fill * (100 + Fee) <= s.cash
  PROVE  Filled(s, d, n, fill) \in Sims /\ Filled(s, d, n, fill).qty = s.qty + n
<1> DEFINE gross == n * fill * (100 + Fee)
           avg == Reduced(Averaged(s, n, fill), s.qty + n)
           plan == TakeProfit(avg, s.qty + n)
           held == [s EXCEPT !.qty = @ + n, !.avg = avg, !.cash = @ - gross,
                             !.tp = {plan}, !.done = FALSE]
<1>1. s.qty + n \in Nat
  BY DEF Sims
<1>2. avg \in Averages
  BY AverageFits
<1>3. plan \in Plans
  <2> HIDE DEF avg
  <2>1. QED BY <1>1, <1>2, TakeProfitFits
<1>4. gross \in Nat /\ s.cash - gross \in Nat /\ s.staged + gross \in Nat
  <2>1. 100 + Fee \in Nat
    BY ParametersWhole
  <2>2. gross \in Nat
    BY <2>1, WholeTimes
  <2>3. s.cash \in Nat /\ s.staged \in Nat
    BY DEF Sims
  <2>4. gross <= s.cash
    OBVIOUS
  <2> HIDE DEF gross
  <2>5. QED BY <2>2, <2>3, <2>4
<1>5. /\ Filled(s, d, n, fill) =
           CASE d.action = "first" ->
                  [held EXCEPT !.state = "held", !.stage = 1, !.anchor = fill,
                               !.cap = d.cap, !.staged = gross, !.began = s.cash,
                               !.days = 0, !.firstQty = 0, !.rebuys = 0, !.armed = FALSE]
             [] d.action = "add" ->
                  [held EXCEPT !.state = "held", !.stage = d.stage, !.cap = d.cap,
                               !.staged = @ + gross]
             [] d.action = "rebuy" ->
                  [held EXCEPT !.state = "rebought", !.rebuys = @ + 1, !.armed = FALSE]
  BY DEF Filled
<1>6. held \in Sims /\ held.qty = s.qty + n /\ held.staged = s.staged
  <2> HIDE DEF avg, plan, gross
  <2>1. s.qty + n \in Nat /\ avg \in Averages /\ s.cash - gross \in Nat /\ {plan} \subseteq Plans
    BY <1>1, <1>2, <1>3, <1>4
  <2>2. QED BY <2>1 DEF Sims
<1>7. d.cap \in Nat /\ d.stage \in Nat /\ s.cash \in Nat /\ held.rebuys + 1 \in Nat
  BY <1>6 DEF Decisions, Sims
<1>8. d.action \in {"first", "add", "rebuy"}
  BY DEF Decisions
<1>9. held.staged + gross \in Nat
  BY <1>4, <1>6
<1> HIDE DEF held, avg, plan, gross
<1>10. CASE d.action = "first"
  <2>1. Filled(s, d, n, fill) =
          [held EXCEPT !.state = "held", !.stage = 1, !.anchor = fill,
                       !.cap = d.cap, !.staged = gross, !.began = s.cash,
                       !.days = 0, !.firstQty = 0, !.rebuys = 0, !.armed = FALSE]
    BY <1>5, <1>10
  <2>2. 0 \in Nat /\ 1 \in Nat
    OBVIOUS
  <2>3. Filled(s, d, n, fill) \in Sims
    BY <1>4, <1>6, <1>7, <2>1, <2>2, ZenonT(60) DEF Sims
  <2>4. Filled(s, d, n, fill).qty = held.qty
    BY <1>6, <2>1 DEF Sims
  <2>5. QED BY <1>6, <2>3, <2>4
<1>11. CASE d.action = "add"
  <2>1. Filled(s, d, n, fill) =
          [held EXCEPT !.state = "held", !.stage = d.stage, !.cap = d.cap,
                       !.staged = @ + gross]
    BY <1>5, <1>11
  <2>2. Filled(s, d, n, fill) \in Sims
    BY <1>6, <1>7, <1>9, <2>1 DEF Sims
  <2>3. Filled(s, d, n, fill).qty = held.qty
    BY <1>6, <2>1 DEF Sims
  <2>4. QED BY <1>6, <2>2, <2>3
<1>12. CASE d.action = "rebuy"
  <2>1. Filled(s, d, n, fill) =
          [held EXCEPT !.state = "rebought", !.rebuys = @ + 1, !.armed = FALSE]
    BY <1>5, <1>12
  <2>2. Filled(s, d, n, fill) \in Sims
    BY <1>6, <1>7, <2>1 DEF Sims
  <2>3. Filled(s, d, n, fill).qty = held.qty
    BY <1>6, <2>1 DEF Sims
  <2>4. QED BY <1>6, <2>2, <2>3
<1>13. QED BY <1>8, <1>10, <1>11, <1>12

(* What can be afforded is paid from the cash there is.                     *)
LEMMA AffordableFits ==
  ASSUME NEW s \in Sims, NEW d \in Decisions, NEW fill \in Nat \ {0}
  PROVE  /\ Affordable(s, d, fill) \in Nat
         /\ Affordable(s, d, fill) * fill * (100 + Fee) <= s.cash
         /\ Affordable(s, d, fill) * fill * (100 + Fee) <= d.budget * 10000
         /\ d.action = "rebuy" => Affordable(s, d, fill) <= s.firstQty
<1> DEFINE money == Lower(d.budget * 10000, s.cash)
           each == fill * (100 + Fee)
           n == Affordable(s, d, fill)
<1>1. s.cash \in Nat /\ s.firstQty \in Nat /\ d.budget \in Nat
  BY DEF Sims, Decisions
<1>2. money \in Nat /\ money <= s.cash /\ money <= d.budget * 10000
  BY <1>1 DEF Lower
<1>3. 100 + Fee \in Nat \ {0}
  BY ParametersWhole
<1>4. each \in Nat \ {0}
  BY <1>3, WholeTimes
<1>5. n = IF d.action = "rebuy" THEN Lower(money \div each, s.firstQty) ELSE money \div each
  BY DEF Affordable
<1> HIDE DEF money, each, n
<1>6. money \div each \in Nat
  BY <1>2, <1>4
<1>7. n \in Nat /\ n <= money \div each /\ (d.action = "rebuy" => n <= s.firstQty)
  <2> DEFINE k == money \div each
  <2>1. n = IF d.action = "rebuy" THEN Lower(k, s.firstQty) ELSE k
    BY <1>5
  <2>2. k \in Nat
    BY <1>6
  <2> HIDE DEF k
  <2>3. n \in Nat /\ n <= k /\ (d.action = "rebuy" => n <= s.firstQty)
    BY <1>1, <2>1, <2>2 DEF Lower
  <2>4. QED BY <2>3 DEF k
<1>8. n * each <= money
  BY <1>2, <1>4, <1>7, Affords
<1>9. n * fill * (100 + Fee) = n * each
  <2>1. \A a, b, c \in Nat : a * b * c = a * (b * c)
    OBVIOUS
  <2>2. QED BY <1>3, <1>7, <2>1 DEF each
<1>10. n * each \in Nat
  BY <1>4, <1>7, WholeTimes
<1>11. n * fill * (100 + Fee) <= s.cash /\ n * fill * (100 + Fee) <= d.budget * 10000
  BY <1>1, <1>2, <1>8, <1>9, <1>10
<1>12. QED BY <1>7, <1>11 DEF n

(* A decision executed at an open only ever adds to the position.           *)
LEMMA ExecutedFits ==
  ASSUME NEW s \in Sims, NEW d \in Decisions, NEW open \in Prices
  PROVE  /\ Executed(s, d, open) \in Sims
         /\ Executed(s, d, open).qty >= s.qty
<1> DEFINE fill == open * (100 + FillSlip)
           n == Affordable(s, d, fill)
<1>1. fill \in Nat \ {0}
  <2>1. open \in Nat \ {0} /\ 100 + FillSlip \in Nat \ {0}
    BY ParametersWhole
  <2>2. QED BY <2>1, WholeTimes
<1>2. Executed(s, d, open) = s \/ (Executed(s, d, open) = Filled(s, d, n, fill) /\ ~(n < 1))
  BY DEF Executed
<1>3. n \in Nat /\ n * fill * (100 + Fee) <= s.cash
  <2> HIDE DEF fill
  <2>1. QED BY <1>1, AffordableFits
<1>4. s.qty \in Nat
  BY DEF Sims
<1> HIDE DEF fill, n
<1>5. CASE Executed(s, d, open) = s
  BY <1>4, <1>5
<1>6. CASE Executed(s, d, open) = Filled(s, d, n, fill) /\ ~(n < 1)
  <2>1. n \in Nat \ {0}
    BY <1>3, <1>6
  <2>2. Filled(s, d, n, fill) \in Sims /\ Filled(s, d, n, fill).qty = s.qty + n
    BY <1>1, <1>3, <2>1, FilledFits
  <2>3. QED BY <1>4, <1>6, <2>1, <2>2
<1>7. QED BY <1>2, <1>5, <1>6

(* A sale takes its quantity from the position, whatever the price.         *)
Fewer(t, s) == t \in Sims /\ t.qty <= s.qty

LEMMA ReduceFits ==
  ASSUME NEW s \in Sims, NEW n \in Nat, n <= s.qty, NEW price \in Nat
  PROVE  Fewer(Reduce(s, n, price), s)
<1>1. s.qty \in Nat /\ s.cash \in Nat
  BY DEF Sims
<1>2. 100 - Fee \in Nat
  <2>1. Fee \in 0..100
    BY ParametersWhole
  <2>2. QED BY <2>1
<1> DEFINE gain == n * price * (100 - Fee) * 100
           left == s.qty - n
           cash == s.cash + gain
<1>3. gain \in Nat
  BY <1>2, WholeTimes
<1> HIDE DEF gain
<1>4. left \in Nat /\ left <= s.qty /\ cash \in Nat
  BY <1>1, <1>3
<1>5. Reduce(s, n, price) = [s EXCEPT !.qty = left, !.cash = cash]
  BY DEF Reduce, gain
<1> HIDE DEF left, cash
<1>6. [s EXCEPT !.qty = left, !.cash = cash] \in Sims
  BY <1>4 DEF Sims
<1>7. [s EXCEPT !.qty = left, !.cash = cash].qty = left
  BY DEF Sims
<1>8. QED BY <1>4, <1>5, <1>6, <1>7 DEF Fewer

LEMMA TakeFirstFits == ASSUME NEW s \in Sims, NEW high PROVE Fewer(TakeFirst(s, high), s)
<1> DEFINE hit == {p \in s.tp : ~s.done /\ s.qty > 0 /\ high >= p.first}
<1>1. s.qty \in Nat /\ s.days \in Nat /\ s.tp \subseteq Plans
  BY DEF Sims
<1>2. CASE hit = {}
  <2>1. TakeFirst(s, high) = s
    BY <1>2 DEF TakeFirst
  <2>2. QED BY <1>1, <2>1 DEF Fewer
<1>3. CASE hit # {}
  <2> DEFINE p == CHOOSE q \in hit : TRUE
             n == Lower(p.part, s.qty)
             r == Reduce(s, n, p.first)
             sold == [r EXCEPT !.firstQty = n, !.done = TRUE, !.firstDay = s.days]
  <2>1. p \in Plans
    <3>1. p \in hit
      BY <1>3
    <3>2. hit \subseteq Plans
      BY <1>1
    <3> HIDE DEF p, hit
    <3>3. QED BY <3>1, <3>2
  <2>2. p.part \in Nat /\ p.first \in Nat
    <3> HIDE DEF p
    <3>1. QED BY <2>1 DEF Plans
  <2>3. TakeFirst(s, high) = IF n = s.qty THEN sold
                             ELSE [sold EXCEPT !.state = "partial", !.armed = FALSE]
    BY <1>3 DEF TakeFirst
  <2> HIDE DEF p
  <2>4. n \in Nat /\ n <= s.qty
    BY <1>1, <2>2 DEF Lower
  <2> HIDE DEF n
  <2>5. Fewer(r, s)
    BY <2>2, <2>4, ReduceFits
  <2> HIDE DEF r
  <2>6. r \in Sims /\ r.qty <= s.qty
    BY <2>5 DEF Fewer
  <2>7. sold \in Sims /\ sold.qty = r.qty
    BY <1>1, <2>4, <2>6 DEF Sims
  <2> HIDE DEF sold
  <2>8. /\ [sold EXCEPT !.state = "partial", !.armed = FALSE] \in Sims
        /\ [sold EXCEPT !.state = "partial", !.armed = FALSE].qty = sold.qty
    BY <2>7 DEF Sims
  <2>9. TakeFirst(s, high) \in Sims /\ TakeFirst(s, high).qty = r.qty
    BY <2>3, <2>7, <2>8
  <2>10. QED BY <2>6, <2>9 DEF Fewer
<1>4. QED BY <1>2, <1>3

LEMMA TakeSecondFits == ASSUME NEW s \in Sims, NEW high PROVE Fewer(TakeSecond(s, high), s)
<1> DEFINE hit == {p \in s.tp : s.qty > 0 /\ high >= p.second}
           p == CHOOSE q \in hit : TRUE
<1>1. s.qty \in Nat /\ s.tp \subseteq Plans
  BY DEF Sims
<1>2. CASE hit = {}
  <2>1. TakeSecond(s, high) = s
    BY <1>2 DEF TakeSecond
  <2>2. QED BY <1>1, <2>1 DEF Fewer
<1>3. CASE hit # {}
  <2>1. p \in hit /\ hit \subseteq Plans
    BY <1>1, <1>3
  <2>2. TakeSecond(s, high) = Reduce(s, s.qty, p.second)
    BY <1>3 DEF TakeSecond
  <2> HIDE DEF p, hit
  <2>3. p.second \in Nat
    BY <2>1 DEF Plans
  <2>4. s.qty <= s.qty
    BY <1>1
  <2>5. QED BY <1>1, <2>2, <2>3, <2>4, ReduceFits
<1>4. QED BY <1>2, <1>3

LEMMA BlankFits == ASSUME NEW cash \in Nat PROVE Blank(cash) \in Sims /\ Blank(cash).qty = 0
<1>1. <<0, 1>> \in Averages
  BY DEF Averages
<1>2. QED BY <1>1 DEF Blank, Sims

LEMMA ClosedFits == ASSUME NEW s \in Sims PROVE Fewer(Closed(s), s)
<1>1. s.cash \in Nat /\ s.qty \in Nat
  BY DEF Sims
<1>2. Blank(s.cash) \in Sims /\ Blank(s.cash).qty = 0
  BY <1>1, BlankFits
<1>3. Closed(s) = s \/ Closed(s) = Blank(s.cash)
  BY DEF Closed
<1>4. QED BY <1>1, <1>2, <1>3 DEF Fewer

LEMMA FewerChain ==
  ASSUME NEW s \in Sims, NEW t, NEW u, Fewer(t, s), t \in Sims => Fewer(u, t)
  PROVE  Fewer(u, s)
<1>1. s.qty \in Nat
  BY DEF Sims
<1>2. t \in Sims /\ t.qty <= s.qty /\ u \in Sims /\ u.qty <= t.qty
  BY DEF Fewer
<1>3. t.qty \in Nat /\ u.qty \in Nat
  BY <1>2 DEF Sims
<1>4. QED BY <1>1, <1>2, <1>3 DEF Fewer

LEMMA ExitFits == ASSUME NEW s \in Sims, NEW high PROVE Fewer(ExitRemainder(s, high), s)
<1> DEFINE price == Ceiling(s.avg[1] * (100 + ExitGain), s.avg[2] * 10000)
           r == Reduce(s, s.qty, price)
<1>1. s.qty \in Nat /\ s.avg[1] \in Nat /\ s.avg[2] \in Nat \ {0}
  BY DEF Sims, Averages
<1>2. price \in Nat
  <2> DEFINE x == s.avg[1] * (100 + ExitGain)
             y == s.avg[2] * 10000
  <2>1. x \in Nat /\ y \in Nat \ {0}
    <3>1. 100 + ExitGain \in Nat
      BY ParametersWhole
    <3>2. QED BY <1>1, <3>1, WholeTimes
  <2> HIDE DEF x, y
  <2>2. Ceiling(x, y) \in Nat
    BY <2>1, CeilingNat
  <2>3. QED BY <2>2 DEF x, y
<1>3. ExitRemainder(s, high) \in {s, Closed(r)}
  BY DEF ExitRemainder
<1> HIDE DEF price
<1>4. Fewer(r, s)
  <2>1. s.qty <= s.qty
    BY <1>1
  <2>2. QED BY <1>1, <1>2, <2>1, ReduceFits
<1> HIDE DEF r
<1>5. Fewer(Closed(r), s)
  <2>1. r \in Sims => Fewer(Closed(r), r)
    BY ClosedFits
  <2>2. QED BY <1>4, <2>1, FewerChain
<1>6. Fewer(s, s)
  BY <1>1 DEF Fewer
<1>7. QED BY <1>3, <1>5, <1>6

(* The take profits of a high only ever reduce the position.                *)
LEMMA TakeProfitsFit == ASSUME NEW s \in Sims, NEW high PROVE Fewer(TakeProfits(s, high), s)
<1> DEFINE a == TakeFirst(s, high)
           b == TakeSecond(a, high)
           c == Closed(b)
           d == ExitRemainder(c, high)
<1>1. Fewer(a, s)
  BY TakeFirstFits
<1>2. a \in Sims => Fewer(b, a)
  BY TakeSecondFits
<1>3. b \in Sims => Fewer(c, b)
  BY ClosedFits
<1>4. c \in Sims => Fewer(d, c)
  BY ExitFits
<1>5. TakeProfits(s, high) = d
  BY DEF TakeProfits
<1> HIDE DEF a, b, c, d
<1>6. Fewer(b, s)
  BY <1>1, <1>2, FewerChain
<1>7. Fewer(c, s)
  BY <1>3, <1>6, FewerChain
<1>8. Fewer(d, s)
  BY <1>4, <1>7, FewerChain
<1>9. QED BY <1>5, <1>8

-----------------------------------------------------------------------------
(* Overlay: the invariant.  Between the open and the close the trades of    *)
(* the session stand between the replay's position and the engine's.        *)

OverlayTyped ==
  /\ sim \in Sims
  /\ pend \subseteq Decisions /\ \A d, e \in pend : d = e
  /\ session \in Nat /\ bought \in Nat /\ shed \in Nat /\ endQty \in Nat
  /\ part \in {"open", "high", "close"} /\ lit \in BOOLEAN

TradesInv ==
  /\ endQty + bought - shed = sim.qty
  /\ part # "close" => shed = 0
  /\ part = "open" => bought = 0
  /\ part = "open" /\ sim.qty > 0 => lit

OverlayInv == OverlayTyped /\ TradesInv

LEMMA OverlayInitInv == OverlayInit => OverlayInv
<1> SUFFICES ASSUME OverlayInit PROVE OverlayInv
  OBVIOUS
<1>1. Capital * 10000 \in Nat
  BY ParametersWhole
<1>2. sim \in Sims /\ sim.qty = 0
  BY <1>1, BlankFits DEF OverlayInit
<1>3. OverlayTyped
  <2>1. pend \subseteq Decisions /\ \A d, e \in pend : d = e
    BY DEF OverlayInit
  <2>2. session \in Nat /\ bought \in Nat /\ shed \in Nat /\ endQty \in Nat
    BY DEF OverlayInit
  <2>3. part \in {"open", "high", "close"} /\ lit \in BOOLEAN
    BY Zenon DEF OverlayInit
  <2>4. QED BY <1>2, <2>1, <2>2, <2>3 DEF OverlayTyped
<1>4. TradesInv
  BY <1>2 DEF OverlayInit, TradesInv
<1>5. QED BY <1>3, <1>4 DEF OverlayInv

LEMMA OpeningInv == OverlayInv /\ Opening => OverlayInv'
<1> SUFFICES ASSUME OverlayInv, Opening PROVE OverlayInv'
  OBVIOUS
<1>1. /\ sim \in Sims /\ pend \subseteq Decisions /\ session \in Nat /\ endQty \in Nat
      /\ bought = 0 /\ shed = 0 /\ endQty = sim.qty /\ lit \in BOOLEAN
  BY DEF OverlayInv, OverlayTyped, TradesInv, Opening, Sims
<1>2. PICK open \in Prices :
         LET after == IF pend = {} THEN sim ELSE Executed(sim, CHOOSE d \in pend : TRUE, open)
         IN  /\ sim' = IF after.qty > 0 THEN [after EXCEPT !.days = @ + 1] ELSE after
             /\ bought' = after.qty - sim.qty
             /\ bar' = open
  BY DEF Opening
<1> DEFINE after == IF pend = {} THEN sim ELSE Executed(sim, CHOOSE d \in pend : TRUE, open)
<1>3. after \in Sims /\ after.qty >= sim.qty
  <2>1. CASE pend = {}
    BY <1>1, <2>1 DEF Sims
  <2>2. CASE pend # {}
    <3> DEFINE d == CHOOSE e \in pend : TRUE
    <3>1. d \in Decisions
      BY <1>1, <2>2
    <3>2. after = Executed(sim, d, open)
      BY <2>2
    <3> HIDE DEF d, after
    <3>3. QED BY <1>1, <3>1, <3>2, ExecutedFits
  <2>3. QED BY <2>1, <2>2
<1>4. /\ sim' = IF after.qty > 0 THEN [after EXCEPT !.days = @ + 1] ELSE after
      /\ bought' = after.qty - sim.qty
  BY <1>2
<1> HIDE DEF after
<1>5. sim' \in Sims /\ sim'.qty = after.qty
  <2>1. after.days + 1 \in Nat
    BY <1>3 DEF Sims
  <2>2. [after EXCEPT !.days = @ + 1] \in Sims /\ [after EXCEPT !.days = @ + 1].qty = after.qty
    BY <1>3, <2>1 DEF Sims
  <2>3. QED BY <1>3, <1>4, <2>2
<1>6. bought' \in Nat /\ after.qty \in Nat /\ sim.qty \in Nat
  BY <1>1, <1>3, <1>4 DEF Sims
<1>7. /\ pend' = {} /\ session' = session + 1 /\ part' = "high"
      /\ shed' = shed /\ endQty' = endQty /\ lit' = lit
  BY DEF Opening
<1>8. OverlayTyped'
  <2>1. session' \in Nat
    BY <1>1, <1>7
  <2>2. QED BY <1>1, <1>5, <1>6, <1>7, <2>1 DEF OverlayTyped
<1>9. TradesInv'
  <2>1. endQty' + bought' - shed' = sim'.qty
    BY <1>1, <1>4, <1>5, <1>6, <1>7
  <2>2. QED BY <1>1, <1>7, <2>1 DEF TradesInv
<1>10. QED BY <1>8, <1>9 DEF OverlayInv

LEMMA ClimbInv == OverlayInv /\ Climb => OverlayInv'
<1> SUFFICES ASSUME OverlayInv, Climb PROVE OverlayInv'
  OBVIOUS
<1>1. /\ sim \in Sims /\ pend \subseteq Decisions /\ session \in Nat /\ endQty \in Nat
      /\ bought \in Nat /\ shed = 0 /\ lit \in BOOLEAN /\ endQty + bought - shed = sim.qty
      /\ \A d, e \in pend : d = e
  BY DEF OverlayInv, OverlayTyped, TradesInv, Climb
<1>2. PICK high \in Prices : sim' = TakeProfits(sim, high) /\ shed' = sim.qty - sim'.qty
  BY DEF Climb
<1>3. sim' \in Sims /\ sim'.qty <= sim.qty
  BY <1>1, <1>2, TakeProfitsFit DEF Fewer
<1>4. sim.qty \in Nat /\ sim'.qty \in Nat
  BY <1>1, <1>3 DEF Sims
<1>5. /\ part' = "close" /\ pend' = pend /\ session' = session
      /\ bought' = bought /\ endQty' = endQty /\ lit' = lit
  BY DEF Climb
<1>6. shed' \in Nat
  BY <1>2, <1>3, <1>4
<1>7. OverlayTyped'
  BY <1>1, <1>3, <1>5, <1>6 DEF OverlayTyped
<1>8. TradesInv'
  <2>1. endQty' + bought' - shed' = sim'.qty
    BY <1>1, <1>2, <1>4, <1>5
  <2>2. QED BY <1>5, <2>1 DEF TradesInv
<1>9. QED BY <1>7, <1>8 DEF OverlayInv

LEMMA ClosingInv == OverlayInv /\ Closing => OverlayInv'
<1> SUFFICES ASSUME OverlayInv, Closing PROVE OverlayInv'
  OBVIOUS
<1>1. /\ sim \in Sims /\ session \in Nat /\ endQty \in Nat /\ bought \in Nat /\ shed \in Nat
      /\ endQty + bought - shed = sim.qty
  BY DEF OverlayInv, OverlayTyped, TradesInv
<1>2. sim' = sim \/ sim' = [sim EXCEPT !.armed = TRUE]
  BY DEF Closing
<1>3. sim' \in Sims /\ sim'.qty = sim.qty
  BY <1>1, <1>2 DEF Sims
<1>4. sim.qty \in Nat
  BY <1>1 DEF Sims
<1>5. pend' \subseteq Decisions /\ \A d, e \in pend' : d = e
  <2>1. PICK close \in Prices, score \in Scores, reoversold \in BOOLEAN :
          pend' \in {{}, Decided(sim', close, score, reoversold)}
    BY DEF Closing
  <2>2. /\ Decided(sim', close, score, reoversold) \subseteq Decisions
        /\ \A d, e \in Decided(sim', close, score, reoversold) : d = e
    BY <1>3, DecidedOnce
  <2>3. QED BY <2>1, <2>2
<1>6. /\ lit' = (endQty + bought > 0) /\ endQty' = Replayed(endQty, bought, shed)
      /\ bought' = 0 /\ shed' = 0 /\ part' = "open" /\ session' = session
  BY DEF Closing
<1>7. endQty' = sim.qty
  BY <1>1, <1>4, <1>6 DEF Replayed, Upper
<1>8. sim.qty > 0 => endQty + bought > 0
  BY <1>1, <1>4
<1>9. OverlayTyped'
  <2>1. lit' \in BOOLEAN
    BY <1>6
  <2>2. endQty' \in Nat /\ bought' \in Nat /\ shed' \in Nat
    BY <1>4, <1>6, <1>7
  <2>3. QED BY <1>1, <1>3, <1>5, <1>6, <2>1, <2>2 DEF OverlayTyped
<1>10. TradesInv'
  <2>1. endQty' + bought' - shed' = sim'.qty
    BY <1>3, <1>4, <1>6, <1>7
  <2>2. sim'.qty > 0 => lit'
    <3>1. ASSUME sim'.qty > 0 PROVE endQty + bought > 0
      BY <1>3, <1>8, <3>1
    <3>2. QED BY <1>6, <3>1
  <2>3. QED BY <1>6, <2>1, <2>2 DEF TradesInv
<1>11. QED BY <1>9, <1>10 DEF OverlayInv

(* In every reachable state of the strategy's replay the trades of the      *)
(* session account for the difference between replay and engine.            *)
THEOREM OverlayInvariant == OverlaySpec => []OverlayInv
<1>1. OverlayInv /\ [OverlayNext]_simVars => OverlayInv'
  <2> SUFFICES ASSUME OverlayInv, [OverlayNext]_simVars PROVE OverlayInv'
    OBVIOUS
  <2>1. CASE OverlayNext
    BY <2>1, OpeningInv, ClimbInv, ClosingInv DEF OverlayNext
  <2>2. CASE UNCHANGED simVars
    BY <2>2 DEF simVars, OverlayInv, OverlayTyped, TradesInv
  <2>3. QED BY <2>1, <2>2
<1>2. QED BY <1>1, OverlayInitInv, PTL DEF OverlaySpec

(* The variables of the virtual position keep their type: cash is never     *)
(* spent that is not there, no share sold that is not held, and a close     *)
(* decides at most one thing.                                               *)
THEOREM OverlayTypeCorrect == OverlaySpec => []OverlayTypeOK
<1>1. OverlayInv => OverlayTypeOK
  <2> SUFFICES ASSUME OverlayInv PROVE OverlayTypeOK
    OBVIOUS
  <2>1. OverlayTyped
    BY DEF OverlayInv
  <2>2. Cardinality(pend) <= 1
    <3>1. CASE pend = {}
      <4>1. Cardinality(pend) = 0
        BY <3>1, FS_EmptySet
      <4>2. QED BY <4>1
    <3>2. CASE pend # {}
      <4>1. PICK d \in pend : pend = {d}
        BY <2>1, <3>2 DEF OverlayTyped
      <4>2. Cardinality(pend) = 1
        BY <4>1, FS_Singleton
      <4>3. QED BY <4>2
    <3>3. QED BY <3>1, <3>2
  <2>3. sim \in Sims
    BY <2>1 DEF OverlayTyped
  <2>4. /\ sim.state \in {"empty", "held", "partial", "rebought"}
        /\ sim.qty \in Nat /\ sim.cap \in Nat /\ sim.staged \in Nat /\ sim.cash \in Nat
        /\ sim.stage \in Nat /\ sim.rebuys \in Nat /\ sim.firstQty \in Nat /\ sim.days \in Nat
    BY <2>3 DEF Sims
  <2>5. QED BY <2>1, <2>2, <2>4 DEF OverlayTyped, OverlayTypeOK
<1>2. QED BY <1>1, OverlayInvariant, PTL

(* ReplayAgrees: the replay of the trades ends every session with the       *)
(* engine's position, so its assertion (v322_allocation.py) never stops the *)
(* daily job, and its flag is on whenever something is held.                *)
THEOREM ReplayAgreesHolds == OverlaySpec => []ReplayAgrees
<1>1. OverlayInv => ReplayAgrees
  <2> SUFFICES ASSUME OverlayInv PROVE ReplayAgrees
    OBVIOUS
  <2>1. endQty + bought - shed = sim.qty /\ endQty \in Nat
    BY DEF OverlayInv, OverlayTyped, TradesInv
  <2>2. part = "open" => bought = 0 /\ shed = 0
    BY DEF OverlayInv, TradesInv
  <2>3. part = "open" => endQty = sim.qty
    BY <2>1, <2>2
  <2>4. part = "open" /\ sim.qty > 0 => lit
    BY DEF OverlayInv, TradesInv
  <2>5. QED BY <2>3, <2>4 DEF ReplayAgrees
<1>2. QED BY <1>1, OverlayInvariant, PTL

-----------------------------------------------------------------------------
(* Overlay: products and quotients.                                         *)

LEMMA TimesMonotone ==
  ASSUME NEW a \in Int, NEW b \in Int, NEW c \in Nat, a <= b PROVE a * c <= b * c
<1>1. b - a \in Nat
  OBVIOUS
<1>2. (b - a) * c \in Nat
  BY <1>1, WholeTimes
<1>3. b * c = a * c + (b - a) * c
  OBVIOUS
<1>4. a * c \in Int /\ b * c \in Int
  OBVIOUS
<1>5. QED BY <1>2, <1>3, <1>4

LEMMA TimesCancel ==
  ASSUME NEW a \in Int, NEW b \in Int, NEW c \in Nat \ {0}, a * c <= b * c PROVE a <= b
<1> SUFFICES ASSUME b + 1 <= a PROVE FALSE
  OBVIOUS
<1>1. (b + 1) * c <= a * c
  BY TimesMonotone
<1>2. (b + 1) * c = b * c + c /\ b * c \in Int /\ a * c \in Int
  OBVIOUS
<1>3. QED BY <1>1, <1>2

LEMMA Division ==
  ASSUME NEW x \in Nat, NEW d \in Nat \ {0}
  PROVE  /\ x \div d \in Nat /\ x % d \in 0..(d - 1) /\ (x \div d) * d \in Nat
         /\ x = (x \div d) * d + (x % d)
<1>1. x \div d \in Nat /\ x % d \in 0..(d - 1) /\ x = d * (x \div d) + (x % d)
  OBVIOUS
<1> DEFINE q == x \div d
<1>2. q * d = d * q /\ q * d \in Nat
  <2> HIDE DEF q
  <2>1. q \in Nat
    BY <1>1 DEF q
  <2>2. QED BY <2>1
<1>3. QED BY <1>1, <1>2

(* Two costs in the same ratio as their denominators are bounded alike.     *)
LEMMA RatioCarries ==
  ASSUME NEW x \in Nat, NEW p \in Nat \ {0}, NEW y \in Nat, NEW q \in Nat \ {0},
         y * p = x * q, NEW c \in Nat, NEW k \in Int
  PROVE  /\ c * x <= k * p => c * y <= k * q
         /\ k * p <= c * x => k * q <= c * y
<1>1. /\ c * x \in Int /\ c * y \in Int /\ k * p \in Int /\ k * q \in Int
      /\ y * p \in Int /\ x * q \in Int
  OBVIOUS
<1>2. (c * y) * p = (c * x) * q
  <2>1. (c * y) * p = c * (y * p) /\ (c * x) * q = c * (x * q)
    OBVIOUS
  <2>2. QED BY <2>1
<1>3. (k * p) * q = (k * q) * p
  OBVIOUS
<1>4. ASSUME c * x <= k * p PROVE c * y <= k * q
  <2>1. (c * x) * q <= (k * p) * q
    BY <1>1, <1>4, TimesMonotone
  <2>2. (c * y) * p <= (k * q) * p
    BY <1>2, <1>3, <2>1
  <2>3. QED BY <1>1, <2>2, TimesCancel
<1>5. ASSUME k * p <= c * x PROVE k * q <= c * y
  <2>1. (k * p) * q <= (c * x) * q
    BY <1>1, <1>5, TimesMonotone
  <2>2. (k * q) * p <= (c * y) * p
    BY <1>2, <1>3, <2>1
  <2>3. QED BY <1>1, <2>2, TimesCancel
<1>6. QED BY <1>4, <1>5

(* Rounding to a tick adds at most half of one ...                          *)
LEMMA HalfEvenNear ==
  ASSUME NEW n \in Nat
  PROVE  HalfEven(n, 10000) * 10000 <= n + 5000 /\ (n = 0 => HalfEven(n, 10000) = 0)
<1> DEFINE q == n \div 10000
           r == n % 10000
<1>1. q \in Nat /\ r \in 0..9999 /\ n = 10000 * q + r
  OBVIOUS
<1>2. HalfEven(n, 10000) =
        IF 2 * r > 10000 \/ (2 * r = 10000 /\ q % 2 = 1) THEN q + 1 ELSE q
  BY DEF HalfEven
<1> HIDE DEF q, r
<1>3. QED BY <1>1, <1>2

(* ... and never passes a whole number of ticks.                            *)
LEMMA HalfEvenBelow ==
  ASSUME NEW n \in Nat, NEW m \in Nat, n <= 100 * m PROVE HalfEven(n, 100) <= m
<1> DEFINE q == n \div 100
           r == n % 100
<1>1. q \in Nat /\ r \in 0..99 /\ n = 100 * q + r
  OBVIOUS
<1>2. HalfEven(n, 100) =
        IF 2 * r > 100 \/ (2 * r = 100 /\ q % 2 = 1) THEN q + 1 ELSE q
  BY DEF HalfEven
<1> HIDE DEF q, r
<1>3. QED BY <1>1, <1>2

(* A price rounded up is at least what it was computed from.                *)
LEMMA CeilingCovers ==
  ASSUME NEW n \in Nat, NEW d \in Nat \ {0} PROVE n <= Ceiling(n, d) * d
<1> DEFINE m == n + d - 1
           q == m \div d
           r == m % d
<1>1. m \in Nat
  OBVIOUS
<1>2. q \in Nat /\ r \in 0..(d - 1) /\ m = d * q + r
  <2> HIDE DEF m
  <2>1. QED BY <1>1
<1>3. Ceiling(n, d) = q
  BY DEF Ceiling
<1> HIDE DEF q, r
<1>4. d * q \in Nat /\ d * q = q * d
  BY <1>2
<1>5. n <= d * q
  BY <1>2, <1>4
<1>6. QED BY <1>3, <1>4, <1>5

(* A reduced average is the same fraction.                                  *)
LEMMA ReducedSame ==
  ASSUME NEW avg \in Averages, NEW qty \in Nat \ {0}
  PROVE  /\ Reduced(avg, qty) \in Averages
         /\ Reduced(avg, qty)[1] * avg[2] = avg[1] * Reduced(avg, qty)[2]
<1> DEFINE a == avg[1]
           b == avg[2]
           x == a * qty
<1>1. a \in Nat /\ b \in Nat \ {0}
  BY DEF Averages
<1>2. x \in Nat
  BY <1>1, WholeTimes
<1>3. CASE x % b = 0
  <2> DEFINE q == x \div b
  <2>1. q \in Nat /\ q * b = x
    <3> HIDE DEF a, b, x
    <3>1. q \in Nat /\ q * b \in Nat /\ x = q * b + (x % b)
      BY <1>1, <1>2, Division
    <3> HIDE DEF q
    <3>2. QED BY <1>2, <1>3, <3>1
  <2>3. Reduced(avg, qty) = <<q, qty>>
    BY <1>3 DEF Reduced
  <2>4. QED BY <2>1, <2>3 DEF Averages
<1>4. CASE x % b # 0
  <2>1. Reduced(avg, qty) = avg
    BY <1>4 DEF Reduced
  <2>2. QED BY <2>1
<1>5. QED BY <1>3, <1>4

-----------------------------------------------------------------------------
(* Overlay: the cap of a cycle and the budgets it allows.                   *)

(* What staged capital may pass the cap by, in ten-thousandths of a tick:   *)
(* half a tick when the stages use the whole cap, else nothing.             *)
Slack == IF RoomForRounding THEN 0 ELSE 5000

Bound(cap) == cap * 10000 + Slack

LEMMA CapsWhole == Caps \subseteq Nat \ {0} /\ Capital \in Caps
<1>1. Capital \in Nat \ {0} /\ Bands \subseteq Nat \X Nat
  BY OverlayAssumption
<1>2. ASSUME NEW b \in Bands PROVE (Capital * b[2]) \div 100 \in Nat
  <2>1. b[2] \in Nat
    BY <1>1
  <2>2. Capital * b[2] \in Nat
    BY <1>1, <2>1, WholeTimes
  <2>3. \A x \in Nat : x \div 100 \in Nat
    OBVIOUS
  <2>4. QED BY <2>2, <2>3
<1>3. QED BY <1>1, <1>2 DEF Caps

LEMMA BoundWhole == \A cap \in Nat : Bound(cap) \in Nat
BY DEF Bound, Slack

(* What a band gives is a cap, unless it gives nothing.                     *)
LEMMA ExposureIsCap == ASSUME NEW score PROVE Exposure(score) \in Caps \cup {0}
<1> DEFINE reached == {c \in Bands : score >= c[1]}
           earned == {b[2] : b \in reached}
           top == CHOOSE m \in earned : \A n \in earned : n <= m
<1>1. CASE earned = {}
  BY <1>1 DEF Exposure
<1>2. CASE earned # {}
  <2>1. earned \subseteq Nat /\ IsFiniteSet(reached)
    BY ParametersWhole, FS_Subset
  <2>2. IsFiniteSet(earned)
    BY <2>1, SecondsFinite
  <2>3. top \in earned
    <3> HIDE DEF earned
    <3>1. QED BY <1>2, <2>1, <2>2, GreatestOf
  <2>4. Exposure(score) = (Capital * top) \div 100
    BY <1>2 DEF Exposure
  <2> HIDE DEF top
  <2>5. PICK b \in Bands : top = b[2]
    BY <2>3
  <2>6. QED BY <2>4, <2>5 DEF Caps
<1>3. QED BY <1>1, <1>2

LEMMA NewCapIsCap == ASSUME NEW cap \in Caps, NEW score PROVE NewCap(cap, score) \in Caps
<1>1. cap \in Nat \ {0} /\ Capital \in Caps /\ Capital \in Nat \ {0}
  BY CapsWhole
<1>2. Exposure(score) \in Caps \cup {0} /\ Exposure(score) \in Nat
  BY ExposureIsCap, ExposureNat
<1>3. Upper(cap, Exposure(score)) \in Caps
  BY <1>1, <1>2 DEF Upper
<1>4. NewCap(cap, score) = Lower(Capital, Upper(cap, Exposure(score)))
  BY <1>1 DEF NewCap
<1>5. QED BY <1>1, <1>3, <1>4 DEF Lower

(* What a stage may have in all, in ticks, leaves room for the rounding.    *)
LEMMA StageBelowCap ==
  ASSUME NEW cap \in Caps, NEW stage \in DOMAIN Weights
  PROVE  /\ HalfEven(cap * Weights[stage], 100) \in Nat
         /\ HalfEven(cap * Weights[stage], 100) * 10000 + 5000 <= Bound(cap)
<1> DEFINE w == Weights[stage]
           x == cap * w
           whole == HalfEven(x, 100)
<1>1. cap \in Nat
  BY CapsWhole
<1>2. w \in Nat /\ w <= 100
  <2>1. Weights \in Seq(Nat) /\ \A i \in DOMAIN Weights : Weights[i] <= 100
    BY ParametersWhole
  <2>2. QED BY <2>1, LenProperties, ElementOfSeq
<1>3. x \in Nat /\ x <= 100 * cap
  <2> HIDE DEF w
  <2>1. w * cap <= 100 * cap
    BY <1>1, <1>2, TimesMonotone
  <2>2. w * cap = cap * w /\ cap * w \in Nat
    BY <1>1, <1>2, WholeTimes
  <2>3. QED BY <2>1, <2>2
<1>4. whole \in Nat /\ whole <= cap
  <2> HIDE DEF x
  <2>1. QED BY <1>1, <1>3, HalfEvenWhole, HalfEvenBelow
<1>5. RoomForRounding => whole < cap
  BY DEF RoomForRounding
<1> HIDE DEF whole
<1>6. whole * 10000 + 5000 <= Bound(cap)
  BY <1>1, <1>4, <1>5 DEF Bound, Slack
<1>7. QED BY <1>4, <1>6 DEF whole

(* The budget of a stage never takes the staged capital past the cap.       *)
LEMMA StageBudgetWithin ==
  ASSUME NEW cap \in Caps, NEW stage \in DOMAIN Weights, NEW staged \in Nat,
         StageBudget(cap, stage, staged) > 0
  PROVE  staged + StageBudget(cap, stage, staged) * 10000 <= Bound(cap)
<1> DEFINE whole == HalfEven(cap * Weights[stage], 100)
           left == Upper(0, whole * 10000 - staged)
<1>1. whole \in Nat /\ whole * 10000 + 5000 <= Bound(cap) /\ Bound(cap) \in Nat
  BY StageBelowCap, CapsWhole, BoundWhole
<1>2. StageBudget(cap, stage, staged) = HalfEven(left, 10000)
  BY DEF StageBudget
<1> HIDE DEF whole
<1>3. left \in Nat /\ (left = 0 \/ left = whole * 10000 - staged)
  BY <1>1 DEF Upper
<1> HIDE DEF left
<1>4. HalfEven(left, 10000) * 10000 <= left + 5000 /\ HalfEven(left, 10000) \in Nat
      /\ left # 0
  BY <1>2, <1>3, HalfEvenNear, HalfEvenWhole
<1>5. QED BY <1>1, <1>2, <1>3, <1>4

-----------------------------------------------------------------------------
(* Overlay: the ledger of a cycle.  Costs are compared as numerators over   *)
(* the denominator of the average price.                                    *)

(* The cost of so many at the average price.                                *)
Cost(s, n) == s.avg[1] * n

(* What is held cost no more than the cap; before the first sale, no more   *)
(* than was staged; after it, with what that sale sold, which is all a      *)
(* rebuy may buy back below the average price.                              *)
CostAt(s) ==
  /\ s.cap \in Caps
  /\ 100 * Cost(s, s.qty) <= Bound(s.cap) * s.avg[2]
  /\ s.state = "held" => 100 * Cost(s, s.qty) <= s.staged * s.avg[2]
  /\ s.state = "partial" => 100 * Cost(s, s.qty + s.firstQty) <= Bound(s.cap) * s.avg[2]

(* The take-profit prices lie above the average price by their gains.       *)
PlansAt(s) ==
  \A p \in s.tp : /\ Cost(s, 100 + First) <= p.first * (s.avg[2] * 10000)
                  /\ Cost(s, 100 + Second) <= p.second * (s.avg[2] * 10000)
                  /\ p.part >= 1

(* What a cycle has paid and not got back is at most the cost, with its     *)
(* fee, of what it holds; when nothing is left it has gained.               *)
GainAt(s) ==
  /\ (s.began - s.cash) * s.avg[2] <= (100 + Fee) * Cost(s, s.qty)
  /\ s.qty = 0 => s.began < s.cash

(* The ledger within a session: a cycle that sold all may not be closed yet.*)
Booked(s) ==
  /\ s.staged <= Bound(s.cap)
  /\ s.state = "empty" => s.qty = 0
  /\ s.state # "empty" =>
       s.avg[1] > 0 /\ CostAt(s) /\ PlansAt(s) /\ (GainsCoverFees => GainAt(s))

(* The ledger between the steps.                                            *)
Balanced(s) == Booked(s) /\ (s.qty = 0 => s.state = "empty")

(* What a decision waiting for the next open has been given.                *)
DecidedAt(s, d) ==
  /\ d.action = "first" => s.state = "empty" /\ d.cap \in Caps
                           /\ d.budget * 10000 <= Bound(d.cap)
  /\ d.action = "add" => s.state = "held" /\ d.cap \in Caps
                         /\ s.staged + d.budget * 10000 <= Bound(d.cap)
  /\ d.action = "rebuy" => s.state = "partial"

LEMMA CostWhole ==
  ASSUME NEW s \in Sims, NEW n \in Nat, NEW m \in Nat, n <= m
  PROVE  Cost(s, n) \in Nat /\ Cost(s, m) \in Nat /\ Cost(s, n) <= Cost(s, m)
         /\ Cost(s, m) = Cost(s, n) + Cost(s, m - n)
<1>1. s.avg[1] \in Nat /\ m - n \in Nat
  BY DEF Sims, Averages
<1> DEFINE a == s.avg[1]
           k == m - n
<1>2. m = n + k
  OBVIOUS
<1> HIDE DEF a, k
<1>3. a \in Nat /\ k \in Nat
  BY <1>1 DEF a, k
<1>4. a * n \in Nat /\ a * k \in Nat /\ a * (n + k) = a * n + a * k
  BY <1>3, WholeTimes
<1>5. QED BY <1>2, <1>4 DEF Cost, a, k

(* A sale at a gain that covers the fees brings back more than the cost,    *)
(* with its fee, of what is sold.                                           *)
Outweighs(g, h, f) == 100 * f < g * h
Reaches(price, a, b, g) == a * g <= price * (b * 10000)
Repaid(a, b, n, price, f, h) == f * (a * n) < (n * price * h * 100) * b

LEMMA SalePays ==
  ASSUME NEW a \in Nat \ {0}, NEW b \in Nat \ {0}, NEW n \in Nat \ {0}, NEW price \in Nat,
         NEW g \in Nat, NEW f \in Nat, NEW h \in Nat,
         Outweighs(g, h, f), Reaches(price, a, b, g)
  PROVE  Repaid(a, b, n, price, f, h)
<1> DEFINE x == a * n
           u == (n * price * h * 100) * b
           nh == n * h
<1>1. x \in Nat \ {0} /\ nh \in Nat /\ u \in Nat
  BY WholeTimes
<1>2. (a * g) * nh <= (price * (b * 10000)) * nh
  <2>1. a * g \in Int /\ price * (b * 10000) \in Int
    OBVIOUS
  <2>2. a * g <= price * (b * 10000)
    BY DEF Reaches
  <2> HIDE DEF nh
  <2>3. QED BY <1>1, <2>1, <2>2, TimesMonotone
<1>3. (price * (b * 10000)) * nh = 100 * u
  OBVIOUS
<1>4. (a * g) * nh = (g * h) * x
  OBVIOUS
<1>5. (100 * f + 1) * x <= (g * h) * x
  <2>1. 100 * f + 1 \in Int /\ g * h \in Int /\ 100 * f + 1 <= g * h
    BY DEF Outweighs
  <2> HIDE DEF x
  <2>2. QED BY <1>1, <2>1, TimesMonotone
<1>6. (100 * f + 1) * x = 100 * (f * x) + x
  <2> HIDE DEF x
  <2>1. QED BY <1>1
<1>7. f * x \in Nat
  <2> HIDE DEF x
  <2>1. QED BY <1>1, WholeTimes
<1>8. 100 * (f * x) + x <= 100 * u
  <2>1. (g * h) * x <= 100 * u
    BY <1>2, <1>3, <1>4
  <2>2. 100 * (f * x) + x <= (g * h) * x
    BY <1>5, <1>6
  <2> DEFINE m == (g * h) * x
  <2>3. m \in Int
    BY <1>1
  <2> HIDE DEF m, x, u
  <2>4. QED BY <1>1, <1>7, <2>1, <2>2, <2>3 DEF m
<1> HIDE DEF x, u
<1>9. f * x < u
  BY <1>1, <1>7, <1>8
<1>10. QED BY <1>9 DEF x, u, Repaid

LEMMA GainRepays ==
  ASSUME NEW s \in Sims, s.avg[1] > 0, NEW n \in Nat \ {0}, NEW price \in Nat,
         NEW gain \in {First, Second, ExitGain}, GainsCoverFees,
         Cost(s, 100 + gain) <= price * (s.avg[2] * 10000)
  PROVE  Repaid(s.avg[1], s.avg[2], n, price, 100 + Fee, 100 - Fee)
<1> DEFINE a == s.avg[1]
           b == s.avg[2]
           f == 100 + Fee
           h == 100 - Fee
           g == 100 + gain
<1>1. a \in Nat \ {0} /\ b \in Nat \ {0}
  BY DEF Sims, Averages
<1>2. f \in Nat /\ h \in Nat
  BY ParametersWhole
<1>3. g \in Nat
  <2>1. gain \in Nat
    BY ParametersWhole
  <2>2. QED BY <2>1
<1>4. Outweighs(g, h, f)
  BY DEF GainsCoverFees, Outweighs
<1>5. Reaches(price, a, b, g)
  BY DEF Cost, Reaches
<1> HIDE DEF a, b, f, g, h
<1>6. Repaid(a, b, n, price, f, h)
  BY <1>1, <1>2, <1>3, <1>4, <1>5, SalePays
<1>7. QED BY <1>6 DEF a, b, f, h

(* What a sale leaves of the position, whatever else it marks.              *)
SaleOf(t, s, n, price) ==
  /\ t \in Sims
  /\ t.avg = s.avg /\ t.cap = s.cap /\ t.staged = s.staged /\ t.tp = s.tp
  /\ t.began = s.began
  /\ t.qty = s.qty - n
  /\ t.cash = s.cash + n * price * (100 - Fee) * 100
  /\ \/ t.state = s.state /\ t.firstQty = s.firstQty
     \/ t.state \in {s.state, "partial"} /\ t.firstQty = n

(* Every sale above the average price by a gain keeps the ledger.           *)
LEMMA SaleBooked ==
  ASSUME NEW s \in Sims, Booked(s), NEW n \in Nat \ {0}, n <= s.qty, NEW price \in Nat,
         NEW gain \in {First, Second, ExitGain},
         Cost(s, 100 + gain) <= price * (s.avg[2] * 10000),
         NEW t, SaleOf(t, s, n, price)
  PROVE  Booked(t) /\ t.state # "empty" /\ s.state # "empty"
<1>1. /\ s.qty \in Nat \ {0} /\ t.qty \in Nat /\ t.qty = s.qty - n /\ s.firstQty \in Nat
      /\ s.cash \in Nat /\ s.began \in Nat /\ s.cap \in Nat /\ s.staged \in Nat
      /\ s.avg[1] \in Nat /\ s.avg[2] \in Nat \ {0}
  BY DEF Sims, Averages, SaleOf
<1>2. /\ s.state # "empty" /\ t.state # "empty"
      /\ s.avg[1] > 0 /\ CostAt(s) /\ PlansAt(s) /\ (GainsCoverFees => GainAt(s))
  BY <1>1 DEF Booked, SaleOf
<1>3. t.avg = s.avg /\ t.cap = s.cap /\ t.staged = s.staged /\ t.tp = s.tp /\ t.began = s.began
  BY DEF SaleOf
<1>4. \A k : Cost(t, k) = Cost(s, k)
  BY <1>3 DEF Cost
<1>5. t.staged <= Bound(t.cap)
  BY <1>3 DEF Booked
<1>6. PlansAt(t)
  BY <1>2, <1>3, <1>4 DEF PlansAt
<1>7. /\ Cost(s, t.qty) \in Nat /\ Cost(s, n) \in Nat /\ Cost(s, s.qty) \in Nat
      /\ Cost(s, t.qty) <= Cost(s, s.qty) /\ Cost(s, s.qty) = Cost(s, t.qty) + Cost(s, n)
  <2>1. t.qty <= s.qty /\ s.qty - t.qty = n
    BY <1>1
  <2>2. QED BY <1>1, <2>1, CostWhole
<1>8. /\ Bound(s.cap) * s.avg[2] \in Nat /\ s.staged * s.avg[2] \in Nat
  BY <1>1, BoundWhole, WholeTimes
<1>9. CostAt(t)
  <2> DEFINE c == Cost(s, s.qty)
             e == Cost(s, t.qty)
             k == Bound(s.cap) * s.avg[2]
             m == s.staged * s.avg[2]
  <2>1. s.cap \in Caps /\ 100 * c <= k /\ (s.state = "held" => 100 * c <= m)
    BY <1>2 DEF CostAt
  <2>2. e \in Nat /\ c \in Nat /\ e <= c /\ k \in Nat /\ m \in Nat
    BY <1>7, <1>8
  <2> HIDE DEF c, e, k, m
  <2>3. 100 * e <= 100 * c
    BY <2>2
  <2>4. 100 * e <= k
    BY <2>1, <2>2, <2>3
  <2>5. s.state = "held" => 100 * e <= m
    BY <2>1, <2>2, <2>3
  <2>6. t.state = "held" => s.state = "held"
    BY DEF SaleOf
  <2>7. t.state = "partial" => 100 * Cost(s, t.qty + t.firstQty) <= k
    <3>1. CASE t.firstQty = n
      <4>1. t.qty + t.firstQty = s.qty
        BY <1>1, <3>1
      <4>2. QED BY <2>1, <4>1 DEF c
    <3>2. CASE t.state = s.state /\ t.firstQty = s.firstQty
      <4> SUFFICES ASSUME t.state = "partial"
                   PROVE  100 * Cost(s, t.qty + t.firstQty) <= k
        OBVIOUS
      <4>1. 100 * Cost(s, s.qty + s.firstQty) <= k
        BY <1>2, <3>2 DEF CostAt, k
      <4>2. t.qty + t.firstQty \in Nat /\ s.qty + s.firstQty \in Nat
            /\ t.qty + t.firstQty <= s.qty + s.firstQty
        BY <1>1, <3>2
      <4>3. /\ Cost(s, t.qty + t.firstQty) \in Nat /\ Cost(s, s.qty + s.firstQty) \in Nat
            /\ Cost(s, t.qty + t.firstQty) <= Cost(s, s.qty + s.firstQty)
        BY <4>2, CostWhole
      <4>4. QED BY <2>2, <4>1, <4>3
    <3>3. QED BY <3>1, <3>2 DEF SaleOf
  <2>8. QED BY <1>3, <1>4, <2>1, <2>4, <2>5, <2>6, <2>7 DEF CostAt, e, k, m
<1>10. ASSUME GainsCoverFees PROVE GainAt(t)
  <2> DEFINE f == 100 + Fee
             h == 100 - Fee
             b == s.avg[2]
             u == (n * price * h * 100) * b
             owed == (s.began - s.cash) * b
             c == Cost(s, s.qty)
             e == Cost(s, t.qty)
             x == Cost(s, n)
  <2>1. f \in Nat /\ h \in Nat /\ 100 + gain \in Nat /\ 100 * f < (100 + gain) * h
    <3>1. f \in Nat /\ h \in Nat
      BY ParametersWhole
    <3>2. gain \in Nat
      BY ParametersWhole
    <3>3. 100 * (100 + Fee) < (100 + gain) * (100 - Fee)
      BY <1>10 DEF GainsCoverFees
    <3>4. 100 + gain \in Nat
      BY <3>2
    <3>5. QED BY <3>1, <3>3, <3>4
  <2>2. f * x < u
    <3>1. Repaid(s.avg[1], b, n, price, f, h)
      BY <1>2, <1>10, GainRepays
    <3>2. QED BY <3>1 DEF Cost, Repaid
  <2>3. owed <= f * c
    BY <1>2, <1>10 DEF GainAt
  <2>4. t.began - t.cash = (s.began - s.cash) - n * price * h * 100
    <3>1. n * price * h * 100 \in Int
      BY <2>1
    <3>2. t.began = s.began /\ t.cash = s.cash + n * price * h * 100
      BY DEF SaleOf
    <3> DEFINE g == n * price * h * 100
    <3> HIDE DEF g
    <3>3. QED BY <1>1, <3>1, <3>2 DEF g
  <2>5. (t.began - t.cash) * b = owed - u /\ u \in Int /\ owed \in Int
    <3> DEFINE g == n * price * h * 100
               o == s.began - s.cash
    <3>1. g \in Int /\ o \in Int /\ b \in Int
      BY <1>1, <2>1
    <3>2. t.began - t.cash = o - g
      BY <2>4
    <3> HIDE DEF g, o, b
    <3>3. (o - g) * b = o * b - g * b /\ o * b \in Int /\ g * b \in Int
      BY <3>1
    <3>4. QED BY <3>2, <3>3 DEF g, o
  <2>6. f * c = f * e + f * x /\ f * e \in Nat /\ f * x \in Nat
    <3>1. c = e + x /\ c \in Nat /\ e \in Nat /\ x \in Nat
      BY <1>7
    <3> HIDE DEF c, e, x, f
    <3>2. QED BY <2>1, <3>1, WholeTimes
  <2>7. (t.began - t.cash) * b < f * e
    <3> HIDE DEF u, owed, c, e, x, b
    <3>1. QED BY <2>2, <2>3, <2>5, <2>6
  <2>8. ASSUME t.qty = 0 PROVE t.began < t.cash
    <3>1. f * e = 0
      BY <1>1, <2>1, <2>8 DEF Cost
    <3>2. t.began - t.cash \in Int /\ b \in Nat \ {0} /\ t.began \in Int /\ t.cash \in Int
      BY <1>1 DEF SaleOf, Sims
    <3> DEFINE o == t.began - t.cash
    <3>3. o * b < 0 /\ o \in Int
      BY <2>7, <3>1, <3>2
    <3> HIDE DEF o, b
    <3>4. ~(0 <= o)
      <4> SUFFICES ASSUME 0 <= o PROVE FALSE
        OBVIOUS
      <4>1. o * b \in Nat
        BY <3>2, <3>3, WholeTimes
      <4>2. QED BY <3>3, <4>1
    <3>5. QED BY <3>2, <3>3, <3>4 DEF o
  <2>9. (t.began - t.cash) * t.avg[2] <= (100 + Fee) * Cost(t, t.qty)
    <3> DEFINE v == (t.began - t.cash) * b
               w == f * e
    <3>1. v \in Int /\ w \in Int /\ v < w
      BY <2>5, <2>6, <2>7
    <3>2. v <= w
      <4> HIDE DEF v, w
      <4>1. QED BY <3>1
    <3>3. QED BY <1>3, <1>4, <3>2
  <2>10. QED BY <2>8, <2>9 DEF GainAt
<1>11. t.avg[1] > 0
  BY <1>2, <1>3
<1>12. QED BY <1>2, <1>5, <1>6, <1>9, <1>10, <1>11 DEF Booked

(* Reduce is such a sale.                                                   *)
LEMMA ReduceIsSale ==
  ASSUME NEW s \in Sims, NEW n \in Nat, n <= s.qty, NEW price \in Nat
  PROVE  SaleOf(Reduce(s, n, price), s, n, price)
<1> DEFINE r == Reduce(s, n, price)
           left == s.qty - n
           cash == s.cash + n * price * (100 - Fee) * 100
<1>1. r \in Sims
  BY ReduceFits DEF Fewer
<1>2. r = [s EXCEPT !.qty = left, !.cash = cash]
  BY DEF Reduce
<1> HIDE DEF left, cash
<1>3. /\ r.avg = s.avg /\ r.cap = s.cap /\ r.staged = s.staged /\ r.tp = s.tp
      /\ r.began = s.began /\ r.qty = left /\ r.cash = cash
      /\ r.state = s.state /\ r.firstQty = s.firstQty
  BY <1>2 DEF Sims
<1> HIDE DEF r
<1>4. SaleOf(r, s, n, price)
  BY <1>1, <1>3 DEF SaleOf, left, cash
<1>5. QED BY <1>4 DEF r

(* The first sale keeps the ledger and the cycle.                           *)
Onward(t, s) ==
  t \in Sims /\ Booked(t) /\ t.began = s.began /\ (t.state = "empty" <=> s.state = "empty")

LEMMA TakeFirstBooked ==
  ASSUME NEW s \in Sims, Booked(s), NEW high PROVE Onward(TakeFirst(s, high), s)
<1> DEFINE hit == {p \in s.tp : ~s.done /\ s.qty > 0 /\ high >= p.first}
<1>1. s.qty \in Nat /\ s.days \in Nat /\ s.tp \subseteq Plans
  BY DEF Sims
<1>2. CASE hit = {}
  <2>1. TakeFirst(s, high) = s
    BY <1>2 DEF TakeFirst
  <2>2. QED BY <2>1 DEF Onward
<1>3. CASE hit # {}
  <2> DEFINE p == CHOOSE q \in hit : TRUE
             n == Lower(p.part, s.qty)
             r == Reduce(s, n, p.first)
             sold == [r EXCEPT !.firstQty = n, !.done = TRUE, !.firstDay = s.days]
             t == TakeFirst(s, high)
  <2>1. p \in s.tp /\ p \in Plans /\ s.qty > 0
    <3>1. p \in hit
      BY <1>3
    <3> HIDE DEF p
    <3>2. QED BY <1>1, <3>1
  <2>2. t = IF n = s.qty THEN sold ELSE [sold EXCEPT !.state = "partial", !.armed = FALSE]
    BY <1>3 DEF TakeFirst
  <2> HIDE DEF p
  <2>3. s.state # "empty" /\ PlansAt(s)
    BY <1>1, <2>1 DEF Booked
  <2>4. /\ p.part \in Nat /\ p.first \in Nat /\ p.part >= 1
        /\ Cost(s, 100 + First) <= p.first * (s.avg[2] * 10000)
    BY <2>1, <2>3 DEF Plans, PlansAt
  <2>5. n \in Nat \ {0} /\ n <= s.qty
    BY <1>1, <2>1, <2>4 DEF Lower
  <2> HIDE DEF n, t
  <2>6. t \in Sims
    BY TakeFirstFits DEF Fewer, t
  <2>7. SaleOf(r, s, n, p.first)
    BY <2>4, <2>5, ReduceIsSale
  <2> HIDE DEF r
  <2>8. /\ t.avg = r.avg /\ t.cap = r.cap /\ t.staged = r.staged /\ t.tp = r.tp
        /\ t.began = r.began /\ t.qty = r.qty /\ t.cash = r.cash
        /\ t.firstQty = n /\ t.state \in {r.state, "partial"}
    <3>1. r \in Sims
      BY <2>7 DEF SaleOf
    <3>2. QED BY <2>2, <3>1 DEF Sims
  <2>9. SaleOf(t, s, n, p.first)
    BY <2>6, <2>7, <2>8 DEF SaleOf
  <2>10. Booked(t) /\ t.state # "empty"
    BY <2>4, <2>5, <2>9, SaleBooked
  <2>11. t.began = s.began
    BY <2>9 DEF SaleOf
  <2>12. QED BY <2>3, <2>6, <2>10, <2>11 DEF Onward, t
<1>4. QED BY <1>2, <1>3

LEMMA TakeSecondBooked ==
  ASSUME NEW s \in Sims, Booked(s), NEW high PROVE Onward(TakeSecond(s, high), s)
<1> DEFINE hit == {p \in s.tp : s.qty > 0 /\ high >= p.second}
           p == CHOOSE q \in hit : TRUE
           t == TakeSecond(s, high)
<1>1. s.qty \in Nat /\ s.tp \subseteq Plans
  BY DEF Sims
<1>2. CASE hit = {}
  <2>1. t = s
    BY <1>2 DEF TakeSecond
  <2>2. QED BY <2>1 DEF Onward
<1>3. CASE hit # {}
  <2>1. p \in s.tp /\ p \in Plans /\ s.qty > 0
    <3>1. p \in hit
      BY <1>3
    <3> HIDE DEF p
    <3>2. QED BY <1>1, <3>1
  <2>2. t = Reduce(s, s.qty, p.second)
    BY <1>3 DEF TakeSecond
  <2> HIDE DEF p, t
  <2>3. s.state # "empty" /\ PlansAt(s)
    BY <1>1, <2>1 DEF Booked
  <2>4. p.second \in Nat /\ Cost(s, 100 + Second) <= p.second * (s.avg[2] * 10000)
    BY <2>1, <2>3 DEF Plans, PlansAt
  <2>5. s.qty \in Nat \ {0} /\ s.qty <= s.qty
    BY <1>1, <2>1
  <2>6. SaleOf(t, s, s.qty, p.second)
    BY <2>2, <2>4, <2>5, ReduceIsSale
  <2>7. Booked(t) /\ t.state # "empty"
    BY <2>4, <2>5, <2>6, SaleBooked
  <2>8. t.began = s.began /\ t \in Sims
    BY <2>6 DEF SaleOf
  <2>9. QED BY <2>3, <2>7, <2>8 DEF Onward, t
<1>4. QED BY <1>2, <1>3

(* A cycle is closed when it has sold all, and then it has gained.          *)
Outcome(t, s) ==
  /\ t \in Sims /\ Balanced(t)
  /\ t.state # "empty" => s.state # "empty" /\ t.began = s.began
  /\ GainsCoverFees /\ s.state # "empty" /\ t.state = "empty" => s.began < t.cash

LEMMA BlankBalanced == ASSUME NEW cash \in Nat PROVE Balanced(Blank(cash))
<1>1. Blank(cash).state = "empty" /\ Blank(cash).qty = 0 /\ Blank(cash).staged = 0
      /\ Blank(cash).cap = 0
  BY DEF Blank
<1>2. 0 <= Bound(0)
  BY BoundWhole
<1>3. QED BY <1>1, <1>2 DEF Balanced, Booked

LEMMA ClosedEnds == ASSUME NEW s \in Sims, Booked(s) PROVE Outcome(Closed(s), s)
<1>1. s.cash \in Nat /\ s.qty \in Nat
  BY DEF Sims
<1>2. CASE s.state # "empty" /\ s.qty = 0
  <2>1. Closed(s) = Blank(s.cash)
    BY <1>2 DEF Closed
  <2>2. Blank(s.cash) \in Sims /\ Balanced(Blank(s.cash))
    BY <1>1, BlankFits, BlankBalanced
  <2>3. Blank(s.cash).state = "empty" /\ Blank(s.cash).cash = s.cash
    BY DEF Blank
  <2>4. GainsCoverFees => s.began < s.cash
    BY <1>2 DEF Booked, GainAt
  <2>5. QED BY <2>1, <2>2, <2>3, <2>4 DEF Outcome
<1>3. CASE ~(s.state # "empty" /\ s.qty = 0)
  <2>1. Closed(s) = s
    BY <1>3 DEF Closed
  <2>2. Balanced(s)
    BY <1>3 DEF Balanced
  <2>3. QED BY <2>1, <2>2 DEF Outcome
<1>4. QED BY <1>2, <1>3

LEMMA ExitEnds == ASSUME NEW s \in Sims, Balanced(s), NEW high
                  PROVE  Outcome(ExitRemainder(s, high), s)
<1> DEFINE price == Ceiling(s.avg[1] * (100 + ExitGain), s.avg[2] * 10000)
           r == Reduce(s, s.qty, price)
           t == ExitRemainder(s, high)
<1>1. s.qty \in Nat /\ s.avg[1] \in Nat /\ s.avg[2] \in Nat \ {0}
  BY DEF Sims, Averages
<1>2. price \in Nat /\ Cost(s, 100 + ExitGain) <= price * (s.avg[2] * 10000)
  <2> DEFINE x == s.avg[1] * (100 + ExitGain)
             y == s.avg[2] * 10000
  <2>1. x \in Nat /\ y \in Nat \ {0}
    <3>1. 100 + ExitGain \in Nat
      BY ParametersWhole
    <3>2. QED BY <1>1, <3>1, WholeTimes
  <2> HIDE DEF x, y
  <2>2. Ceiling(x, y) \in Nat /\ x <= Ceiling(x, y) * y
    BY <2>1, CeilingNat, CeilingCovers
  <2>3. QED BY <2>2 DEF x, y, Cost
<1>3. t = s \/ (t = Closed(r) /\ s.state = "partial")
  BY DEF ExitRemainder
<1> HIDE DEF price, t
<1>4. CASE t = s
  BY <1>4 DEF Outcome, t
<1>5. CASE t = Closed(r) /\ s.state = "partial"
  <2>1. s.qty \in Nat \ {0} /\ s.qty <= s.qty /\ Booked(s)
    BY <1>1, <1>5 DEF Balanced
  <2>2. SaleOf(r, s, s.qty, price)
    BY <1>2, <2>1, ReduceIsSale
  <2> HIDE DEF r
  <2>3. Booked(r) /\ r.state # "empty"
    BY <1>2, <2>1, <2>2, SaleBooked
  <2>4. r \in Sims /\ r.began = s.began
    BY <2>2 DEF SaleOf
  <2>5. Outcome(Closed(r), r)
    BY <2>3, <2>4, ClosedEnds
  <2>6. QED BY <1>5, <2>3, <2>4, <2>5 DEF Outcome, t
<1>6. QED BY <1>3, <1>4, <1>5

LEMMA TakeProfitsEnd ==
  ASSUME NEW s \in Sims, Balanced(s), NEW high PROVE Outcome(TakeProfits(s, high), s)
<1> DEFINE a == TakeFirst(s, high)
           b == TakeSecond(a, high)
           c == Closed(b)
           d == ExitRemainder(c, high)
<1>1. Onward(a, s)
  BY TakeFirstBooked DEF Balanced
<1>2. Onward(b, a)
  BY <1>1, TakeSecondBooked DEF Onward
<1>3. Outcome(c, b)
  BY <1>2, ClosedEnds DEF Onward
<1>4. Outcome(d, c)
  BY <1>3, ExitEnds DEF Outcome
<1>5. TakeProfits(s, high) = d
  BY DEF TakeProfits
<1> HIDE DEF a, b, c, d
<1>6. b.began = s.began /\ (b.state = "empty" <=> s.state = "empty")
  BY <1>1, <1>2 DEF Onward
<1>7. d \in Sims /\ Balanced(d) /\ c \in Sims
  BY <1>3, <1>4 DEF Outcome
<1>8. d.state # "empty" => s.state # "empty" /\ d.began = s.began
  BY <1>3, <1>4, <1>6 DEF Outcome
<1>9. ASSUME GainsCoverFees, s.state # "empty", d.state = "empty" PROVE s.began < d.cash
  <2>1. CASE c.state # "empty"
    BY <1>3, <1>4, <1>6, <1>9, <2>1 DEF Outcome
  <2>2. CASE c.state = "empty"
    <3>1. s.began < c.cash
      BY <1>3, <1>6, <1>9, <2>2 DEF Outcome
    <3>2. d = c
      BY <2>2 DEF d, ExitRemainder
    <3>3. QED BY <3>1, <3>2
  <2>3. QED BY <2>1, <2>2
<1>10. QED BY <1>5, <1>7, <1>8, <1>9 DEF Outcome

(* The take profits of a fill lie above its average price.                  *)
LEMMA TakeProfitCovers ==
  ASSUME NEW avg \in Averages, NEW qty \in Nat
  PROVE  /\ avg[1] * (100 + First) <= TakeProfit(avg, qty).first * (avg[2] * 10000)
         /\ avg[1] * (100 + Second) <= TakeProfit(avg, qty).second * (avg[2] * 10000)
         /\ TakeProfit(avg, qty).part >= 1
<1>1. avg[1] \in Nat /\ avg[2] \in Nat \ {0}
  BY DEF Averages
<1>2. First \in Nat /\ Second \in Nat /\ FirstPart \in Nat
  BY ParametersWhole
<1> DEFINE x == avg[1] * (100 + First)
           y == avg[1] * (100 + Second)
           z == avg[2] * 10000
           w == Lower(qty, Ceiling(qty * FirstPart, 100))
<1>3. x \in Nat /\ y \in Nat /\ z \in Nat \ {0}
  BY <1>1, <1>2
<1>4. w \in Nat
  <2> DEFINE v == qty * FirstPart
  <2>1. v \in Nat
    BY <1>2, WholeTimes
  <2> HIDE DEF v
  <2>2. Ceiling(v, 100) \in Nat
    BY <2>1, CeilingNat
  <2>3. Lower(qty, Ceiling(v, 100)) \in Nat
    BY <2>2 DEF Lower
  <2>4. QED BY <2>3 DEF v
<1>5. TakeProfit(avg, qty) = [first |-> Ceiling(x, z), second |-> Ceiling(y, z),
                              part |-> Upper(1, w)]
  BY DEF TakeProfit
<1> HIDE DEF x, y, z, w
<1>6. x <= Ceiling(x, z) * z /\ y <= Ceiling(y, z) * z
  BY <1>3, CeilingCovers
<1>7. Upper(1, w) >= 1
  BY <1>4 DEF Upper
<1>8. QED BY <1>5, <1>6, <1>7 DEF x, y, z

(* The average price after a purchase carries its cost over.                *)
Carries(r, s, n, fill) ==
  /\ r \in Averages /\ r[1] > 0
  /\ Cost(s, s.qty) \in Nat /\ n * fill * s.avg[2] \in Nat \ {0}
  /\ (r[1] * (s.qty + n)) * s.avg[2] = (Cost(s, s.qty) + n * fill * s.avg[2]) * r[2]

LEMMA AverageCarries ==
  ASSUME NEW s \in Sims, NEW n \in Nat \ {0}, NEW fill \in Nat \ {0}
  PROVE  Carries(Reduced(Averaged(s, n, fill), s.qty + n), s, n, fill)
<1> DEFINE r == Reduced(Averaged(s, n, fill), s.qty + n)
<1>0. r = Reduced(Averaged(s, n, fill), s.qty + n)
  OBVIOUS
<1> HIDE DEF r
<1> DEFINE a == s.avg[1]
           b == s.avg[2]
           q == s.qty + n
           new == n * fill * b
           x == a * s.qty + new
<1>1. s.qty \in Nat /\ a \in Nat /\ b \in Nat \ {0}
  BY DEF Sims, Averages
<1>2. q \in Nat \ {0}
  BY <1>1
<1>3. a * s.qty \in Nat /\ new \in Nat \ {0}
  <2> HIDE DEF a, b
  <2>1. n * fill \in Nat \ {0}
    BY WholeTimes
  <2>2. QED BY <1>1, <2>1, WholeTimes
<1>4. x \in Nat \ {0}
  BY <1>3
<1>5. b * q \in Nat \ {0}
  <2> HIDE DEF q, b
  <2>1. QED BY <1>1, <1>2, WholeTimes
<1>6. Averaged(s, n, fill) = <<x, b * q>>
  BY DEF Averaged
<1>7. <<x, b * q>> \in Averages
  BY <1>4, <1>5 DEF Averages
<1>8. r \in Averages /\ r[1] * (b * q) = x * r[2]
  <2> DEFINE v == <<x, b * q>>
  <2>1. v[1] = x /\ v[2] = b * q
    OBVIOUS
  <2>2. r = Reduced(v, q)
    BY <1>0, <1>6
  <2>3. v \in Averages
    BY <1>7
  <2> HIDE DEF v, q
  <2>4. r \in Averages /\ r[1] * v[2] = v[1] * r[2]
    BY <1>2, <2>2, <2>3, ReducedSame
  <2>5. QED BY <2>1, <2>4
<1>9. r[1] \in Nat /\ r[2] \in Nat \ {0}
  BY <1>8 DEF Averages
<1> HIDE DEF x, b, q, new, a
<1>10. (r[1] * q) * b = x * r[2]
  <2>1. (r[1] * q) * b = r[1] * (b * q)
    BY <1>1, <1>2, <1>9
  <2>2. QED BY <1>8, <2>1
<1>11. r[1] # 0
  <2> SUFFICES ASSUME r[1] = 0 PROVE FALSE
    OBVIOUS
  <2>1. r[1] * (b * q) = 0
    BY <1>5
  <2>2. x * r[2] # 0
    BY <1>4, <1>9, WholeTimes
  <2>3. QED BY <1>8, <2>1, <2>2
<1>12. r[1] > 0
  BY <1>9, <1>11
<1>13. Carries(r, s, n, fill)
  BY <1>3, <1>8, <1>10, <1>12 DEF x, a, b, q, new, Carries, Cost
<1>14. QED BY <1>13 DEF r

(* What a purchase makes of the position, action by action.                 *)
LEMMA FilledIs ==
  ASSUME NEW s \in Sims, NEW d \in Decisions, NEW n \in Nat \ {0}, NEW fill \in Nat \ {0},
         n * fill * (100 + Fee) <= s.cash, NEW t, t = Filled(s, d, n, fill)
  PROVE  LET gross == n * fill * (100 + Fee)
             avg == Reduced(Averaged(s, n, fill), s.qty + n)
         IN  /\ t \in Sims /\ t.qty = s.qty + n /\ t.avg = avg /\ t.cash = s.cash - gross
             /\ t.tp = {TakeProfit(avg, s.qty + n)}
             /\ d.action = "first" =>
                  t.state = "held" /\ t.cap = d.cap /\ t.staged = gross /\ t.began = s.cash
             /\ d.action = "add" =>
                  t.state = "held" /\ t.cap = d.cap /\ t.staged = s.staged + gross
                  /\ t.began = s.began
             /\ d.action = "rebuy" =>
                  t.state = "rebought" /\ t.cap = s.cap /\ t.staged = s.staged
                  /\ t.began = s.began
<1> DEFINE gross == n * fill * (100 + Fee)
           avg == Reduced(Averaged(s, n, fill), s.qty + n)
           plan == TakeProfit(avg, s.qty + n)
           held == [s EXCEPT !.qty = @ + n, !.avg = avg, !.cash = @ - gross,
                             !.tp = {plan}, !.done = FALSE]
<1>1. t \in Sims
  BY FilledFits
<1>2. t = CASE d.action = "first" ->
                  [held EXCEPT !.state = "held", !.stage = 1, !.anchor = fill,
                               !.cap = d.cap, !.staged = gross, !.began = s.cash,
                               !.days = 0, !.firstQty = 0, !.rebuys = 0, !.armed = FALSE]
             [] d.action = "add" ->
                  [held EXCEPT !.state = "held", !.stage = d.stage, !.cap = d.cap,
                               !.staged = @ + gross]
             [] d.action = "rebuy" ->
                  [held EXCEPT !.state = "rebought", !.rebuys = @ + 1, !.armed = FALSE]
  BY DEF Filled
<1> HIDE DEF gross, avg, plan
<1>3. /\ held.qty = s.qty + n /\ held.avg = avg /\ held.cash = s.cash - gross
      /\ held.tp = {plan} /\ held.cap = s.cap /\ held.staged = s.staged
      /\ held.began = s.began
      /\ DOMAIN held = DOMAIN s
  BY DEF Sims
<1>4. DOMAIN s = {"state", "qty", "avg", "cap", "staged", "cash", "stage", "anchor", "rebuys",
                  "armed", "firstQty", "tp", "done", "days", "firstDay", "began"}
  BY DEF Sims
<1>5. d.action \in {"first", "add", "rebuy"}
  BY DEF Decisions
<1> HIDE DEF held
<1>6. CASE d.action = "first"
  <2>1. t = [held EXCEPT !.state = "held", !.stage = 1, !.anchor = fill,
                         !.cap = d.cap, !.staged = gross, !.began = s.cash,
                         !.days = 0, !.firstQty = 0, !.rebuys = 0, !.armed = FALSE]
    BY <1>2, <1>6
  <2>2. /\ t.qty = held.qty /\ t.avg = held.avg /\ t.cash = held.cash /\ t.tp = held.tp
        /\ t.state = "held" /\ t.cap = d.cap /\ t.staged = gross /\ t.began = s.cash
    BY <1>3, <1>4, <2>1
  <2>3. QED BY <1>1, <1>3, <1>6, <2>2 DEF gross, avg, plan
<1>7. CASE d.action = "add"
  <2>1. t = [held EXCEPT !.state = "held", !.stage = d.stage, !.cap = d.cap,
                         !.staged = @ + gross]
    BY <1>2, <1>7
  <2>2. /\ t.qty = held.qty /\ t.avg = held.avg /\ t.cash = held.cash /\ t.tp = held.tp
        /\ t.state = "held" /\ t.cap = d.cap /\ t.staged = held.staged + gross
        /\ t.began = held.began
    BY <1>3, <1>4, <2>1
  <2>3. QED BY <1>1, <1>3, <1>7, <2>2 DEF gross, avg, plan
<1>8. CASE d.action = "rebuy"
  <2>1. t = [held EXCEPT !.state = "rebought", !.rebuys = @ + 1, !.armed = FALSE]
    BY <1>2, <1>8
  <2>2. /\ t.qty = held.qty /\ t.avg = held.avg /\ t.cash = held.cash /\ t.tp = held.tp
        /\ t.state = "rebought" /\ t.cap = held.cap /\ t.staged = held.staged
        /\ t.began = held.began
    BY <1>3, <1>4, <2>1
  <2>3. QED BY <1>1, <1>3, <1>8, <2>2 DEF gross, avg, plan
<1>9. QED BY <1>5, <1>6, <1>7, <1>8

(* A purchase adds to what is owed what it adds to the cost.                *)
LEMMA OwedAdds ==
  ASSUME NEW o \in Int, NEW w \in Int, NEW g \in Nat, NEW p \in Nat, NEW f \in Nat,
         NEW old \in Nat, NEW new \in Nat,
         o * p <= f * old, w = o + g, g * p = f * new
  PROVE  w * p <= f * (old + new)
<1>1. w * p = o * p + g * p /\ o * p \in Int /\ g * p \in Int
  OBVIOUS
<1>2. f * (old + new) = f * old + f * new /\ f * old \in Int
  OBVIOUS
<1>3. QED BY <1>1, <1>2

(* The ledger of a purchased holding, its cost x over p: within the cap and  *)
(* the capital staged, and covering the cash spent.                         *)
Within(x, k, p) == 100 * x <= k * p
Owes(s, x, p) == (s.began - s.cash) * p <= (100 + Fee) * x
Pays(s, x, p) == GainsCoverFees => Owes(s, x, p)
Costs(g, w, p) == 100 * w <= g * p /\ g * p = (100 + Fee) * w

Accounted(t, x, p) ==
    /\ t.staged <= Bound(t.cap)
    /\ t.cap \in Caps
    /\ Within(x, Bound(t.cap), p)
    /\ t.state = "held" => Within(x, t.staged, p)
    /\ t.state # "partial"
    /\ Pays(t, x, p)

LEMMA AccountedBalanced ==
  ASSUME NEW t \in Sims, NEW x \in Nat, NEW p \in Nat \ {0}, Accounted(t, x, p),
         Cost(t, t.qty) * p = x * t.avg[2],
         t.qty > 0, t.state # "empty", t.avg[1] > 0, PlansAt(t)
  PROVE  Balanced(t)
<1> DEFINE y == Cost(t, t.qty)
           q == t.avg[2]
           f == 100 + Fee
           b == Bound(t.cap)
           g == t.staged
           u == t.began - t.cash
<1>1. y \in Nat /\ q \in Nat \ {0} /\ f \in Nat /\ y * p = x * q
  <2>1. t.avg[2] \in Nat \ {0} /\ t.qty \in Nat
    BY DEF Sims, Averages
  <2>2. Cost(t, t.qty) \in Nat
    BY <2>1, CostWhole
  <2>3. QED BY <2>1, <2>2, ParametersWhole
<1>2. b \in Int /\ g \in Int /\ u \in Int
  BY BoundWhole DEF Sims
<1>3. /\ g <= b
      /\ 100 * x <= b * p
      /\ t.state = "held" => 100 * x <= g * p
      /\ GainsCoverFees => u * p <= f * x
      /\ t.cap \in Caps /\ t.state # "partial"
  BY DEF Accounted, Within, Owes, Pays
<1> HIDE DEF y, q, f, b, g, u
<1>4. /\ 100 * x <= b * p => 100 * y <= b * q
      /\ 100 * x <= g * p => 100 * y <= g * q
      /\ u * p <= f * x => u * q <= f * y
  <2>1. 100 * x <= b * p => 100 * y <= b * q
    BY <1>1, <1>2, RatioCarries
  <2>2. 100 * x <= g * p => 100 * y <= g * q
    BY <1>1, <1>2, RatioCarries
  <2>3. u * p <= f * x => u * q <= f * y
    BY <1>1, <1>2, RatioCarries
  <2>4. QED BY <2>1, <2>2, <2>3
<1>5. 100 * y <= b * q
  BY <1>3, <1>4
<1>6. t.state = "held" => 100 * y <= g * q
  BY <1>3, <1>4, Zenon
<1>7. GainsCoverFees => u * q <= f * y
  BY <1>3, <1>4, Zenon
<1>8. CostAt(t)
  BY <1>3, <1>5, <1>6 DEF CostAt, y, q, b, g
<1>9. GainsCoverFees => GainAt(t)
  BY <1>7 DEF GainAt, u, q, f, y
<1>10. QED BY <1>3, <1>8, <1>9 DEF Balanced, Booked, b, g

(* What a purchase of so much cost adds to what is owed.                    *)
LEMMA OwesAfter ==
  ASSUME NEW s \in Sims, NEW t \in Sims, NEW o \in Nat, NEW w \in Nat, NEW g \in Nat,
         NEW p \in Nat \ {0}, NEW x, x = o + w, Costs(g, w, p),
         t.began = s.began, t.cash = s.cash - g, Owes(s, o, p)
  PROVE  Owes(t, x, p)
<1> DEFINE a == s.began - s.cash
           b == t.began - t.cash
           f == 100 + Fee
<1>1. a \in Int /\ b \in Int /\ f \in Nat /\ b = a + g
  <2>1. s.began \in Nat /\ s.cash \in Nat /\ t.began \in Nat /\ t.cash \in Nat
    BY DEF Sims
  <2>2. b = a + g
    BY <2>1
  <2>3. f \in Nat
    BY ParametersWhole
  <2>4. QED BY <2>1, <2>2, <2>3
<1>2. a * p <= f * o /\ g * p = f * w
  BY DEF Owes, Costs
<1> HIDE DEF a, b, f
<1>3. b * p <= f * (o + w)
  BY <1>1, <1>2, OwedAdds
<1>4. QED BY <1>3 DEF b, f, Owes

(* The three purchases: what each makes of the account.                     *)
OpensWith(s, t, g, c) ==
  /\ g <= Bound(c) /\ t.state = "held" /\ t.cap = c /\ t.staged = g
  /\ t.began = s.cash /\ t.cash = s.cash - g

AddsTo(s, t, g, c) ==
  /\ s.staged + g <= Bound(c) /\ t.state = "held" /\ t.cap = c
  /\ t.staged = s.staged + g /\ t.began = s.began /\ t.cash = s.cash - g

BuysBack(s, t, g) ==
  /\ s.cap \in Caps /\ s.staged <= Bound(s.cap)
  /\ t.state = "rebought" /\ t.cap = s.cap /\ t.staged = s.staged
  /\ t.began = s.began /\ t.cash = s.cash - g

LEMMA FirstAccounted ==
  ASSUME NEW s \in Sims, NEW t \in Sims, NEW w \in Nat, NEW g \in Nat,
         NEW p \in Nat \ {0}, Costs(g, w, p),
         NEW c \in Caps, OpensWith(s, t, g, c)
  PROVE  Accounted(t, w, p)
<1> USE DEF OpensWith
<1>1. c \in Nat /\ Bound(c) \in Nat
  BY CapsWhole, BoundWhole
<1>2. g * p <= Bound(c) * p /\ g * p \in Nat /\ Bound(c) * p \in Nat
  BY <1>1, TimesMonotone, WholeTimes
<1>3. 100 * w <= g * p /\ g * p = (100 + Fee) * w
  BY DEF Costs
<1>4. Within(w, Bound(c), p) /\ Within(w, g, p)
  BY <1>2, <1>3 DEF Within
<1>5. t.began - t.cash = g
  BY DEF Sims
<1>6. Owes(t, w, p)
  BY <1>2, <1>3, <1>5 DEF Owes
<1>7. QED BY <1>4, <1>6, Zenon DEF Accounted, Pays

LEMMA AddAccounted ==
  ASSUME NEW s \in Sims, NEW t \in Sims, NEW o \in Nat, NEW w \in Nat, NEW g \in Nat,
         NEW p \in Nat \ {0}, NEW x, x = o + w, Costs(g, w, p),
         Within(o, s.staged, p), Pays(s, o, p),
         NEW c \in Caps, AddsTo(s, t, g, c)
  PROVE  Accounted(t, x, p)
<1> USE DEF AddsTo
<1> DEFINE h == s.staged
           m == s.staged + g
<1>1. c \in Nat /\ Bound(c) \in Nat /\ h \in Nat /\ m \in Nat /\ m = h + g
  BY CapsWhole, BoundWhole DEF Sims
<1>2. /\ 100 * o <= h * p /\ 100 * w <= g * p
      /\ m <= Bound(c) /\ x \in Nat /\ x = o + w
  BY DEF Within, Costs
<1> HIDE DEF h, m
<1>3. m * p = h * p + g * p /\ h * p \in Nat /\ g * p \in Nat
  BY <1>1, WholeTimes
<1>4. 100 * x <= m * p
  BY <1>2, <1>3
<1>5. m * p <= Bound(c) * p /\ m * p \in Nat /\ Bound(c) * p \in Nat
  BY <1>1, <1>2, TimesMonotone, WholeTimes
<1>6. 100 * x <= Bound(c) * p
  BY <1>2, <1>4, <1>5
<1>7. /\ t.staged <= Bound(t.cap) /\ Within(x, Bound(t.cap), p)
      /\ Within(x, t.staged, p)
  BY <1>2, <1>4, <1>6 DEF m, Within
<1>8. Pays(t, x, p)
  BY OwesAfter DEF Pays
<1>9. t.cap \in Caps /\ t.state # "partial"
  OBVIOUS
<1>10. QED BY <1>7, <1>8, <1>9, Zenon DEF Accounted, Pays

LEMMA RebuyAccounted ==
  ASSUME NEW s \in Sims, NEW t \in Sims, NEW o \in Nat, NEW w \in Nat, NEW g \in Nat,
         NEW p \in Nat \ {0}, NEW x, x = o + w, Costs(g, w, p),
         Pays(s, o, p), Within(x, Bound(s.cap), p), BuysBack(s, t, g)
  PROVE  Accounted(t, x, p)
<1> USE DEF BuysBack
<1>1. /\ t.staged <= Bound(t.cap) /\ Within(x, Bound(t.cap), p)
      /\ t.cap \in Caps /\ t.state # "partial" /\ t.state # "held"
  OBVIOUS
<1>2. Pays(t, x, p)
  BY OwesAfter DEF Pays
<1>3. QED BY <1>1, <1>2, Zenon DEF Accounted, Pays

(* A rebuy of at most what the first sale sold, not above the average price, *)
(* costs at most what that sale's share cost.                               *)
LEMMA RebuyCost ==
  ASSUME NEW s \in Sims, NEW n \in Nat, NEW fill \in Nat,
         n <= s.firstQty, fill * s.avg[2] <= s.avg[1]
  PROVE  Cost(s, s.qty) + n * fill * s.avg[2] <= Cost(s, s.qty + s.firstQty)
<1> DEFINE e == fill * s.avg[2]
           a == s.avg[1]
           m == s.firstQty
           k == s.qty
<1>1. e \in Nat /\ a \in Nat /\ m \in Nat /\ k \in Nat /\ e <= a /\ n <= m
  BY WholeTimes DEF Sims, Averages
<1>2. n * fill * s.avg[2] = n * e
  BY DEF Sims, Averages
<1> HIDE DEF e, a, m, k
<1>3. n * e <= m * a /\ n * e \in Nat
  <2>1. e * n <= a * n /\ n * a <= m * a
    BY <1>1, TimesMonotone
  <2>2. e * n = n * e /\ a * n = n * a /\ n * e \in Nat /\ n * a \in Nat /\ m * a \in Nat
    BY <1>1, WholeTimes
  <2>3. QED BY <2>1, <2>2
<1>4. a * (k + m) = a * k + m * a /\ a * k \in Nat /\ m * a \in Nat
  BY <1>1, WholeTimes
<1>5. a * k + n * e <= a * (k + m)
  BY <1>3, <1>4
<1>6. QED BY <1>2, <1>5 DEF Cost, a, k, m

(* A purchase within its budget keeps the ledger; a rebuy buys back at most *)
(* what the first sale sold, and not above the average price.               *)
LEMMA FilledBalanced ==
  ASSUME NEW s \in Sims, Balanced(s), NEW d \in Decisions, DecidedAt(s, d),
         NEW n \in Nat \ {0}, NEW fill \in Nat \ {0},
         n * fill * (100 + Fee) <= s.cash, n * fill * (100 + Fee) <= d.budget * 10000,
         d.action = "rebuy" => n <= s.firstQty /\ fill * s.avg[2] <= s.avg[1]
  PROVE  Balanced(Filled(s, d, n, fill)) /\ Filled(s, d, n, fill).state # "empty"
<1> DEFINE t == Filled(s, d, n, fill)
           g == n * fill * (100 + Fee)
           r == Reduced(Averaged(s, n, fill), s.qty + n)
           p == s.avg[2]
           o == Cost(s, s.qty)
           w == n * fill * p
<1>1. /\ t \in Sims /\ t.qty = s.qty + n /\ t.avg = r /\ t.cash = s.cash - g
      /\ t.tp = {TakeProfit(r, s.qty + n)}
  BY FilledIs
<1>2. /\ d.action = "first" =>
           t.state = "held" /\ t.cap = d.cap /\ t.staged = g /\ t.began = s.cash
      /\ d.action = "add" =>
           t.state = "held" /\ t.cap = d.cap /\ t.staged = s.staged + g
           /\ t.began = s.began
      /\ d.action = "rebuy" =>
           t.state = "rebought" /\ t.cap = s.cap /\ t.staged = s.staged
           /\ t.began = s.began
  BY FilledIs
<1>3. d.action \in {"first", "add", "rebuy"} /\ d.budget \in Nat /\ d.cap \in Nat
  BY DEF Decisions
<1>4. /\ s.qty \in Nat /\ s.cash \in Nat /\ s.cap \in Nat /\ s.staged \in Nat
      /\ s.firstQty \in Nat /\ s.avg[1] \in Nat /\ p \in Nat \ {0}
  BY DEF Sims, Averages
<1>5. /\ r \in Averages /\ r[1] > 0 /\ o \in Nat /\ w \in Nat \ {0}
      /\ (r[1] * (s.qty + n)) * p = (o + w) * r[2]
  <2>1. Carries(Reduced(Averaged(s, n, fill), s.qty + n), s, n, fill)
    BY AverageCarries
  <2>2. QED BY <2>1 DEF Carries
<1>6. PlansAt(t)
  <2>1. s.qty + n \in Nat
    BY <1>4
  <2> HIDE DEF t, r
  <2>2. /\ r[1] * (100 + First) <= TakeProfit(r, s.qty + n).first * (r[2] * 10000)
        /\ r[1] * (100 + Second) <= TakeProfit(r, s.qty + n).second * (r[2] * 10000)
        /\ TakeProfit(r, s.qty + n).part >= 1
    BY <1>5, <2>1, TakeProfitCovers
  <2>3. QED BY <1>1, <2>2 DEF PlansAt, Cost
<1> HIDE DEF r, t
<1>7. Cost(t, t.qty) * p = (o + w) * t.avg[2]
  BY <1>1, <1>5 DEF Cost
<1>8. t.qty > 0 /\ t.state # "empty" /\ t.avg[1] > 0
  <2>1. t.qty > 0
    BY <1>1, <1>4
  <2>2. t.state # "empty"
    BY <1>2, <1>3
  <2>3. QED BY <1>1, <1>5, <2>1, <2>2
<1>9. g \in Nat /\ Costs(g, w, p)
  <2> DEFINE f == 100 + Fee
             h == n * fill
  <2>1. f \in Nat /\ 100 <= f /\ h \in Nat
    BY ParametersWhole, WholeTimes
  <2>2. g = h * f /\ w = h * p
    BY <1>4
  <2> HIDE DEF f, h, p, g
  <2>3. g \in Nat /\ g * p = f * w
    BY <1>4, <2>1, <2>2, WholeTimes
  <2> HIDE DEF w
  <2>4. 100 * w <= f * w
    BY <1>5, <2>1, TimesMonotone
  <2>5. QED BY <2>3, <2>4 DEF f, Costs
<1>10. s.state # "empty" =>
         CostAt(s) /\ s.staged <= Bound(s.cap) /\ Pays(s, o, p)
  BY DEF Balanced, Booked, GainAt, Owes, Pays
<1>11. g <= s.cash /\ g <= d.budget * 10000 /\ t.cash = s.cash - g
  BY <1>1
<1> DEFINE x == o + w
<1>12. x = o + w /\ x \in Nat /\ o \in Nat /\ w \in Nat
  BY <1>5
<1>13. Accounted(t, x, p)
  <2>1. CASE d.action = "first"
    <3>1. s.state = "empty" /\ d.cap \in Caps /\ d.budget * 10000 <= Bound(d.cap)
      BY <2>1 DEF DecidedAt
    <3>2. o = 0
      BY <1>4, <3>1 DEF Balanced, Booked, Cost
    <3>3. g <= Bound(d.cap)
      <4> HIDE DEF g
      <4>1. Bound(d.cap) \in Nat
        BY <1>3, BoundWhole
      <4>2. QED BY <1>3, <1>9, <1>11, <3>1, <4>1
    <3>4. OpensWith(s, t, g, d.cap)
      <4> HIDE DEF g
      <4>1. QED BY <1>2, <1>11, <2>1, <3>3 DEF OpensWith
    <3> HIDE DEF g, o, w, p
    <3>5. Accounted(t, w, p)
      BY <1>1, <1>4, <1>9, <1>12, <3>1, <3>4, FirstAccounted
    <3>6. x = w
      BY <1>12, <3>2
    <3>7. QED BY <3>5, <3>6
  <2>2. CASE d.action = "add"
    <3>1. /\ s.state = "held" /\ d.cap \in Caps
          /\ s.staged + d.budget * 10000 <= Bound(d.cap)
      BY <2>2 DEF DecidedAt
    <3>2. Within(o, s.staged, p)
      BY <1>10, <3>1 DEF CostAt, Within
    <3>3. s.staged + g <= Bound(d.cap)
      <4> HIDE DEF g
      <4>1. Bound(d.cap) \in Nat
        BY <1>3, BoundWhole
      <4>2. QED BY <1>3, <1>4, <1>9, <1>11, <3>1, <4>1
    <3>4. AddsTo(s, t, g, d.cap)
      <4> HIDE DEF g
      <4>1. QED BY <1>2, <1>11, <2>2, <3>3 DEF AddsTo
    <3>5. Pays(s, o, p)
      BY <1>10, <3>1
    <3> DEFINE c == d.cap
    <3>6. c \in Caps /\ AddsTo(s, t, g, c)
      BY <3>1, <3>4
    <3>7. s \in Sims /\ t \in Sims /\ p \in Nat \ {0}
      BY <1>1, <1>4
    <3> HIDE DEF g, o, w, p, x, c
    <3>8. g \in Nat /\ Costs(g, w, p) /\ x = o + w /\ o \in Nat /\ w \in Nat
      BY <1>9, <1>12
    <3>9. QED BY <3>2, <3>5, <3>6, <3>7, <3>8, AddAccounted
  <2>3. CASE d.action = "rebuy"
    <3>1. s.state = "partial"
      BY <2>3 DEF DecidedAt
    <3>2. /\ s.cap \in Caps /\ s.staged <= Bound(s.cap)
          /\ 100 * Cost(s, s.qty + s.firstQty) <= Bound(s.cap) * p
          /\ Pays(s, o, p)
      BY <1>10, <3>1 DEF CostAt
    <3>3. x <= Cost(s, s.qty + s.firstQty)
      BY <2>3, RebuyCost
    <3>4. Within(x, Bound(s.cap), p)
      <4> DEFINE c == Cost(s, s.qty + s.firstQty)
                 k == Bound(s.cap) * p
      <4>1. s.qty + s.firstQty \in Nat
        BY <1>4
      <4>2. c \in Nat
        BY <4>1, CostWhole
      <4>3. Bound(s.cap) \in Nat
        BY <1>4, BoundWhole
      <4> HIDE DEF x, p, c
      <4>4. k \in Nat
        BY <1>4, <4>3, WholeTimes
      <4>5. x <= c /\ 100 * c <= k
        BY <3>2, <3>3 DEF c
      <4> HIDE DEF k
      <4>6. 100 * x <= k
        BY <1>12, <4>2, <4>4, <4>5
      <4>7. QED BY <4>6 DEF k, Within
    <3>5. BuysBack(s, t, g)
      <4> HIDE DEF g
      <4>1. QED BY <1>2, <1>11, <2>3, <3>2 DEF BuysBack
    <3> HIDE DEF g, o, w, p, x
    <3>6. QED BY <1>1, <1>4, <1>9, <1>12, <3>2, <3>4, <3>5, RebuyAccounted
  <2>4. QED BY <1>3, <2>1, <2>2, <2>3
<1>14. Balanced(t)
  <2> HIDE DEF x, p
  <2>1. Cost(t, t.qty) * p = x * t.avg[2]
    BY <1>7 DEF x
  <2>2. QED BY <1>1, <1>4, <1>6, <1>8, <1>12, <1>13, <2>1, AccountedBalanced
<1>15. QED BY <1>8, <1>14 DEF t

LEMMA CeilingPriceWhole ==
  ASSUME NEW s \in Sims, NEW d \in Decisions, d.action = "rebuy"
  PROVE  CeilingPrice(s, d) \in Int
<1> DEFINE x == s.avg[1] * (100 - RebuyDrop)
           m == s.avg[2] * 100
<1>1. x \in Int /\ m \in Nat \ {0}
  <2>1. s.avg[1] \in Nat /\ s.avg[2] \in Nat \ {0} /\ 100 - RebuyDrop \in Int
    BY ParametersWhole DEF Sims, Averages
  <2>2. QED BY <2>1
<1>2. d.close * (100 + Chase) \in Nat
  <2>1. d.close \in Prices
    BY DEF Decisions
  <2>2. Prices \subseteq Nat
    BY ParametersWhole
  <2>3. Chase \in Nat
    BY ParametersWhole
  <2>4. d.close \in Nat
    BY <2>1, <2>2
  <2>5. 100 + Chase \in Nat
    BY <2>3
  <2>6. QED BY <2>4, <2>5, WholeTimes
<1>3. CeilingPrice(s, d) = Lower(d.close * (100 + Chase), x \div m)
  BY DEF CeilingPrice
<1> HIDE DEF x, m
<1>4. x \div m \in Int
  BY <1>1
<1>5. QED BY <1>2, <1>3, <1>4 DEF Lower

(* A rebuy fills below the average price, whatever the drop asked for.      *)
LEMMA RebuyFillsBelow ==
  ASSUME NEW s \in Sims, NEW d \in Decisions, d.action = "rebuy", NEW fill \in Nat \ {0},
         fill <= CeilingPrice(s, d)
  PROVE  fill * s.avg[2] <= s.avg[1]
<1> DEFINE a == s.avg[1]
           b == s.avg[2]
           k == 100 - RebuyDrop
           x == a * k
           m == b * 100
<1>1. a \in Nat /\ b \in Nat \ {0}
  BY DEF Sims, Averages
<1>2. k \in Int /\ k <= 100
  BY ParametersWhole
<1>3. d.close * (100 + Chase) \in Nat
  <2>1. d.close \in Prices
    BY DEF Decisions
  <2>2. Prices \subseteq Nat
    BY ParametersWhole
  <2>3. Chase \in Nat
    BY ParametersWhole
  <2>4. d.close \in Nat
    BY <2>1, <2>2
  <2>5. 100 + Chase \in Nat
    BY <2>3
  <2>6. QED BY <2>4, <2>5, WholeTimes
<1>4. CeilingPrice(s, d) = Lower(d.close * (100 + Chase), x \div m)
  BY DEF CeilingPrice
<1> HIDE DEF a, b, k
<1>5. x \in Int /\ m \in Nat \ {0} /\ x <= 100 * a
  <2>1. k * a <= 100 * a
    BY <1>1, <1>2, TimesMonotone
  <2>2. k * a = a * k /\ a * k \in Int
    BY <1>1, <1>2
  <2>3. QED BY <1>1, <2>1, <2>2
<1> HIDE DEF x, m
<1>6. x \div m \in Int /\ (x \div m) * m <= x
  BY <1>5
<1>7. fill <= x \div m
  BY <1>3, <1>4, <1>6 DEF Lower
<1> DEFINE q == x \div m
<1>8. q \in Int /\ q * m <= x /\ fill <= q
  BY <1>6, <1>7
<1> HIDE DEF q
<1>9. fill * m <= q * m /\ q * m \in Int /\ fill * m \in Int
  BY <1>5, <1>8, TimesMonotone
<1>10. fill * m = 100 * (fill * b) /\ fill * b \in Nat
  BY <1>1, WholeTimes DEF m
<1>11. 100 * (fill * b) <= 100 * a
  <2>1. fill * m <= x
    BY <1>5, <1>8, <1>9
  <2>2. fill * m <= 100 * a
    BY <1>1, <1>5, <1>9, <2>1
  <2>3. QED BY <1>10, <2>2
<1>12. fill * b <= a
  BY <1>1, <1>10, <1>11
<1>13. QED BY <1>12 DEF a, b

(* A decision executed at an open, or skipped, keeps the ledger and the     *)
(* cycle.                                                                   *)
LEMMA ExecutedBalanced ==
  ASSUME NEW s \in Sims, Balanced(s), NEW d \in Decisions, DecidedAt(s, d),
         NEW open \in Prices
  PROVE  /\ Balanced(Executed(s, d, open))
         /\ s.state # "empty" => Executed(s, d, open).state # "empty"
<1> DEFINE fill == open * (100 + FillSlip)
           n == Affordable(s, d, fill)
<1>1. fill \in Nat \ {0}
  <2>1. open \in Nat \ {0} /\ 100 + FillSlip \in Nat \ {0}
    BY ParametersWhole
  <2>2. QED BY <2>1, WholeTimes
<1>2. \/ Executed(s, d, open) = s
      \/ /\ Executed(s, d, open) = Filled(s, d, n, fill)
         /\ ~(n < 1) /\ ~(fill > CeilingPrice(s, d))
  BY DEF Executed
<1> HIDE DEF fill
<1>3. /\ n \in Nat
      /\ n * fill * (100 + Fee) <= s.cash
      /\ n * fill * (100 + Fee) <= d.budget * 10000
      /\ d.action = "rebuy" => n <= s.firstQty
  BY <1>1, AffordableFits
<1> HIDE DEF n
<1>4. CASE Executed(s, d, open) = s
  BY <1>4
<1>5. CASE /\ Executed(s, d, open) = Filled(s, d, n, fill)
           /\ ~(n < 1) /\ ~(fill > CeilingPrice(s, d))
  <2>1. n \in Nat \ {0}
    BY <1>3, <1>5
  <2>2. d.action = "rebuy" => n <= s.firstQty /\ fill * s.avg[2] <= s.avg[1]
    <3> SUFFICES ASSUME d.action = "rebuy"
                 PROVE  n <= s.firstQty /\ fill * s.avg[2] <= s.avg[1]
      OBVIOUS
    <3>1. fill <= CeilingPrice(s, d)
      <4>1. CeilingPrice(s, d) \in Int
        BY CeilingPriceWhole
      <4>2. QED BY <1>1, <1>5, <4>1
    <3>2. fill * s.avg[2] <= s.avg[1]
      BY <1>1, <3>1, RebuyFillsBelow
    <3>3. QED BY <1>3, <3>2
  <2>3. Balanced(Filled(s, d, n, fill)) /\ Filled(s, d, n, fill).state # "empty"
    BY <1>1, <1>3, <2>1, <2>2, FilledBalanced
  <2>4. QED BY <1>5, <2>3
<1>6. QED BY <1>2, <1>4, <1>5

(* What a close decides fits the position it was decided for.               *)
LEMMA DecidedFits ==
  ASSUME NEW s \in Sims, Balanced(s), NEW close \in Prices, NEW score,
         NEW reoversold \in BOOLEAN, NEW d \in Decided(s, close, score, reoversold)
  PROVE  DecidedAt(s, d)
<1>1. CASE d \in EntryDecision(s, close, score)
  <2> DEFINE cap == Exposure(score)
  <2>1. /\ d.action = "first" /\ d.cap = cap /\ d.budget = StageBudget(cap, 1, 0)
        /\ s.state = "empty" /\ cap > 0 /\ d.budget > 0
    BY <1>1 DEF EntryDecision
  <2>2. cap \in Caps
    <3>1. cap \in Caps \cup {0}
      BY ExposureIsCap
    <3> HIDE DEF cap
    <3>2. QED BY <2>1, <3>1
  <2>3. 1 \in DOMAIN Weights
    <3>1. Weights \in Seq(Nat) /\ Len(Weights) >= 1
      BY ParametersWhole
    <3>2. QED BY <3>1, LenProperties
  <2> HIDE DEF cap
  <2>4. 0 + StageBudget(cap, 1, 0) * 10000 <= Bound(cap)
    BY <2>1, <2>2, <2>3, StageBudgetWithin
  <2>5. StageBudget(cap, 1, 0) \in Nat
    BY <2>2, <2>3, CapsWhole, StageBudgetNat
  <2>6. d.budget * 10000 <= Bound(d.cap)
    BY <2>1, <2>4, <2>5
  <2>7. QED BY <2>1, <2>2, <2>6 DEF DecidedAt
<1>2. CASE d \in AddDecision(s, close, score)
  <2> DEFINE cap == NewCap(s.cap, score)
             stage == s.stage + 1
  <2>1. /\ d.action = "add" /\ d.cap = cap /\ d.budget = StageBudget(cap, stage, s.staged)
        /\ stage \in DOMAIN Weights /\ s.state = "held" /\ d.budget > 0
    BY <1>2 DEF AddDecision
  <2>2. cap \in Caps
    <3>1. s.cap \in Caps
      BY <2>1 DEF Balanced, Booked, CostAt
    <3>2. QED BY <3>1, NewCapIsCap
  <2>3. s.staged \in Nat
    BY DEF Sims
  <2> HIDE DEF cap, stage
  <2>4. s.staged + StageBudget(cap, stage, s.staged) * 10000 <= Bound(cap)
    BY <2>1, <2>2, <2>3, StageBudgetWithin
  <2>5. QED BY <2>1, <2>2, <2>4 DEF DecidedAt
<1>3. CASE d \in RebuyDecision(s, close, score, reoversold)
  <2>1. d.action = "rebuy" /\ s.state = "partial"
    BY <1>3 DEF RebuyDecision
  <2>2. QED BY <2>1 DEF DecidedAt
<1>4. QED BY <1>1, <1>2, <1>3 DEF Decided

-----------------------------------------------------------------------------
(* Overlay: the ledger in every reachable state.                            *)

LedgerInv ==
  /\ Balanced(sim)
  /\ part # "open" => pend = {}
  /\ \A d \in pend : DecidedAt(sim, d)

(* A field the ledger does not read may change.                             *)
LEMMA BalancedSame ==
  ASSUME NEW s, NEW t, Balanced(s),
         t.state = s.state, t.qty = s.qty, t.avg = s.avg, t.cap = s.cap,
         t.staged = s.staged, t.cash = s.cash, t.firstQty = s.firstQty,
         t.tp = s.tp, t.began = s.began
  PROVE  Balanced(t)
<1>1. CostAt(s) <=> CostAt(t)
  BY DEF CostAt, Cost
<1>2. PlansAt(s) <=> PlansAt(t)
  BY DEF PlansAt, Cost
<1>3. GainAt(s) <=> GainAt(t)
  BY DEF GainAt, Cost
<1>4. QED BY <1>1, <1>2, <1>3 DEF Balanced, Booked

LEMMA LedgerInitInv == OverlayInit => LedgerInv
<1> SUFFICES ASSUME OverlayInit PROVE LedgerInv
  OBVIOUS
<1>1. sim = Blank(Capital * 10000) /\ pend = {}
  BY DEF OverlayInit
<1>2. Capital * 10000 \in Nat
  BY ParametersWhole
<1>3. QED BY <1>1, <1>2, BlankBalanced DEF LedgerInv

LEMMA OpeningLedger ==
  OverlayInv /\ LedgerInv /\ Opening =>
    LedgerInv' /\ (sim.state # "empty" => sim'.state # "empty")
<1> SUFFICES ASSUME OverlayInv, LedgerInv, Opening
             PROVE  LedgerInv' /\ (sim.state # "empty" => sim'.state # "empty")
  OBVIOUS
<1>1. /\ sim \in Sims /\ pend \subseteq Decisions /\ Balanced(sim)
      /\ \A d \in pend : DecidedAt(sim, d)
  BY DEF OverlayInv, OverlayTyped, LedgerInv
<1>2. PICK open \in Prices :
         LET after == IF pend = {} THEN sim ELSE Executed(sim, CHOOSE d \in pend : TRUE, open)
         IN  /\ sim' = IF after.qty > 0 THEN [after EXCEPT !.days = @ + 1] ELSE after
             /\ bought' = after.qty - sim.qty
             /\ bar' = open
  BY DEF Opening
<1> DEFINE after == IF pend = {} THEN sim ELSE Executed(sim, CHOOSE d \in pend : TRUE, open)
<1>3. /\ after \in Sims /\ Balanced(after)
      /\ sim.state # "empty" => after.state # "empty"
  <2>1. CASE pend = {}
    BY <1>1, <2>1
  <2>2. CASE pend # {}
    <3> DEFINE d == CHOOSE e \in pend : TRUE
    <3>1. d \in Decisions /\ DecidedAt(sim, d)
      BY <1>1, <2>2
    <3>2. after = Executed(sim, d, open)
      BY <2>2
    <3> HIDE DEF d, after
    <3>3. QED BY <1>1, <3>1, <3>2, ExecutedFits, ExecutedBalanced
  <2>3. QED BY <2>1, <2>2
<1>4. sim' = IF after.qty > 0 THEN [after EXCEPT !.days = @ + 1] ELSE after
  BY <1>2
<1> HIDE DEF after
<1>5. Balanced(sim') /\ sim'.state = after.state
  <2> DEFINE t == [after EXCEPT !.days = @ + 1]
  <2>1. /\ t.state = after.state /\ t.qty = after.qty /\ t.avg = after.avg
        /\ t.cap = after.cap /\ t.staged = after.staged /\ t.cash = after.cash
        /\ t.firstQty = after.firstQty /\ t.tp = after.tp /\ t.began = after.began
    BY <1>3 DEF Sims
  <2> HIDE DEF t
  <2>2. Balanced(t)
    BY <1>3, <2>1, BalancedSame
  <2>3. sim' = t \/ sim' = after
    BY <1>4 DEF t
  <2>4. QED BY <1>3, <2>1, <2>2, <2>3
<1>6. pend' = {}
  BY DEF Opening
<1>7. LedgerInv'
  BY <1>5, <1>6 DEF LedgerInv
<1>8. QED BY <1>3, <1>5, <1>7

(* The take profits keep the ledger, and a cycle that ends has gained.      *)
LEMMA ClimbLedger ==
  OverlayInv /\ LedgerInv /\ Climb => LedgerInv' /\ Outcome(sim', sim)
<1> SUFFICES ASSUME OverlayInv, LedgerInv, Climb
             PROVE  LedgerInv' /\ Outcome(sim', sim)
  OBVIOUS
<1>1. sim \in Sims /\ Balanced(sim) /\ pend = {}
  BY DEF OverlayInv, OverlayTyped, LedgerInv, Climb
<1>2. PICK high \in Prices : sim' = TakeProfits(sim, high)
  BY DEF Climb
<1>3. Outcome(sim', sim)
  BY <1>1, <1>2, TakeProfitsEnd
<1>4. pend' = {}
  BY <1>1 DEF Climb
<1>5. LedgerInv'
  BY <1>3, <1>4 DEF LedgerInv, Outcome
<1>6. QED BY <1>3, <1>5

LEMMA ClosingLedger ==
  OverlayInv /\ LedgerInv /\ Closing => LedgerInv' /\ sim'.state = sim.state
<1> SUFFICES ASSUME OverlayInv, LedgerInv, Closing
             PROVE  LedgerInv' /\ sim'.state = sim.state
  OBVIOUS
<1>1. sim \in Sims /\ Balanced(sim)
  BY DEF OverlayInv, OverlayTyped, LedgerInv
<1>2. sim' = sim \/ sim' = [sim EXCEPT !.armed = TRUE]
  BY DEF Closing
<1>3. sim' \in Sims /\ Balanced(sim') /\ sim'.state = sim.state
  <2> DEFINE t == [sim EXCEPT !.armed = TRUE]
  <2>1. /\ t.state = sim.state /\ t.qty = sim.qty /\ t.avg = sim.avg
        /\ t.cap = sim.cap /\ t.staged = sim.staged /\ t.cash = sim.cash
        /\ t.firstQty = sim.firstQty /\ t.tp = sim.tp /\ t.began = sim.began
        /\ t \in Sims
    BY <1>1 DEF Sims
  <2> HIDE DEF t
  <2>2. Balanced(t)
    BY <1>1, <2>1, BalancedSame
  <2>3. sim' = t \/ sim' = sim
    BY <1>2 DEF t
  <2>4. QED BY <1>1, <2>1, <2>2, <2>3
<1>4. \A d \in pend' : DecidedAt(sim', d)
  <2>1. PICK close \in Prices, score \in Scores, reoversold \in BOOLEAN :
          pend' \in {{}, Decided(sim', close, score, reoversold)}
    BY DEF Closing
  <2>2. \A d \in Decided(sim', close, score, reoversold) : DecidedAt(sim', d)
    BY <1>3, DecidedFits
  <2>3. QED BY <2>1, <2>2
<1>5. part' = "open"
  BY DEF Closing
<1>6. LedgerInv'
  BY <1>3, <1>4, <1>5 DEF LedgerInv
<1>7. QED BY <1>3, <1>6

(* In every reachable state of the strategy's replay the ledger of the      *)
(* cycle balances, and a waiting decision fits the position.                *)
THEOREM LedgerInvariant == OverlaySpec => []LedgerInv
<1>1. OverlayInv /\ LedgerInv /\ [OverlayNext]_simVars => LedgerInv'
  <2> SUFFICES ASSUME OverlayInv, LedgerInv, [OverlayNext]_simVars PROVE LedgerInv'
    OBVIOUS
  <2>1. CASE OverlayNext
    BY <2>1, OpeningLedger, ClimbLedger, ClosingLedger DEF OverlayNext
  <2>2. CASE UNCHANGED simVars
    BY <2>2 DEF simVars, LedgerInv
  <2>3. QED BY <2>1, <2>2
<1>2. QED BY <1>1, LedgerInitInv, OverlayInvariant, PTL DEF OverlaySpec

(* The cap, but for half a tick: the rounding of one stage budget.          *)
CapNearlyHonoured ==
  /\ 100 * (sim.avg[1] * sim.qty) <= (sim.cap * 10000 + 5000) * sim.avg[2]
  /\ sim.staged <= sim.cap * 10000 + 5000
  /\ sim.cash >= 0
  /\ sim.qty > 0 <=> sim.state # "empty"

LEMMA LedgerCap ==
  ASSUME OverlayInv, LedgerInv
  PROVE  /\ 100 * (sim.avg[1] * sim.qty) <= Bound(sim.cap) * sim.avg[2]
         /\ sim.staged <= Bound(sim.cap)
         /\ sim.cash \in Nat /\ sim.cap \in Nat /\ sim.staged \in Nat
         /\ sim.avg[2] \in Nat \ {0} /\ sim.avg[1] * sim.qty \in Nat
         /\ sim.qty > 0 <=> sim.state # "empty"
<1>1. sim \in Sims /\ Balanced(sim)
  BY DEF OverlayInv, OverlayTyped, LedgerInv
<1>2. /\ sim.qty \in Nat /\ sim.cash \in Nat /\ sim.cap \in Nat /\ sim.staged \in Nat
      /\ sim.avg[1] \in Nat /\ sim.avg[2] \in Nat \ {0}
  BY <1>1 DEF Sims, Averages
<1>3. sim.qty = 0 <=> sim.state = "empty"
  BY <1>1 DEF Balanced, Booked
<1>4. sim.qty > 0 <=> sim.state # "empty"
  BY <1>2, <1>3
<1>5. sim.avg[1] * sim.qty \in Nat
  BY <1>2, WholeTimes
<1>6. 100 * (sim.avg[1] * sim.qty) <= Bound(sim.cap) * sim.avg[2]
  <2>1. CASE sim.state = "empty"
    <3>1. sim.avg[1] * sim.qty = 0
      BY <1>2, <1>3, <2>1
    <3>2. Bound(sim.cap) \in Nat
      BY <1>2, BoundWhole
    <3>3. Bound(sim.cap) * sim.avg[2] \in Nat
      BY <1>2, <3>2, WholeTimes
    <3>4. QED BY <3>1, <3>3
  <2>2. CASE sim.state # "empty"
    BY <1>1, <2>2 DEF Balanced, Booked, CostAt, Cost
  <2>3. QED BY <2>1, <2>2
<1>7. sim.staged <= Bound(sim.cap)
  BY <1>1 DEF Balanced, Booked
<1>8. QED BY <1>2, <1>4, <1>5, <1>6, <1>7

(* However the stages are weighted, the cost of what is held passes the cap *)
(* of its cycle by half a tick at most, since a budget is rounded to the    *)
(* nearest unit (core/strategy.py, calculate_stage_budget).                 *)
THEOREM CapNearlyHolds == OverlaySpec => []CapNearlyHonoured
<1>1. OverlayInv /\ LedgerInv => CapNearlyHonoured
  <2> SUFFICES ASSUME OverlayInv, LedgerInv PROVE CapNearlyHonoured
    OBVIOUS
  <2> DEFINE k == sim.cap * 10000 + 5000
             q == sim.avg[2]
             c == sim.avg[1] * sim.qty
  <2>1. /\ 100 * c <= Bound(sim.cap) * q /\ sim.staged <= Bound(sim.cap)
        /\ q \in Nat \ {0} /\ c \in Nat /\ sim.cap \in Nat /\ sim.staged \in Nat
        /\ sim.cash \in Nat
    BY LedgerCap
  <2>2. sim.qty > 0 <=> sim.state # "empty"
    BY LedgerCap
  <2>3. Bound(sim.cap) <= k /\ Bound(sim.cap) \in Nat /\ k \in Nat
    BY <2>1 DEF Bound, Slack
  <2> HIDE DEF k, q, c
  <2>4. Bound(sim.cap) * q <= k * q /\ Bound(sim.cap) * q \in Nat /\ k * q \in Nat
    BY <2>1, <2>3, TimesMonotone, WholeTimes
  <2>5. 100 * c <= k * q /\ sim.staged <= k
    BY <2>1, <2>3, <2>4
  <2>6. sim.cash >= 0
    BY <2>1
  <2>7. QED BY <2>2, <2>5, <2>6 DEF CapNearlyHonoured, k, q, c
<1>2. QED BY <1>1, OverlayInvariant, LedgerInvariant, PTL

(* CapHonoured: when the stages leave room for the rounding of a budget     *)
(* (core/strategy.py, calculate_stage_budget), the capital staged and the   *)
(* cost of what is held never pass the cap of the cycle.                    *)
THEOREM CapHonouredHolds ==
  ASSUME RoomForRounding
  PROVE  OverlaySpec => []CapHonoured
<1>1. OverlayInv /\ LedgerInv => CapHonoured
  <2> SUFFICES ASSUME OverlayInv, LedgerInv PROVE CapHonoured
    OBVIOUS
  <2> DEFINE q == sim.avg[2]
             c == sim.avg[1] * sim.qty
  <2>1. /\ 100 * c <= Bound(sim.cap) * q /\ sim.staged <= Bound(sim.cap)
        /\ q \in Nat \ {0} /\ c \in Nat /\ sim.cap \in Nat /\ sim.staged \in Nat
        /\ sim.cash \in Nat
    BY LedgerCap
  <2>2. sim.qty > 0 <=> sim.state # "empty"
    BY LedgerCap
  <2>3. Bound(sim.cap) = sim.cap * 10000
    BY <2>1 DEF Bound, Slack
  <2> HIDE DEF q, c
  <2>4. (sim.cap * 10000) * q = 100 * (sim.cap * 100 * q) /\ sim.cap * 100 * q \in Int
    BY <2>1
  <2>5. c <= sim.cap * 100 * q /\ sim.staged <= sim.cap * 10000
    BY <2>1, <2>3, <2>4
  <2>6. sim.cash >= 0
    BY <2>1
  <2>7. CostWithin(sim, sim.cap)
    BY <2>5 DEF CostWithin, q, c
  <2>8. QED BY <2>2, <2>5, <2>6, <2>7 DEF CapHonoured
<1>2. QED BY <1>1, OverlayInvariant, LedgerInvariant, PTL

(* CycleGains: there is no stop loss, so when the gain of every sale pays   *)
(* the fees of both trades a cycle never ends with less cash than it began. *)
THEOREM CycleGainsHolds ==
  ASSUME GainsCoverFees
  PROVE  OverlaySpec => CycleGains
<1>1. /\ OverlayInv /\ LedgerInv /\ [OverlayNext]_simVars
      => [sim.state # "empty" /\ sim'.state = "empty" => sim'.cash > sim.began]_simVars
  <2> SUFFICES ASSUME OverlayInv, LedgerInv, OverlayNext,
                      sim.state # "empty", sim'.state = "empty"
               PROVE  sim'.cash > sim.began
    OBVIOUS
  <2>1. Climb
    BY OpeningLedger, ClosingLedger DEF OverlayNext
  <2>2. Outcome(sim', sim)
    BY <2>1, ClimbLedger
  <2>3. sim' \in Sims /\ sim.began < sim'.cash
    BY <2>2 DEF Outcome
  <2>4. sim.began \in Nat /\ sim'.cash \in Nat
    BY <2>3 DEF Sims, OverlayInv, OverlayTyped
  <2>5. QED BY <2>3, <2>4
<1>2. QED BY <1>1, OverlayInvariant, LedgerInvariant, PTL DEF OverlaySpec, CycleGains

-----------------------------------------------------------------------------
(* Targets: weights and their exposure.                                     *)

Weighing == [Assets -> Nat]

LEMMA AssetsAre ==
  /\ "QQQ" \in Assets /\ "TQQQ" \in Assets /\ "SOXL" \in Assets
  /\ \A a \in Assets : a = "QQQ" \/ a = "TQQQ" \/ a = "SOXL"
BY DEF Assets

(* The weights of a leverage are a portfolio of exactly that exposure.      *)
LEMMA BaseExposure ==
  ASSUME NEW s, s.lev \in Levels, s.semi \in BOOLEAN
  PROVE  LET w == BaseWeights(s)
         IN  /\ w["QQQ"] \in Nat /\ w["TQQQ"] \in Nat /\ w["SOXL"] \in Nat
             /\ w["QQQ"] + w["TQQQ"] + w["SOXL"] <= 400
             /\ MarketExposure(w) = 100 * s.lev
<1> DEFINE w == BaseWeights(s)
           sleeve == 50 * (s.lev - 4)
<1>1. s.lev \in {2, 4, 5, 6}
  BY DEF Levels, Defensive, Normal, Trending, Strong
<1>2. CASE s.lev <= 4
  <2>1. w = [a \in Assets |-> IF a = "QQQ" THEN 100 * s.lev ELSE 0]
    BY <1>1, <1>2 DEF BaseWeights, Normal
  <2> HIDE DEF w
  <2>2. w["QQQ"] = 100 * s.lev /\ w["TQQQ"] = 0 /\ w["SOXL"] = 0
    BY <2>1 DEF Assets
  <2>3. QED BY <1>1, <1>2, <2>2 DEF MarketExposure, w
<1>3. CASE s.lev > 4 /\ s.semi
  <2>1. w = [a \in Assets |-> IF a = "QQQ" THEN 400 - sleeve ELSE sleeve \div 2]
    BY <1>1, <1>3 DEF BaseWeights, Normal
  <2> HIDE DEF w
  <2>2. w["QQQ"] = 400 - sleeve /\ w["TQQQ"] = sleeve \div 2 /\ w["SOXL"] = sleeve \div 2
    BY <2>1 DEF Assets
  <2>3. CASE s.lev = 5
    BY <2>2, <2>3 DEF MarketExposure, w
  <2>4. CASE s.lev = 6
    BY <2>2, <2>4 DEF MarketExposure, w
  <2>5. QED BY <1>1, <1>3, <2>3, <2>4
<1>4. CASE s.lev > 4 /\ ~s.semi
  <2>1. w = [QQQ |-> 400 - sleeve, TQQQ |-> sleeve, SOXL |-> 0]
    BY <1>1, <1>4 DEF BaseWeights, Normal
  <2> HIDE DEF w
  <2>2. w["QQQ"] = 400 - sleeve /\ w["TQQQ"] = sleeve /\ w["SOXL"] = 0
    BY <2>1
  <2>3. QED BY <1>1, <1>4, <2>2 DEF MarketExposure, w
<1>5. QED BY <1>1, <1>2, <1>3, <1>4

(* The overlay borrows nothing and adds at most twice its twentieth.        *)
LEMMA OverlaidExposure ==
  ASSUME NEW w, w["QQQ"] \in Nat, w["TQQQ"] \in Nat, w["SOXL"] \in Nat,
         NEW F, F \subseteq Leveraged
  PROVE  LET v == Overlaid(w, F)
         IN  /\ v["QQQ"] \in Nat /\ v["TQQQ"] \in Nat /\ v["SOXL"] \in Nat
             /\ v["QQQ"] + v["TQQQ"] + v["SOXL"] <= w["QQQ"] + w["TQQQ"] + w["SOXL"]
             /\ MarketExposure(v) <= MarketExposure(w) + 40
<1> DEFINE v == Overlaid(w, F)
           shift == IF F = {} THEN 0 ELSE IF w["QQQ"] < 20 THEN w["QQQ"] ELSE 20
           each == shift \div Cardinality(F)
<1>1. shift \in Nat /\ shift <= 20 /\ shift <= w["QQQ"]
  OBVIOUS
<1>2. /\ v["QQQ"] = w["QQQ"] - shift
      /\ v["TQQQ"] = IF "TQQQ" \in F THEN w["TQQQ"] + each ELSE w["TQQQ"]
      /\ v["SOXL"] = IF "SOXL" \in F THEN w["SOXL"] + each ELSE w["SOXL"]
  <2>1. v = [a \in Assets |-> CASE a = "QQQ" -> w[a] - shift
                               [] a \in F -> w[a] + each
                               [] OTHER -> w[a]]
    BY DEF Overlaid
  <2>2. "QQQ" \notin F
    BY DEF Leveraged
  <2> HIDE DEF v, shift, each
  <2>3. v["QQQ"] = w["QQQ"] - shift
    BY <2>1, <2>2, AssetsAre
  <2>4. v["TQQQ"] = IF "TQQQ" \in F THEN w["TQQQ"] + each ELSE w["TQQQ"]
    BY <2>1, AssetsAre
  <2>5. v["SOXL"] = IF "SOXL" \in F THEN w["SOXL"] + each ELSE w["SOXL"]
    BY <2>1, AssetsAre
  <2>6. QED BY <2>3, <2>4, <2>5
<1>3. F = {} \/ F = {"TQQQ"} \/ F = {"SOXL"} \/ F = {"TQQQ", "SOXL"}
  BY DEF Leveraged
<1>4. CASE F = {}
  <2>1. shift = 0 /\ "TQQQ" \notin F /\ "SOXL" \notin F
    BY <1>4
  <2> HIDE DEF v, shift, each
  <2>2. v["QQQ"] = w["QQQ"] /\ v["TQQQ"] = w["TQQQ"] /\ v["SOXL"] = w["SOXL"]
    BY <1>2, <2>1
  <2>3. QED BY <2>2 DEF MarketExposure, v
<1>5. CASE F = {"TQQQ"}
  <2>1. "TQQQ" \in F /\ "SOXL" \notin F /\ Cardinality(F) = 1
    BY <1>5, FS_Singleton
  <2>2. each = shift
    <3> HIDE DEF shift
    <3>1. QED BY <1>1, <2>1
  <2> HIDE DEF v, shift, each
  <2>3. v["QQQ"] = w["QQQ"] - shift /\ v["TQQQ"] = w["TQQQ"] + shift /\ v["SOXL"] = w["SOXL"]
    BY <1>2, <2>1, <2>2
  <2>4. QED BY <1>1, <2>3 DEF MarketExposure, v
<1>6. CASE F = {"SOXL"}
  <2>1. "SOXL" \in F /\ "TQQQ" \notin F /\ Cardinality(F) = 1
    BY <1>6, FS_Singleton
  <2>2. each = shift
    <3> HIDE DEF shift
    <3>1. QED BY <1>1, <2>1
  <2> HIDE DEF v, shift, each
  <2>3. v["QQQ"] = w["QQQ"] - shift /\ v["TQQQ"] = w["TQQQ"] /\ v["SOXL"] = w["SOXL"] + shift
    BY <1>2, <2>1, <2>2
  <2>4. QED BY <1>1, <2>3 DEF MarketExposure, v
<1>7. CASE F = {"TQQQ", "SOXL"}
  <2>1. "SOXL" \in F /\ "TQQQ" \in F
    BY <1>7
  <2>2. Cardinality(F) = 2
    <3>1. IsFiniteSet({"TQQQ"}) /\ Cardinality({"TQQQ"}) = 1
      BY FS_Singleton
    <3>2. F = {"TQQQ"} \cup {"SOXL"} /\ "SOXL" \notin {"TQQQ"}
      BY <1>7
    <3>3. Cardinality({"TQQQ"} \cup {"SOXL"}) = Cardinality({"TQQQ"}) + 1
      BY <3>1, <3>2, FS_AddElement
    <3>4. QED BY <3>1, <3>2, <3>3
  <2>3. each \in Nat /\ 2 * each <= shift
    <3> HIDE DEF shift
    <3>1. each = shift \div 2
      BY <2>2
    <3> HIDE DEF each
    <3>2. QED BY <1>1, <3>1
  <2> HIDE DEF v, shift, each
  <2>4. v["QQQ"] = w["QQQ"] - shift /\ v["TQQQ"] = w["TQQQ"] + each
        /\ v["SOXL"] = w["SOXL"] + each
    BY <1>2, <2>1
  <2>5. QED BY <1>1, <2>3, <2>4 DEF MarketExposure, v
<1>8. QED BY <1>3, <1>4, <1>5, <1>6, <1>7

(* The part of the first entry is between a quarter and all, and grows.     *)
LEMMA EntryGrows ==
  ASSUME NEW n \in Nat
  PROVE  /\ EntryFraction(n) \in 1..4
         /\ EntryFraction(n) <= EntryFraction(n + 1)
<1> DEFINE len == Len(EntrySteps)
           Upto(k) == IF k < len THEN k ELSE len
<1>1. EntrySteps \in Seq(1..4) /\ EntrySteps # <<>> /\ Interval \in Nat \ {0}
  BY TargetsAssumption
<1>2. len \in Nat \ {0} /\ DOMAIN EntrySteps = 1..len
  BY <1>1, LenProperties, EmptySeq
<1>3. \A i \in 1..len : EntrySteps[i] \in 1..4
  BY <1>1, ElementOfSeq
<1>4. \A i, j \in 1..len : i <= j => EntrySteps[i] <= EntrySteps[j]
  <2> TAKE i \in 1..len, j \in 1..len
  <2>1. CASE i = j
    BY <1>3, <2>1
  <2>2. CASE i < j
    <3>1. EntrySteps[i] < EntrySteps[j]
      BY <1>2, <2>2, TargetsAssumption
    <3>2. QED BY <1>3, <3>1
  <2>3. QED BY <1>2, <2>1, <2>2
<1> HIDE DEF len
<1>5. n \div Interval \in Nat /\ (n + 1) \div Interval \in Nat
      /\ n \div Interval <= (n + 1) \div Interval
  <2>1. \A x \in Nat : \A d \in Nat \ {0} :
          x \div d \in Nat /\ (x \div d) * d <= x /\ x < (x \div d + 1) * d
    OBVIOUS
  <2> DEFINE a == n \div Interval
             b == (n + 1) \div Interval
  <2>2. a \in Nat /\ b \in Nat /\ a * Interval <= n /\ n + 1 < (b + 1) * Interval
    <3>1. n + 1 \in Nat /\ n \in Nat
      OBVIOUS
    <3>2. a \in Nat /\ a * Interval <= n
      BY ONLY <1>1, <2>1, <3>1, Zenon
    <3>3. b \in Nat /\ n + 1 < (b + 1) * Interval
      BY ONLY <1>1, <2>1, <3>1, Zenon
    <3>4. QED BY <3>2, <3>3
  <2> HIDE DEF a, b
  <2>3. ASSUME b < a PROVE FALSE
    <3>1. a - (b + 1) \in Nat
      BY <2>2, <2>3
    <3>2. (a - (b + 1)) * Interval \in Nat
      BY <1>1, <3>1
    <3>3. a * Interval = (b + 1) * Interval + (a - (b + 1)) * Interval
      BY <1>1, <2>2
    <3>4. a * Interval \in Nat /\ (b + 1) * Interval \in Nat
      BY <1>1, <2>2
    <3>5. QED BY <2>2, <3>2, <3>3, <3>4
  <2>4. a <= b
    BY <2>2, <2>3
  <2>5. QED BY <2>2, <2>4 DEF a, b
<1> DEFINE i == n \div Interval + 1
           j == (n + 1) \div Interval + 1
<1>6. i \in Nat \ {0} /\ j \in Nat \ {0} /\ i <= j
  BY <1>5
<1>7. EntryFraction(n) = EntrySteps[Upto(i)] /\ EntryFraction(n + 1) = EntrySteps[Upto(j)]
  BY DEF EntryFraction, len
<1> HIDE DEF i, j
<1>8. Upto(i) \in 1..len /\ Upto(j) \in 1..len /\ Upto(i) <= Upto(j)
  BY <1>2, <1>6
<1> HIDE DEF Upto
<1>9. QED BY <1>3, <1>4, <1>7, <1>8

LEMMA EnteredExposure ==
  ASSUME NEW w, w["QQQ"] \in Nat, w["TQQQ"] \in Nat, w["SOXL"] \in Nat, NEW n \in Nat,
         NEW k \in Nat, MarketExposure(w) <= k, w["QQQ"] + w["TQQQ"] + w["SOXL"] <= 400
  PROVE  LET v == Entered(w, n)
         IN  /\ v \in [Assets -> Nat]
             /\ v["QQQ"] + v["TQQQ"] + v["SOXL"] <= 1600
             /\ MarketExposure(v) <= EntryFraction(n) * k
<1> DEFINE e == EntryFraction(n)
           v == Entered(w, n)
<1>1. e \in {1, 2, 3, 4}
  BY EntryGrows
<1>2. v["QQQ"] = w["QQQ"] * e /\ v["TQQQ"] = w["TQQQ"] * e /\ v["SOXL"] = w["SOXL"] * e
  BY DEF Entered, Assets
<1>3. w["QQQ"] + 3 * (w["TQQQ"] + w["SOXL"]) <= k
  BY DEF MarketExposure
<1> HIDE DEF e, v
<1>4. /\ v["QQQ"] \in Nat /\ v["TQQQ"] \in Nat /\ v["SOXL"] \in Nat
      /\ v["QQQ"] + v["TQQQ"] + v["SOXL"] <= 1600
      /\ v["QQQ"] + 3 * (v["TQQQ"] + v["SOXL"]) <= e * k
  <2>1. CASE e = 1
    BY <1>2, <1>3, <2>1
  <2>2. CASE e = 2
    BY <1>2, <1>3, <2>2
  <2>3. CASE e = 3
    BY <1>2, <1>3, <2>3
  <2>4. CASE e = 4
    BY <1>2, <1>3, <2>4
  <2>5. QED BY <1>1, <2>1, <2>2, <2>3, <2>4
<1>5. v = [a \in Assets |-> v[a]]
  BY DEF v, Entered
<1>6. v \in [Assets -> Nat]
  BY <1>4, <1>5, AssetsAre
<1>7. QED BY <1>4, <1>6 DEF MarketExposure, e, v

-----------------------------------------------------------------------------
(* Targets: a rebalance never sells what is not held nor spends what is not *)
(* there.                                                                   *)

Books == [purse : Nat, units : [Assets -> Nat]]

LEMMA CostsNat ==
  ASSUME NEW quote \in Quotes, NEW a \in Assets
  PROVE  quote[a] \in Nat \ {0} /\ BuyCost(quote, a) \in Nat \ {0} /\ SaleNet(quote, a) \in Nat
<1>1. quote[a] \in Nat \ {0}
  BY TargetsAssumption, AssetsAre
<1>2. Slippage \in 0..9 /\ BuyFee \in 0..9 /\ SellFee \in 0..9
  BY TargetsAssumption
<1>3. 10 + Slippage \in Nat \ {0} /\ 10 + BuyFee \in Nat \ {0} /\ 10 - Slippage \in Nat
      /\ 10 - SellFee \in Nat
  BY <1>2
<1> DEFINE p == quote[a]
           u == 10 + Slippage
           v == 10 + BuyFee
           x == 10 - Slippage
           y == 10 - SellFee
<1>4. BuyCost(quote, a) = p * u * v /\ SaleNet(quote, a) = p * x * y
  BY DEF BuyCost, SaleNet
<1>5. p \in Nat \ {0} /\ u \in Nat \ {0} /\ v \in Nat \ {0} /\ x \in Nat /\ y \in Nat
  BY <1>1, <1>3
<1> HIDE DEF p, u, v, x, y
<1>6. p * u \in Nat \ {0} /\ p * x \in Nat
  BY <1>5, WholeTimes
<1>7. p * u * v \in Nat \ {0} /\ p * x * y \in Nat
  BY <1>5, <1>6, WholeTimes
<1>8. QED BY <1>1, <1>4, <1>7

LEMMA SaleFits ==
  ASSUME NEW b \in Books, NEW a \in Assets, NEW want \in [Assets -> Nat], NEW quote \in Quotes
  PROVE  Sale(b, a, want, quote) \in Books
<1> DEFINE n == IF b.units[a] > want[a] THEN b.units[a] - want[a] ELSE 0
           gain == n * SaleNet(quote, a)
<1>1. b.purse \in Nat /\ b.units \in [Assets -> Nat] /\ b.units[a] \in Nat /\ want[a] \in Nat
  BY DEF Books
<1>2. n \in Nat /\ b.units[a] - n \in Nat
  BY <1>1
<1> HIDE DEF n
<1>3. gain \in Nat
  BY <1>2, CostsNat, WholeTimes
<1>4. Sale(b, a, want, quote) = [purse |-> b.purse + gain, units |-> [b.units EXCEPT ![a] = @ - n]]
  BY DEF Sale, n
<1> HIDE DEF gain
<1>5. b.purse + gain \in Nat /\ [b.units EXCEPT ![a] = @ - n] \in [Assets -> Nat]
  BY <1>1, <1>2, <1>3
<1>6. QED BY <1>4, <1>5 DEF Books

LEMMA BoughtFits ==
  ASSUME NEW b \in Books, NEW a \in Assets, NEW want \in [Assets -> Nat], NEW quote \in Quotes
  PROVE  Bought(b, a, want, quote) \in Books
<1> DEFINE cost == BuyCost(quote, a)
           can == b.purse \div cost
           missing == want[a] - b.units[a]
           n == IF missing <= 0 THEN 0 ELSE IF missing < can THEN missing ELSE can
<1>1. b.purse \in Nat /\ b.units \in [Assets -> Nat] /\ b.units[a] \in Nat /\ want[a] \in Nat
  BY DEF Books
<1>2. cost \in Nat \ {0}
  BY CostsNat
<1>3. Bought(b, a, want, quote) = [purse |-> b.purse - n * cost,
                                   units |-> [b.units EXCEPT ![a] = @ + n]]
  BY DEF Bought, Purchase
<1> HIDE DEF cost
<1>4. can \in Nat
  BY <1>1, <1>2
<1>5. missing \in Int
  BY <1>1
<1>6. n \in Nat /\ n <= can
  <2> HIDE DEF can, missing
  <2>1. QED BY <1>4, <1>5
<1>7. n * cost \in Nat /\ n * cost <= b.purse
  <2> HIDE DEF n
  <2>1. QED BY <1>1, <1>2, <1>6, WholeTimes, Affords
<1> DEFINE paid == n * cost
<1> HIDE DEF n
<1>8. b.purse - paid \in Nat
  <2>1. paid \in Nat /\ paid <= b.purse
    BY <1>7
  <2> HIDE DEF paid
  <2>2. QED BY <1>1, <2>1
<1>9. [b.units EXCEPT ![a] = @ + n] \in [Assets -> Nat]
  BY <1>1, <1>6
<1>10. Bought(b, a, want, quote) = [purse |-> b.purse - paid,
                                    units |-> [b.units EXCEPT ![a] = @ + n]]
  BY <1>3
<1> HIDE DEF paid
<1>11. QED BY <1>8, <1>9, <1>10 DEF Books

LEMMA RebalancedFits ==
  ASSUME NEW b \in Books, NEW want \in [Assets -> Nat], NEW quote \in Quotes
  PROVE  BoughtUp(SoldDown(b, want, quote), want, quote) \in Books
<1> DEFINE s1 == Sale(b, "QQQ", want, quote)
           s2 == Sale(s1, "TQQQ", want, quote)
           s3 == Sale(s2, "SOXL", want, quote)
           b1 == Bought(s3, "QQQ", want, quote)
           b2 == Bought(b1, "TQQQ", want, quote)
           b3 == Bought(b2, "SOXL", want, quote)
<1>1. s1 \in Books
  BY SaleFits, AssetsAre
<1> HIDE DEF s1
<1>2. s2 \in Books
  BY <1>1, SaleFits, AssetsAre
<1> HIDE DEF s2
<1>3. s3 \in Books
  BY <1>2, SaleFits, AssetsAre
<1> HIDE DEF s3
<1>4. b1 \in Books
  BY <1>3, BoughtFits, AssetsAre
<1> HIDE DEF b1
<1>5. b2 \in Books
  BY <1>4, BoughtFits, AssetsAre
<1> HIDE DEF b2
<1>6. b3 \in Books
  BY <1>5, BoughtFits, AssetsAre
<1>7. BoughtUp(SoldDown(b, want, quote), want, quote) = b3
  BY DEF BoughtUp, SoldDown, s1, s2, s3, b1, b2
<1>8. QED BY <1>6, <1>7

(* What the account is worth, and the quantities a budget of it wants.      *)
LEMMA EquityNat ==
  ASSUME NEW cash \in Nat, NEW held \in [Assets -> Nat], NEW quote \in Quotes
  PROVE  cash + Worth(held, quote, (10 - SellFee) * 10) \in Nat
<1>1. 10 - SellFee \in Nat
  <2>1. SellFee \in 0..9
    BY TargetsAssumption
  <2>2. QED BY <2>1
<1> DEFINE k == (10 - SellFee) * 10
<1>2. k \in Nat
  BY <1>1
<1> HIDE DEF k
<1>3. \A a \in Assets : held[a] * quote[a] * k \in Nat
  <2> TAKE a \in Assets
  <2>1. held[a] \in Nat /\ quote[a] \in Nat
    BY CostsNat
  <2>2. held[a] * quote[a] \in Nat
    BY <2>1, WholeTimes
  <2>3. QED BY <1>2, <2>2, WholeTimes
<1>4. /\ held["QQQ"] * quote["QQQ"] * k \in Nat /\ held["TQQQ"] * quote["TQQQ"] * k \in Nat
      /\ held["SOXL"] * quote["SOXL"] * k \in Nat
  BY <1>3, AssetsAre
<1>5. Worth(held, quote, k) \in Nat
  BY <1>4 DEF Worth
<1>6. cash + Worth(held, quote, k) \in Nat
  BY <1>5
<1>7. QED BY <1>6 DEF k

LEMMA DesiredNat ==
  ASSUME NEW weights, \A a \in Assets : weights[a] \in Nat, NEW budget \in Nat, NEW quote \in Quotes
  PROVE  Desired(weights, budget, quote) \in [Assets -> Nat]
<1>1. ASSUME NEW a \in Assets
      PROVE  ((budget * weights[a]) \div 1600) \div BuyCost(quote, a) \in Nat
  <2>1. budget * weights[a] \in Nat
    BY WholeTimes
  <2>2. \A x \in Nat : \A d \in Nat \ {0} : x \div d \in Nat
    OBVIOUS
  <2>3. (budget * weights[a]) \div 1600 \in Nat
    BY <2>1, <2>2
  <2> DEFINE x == (budget * weights[a]) \div 1600
             d == BuyCost(quote, a)
  <2>4. x \in Nat /\ d \in Nat \ {0}
    BY <2>3, CostsNat
  <2> HIDE DEF x, d
  <2>5. x \div d \in Nat
    BY <2>2, <2>4
  <2>6. QED BY <2>5 DEF x, d
<1>2. QED BY <1>1 DEF Desired

LEMMA RiskBudgetNat ==
  ASSUME NEW high \in Nat, NEW equity \in Nat PROVE RiskBudget(high, equity) \in Nat
<1> DEFINE start == Endowment * 100
           gain == IF high > start THEN high - start ELSE 0
           budget == start + (3 * gain) \div 4
<1>1. start \in Nat
  BY TargetsAssumption
<1> HIDE DEF start
<1>2. gain \in Nat
  BY <1>1
<1> HIDE DEF gain
<1>3. budget \in Nat
  BY <1>1, <1>2
<1>4. RiskBudget(high, equity) = IF budget < equity THEN budget ELSE equity
  BY DEF RiskBudget, start, gain
<1> HIDE DEF budget
<1>5. QED BY <1>3, <1>4

-----------------------------------------------------------------------------
(* Targets: the invariant.  Within a month the leverage stays at or below   *)
(* the one the month began with.                                            *)

TargetsTyped ==
  /\ alloc \in [month : 0..MaxMonth, lev : Levels, semi : BOOLEAN]
  /\ reset \in Levels /\ flags \subseteq Leveraged
  /\ turn \in {"open", "close"} /\ stamp \in 0..MaxSession
  /\ turn = "open" => stamp < MaxSession
  /\ wish \in [Assets -> Nat]
  /\ purse \in Nat /\ units \in [Assets -> Nat] /\ peak \in Nat

MonthInv == alloc.lev <= reset

TargetsInv == TargetsTyped /\ MonthInv /\ ExposureBounded

LEMMA LevelsAre == Levels = {2, 4, 5, 6}
BY DEF Levels, Defensive, Normal, Trending, Strong

LEMMA TargetsInitInv == TargetsInit => TargetsInv
<1> SUFFICES ASSUME TargetsInit PROVE TargetsInv
  OBVIOUS
<1>1. TargetsTyped
  <2>1. Endowment * 100 \in Nat /\ MaxSession \in Nat \ {0} /\ MaxMonth \in Nat \ {0}
    BY TargetsAssumption
  <2>2. 0 \in 0..MaxMonth /\ 0 \in 0..MaxSession /\ Normal \in Levels
    BY <2>1 DEF Levels
  <2>3. alloc \in [month : 0..MaxMonth, lev : Levels, semi : BOOLEAN]
    BY <2>2, Zenon DEF TargetsInit
  <2>4. QED BY <2>1, <2>2, <2>3 DEF TargetsInit, TargetsTyped
<1>2. MonthInv
  BY DEF TargetsInit, MonthInv, Normal
<1>3. ExposureBounded
  <2>1. wish["QQQ"] = 0 /\ wish["TQQQ"] = 0 /\ wish["SOXL"] = 0 /\ stamp = 0 /\ reset = 4
    BY AssetsAre DEF TargetsInit, Normal
  <2>2. EntryFraction(0) \in 1..4
    BY EntryGrows
  <2>3. QED BY <2>1, <2>2, AssetsAre DEF ExposureBounded, MarketExposure
<1>4. QED BY <1>1, <1>2, <1>3 DEF TargetsInv

(* A trade leaves the weights: with the session the entry only grows.       *)
LEMMA RebalanceInv == TargetsInv /\ Rebalance => TargetsInv'
<1> SUFFICES ASSUME TargetsInv, Rebalance PROVE TargetsInv'
  OBVIOUS
<1>1. /\ stamp' = stamp + 1 /\ alloc' = alloc /\ reset' = reset /\ flags' = flags
      /\ wish' = wish /\ peak' = peak /\ turn' = "close" /\ stamp < MaxSession
  BY DEF Rebalance, TargetsInv, TargetsTyped
<1>2. stamp \in Nat /\ reset \in Levels /\ MaxSession \in Nat
  BY TargetsAssumption DEF TargetsInv, TargetsTyped
<1>3. TargetsTyped'
  <2>1. PICK quote \in Quotes : Rebalanced(quote)
    BY DEF Rebalance
  <2> DEFINE equity == purse + Worth(units, quote, (10 - SellFee) * 10)
             budget == RiskBudget(peak, equity)
             want == Desired(wish, budget, quote)
             old == [purse |-> purse, units |-> units]
             book == BoughtUp(SoldDown(old, want, quote), want, quote)
  <2>2. purse \in Nat /\ units \in [Assets -> Nat] /\ peak \in Nat /\ wish \in [Assets -> Nat]
    BY DEF TargetsInv, TargetsTyped
  <2>3. \/ purse' = purse /\ units' = units
        \/ purse' = book.purse /\ units' = book.units
    BY <2>1 DEF Rebalanced
  <2>4. equity \in Nat
    BY <2>2, EquityNat
  <2> HIDE DEF equity
  <2>5. budget \in Nat
    BY <2>2, <2>4, RiskBudgetNat
  <2> HIDE DEF budget
  <2>6. want \in [Assets -> Nat]
    BY <2>2, <2>5, DesiredNat
  <2> HIDE DEF want
  <2>7. old \in Books
    BY <2>2 DEF Books
  <2> HIDE DEF old
  <2>8. book \in Books
    BY <2>6, <2>7, RebalancedFits
  <2> HIDE DEF book
  <2>9. purse' \in Nat /\ units' \in [Assets -> Nat]
    BY <2>2, <2>3, <2>8 DEF Books
  <2>10. stamp' \in 0..MaxSession
    BY <1>1, <1>2
  <2>11. QED BY <1>1, <2>9, <2>10 DEF TargetsInv, TargetsTyped
<1>4. MonthInv'
  BY <1>1 DEF TargetsInv, MonthInv
<1>5. ExposureBounded'
  <2> DEFINE e == EntryFraction(stamp)
             f == EntryFraction(stamp + 1)
             k == 100 * reset + 40
             x == MarketExposure(wish)
  <2>1. e \in 1..4 /\ f \in 1..4 /\ e <= f
    <3>1. stamp + 1 \in Nat
      BY <1>2
    <3>2. QED BY <1>2, <3>1, EntryGrows
  <2>2. k \in Nat
    BY <1>2, LevelsAre
  <2>3. x <= e * k /\ x \in Int
    <3>1. x <= e * k
      BY DEF TargetsInv, ExposureBounded
    <3>2. wish["QQQ"] \in Nat /\ wish["TQQQ"] \in Nat /\ wish["SOXL"] \in Nat
      BY AssetsAre DEF TargetsInv, TargetsTyped
    <3>3. x \in Int
      BY <3>2 DEF MarketExposure
    <3>4. QED BY <3>1, <3>3
  <2>4. (MarketExposure(wish) <= EntryFraction(stamp) * (100 * reset + 40))' <=> x <= f * k
    BY <1>1 DEF MarketExposure
  <2> HIDE DEF e, f, k, x
  <2>5. e * k <= f * k
    BY <2>1, <2>2
  <2>6. x <= f * k
    BY <2>1, <2>2, <2>3, <2>5
  <2>7. QED BY <1>1, <2>4, <2>6 DEF TargetsInv, ExposureBounded
<1>6. QED BY <1>3, <1>4, <1>5 DEF TargetsInv

(* The close: whatever the rows say, the leverage of the month only falls.  *)
LEMMA AdvanceFalls ==
  ASSUME NEW st \in [month : 0..MaxMonth, lev : Levels, semi : BOOLEAN], NEW month \in 0..MaxMonth,
         NEW row \in Rows, NEW wins \in BOOLEAN
  PROVE  LET new == Advanced(st, month, row, wins)
         IN  /\ new \in [month : 0..MaxMonth, lev : Levels, semi : BOOLEAN]
             /\ month = st.month => new.lev <= st.lev
<1>1. row.brake \in BOOLEAN
  BY DEF Rows
<1>2. BaseLeverage(row) \in Levels
  BY DEF BaseLeverage, Levels
<1>3. Defensive \in Levels /\ Defensive = 2 /\ st.lev \in Levels /\ st.semi \in BOOLEAN
  BY DEF Levels, Defensive
<1>4. CASE month # st.month
  <2>1. Advanced(st, month, row, wins) = [month |-> month, lev |-> BaseLeverage(row),
                                          semi |-> wins]
    BY <1>4 DEF Advanced
  <2>2. QED BY <1>2, <1>4, <2>1
<1>5. CASE month = st.month
  <2> DEFINE lev == IF row.brake /\ st.lev > Defensive THEN Defensive ELSE st.lev
             semi == st.semi /\ wins
  <2>1. Advanced(st, month, row, wins) = [month |-> month, lev |-> lev, semi |-> semi]
    BY <1>5 DEF Advanced
  <2>2. lev \in Levels /\ lev <= st.lev
    BY <1>3, LevelsAre
  <2>3. semi \in BOOLEAN
    OBVIOUS
  <2> HIDE DEF lev, semi
  <2>4. QED BY <1>5, <2>1, <2>2, <2>3
<1>6. QED BY <1>4, <1>5

LEMMA CloseInv == TargetsInv /\ CloseSession => TargetsInv'
<1> SUFFICES ASSUME TargetsInv, CloseSession PROVE TargetsInv'
  OBVIOUS
<1>1. /\ alloc \in [month : 0..MaxMonth, lev : Levels, semi : BOOLEAN] /\ reset \in Levels
      /\ flags \subseteq Leveraged /\ stamp \in Nat /\ alloc.lev <= reset
      /\ purse \in Nat /\ units \in [Assets -> Nat] /\ peak \in Nat
  BY DEF TargetsInv, TargetsTyped, MonthInv
<1>2. PICK month \in {m \in {alloc.month, alloc.month + 1} : m \in 1..MaxMonth},
           row \in Rows, wins \in BOOLEAN :
        /\ alloc' = Advanced(alloc, month, row, wins)
        /\ reset' = IF month = alloc.month THEN reset ELSE alloc'.lev
  BY DEF CloseSession
<1>3. month \in 0..MaxMonth
  <2>1. month \in 1..MaxMonth /\ MaxMonth \in Nat
    BY <1>2, TargetsAssumption
  <2>2. QED BY <2>1
<1>4. /\ alloc' \in [month : 0..MaxMonth, lev : Levels, semi : BOOLEAN]
      /\ month = alloc.month => alloc'.lev <= alloc.lev
  BY <1>1, <1>2, <1>3, AdvanceFalls
<1>5. alloc'.lev \in Levels /\ alloc'.semi \in BOOLEAN /\ alloc.lev \in Levels
  BY <1>1, <1>4
<1>6. reset' \in Levels /\ alloc'.lev <= reset'
  <2>1. CASE month = alloc.month
    BY <1>1, <1>2, <1>4, <1>5, <2>1, LevelsAre
  <2>2. CASE month # alloc.month
    BY <1>2, <1>5, <2>2, LevelsAre
  <2>3. QED BY <2>1, <2>2
<1>7. /\ flags' \subseteq Leveraged /\ stamp' = stamp /\ stamp < MaxSession /\ turn' = "open"
      /\ purse' = purse /\ units' = units
      /\ wish' = Entered(Overlaid(BaseWeights(alloc'), flags), stamp)
  BY DEF CloseSession
<1> DEFINE b == BaseWeights(alloc')
           w == Overlaid(b, flags)
           k == 100 * reset' + 40
<1>8. /\ b["QQQ"] \in Nat /\ b["TQQQ"] \in Nat /\ b["SOXL"] \in Nat
      /\ b["QQQ"] + b["TQQQ"] + b["SOXL"] <= 400 /\ MarketExposure(b) = 100 * alloc'.lev
  BY <1>5, BaseExposure
<1> HIDE DEF b
<1>9. /\ w["QQQ"] \in Nat /\ w["TQQQ"] \in Nat /\ w["SOXL"] \in Nat
      /\ w["QQQ"] + w["TQQQ"] + w["SOXL"] <= b["QQQ"] + b["TQQQ"] + b["SOXL"]
      /\ MarketExposure(w) <= MarketExposure(b) + 40
  BY <1>1, <1>8, OverlaidExposure
<1> HIDE DEF w
<1>10. w["QQQ"] + w["TQQQ"] + w["SOXL"] <= 400
  BY <1>8, <1>9
<1>11. MarketExposure(w) <= k /\ k \in Nat
  <2>1. MarketExposure(w) \in Int
    BY <1>9 DEF MarketExposure
  <2>2. alloc'.lev \in Nat /\ reset' \in Nat /\ alloc'.lev <= reset'
    BY <1>5, <1>6, LevelsAre
  <2>3. MarketExposure(w) <= 100 * alloc'.lev + 40
    BY <1>8, <1>9
  <2> DEFINE x == MarketExposure(w)
             y == alloc'.lev
             z == reset'
  <2>4. x \in Int /\ y \in Nat /\ z \in Nat /\ y <= z /\ x <= 100 * y + 40
    BY <2>1, <2>2, <2>3
  <2> HIDE DEF x, y, z
  <2>5. x <= 100 * z + 40 /\ 100 * z + 40 \in Nat
    BY <2>4
  <2>6. QED BY <2>5 DEF x, z
<1> HIDE DEF k
<1>12. wish' = Entered(w, stamp)
  BY <1>7 DEF w, b
<1>13. LET v == Entered(w, stamp)
       IN  /\ v \in [Assets -> Nat]
           /\ v["QQQ"] + v["TQQQ"] + v["SOXL"] <= 1600
           /\ MarketExposure(v) <= EntryFraction(stamp) * k
  BY <1>1, <1>9, <1>10, <1>11, EnteredExposure
<1>14. /\ wish' \in [Assets -> Nat]
       /\ wish'["QQQ"] + wish'["TQQQ"] + wish'["SOXL"] <= 1600
       /\ MarketExposure(wish') <= EntryFraction(stamp) * k
  BY <1>12, <1>13
<1>15. TargetsTyped'
  <2>1. peak' \in Nat
    <3>1. PICK quote \in Quotes :
            peak' = LET equity == purse + Worth(units, quote, (10 - SellFee) * 10)
                    IN  IF equity > peak THEN equity ELSE peak
      BY DEF CloseSession
    <3>2. purse + Worth(units, quote, (10 - SellFee) * 10) \in Nat
      BY <1>1, EquityNat
    <3>3. QED BY <1>1, <3>1, <3>2
  <2>2. stamp \in 0..MaxSession
    BY DEF TargetsInv, TargetsTyped
  <2>3. alloc' \in [month : 0..MaxMonth, lev : Levels, semi : BOOLEAN] /\ reset' \in Levels
    BY <1>4, <1>6
  <2>4. stamp' \in 0..MaxSession /\ stamp' < MaxSession
    BY <1>7, <2>2
  <2>5. purse' \in Nat /\ units' \in [Assets -> Nat] /\ turn' \in {"open", "close"}
    BY <1>1, <1>7
  <2>6. wish' \in [Assets -> Nat] /\ flags' \subseteq Leveraged
    BY <1>7, <1>14
  <2>7. QED BY ONLY <2>1, <2>3, <2>4, <2>5, <2>6 DEF TargetsTyped
<1>16. MonthInv'
  BY <1>6 DEF MonthInv
<1>17. ExposureBounded'
  <2>1. \A a \in Assets : wish'[a] >= 0
    BY <1>14
  <2>2. MarketExposure(wish') <= EntryFraction(stamp') * (100 * reset' + 40)
    BY <1>7, <1>14 DEF k
  <2>3. QED BY <1>14, <2>1, <2>2 DEF ExposureBounded, MarketExposure
<1>18. QED BY <1>15, <1>16, <1>17 DEF TargetsInv

(* The weights, the month and the account of the simulation, together.      *)
THEOREM TargetsInvariant == TargetsSpec => []TargetsInv
<1>1. TargetsInv /\ [TargetsNext]_targetVars => TargetsInv'
  <2> SUFFICES ASSUME TargetsInv, [TargetsNext]_targetVars PROVE TargetsInv'
    OBVIOUS
  <2>1. CASE TargetsNext
    BY <2>1, RebalanceInv, CloseInv DEF TargetsNext
  <2>2. CASE UNCHANGED targetVars
    BY <2>2 DEF targetVars, TargetsInv, TargetsTyped, MonthInv, ExposureBounded,
                MarketExposure, EntryFraction
  <2>3. QED BY <2>1, <2>2
<1>2. QED BY <1>1, TargetsInitInv, PTL DEF TargetsSpec

(* The variables of the simulation keep their type: a rebalance spends no   *)
(* cash that is not there and sells no share that is not held.              *)
THEOREM TargetsTypeCorrect ==
  TargetsSpec => [](TargetsTypeOK /\ purse \in Nat /\ units \in [Assets -> Nat])
<1>1. TargetsInv => TargetsTypeOK /\ purse \in Nat /\ units \in [Assets -> Nat]
  BY DEF TargetsInv, TargetsTyped, TargetsTypeOK
<1>2. QED BY <1>1, TargetsInvariant, PTL

(* The first part of TargetHonoured: whatever the trend does, the weights   *)
(* are a portfolio without borrowing, whose exposure never rises above the  *)
(* leverage the month began with and twice the overlay's twentieth.         *)
THEOREM ExposureIsBounded == TargetsSpec => []ExposureBounded
<1>1. TargetsInv => ExposureBounded
  BY DEF TargetsInv
<1>2. QED BY <1>1, TargetsInvariant, PTL

-----------------------------------------------------------------------------
(* Targets: the sales of a rebalance fund its purchases.                    *)

(* What is missing of an asset.                                             *)
Lacking(held, want, a) == IF want[a] > held[a] THEN want[a] - held[a] ELSE 0

(* What one of an asset counts for in the value of the account, and what of *)
(* it slippage takes from its sale.                                         *)
UnitWorth(quote, a) == quote[a] * ((10 - SellFee) * 10)
UnitLoss(quote, a) == quote[a] * (Slippage * (10 - SellFee))

LEMMA ExcessWhole ==
  ASSUME NEW held \in [Assets -> Nat], NEW want \in [Assets -> Nat], NEW a \in Assets
  PROVE  /\ held[a] \in Nat /\ want[a] \in Nat
         /\ ExcessUnits(held, want, a) \in Nat /\ Lacking(held, want, a) \in Nat
         /\ held[a] - ExcessUnits(held, want, a) \in Nat
         /\ (held[a] - ExcessUnits(held, want, a)) + Lacking(held, want, a) = want[a]
         /\ held[a] > want[a] <=> ExcessUnits(held, want, a) # 0
<1>1. held[a] \in Nat /\ want[a] \in Nat
  OBVIOUS
<1> DEFINE u == held[a]
           v == want[a]
<1>2. u \in Nat /\ v \in Nat
  BY <1>1
<1>3. /\ ExcessUnits(held, want, a) = IF u > v THEN u - v ELSE 0
      /\ Lacking(held, want, a) = IF v > u THEN v - u ELSE 0
  BY DEF ExcessUnits, Lacking
<1> HIDE DEF u, v
<1>4. /\ u \in Nat /\ v \in Nat
      /\ ExcessUnits(held, want, a) \in Nat /\ Lacking(held, want, a) \in Nat
      /\ u - ExcessUnits(held, want, a) \in Nat
      /\ (u - ExcessUnits(held, want, a)) + Lacking(held, want, a) = v
      /\ u > v <=> ExcessUnits(held, want, a) # 0
  BY <1>2, <1>3
<1>5. QED BY <1>4 DEF u, v

(* A sale takes exactly the excess of its asset, for its net price.         *)
SoldOff(s, b, a, want, quote) ==
  /\ s \in Books
  /\ s.purse = b.purse + ExcessUnits(b.units, want, a) * SaleNet(quote, a)
  /\ s.units[a] = b.units[a] - ExcessUnits(b.units, want, a)
  /\ \A c \in Assets : c # a => s.units[c] = b.units[c]

LEMMA SaleIs ==
  ASSUME NEW b \in Books, NEW a \in Assets, NEW want \in [Assets -> Nat], NEW quote \in Quotes
  PROVE  SoldOff(Sale(b, a, want, quote), b, a, want, quote)
<1> DEFINE n == ExcessUnits(b.units, want, a)
<1>1. Sale(b, a, want, quote) \in Books
  BY SaleFits
<1>2. Sale(b, a, want, quote) = [purse |-> b.purse + n * SaleNet(quote, a),
                                 units |-> [b.units EXCEPT ![a] = @ - n]]
  BY DEF Sale, ExcessUnits
<1>3. b.units \in [Assets -> Nat]
  BY DEF Books
<1> HIDE DEF n
<1>4. QED BY <1>1, <1>2, <1>3 DEF SoldOff, n

(* A purchase that its cash allows buys all that is missing, and one never  *)
(* touches another asset nor one of which enough is held.                   *)
BoughtIn(r, b, a, want, quote) ==
  /\ r \in Books
  /\ r.purse = b.purse - Lacking(b.units, want, a) * BuyCost(quote, a)
  /\ r.units[a] = b.units[a] + Lacking(b.units, want, a)

Untouched(r, b, a, want) ==
  \A c \in Assets : /\ (c # a \/ b.units[c] >= want[c]) => r.units[c] = b.units[c]
                    /\ b.units[c] <= r.units[c]

LEMMA Affordably ==
  ASSUME NEW p \in Nat, NEW y \in Nat \ {0}, NEW m \in Nat, m * y <= p
  PROVE  m <= p \div y
<1>1. p \div y \in Nat /\ p % y \in 0..(y - 1) /\ (p \div y) * y \in Nat
      /\ p = (p \div y) * y + (p % y)
  BY Division
<1> DEFINE q == p \div y
<1>2. q \in Nat /\ p < q * y + y /\ q * y \in Nat
  BY <1>1
<1> HIDE DEF q
<1>3. m <= q
  <2> SUFFICES ASSUME q + 1 <= m PROVE FALSE
    BY <1>2
  <2>1. (q + 1) * y <= m * y
    BY <1>2, TimesMonotone
  <2>2. (q + 1) * y = q * y + y /\ m * y \in Nat
    BY <1>2, WholeTimes
  <2>3. QED BY <1>2, <2>1, <2>2
<1>4. QED BY <1>3 DEF q

LEMMA BoughtIs ==
  ASSUME NEW b \in Books, NEW a \in Assets, NEW want \in [Assets -> Nat], NEW quote \in Quotes
  PROVE  LET r == Bought(b, a, want, quote)
         IN  /\ r \in Books
             /\ Untouched(r, b, a, want)
             /\ Lacking(b.units, want, a) * BuyCost(quote, a) <= b.purse
                => BoughtIn(r, b, a, want, quote)
<1> DEFINE r == Bought(b, a, want, quote)
           n == Purchase(b, a, want, quote)
           m == Lacking(b.units, want, a)
           y == BuyCost(quote, a)
           k == b.purse \div y
           d == want[a] - b.units[a]
<1>1. r \in Books
  BY BoughtFits
<1>2. b.purse \in Nat /\ b.units \in [Assets -> Nat] /\ b.units[a] \in Nat /\ want[a] \in Nat
  BY DEF Books
<1>3. r = [purse |-> b.purse - n * y, units |-> [b.units EXCEPT ![a] = @ + n]]
  BY DEF Bought
<1>4. n = IF d <= 0 THEN 0 ELSE IF d < k THEN d ELSE k
  BY DEF Purchase
<1>5. m = IF want[a] > b.units[a] THEN d ELSE 0
  BY DEF Lacking
<1>6. y \in Nat \ {0}
  BY CostsNat
<1> HIDE DEF r, n, m, y
<1>7. k \in Nat
  BY <1>2, <1>6
<1>8. m \in Nat /\ (d <= 0 => m = 0) /\ (d > 0 => m = d)
  BY <1>2, <1>5
<1>9. Untouched(r, b, a, want)
  <2> SUFFICES ASSUME NEW c \in Assets
               PROVE  /\ (c # a \/ b.units[c] >= want[c]) => r.units[c] = b.units[c]
                      /\ b.units[c] <= r.units[c]
    BY DEF Untouched
  <2>1. CASE c # a
    <3>1. r.units[c] = b.units[c] /\ b.units[c] \in Nat
      BY <1>2, <1>3, <2>1
    <3>2. QED BY <3>1
  <2>2. CASE c = a
    <3>1. r.units[a] = b.units[a] + n
      BY <1>2, <1>3
    <3>2. n \in Nat
      <4>1. d \in Int
        BY <1>2
      <4> HIDE DEF d, k
      <4>2. QED BY <1>4, <1>7, <4>1
    <3>3. b.units[a] >= want[a] => n = 0
      <4>1. b.units[a] >= want[a] => d <= 0
        BY <1>2
      <4>2. QED BY <1>4, <4>1
    <3>4. QED BY <1>2, <2>2, <3>1, <3>2, <3>3
  <2>3. QED BY <2>1, <2>2
<1>10. ASSUME m * y <= b.purse PROVE n = m
  <2>1. m <= k
    BY <1>2, <1>6, <1>8, <1>10, Affordably
  <2>2. d \in Int
    BY <1>2
  <2> HIDE DEF d, k
  <2>3. QED BY <1>4, <1>7, <1>8, <2>1, <2>2
<1>11. m * y <= b.purse => BoughtIn(r, b, a, want, quote)
  <2> SUFFICES ASSUME m * y <= b.purse PROVE BoughtIn(r, b, a, want, quote)
    OBVIOUS
  <2>1. n = m
    BY <1>10
  <2>2. r.purse = b.purse - m * y /\ r.units[a] = b.units[a] + m
    BY <1>2, <1>3, <2>1
  <2>3. QED BY <1>1, <2>2 DEF BoughtIn, m, y
<1>12. QED BY <1>1, <1>9, <1>11 DEF r, m, y

(* Per asset: what is missing costs, over what the sale brings in, at most  *)
(* the difference between the target's cost and what is held is worth, when *)
(* the loss on what is sold is covered by the margin on what is kept.       *)
LEMMA AssetFunded ==
  ASSUME NEW k \in Nat, NEW n \in Nat, NEW m \in Nat, NEW u, u = k + n, NEW v, v = k + m,
         NEW cost \in Nat, NEW net \in Nat, NEW loss \in Nat, NEW worth,
         worth = net + loss, worth + loss <= cost
  PROVE  m * cost + u * worth + k * loss <= v * cost + n * net + n * loss
<1>1. /\ m * cost \in Nat /\ k * cost \in Nat /\ n * net \in Nat /\ n * loss \in Nat
      /\ k * worth \in Nat /\ k * loss \in Nat
  <2>1. worth \in Nat
    OBVIOUS
  <2>2. QED BY <2>1, WholeTimes
<1>2. u * worth = k * worth + n * net + n * loss
  OBVIOUS
<1>3. v * cost = k * cost + m * cost
  OBVIOUS
<1>4. k * worth + k * loss <= k * cost
  <2> DEFINE x == worth + loss
  <2>1. x \in Nat /\ x <= cost
    OBVIOUS
  <2>2. k * x = k * worth + k * loss
    OBVIOUS
  <2> HIDE DEF x
  <2>3. x * k <= cost * k /\ x * k = k * x /\ cost * k = k * cost
    BY <2>1, TimesMonotone
  <2>4. QED BY <1>1, <2>2, <2>3
<1>5. QED BY <1>1, <1>2, <1>3, <1>4

(* The sale of one of an asset nets its worth but for the loss, and another *)
(* such loss is still less than what buying it costs above its worth.       *)
LEMMA WorthAndCost ==
  ASSUME NEW quote \in Quotes, NEW a \in Assets
  PROVE  /\ UnitLoss(quote, a) \in Nat
         /\ UnitWorth(quote, a) = SaleNet(quote, a) + UnitLoss(quote, a)
         /\ UnitWorth(quote, a) + UnitLoss(quote, a) <= BuyCost(quote, a)
<1> DEFINE p == quote[a]
           s == Slippage
           y == 10 - SellFee
           z == 10 + BuyFee
           e == y * 10
           net == (10 - s) * y
           loss == s * y
           cost == (10 + s) * z
<1>1. p \in Nat
  BY CostsNat
<1>2. s \in Nat /\ s <= 10 /\ y \in Nat /\ y <= 10 /\ z \in Nat /\ 10 <= z /\ 10 - s \in Nat
  <2>1. Slippage \in 0..9 /\ BuyFee \in 0..9 /\ SellFee \in 0..9
    BY TargetsAssumption
  <2>2. QED BY <2>1
<1>3. /\ UnitWorth(quote, a) = p * e /\ UnitLoss(quote, a) = p * loss
      /\ SaleNet(quote, a) = p * (10 - s) * y /\ BuyCost(quote, a) = p * (10 + s) * z
  BY DEF UnitWorth, UnitLoss, SaleNet, BuyCost
<1> HIDE DEF p, s, y, z
<1>4. SaleNet(quote, a) = p * net /\ BuyCost(quote, a) = p * cost
  BY <1>1, <1>2, <1>3
<1>5. net + loss = e /\ loss \in Nat /\ net \in Nat /\ e \in Nat
  BY <1>2, WholeTimes
<1>6. e + loss <= cost /\ cost \in Nat
  <2>1. e + loss = y * (10 + s)
    BY <1>2
  <2>2. y * (10 + s) <= z * (10 + s)
    <3>1. y \in Int /\ z \in Int /\ 10 + s \in Nat /\ y <= z
      BY <1>2
    <3>2. QED BY <3>1, TimesMonotone
  <2>3. z * (10 + s) = cost /\ cost \in Nat
    BY <1>2, WholeTimes
  <2>4. QED BY <2>1, <2>2, <2>3
<1> HIDE DEF e, net, loss, cost
<1>7. p * e = p * net + p * loss /\ p * loss \in Nat /\ p * e \in Nat /\ p * cost \in Nat
  <2>1. p * (net + loss) = p * net + p * loss
    BY <1>1, <1>5
  <2>2. QED BY <1>1, <1>5, <1>6, <2>1, WholeTimes
<1>8. p * e + p * loss <= p * cost
  <2> DEFINE x == e + loss
  <2>1. x \in Nat /\ x <= cost /\ p * x = p * e + p * loss
    BY <1>1, <1>5, <1>6
  <2> HIDE DEF x
  <2>2. x * p <= cost * p /\ x * p = p * x /\ cost * p = p * cost
    BY <1>1, <1>6, <2>1, TimesMonotone
  <2>3. QED BY <2>1, <2>2
<1>9. QED BY <1>3, <1>4, <1>7, <1>8

(* What a target costs, asset by asset, stays within its part of the budget.*)
LEMMA DesiredCost ==
  ASSUME NEW weights \in [Assets -> Nat], NEW budget \in Nat, NEW quote \in Quotes, NEW a \in Assets
  PROVE  /\ Desired(weights, budget, quote)[a] \in Nat
         /\ Desired(weights, budget, quote)[a] * BuyCost(quote, a) \in Nat
         /\ 1600 * (Desired(weights, budget, quote)[a] * BuyCost(quote, a)) <= budget * weights[a]
<1> DEFINE x == budget * weights[a]
           y == BuyCost(quote, a)
           k == x \div 1600
           v == k \div y
<1>1. Desired(weights, budget, quote)[a] = v
  BY DEF Desired
<1>2. x \in Nat
  BY WholeTimes
<1>3. y \in Nat \ {0}
  BY CostsNat
<1> HIDE DEF x, y
<1>4. k \in Nat /\ 1600 * k <= x
  BY <1>2
<1> HIDE DEF k
<1>5. v \in Nat /\ v <= k \div y
  BY <1>3, <1>4
<1> HIDE DEF v
<1>6. v * y <= k
  BY <1>3, <1>4, <1>5, Affords
<1>7. v * y \in Nat
  BY <1>3, <1>5, WholeTimes
<1>8. 1600 * (v * y) <= x
  BY <1>2, <1>4, <1>6, <1>7
<1>9. QED BY <1>1, <1>5, <1>7, <1>8 DEF x, y

(* Together the three stay within the budget, when the weights do.          *)
LEMMA TargetCost ==
  ASSUME NEW budget \in Nat, NEW i \in Nat, NEW j \in Nat, NEW k \in Nat,
         i + j + k <= 1600, NEW x \in Nat, NEW y \in Nat, NEW z \in Nat,
         1600 * x <= budget * i, 1600 * y <= budget * j, 1600 * z <= budget * k
  PROVE  x + y + z <= budget
<1> DEFINE w == i + j + k
<1>1. budget * w = budget * i + budget * j + budget * k
  OBVIOUS
<1>2. w \in Nat /\ w <= 1600
  OBVIOUS
<1> HIDE DEF w
<1>3. w * budget <= 1600 * budget /\ w * budget = budget * w
  BY <1>2, TimesMonotone
<1>4. budget * i \in Nat /\ budget * j \in Nat /\ budget * k \in Nat /\ budget * w \in Nat
  BY <1>2, WholeTimes
<1>5. 1600 * x + 1600 * y + 1600 * z <= 1600 * budget
  BY <1>1, <1>3, <1>4
<1>6. QED BY <1>5

(* After the sales nothing exceeds its target and as much is missing as     *)
(* before.                                                                  *)
Proceeds(held, want, quote, a) == ExcessUnits(held, want, a) * SaleNet(quote, a)
Price(held, want, quote, a) == Lacking(held, want, a) * BuyCost(quote, a)

LEMMA SoldIs ==
  ASSUME NEW b \in Books, NEW want \in [Assets -> Nat], NEW quote \in Quotes
  PROVE  LET s == SoldDown(b, want, quote)
         IN  /\ s \in Books
             /\ s.purse = b.purse + Proceeds(b.units, want, quote, "QQQ")
                            + Proceeds(b.units, want, quote, "TQQQ")
                            + Proceeds(b.units, want, quote, "SOXL")
             /\ \A a \in Assets : s.units[a] = b.units[a] - ExcessUnits(b.units, want, a)
<1> DEFINE s1 == Sale(b, "QQQ", want, quote)
           s2 == Sale(s1, "TQQQ", want, quote)
           s3 == Sale(s2, "SOXL", want, quote)
<1>1. SoldOff(s1, b, "QQQ", want, quote)
  BY SaleIs, AssetsAre
<1> HIDE DEF s1
<1>2. s1 \in Books
  BY <1>1 DEF SoldOff
<1>3. SoldOff(s2, s1, "TQQQ", want, quote)
  BY <1>2, SaleIs, AssetsAre
<1> HIDE DEF s2
<1>4. s2 \in Books
  BY <1>3 DEF SoldOff
<1>5. SoldOff(s3, s2, "SOXL", want, quote)
  BY <1>4, SaleIs, AssetsAre
<1> HIDE DEF s3
<1>6. /\ s1.units["TQQQ"] = b.units["TQQQ"] /\ s1.units["SOXL"] = b.units["SOXL"]
      /\ s2.units["QQQ"] = s1.units["QQQ"] /\ s2.units["SOXL"] = s1.units["SOXL"]
      /\ s3.units["QQQ"] = s2.units["QQQ"] /\ s3.units["TQQQ"] = s2.units["TQQQ"]
  BY <1>1, <1>3, <1>5, AssetsAre DEF SoldOff
<1>7. /\ ExcessUnits(s1.units, want, "TQQQ") = ExcessUnits(b.units, want, "TQQQ")
      /\ ExcessUnits(s2.units, want, "SOXL") = ExcessUnits(b.units, want, "SOXL")
  BY <1>6 DEF ExcessUnits
<1>8. /\ s3.units["QQQ"] = b.units["QQQ"] - ExcessUnits(b.units, want, "QQQ")
      /\ s3.units["TQQQ"] = b.units["TQQQ"] - ExcessUnits(b.units, want, "TQQQ")
      /\ s3.units["SOXL"] = b.units["SOXL"] - ExcessUnits(b.units, want, "SOXL")
  BY <1>1, <1>3, <1>5, <1>6, <1>7 DEF SoldOff
<1>9. \A a \in Assets : s3.units[a] = b.units[a] - ExcessUnits(b.units, want, a)
  BY <1>8, AssetsAre
<1>10. /\ s1.purse = b.purse + Proceeds(b.units, want, quote, "QQQ")
       /\ s2.purse = s1.purse + Proceeds(b.units, want, quote, "TQQQ")
       /\ s3.purse = s2.purse + Proceeds(b.units, want, quote, "SOXL")
  BY <1>1, <1>3, <1>5, <1>7 DEF SoldOff, Proceeds
<1>11. s3 \in Books
  BY <1>5 DEF SoldOff
<1>12. SoldDown(b, want, quote) = s3
  BY DEF SoldDown, s1, s2, s3
<1>13. s3.purse = b.purse + Proceeds(b.units, want, quote, "QQQ")
                    + Proceeds(b.units, want, quote, "TQQQ")
                    + Proceeds(b.units, want, quote, "SOXL")
  BY <1>10
<1>14. QED BY <1>9, <1>11, <1>12, <1>13

(* The purchases never lower a quantity, and leave what needs none.         *)
LEMMA BoughtUpKeeps ==
  ASSUME NEW s \in Books, NEW want \in [Assets -> Nat], NEW quote \in Quotes, NEW a \in Assets
  PROVE  LET r == BoughtUp(s, want, quote)
         IN  /\ r \in Books /\ s.units[a] <= r.units[a]
             /\ s.units[a] >= want[a] => r.units[a] = s.units[a]
<1> DEFINE b1 == Bought(s, "QQQ", want, quote)
           b2 == Bought(b1, "TQQQ", want, quote)
           b3 == Bought(b2, "SOXL", want, quote)
<1>1. b1 \in Books /\ Untouched(b1, s, "QQQ", want)
  BY BoughtIs, AssetsAre
<1> HIDE DEF b1
<1>2. b2 \in Books /\ Untouched(b2, b1, "TQQQ", want)
  BY <1>1, BoughtIs, AssetsAre
<1> HIDE DEF b2
<1>3. b3 \in Books /\ Untouched(b3, b2, "SOXL", want)
  BY <1>2, BoughtIs, AssetsAre
<1> HIDE DEF b3
<1>4. /\ s.units[a] \in Nat /\ b1.units[a] \in Nat /\ b2.units[a] \in Nat /\ b3.units[a] \in Nat
      /\ want[a] \in Nat
  BY <1>1, <1>2, <1>3 DEF Books
<1>5. /\ s.units[a] <= b1.units[a] /\ b1.units[a] <= b2.units[a] /\ b2.units[a] <= b3.units[a]
      /\ s.units[a] >= want[a] => b1.units[a] = s.units[a]
      /\ b1.units[a] >= want[a] => b2.units[a] = b1.units[a]
      /\ b2.units[a] >= want[a] => b3.units[a] = b2.units[a]
  BY <1>1, <1>2, <1>3 DEF Untouched
<1>6. s.units[a] <= b3.units[a] /\ (s.units[a] >= want[a] => b3.units[a] = s.units[a])
  BY <1>4, <1>5
<1>7. BoughtUp(s, want, quote) = b3
  BY DEF BoughtUp, b1, b2, b3
<1>8. QED BY <1>3, <1>6, <1>7

(* With the cash for all that is missing every asset reaches its target.    *)
LEMMA FundedReaches ==
  ASSUME NEW s \in Books, NEW want \in [Assets -> Nat], NEW quote \in Quotes,
         \A a \in Assets : s.units[a] + Lacking(s.units, want, a) = want[a],
         Price(s.units, want, quote, "QQQ") + Price(s.units, want, quote, "TQQQ")
           + Price(s.units, want, quote, "SOXL") <= s.purse
  PROVE  BoughtUp(s, want, quote).units = want
<1> DEFINE b1 == Bought(s, "QQQ", want, quote)
           b2 == Bought(b1, "TQQQ", want, quote)
           b3 == Bought(b2, "SOXL", want, quote)
           x == Price(s.units, want, quote, "QQQ")
           y == Price(s.units, want, quote, "TQQQ")
           z == Price(s.units, want, quote, "SOXL")
<1>1. x \in Nat /\ y \in Nat /\ z \in Nat /\ s.purse \in Nat /\ x + y + z <= s.purse
  <2>1. s.units \in [Assets -> Nat] /\ s.purse \in Nat
    BY DEF Books
  <2>2. ASSUME NEW a \in Assets PROVE Price(s.units, want, quote, a) \in Nat
    <3>1. Lacking(s.units, want, a) \in Nat
      BY <2>1, ExcessWhole
    <3>2. BuyCost(quote, a) \in Nat
      BY CostsNat
    <3>3. QED BY <3>1, <3>2, WholeTimes DEF Price
  <2>3. QED BY <2>1, <2>2, AssetsAre
<1>2. b1 \in Books /\ Untouched(b1, s, "QQQ", want)
      /\ (x <= s.purse => BoughtIn(b1, s, "QQQ", want, quote))
  BY BoughtIs, AssetsAre DEF Price
<1> HIDE DEF b1
<1>3. b2 \in Books /\ Untouched(b2, b1, "TQQQ", want)
      /\ (Price(b1.units, want, quote, "TQQQ") <= b1.purse
            => BoughtIn(b2, b1, "TQQQ", want, quote))
  BY <1>2, BoughtIs, AssetsAre DEF Price
<1> HIDE DEF b2
<1>4. b3 \in Books /\ Untouched(b3, b2, "SOXL", want)
      /\ (Price(b2.units, want, quote, "SOXL") <= b2.purse
            => BoughtIn(b3, b2, "SOXL", want, quote))
  BY <1>3, BoughtIs, AssetsAre DEF Price
<1> HIDE DEF b3
<1>5. /\ b1.units["TQQQ"] = s.units["TQQQ"] /\ b1.units["SOXL"] = s.units["SOXL"]
      /\ b2.units["QQQ"] = b1.units["QQQ"] /\ b2.units["SOXL"] = b1.units["SOXL"]
      /\ b3.units["QQQ"] = b2.units["QQQ"] /\ b3.units["TQQQ"] = b2.units["TQQQ"]
  BY <1>2, <1>3, <1>4, AssetsAre DEF Untouched
<1>6. Price(b1.units, want, quote, "TQQQ") = y /\ Price(b2.units, want, quote, "SOXL") = z
  BY <1>5 DEF Price, Lacking
<1> HIDE DEF x, y, z
<1>7. BoughtIn(b1, s, "QQQ", want, quote) /\ b1.purse = s.purse - x
  <2>1. x <= s.purse
    BY <1>1
  <2>2. QED BY <1>2, <2>1 DEF BoughtIn, Price, x
<1>8. BoughtIn(b2, b1, "TQQQ", want, quote) /\ b2.purse = s.purse - x - y
  <2>1. y <= b1.purse
    BY <1>1, <1>7
  <2>2. BoughtIn(b2, b1, "TQQQ", want, quote)
    BY <1>3, <1>6, <2>1
  <2>3. b2.purse = b1.purse - y
    BY <1>6, <2>2 DEF BoughtIn, Price
  <2>4. QED BY <1>7, <2>2, <2>3
<1>9. BoughtIn(b3, b2, "SOXL", want, quote)
  <2>1. z <= b2.purse
    BY <1>1, <1>8
  <2>2. QED BY <1>4, <1>6, <2>1
<1>10. /\ b1.units["QQQ"] = want["QQQ"] /\ b2.units["TQQQ"] = want["TQQQ"]
       /\ b3.units["SOXL"] = want["SOXL"]
  <2>1. /\ Lacking(b1.units, want, "TQQQ") = Lacking(s.units, want, "TQQQ")
        /\ Lacking(b2.units, want, "SOXL") = Lacking(s.units, want, "SOXL")
    BY <1>5 DEF Lacking
  <2>2. /\ b1.units["QQQ"] = s.units["QQQ"] + Lacking(s.units, want, "QQQ")
        /\ b2.units["TQQQ"] = s.units["TQQQ"] + Lacking(s.units, want, "TQQQ")
        /\ b3.units["SOXL"] = s.units["SOXL"] + Lacking(s.units, want, "SOXL")
    BY <1>5, <1>7, <1>8, <1>9, <2>1 DEF BoughtIn
  <2>3. QED BY <2>2, AssetsAre
<1>11. \A a \in Assets : b3.units[a] = want[a]
  BY <1>5, <1>10, AssetsAre
<1>12. b3.units \in [Assets -> Nat]
  BY <1>4 DEF Books
<1>13. BoughtUp(s, want, quote) = b3
  BY DEF BoughtUp, b1, b2, b3
<1>14. QED BY <1>11, <1>12, <1>13

LEMMA WorthIs ==
  ASSUME NEW held \in [Assets -> Nat], NEW quote \in Quotes
  PROVE  /\ \A a \in Assets : held[a] * UnitWorth(quote, a) \in Nat
         /\ Worth(held, quote, (10 - SellFee) * 10) =
              held["QQQ"] * UnitWorth(quote, "QQQ") + held["TQQQ"] * UnitWorth(quote, "TQQQ")
                + held["SOXL"] * UnitWorth(quote, "SOXL")
<1> DEFINE e == (10 - SellFee) * 10
<1>1. e \in Nat
  <2>1. SellFee \in 0..9
    BY TargetsAssumption
  <2>2. QED BY <2>1
<1>2. ASSUME NEW a \in Assets
      PROVE  /\ held[a] * UnitWorth(quote, a) \in Nat
             /\ held[a] * UnitWorth(quote, a) = held[a] * quote[a] * e
  <2> DEFINE u == held[a]
             q == quote[a]
  <2>1. u \in Nat /\ q \in Nat
    BY CostsNat
  <2>2. UnitWorth(quote, a) = q * e
    BY DEF UnitWorth
  <2> HIDE DEF u, q, e
  <2>3. u * (q * e) = u * q * e
    BY <1>1, <2>1
  <2>4. q * e \in Nat
    BY <1>1, <2>1, WholeTimes
  <2>5. u * (q * e) \in Nat
    BY <2>1, <2>4, WholeTimes
  <2>6. QED BY <2>2, <2>3, <2>5 DEF u, q
<1>3. Worth(held, quote, e) = held["QQQ"] * quote["QQQ"] * e + held["TQQQ"] * quote["TQQQ"] * e
                                + held["SOXL"] * quote["SOXL"] * e
  BY DEF Worth
<1> HIDE DEF e
<1>4. /\ held["QQQ"] * quote["QQQ"] * e = held["QQQ"] * UnitWorth(quote, "QQQ")
      /\ held["TQQQ"] * quote["TQQQ"] * e = held["TQQQ"] * UnitWorth(quote, "TQQQ")
      /\ held["SOXL"] * quote["SOXL"] * e = held["SOXL"] * UnitWorth(quote, "SOXL")
  BY <1>2, AssetsAre
<1>5. \A a \in Assets : held[a] * UnitWorth(quote, a) \in Nat
  BY <1>2
<1>6. QED BY <1>3, <1>4, <1>5 DEF e

(* What slippage takes of what is sold, and would of what is kept.          *)
LossSold(held, want, quote, a) == ExcessUnits(held, want, a) * UnitLoss(quote, a)
LossKept(held, want, quote, a) == KeptUnits(held, want, a) * UnitLoss(quote, a)

(* Without slippage, or when no more is sold than kept, the losses of the   *)
(* sales are at most the margin of what is kept.                            *)
Steady(held, want, quote) ==
  Slippage = 0 \/ SoldValue(held, want, quote) <= KeptValue(held, want, quote)

LEMMA AssetsFunded ==
  ASSUME NEW held \in [Assets -> Nat], NEW want \in [Assets -> Nat], NEW quote \in Quotes,
         NEW a \in Assets
  PROVE  /\ Price(held, want, quote, a) \in Nat /\ Proceeds(held, want, quote, a) \in Nat
         /\ LossSold(held, want, quote, a) \in Nat /\ LossKept(held, want, quote, a) \in Nat
         /\ Price(held, want, quote, a) + held[a] * UnitWorth(quote, a)
              + LossKept(held, want, quote, a) <=
              want[a] * BuyCost(quote, a) + Proceeds(held, want, quote, a)
                + LossSold(held, want, quote, a)
<1> DEFINE u == held[a]
           v == want[a]
           n == ExcessUnits(held, want, a)
           m == Lacking(held, want, a)
           k == KeptUnits(held, want, a)
           cost == BuyCost(quote, a)
           worth == UnitWorth(quote, a)
           net == SaleNet(quote, a)
           loss == UnitLoss(quote, a)
<1>1. n \in Nat /\ m \in Nat /\ k \in Nat /\ u = k + n /\ v = k + m
  BY ExcessWhole DEF KeptUnits
<1>2. /\ cost \in Nat /\ net \in Nat /\ loss \in Nat
      /\ worth = net + loss /\ worth + loss <= cost
  BY CostsNat, WorthAndCost
<1> HIDE DEF u, v, n, m, k, cost, worth, net, loss
<1>3. m * cost + u * worth + k * loss <= v * cost + n * net + n * loss
  BY <1>1, <1>2, AssetFunded
<1>4. m * cost \in Nat /\ n * net \in Nat /\ n * loss \in Nat /\ k * loss \in Nat
  BY <1>1, <1>2, WholeTimes
<1>5. QED BY <1>3, <1>4 DEF u, v, n, m, k, cost, worth, net, loss, Price, Proceeds,
                            LossSold, LossKept

LEMMA LossesCovered ==
  ASSUME NEW held \in [Assets -> Nat], NEW want \in [Assets -> Nat], NEW quote \in Quotes,
         Steady(held, want, quote)
  PROVE  LossSold(held, want, quote, "QQQ") + LossSold(held, want, quote, "TQQQ")
           + LossSold(held, want, quote, "SOXL") <=
         LossKept(held, want, quote, "QQQ") + LossKept(held, want, quote, "TQQQ")
           + LossKept(held, want, quote, "SOXL")
<1> DEFINE l == Slippage * (10 - SellFee)
           S(a) == ExcessUnits(held, want, a) * quote[a]
           K(a) == KeptUnits(held, want, a) * quote[a]
           sold == S("QQQ") + S("TQQQ") + S("SOXL")
           kept == K("QQQ") + K("TQQQ") + K("SOXL")
<1>1. l \in Nat /\ (Slippage = 0 => l = 0)
  <2>1. Slippage \in Nat /\ 10 - SellFee \in Nat
    <3>1. Slippage \in 0..9 /\ SellFee \in 0..9
      BY TargetsAssumption
    <3>2. QED BY <3>1
  <2>2. QED BY <2>1, WholeTimes
<1>2. ASSUME NEW a \in Assets
      PROVE  /\ S(a) \in Nat /\ LossSold(held, want, quote, a) = S(a) * l
             /\ K(a) \in Nat /\ LossKept(held, want, quote, a) = K(a) * l
  <2> DEFINE n == ExcessUnits(held, want, a)
             k == KeptUnits(held, want, a)
             q == quote[a]
  <2>1. n \in Nat /\ k \in Nat /\ q \in Nat
    BY ExcessWhole, CostsNat DEF KeptUnits
  <2>2. /\ LossSold(held, want, quote, a) = n * (q * l)
        /\ LossKept(held, want, quote, a) = k * (q * l)
    BY DEF LossSold, LossKept, UnitLoss
  <2> HIDE DEF n, k, q, l
  <2>3. n * (q * l) = (n * q) * l /\ k * (q * l) = (k * q) * l
    BY <1>1, <2>1
  <2>4. n * q \in Nat /\ k * q \in Nat
    BY <2>1, WholeTimes
  <2>5. QED BY <2>2, <2>3, <2>4 DEF n, k, q
<1>3. l = 0 \/ sold <= kept
  BY <1>1 DEF Steady, SoldValue, KeptValue
<1> HIDE DEF l, S, K
<1>4. /\ S("QQQ") \in Nat /\ S("TQQQ") \in Nat /\ S("SOXL") \in Nat
      /\ K("QQQ") \in Nat /\ K("TQQQ") \in Nat /\ K("SOXL") \in Nat
  BY <1>2, AssetsAre
<1>5. /\ S("QQQ") * l + S("TQQQ") * l + S("SOXL") * l = sold * l
      /\ K("QQQ") * l + K("TQQQ") * l + K("SOXL") * l = kept * l
      /\ sold \in Nat /\ kept \in Nat
  BY <1>1, <1>4
<1>6. sold * l <= kept * l
  <2> HIDE DEF sold, kept
  <2>1. CASE l = 0
    BY <1>5, <2>1
  <2>2. CASE sold <= kept
    BY <1>1, <1>5, <2>2, TimesMonotone
  <2>3. QED BY <1>3, <2>1, <2>2
<1>7. /\ LossSold(held, want, quote, "QQQ") + LossSold(held, want, quote, "TQQQ")
           + LossSold(held, want, quote, "SOXL") = sold * l
      /\ LossKept(held, want, quote, "QQQ") + LossKept(held, want, quote, "TQQQ")
           + LossKept(held, want, quote, "SOXL") = kept * l
  <2>1. /\ LossSold(held, want, quote, "QQQ") = S("QQQ") * l
        /\ LossSold(held, want, quote, "TQQQ") = S("TQQQ") * l
        /\ LossSold(held, want, quote, "SOXL") = S("SOXL") * l
        /\ LossKept(held, want, quote, "QQQ") = K("QQQ") * l
        /\ LossKept(held, want, quote, "TQQQ") = K("TQQQ") * l
        /\ LossKept(held, want, quote, "SOXL") = K("SOXL") * l
    BY <1>2, AssetsAre
  <2> HIDE DEF sold, kept
  <2>2. QED BY <1>5, <2>1
<1>8. QED BY <1>6, <1>7

(* A target that costs no more than the account is worth is reached.        *)
LEMMA RebalanceReaches ==
  ASSUME NEW cash \in Nat, NEW held \in [Assets -> Nat], NEW weights \in [Assets -> Nat],
         weights["QQQ"] + weights["TQQQ"] + weights["SOXL"] <= 1600,
         NEW quote \in Quotes, NEW budget \in Nat,
         budget <= cash + Worth(held, quote, (10 - SellFee) * 10),
         NEW want, want = Desired(weights, budget, quote),
         Steady(held, want, quote),
         NEW b, b = [purse |-> cash, units |-> held]
  PROVE  BoughtUp(SoldDown(b, want, quote), want, quote).units = want
<1> DEFINE s == SoldDown(b, want, quote)
           m(a) == Price(held, want, quote, a)
           g(a) == Proceeds(held, want, quote, a)
           e(a) == held[a] * UnitWorth(quote, a)
           c(a) == want[a] * BuyCost(quote, a)
           ls(a) == LossSold(held, want, quote, a)
           lk(a) == LossKept(held, want, quote, a)
<1>1. want \in [Assets -> Nat]
  BY DesiredNat
<1>2. b \in Books /\ b.units = held /\ b.purse = cash
  BY DEF Books
<1>3. /\ s \in Books
      /\ s.purse = cash + g("QQQ") + g("TQQQ") + g("SOXL")
      /\ \A a \in Assets : s.units[a] = held[a] - ExcessUnits(held, want, a)
  BY <1>1, <1>2, SoldIs
<1>4. \A a \in Assets : /\ m(a) \in Nat /\ g(a) \in Nat
                        /\ ls(a) \in Nat /\ lk(a) \in Nat
                        /\ m(a) + e(a) + lk(a) <= c(a) + g(a) + ls(a)
  BY <1>1, AssetsFunded
<1>5. \A a \in Assets : e(a) \in Nat
  BY WorthIs
<1>6. budget <= cash + (e("QQQ") + e("TQQQ") + e("SOXL"))
  BY WorthIs
<1>7. \A a \in Assets : c(a) \in Nat /\ 1600 * c(a) <= budget * weights[a]
  BY DesiredCost
<1> HIDE DEF c, e
<1>8. c("QQQ") + c("TQQQ") + c("SOXL") <= budget
  <2>1. /\ 1600 * c("QQQ") <= budget * weights["QQQ"] /\ c("QQQ") \in Nat
        /\ 1600 * c("TQQQ") <= budget * weights["TQQQ"] /\ c("TQQQ") \in Nat
        /\ 1600 * c("SOXL") <= budget * weights["SOXL"] /\ c("SOXL") \in Nat
    BY <1>7, AssetsAre
  <2> DEFINE i == weights["QQQ"]
             j == weights["TQQQ"]
             k == weights["SOXL"]
             x == c("QQQ")
             y == c("TQQQ")
             z == c("SOXL")
  <2>2. i \in Nat /\ j \in Nat /\ k \in Nat /\ i + j + k <= 1600
    BY AssetsAre
  <2>3. /\ 1600 * x <= budget * i /\ x \in Nat /\ 1600 * y <= budget * j /\ y \in Nat
        /\ 1600 * z <= budget * k /\ z \in Nat
    BY <2>1
  <2> HIDE DEF i, j, k, x, y, z
  <2>4. x + y + z <= budget
    BY <2>2, <2>3, TargetCost
  <2>5. QED BY <2>4 DEF x, y, z
<1>9. m("QQQ") + m("TQQQ") + m("SOXL") <= s.purse
  <2>1. /\ m("QQQ") \in Nat /\ m("TQQQ") \in Nat /\ m("SOXL") \in Nat
        /\ g("QQQ") \in Nat /\ g("TQQQ") \in Nat /\ g("SOXL") \in Nat
        /\ ls("QQQ") \in Nat /\ ls("TQQQ") \in Nat /\ ls("SOXL") \in Nat
        /\ lk("QQQ") \in Nat /\ lk("TQQQ") \in Nat /\ lk("SOXL") \in Nat
        /\ m("QQQ") + e("QQQ") + lk("QQQ") <= c("QQQ") + g("QQQ") + ls("QQQ")
        /\ m("TQQQ") + e("TQQQ") + lk("TQQQ") <= c("TQQQ") + g("TQQQ") + ls("TQQQ")
        /\ m("SOXL") + e("SOXL") + lk("SOXL") <= c("SOXL") + g("SOXL") + ls("SOXL")
    BY <1>4, AssetsAre
  <2>2. /\ e("QQQ") \in Nat /\ e("TQQQ") \in Nat /\ e("SOXL") \in Nat
        /\ c("QQQ") \in Nat /\ c("TQQQ") \in Nat /\ c("SOXL") \in Nat
    BY <1>5, <1>7, AssetsAre
  <2>3. ls("QQQ") + ls("TQQQ") + ls("SOXL") <= lk("QQQ") + lk("TQQQ") + lk("SOXL")
    BY <1>1, LossesCovered
  <2> HIDE DEF m, g, s, ls, lk
  <2>4. QED BY <1>3, <1>6, <1>8, <2>1, <2>2, <2>3
<1>10. \A a \in Assets : /\ Lacking(s.units, want, a) = Lacking(held, want, a)
                         /\ s.units[a] + Lacking(s.units, want, a) = want[a]
  <2> HIDE DEF s
  <2> SUFFICES ASSUME NEW a \in Assets
               PROVE  /\ Lacking(s.units, want, a) = Lacking(held, want, a)
                      /\ s.units[a] + Lacking(s.units, want, a) = want[a]
    OBVIOUS
  <2>1. s.units[a] = held[a] - ExcessUnits(held, want, a)
    BY <1>3
  <2>2. /\ held[a] \in Nat /\ want[a] \in Nat
        /\ (held[a] - ExcessUnits(held, want, a)) + Lacking(held, want, a) = want[a]
    BY <1>1, ExcessWhole
  <2>3. Lacking(s.units, want, a) = Lacking(held, want, a)
    BY <2>1, <2>2 DEF Lacking, ExcessUnits
  <2>4. QED BY <2>1, <2>2, <2>3
<1>11. /\ Price(s.units, want, quote, "QQQ") = m("QQQ")
       /\ Price(s.units, want, quote, "TQQQ") = m("TQQQ")
       /\ Price(s.units, want, quote, "SOXL") = m("SOXL")
  BY <1>10, AssetsAre DEF Price
<1> HIDE DEF s, m
<1>12. BoughtUp(s, want, quote).units = want
  BY <1>1, <1>3, <1>9, <1>10, <1>11, FundedReaches
<1>13. QED BY <1>12 DEF s

LEMMA RiskBudgetWithin ==
  ASSUME NEW high \in Nat, NEW equity \in Nat PROVE RiskBudget(high, equity) <= equity
<1> DEFINE start == Endowment * 100
           gain == IF high > start THEN high - start ELSE 0
           budget == start + (3 * gain) \div 4
<1>1. start \in Nat
  BY TargetsAssumption
<1> HIDE DEF start
<1>2. gain \in Nat
  BY <1>1
<1> HIDE DEF gain
<1>3. budget \in Nat
  BY <1>1, <1>2
<1>4. RiskBudget(high, equity) = IF budget < equity THEN budget ELSE equity
  BY DEF RiskBudget, start, gain
<1> HIDE DEF budget
<1>5. QED BY <1>3, <1>4

LEMMA ValuesWhole ==
  ASSUME NEW held \in [Assets -> Nat], NEW want \in [Assets -> Nat], NEW quote \in Quotes
  PROVE  SoldValue(held, want, quote) \in Nat /\ KeptValue(held, want, quote) \in Nat
<1>1. ASSUME NEW a \in Assets
      PROVE  ExcessUnits(held, want, a) * quote[a] \in Nat /\ KeptUnits(held, want, a) * quote[a] \in Nat
  <2>1. ExcessUnits(held, want, a) \in Nat /\ KeptUnits(held, want, a) \in Nat /\ quote[a] \in Nat
    BY ExcessWhole, CostsNat DEF KeptUnits
  <2>2. QED BY <2>1, WholeTimes
<1>2. QED BY <1>1, AssetsAre DEF SoldValue, KeptValue

(* What is sold, and so what is kept, is what exceeded the target, however  *)
(* far the purchases got.                                                   *)
LEMMA SoldIsExcess ==
  ASSUME NEW b \in Books, NEW want \in [Assets -> Nat], NEW quote \in Quotes,
         NEW after, after = BoughtUp(SoldDown(b, want, quote), want, quote).units,
         NEW a \in Assets
  PROVE  ExcessUnits(b.units, after, a) = ExcessUnits(b.units, want, a)
         /\ KeptUnits(b.units, after, a) = KeptUnits(b.units, want, a)
<1> DEFINE s == SoldDown(b, want, quote)
<1>1. b.units \in [Assets -> Nat]
  BY DEF Books
<1>2. b.units[a] \in Nat /\ want[a] \in Nat
  BY <1>1
<1>3. s \in Books /\ s.units[a] = b.units[a] - ExcessUnits(b.units, want, a)
  BY SoldIs
<1>4. after = BoughtUp(s, want, quote).units
  OBVIOUS
<1> HIDE DEF s
<1>5. BoughtUp(s, want, quote) \in Books /\ s.units[a] <= after[a]
      /\ (s.units[a] >= want[a] => after[a] = s.units[a])
  BY <1>3, <1>4, BoughtUpKeeps
<1>6. after[a] \in Nat
  BY <1>4, <1>5 DEF Books
<1>7. CASE b.units[a] > want[a]
  <2>1. s.units[a] = want[a]
    BY <1>2, <1>3, <1>7 DEF ExcessUnits
  <2>2. after[a] = want[a]
    BY <1>2, <1>5, <2>1
  <2>3. QED BY <2>2 DEF ExcessUnits, KeptUnits
<1>8. CASE ~(b.units[a] > want[a])
  <2>1. s.units[a] = b.units[a]
    BY <1>2, <1>3, <1>8 DEF ExcessUnits
  <2>2. ~(b.units[a] > after[a])
    BY <1>2, <1>5, <1>6, <2>1
  <2>3. QED BY <1>8, <2>2 DEF ExcessUnits, KeptUnits
<1>9. QED BY <1>7, <1>8

(* A rebalance that ends short of a quantity has sold more than it kept, and *)
(* at a slippage.                                                           *)
SoldShort(quote) ==
  Slippage > 0 /\ KeptValue(units, units', quote) < SoldValue(units, units', quote)

LEMMA RebalanceMisses ==
  ASSUME TargetsInv, NEW quote \in Quotes, Rebalanced(quote), traded # {wish}, missed'
  PROVE  SoldShort(quote)
<1> DEFINE equity == purse + Worth(units, quote, (10 - SellFee) * 10)
           budget == RiskBudget(peak, equity)
           want == Desired(wish, budget, quote)
           old == [purse |-> purse, units |-> units]
           book == BoughtUp(SoldDown(old, want, quote), want, quote)
<1>1. units' = book.units /\ book.units # want
  BY DEF Rebalanced
<1>2. /\ purse \in Nat /\ units \in [Assets -> Nat] /\ peak \in Nat /\ wish \in [Assets -> Nat]
      /\ wish["QQQ"] + wish["TQQQ"] + wish["SOXL"] <= 1600
  BY DEF TargetsInv, TargetsTyped, ExposureBounded
<1>3. equity \in Nat /\ equity = purse + Worth(units, quote, (10 - SellFee) * 10)
  BY <1>2, EquityNat
<1> HIDE DEF equity
<1>4. budget \in Nat /\ budget <= equity
  <2>1. peak \in Nat /\ equity \in Nat
    BY <1>2, <1>3
  <2>2. budget \in Nat
    BY <2>1, RiskBudgetNat
  <2>3. budget <= equity
    BY <2>1, RiskBudgetWithin
  <2>4. QED BY <2>2, <2>3
<1> HIDE DEF budget
<1>5. want \in [Assets -> Nat] /\ want = Desired(wish, budget, quote)
  BY <1>2, <1>4, DesiredNat
<1> HIDE DEF want
<1>6. old \in Books /\ old = [purse |-> purse, units |-> units] /\ old.units = units
  BY <1>2 DEF Books
<1> HIDE DEF old
<1>7. CASE Steady(units, want, quote)
  <2>1. budget <= purse + Worth(units, quote, (10 - SellFee) * 10)
    BY <1>3, <1>4
  <2>2. book.units = want
    BY <1>2, <1>4, <1>5, <1>6, <1>7, <2>1, RebalanceReaches
  <2>3. QED BY <1>1, <2>2
<1>8. CASE ~Steady(units, want, quote)
  <2>1. Slippage # 0 /\ ~(SoldValue(units, want, quote) <= KeptValue(units, want, quote))
    BY <1>8 DEF Steady
  <2>2. Slippage > 0
    <3>1. Slippage \in 0..9
      BY TargetsAssumption
    <3>2. QED BY <2>1, <3>1
  <2>3. SoldValue(units, want, quote) \in Nat /\ KeptValue(units, want, quote) \in Nat
    BY <1>2, <1>5, ValuesWhole
  <2>4. \A a \in Assets : /\ ExcessUnits(units, book.units, a) = ExcessUnits(units, want, a)
                          /\ KeptUnits(units, book.units, a) = KeptUnits(units, want, a)
    BY <1>5, <1>6, SoldIsExcess
  <2> HIDE DEF book
  <2>5. /\ SoldValue(units, book.units, quote) = SoldValue(units, want, quote)
        /\ KeptValue(units, book.units, quote) = KeptValue(units, want, quote)
    BY <2>4, AssetsAre DEF SoldValue, KeptValue
  <2>6. KeptValue(units, book.units, quote) < SoldValue(units, book.units, quote)
    BY <2>1, <2>3, <2>5
  <2>7. QED BY <1>1, <2>2, <2>6 DEF SoldShort
<1>9. QED BY <1>7, <1>8

(* TargetHonoured: the weights ask for no more exposure than was decided,   *)
(* and cash binds a purchase only after a turnover: a rebalance that ends   *)
(* short of a quantity has sold, at a slippage, more than it kept           *)
(* (portfolio_engine.py, _rebalance), whatever the prices, fees and stages. *)
THEOREM TargetHonouredHolds == TargetsSpec => TargetHonoured
<1>1. TargetsInv => [\A quote \in Quotes :
                       turn = "open" /\ Rebalanced(quote) /\ traded # {wish} /\ missed'
                       => SoldShort(quote)]_targetVars
  BY RebalanceMisses
<1>2. TargetsInv => ExposureBounded
  BY DEF TargetsInv
<1>3. TargetsInv => [\A quote \in Quotes :
                       turn = "open" /\ Rebalanced(quote) /\ traded # {wish} /\ missed'
                       => Slippage > 0 /\ KeptValue(units, units', quote)
                                             < SoldValue(units, units', quote)]_targetVars
  BY <1>1 DEF SoldShort
<1>4. QED
  BY <1>2, <1>3, TargetsInvariant, PTL DEF TargetHonoured, ShortOnlyByTurnover
=============================================================================
