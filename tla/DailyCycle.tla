----------------------------- MODULE DailyCycle -----------------------------
(***************************************************************************)
(* The live scheduler's pass: settle the open orders, reconcile, let the   *)
(* automatic engine trade, allocate, analyse the completed session, record *)
(* the outcome (HardenedOperationalSafetyTelegramBotApp._scheduler_loop).  *)
(* Two recoveries run across the passes.  After a read outage of the       *)
(* broker the engine waits for two clean reconciliations (a flag and a     *)
(* streak in the database).  After a failed daily job it waits for the job *)
(* to succeed (a flag in the database, a retry gate in memory).            *)
(* Each step of the pass is an action, so that the clock, the gate's delay *)
(* and the end of the process fall between any two of them.                *)
(***************************************************************************)
EXTENDS Integers

CONSTANTS
  MaxDate,    \* completed sessions of a behaviour
  MaxFaults   \* outages, failures, exceptions and restarts of a behaviour

ASSUME DailyAssumption == MaxDate \in Nat \ {0} /\ MaxFaults \in Nat

VARIABLES
  date,              \* the latest completed session, as the market clock has it
  phase,             \* the part of the day in Seoul
  analysed,          \* last_analysis_trade_date
  pendingDaily,      \* jh_auto_daily_provider_recovery_pending
  pendingTransient,  \* jh_auto_transient_recovery_pending
  streak,            \* jh_auto_transient_clean_streak
  quarantined,       \* the engine's quarantine
  gate,              \* DailyAnalysisRetryGate: its date, its failures, whether it still waits
  loop,              \* the pass: where it is and its local variables
  since,             \* clean reconciliations since the last outage (at most 2)
  torn,              \* the process ended inside the bookkeeping of an outage
  faults

recoveryVars == <<pendingTransient, streak, since, torn>>
jobVars == <<analysed, pendingDaily, gate>>
skyVars == <<date, phase>>
dailyVars == <<date, phase, analysed, pendingDaily, pendingTransient, streak,
               quarantined, gate, loop, since, torn, faults>>

(* Before 07:00 in Seoul; until the evening; the regular session. *)
Phases == {"night", "day", "session"}
Places == {"wait", "reconcile", "arm", "rezero", "disarm", "daily", "auto", "clock",
           "allocate", "analyse", "record"}

Resting == [pc |-> "wait", settled |-> FALSE, safe |-> FALSE, completed |-> 0,
            retry |-> FALSE, attempted |-> FALSE, failed |-> FALSE]
FreshGate == [date |-> 0, failures |-> 0, waiting |-> FALSE]

DailyInit ==
  /\ date = 1 /\ phase = "night" /\ analysed = 0
  /\ pendingDaily = FALSE /\ pendingTransient = FALSE /\ streak = 0
  /\ quarantined = FALSE /\ gate = FreshGate /\ loop = Resting
  /\ since = 2 /\ torn = FALSE /\ faults = 0

DailyTypeOK ==
  /\ date \in 1..MaxDate /\ phase \in Phases /\ analysed \in 0..MaxDate
  /\ pendingDaily \in BOOLEAN /\ pendingTransient \in BOOLEAN /\ streak \in 0..1
  /\ quarantined \in BOOLEAN /\ torn \in BOOLEAN
  /\ gate \in [date : 0..MaxDate, failures : 0..MaxFaults, waiting : BOOLEAN]
  /\ loop.pc \in Places /\ loop.completed \in 0..MaxDate
  /\ since \in 0..2 /\ faults \in 0..MaxFaults

At(place) == loop.pc = place
Onto(place) == loop' = [loop EXCEPT !.pc = place]
Unsafe == loop' = [loop EXCEPT !.pc = "clock", !.safe = FALSE]
Fault == faults < MaxFaults /\ faults' = faults + 1
NoFault == UNCHANGED faults

-----------------------------------------------------------------------------
(* The safety cycle.                                                       *)

(* A pass starts.  The order monitor runs first when it is due and the broker is not
   in maintenance; an error of it spoils the cycle and does not end it. *)
Wake ==
  /\ At("wait")
  /\ \/ Onto("clock") /\ NoFault
     \/ loop' = [loop EXCEPT !.pc = "reconcile", !.settled = TRUE] /\ NoFault
     \/ loop' = [loop EXCEPT !.pc = "reconcile", !.settled = FALSE] /\ Fault
  /\ UNCHANGED <<skyVars, jobVars, recoveryVars, quarantined>>

(* reconciliation_service.run() raises TransientReconciliationError. *)
Outage ==
  /\ At("reconcile") /\ Fault /\ Onto("arm") /\ since' = 0
  /\ UNCHANGED <<skyVars, jobVars, pendingTransient, streak, torn, quarantined>>

(* arm_transient_recovery: two writes, each its own transaction. *)
Arm ==
  /\ At("arm") /\ Onto("rezero") /\ NoFault
  /\ pendingTransient' = TRUE
  /\ UNCHANGED <<skyVars, jobVars, streak, since, torn, quarantined>>

(* Mutant: the streak of an earlier outage is kept. *)
RezeroKept ==
  /\ At("rezero") /\ Unsafe /\ NoFault
  /\ quarantined' = TRUE
  /\ UNCHANGED <<skyVars, jobVars, recoveryVars>>

Rezero ==
  /\ At("rezero") /\ Unsafe /\ NoFault
  /\ streak' = 0 /\ quarantined' = TRUE
  /\ UNCHANGED <<skyVars, jobVars, pendingTransient, since, torn>>

(* Another error, or a mismatch: the cycle is not clean. *)
Dirty ==
  /\ At("reconcile") /\ Fault /\ Unsafe
  /\ UNCHANGED <<skyVars, jobVars, recoveryVars, quarantined>>

(* advance_transient_recovery *)
Clean ==
  /\ At("reconcile") /\ NoFault
  /\ since' = IF since < 2 THEN since + 1 ELSE 2
  /\ \/ ~pendingTransient /\ Onto("daily") /\ UNCHANGED <<pendingTransient, streak>>
     \/ /\ pendingTransient /\ streak + 1 < 2
        /\ streak' = streak + 1 /\ Unsafe /\ UNCHANGED pendingTransient
     \/ /\ pendingTransient /\ streak + 1 >= 2
        /\ pendingTransient' = FALSE /\ Onto("disarm") /\ UNCHANGED streak
  /\ UNCHANGED <<skyVars, jobVars, torn, quarantined>>

Disarm ==
  /\ At("disarm") /\ Onto("daily") /\ NoFault
  /\ streak' = 0
  /\ UNCHANGED <<skyVars, jobVars, pendingTransient, since, torn, quarantined>>

(* _daily_analysis_blocks_auto: from 07:00 on the completed session must be analysed. *)
AnalysisBlocks == phase # "night" /\ analysed # date

DailyCheck ==
  /\ At("daily") /\ NoFault
  /\ IF loop.settled /\ ~pendingDaily /\ ~AnalysisBlocks THEN Onto("auto") ELSE Unsafe
  /\ UNCHANGED <<skyVars, jobVars, recoveryVars, quarantined>>

(* The automatic engine: it may leave quarantine, then either places an order (which
   ends the cycle unready), does nothing, or raises and is quarantined. *)
AutoTrades ==
  /\ At("auto")
  /\ \/ /\ loop' = [loop EXCEPT !.pc = "clock", !.safe = TRUE] /\ NoFault
        /\ quarantined' \in {quarantined, FALSE}
     \/ Unsafe /\ NoFault /\ quarantined' = FALSE
     \/ Unsafe /\ Fault /\ quarantined' = TRUE
  /\ UNCHANGED <<skyVars, jobVars, recoveryVars>>

-----------------------------------------------------------------------------
(* The daily jobs of the pass.                                             *)

(* DailyAnalysisRetryGate._ensure_trade_date *)
Dated == IF gate.date = date THEN gate ELSE [FreshGate EXCEPT !.date = date]

(* From 07:00 on the pass asks for the completed session (the market clock may fail)
   and the gate says whether the daily jobs are due. *)
Clock ==
  /\ At("clock")
  /\ \/ /\ phase # "night" /\ NoFault
        /\ gate' = Dated
        /\ loop' = [loop EXCEPT !.pc = "allocate", !.completed = date,
                                !.retry = ~Dated.waiting]
     \/ Onto("record") /\ phase = "night" /\ NoFault /\ UNCHANGED gate
     \/ Onto("record") /\ phase # "night" /\ Fault /\ UNCHANGED gate
  /\ UNCHANGED <<skyVars, analysed, pendingDaily, recoveryVars, quarantined>>

(* _record_daily_job_failure *)
JobFails ==
  /\ Fault
  /\ LET g == IF gate.date = loop.completed THEN gate
              ELSE [FreshGate EXCEPT !.date = loop.completed]
     IN  gate' = [g EXCEPT !.failures = @ + 1, !.waiting = TRUE]
  /\ pendingDaily' = TRUE /\ quarantined' = TRUE
  /\ loop' = [loop EXCEPT !.pc = "record", !.attempted = TRUE, !.failed = TRUE]

(* portfolio_service.run_month_end(), when the safety cycle was ready.  Outside the
   regular session it returns None and cannot fail. *)
DailyAllocate ==
  /\ At("allocate")
  /\ \/ /\ loop.safe /\ loop.retry /\ phase = "session"
        /\ JobFails
     \/ /\ loop.safe /\ loop.retry /\ NoFault
        /\ loop' = [loop EXCEPT !.pc = "analyse", !.attempted = TRUE]
        /\ UNCHANGED <<gate, pendingDaily, quarantined>>
     \/ /\ ~(loop.safe /\ loop.retry) /\ NoFault /\ Onto("analyse")
        /\ UNCHANGED <<gate, pendingDaily, quarantined>>
  /\ UNCHANGED <<skyVars, analysed, recoveryVars>>

(* analysis_service.analyze_all(), unless the session is analysed already: it asks the
   clock again and records that session. *)
Analyse ==
  /\ At("analyse")
  /\ LET due == loop.retry /\ analysed # loop.completed
     IN  \/ due /\ JobFails /\ UNCHANGED analysed
         \/ /\ due /\ NoFault /\ analysed' = date
            /\ loop' = [loop EXCEPT !.pc = "record", !.attempted = TRUE]
            /\ UNCHANGED <<gate, pendingDaily, quarantined>>
         \/ /\ ~due /\ NoFault /\ Onto("record")
            /\ UNCHANGED <<analysed, gate, pendingDaily, quarantined>>
  /\ UNCHANGED <<skyVars, recoveryVars>>

(* _record_daily_job_success; then the pass ends. *)
Record ==
  /\ At("record") /\ loop' = Resting /\ NoFault
  /\ IF loop.attempted /\ ~loop.failed
     THEN gate' = [date |-> loop.completed, failures |-> 0, waiting |-> FALSE]
          /\ pendingDaily' = FALSE
     ELSE UNCHANGED <<gate, pendingDaily>>
  /\ UNCHANGED <<skyVars, analysed, recoveryVars, quarantined>>

-----------------------------------------------------------------------------
(* The clock, the delay of the gate, and the end of the process.           *)

(* A session completes during the night. *)
SkyTurns ==
  /\ \/ phase = "night" /\ phase' = "day" /\ UNCHANGED date
     \/ phase = "day" /\ phase' = "session" /\ UNCHANGED date
     \/ phase = "session" /\ date < MaxDate /\ phase' = "night" /\ date' = date + 1
  /\ NoFault /\ UNCHANGED <<jobVars, recoveryVars, quarantined, loop>>

(* The gate's delay (5, 10, 15, 30 or 60 minutes) is over. *)
DelayEnds ==
  /\ gate.waiting /\ gate' = [gate EXCEPT !.waiting = FALSE]
  /\ NoFault /\ UNCHANGED <<skyVars, analysed, pendingDaily, recoveryVars, quarantined, loop>>

(* Inside the bookkeeping of an outage only one of the two writes, or none, is done. *)
Torn == torn \/ loop.pc \in {"arm", "rezero"}

(* An exception that leaves the loop: the wrapper of JHAutoTelegramBotApp quarantines
   the engine and starts the loop again, with the gate kept. *)
LoopRaises ==
  /\ ~At("wait") /\ Fault
  /\ loop' = Resting /\ quarantined' = TRUE /\ torn' = Torn
  /\ UNCHANGED <<skyVars, jobVars, pendingTransient, streak, since>>

(* The process ends and starts again: the gate is fresh. *)
DailyRestart ==
  /\ Fault
  /\ loop' = Resting /\ gate' = FreshGate /\ torn' = Torn
  /\ UNCHANGED <<skyVars, analysed, pendingDaily, pendingTransient, streak, since, quarantined>>

DailyPass ==
  \/ Wake \/ Outage \/ Arm \/ Rezero \/ Dirty \/ Clean \/ Disarm
  \/ DailyCheck \/ AutoTrades \/ Clock \/ DailyAllocate \/ Analyse \/ Record

DailyNext == DailyPass \/ SkyTurns \/ DelayEnds \/ LoopRaises \/ DailyRestart

DailySpec == DailyInit /\ [][DailyNext]_dailyVars

(* The loop keeps waking, its monitor is due in some pass again and again, and a delay
   ends; nothing is assumed of the calendar, and faults are bounded. *)
LiveDailySpec ==
  /\ DailySpec
  /\ WF_dailyVars(DailyPass /\ NoFault)
  /\ SF_dailyVars(Wake /\ loop'.pc = "reconcile" /\ NoFault)
  /\ WF_dailyVars(DelayEnds)

-----------------------------------------------------------------------------
(* Properties.                                                             *)

(* After an outage the engine trades only after two clean reconciliations
   (provider_recovery.advance_transient_recovery), whatever outages, errors and
   restarts come between them, unless the process ended inside the bookkeeping. *)
TwoCleanCycles == At("auto") => since = 2 \/ torn

(* A daily job that failed is tried again until it succeeds, or until the next session
   is completed (_record_daily_job_failure promises the retries). *)
DailyRetry ==
  \A d \in 1..MaxDate : (pendingDaily /\ date = d) ~> (~pendingDaily \/ date # d)
=============================================================================
