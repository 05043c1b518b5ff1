---------------------------- MODULE MorningBrief ----------------------------
(***************************************************************************)
(* The morning brief: a loop of its own beside the scheduler's              *)
(* (MorningBriefLiveJHAutoTelegramBotApp).  From 07:00 in Seoul it waits    *)
(* for the daily analysis, replays the strategy read-only, sends the brief  *)
(* and marks the day; from 09:00 on it sends a notice instead.  Between the *)
(* look at the clock, the replay, the send and the mark the time may pass,  *)
(* a send may fail before or after it is delivered, and the process may     *)
(* end.  The daily analysis is the scheduler's (module DailyCycle).         *)
(***************************************************************************)
EXTENDS Integers

CONSTANTS
  RequiredBars, OptionalBars,  \* the series the replay needs, those it can do without
  MaxKstDay,                   \* mornings of a behaviour
  MaxMishaps                   \* failed sends, exceptions and restarts of a behaviour

ASSUME BriefAssumption ==
  /\ MaxKstDay \in Nat \ {0} /\ MaxMishaps \in Nat
  /\ RequiredBars \cap OptionalBars = {}

VARIABLES
  kstDay, daypart,  \* the date and the part of the day in Seoul
  closed,           \* the latest completed session
  analysedTo,       \* last_analysis_trade_date
  down,             \* series no provider delivers
  sentOn,           \* daily_brief_sent_kst_date
  noticedOn,        \* daily_brief_cutoff_notice_kst_date
  patience,         \* the loop's own DailyAnalysisRetryGate
  briefing,         \* the cycle: where it is, its date and its session
  told,             \* messages the operator received, by day
  crossed,          \* days whose brief met 09:00 on its way
  mishaps

kstVars == <<kstDay, daypart, closed>>
markVars == <<sentOn, noticedOn>>
tellVars == <<told, crossed>>
briefVars == <<kstVars, analysedTo, down, markVars, patience, briefing, tellVars, mishaps>>

Dayparts == {"early", "window", "late"}
KstDays == 1..MaxKstDay
Silent == [brief |-> 0, notice |-> 0, delay |-> 0]
AtRest == [pc |-> "rest", today |-> 0, completed |-> 0]
NoPatience == [date |-> 0, failures |-> 0, waiting |-> FALSE]

BriefInit ==
  /\ kstDay = 1 /\ daypart = "early" /\ closed = 1 /\ analysedTo = 0 /\ down = {}
  /\ sentOn = 0 /\ noticedOn = 0 /\ patience = NoPatience /\ briefing = AtRest
  /\ told = [d \in KstDays |-> Silent] /\ crossed = {} /\ mishaps = 0

(* Failures beyond the first are not told apart. *)
BriefTypeOK ==
  /\ kstDay \in KstDays /\ daypart \in Dayparts /\ closed \in KstDays
  /\ analysedTo \in 0..MaxKstDay /\ down \subseteq RequiredBars \cup OptionalBars
  /\ sentOn \in 0..MaxKstDay /\ noticedOn \in 0..MaxKstDay
  /\ patience \in [date : 0..MaxKstDay, failures : 0..2, waiting : BOOLEAN]
  /\ briefing \in [pc : {"rest", "replay", "send", "mark", "notice", "noted"},
                   today : 0..MaxKstDay, completed : 0..MaxKstDay]
  /\ told \in [KstDays -> [brief : Nat, notice : Nat, delay : Nat]]
  /\ crossed \subseteq KstDays /\ mishaps \in 0..MaxMishaps

In(place) == briefing.pc = place
Move(place) == briefing' = [briefing EXCEPT !.pc = place]
Mishap == mishaps < MaxMishaps /\ mishaps' = mishaps + 1
NoMishap == UNCHANGED mishaps
Deliver(kind) == told' = [told EXCEPT ![kstDay][kind] = @ + 1]

-----------------------------------------------------------------------------
(* The cycle of the brief.                                                 *)

(* DailyAnalysisRetryGate._ensure_trade_date *)
PatienceOn(session_) ==
  IF patience.date = session_ THEN patience ELSE [NoPatience EXCEPT !.date = session_]

(* Nothing before 07:00 nor once the day is marked.  The market clock may not answer;
   from 09:00 the notice is due all the same, unless it is marked too.  Before, the
   completed session must be analysed and the gate open. *)
Look ==
  /\ In("rest") /\ daypart # "early" /\ sentOn # kstDay
  /\ \E completed \in {0, closed} :
       /\ \/ /\ daypart = "late" /\ noticedOn # kstDay
             /\ briefing' = [pc |-> "notice", today |-> kstDay, completed |-> completed]
             /\ UNCHANGED patience
          \/ /\ daypart = "window" /\ completed # 0 /\ analysedTo = completed
             /\ ~PatienceOn(completed).waiting /\ patience' = PatienceOn(completed)
             /\ briefing' = [pc |-> "replay", today |-> kstDay, completed |-> completed]
  /\ NoMishap /\ UNCHANGED <<kstVars, analysedTo, down, markVars, tellVars>>

(* DailyAnalysisRetryGate.record_failure; the cycle ends. *)
GivesUp ==
  /\ LET p == PatienceOn(briefing.completed)
     IN  patience' = [p EXCEPT !.failures = IF @ < 2 THEN @ + 1 ELSE 2, !.waiting = TRUE]
  /\ briefing' = AtRest

(* _calculate_target: a series without which there is no target fails the replay; one
   of the sector guard alone does not. *)
Calculable == down \cap RequiredBars = {}

(* The first failed replay of a session is announced, by a message that may fail.  Any
   other exception of the replay is not announced. *)
ReplayTarget ==
  /\ In("replay")
  /\ \/ Calculable /\ Move("send") /\ NoMishap /\ UNCHANGED <<patience, told>>
     \/ /\ ~Calculable /\ GivesUp
        /\ \/ patience'.failures = 1 /\ NoMishap /\ Deliver("delay")
           \/ patience'.failures = 1 /\ Mishap /\ UNCHANGED told
           \/ patience'.failures # 1 /\ NoMishap /\ UNCHANGED told
     \/ Calculable /\ GivesUp /\ Mishap /\ UNCHANGED told
  /\ UNCHANGED <<kstVars, analysedTo, down, markVars, crossed>>

(* OperationalSafetyTelegramBotApp._send looks at the clock again and drops a brief
   outside the window, without an exception. *)
SendBrief ==
  /\ In("send")
  /\ \/ /\ daypart = "window" /\ Deliver("brief") /\ Move("mark") /\ NoMishap
        /\ UNCHANGED <<patience, crossed>>
     \/ /\ daypart # "window" /\ crossed' = crossed \cup {kstDay} /\ Move("mark") /\ NoMishap
        /\ UNCHANGED <<patience, told>>
     \/ /\ daypart = "window" /\ GivesUp /\ Mishap
        /\ (Deliver("brief") \/ UNCHANGED told) /\ UNCHANGED crossed
  /\ UNCHANGED <<kstVars, analysedTo, down, markVars>>

(* record_success, then the day is marked. *)
MarkBrief ==
  /\ In("mark") /\ briefing' = AtRest /\ NoMishap
  /\ patience' = [PatienceOn(briefing.completed) EXCEPT !.failures = 0, !.waiting = FALSE]
  /\ sentOn' = briefing.today
  /\ UNCHANGED <<kstVars, analysedTo, down, noticedOn, tellVars>>

(* _send_cutoff_notice: an exception leaves the cycle, and the next tries again. *)
SendNotice ==
  /\ In("notice")
  /\ \/ Deliver("notice") /\ Move("noted") /\ NoMishap
     \/ (Deliver("notice") \/ UNCHANGED told) /\ briefing' = AtRest /\ Mishap
  /\ UNCHANGED <<kstVars, analysedTo, down, markVars, patience, crossed>>

(* Mutant: the notice is not marked. *)
MarkNoticeNot ==
  /\ In("noted") /\ briefing' = AtRest /\ NoMishap
  /\ UNCHANGED <<kstVars, analysedTo, down, markVars, patience, tellVars>>

MarkNotice ==
  /\ In("noted") /\ briefing' = AtRest /\ NoMishap
  /\ noticedOn' = briefing.today
  /\ UNCHANGED <<kstVars, analysedTo, down, sentOn, patience, tellVars>>

-----------------------------------------------------------------------------
(* What happens around the cycle.                                          *)

(* The day in Seoul; a session completes in some nights (not at a weekend).  A cycle
   takes less than the rest of its day. *)
KstTurns ==
  /\ \/ daypart = "early" /\ daypart' = "window" /\ UNCHANGED <<kstDay, closed>>
     \/ daypart = "window" /\ daypart' = "late" /\ UNCHANGED <<kstDay, closed>>
     \/ /\ daypart = "late" /\ In("rest") /\ kstDay < MaxKstDay
        /\ daypart' = "early" /\ kstDay' = kstDay + 1 /\ closed' \in {closed, closed + 1}
  /\ NoMishap
  /\ UNCHANGED <<analysedTo, down, markVars, patience, briefing, tellVars>>

(* The scheduler's daily analysis, from 07:00 on, whenever it succeeds. *)
AnalysisDone ==
  /\ daypart # "early" /\ analysedTo # closed /\ analysedTo' = closed /\ NoMishap
  /\ UNCHANGED <<kstVars, down, markVars, patience, briefing, tellVars>>

(* A series fails or is back. *)
BarsChange ==
  /\ \E s \in RequiredBars \cup OptionalBars :
       down' = IF s \in down THEN down \ {s} ELSE down \cup {s}
  /\ NoMishap
  /\ UNCHANGED <<kstVars, analysedTo, markVars, patience, briefing, tellVars>>

(* The gate's delay is over. *)
PatienceEnds ==
  /\ patience.waiting /\ patience' = [patience EXCEPT !.waiting = FALSE] /\ NoMishap
  /\ UNCHANGED <<kstVars, analysedTo, down, markVars, briefing, tellVars>>

(* The process ends and starts again. *)
BriefRestart ==
  /\ Mishap /\ briefing' = AtRest /\ patience' = NoPatience
  /\ UNCHANGED <<kstVars, analysedTo, down, markVars, tellVars>>

BriefNext ==
  \/ Look \/ ReplayTarget \/ SendBrief \/ MarkBrief \/ SendNotice \/ MarkNotice
  \/ KstTurns \/ AnalysisDone \/ BarsChange \/ PatienceEnds \/ BriefRestart

BriefSpec == BriefInit /\ [][BriefNext]_briefVars

-----------------------------------------------------------------------------
(* Properties.                                                             *)

(* Brief and notice exclude each other and none comes twice, except after a failed
   send or a restart; a delay is announced once. *)
OneTelling ==
  \A d \in KstDays : /\ told[d].brief + told[d].notice <= 1 + mishaps
                     /\ told[d].delay <= 1 + mishaps

(* A day marked as briefed was briefed, unless 09:00 passed on the way to the send: such
   a brief is dropped without an exception and its day is marked all the same.  A day
   marked as noticed got its notice. *)
MarkedIsTold ==
  /\ sentOn # 0 => told[sentOn].brief > 0 \/ sentOn \in crossed
  /\ noticedOn # 0 => told[noticedOn].notice > 0

(* The day's one telling (MorningBriefLiveJHAutoTelegramBotApp._run_morning_brief_cycle):
   through retries, failed sends and restarts the operator is told once, and a mark in
   the database stands for a message that was sent, but for the mark of a brief that met
   09:00 on its way. *)
MorningTold == OneTelling /\ MarkedIsTold
=============================================================================
