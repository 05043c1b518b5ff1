---------------------------- MODULE AutoAttempts ----------------------------
(***************************************************************************)
(* How often JH AUTO may try to buy                                         *)
(* (FinalOpsProductionJHAutoService.execute_one).  A cycle row is written   *)
(* before each attempt; the rows of a New York day, counted at the start of *)
(* each pass, bound the attempts of the day and of each signal.  An attempt *)
(* that fails also delays the next one of its signal.  Both use one value,  *)
(* jh_auto_retry_after, which each overwrites.  An order is open or not,    *)
(* the gate shut or not: how they come to be is the matter of modules       *)
(* OrderFlow and AutoControl.                                               *)
(***************************************************************************)
EXTENDS Integers, FiniteSetsExt

CONSTANTS
  SignalCount,        \* signals, in the order of ALLOCATION_SYMBOLS
  AttemptsPerDay,     \* MAX_AUTO_BUY_ATTEMPTS_PER_DAY
  AttemptsPerSignal,  \* MAX_AUTO_SIGNAL_ATTEMPTS_PER_DAY
  Cooldown,           \* AUTO_RETRY_COOLDOWN, in ticks of the clock
  TicksPerDay,        \* ticks of a New York day
  SessionTicks,       \* those of them in the regular session
  MaxTick,            \* bound: the last tick
  MaxEnds             \* bound: ends of the process

ASSUME AttemptsAssumption ==
  /\ {SignalCount, AttemptsPerDay, AttemptsPerSignal, Cooldown, MaxTick, MaxEnds} \subseteq Nat
  /\ TicksPerDay \in Nat \ {0} /\ SessionTicks \in Nat
  /\ Cooldown <= TicksPerDay - SessionTicks   \* five minutes, and a night

VARIABLES
  tick,        \* the time
  cycles,      \* jh_auto_cycles: rows started per day and signal
  retryAfter,  \* jh_auto_retry_after:<signal>, 0 when missing
  shut,        \* halted, quarantined, or in a state other than RUNNING
  wanted,      \* the ACTIVE CORE_REBALANCE_BUY signals
  working,     \* signals with an open order
  attempt,     \* the pass: where it is, its start, its signal, how it fails
  posts,       \* history: orders sent to the broker, per day and signal
  failedAt,    \* history: start of the signal's last failed attempt of this process
  ends

tryVars == <<cycles, retryAfter, attempt>>
attemptVars == <<tick, cycles, retryAfter, shut, wanted, working, attempt, posts,
                 failedAt, ends>>

Buys == 1..SignalCount
DayOf(t) == t \div TicksPerDay
InSession(t) == t % TicksPerDay < SessionTicks
NewYorkDays == 0..DayOf(MaxTick)
NoAttempt == [pc |-> "idle", current |-> 0, sig |-> 0, plain |-> TRUE]
AllOf(count) == MapThenSumSet(LAMBDA s : count[s], Buys)
Failing == [failedAt EXCEPT ![attempt.sig] = attempt.current + 1]

AttemptInit ==
  /\ tick = 0 /\ shut = TRUE /\ wanted = {} /\ working = {} /\ ends = 0
  /\ cycles = [d \in NewYorkDays |-> [s \in Buys |-> 0]] /\ posts = cycles
  /\ retryAfter = [s \in Buys |-> 0] /\ failedAt = [s \in Buys |-> 0]
  /\ attempt = NoAttempt

(* Mutant: the day the signal is put off to is today. *)
NextDayToday(t) == DayOf(t) * TicksPerDay

NextDay(t) == (DayOf(t) + 1) * TicksPerDay

-----------------------------------------------------------------------------
(* execute_one.                                                            *)

(* _enforce_attempt_limits *)
EnforceLimits ==
  /\ attempt.pc = "idle"
  /\ LET today == cycles[DayOf(tick)]
     IN  IF AllOf(today) >= AttemptsPerDay
         THEN shut' = TRUE /\ UNCHANGED <<retryAfter, attempt>>
         ELSE /\ retryAfter' = [s \in Buys |-> IF today[s] >= AttemptsPerSignal
                                               THEN NextDay(tick) ELSE retryAfter[s]]
              /\ attempt' = [NoAttempt EXCEPT !.pc = "choose", !.current = tick]
              /\ UNCHANGED shut
  /\ UNCHANGED <<tick, cycles, wanted, working, posts, failedAt, ends>>

(* _retry_allowed *)
Due == {s \in wanted : attempt.current >= retryAfter[s]}

(* The gate, the open orders and the session, then the first signal that is due; its
   row comes before anything is reviewed. *)
ChooseSignal ==
  /\ attempt.pc = "choose"
  /\ IF shut \/ working # {} \/ ~InSession(attempt.current) \/ Due = {}
     THEN attempt' = NoAttempt /\ UNCHANGED cycles
     ELSE /\ attempt' = [attempt EXCEPT !.pc = "execute", !.sig = Min(Due)]
          /\ cycles' = [cycles EXCEPT ![DayOf(attempt.current)][Min(Due)] = @ + 1]
  /\ UNCHANGED <<tick, retryAfter, shut, wanted, working, posts, failedAt, ends>>

(* Review, quote, execution or the last checks under the lock raise; plain are
   ApprovalError and QuoteChangedError.  A reserved order is REJECTED and its signal
   ACTIVE again, or its outcome is taken for UNKNOWN. *)
AttemptRefused ==
  /\ attempt.pc = "execute"
  /\ \E plain \in BOOLEAN : attempt' = [attempt EXCEPT !.pc = "raised", !.plain = plain]
  /\ failedAt' = Failing
  /\ \/ UNCHANGED <<wanted, working>>
     \/ ~attempt'.plain /\ wanted' = wanted \ {attempt.sig} /\ working' = {attempt.sig}
  /\ UNCHANGED <<tick, cycles, retryAfter, shut, posts, ends>>

(* The POST, unless the gate was shut or the session ended meanwhile. *)
AttemptPosted ==
  /\ attempt.pc = "execute" /\ ~shut /\ InSession(tick)
  /\ attempt' = [attempt EXCEPT !.pc = "posted"]
  /\ working' = {attempt.sig}
  /\ posts' = [posts EXCEPT ![DayOf(tick)][attempt.sig] = @ + 1]
  /\ UNCHANGED <<tick, cycles, retryAfter, shut, wanted, failedAt, ends>>

(* The broker keeps or fills the order. *)
AttemptTaken ==
  /\ attempt.pc = "posted" /\ attempt' = NoAttempt
  /\ wanted' = wanted \ {attempt.sig}
  /\ (working' = {} \/ UNCHANGED working)
  /\ UNCHANGED <<tick, cycles, retryAfter, shut, posts, failedAt, ends>>

(* It ends it incomplete: _reopen_core_signal, and the attempt has failed. *)
AttemptEnded ==
  /\ attempt.pc = "posted"
  /\ wanted' = wanted \cup {attempt.sig} /\ working' = {} /\ failedAt' = Failing
  /\ \E pc \in {"cool", "raised"} : attempt' = [attempt EXCEPT !.pc = pc, !.plain = FALSE]
  /\ UNCHANGED <<tick, cycles, retryAfter, shut, posts, ends>>

(* The outcome is UNKNOWN, in the receipt or by an exception: quarantine. *)
AttemptUnknown ==
  /\ attempt.pc = "posted"
  /\ wanted' = wanted \ {attempt.sig}
  /\ \/ attempt' = NoAttempt /\ shut' = TRUE /\ UNCHANGED failedAt
     \/ /\ attempt' = [attempt EXCEPT !.pc = "raised", !.plain = FALSE]
        /\ failedAt' = Failing /\ UNCHANGED shut
  /\ UNCHANGED <<tick, cycles, retryAfter, working, posts, ends>>

(* _set_retry_cooldown; after an exception that is not plain a quarantine follows. *)
CoolDown ==
  /\ attempt.pc \in {"cool", "raised"}
  /\ retryAfter' = [retryAfter EXCEPT ![attempt.sig] = attempt.current + Cooldown]
  /\ attempt' = IF attempt.pc = "cool" \/ attempt.plain THEN NoAttempt
                ELSE [attempt EXCEPT !.pc = "quarantine"]
  /\ UNCHANGED <<tick, cycles, shut, wanted, working, posts, failedAt, ends>>

AttemptQuarantined ==
  /\ attempt.pc = "quarantine" /\ attempt' = NoAttempt /\ shut' = TRUE
  /\ UNCHANGED <<tick, cycles, retryAfter, wanted, working, posts, failedAt, ends>>

-----------------------------------------------------------------------------
(* Around it.                                                              *)

(* A pass ends within its day; at the end of the day the signals expire. *)
TimePasses ==
  /\ tick < MaxTick /\ tick' = tick + 1
  /\ IF DayOf(tick') = DayOf(tick) THEN UNCHANGED wanted
     ELSE attempt.pc = "idle" /\ wanted' = {}
  /\ UNCHANGED <<tryVars, shut, working, posts, failedAt, ends>>

(* The rest of the scheduler's cycle: the monitor sees an order's end and reopens the
   signal of an incomplete one, the allocator opens and withdraws signals, the gate is
   released when nothing is open. *)
RestOfCycle ==
  /\ attempt.pc = "idle"
  /\ \/ \E s \in working : /\ working' = {} /\ wanted' \in {wanted, wanted \cup {s}}
                           /\ UNCHANGED shut
     \/ \E s \in Buys : /\ wanted' \in {wanted \cup {s}, wanted \ {s}}
                        /\ UNCHANGED <<working, shut>>
     \/ working = {} /\ shut' = FALSE /\ UNCHANGED <<wanted, working>>
  /\ UNCHANGED <<tick, tryVars, posts, failedAt, ends>>

(* /halt, on the operator's thread. *)
GateShuts ==
  /\ shut' = TRUE
  /\ UNCHANGED <<tick, tryVars, wanted, working, posts, failedAt, ends>>

(* The process ends and starts again, quarantined. *)
AttemptCrash ==
  /\ ends < MaxEnds /\ ends' = ends + 1
  /\ attempt' = NoAttempt /\ shut' = TRUE /\ failedAt' = [s \in Buys |-> 0]
  /\ UNCHANGED <<tick, cycles, retryAfter, wanted, working, posts>>

AttemptNext ==
  \/ EnforceLimits \/ ChooseSignal \/ AttemptRefused \/ AttemptPosted \/ AttemptTaken
  \/ AttemptEnded \/ AttemptUnknown \/ CoolDown \/ AttemptQuarantined
  \/ TimePasses \/ RestOfCycle \/ GateShuts \/ AttemptCrash

AttemptSpec == AttemptInit /\ [][AttemptNext]_attemptVars

AttemptTypeOK ==
  /\ tick \in 0..MaxTick /\ shut \in BOOLEAN /\ ends \in 0..MaxEnds
  /\ cycles \in [NewYorkDays -> [Buys -> 0..AttemptsPerDay]]
  /\ posts \in [NewYorkDays -> [Buys -> 0..AttemptsPerDay]]
  /\ retryAfter \in [Buys -> Nat] /\ failedAt \in [Buys -> Nat]
  /\ wanted \subseteq Buys /\ working \subseteq Buys
  /\ attempt \in [pc : {"idle", "choose", "execute", "posted", "cool", "raised", "quarantine"},
                  current : 0..MaxTick, sig : 0..SignalCount, plain : BOOLEAN]

-----------------------------------------------------------------------------
(* Properties.                                                             *)

(* "동일 신호 3회, 전체 BUY 시도 5회 상한" (JH_AUTO_SPEC): whatever attempts fail, are
   reopened or lost in a crash, the broker never receives more orders of one signal,
   nor of all, in a day than the limits say. *)
PostsLimited ==
  \A d \in NewYorkDays : /\ AllOf(posts[d]) <= AttemptsPerDay
                         /\ \A s \in Buys : posts[d][s] <= AttemptsPerSignal

(* A signal whose attempt failed is left alone for the cooldown (_set_retry_cooldown),
   unless the process ended in between. *)
Cooled ==
  [][\A s \in Buys : (attempt.sig # s /\ attempt'.sig = s /\ failedAt[s] # 0)
                       => attempt'.current >= failedAt[s] - 1 + Cooldown]_attemptVars

(* The limit and the cooldown share one value without undoing each other. *)
AttemptsBounded == []PostsLimited /\ Cooled
=============================================================================
