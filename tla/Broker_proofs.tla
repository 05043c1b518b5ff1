---------------------------- MODULE Broker_proofs ----------------------------
(***************************************************************************)
(* The access to the broker: the token the local processes share           *)
(* (TokenCache), for any number of processes, threads and tokens; the      *)
(* orders JH AUTO may send in a day (AutoAttempts), for any limits, days   *)
(* and signals; and the paper account of the dry run (PaperBroker), for    *)
(* any purchases, threads and restarts.  Their inductive invariants, and   *)
(* the theorems that follow.                                               *)
(***************************************************************************)
EXTENDS TokenCache, AutoAttempts, PaperBroker, Totals

-----------------------------------------------------------------------------
(* TokenCache: types, and what each kind of step does to the calls.        *)

Calls == [pc : CallPlaces, tok : Tokens, rejected : Tokens, force : BOOLEAN, write : BOOLEAN,
          last : BOOLEAN]

(* One thread moves: the calls of the others stay. *)
Alone(c) ==
  /\ call' \in [Callers -> Calls]
  /\ \A d \in Callers : d # c => call'[d] = call[d]

LEMMA CallFits ==
  ASSUME NEW r \in Calls, NEW place \in CallPlaces, NEW t \in Tokens, NEW b \in BOOLEAN
  PROVE  /\ [r EXCEPT !.pc = place] \in Calls
         /\ [r EXCEPT !.pc = place, !.tok = t] \in Calls
         /\ [r EXCEPT !.pc = place, !.force = b, !.rejected = t] \in Calls
         /\ [r EXCEPT !.pc = place, !.write = b] \in Calls
         /\ [r EXCEPT !.pc = place, !.last = b] \in Calls
BY Zenon DEF Calls

LEMMA NoCallFits == NoCall \in Calls /\ 0 \in Tokens
<1>1. 0 \in Tokens
  BY TokenAssumption DEF Tokens
<1>2. QED BY <1>1, Zenon DEF NoCall, Calls, CallPlaces

LEMMA NoCallIs == NoCall.pc = "idle" /\ NoCall.tok = 0 /\ ~NoCall.force
<1>1. NoCall.pc = "idle" /\ NoCall.tok = 0
  BY DEF NoCall
<1>2. NoCall.force = FALSE
  BY Zenon DEF NoCall
<1>3. QED BY <1>1, <1>2

(* A call that is replaced. *)
LEMMA Replaced ==
  ASSUME call \in [Callers -> Calls], NEW c \in Callers, NEW r \in Calls,
         call' = [call EXCEPT ![c] = r]
  PROVE  Alone(c) /\ call'[c] = r
BY DEF Alone

LEMMA StepFacts ==
  ASSUME call \in [Callers -> Calls], NEW c \in Callers, NEW place \in CallPlaces,
         Step(c, place)
  PROVE  Alone(c) /\ call'[c] = [call[c] EXCEPT !.pc = place]
<1>1. call[c] \in Calls /\ [call[c] EXCEPT !.pc = place] \in Calls
  <2>1. call[c] \in Calls
    OBVIOUS
  <2>2. QED BY <2>1, CallFits, NoCallFits
<1>2. call' = [call EXCEPT ![c] = [call[c] EXCEPT !.pc = place]]
  BY DEF Step
<1>3. QED BY <1>1, <1>2, Replaced

LEMMA DoneFacts ==
  ASSUME call \in [Callers -> Calls], NEW c \in Callers, Done(c)
  PROVE  Alone(c) /\ call'[c] = NoCall
BY Replaced, NoCallFits DEF Done

(* With a token in hand, a request is sent; after a refresh it is replayed. *)
LEMMA OnwardFacts ==
  ASSUME call \in [Callers -> Calls], NEW c \in Callers, NEW t \in Tokens, Onward(c, t)
  PROVE  /\ Alone(c)
         /\ call'[c].pc \in {"send", "replay"} /\ call'[c].tok \in {0, t}
<1>1. call[c] \in Calls
  OBVIOUS
<1>2. CASE call[c].force
  <2>1. call' = [call EXCEPT ![c] = [NoCall EXCEPT !.pc = "replay", !.write = call[c].write]]
    BY <1>2 DEF Onward
  <2>2. call[c].write \in BOOLEAN /\ "replay" \in CallPlaces
    BY <1>1, Zenon DEF Calls, CallPlaces
  <2>3. [NoCall EXCEPT !.pc = "replay", !.write = call[c].write] \in Calls
    BY <2>2, CallFits, NoCallFits, Zenon
  <2>4. call'[c] = [NoCall EXCEPT !.pc = "replay", !.write = call[c].write] /\ Alone(c)
    BY <2>1, <2>3, Replaced
  <2>5. call'[c].pc = "replay" /\ call'[c].tok = 0
    BY <2>4, Zenon DEF NoCall
  <2>6. QED BY <2>4, <2>5
<1>3. CASE ~call[c].force
  <2>1. call' = [call EXCEPT ![c] = [call[c] EXCEPT !.pc = "send", !.tok = t]]
    BY <1>3 DEF Onward
  <2>2. [call[c] EXCEPT !.pc = "send", !.tok = t] \in Calls
    BY <1>1, Zenon DEF Calls, CallPlaces
  <2>3. call'[c] = [call[c] EXCEPT !.pc = "send", !.tok = t] /\ Alone(c)
    BY <2>1, <2>2, Replaced
  <2>4. call'[c].pc = "send" /\ call'[c].tok = t
    BY <1>1, <2>3, Zenon DEF Calls
  <2>5. QED BY <2>3, <2>4
<1>4. QED BY <1>2, <1>3

(* The actions of a thread, each by what it makes of its call. *)
LEMMA BeginFacts ==
  ASSUME call \in [Callers -> Calls], NEW c \in Callers, Begin(c)
  PROVE  Alone(c) /\ call'[c].pc = "lock" /\ ~call'[c].force /\ call'[c].tok = 0
<1>1. PICK w \in BOOLEAN : call' = [call EXCEPT ![c] = [NoCall EXCEPT !.pc = "lock", !.write = w]]
  BY DEF Begin
<1>2. [NoCall EXCEPT !.pc = "lock", !.write = w] \in Calls
  BY CallFits, NoCallFits, Zenon DEF CallPlaces
<1>3. Alone(c) /\ call'[c] = [NoCall EXCEPT !.pc = "lock", !.write = w]
  BY <1>1, <1>2, Replaced
<1>4. QED BY <1>3, Zenon DEF NoCall

LEMMA LoadFacts ==
  ASSUME call \in [Callers -> Calls], cache \in Tokens, NEW c \in Callers, Load(c)
  PROVE  /\ Alone(c)
         /\ \/ /\ Cached(c) # 0 /\ UNCHANGED <<cache, holder>>
               /\ call'[c].pc \in {"send", "replay"} /\ call'[c].tok \in {0, cache}
            \/ /\ Cached(c) = 0 /\ call'[c].pc = "issue" /\ call'[c].tok = call[c].tok
               /\ holder' = holder \union {c}
<1>1. CASE Cached(c) # 0 /\ Onward(c, Cached(c))
  <2>1. Cached(c) = cache
    BY <1>1 DEF Cached
  <2>2. UNCHANGED <<cache, holder>>
    BY <1>1 DEF Load, Loaded, fileVars
  <2>3. QED BY <1>1, <2>1, <2>2, OnwardFacts
<1>2. CASE Cached(c) = 0 /\ Step(c, "issue")
  <2>1. Alone(c) /\ call'[c] = [call[c] EXCEPT !.pc = "issue"]
    BY <1>2, StepFacts DEF CallPlaces
  <2>2. call'[c].pc = "issue" /\ call'[c].tok = call[c].tok
    BY <2>1, Zenon DEF Calls
  <2>3. QED BY <1>2, <2>1, <2>2 DEF Load, Loaded
<1>3. QED BY <1>1, <1>2 DEF Load, Loaded

LEMMA IssueFacts ==
  ASSUME call \in [Callers -> Calls], mem \in [Processes -> Tokens], issued \in Tokens,
         NEW c \in Callers, Issue(c)
  PROVE  /\ Alone(c) /\ call'[c].pc = "store"
         /\ \/ call'[c].tok = mem[Home[c]] /\ UNCHANGED <<issued, valid, mem>>
            \/ /\ call'[c].tok = issued + 1 /\ Hold(c, issued + 1) /\ issued + 1 \in Tokens
               /\ issued' = issued + 1 /\ valid' = issued + 1
<1>1. call[c] \in Calls /\ mem[Home[c]] \in Tokens
  BY TokenAssumption
<1>2. PICK t \in {mem[Home[c]], issued + 1} :
        /\ call' = [call EXCEPT ![c] = [call[c] EXCEPT !.pc = "store", !.tok = t]]
        /\ \/ t = mem[Home[c]] /\ UNCHANGED <<issued, valid, mem>>
           \/ /\ t = issued + 1 /\ Hold(c, issued + 1) /\ issued < MaxTokens
              /\ issued' = issued + 1 /\ valid' = issued + 1
  BY DEF Issue, brokerVars
<1>3. t \in Tokens /\ (issued < MaxTokens => issued + 1 \in Tokens)
  BY <1>1, <1>2, TokenAssumption DEF Tokens
<1>4. [call[c] EXCEPT !.pc = "store", !.tok = t] \in Calls
  BY <1>1, <1>3, CallFits, Zenon DEF CallPlaces
<1>5. Alone(c) /\ call'[c] = [call[c] EXCEPT !.pc = "store", !.tok = t]
  BY <1>2, <1>4, Replaced
<1>6. call'[c].pc = "store" /\ call'[c].tok = t
  BY <1>1, <1>5, Zenon DEF Calls
<1>7. QED BY <1>2, <1>3, <1>5, <1>6

LEMMA IssueFailsFacts ==
  ASSUME call \in [Callers -> Calls], NEW c \in Callers, IssueFails(c)
  PROVE  Alone(c) /\ call'[c].pc \in {"send", "replay", "idle"} /\ call'[c].tok = 0
<1>1. CASE Onward(c, 0)
  BY <1>1, OnwardFacts, NoCallFits
<1>2. CASE Done(c)
  <2>1. Alone(c) /\ call'[c] = NoCall
    BY <1>2, DoneFacts
  <2>2. QED BY <2>1, NoCallIs
<1>3. QED BY <1>1, <1>2 DEF IssueFails

LEMMA SendFacts ==
  ASSUME call \in [Callers -> Calls], NEW c \in Callers, Send(c)
  PROVE  /\ Alone(c)
         /\ \/ call'[c].pc = "idle" /\ call'[c].tok = 0
            \/ /\ call'[c].pc = "rejected" /\ call'[c].tok = call[c].tok
               /\ call[c].tok # valid
<1>1. CASE Done(c)
  <2>1. Alone(c) /\ call'[c] = NoCall
    BY <1>1, DoneFacts
  <2>2. QED BY <2>1, NoCallIs
<1>2. CASE Step(c, "rejected") /\ call[c].tok # valid
  <2>1. Alone(c) /\ call'[c] = [call[c] EXCEPT !.pc = "rejected"]
    BY <1>2, StepFacts DEF CallPlaces
  <2>2. call'[c].pc = "rejected" /\ call'[c].tok = call[c].tok
    BY <2>1, Zenon DEF Calls
  <2>3. QED BY <1>2, <2>1, <2>2
<1>3. QED BY <1>1, <1>2 DEF Send

LEMMA RejectFacts ==
  ASSUME call \in [Callers -> Calls], mem \in [Processes -> Tokens], NEW c \in Callers, Reject(c)
  PROVE  Alone(c) /\ call'[c].pc = "lock" /\ call'[c].tok = call[c].tok
<1>1. call[c] \in Calls /\ mem[Home[c]] \in Tokens
  BY TokenAssumption
<1>2. call' = [call EXCEPT ![c] = [call[c] EXCEPT !.pc = "lock", !.force = TRUE,
                                                  !.rejected = mem[Home[c]]]]
  BY DEF Reject
<1>3. [call[c] EXCEPT !.pc = "lock", !.force = TRUE, !.rejected = mem[Home[c]]] \in Calls
  BY <1>1, CallFits, Zenon DEF CallPlaces
<1>4. /\ Alone(c)
      /\ call'[c] = [call[c] EXCEPT !.pc = "lock", !.force = TRUE, !.rejected = mem[Home[c]]]
  BY <1>2, <1>3, Replaced
<1>5. QED BY <1>1, <1>4, Zenon DEF Calls

LEMMA ReplayFacts ==
  ASSUME call \in [Callers -> Calls], NEW c \in Callers, Replay(c)
  PROVE  Alone(c) /\ call'[c].pc \in {"lock", "idle"} /\ ~call'[c].force /\ call'[c].tok = 0
<1>1. CASE Done(c)
  <2>1. Alone(c) /\ call'[c] = NoCall
    BY <1>1, DoneFacts
  <2>2. QED BY <2>1, NoCallIs
<1>2. CASE call' = [call EXCEPT ![c] = [NoCall EXCEPT !.pc = "lock", !.last = TRUE]]
  <2>1. [NoCall EXCEPT !.pc = "lock", !.last = TRUE] \in Calls
    BY CallFits, NoCallFits, Zenon DEF CallPlaces
  <2>2. Alone(c) /\ call'[c] = [NoCall EXCEPT !.pc = "lock", !.last = TRUE]
    BY <1>2, <2>1, Replaced
  <2>3. QED BY <2>2, Zenon DEF NoCall
<1>3. QED BY <1>1, <1>2 DEF Replay

TokenTypes ==
  /\ issued \in Tokens /\ valid \in Tokens /\ cache \in Tokens /\ fresh \in BOOLEAN
  /\ mem \in [Processes -> Tokens] /\ call \in [Callers -> Calls] /\ holder \subseteq Callers

LEMMA TokenTypesStep == TokenTypes /\ [TokenNext]_tokenVars => TokenTypes'
<1> SUFFICES ASSUME TokenTypes, [TokenNext]_tokenVars
             PROVE  TokenTypes'
  OBVIOUS
<1> USE TokenAssumption DEF TokenTypes, brokerVars, fileVars
<1>0. 0 \in Tokens
  BY NoCallFits
<1>1. ASSUME NEW c \in Callers, Begin(c) PROVE TokenTypes'
  BY <1>1, BeginFacts DEF Begin, Alone
<1>2. ASSUME NEW c \in Callers, Load(c) PROVE TokenTypes'
  <2>1. call' \in [Callers -> Calls]
    BY <1>2, LoadFacts DEF Alone
  <2>2. Cached(c) \in Tokens
    BY <1>0 DEF Cached
  <2>3. mem' \in [Processes -> Tokens]
    BY <1>0, <1>2, <2>2 DEF Load, Loaded, Hold
  <2>4. cache' \in Tokens /\ fresh' = fresh /\ holder' \subseteq Callers
    BY <1>0, <1>2 DEF Load, Loaded
  <2>5. QED BY <1>2, <2>1, <2>3, <2>4 DEF Load
<1>3. ASSUME NEW c \in Callers, Issue(c) PROVE TokenTypes'
  <2>1. /\ call' \in [Callers -> Calls]
        /\ \/ UNCHANGED <<issued, valid, mem>>
           \/ /\ Hold(c, issued + 1) /\ issued + 1 \in Tokens
              /\ issued' = issued + 1 /\ valid' = issued + 1
    BY <1>3, IssueFacts DEF Alone
  <2>2. mem' \in [Processes -> Tokens] /\ issued' \in Tokens /\ valid' \in Tokens
    BY <2>1 DEF Hold
  <2>3. QED BY <1>3, <2>1, <2>2 DEF Issue
<1>4. ASSUME NEW c \in Callers, IssueFails(c) PROVE TokenTypes'
  <2>1. call' \in [Callers -> Calls]
    BY <1>4, IssueFailsFacts DEF Alone
  <2>2. issued' \in Tokens /\ valid' \in Tokens
    BY <1>4 DEF IssueFails, Tokens
  <2>3. QED BY <1>4, <2>1, <2>2 DEF IssueFails
<1>5. ASSUME NEW c \in Callers, Store(c) PROVE TokenTypes'
  <2>1. call[c].tok \in Tokens
    BY Zenon DEF Calls
  <2>2. call' \in [Callers -> Calls]
    BY <1>5, <2>1, OnwardFacts DEF Store, Alone
  <2>3. fresh' \in BOOLEAN
    BY <1>5, Zenon DEF Store
  <2>4. QED BY <1>5, <2>1, <2>2, <2>3 DEF Store
<1>6. ASSUME NEW c \in Callers, Send(c) PROVE TokenTypes'
  BY <1>6, SendFacts DEF Send, Alone
<1>7. ASSUME NEW c \in Callers, Reject(c) PROVE TokenTypes'
  BY <1>7, RejectFacts DEF Reject, Alone
<1>8. ASSUME NEW c \in Callers, Replay(c) PROVE TokenTypes'
  BY <1>8, ReplayFacts DEF Replay, Alone
<1>9. ASSUME NEW p \in Processes, ProcessEnds(p) PROVE TokenTypes'
  <2>1. call' \in [Callers -> Calls]
    BY <1>9, NoCallFits DEF ProcessEnds
  <2>2. mem' \in [Processes -> Tokens] /\ holder' \subseteq Callers
    BY <1>0, <1>9 DEF ProcessEnds
  <2>3. QED BY <1>9, <2>1, <2>2 DEF ProcessEnds
<1>10. CASE TokenExpires
  BY <1>0, <1>10 DEF TokenExpires
<1>11. CASE CacheAges
  <2>1. fresh' \in BOOLEAN
    BY <1>11, Zenon DEF CacheAges
  <2>2. QED BY <1>11, <2>1 DEF CacheAges
<1>12. CASE UNCHANGED tokenVars
  BY <1>12 DEF tokenVars
<1>13. QED
  BY <1>1, <1>2, <1>3, <1>4, <1>5, <1>6, <1>7, <1>8, <1>9, <1>10, <1>11, <1>12
     DEF TokenNext, CallerStep

-----------------------------------------------------------------------------
(* TokenCache: the lock, the numbers, the refusals.                        *)

(* Whoever issues or stores holds the file lock, alone; the file has no fresh token to
   offer until it lets go. *)
LockInv ==
  /\ \A c \in Callers : call[c].pc \in {"issue", "store"} => c \in holder
  /\ \A c \in holder : call[c].pc \in {"issue", "store"}
  /\ \A c, d \in holder : c = d
  /\ holder # {} => cache = 0 \/ ~fresh

(* No one has a token the broker did not issue: the next one is new to all. *)
NumberInv ==
  /\ valid <= issued /\ cache <= issued
  /\ \A p \in Processes : mem[p] <= issued
  /\ \A c \in Callers : call[c].tok <= issued

(* A 401 was about a token the broker no longer accepts, and will not accept again. *)
RefusedInv ==
  \A c \in Callers :
    AtCall(c, "rejected") \/ (call[c].force /\ AtCall(c, "lock")) => valid = 0 \/ call[c].tok # valid

TokenInv == LockInv /\ NumberInv /\ RefusedInv

LEMMA LockInvStep == TokenTypes /\ LockInv /\ [TokenNext]_tokenVars => LockInv'
<1> SUFFICES ASSUME TokenTypes, LockInv, [TokenNext]_tokenVars
             PROVE  LockInv'
  OBVIOUS
<1> USE DEF TokenTypes, LockInv, brokerVars, fileVars, AtCall, Alone
(* A thread outside the lock goes where no lock is needed. *)
<1>a. ASSUME NEW c \in Callers, Alone(c), ~(call[c].pc \in {"issue", "store"}),
             ~(call'[c].pc \in {"issue", "store"}), UNCHANGED <<cache, fresh, holder>>
      PROVE  LockInv'
  BY <1>a
(* The holder lets go. *)
<1>b. ASSUME NEW c \in Callers, Alone(c), call[c].pc \in {"issue", "store"},
             ~(call'[c].pc \in {"issue", "store"}), holder' = holder \ {c}
      PROVE  LockInv'
  <2>1. holder' = {}
    BY <1>b
  <2>2. QED BY <1>b, <2>1
<1>1. ASSUME NEW c \in Callers, Begin(c) PROVE LockInv'
  BY <1>1, <1>a, BeginFacts DEF Begin
<1>2. ASSUME NEW c \in Callers, Load(c) PROVE LockInv'
  <2>1. CASE Cached(c) # 0
    <3>1. UNCHANGED <<cache, fresh, holder>>
      BY <1>2, <2>1 DEF Load, Loaded
    <3>2. QED BY <1>2, <2>1, <3>1, <1>a, LoadFacts DEF Load
  <2>2. CASE Cached(c) = 0
    <3>1. holder' = {c} /\ call'[c].pc = "issue" /\ Alone(c)
      BY <1>2, <2>2, LoadFacts DEF Load
    <3>2. cache' = 0 \/ ~fresh'
      BY <1>2, <2>2 DEF Load, Loaded, Cached, Discarded
    <3>3. \A d \in Callers : d # c => ~(call[d].pc \in {"issue", "store"})
      BY <1>2 DEF Load
    <3>4. QED BY <3>1, <3>2, <3>3
  <2>3. QED BY <2>1, <2>2
<1>3. ASSUME NEW c \in Callers, Issue(c) PROVE LockInv'
  <2>1. Alone(c) /\ call'[c].pc = "store" /\ UNCHANGED <<cache, fresh, holder>>
    BY <1>3, IssueFacts DEF Issue
  <2>2. call[c].pc = "issue"
    BY <1>3 DEF Issue
  <2>3. QED BY <2>1, <2>2
<1>4. ASSUME NEW c \in Callers, IssueFails(c) PROVE LockInv'
  BY <1>4, <1>b, IssueFailsFacts DEF IssueFails
<1>5. ASSUME NEW c \in Callers, Store(c) PROVE LockInv'
  <2>1. call[c].tok \in Tokens
    BY Zenon DEF Calls
  <2>2. Alone(c) /\ call'[c].pc \in {"send", "replay"}
    BY <1>5, <2>1, OnwardFacts DEF Store
  <2>3. call[c].pc = "store" /\ holder' = holder \ {c}
    BY <1>5 DEF Store
  <2>4. QED BY <2>2, <2>3, <1>b
<1>6. ASSUME NEW c \in Callers, Send(c) PROVE LockInv'
  BY <1>6, <1>a, SendFacts DEF Send
<1>7. ASSUME NEW c \in Callers, Reject(c) PROVE LockInv'
  BY <1>7, <1>a, RejectFacts DEF Reject
<1>8. ASSUME NEW c \in Callers, Replay(c) PROVE LockInv'
  BY <1>8, <1>a, ReplayFacts DEF Replay
<1>9. ASSUME NEW p \in Processes, ProcessEnds(p) PROVE LockInv'
  <2>1. \A c \in Callers : call'[c] = IF Home[c] = p THEN NoCall ELSE call[c]
    BY <1>9 DEF ProcessEnds
  <2>2. holder' = {c \in holder : Home[c] # p} /\ UNCHANGED <<cache, fresh>>
    BY <1>9 DEF ProcessEnds
  <2>3. QED BY <2>1, <2>2, NoCallIs
<1>10. CASE TokenExpires
  BY <1>10 DEF TokenExpires
<1>11. CASE CacheAges
  BY <1>11 DEF CacheAges
<1>12. CASE UNCHANGED tokenVars
  BY <1>12 DEF tokenVars
<1>13. QED
  BY <1>1, <1>2, <1>3, <1>4, <1>5, <1>6, <1>7, <1>8, <1>9, <1>10, <1>11, <1>12
     DEF TokenNext, CallerStep

LEMMA NumberInvStep == TokenTypes /\ NumberInv /\ [TokenNext]_tokenVars => NumberInv'
<1> SUFFICES ASSUME TokenTypes, NumberInv, [TokenNext]_tokenVars
             PROVE  NumberInv'
  OBVIOUS
<1> USE TokenAssumption DEF TokenTypes, NumberInv, brokerVars, fileVars, AtCall, Alone
<1>0. /\ issued \in Nat /\ valid \in Nat /\ cache \in Nat
      /\ \A p \in Processes : mem[p] \in Nat
      /\ \A c \in Callers : call[c].tok \in Nat
  BY DEF Tokens, Calls
<1> USE <1>0
<1>a. \A t \in Nat : t <= issued => t <= issued + 1
  OBVIOUS
(* A thread ends up with a token that is not ahead of the broker. *)
<1>b. ASSUME NEW c \in Callers, Alone(c), issued' \in {issued, issued + 1},
             call'[c].tok \in {0, cache, call[c].tok} \/ call'[c].tok <= issued'
      PROVE  \A d \in Callers : call'[d].tok <= issued'
  <2>1. \A d \in Callers : d # c => call'[d].tok <= issued'
    BY <1>b
  <2>2. call'[c].tok <= issued'
    BY <1>b
  <2>3. QED BY <2>1, <2>2
<1>1. ASSUME NEW c \in Callers, Begin(c) PROVE NumberInv'
  BY <1>1, <1>b, BeginFacts DEF Begin
<1>2. ASSUME NEW c \in Callers, Load(c) PROVE NumberInv'
  <2>1. UNCHANGED <<issued, valid>>
    BY <1>2 DEF Load
  <2>2. \A d \in Callers : call'[d].tok <= issued'
    BY <1>2, <2>1, <1>b, LoadFacts
  <2>3. cache' \in {0, cache}
    BY <1>2 DEF Load, Loaded
  <2>4. \A p \in Processes : mem'[p] \in {0, cache, mem[p]}
    BY <1>2 DEF Load, Loaded, Hold, Cached
  <2>5. QED BY <2>1, <2>2, <2>3, <2>4
<1>3. ASSUME NEW c \in Callers, Issue(c) PROVE NumberInv'
  <2>1. cache' = cache
    BY <1>3 DEF Issue
  <2>2. CASE call'[c].tok = mem[Home[c]] /\ UNCHANGED <<issued, valid, mem>>
    <3>1. call'[c].tok <= issued'
      BY <2>2
    <3>2. QED BY <1>3, <2>1, <2>2, <3>1, <1>b, IssueFacts
  <2>3. CASE /\ call'[c].tok = issued + 1 /\ Hold(c, issued + 1)
             /\ issued' = issued + 1 /\ valid' = issued + 1
    <3>1. \A d \in Callers : call'[d].tok <= issued'
      BY <1>3, <2>3, <1>b, IssueFacts
    <3>2. \A p \in Processes : mem'[p] \in {issued + 1, mem[p]}
      BY <2>3 DEF Hold
    <3>3. QED BY <2>1, <2>3, <3>1, <3>2
  <2>4. QED BY <1>3, <2>2, <2>3, IssueFacts
<1>4. ASSUME NEW c \in Callers, IssueFails(c) PROVE NumberInv'
  <2>1. /\ UNCHANGED <<cache, mem>> /\ issued' \in {issued, issued + 1}
        /\ valid' = issued' \/ UNCHANGED <<issued, valid>>
    BY <1>4 DEF IssueFails
  <2>2. \A d \in Callers : call'[d].tok <= issued'
    BY <1>4, <2>1, <1>b, IssueFailsFacts
  <2>3. QED BY <2>1, <2>2
<1>5. ASSUME NEW c \in Callers, Store(c) PROVE NumberInv'
  <2>1. call[c].tok \in Tokens
    BY Zenon DEF Calls
  <2>2. UNCHANGED <<issued, valid, mem>> /\ cache' = call[c].tok
    BY <1>5 DEF Store
  <2>3. Alone(c) /\ call'[c].tok \in {0, call[c].tok}
    BY <1>5, <2>1, OnwardFacts DEF Store
  <2>4. \A d \in Callers : call'[d].tok <= issued'
    BY <2>2, <2>3, <1>b
  <2>5. QED BY <2>2, <2>4
<1>6. ASSUME NEW c \in Callers, Send(c) PROVE NumberInv'
  BY <1>6, <1>b, SendFacts DEF Send
<1>7. ASSUME NEW c \in Callers, Reject(c) PROVE NumberInv'
  BY <1>7, <1>b, RejectFacts DEF Reject
<1>8. ASSUME NEW c \in Callers, Replay(c) PROVE NumberInv'
  BY <1>8, <1>b, ReplayFacts DEF Replay
<1>9. ASSUME NEW p \in Processes, ProcessEnds(p) PROVE NumberInv'
  <2>1. \A c \in Callers : call'[c].tok \in {0, call[c].tok}
    BY <1>9, NoCallIs DEF ProcessEnds
  <2>2. \A q \in Processes : mem'[q] \in {0, mem[q]}
    BY <1>9 DEF ProcessEnds
  <2>3. UNCHANGED <<issued, valid, cache>>
    BY <1>9 DEF ProcessEnds
  <2>4. QED BY <2>1, <2>2, <2>3
<1>10. CASE TokenExpires
  BY <1>10 DEF TokenExpires
<1>11. CASE CacheAges
  BY <1>11 DEF CacheAges
<1>12. CASE UNCHANGED tokenVars
  BY <1>12 DEF tokenVars
<1>13. QED
  BY <1>1, <1>2, <1>3, <1>4, <1>5, <1>6, <1>7, <1>8, <1>9, <1>10, <1>11, <1>12
     DEF TokenNext, CallerStep

LEMMA RefusedInvStep ==
  TokenTypes /\ NumberInv /\ RefusedInv /\ [TokenNext]_tokenVars => RefusedInv'
<1> SUFFICES ASSUME TokenTypes, NumberInv, RefusedInv, [TokenNext]_tokenVars
             PROVE  RefusedInv'
  OBVIOUS
<1> USE TokenAssumption DEF TokenTypes, RefusedInv, brokerVars, fileVars, AtCall, Alone
<1>0. /\ issued \in Nat /\ valid \in Nat
      /\ \A c \in Callers : call[c].tok \in Nat /\ call[c].tok <= issued
  BY DEF Tokens, Calls, NumberInv
<1> USE <1>0
(* A thread that is not, or not newly, a refused one. *)
<1>a. ASSUME NEW c \in Callers, Alone(c),
             \/ UNCHANGED valid
             \/ valid' = issued + 1,
             \/ call'[c].pc \notin {"rejected", "lock"}
             \/ call'[c].pc = "lock" /\ ~call'[c].force
             \/ call'[c].tok = call[c].tok /\ call[c].tok # valid /\ UNCHANGED valid
             \/ call'[c].tok = call[c].tok /\ AtCall(c, "rejected") /\ UNCHANGED valid
      PROVE  RefusedInv'
  <2>1. \A d \in Callers : call[d].tok # issued + 1
    OBVIOUS
  <2>2. ASSUME NEW d \in Callers, d # c,
               AtCall(d, "rejected")' \/ (call'[d].force /\ AtCall(d, "lock")')
        PROVE  valid' = 0 \/ call'[d].tok # valid'
    BY <1>a, <2>1, <2>2
  <2>3. AtCall(c, "rejected")' \/ (call'[c].force /\ AtCall(c, "lock")')
          => valid' = 0 \/ call'[c].tok # valid'
    BY <1>a
  <2>4. QED BY <2>2, <2>3
<1>1. ASSUME NEW c \in Callers, Begin(c) PROVE RefusedInv'
  BY <1>1, <1>a, BeginFacts DEF Begin
<1>2. ASSUME NEW c \in Callers, Load(c) PROVE RefusedInv'
  BY <1>2, <1>a, LoadFacts DEF Load
<1>3. ASSUME NEW c \in Callers, Issue(c) PROVE RefusedInv'
  BY <1>3, <1>a, IssueFacts
<1>4. ASSUME NEW c \in Callers, IssueFails(c) PROVE RefusedInv'
  BY <1>4, <1>a, IssueFailsFacts DEF IssueFails
<1>5. ASSUME NEW c \in Callers, Store(c) PROVE RefusedInv'
  <2>1. call[c].tok \in Tokens
    BY Zenon DEF Calls
  <2>2. Alone(c) /\ call'[c].pc \in {"send", "replay"}
    BY <1>5, <2>1, OnwardFacts DEF Store
  <2>3. QED BY <1>5, <2>2, <1>a DEF Store
<1>6. ASSUME NEW c \in Callers, Send(c) PROVE RefusedInv'
  BY <1>6, <1>a, SendFacts DEF Send
<1>7. ASSUME NEW c \in Callers, Reject(c) PROVE RefusedInv'
  BY <1>7, <1>a, RejectFacts DEF Reject
<1>8. ASSUME NEW c \in Callers, Replay(c) PROVE RefusedInv'
  BY <1>8, <1>a, ReplayFacts DEF Replay
<1>9. ASSUME NEW p \in Processes, ProcessEnds(p) PROVE RefusedInv'
  BY <1>9, NoCallIs DEF ProcessEnds
<1>10. CASE TokenExpires
  BY <1>10 DEF TokenExpires
<1>11. CASE CacheAges
  BY <1>11 DEF CacheAges
<1>12. CASE UNCHANGED tokenVars
  BY <1>12 DEF tokenVars
<1>13. QED
  BY <1>1, <1>2, <1>3, <1>4, <1>5, <1>6, <1>7, <1>8, <1>9, <1>10, <1>11, <1>12
     DEF TokenNext, CallerStep

LEMMA TokenInitial == TokenInit => TokenTypes /\ TokenInv
<1> SUFFICES ASSUME TokenInit PROVE TokenTypes /\ TokenInv
  OBVIOUS
<1> USE DEF TokenInit
<1>1. 0 \in Tokens /\ NoCall \in Calls
  BY NoCallFits
<1>2. fresh \in BOOLEAN
  BY Zenon
<1>3. TokenTypes
  BY <1>1, <1>2 DEF TokenTypes
<1>4. TokenInv
  BY NoCallIs DEF TokenInv, LockInv, NumberInv, RefusedInv, AtCall
<1>5. QED BY <1>3, <1>4

LEMMA TokenInductive == TokenSpec => [](TokenTypes /\ TokenInv)
<1>1. TokenTypes /\ TokenInv /\ [TokenNext]_tokenVars => (TokenTypes /\ TokenInv)'
  BY TokenTypesStep, LockInvStep, NumberInvStep, RefusedInvStep DEF TokenInv
<1>2. QED BY <1>1, TokenInitial, PTL DEF TokenSpec

(* A step that has another token issued, or changes the one in the file, finds no good
   token there, unless it is the step of a mistaken refresh. *)
LEMMA ConvergeStep ==
  ASSUME TokenTypes, TokenInv, Good, [TokenNext]_tokenVars
  PROVE  \/ issued' = issued /\ cache' = cache
         \/ \E c \in Callers : Mistaken(c) /\ AtCall(c, "issue")'
<1> USE DEF brokerVars, fileVars, Good, TokenInv
(* Nobody holds the lock. *)
<1>0. \A c \in Callers : ~(call[c].pc \in {"issue", "store"})
  <2>1. cache # 0 /\ fresh
    BY TokenAssumption DEF TokenTypes, Tokens
  <2>2. QED BY <2>1 DEF LockInv
<1>1. ASSUME NEW c \in Callers, Load(c)
      PROVE  cache' = cache \/ (Mistaken(c) /\ AtCall(c, "issue")')
  <2>1. CASE Cached(c) # 0
    BY <1>1, <2>1 DEF Load, Loaded
  <2>2. CASE Cached(c) = 0
    <3>1. call[c].force /\ call[c].rejected = valid
      BY <2>2 DEF Cached
    <3>2. call[c].tok # valid
      BY <1>1, <3>1 DEF RefusedInv, Load, AtCall
    <3>3. AtCall(c, "issue")'
      BY <1>1, <2>2, LoadFacts DEF TokenTypes, AtCall, Load
    <3>4. QED BY <1>1, <3>1, <3>2, <3>3 DEF Mistaken, Load
  <2>3. QED BY <2>1, <2>2
<1>2. ASSUME NEW c \in Callers, CallerStep(c)
      PROVE  \/ issued' = issued /\ cache' = cache
             \/ Mistaken(c) /\ AtCall(c, "issue")'
  <2>1. ~Issue(c) /\ ~IssueFails(c) /\ ~Store(c)
    BY <1>0 DEF Issue, IssueFails, Store, AtCall
  <2>2. CASE Load(c)
    BY <1>1, <2>2 DEF Load
  <2>3. CASE Begin(c) \/ Send(c) \/ Reject(c) \/ Replay(c)
    BY <2>3 DEF Begin, Send, Reject, Replay
  <2>4. QED BY <1>2, <2>1, <2>2, <2>3 DEF CallerStep
<1>3. CASE \E p \in Processes : ProcessEnds(p)
  BY <1>3 DEF ProcessEnds
<1>4. CASE TokenExpires \/ CacheAges \/ UNCHANGED tokenVars
  BY <1>4 DEF TokenExpires, CacheAges, tokenVars
<1>5. QED BY <1>2, <1>3, <1>4 DEF TokenNext

(* Every variable of the token cache keeps its type.                       *)
THEOREM TokenTypeCorrect == TokenSpec => []TokenTypeOK
<1>1. TokenTypes => TokenTypeOK
  BY DEF TokenTypes, TokenTypeOK, Calls
<1>2. QED BY <1>1, TokenInductive, PTL

(* While the file offers a token the broker accepts no process discards, overwrites or
   revokes it, short of a mistaken refresh (SharedTossTokenCache), for any number of
   processes and threads, whatever expires, fails or ends between the steps. *)
THEOREM TokensConvergeHolds == TokenSpec => TokensConverge
<1>1. TokenTypes /\ TokenInv /\ [TokenNext]_tokenVars
        => [Good => \/ issued' = issued /\ cache' = cache
                    \/ \E c \in Callers : Mistaken(c) /\ AtCall(c, "issue")']_tokenVars
  BY ConvergeStep
<1>2. QED BY <1>1, TokenInductive, PTL DEF TokenSpec, TokensConverge

-----------------------------------------------------------------------------
(* AutoAttempts: days and the ticks in them.                               *)

LEMMA TimesGrows ==
  ASSUME NEW i \in Nat, NEW j \in Nat, NEW k \in Nat, i <= j PROVE i * k <= j * k
OBVIOUS

LEMMA Division ==
  ASSUME NEW t \in Nat, NEW k \in Nat, k > 0
  PROVE  t \div k \in Nat /\ t % k \in Nat /\ t = k * (t \div k) + (t % k) /\ t % k < k
OBVIOUS

LEMMA DayHolds ==
  ASSUME NEW t \in Nat
  PROVE  /\ DayOf(t) \in Nat /\ DayOf(t) * TicksPerDay \in Nat
         /\ DayOf(t) * TicksPerDay <= t
         /\ t < DayOf(t) * TicksPerDay + TicksPerDay
         /\ InSession(t) => t < DayOf(t) * TicksPerDay + SessionTicks
         /\ NextDay(t) = DayOf(t) * TicksPerDay + TicksPerDay
<1> DEFINE T == TicksPerDay
<1>1. T \in Nat /\ T > 0 /\ SessionTicks \in Nat
  BY AttemptsAssumption
<1>2. t \div T \in Nat /\ t % T \in Nat /\ t = T * (t \div T) + (t % T) /\ t % T < T
  <2> HIDE DEF T
  <2>1. QED BY <1>1, Division
<1>3. QED BY <1>1, <1>2 DEF DayOf, InSession, NextDay

LEMMA LaterDay ==
  ASSUME NEW t \in Nat, NEW u \in Nat, t <= u PROVE DayOf(t) <= DayOf(u)
<1> SUFFICES ASSUME DayOf(u) + 1 <= DayOf(t) PROVE FALSE
  BY DayHolds
<1>1. TicksPerDay \in Nat
  BY AttemptsAssumption
<1>2. (DayOf(u) + 1) * TicksPerDay <= DayOf(t) * TicksPerDay
  <2>1. DayOf(u) + 1 \in Nat /\ DayOf(t) \in Nat
    BY DayHolds
  <2>2. QED BY <1>1, <2>1, TimesGrows
<1>3. (DayOf(u) + 1) * TicksPerDay = DayOf(u) * TicksPerDay + TicksPerDay
  BY <1>1, DayHolds
<1>4. QED BY <1>1, <1>2, <1>3, DayHolds

LEMMA DayInYear == ASSUME NEW t \in Nat, t <= MaxTick PROVE DayOf(t) \in NewYorkDays
<1>1. MaxTick \in Nat
  BY AttemptsAssumption
<1>2. QED BY <1>1, DayHolds, LaterDay DEF NewYorkDays

(* The next day is past the cooldown of an attempt of the session. *)
LEMMA NightCools ==
  ASSUME NEW t \in Nat, NEW u \in Nat, t <= u, InSession(t)
  PROVE  t + Cooldown <= NextDay(u) /\ u < NextDay(u) /\ NextDay(u) \in Nat
<1>1. /\ Cooldown \in Nat /\ TicksPerDay \in Nat /\ SessionTicks \in Nat
      /\ Cooldown <= TicksPerDay - SessionTicks
  BY AttemptsAssumption
<1>2. DayOf(t) * TicksPerDay <= DayOf(u) * TicksPerDay
  BY <1>1, DayHolds, LaterDay, TimesGrows
<1>3. /\ t < DayOf(t) * TicksPerDay + SessionTicks
      /\ NextDay(u) = DayOf(u) * TicksPerDay + TicksPerDay
      /\ u < DayOf(u) * TicksPerDay + TicksPerDay
      /\ DayOf(t) * TicksPerDay \in Nat /\ DayOf(u) * TicksPerDay \in Nat
  BY DayHolds
<1>4. QED BY <1>1, <1>2, <1>3

LEMMA NextDayIsLater == ASSUME NEW t \in Nat PROVE t < NextDay(t) /\ NextDay(t) \in Nat
<1>1. TicksPerDay \in Nat
  BY AttemptsAssumption
<1>2. QED BY <1>1, DayHolds

-----------------------------------------------------------------------------
(* AutoAttempts: the attempts of a day and their sum.                      *)

Tallies == [Buys -> Nat]

LEMMA BuysFinite == SignalCount \in Nat /\ IsFiniteSet(Buys)
<1>1. SignalCount \in Nat
  BY AttemptsAssumption
<1>2. QED BY <1>1, FS_Interval DEF Buys

LEMMA AllOfIs == ASSUME NEW count \in Tallies
  PROVE AllOf(count) = Sum(count, Buys) /\ AllOf(count) \in Nat
<1>1. AllOf(count) = Sum(count, Buys)
  BY SetSumIs DEF AllOf
<1>2. \A s \in Buys : count[s] \in Nat
  BY DEF Tallies
<1>3. QED BY <1>1, <1>2, BuysFinite, SumNat

LEMMA AllOfGrows ==
  ASSUME NEW count \in Tallies, NEW s \in Buys
  PROVE  /\ [count EXCEPT ![s] = count[s] + 1] \in Tallies
         /\ AllOf([count EXCEPT ![s] = count[s] + 1]) = AllOf(count) + 1
<1> DEFINE more == [count EXCEPT ![s] = count[s] + 1]
<1>1. \A t \in Buys : count[t] \in Int
  BY DEF Tallies
<1>2. count[s] \in Nat
  BY DEF Tallies
<1>3. more \in Tallies
  BY <1>2 DEF Tallies
<1>4. Sum(more, Buys) = Sum(count, Buys) - count[s] + (count[s] + 1)
  <2>1. more[s] = count[s] + 1 /\ \A t \in Buys : t # s => more[t] = count[t]
    BY DEF Tallies
  <2>2. \A t \in Buys : count[t] \in Int /\ more[t] \in Int
    BY <1>1, <1>3 DEF Tallies
  <2> HIDE DEF more
  <2>3. Sum(more, Buys) = Sum(count, Buys) - count[s] + more[s]
    BY <2>1, <2>2, BuysFinite, SumMoves
  <2>4. QED BY <2>1, <2>3
<1>5. AllOf(more) = Sum(more, Buys) /\ AllOf(count) = Sum(count, Buys) /\ AllOf(count) \in Nat
  <2> HIDE DEF more
  <2>1. QED BY <1>3, AllOfIs
<1>6. AllOf(more) = AllOf(count) + 1
  <2> HIDE DEF more
  <2>1. QED BY <1>2, <1>4, <1>5
<1>7. QED BY <1>3, <1>6

LEMMA AllOfCompares ==
  ASSUME NEW few \in Tallies, NEW many \in Tallies, \A s \in Buys : few[s] <= many[s]
  PROVE  AllOf(few) <= AllOf(many)
<1>1. \A s \in Buys : few[s] \in Int /\ many[s] \in Int
  BY DEF Tallies
<1>2. Sum(few, Buys) <= Sum(many, Buys)
  BY <1>1, BuysFinite, SumAtMost
<1>3. QED BY <1>2, AllOfIs

LEMMA OneOfAll ==
  ASSUME NEW count \in Tallies, NEW s \in Buys PROVE count[s] <= AllOf(count)
<1>1. \A t \in Buys : count[t] \in Nat
  BY DEF Tallies
<1>2. count[s] <= Sum(count, Buys)
  BY <1>1, BuysFinite, TermAtMost
<1>3. QED BY <1>2, AllOfIs

-----------------------------------------------------------------------------
(* AutoAttempts: the inductive invariant.                                  *)

PassPlaces == {"idle", "choose", "execute", "posted", "cool", "raised", "quarantine"}
Passes == [pc : PassPlaces, current : 0..MaxTick, sig : 0..SignalCount, plain : BOOLEAN]

TallyInv ==
  /\ tick \in Nat /\ tick <= MaxTick
  /\ cycles \in [NewYorkDays -> Tallies] /\ posts \in [NewYorkDays -> Tallies]
  /\ retryAfter \in [Buys -> Nat] /\ failedAt \in [Buys -> Nat]
  /\ wanted \subseteq Buys /\ working \subseteq Buys
  /\ shut \in BOOLEAN /\ ends \in 0..MaxEnds
  /\ attempt \in Passes

(* The rows bound the orders, and are within the limits. *)
LimitInv ==
  \A d \in NewYorkDays :
    /\ AllOf(cycles[d]) <= AttemptsPerDay
    /\ \A s \in Buys : posts[d][s] <= cycles[d][s] /\ cycles[d][s] <= AttemptsPerSignal

(* A pass stays in the day it began, and has a signal once one is chosen. *)
PassInv ==
  /\ attempt.pc # "idle" => attempt.current <= tick /\ DayOf(attempt.current) = DayOf(tick)
  /\ attempt.pc \in {"idle", "choose"} => attempt.sig = 0
  /\ attempt.pc \notin {"idle", "choose"} => attempt.sig \in Buys /\ InSession(attempt.current)

(* Before a signal is chosen the day has room for a row, and so has every signal that is
   not put off; the row that was written has no order yet. *)
RoomInv ==
  /\ attempt.pc = "choose" =>
       /\ AllOf(cycles[DayOf(attempt.current)]) < AttemptsPerDay
       /\ \A s \in Buys : \/ cycles[DayOf(attempt.current)][s] < AttemptsPerSignal
                          \/ attempt.current < retryAfter[s]
  /\ attempt.pc = "execute" =>
       posts[DayOf(attempt.current)][attempt.sig] < cycles[DayOf(attempt.current)][attempt.sig]

(* A failed attempt of the session has its cooldown in jh_auto_retry_after, or is about
   to write it. *)
CoolInv ==
  /\ \A s \in Buys : failedAt[s] # 0 =>
       /\ InSession(failedAt[s] - 1) /\ failedAt[s] - 1 <= tick
       /\ \/ failedAt[s] - 1 + Cooldown <= retryAfter[s]
          \/ attempt.pc \in {"cool", "raised"} /\ attempt.sig = s
  /\ attempt.pc \in {"cool", "raised"} => failedAt[attempt.sig] = attempt.current + 1

AttemptsInv == TallyInv /\ LimitInv /\ PassInv /\ RoomInv /\ CoolInv

LEMMA PassFields ==
  ASSUME attempt \in Passes
  PROVE  /\ attempt.pc \in PassPlaces /\ attempt.current \in Nat /\ attempt.current <= MaxTick
         /\ attempt.sig \in 0..SignalCount /\ attempt.plain \in BOOLEAN
<1>1. attempt.pc \in PassPlaces /\ attempt.current \in 0..MaxTick
  BY DEF Passes
<1>2. attempt.sig \in 0..SignalCount /\ attempt.plain \in BOOLEAN
  BY Zenon DEF Passes
<1>3. MaxTick \in Nat
  BY AttemptsAssumption
<1>4. QED BY <1>1, <1>2, <1>3

(* The pass moves to another place. *)
LEMMA PassMoves ==
  ASSUME attempt \in Passes, NEW pc \in PassPlaces, NEW b \in BOOLEAN
  PROVE  /\ [attempt EXCEPT !.pc = pc] \in Passes
         /\ [attempt EXCEPT !.pc = pc].pc = pc
         /\ [attempt EXCEPT !.pc = pc].sig = attempt.sig
         /\ [attempt EXCEPT !.pc = pc].current = attempt.current
         /\ [attempt EXCEPT !.pc = pc, !.plain = b] \in Passes
         /\ [attempt EXCEPT !.pc = pc, !.plain = b].pc = pc
         /\ [attempt EXCEPT !.pc = pc, !.plain = b].sig = attempt.sig
         /\ [attempt EXCEPT !.pc = pc, !.plain = b].current = attempt.current
BY Zenon DEF Passes

LEMMA PassGetsSignal ==
  ASSUME attempt \in Passes, NEW s \in Buys
  PROVE  /\ [attempt EXCEPT !.pc = "execute", !.sig = s] \in Passes
         /\ [attempt EXCEPT !.pc = "execute", !.sig = s].pc = "execute"
         /\ [attempt EXCEPT !.pc = "execute", !.sig = s].sig = s
         /\ [attempt EXCEPT !.pc = "execute", !.sig = s].current = attempt.current
<1>1. s \in 0..SignalCount
  BY BuysFinite DEF Buys
<1>2. QED BY <1>1, Zenon DEF Passes, PassPlaces

LEMMA NoPass == NoAttempt \in Passes /\ NoAttempt.pc = "idle" /\ NoAttempt.sig = 0
<1>1. 0 \in 0..MaxTick /\ 0 \in 0..SignalCount
  BY AttemptsAssumption
<1>2. QED BY <1>1, Zenon DEF NoAttempt, Passes, PassPlaces

LEMMA PassBegins ==
  ASSUME NEW t \in 0..MaxTick
  PROVE  /\ [NoAttempt EXCEPT !.pc = "choose", !.current = t] \in Passes
         /\ [NoAttempt EXCEPT !.pc = "choose", !.current = t].pc = "choose"
         /\ [NoAttempt EXCEPT !.pc = "choose", !.current = t].current = t
         /\ [NoAttempt EXCEPT !.pc = "choose", !.current = t].sig = 0
<1>1. 0 \in 0..SignalCount
  BY AttemptsAssumption
<1>2. QED BY <1>1, Zenon DEF NoAttempt, Passes, PassPlaces

LEMMA LimitKept == LimitInv /\ UNCHANGED <<cycles, posts>> => LimitInv'
BY DEF LimitInv

(* Nothing of what an attempt writes has changed. *)
LEMMA PassKept ==
  ASSUME PassInv, RoomInv, CoolInv, UNCHANGED <<tick, cycles, posts, retryAfter, failedAt, attempt>>
  PROVE  PassInv' /\ RoomInv' /\ CoolInv'
BY DEF PassInv, RoomInv, CoolInv, DayOf, InSession

(* The pass ends, and no failure is left without its cooldown. *)
LEMMA PassEnds ==
  ASSUME attempt' = NoAttempt,
         \A s \in Buys : failedAt'[s] # 0 =>
           /\ InSession(failedAt'[s] - 1) /\ failedAt'[s] - 1 <= tick'
           /\ failedAt'[s] - 1 + Cooldown <= retryAfter'[s]
  PROVE  PassInv' /\ RoomInv' /\ CoolInv'
<1>1. attempt'.pc = "idle" /\ attempt'.sig = 0
  BY NoPass
<1>2. PassInv'
  BY <1>1 DEF PassInv
<1>3. RoomInv'
  BY <1>1 DEF RoomInv
<1>4. CoolInv'
  BY <1>1 DEF CoolInv, InSession
<1>5. QED BY <1>2, <1>3, <1>4

LEMMA StartsHolds == AttemptInit => AttemptsInv
<1> SUFFICES ASSUME AttemptInit PROVE AttemptsInv
  OBVIOUS
<1>1. MaxTick \in Nat /\ AttemptsPerDay \in Nat /\ AttemptsPerSignal \in Nat
  BY AttemptsAssumption
<1> DEFINE none == [s \in Buys |-> 0]
<1>2. none \in Tallies /\ \A s \in Buys : none[s] = 0
  BY DEF Tallies
<1>3. AllOf(none) = 0
  <2> HIDE DEF none
  <2>1. Sum(none, Buys) = 0
    BY <1>2, BuysFinite, SumZero
  <2>2. QED BY <1>2, <2>1, AllOfIs
<1>4. TallyInv
  <2>1. attempt \in Passes
    BY NoPass DEF AttemptInit
  <2>2. cycles \in [NewYorkDays -> Tallies] /\ posts = cycles
    BY <1>2 DEF AttemptInit
  <2>3. ends \in 0..MaxEnds
    BY AttemptsAssumption DEF AttemptInit
  <2>4. QED BY <1>1, <2>1, <2>2, <2>3 DEF TallyInv, AttemptInit
<1>5. LimitInv
  <2>1. \A d \in NewYorkDays : cycles[d] = none /\ posts[d] = none
    BY DEF AttemptInit
  <2> HIDE DEF none
  <2>2. QED BY <1>1, <1>2, <1>3, <2>1 DEF LimitInv
<1>6. attempt.pc = "idle" /\ attempt.sig = 0
  BY NoPass DEF AttemptInit
<1>7. QED BY <1>4, <1>5, <1>6 DEF AttemptsInv, PassInv, RoomInv, CoolInv, AttemptInit

-----------------------------------------------------------------------------
(* AutoAttempts: what the steps keep.                                      *)

LEMMA DayNow ==
  ASSUME AttemptsInv, attempt.pc # "idle"
  PROVE  DayOf(tick) = DayOf(attempt.current) /\ DayOf(tick) \in NewYorkDays
BY DayInYear DEF AttemptsInv, TallyInv, PassInv

(* The chosen signal: its row fits. *)
Chosen == attempt.pc = "choose" /\ InSession(attempt.current) /\ Due # {}

LEMMA ChosenFits ==
  ASSUME AttemptsInv, Chosen
  PROVE  /\ Min(Due) \in Buys
         /\ DayOf(attempt.current) \in NewYorkDays
         /\ cycles[DayOf(attempt.current)][Min(Due)] < AttemptsPerSignal
         /\ AllOf(cycles[DayOf(attempt.current)]) < AttemptsPerDay
         /\ failedAt[Min(Due)] # 0 => failedAt[Min(Due)] - 1 + Cooldown <= attempt.current
<1>1. wanted \subseteq Buys /\ Buys \subseteq Nat
  BY BuysFinite DEF AttemptsInv, TallyInv, Buys
<1>2. Due \subseteq Nat /\ Due \subseteq wanted
  BY <1>1 DEF Due
<1>3. Min(Due) \in Due
  BY <1>2, MinIs DEF Chosen
<1>4. Min(Due) \in Buys /\ attempt.current >= retryAfter[Min(Due)]
  BY <1>1, <1>2, <1>3 DEF Due
<1>5. retryAfter[Min(Due)] \in Nat /\ failedAt[Min(Due)] \in Nat /\ attempt.current \in Nat
  BY <1>4, PassFields DEF AttemptsInv, TallyInv
<1>6. DayOf(attempt.current) \in NewYorkDays
  BY DayNow DEF Chosen
<1>7. attempt.pc = "choose"
  BY DEF Chosen
<1>8. /\ AllOf(cycles[DayOf(attempt.current)]) < AttemptsPerDay
      /\ \/ cycles[DayOf(attempt.current)][Min(Due)] < AttemptsPerSignal
         \/ attempt.current < retryAfter[Min(Due)]
  BY <1>4, <1>7 DEF AttemptsInv, RoomInv
<1>9. failedAt[Min(Due)] # 0 => failedAt[Min(Due)] - 1 + Cooldown <= retryAfter[Min(Due)]
  BY <1>4, <1>7 DEF AttemptsInv, CoolInv
<1>10. Cooldown \in Nat
  BY AttemptsAssumption
<1>11. QED
  <2> DEFINE m == Min(Due)
             k == attempt.current
             r == retryAfter[m]
             f == failedAt[m]
  <2>1. r \in Nat /\ k \in Nat /\ f \in Nat /\ k >= r
    BY <1>4, <1>5
  <2>2. f # 0 => f - 1 + Cooldown <= r
    BY <1>9
  <2>3. f # 0 => f - 1 + Cooldown <= k
    <3> HIDE DEF k, r, f
    <3>1. QED BY <1>10, <2>1, <2>2
  <2>4. ~(k < r)
    <3> HIDE DEF k, r, f
    <3>1. QED BY <2>1
  <2>5. QED BY <1>4, <1>6, <1>8, <2>3, <2>4

(* A row, or an order, more of a signal in a day. *)
OneMore(table, more, d, s) ==
  /\ more \in [NewYorkDays -> Tallies]
  /\ AllOf(more[d]) = AllOf(table[d]) + 1
  /\ more[d][s] = table[d][s] + 1
  /\ \A e \in NewYorkDays : e # d => more[e] = table[e]
  /\ \A t \in Buys : t # s => more[d][t] = table[d][t]

LEMMA TallyGrows ==
  ASSUME NEW table \in [NewYorkDays -> Tallies], NEW d \in NewYorkDays, NEW s \in Buys
  PROVE  OneMore(table, [table EXCEPT ![d][s] = @ + 1], d, s)
<1> DEFINE more == [table EXCEPT ![d][s] = @ + 1]
<1> DEFINE tally == [table[d] EXCEPT ![s] = table[d][s] + 1]
<1>1. more = [table EXCEPT ![d] = tally]
  OBVIOUS
<1>2. table[d] \in Tallies
  OBVIOUS
<1>3. tally \in Tallies /\ AllOf(tally) = AllOf(table[d]) + 1
  BY <1>2, AllOfGrows
<1>4. tally[s] = table[d][s] + 1 /\ \A t \in Buys : t # s => tally[t] = table[d][t]
  BY <1>2 DEF Tallies
<1> HIDE DEF tally
<1>5. more[d] = tally
  BY <1>1
<1>6. OneMore(table, more, d, s)
  <2> HIDE DEF more
  <2>1. QED BY <1>1, <1>3, <1>4, <1>5 DEF OneMore
<1>7. QED BY <1>6

LEMMA FailingIs ==
  ASSUME TallyInv, attempt.sig \in Buys
  PROVE  /\ Failing \in [Buys -> Nat] /\ Failing[attempt.sig] = attempt.current + 1
         /\ \A s \in Buys : s # attempt.sig => Failing[s] = failedAt[s]
BY PassFields DEF TallyInv, Failing

LEMMA TallyHolds == AttemptsInv /\ [AttemptNext]_attemptVars => TallyInv'
<1> SUFFICES ASSUME AttemptsInv, [AttemptNext]_attemptVars PROVE TallyInv'
  OBVIOUS
<1>1. TallyInv /\ attempt \in Passes /\ tick \in 0..MaxTick /\ MaxTick \in Nat
  BY AttemptsAssumption DEF AttemptsInv, TallyInv
<1>2. attempt.pc \notin {"idle", "choose"} => attempt.sig \in Buys
  BY DEF AttemptsInv, PassInv
<1>3. ASSUME EnforceLimits PROVE TallyInv'
  <2>1. attempt' \in Passes
    BY <1>1, <1>3, PassBegins DEF EnforceLimits
  <2>2. retryAfter' \in [Buys -> Nat]
    <3>1. \A s \in Buys : retryAfter[s] \in Nat /\ NextDay(tick) \in Nat
      BY <1>1, NextDayIsLater DEF TallyInv
    <3>2. QED BY <1>1, <1>3, <3>1 DEF EnforceLimits, TallyInv
  <2>3. shut' \in BOOLEAN
    BY <1>1, <1>3 DEF EnforceLimits, TallyInv
  <2>4. QED BY <1>1, <1>3, <2>1, <2>2, <2>3 DEF EnforceLimits, TallyInv
<1>4. ASSUME ChooseSignal PROVE TallyInv'
  <2>1. CASE UNCHANGED cycles /\ attempt' = NoAttempt
    BY <1>1, <1>4, <2>1, NoPass DEF ChooseSignal, TallyInv
  <2>2. CASE Chosen /\ attempt' = [attempt EXCEPT !.pc = "execute", !.sig = Min(Due)]
              /\ cycles' = [cycles EXCEPT ![DayOf(attempt.current)][Min(Due)] = @ + 1]
    <3>1. Min(Due) \in Buys /\ DayOf(attempt.current) \in NewYorkDays
      BY <2>2, ChosenFits
    <3>2. attempt' \in Passes
      BY <1>1, <2>2, <3>1, PassGetsSignal
    <3>3. cycles' \in [NewYorkDays -> Tallies]
      BY <1>1, <2>2, <3>1, TallyGrows DEF TallyInv, OneMore
    <3>4. QED BY <1>1, <1>4, <3>2, <3>3 DEF ChooseSignal, TallyInv
  <2>3. QED BY <1>4, <2>1, <2>2 DEF ChooseSignal, Chosen
<1>5. ASSUME AttemptRefused PROVE TallyInv'
  <2>1. attempt' \in Passes /\ attempt.sig \in Buys
    <3>1. PICK b \in BOOLEAN : attempt' = [attempt EXCEPT !.pc = "raised", !.plain = b]
      BY <1>5 DEF AttemptRefused
    <3>2. attempt.sig \in Buys /\ "raised" \in PassPlaces
      BY <1>2, <1>5 DEF AttemptRefused, PassPlaces
    <3>3. QED BY <1>1, <3>1, <3>2, PassMoves
  <2>2. failedAt' \in [Buys -> Nat]
    BY <1>1, <1>5, <2>1, FailingIs DEF AttemptRefused
  <2>3. wanted' \subseteq Buys /\ working' \subseteq Buys
    BY <1>1, <1>5, <2>1 DEF AttemptRefused, TallyInv
  <2>4. QED BY <1>1, <1>5, <2>1, <2>2, <2>3 DEF AttemptRefused, TallyInv
<1>6. ASSUME AttemptPosted PROVE TallyInv'
  <2>1. attempt' \in Passes /\ attempt.sig \in Buys
    BY <1>1, <1>2, <1>6, PassMoves DEF AttemptPosted, PassPlaces
  <2>2. DayOf(tick) \in NewYorkDays
    BY <1>6, DayNow DEF AttemptPosted
  <2>3. posts' \in [NewYorkDays -> Tallies]
    <3>1. PICK d \in NewYorkDays, m \in Buys : d = DayOf(tick) /\ m = attempt.sig
      BY <2>1, <2>2
    <3>2. posts' = [posts EXCEPT ![d][m] = @ + 1] /\ posts \in [NewYorkDays -> Tallies]
      BY <1>1, <1>6, <3>1 DEF AttemptPosted, TallyInv
    <3>3. OneMore(posts, posts', d, m)
      BY <3>2, TallyGrows
    <3>4. QED BY <3>3 DEF OneMore
  <2>4. QED BY <1>1, <1>6, <2>1, <2>3 DEF AttemptPosted, TallyInv
<1>7. ASSUME AttemptTaken PROVE TallyInv'
  BY <1>1, <1>7, NoPass DEF AttemptTaken, TallyInv
<1>8. ASSUME AttemptEnded PROVE TallyInv'
  <2>1. attempt' \in Passes /\ attempt.sig \in Buys
    <3>1. PICK pc \in {"cool", "raised"} :
               attempt' = [attempt EXCEPT !.pc = pc, !.plain = FALSE]
      BY <1>8 DEF AttemptEnded
    <3>2. attempt.sig \in Buys /\ pc \in PassPlaces /\ FALSE \in BOOLEAN
      BY <1>2, <1>8 DEF AttemptEnded, PassPlaces
    <3>3. QED BY <1>1, <3>1, <3>2, PassMoves
  <2>2. failedAt' \in [Buys -> Nat]
    BY <1>1, <1>8, <2>1, FailingIs DEF AttemptEnded
  <2>3. wanted' \subseteq Buys /\ working' \subseteq Buys
    BY <1>1, <1>8, <2>1 DEF AttemptEnded, TallyInv
  <2>4. QED BY <1>1, <1>8, <2>1, <2>2, <2>3 DEF AttemptEnded, TallyInv
<1>9. ASSUME AttemptUnknown PROVE TallyInv'
  <2>1. attempt' \in Passes /\ attempt.sig \in Buys
    BY <1>1, <1>2, <1>9, PassMoves, NoPass DEF AttemptUnknown, PassPlaces
  <2>2. failedAt' \in [Buys -> Nat] /\ shut' \in BOOLEAN
    BY <1>1, <1>9, <2>1, FailingIs DEF AttemptUnknown, TallyInv
  <2>3. QED BY <1>1, <1>9, <2>1, <2>2 DEF AttemptUnknown, TallyInv
<1>10. ASSUME CoolDown PROVE TallyInv'
  <2>1. attempt' \in Passes /\ attempt.sig \in Buys
    BY <1>1, <1>2, <1>10, PassMoves, NoPass DEF CoolDown, PassPlaces
  <2>2. attempt.current + Cooldown \in Nat
    BY <1>1, PassFields, AttemptsAssumption
  <2>3. retryAfter' \in [Buys -> Nat]
    BY <1>1, <1>10, <2>1, <2>2 DEF CoolDown, TallyInv
  <2>4. QED BY <1>1, <1>10, <2>1, <2>3 DEF CoolDown, TallyInv
<1>11. ASSUME AttemptQuarantined PROVE TallyInv'
  BY <1>1, <1>11, NoPass DEF AttemptQuarantined, TallyInv
<1>12. ASSUME TimePasses PROVE TallyInv'
  <2>1. tick' \in Nat /\ tick' <= MaxTick /\ wanted' \subseteq Buys
    BY <1>1, <1>12 DEF TimePasses, TallyInv
  <2>2. QED BY <1>1, <1>12, <2>1 DEF TimePasses, TallyInv, tryVars
<1>13. ASSUME RestOfCycle PROVE TallyInv'
  <2>1. wanted' \subseteq Buys /\ working' \subseteq Buys /\ shut' \in BOOLEAN
    BY <1>1, <1>13 DEF RestOfCycle, TallyInv
  <2>2. QED BY <1>1, <1>13, <2>1 DEF RestOfCycle, TallyInv, tryVars
<1>14. ASSUME GateShuts PROVE TallyInv'
  BY <1>1, <1>14 DEF GateShuts, TallyInv, tryVars
<1>15. ASSUME AttemptCrash PROVE TallyInv'
  <2>1. failedAt' \in [Buys -> Nat] /\ shut' \in BOOLEAN
    BY <1>15 DEF AttemptCrash
  <2>2. ends' \in 0..MaxEnds
    BY <1>1, <1>15, AttemptsAssumption DEF AttemptCrash, TallyInv
  <2>3. QED BY <1>1, <1>15, <2>1, <2>2, NoPass DEF AttemptCrash, TallyInv
<1>16. CASE UNCHANGED attemptVars
  BY <1>1, <1>16 DEF attemptVars, TallyInv
<1>17. QED BY <1>3, <1>4, <1>5, <1>6, <1>7, <1>8, <1>9, <1>10, <1>11, <1>12, <1>13, <1>14,
              <1>15, <1>16 DEF AttemptNext

LEMMA LimitHolds == AttemptsInv /\ [AttemptNext]_attemptVars => LimitInv'
<1> SUFFICES ASSUME AttemptsInv, [AttemptNext]_attemptVars PROVE LimitInv'
  OBVIOUS
<1>1. /\ LimitInv /\ cycles \in [NewYorkDays -> Tallies] /\ posts \in [NewYorkDays -> Tallies]
      /\ AttemptsPerDay \in Nat /\ AttemptsPerSignal \in Nat
  BY AttemptsAssumption DEF AttemptsInv, TallyInv
<1>2. \A d \in NewYorkDays : /\ AllOf(cycles[d]) \in Nat
                             /\ \A s \in Buys : cycles[d][s] \in Nat /\ posts[d][s] \in Nat
  BY <1>1, AllOfIs DEF Tallies
<1>3. CASE UNCHANGED <<cycles, posts>>
  BY <1>1, <1>3, LimitKept
<1>4. CASE Chosen /\ ChooseSignal /\ UNCHANGED posts
            /\ cycles' = [cycles EXCEPT ![DayOf(attempt.current)][Min(Due)] = @ + 1]
  <2>1. PICK d \in NewYorkDays : d = DayOf(attempt.current)
    BY <1>4, ChosenFits
  <2>2. PICK m \in Buys : m = Min(Due)
    BY <1>4, ChosenFits
  <2>3. cycles[d][m] < AttemptsPerSignal /\ AllOf(cycles[d]) < AttemptsPerDay
    BY <1>4, <2>1, <2>2, ChosenFits
  <2>4. /\ AllOf(cycles'[d]) = AllOf(cycles[d]) + 1
        /\ cycles'[d][m] = cycles[d][m] + 1
        /\ \A e \in NewYorkDays : e # d => cycles'[e] = cycles[e]
        /\ \A t \in Buys : t # m => cycles'[d][t] = cycles[d][t]
    <3>1. cycles' = [cycles EXCEPT ![d][m] = @ + 1]
      BY <1>4, <2>1, <2>2
    <3>2. OneMore(cycles, cycles', d, m)
      BY <1>1, <3>1, TallyGrows
    <3>3. QED BY <3>2 DEF OneMore
  <2>5. ASSUME NEW e \in NewYorkDays
        PROVE  /\ AllOf(cycles'[e]) <= AttemptsPerDay
               /\ \A s \in Buys : posts'[e][s] <= cycles'[e][s]
                                  /\ cycles'[e][s] <= AttemptsPerSignal
    <3>1. CASE e # d
      BY <1>1, <1>4, <2>4, <3>1 DEF LimitInv
    <3>2. CASE e = d
      <4>1. AllOf(cycles'[d]) <= AttemptsPerDay
        BY <1>1, <1>2, <2>3, <2>4
      <4>2. posts'[d][m] <= cycles'[d][m] /\ cycles'[d][m] <= AttemptsPerSignal
        <5>1. posts[d][m] <= cycles[d][m] /\ posts' = posts
          BY <1>1, <1>4 DEF LimitInv
        <5>2. QED BY <1>1, <1>2, <2>3, <2>4, <5>1
      <4>3. \A s \in Buys : s # m => posts'[d][s] <= cycles'[d][s]
                                     /\ cycles'[d][s] <= AttemptsPerSignal
        BY <1>1, <1>4, <2>4 DEF LimitInv
      <4>4. QED BY <3>2, <4>1, <4>2, <4>3
    <3>3. QED BY <3>1, <3>2
  <2>6. QED BY <2>5 DEF LimitInv
<1>5. ASSUME AttemptPosted PROVE LimitInv'
  <2>1. attempt.pc = "execute" /\ cycles' = cycles
    BY <1>5 DEF AttemptPosted
  <2>2. PICK d \in NewYorkDays : d = DayOf(tick) /\ d = DayOf(attempt.current)
    BY <2>1, DayNow
  <2>3. PICK m \in Buys : m = attempt.sig
    BY <2>1 DEF AttemptsInv, PassInv
  <2>4. posts[d][m] < cycles[d][m]
    BY <2>1, <2>2, <2>3 DEF AttemptsInv, RoomInv
  <2>5. posts' = [posts EXCEPT ![d][m] = @ + 1]
    BY <1>5, <2>2, <2>3 DEF AttemptPosted
  <2>6. /\ posts'[d][m] = posts[d][m] + 1
        /\ \A e \in NewYorkDays : e # d => posts'[e] = posts[e]
        /\ \A t \in Buys : t # m => posts'[d][t] = posts[d][t]
    <3>1. OneMore(posts, posts', d, m)
      BY <1>1, <2>5, TallyGrows
    <3>2. QED BY <3>1 DEF OneMore
  <2>7. posts'[d][m] <= cycles[d][m]
    BY <1>2, <2>4, <2>6
  <2>8. \A e \in NewYorkDays, s \in Buys : posts'[e][s] <= cycles[e][s]
    BY <1>1, <2>6, <2>7 DEF LimitInv
  <2>9. QED BY <1>1, <2>1, <2>8 DEF LimitInv
<1>6. QED
  <2>1. CASE ChooseSignal
    BY <1>3, <1>4, <2>1 DEF ChooseSignal, Chosen
  <2>2. CASE AttemptNext /\ ~ChooseSignal /\ ~AttemptPosted
    BY <1>3, <2>2 DEF AttemptNext, EnforceLimits, AttemptRefused, AttemptTaken, AttemptEnded,
       AttemptUnknown, CoolDown, AttemptQuarantined, TimePasses, RestOfCycle, GateShuts,
       AttemptCrash, tryVars
  <2>3. CASE UNCHANGED attemptVars
    BY <1>3, <2>3 DEF attemptVars
  <2>4. QED BY <1>5, <2>1, <2>2, <2>3

(* The cooldown a pass leaves behind when nothing of it fails. *)
LEMMA CoolKept ==
  ASSUME AttemptsInv, UNCHANGED <<tick, retryAfter, failedAt>>,
         attempt.pc \notin {"cool", "raised"}, attempt'.pc \notin {"cool", "raised"}
  PROVE  CoolInv'
BY DEF AttemptsInv, CoolInv, InSession

LEMMA PassEndsClean ==
  ASSUME AttemptsInv, attempt' = NoAttempt, UNCHANGED <<tick, retryAfter, failedAt>>,
         attempt.pc \notin {"cool", "raised"}
  PROVE  PassInv' /\ RoomInv' /\ CoolInv'
<1>1. \A s \in Buys : failedAt'[s] # 0 =>
        /\ InSession(failedAt'[s] - 1) /\ failedAt'[s] - 1 <= tick'
        /\ failedAt'[s] - 1 + Cooldown <= retryAfter'[s]
  BY DEF AttemptsInv, CoolInv
<1>2. QED BY <1>1, PassEnds

(* The attempt of the signal has failed. *)
LEMMA PassFails ==
  ASSUME AttemptsInv, attempt.pc \notin {"idle", "choose", "cool", "raised"},
         NEW pc \in {"cool", "raised"}, NEW b \in BOOLEAN,
         attempt' = [attempt EXCEPT !.pc = pc, !.plain = b], failedAt' = Failing,
         UNCHANGED <<tick, retryAfter>>
  PROVE  PassInv' /\ RoomInv' /\ CoolInv'
<1>1. TallyInv /\ PassInv /\ CoolInv /\ attempt \in Passes
  BY DEF AttemptsInv, TallyInv
<1>2. pc \in PassPlaces
  BY DEF PassPlaces
<1>3. attempt'.pc = pc /\ attempt'.sig = attempt.sig /\ attempt'.current = attempt.current
  BY <1>1, <1>2, PassMoves
<1>4. /\ attempt.sig \in Buys /\ InSession(attempt.current) /\ attempt.current <= tick
      /\ DayOf(attempt.current) = DayOf(tick)
  BY <1>1 DEF PassInv
<1>5. PassInv'
  BY <1>3, <1>4 DEF PassInv, DayOf, InSession
<1>6. RoomInv'
  BY <1>3 DEF RoomInv
<1>7. /\ failedAt'[attempt.sig] = attempt.current + 1
      /\ \A s \in Buys : s # attempt.sig => failedAt'[s] = failedAt[s]
  BY <1>1, <1>4, FailingIs
<1>8. attempt.current \in Nat
  BY <1>1, PassFields
<1>9. ASSUME NEW s \in Buys, failedAt'[s] # 0
      PROVE  /\ InSession(failedAt'[s] - 1) /\ failedAt'[s] - 1 <= tick'
             /\ \/ failedAt'[s] - 1 + Cooldown <= retryAfter'[s]
                \/ attempt'.pc \in {"cool", "raised"} /\ attempt'.sig = s
  <2>1. CASE s = attempt.sig
    <3>1. failedAt'[s] = attempt.current + 1 /\ attempt'.sig = s /\ attempt'.pc = pc
      BY <1>3, <1>7, <2>1
    <3>2. failedAt'[s] - 1 = attempt.current
      BY <1>8, <3>1
    <3>3. InSession(failedAt'[s] - 1) /\ failedAt'[s] - 1 <= tick'
      BY <1>4, <3>2
    <3>4. QED BY <3>1, <3>3
  <2>2. CASE s # attempt.sig
    <3>1. failedAt'[s] = failedAt[s] /\ retryAfter'[s] = retryAfter[s] /\ tick' = tick
      BY <1>7, <2>2
    <3>2. /\ InSession(failedAt[s] - 1) /\ failedAt[s] - 1 <= tick
          /\ failedAt[s] - 1 + Cooldown <= retryAfter[s]
      BY <1>1, <1>9, <3>1 DEF CoolInv
    <3>3. QED BY <3>1, <3>2
  <2>3. QED BY <2>1, <2>2
<1>10. CoolInv'
  BY <1>3, <1>7, <1>9 DEF CoolInv, InSession
<1>11. QED BY <1>5, <1>6, <1>10

(* _enforce_attempt_limits: the value of the next day is past every cooldown. *)
LEMMA EnforcePasses ==
  ASSUME AttemptsInv, EnforceLimits PROVE PassInv' /\ RoomInv' /\ CoolInv'
<1>1. /\ TallyInv /\ PassInv /\ CoolInv /\ attempt.pc = "idle" /\ tick \in 0..MaxTick
      /\ tick \in Nat /\ UNCHANGED <<tick, cycles, posts, failedAt>>
  BY AttemptsAssumption DEF AttemptsInv, TallyInv, EnforceLimits
<1>2. CASE UNCHANGED <<retryAfter, attempt>>
  BY <1>1, <1>2, PassKept DEF AttemptsInv
<1>3. CASE /\ ~(AllOf(cycles[DayOf(tick)]) >= AttemptsPerDay)
           /\ retryAfter' = [s \in Buys |->
                               IF cycles[DayOf(tick)][s] >= AttemptsPerSignal
                               THEN NextDay(tick) ELSE retryAfter[s]]
           /\ attempt' = [NoAttempt EXCEPT !.pc = "choose", !.current = tick]
  <2>1. attempt'.pc = "choose" /\ attempt'.sig = 0 /\ attempt'.current = tick
    BY <1>1, <1>3, PassBegins
  <2>2. DayOf(tick) \in NewYorkDays /\ cycles \in [NewYorkDays -> Tallies]
    BY <1>1, DayInYear DEF TallyInv
  <2>3. AllOf(cycles[DayOf(tick)]) < AttemptsPerDay
    <3>1. AllOf(cycles[DayOf(tick)]) \in Nat /\ AttemptsPerDay \in Nat
      BY <2>2, AllOfIs, AttemptsAssumption
    <3>2. QED BY <1>3, <3>1
  <2>4. PassInv'
    BY <1>1, <2>1 DEF PassInv, DayOf
  <2>5. ASSUME NEW s \in Buys
        PROVE  cycles[DayOf(tick)][s] < AttemptsPerSignal \/ tick < retryAfter'[s]
    <3>1. cycles[DayOf(tick)][s] \in Nat /\ AttemptsPerSignal \in Nat
      BY <2>2, AttemptsAssumption DEF Tallies
    <3>2. tick < NextDay(tick)
      BY <1>1, NextDayIsLater
    <3>3. QED BY <1>3, <3>1, <3>2
  <2>6. RoomInv'
    BY <1>1, <2>1, <2>3, <2>5 DEF RoomInv, DayOf
  <2>7. ASSUME NEW s \in Buys, failedAt[s] # 0
        PROVE  /\ InSession(failedAt[s] - 1) /\ failedAt[s] - 1 <= tick
               /\ failedAt[s] - 1 + Cooldown <= retryAfter'[s]
    <3>1. /\ InSession(failedAt[s] - 1) /\ failedAt[s] - 1 <= tick
          /\ failedAt[s] - 1 + Cooldown <= retryAfter[s]
      BY <1>1, <2>7 DEF CoolInv
    <3>2. failedAt[s] - 1 \in Nat
      <4>1. failedAt[s] \in Nat
        BY <1>1 DEF TallyInv
      <4>2. QED BY <2>7, <4>1
    <3>3. failedAt[s] - 1 + Cooldown <= NextDay(tick)
      BY <1>1, <3>1, <3>2, NightCools
    <3>4. QED BY <1>3, <3>1, <3>3
  <2>8. CoolInv'
    BY <1>1, <2>1, <2>7 DEF CoolInv, InSession
  <2>9. QED BY <2>4, <2>6, <2>8
<1>4. QED BY <1>2, <1>3 DEF EnforceLimits

LEMMA ChoosePasses ==
  ASSUME AttemptsInv, ChooseSignal PROVE PassInv' /\ RoomInv' /\ CoolInv'
<1>1. /\ TallyInv /\ LimitInv /\ PassInv /\ CoolInv /\ attempt.pc = "choose"
      /\ UNCHANGED <<tick, posts, retryAfter, failedAt>>
  BY DEF AttemptsInv, ChooseSignal
<1>2. CASE attempt' = NoAttempt
  BY <1>1, <1>2, PassEndsClean
<1>3. CASE /\ Chosen
           /\ attempt' = [attempt EXCEPT !.pc = "execute", !.sig = Min(Due)]
           /\ cycles' = [cycles EXCEPT ![DayOf(attempt.current)][Min(Due)] = @ + 1]
  <2>1. PICK d \in NewYorkDays, m \in Buys : d = DayOf(attempt.current) /\ m = Min(Due)
    BY <1>3, ChosenFits
  <2>2. attempt'.pc = "execute" /\ attempt'.sig = m /\ attempt'.current = attempt.current
    BY <1>1, <1>3, <2>1, PassGetsSignal DEF TallyInv
  <2>3. PassInv'
    BY <1>1, <1>3, <2>2 DEF PassInv, DayOf, InSession, Chosen
  <2>4. cycles' = [cycles EXCEPT ![d][m] = @ + 1] /\ cycles \in [NewYorkDays -> Tallies]
    BY <1>1, <1>3, <2>1 DEF TallyInv
  <2>5. OneMore(cycles, cycles', d, m)
    BY <2>4, TallyGrows
  <2>6. posts[d][m] <= cycles[d][m] /\ cycles[d][m] \in Nat /\ posts[d][m] \in Nat
    BY <1>1 DEF LimitInv, TallyInv, Tallies
  <2>7. posts'[d][m] < cycles'[d][m]
    <3>1. cycles'[d][m] = cycles[d][m] + 1 /\ posts' = posts
      BY <1>1, <2>5 DEF OneMore
    <3>2. QED BY <2>6, <3>1
  <2>8. RoomInv'
    BY <2>1, <2>2, <2>7 DEF RoomInv, DayOf
  <2>9. CoolInv'
    BY <1>1, <2>2, CoolKept
  <2>10. QED BY <2>3, <2>8, <2>9
<1>4. QED BY <1>2, <1>3 DEF ChooseSignal, Chosen

LEMMA CoolDownPasses ==
  ASSUME AttemptsInv, CoolDown PROVE PassInv' /\ RoomInv' /\ CoolInv'
<1>1. /\ TallyInv /\ PassInv /\ CoolInv /\ attempt.pc \in {"cool", "raised"}
      /\ attempt \in Passes /\ UNCHANGED <<tick, failedAt>>
      /\ retryAfter' = [retryAfter EXCEPT ![attempt.sig] = attempt.current + Cooldown]
  BY DEF AttemptsInv, TallyInv, CoolDown
<1>2. /\ attempt.sig \in Buys /\ InSession(attempt.current) /\ attempt.current <= tick
      /\ DayOf(attempt.current) = DayOf(tick)
      /\ failedAt[attempt.sig] = attempt.current + 1
  BY <1>1 DEF PassInv, CoolInv
<1>3. attempt.current \in Nat /\ Cooldown \in Nat
  BY <1>1, PassFields, AttemptsAssumption
<1>4. ASSUME NEW s \in Buys, failedAt'[s] # 0
      PROVE  /\ InSession(failedAt'[s] - 1) /\ failedAt'[s] - 1 <= tick'
             /\ failedAt'[s] - 1 + Cooldown <= retryAfter'[s]
  <2>1. CASE s = attempt.sig
    <3>1. failedAt'[s] - 1 = attempt.current
      BY <1>1, <1>2, <1>3, <2>1
    <3>2. retryAfter'[s] = attempt.current + Cooldown
      BY <1>1, <2>1 DEF TallyInv
    <3>3. InSession(failedAt'[s] - 1) /\ failedAt'[s] - 1 <= tick'
      BY <1>1, <1>2, <3>1
    <3>4. failedAt'[s] - 1 + Cooldown <= retryAfter'[s]
      BY <1>3, <3>1, <3>2
    <3>5. QED BY <3>3, <3>4
  <2>2. CASE s # attempt.sig
    <3>1. failedAt'[s] = failedAt[s] /\ tick' = tick /\ retryAfter'[s] = retryAfter[s]
      BY <1>1, <2>2 DEF TallyInv
    <3>2. QED BY <1>1, <1>4, <2>2, <3>1 DEF CoolInv
  <2>3. QED BY <2>1, <2>2
<1>5. CASE attempt' = NoAttempt
  BY <1>4, <1>5, PassEnds
<1>6. CASE attempt' = [attempt EXCEPT !.pc = "quarantine"]
  <2>1. /\ attempt'.pc = "quarantine" /\ attempt'.sig = attempt.sig
        /\ attempt'.current = attempt.current
    BY <1>1, <1>6, PassMoves DEF PassPlaces
  <2>2. PassInv'
    BY <1>1, <1>2, <2>1 DEF PassInv, DayOf, InSession
  <2>3. RoomInv'
    BY <2>1 DEF RoomInv
  <2>4. CoolInv'
    BY <1>4, <2>1 DEF CoolInv, InSession
  <2>5. QED BY <2>2, <2>3, <2>4
<1>7. QED BY <1>5, <1>6 DEF CoolDown

LEMMA PassHolds == AttemptsInv /\ [AttemptNext]_attemptVars => PassInv' /\ RoomInv' /\ CoolInv'
<1> SUFFICES ASSUME AttemptsInv, [AttemptNext]_attemptVars PROVE PassInv' /\ RoomInv' /\ CoolInv'
  OBVIOUS
<1>1. TallyInv /\ PassInv /\ RoomInv /\ CoolInv /\ attempt \in Passes /\ tick \in Nat
  BY DEF AttemptsInv, TallyInv
<1>2. CASE UNCHANGED <<tick, cycles, posts, retryAfter, failedAt, attempt>>
  BY <1>1, <1>2, PassKept
<1>3. ASSUME AttemptRefused PROVE PassInv' /\ RoomInv' /\ CoolInv'
  <2>1. PICK b \in BOOLEAN : attempt' = [attempt EXCEPT !.pc = "raised", !.plain = b]
    BY <1>3 DEF AttemptRefused
  <2>2. "raised" \in {"cool", "raised"}
    OBVIOUS
  <2>3. QED BY <1>3, <2>1, <2>2, PassFails DEF AttemptRefused
<1>4. ASSUME AttemptPosted PROVE PassInv' /\ RoomInv' /\ CoolInv'
  <2>1. /\ attempt'.pc = "posted" /\ attempt'.sig = attempt.sig /\ attempt.pc = "execute"
        /\ attempt'.current = attempt.current /\ UNCHANGED <<tick, retryAfter, failedAt>>
    BY <1>1, <1>4, PassMoves DEF AttemptPosted, PassPlaces
  <2>2. PassInv'
    BY <1>1, <2>1 DEF PassInv, DayOf, InSession
  <2>3. RoomInv'
    BY <2>1 DEF RoomInv
  <2>4. CoolInv'
    BY <2>1, CoolKept
  <2>5. QED BY <2>2, <2>3, <2>4
<1>5. ASSUME AttemptTaken PROVE PassInv' /\ RoomInv' /\ CoolInv'
  BY <1>5, PassEndsClean DEF AttemptTaken
<1>6. ASSUME AttemptEnded PROVE PassInv' /\ RoomInv' /\ CoolInv'
  <2>1. PICK pc \in {"cool", "raised"} : attempt' = [attempt EXCEPT !.pc = pc, !.plain = FALSE]
    BY <1>6 DEF AttemptEnded
  <2>2. QED BY <1>6, <2>1, PassFails DEF AttemptEnded
<1>7. ASSUME AttemptUnknown PROVE PassInv' /\ RoomInv' /\ CoolInv'
  <2>1. CASE attempt' = NoAttempt /\ UNCHANGED failedAt
    BY <1>7, <2>1, PassEndsClean DEF AttemptUnknown
  <2>2. CASE attempt' = [attempt EXCEPT !.pc = "raised", !.plain = FALSE] /\ failedAt' = Failing
    <3>1. "raised" \in {"cool", "raised"}
      OBVIOUS
    <3>2. QED BY <1>7, <2>2, <3>1, PassFails DEF AttemptUnknown
  <2>3. QED BY <1>7, <2>1, <2>2 DEF AttemptUnknown
<1>8. ASSUME AttemptQuarantined PROVE PassInv' /\ RoomInv' /\ CoolInv'
  BY <1>8, PassEndsClean DEF AttemptQuarantined
<1>9. ASSUME TimePasses PROVE PassInv' /\ RoomInv' /\ CoolInv'
  <2>1. tick' = tick + 1 /\ UNCHANGED <<cycles, posts, retryAfter, failedAt, attempt>>
    BY <1>9 DEF TimePasses, tryVars
  <2>2. attempt.pc # "idle" => DayOf(tick') = DayOf(tick)
    BY <1>9 DEF TimePasses
  <2>3. attempt.pc # "idle" => attempt.current <= tick'
    <3>1. attempt.current \in Nat
      BY <1>1, PassFields
    <3>2. QED BY <1>1, <2>1, <3>1 DEF PassInv
  <2>4. PassInv'
    BY <1>1, <2>1, <2>2, <2>3 DEF PassInv, DayOf, InSession
  <2>5. RoomInv'
    BY <1>1, <2>1 DEF RoomInv, DayOf
  <2>6. \A s \in Buys : failedAt[s] # 0 => failedAt[s] - 1 <= tick'
    <3>1. \A s \in Buys : failedAt[s] \in Nat
      BY <1>1 DEF TallyInv
    <3>2. QED BY <1>1, <2>1, <3>1 DEF CoolInv
  <2>7. CoolInv'
    BY <1>1, <2>1, <2>6 DEF CoolInv, InSession
  <2>8. QED BY <2>4, <2>5, <2>7
<1>10. ASSUME AttemptCrash PROVE PassInv' /\ RoomInv' /\ CoolInv'
  <2>1. attempt' = NoAttempt /\ \A s \in Buys : failedAt'[s] = 0
    BY <1>10 DEF AttemptCrash
  <2>2. QED BY <2>1, PassEnds
<1>11. CASE RestOfCycle \/ GateShuts \/ UNCHANGED attemptVars
  BY <1>2, <1>11 DEF RestOfCycle, GateShuts, attemptVars, tryVars
<1>12. QED BY <1>3, <1>4, <1>5, <1>6, <1>7, <1>8, <1>9, <1>10, <1>11, EnforcePasses,
              ChoosePasses, CoolDownPasses DEF AttemptNext

-----------------------------------------------------------------------------
(* AutoAttempts: the theorems.                                             *)

LEMMA AttemptsKept == AttemptsInv /\ [AttemptNext]_attemptVars => AttemptsInv'
BY TallyHolds, LimitHolds, PassHolds DEF AttemptsInv

LEMMA AttemptsInvHolds == AttemptSpec => []AttemptsInv
BY StartsHolds, AttemptsKept, PTL DEF AttemptSpec

(* The rows and the orders of a day fit the limits, whatever they are. *)
THEOREM AttemptsTypeCorrect == AttemptSpec => []AttemptTypeOK
<1>1. AttemptsInv => AttemptTypeOK
  <2> SUFFICES ASSUME AttemptsInv PROVE AttemptTypeOK
    OBVIOUS
  <2>1. TallyInv /\ LimitInv /\ attempt \in Passes /\ AttemptsPerDay \in Nat
    BY AttemptsAssumption DEF AttemptsInv, TallyInv
  <2>2. ASSUME NEW d \in NewYorkDays, NEW s \in Buys
        PROVE  cycles[d][s] \in 0..AttemptsPerDay /\ posts[d][s] \in 0..AttemptsPerDay
    <3>1. cycles[d] \in Tallies /\ posts[d] \in Tallies
      BY <2>1 DEF TallyInv
    <3>2. cycles[d][s] \in Nat /\ posts[d][s] \in Nat
      BY <3>1 DEF Tallies
    <3>3. cycles[d][s] <= AllOf(cycles[d]) /\ AllOf(cycles[d]) \in Nat
      BY <3>1, OneOfAll, AllOfIs
    <3>4. AllOf(cycles[d]) <= AttemptsPerDay /\ posts[d][s] <= cycles[d][s]
      BY <2>1 DEF LimitInv
    <3>5. QED BY <2>1, <3>2, <3>3, <3>4
  <2>3. /\ cycles \in [NewYorkDays -> [Buys -> 0..AttemptsPerDay]]
        /\ posts \in [NewYorkDays -> [Buys -> 0..AttemptsPerDay]]
    BY <2>1, <2>2 DEF TallyInv, Tallies
  <2>4. tick \in 0..MaxTick
    BY <2>1, AttemptsAssumption DEF TallyInv
  <2>5. attempt \in [pc : {"idle", "choose", "execute", "posted", "cool", "raised",
                           "quarantine"},
                     current : 0..MaxTick, sig : 0..SignalCount, plain : BOOLEAN]
    BY <2>1 DEF Passes, PassPlaces
  <2>6. QED BY <2>1, <2>3, <2>4, <2>5, Zenon DEF AttemptTypeOK, TallyInv
<1>2. QED BY <1>1, AttemptsInvHolds, PTL

(* "동일 신호 3회, 전체 BUY 시도 5회 상한" for any limits, days and signals; and a failed
   signal waits for its cooldown although the limit writes the same value. *)
THEOREM AttemptsBoundedHolds == AttemptSpec => AttemptsBounded
<1>1. AttemptsInv => PostsLimited
  <2> SUFFICES ASSUME AttemptsInv, NEW d \in NewYorkDays
               PROVE  /\ AllOf(posts[d]) <= AttemptsPerDay
                      /\ \A s \in Buys : posts[d][s] <= AttemptsPerSignal
    BY DEF PostsLimited
  <2>1. cycles[d] \in Tallies /\ posts[d] \in Tallies
    BY DEF AttemptsInv, TallyInv
  <2>2. /\ AllOf(cycles[d]) <= AttemptsPerDay
        /\ \A s \in Buys : posts[d][s] <= cycles[d][s] /\ cycles[d][s] <= AttemptsPerSignal
    BY DEF AttemptsInv, LimitInv
  <2>3. AllOf(posts[d]) <= AllOf(cycles[d])
    BY <2>1, <2>2, AllOfCompares
  <2>4. AllOf(posts[d]) \in Nat /\ AllOf(cycles[d]) \in Nat
    BY <2>1, AllOfIs
  <2>5. \A s \in Buys : posts[d][s] \in Nat /\ cycles[d][s] \in Nat
    BY <2>1 DEF Tallies
  <2>6. AttemptsPerDay \in Nat /\ AttemptsPerSignal \in Nat
    BY AttemptsAssumption
  <2>7. AllOf(posts[d]) <= AttemptsPerDay
    BY <2>2, <2>3, <2>4, <2>6
  <2>8. \A s \in Buys : posts[d][s] <= AttemptsPerSignal
    BY <2>2, <2>5, <2>6
  <2>9. QED BY <2>7, <2>8
<1> DEFINE Waited == \A s \in Buys : (attempt.sig # s /\ attempt'.sig = s /\ failedAt[s] # 0)
                                      => attempt'.current >= failedAt[s] - 1 + Cooldown
<1>2. AttemptsInv /\ [AttemptNext]_attemptVars => [Waited]_attemptVars
  <2> SUFFICES ASSUME AttemptsInv, AttemptNext, NEW s \in Buys,
                      attempt.sig # s, attempt'.sig = s, failedAt[s] # 0
               PROVE  attempt'.current >= failedAt[s] - 1 + Cooldown
    OBVIOUS
  <2>1. s # 0 /\ attempt \in Passes /\ tick \in 0..MaxTick
    BY BuysFinite, AttemptsAssumption DEF Buys, AttemptsInv, TallyInv
  <2>2. CASE Chosen /\ attempt' = [attempt EXCEPT !.pc = "execute", !.sig = Min(Due)]
    <3>1. PICK m \in Buys : m = Min(Due)
      BY <2>2, ChosenFits
    <3>2. attempt'.sig = m /\ attempt'.current = attempt.current
      BY <2>1, <2>2, <3>1, PassGetsSignal
    <3>3. failedAt[s] - 1 + Cooldown <= attempt.current
      BY <2>2, <3>1, <3>2, ChosenFits
    <3>4. attempt.current \in Nat /\ failedAt[s] \in Nat /\ Cooldown \in Nat
      BY <2>1, PassFields, AttemptsAssumption DEF AttemptsInv, TallyInv
    <3>5. QED BY <3>2, <3>3, <3>4
  <2>3. CASE attempt' = NoAttempt
    BY <2>1, <2>3, NoPass
  <2>4. CASE attempt'.sig = attempt.sig
    BY <2>4
  <2>5. CASE EnforceLimits
    BY <2>1, <2>4, <2>5, PassBegins DEF EnforceLimits
  <2>6. CASE ChooseSignal
    BY <2>2, <2>3, <2>6 DEF ChooseSignal, Chosen
  <2>7. CASE AttemptRefused
    <3>1. PICK b \in BOOLEAN : attempt' = [attempt EXCEPT !.pc = "raised", !.plain = b]
      BY <2>7 DEF AttemptRefused
    <3>2. "raised" \in PassPlaces
      BY DEF PassPlaces
    <3>3. QED BY <2>1, <2>4, <3>1, <3>2, PassMoves
  <2>8. CASE AttemptEnded
    <3>1. PICK pc \in {"cool", "raised"} : attempt' = [attempt EXCEPT !.pc = pc, !.plain = FALSE]
      BY <2>8 DEF AttemptEnded
    <3>2. QED BY <2>1, <2>4, <3>1, PassMoves DEF PassPlaces
  <2>9. CASE AttemptPosted \/ AttemptUnknown \/ CoolDown
    <3>1. \/ attempt' = [attempt EXCEPT !.pc = "posted"]
          \/ attempt' = NoAttempt
          \/ attempt' = [attempt EXCEPT !.pc = "raised", !.plain = FALSE]
          \/ attempt' = [attempt EXCEPT !.pc = "quarantine"]
      BY <2>9 DEF AttemptPosted, AttemptUnknown, CoolDown
    <3>2. {"posted", "raised", "quarantine"} \subseteq PassPlaces /\ FALSE \in BOOLEAN
      BY DEF PassPlaces
    <3>3. /\ [attempt EXCEPT !.pc = "posted"].sig = attempt.sig
          /\ [attempt EXCEPT !.pc = "quarantine"].sig = attempt.sig
          /\ [attempt EXCEPT !.pc = "raised", !.plain = FALSE].sig = attempt.sig
      BY <2>1, <3>2, PassMoves, Zenon
    <3>4. QED BY <2>3, <2>4, <3>1, <3>3
  <2>10. CASE AttemptTaken \/ AttemptQuarantined \/ AttemptCrash
    BY <2>3, <2>10 DEF AttemptTaken, AttemptQuarantined, AttemptCrash
  <2>11. CASE TimePasses \/ RestOfCycle \/ GateShuts
    BY <2>4, <2>11 DEF TimePasses, RestOfCycle, GateShuts, tryVars
  <2>12. QED BY <2>5, <2>6, <2>7, <2>8, <2>9, <2>10, <2>11 DEF AttemptNext
<1>3. AttemptSpec => []PostsLimited
  BY <1>1, AttemptsInvHolds, PTL
<1>4. AttemptSpec => [][Waited]_attemptVars
  BY <1>2, AttemptsInvHolds, PTL DEF AttemptSpec
<1>5. QED BY <1>3, <1>4 DEF AttemptsBounded, Cooled

-----------------------------------------------------------------------------
(* PaperBroker.                                                            *)

PaperSettled == {"FILLED", "CANCELED"}
PaperTasks ==
  {Rest} \cup [at : {"place", "apply"}, order : PaperOrders]
    \cup [at : {"store"}, order : PaperOrders, dry : Nat, status : PaperSettled \cup {"PENDING"}]

PaperTyped ==
  /\ row \in [PaperOrders -> [status : Statuses \cup {"NONE"}, dry : Nat]]
  /\ credited \subseteq PaperOrders
  /\ shares \in Nat /\ stock \in Nat /\ lastDry \in Nat /\ starts \in Nat
  /\ DOMAIN dry \subseteq 1..lastDry
  /\ dry \in [DOMAIN dry -> [order : PaperOrders, status : PaperSettled \cup {"PENDING"}]]
  /\ task \in [PaperThreads -> PaperTasks]

(* A number belongs to one order, in the rows and at the broker.           *)
NumbersInv ==
  /\ \A o \in PaperOrders : row[o].dry <= lastDry
  /\ \A o \in PaperOrders : row[o].dry \in DOMAIN dry => dry[row[o].dry].order = o
  /\ \A n, m \in DOMAIN dry : dry[n].order = dry[m].order => n = m
  /\ DryNumberIsOne

(* A row has a number once the broker answered; what is settled in the row is
   settled at the broker. *)
RowsInv ==
  /\ \A o \in PaperOrders : row[o].dry # 0 <=> row[o].status \in PaperSettled \cup {"PENDING"}
  /\ \A o \in Asked : row[o].dry \in DOMAIN dry
  /\ \A n \in DOMAIN dry :
       /\ row[dry[n].order].status \in {"CREATED", "PENDING"} \cup PaperSettled
       /\ row[dry[n].order].dry \in {0, n}
       /\ row[dry[n].order].status \in PaperSettled =>
            row[dry[n].order].status = dry[n].status

(* What a thread holds: the one order it is about to place, or a receipt of the broker. *)
TasksInv ==
  \A t \in PaperThreads :
    /\ Doing(t, "place") =>
         /\ row[task[t].order].status = "CREATED"
         /\ \A n \in DOMAIN dry : dry[n].order # task[t].order
         /\ \A u \in PaperThreads :
              Doing(u, "place") /\ task[u].order = task[t].order => u = t
    /\ Doing(t, "store") =>
         /\ task[t].dry \in DOMAIN dry /\ dry[task[t].dry].order = task[t].order
         /\ task[t].status \in PaperSettled => dry[task[t].dry].status = task[t].status

(* What the rows do not say yet, some thread is about to write.            *)
CarriedInv ==
  /\ \A n \in DOMAIN dry : row[dry[n].order].status # dry[n].status =>
       \E t \in PaperThreads :
         Doing(t, "store") /\ task[t].dry = n /\ task[t].status = dry[n].status
  /\ \A o \in Uncredited : \E t \in PaperThreads : Doing(t, "apply") /\ task[t].order = o

(* Fills the broker has booked and the position has not.                   *)
Ahead ==
  {o \in PaperOrders \ credited : \E n \in DOMAIN dry :
     dry[n].order = o /\ dry[n].status = "FILLED"}

Net(A) == Cardinality(A \cap PaperBuys) - Cardinality(A \cap PaperSells)

StockInv ==
  /\ stock = shares + Net(Ahead)
  /\ \A o \in credited : row[o].status = "FILLED"
  /\ Uncredited \subseteq Ahead
  /\ \A o \in PaperSells : row[o].status # "NONE" /\ o \notin credited => shares >= 1

PaperInv == PaperTyped /\ NumbersInv /\ RowsInv /\ TasksInv /\ CarriedInv /\ StockInv

LEMMA PaperFinite == ASSUME NEW A PROVE IsFiniteSet(A \cap PaperBuys) /\ IsFiniteSet(A \cap PaperSells)
BY FS_Subset, PaperRowsAssumption

LEMMA NetInt == ASSUME NEW A PROVE Net(A) \in Int
<1> DEFINE b == Cardinality(A \cap PaperBuys)
           c == Cardinality(A \cap PaperSells)
<1>1. b \in Nat /\ c \in Nat
  BY PaperFinite, FS_CardinalityType
<1>2. Net(A) = b - c
  BY DEF Net
<1> HIDE DEF b, c
<1>3. QED BY <1>1, <1>2

(* An order more or less in the set moves the sum as its fill moves the shares. *)
LEMMA NetMoves ==
  ASSUME NEW A, NEW o \in PaperOrders, o \notin A
  PROVE  Net(A \cup {o}) = Moves(o, Net(A))
<1> DEFINE B == A \cup {o}
           b == Cardinality(A \cap PaperBuys)
           c == Cardinality(A \cap PaperSells)
<1>1. b \in Nat /\ c \in Nat
  BY PaperFinite, FS_CardinalityType
<1>2. Net(A) = b - c /\ Net(B) = Cardinality(B \cap PaperBuys) - Cardinality(B \cap PaperSells)
  BY DEF Net
<1>3. CASE o \in PaperBuys
  <2>1. o \notin PaperSells
    BY <1>3, PaperAssumption
  <2>2. B \cap PaperBuys = (A \cap PaperBuys) \cup {o} /\ B \cap PaperSells = A \cap PaperSells
    BY <1>3, <2>1
  <2>3. Cardinality((A \cap PaperBuys) \cup {o}) = b + 1
    BY PaperFinite, FS_AddElement
  <2>4. Cardinality(B \cap PaperBuys) = b + 1 /\ Cardinality(B \cap PaperSells) = c
    BY <2>2, <2>3
  <2>5. Moves(o, Net(A)) = Net(A) + 1
    BY <1>3 DEF Moves
  <2> HIDE DEF B, b, c
  <2>6. Net(B) = Net(A) + 1
    BY <1>1, <1>2, <2>4
  <2>7. QED BY <2>5, <2>6 DEF B
<1>4. CASE o \notin PaperBuys
  <2>1. o \in PaperSells
    BY <1>4 DEF PaperOrders
  <2>2. B \cap PaperSells = (A \cap PaperSells) \cup {o} /\ B \cap PaperBuys = A \cap PaperBuys
    BY <1>4, <2>1
  <2>3. Cardinality((A \cap PaperSells) \cup {o}) = c + 1
    BY PaperFinite, FS_AddElement
  <2>4. Cardinality(B \cap PaperSells) = c + 1 /\ Cardinality(B \cap PaperBuys) = b
    BY <2>2, <2>3
  <2>5. Moves(o, Net(A)) = Net(A) - 1
    BY <1>4 DEF Moves
  <2> HIDE DEF B, b, c
  <2>6. Net(B) = Net(A) - 1
    BY <1>1, <1>2, <2>4
  <2>7. QED BY <2>5, <2>6 DEF B
<1>5. QED BY <1>3, <1>4

LEMMA NetEmpty == Net({}) = 0
<1>1. {} \cap PaperBuys = {} /\ {} \cap PaperSells = {}
  OBVIOUS
<1>2. QED BY <1>1, FS_EmptySet DEF Net

(* With no sale among them the fills only add.                             *)
LEMMA NetOfBuys == ASSUME NEW A, A \cap PaperSells = {} PROVE Net(A) >= 0
<1>1. Cardinality(A \cap PaperSells) = 0
  BY FS_EmptySet
<1>2. Cardinality(A \cap PaperBuys) \in Nat
  BY PaperFinite, FS_CardinalityType
<1>3. QED BY <1>1, <1>2 DEF Net

(* The one sale is at most one of them.                                    *)
LEMMA NetAtLeast == ASSUME NEW A PROVE Net(A) >= -1
<1>1. CASE A \cap PaperSells = {}
  BY <1>1, NetOfBuys, NetInt
<1>2. CASE A \cap PaperSells # {}
  <2>1. PICK x \in PaperSells : x \in A
    BY <1>2
  <2>2. A \cap PaperSells = {x}
    BY <2>1, PaperSaleAssumption
  <2>3. Cardinality(A \cap PaperSells) = 1
    BY <2>2, FS_Singleton
  <2>4. Cardinality(A \cap PaperBuys) \in Nat
    BY PaperFinite, FS_CardinalityType
  <2>5. QED BY <2>3, <2>4 DEF Net
<1>3. QED BY <1>1, <1>2

LEMMA PaperStarts == PaperInit => PaperInv
<1> SUFFICES ASSUME PaperInit PROVE PaperInv
  OBVIOUS
<1> USE DEF PaperInit
<1>1. PaperTyped
  BY DEF PaperTyped, PaperTasks, Statuses
<1>2. NumbersInv /\ RowsInv /\ TasksInv
  BY DEF NumbersInv, DryNumberIsOne, RowsInv, Asked, PaperSettled, TasksInv, Doing, Rest
<1>3. CarriedInv
  BY DEF CarriedInv, Uncredited
<1>4. Ahead = {}
  BY DEF Ahead
<1>5. StockInv
  <2>1. stock = shares + Net(Ahead)
    BY <1>4, NetEmpty
  <2>2. \A o \in PaperOrders : row[o].status = "NONE"
    OBVIOUS
  <2>3. credited = {} /\ Uncredited = {} /\ PaperSells \subseteq PaperOrders
    BY <2>2 DEF Uncredited, PaperOrders
  <2>4. QED BY <2>1, <2>2, <2>3 DEF StockInv
<1>6. QED BY <1>1, <1>2, <1>3, <1>5 DEF PaperInv

(* The invariant only reads the state.                                     *)
LEMMA PaperStutters == PaperInv /\ UNCHANGED paperVars => PaperInv'
BY DEF PaperInv, paperVars, PaperTyped, NumbersInv, DryNumberIsOne, RowsInv, Asked, TasksInv, Doing,
       CarriedInv, StockInv, Uncredited, Ahead

(* PaperReserve: a row nobody knows of gets a thread that will place it.   *)
LEMMA PaperReserveKeeps ==
  ASSUME PaperInv, NEW t \in PaperThreads, NEW o \in PaperOrders, PaperReserve(t, o)
  PROVE  PaperInv'
<1> USE DEF PaperInv, PaperReserve, brokerMemory
<1> DEFINE T == [at |-> "place", order |-> o]
<1>1. PaperTyped'
  <2>1. T \in PaperTasks
    BY DEF PaperTasks
  <2>2. row' \in [PaperOrders -> [status : Statuses \cup {"NONE"}, dry : Nat]]
    BY DEF PaperTyped, Statuses
  <2>3. task' \in [PaperThreads -> PaperTasks]
    BY <2>1 DEF PaperTyped
  <2>4. QED BY <2>2, <2>3 DEF PaperTyped
<1>2. row'[o].status = "CREATED" /\ row'[o].dry = 0 /\ row[o].dry = 0
  BY DEF PaperTyped, RowsInv, PaperSettled
<1>3. \A p \in PaperOrders : p # o => row'[p] = row[p]
  BY DEF PaperTyped
<1>4. task'[t] = T /\ \A u \in PaperThreads : u # t => task'[u] = task[u]
  BY DEF PaperTyped
<1>5. \A n \in DOMAIN dry : dry[n].order # o /\ dry[n].order \in PaperOrders
  BY DEF PaperTyped, RowsInv, PaperSettled
<1>6. NumbersInv'
  <2>1. \A p \in PaperOrders : row'[p].dry = row[p].dry
    BY <1>2, <1>3
  <2>2. QED BY <2>1 DEF NumbersInv, DryNumberIsOne
<1>7. RowsInv'
  <2>1. Asked' = Asked
    BY <1>2, <1>3 DEF Asked
  <2>2. QED BY <1>2, <1>3, <1>5, <2>1 DEF RowsInv, PaperSettled
<1>8. TasksInv'
  BY <1>2, <1>3, <1>4, <1>5 DEF TasksInv, Doing, Idle, PaperTyped
<1>9. Uncredited' = Uncredited /\ Ahead' = Ahead
  BY <1>2, <1>3 DEF Uncredited, Ahead
<1>10. CarriedInv'
  BY <1>3, <1>4, <1>5, <1>9 DEF CarriedInv, Doing, Idle
<1>11. StockInv'
  <2>1. o \in PaperSells => shares >= 1
    <3>1. ASSUME o \in PaperSells PROVE shares >= 1
      <4> DEFINE L == {p \in PaperSells : row[p].status \in Live_}
      <4>1. L = {}
        BY <3>1, PaperSaleAssumption DEF Live_
      <4>2. Cardinality(L) < shares
        BY <3>1
      <4>3. Cardinality(L) = 0
        BY <4>1, FS_EmptySet
      <4> HIDE DEF L
      <4>4. QED BY <4>2, <4>3 DEF PaperTyped
    <3>2. QED BY <3>1
  <2>2. \A p \in credited : row'[p].status = "FILLED"
    BY <1>3 DEF StockInv, PaperTyped
  <2>3. \A p \in PaperSells : p = o \/ row'[p] = row[p]
    BY <1>3 DEF PaperOrders
  <2>4. QED BY <1>9, <2>1, <2>2, <2>3 DEF StockInv
<1>12. QED BY <1>1, <1>6, <1>7, <1>8, <1>10, <1>11

(* PaperPlaceFails: the row is UNKNOWN, the number is lost.                *)
LEMMA PaperPlaceFailsKeeps ==
  ASSUME PaperInv, NEW t \in PaperThreads, PaperPlaceFails(t)
  PROVE  PaperInv'
<1> USE DEF PaperInv, PaperPlaceFails
<1> DEFINE o == task[t].order
<1>1. o \in PaperOrders /\ row[o].status = "CREATED" /\ row[o].dry = 0
      /\ \A n \in DOMAIN dry : dry[n].order # o /\ dry[n].order \in PaperOrders
  <2>1. task[t] \in PaperTasks /\ task[t].at = "place"
    BY DEF PaperTyped, Doing
  <2>2. o \in PaperOrders
    BY <2>1 DEF PaperTasks, Rest
  <2>3. QED BY <2>1, <2>2 DEF TasksInv, Doing, RowsInv, PaperTyped, PaperSettled
<1> HIDE DEF o
<1>2. row' = [row EXCEPT ![o].status = "UNKNOWN"]
  BY DEF o
<1>3. row'[o].status = "UNKNOWN" /\ row'[o].dry = 0
  BY <1>1, <1>2 DEF PaperTyped
<1>4. \A p \in PaperOrders : p # o => row'[p] = row[p]
  BY <1>2 DEF PaperTyped
<1>5. task'[t] = Rest /\ \A u \in PaperThreads : u # t => task'[u] = task[u]
  BY DEF PaperTyped
<1>6. PaperTyped'
  <2>1. row' \in [PaperOrders -> [status : Statuses \cup {"NONE"}, dry : Nat]]
    <3>1. [row[o] EXCEPT !.status = "UNKNOWN"] \in [status : Statuses \cup {"NONE"}, dry : Nat]
      BY <1>1 DEF PaperTyped, Statuses
    <3>2. QED BY <1>2, <3>1 DEF PaperTyped
  <2>2. task' \in [PaperThreads -> PaperTasks]
    BY DEF PaperTyped, PaperTasks
  <2>3. lastDry' \in Nat /\ 1..lastDry \subseteq 1..lastDry'
    BY DEF PaperTyped
  <2>4. QED BY <2>1, <2>2, <2>3 DEF PaperTyped
<1>7. NumbersInv'
  <2>1. \A p \in PaperOrders : row'[p].dry = row[p].dry /\ row[p].dry \in Nat
    BY <1>1, <1>3, <1>4 DEF PaperTyped
  <2>2. \A p \in PaperOrders : row'[p].dry <= lastDry'
    BY <2>1 DEF NumbersInv, PaperTyped
  <2>3. QED BY <2>1, <2>2 DEF NumbersInv, DryNumberIsOne
<1>8. RowsInv'
  <2>1. Asked' = Asked
    BY <1>1, <1>3, <1>4 DEF Asked
  <2>2. QED BY <1>1, <1>3, <1>4, <2>1 DEF RowsInv, PaperSettled
<1>9. \A u \in PaperThreads : u # t /\ Doing(u, "place") => task[u].order # o
  BY DEF TasksInv, Doing, o
<1>10. TasksInv'
  BY <1>1, <1>3, <1>4, <1>5, <1>9 DEF TasksInv, Doing, Rest, PaperTyped, PaperTasks
<1>11. Uncredited' = Uncredited /\ Ahead' = Ahead
  BY <1>1, <1>3, <1>4 DEF Uncredited, Ahead
<1>12. CarriedInv'
  <2>1. \A u \in PaperThreads : Doing(u, "store") \/ Doing(u, "apply") => task'[u] = task[u]
    BY <1>5 DEF Doing
  <2>2. ASSUME NEW n \in DOMAIN dry', row'[dry'[n].order].status # dry'[n].status
        PROVE  \E u \in PaperThreads :
                 Doing(u, "store")' /\ task'[u].dry = n /\ task'[u].status = dry'[n].status
    <3>1. n \in DOMAIN dry /\ dry' = dry /\ row[dry[n].order].status # dry[n].status
      BY <1>1, <1>4, <2>2
    <3>2. PICK u \in PaperThreads :
                 Doing(u, "store") /\ task[u].dry = n /\ task[u].status = dry[n].status
      BY <3>1 DEF CarriedInv
    <3>3. QED BY <2>1, <3>1, <3>2 DEF Doing
  <2>3. ASSUME NEW p \in Uncredited'
        PROVE  \E u \in PaperThreads : Doing(u, "apply")' /\ task'[u].order = p
    BY <1>11, <2>1, <2>3 DEF CarriedInv, Doing
  <2>4. QED BY <2>2, <2>3 DEF CarriedInv
<1>13. StockInv'
  <2>1. \A p \in credited : row'[p].status = "FILLED"
    BY <1>1, <1>4 DEF StockInv, PaperTyped
  <2>2. \A p \in PaperSells : p = o \/ row'[p] = row[p]
    BY <1>4 DEF PaperOrders
  <2>3. QED BY <1>1, <1>11, <2>1, <2>2 DEF StockInv
<1>14. QED BY <1>6, <1>7, <1>8, <1>10, <1>12, <1>13

(* A fill the broker books: the holdings move and stay what the position will be. *)
LEMMA FillBooked ==
  ASSUME PaperTyped, StockInv, NEW o \in PaperOrders, o \notin Ahead, o \notin credited,
         row[o].status # "NONE"
  PROVE  Moves(o, stock) \in Nat /\ Moves(o, stock) = shares + Net(Ahead \cup {o})
<1>1. stock \in Nat /\ shares \in Nat /\ Net(Ahead) \in Int /\ stock = shares + Net(Ahead)
  BY NetInt DEF PaperTyped, StockInv
<1>2. Net(Ahead \cup {o}) = Moves(o, Net(Ahead))
  BY NetMoves
<1>3. CASE o \in PaperBuys
  <2>1. Moves(o, stock) = stock + 1 /\ Moves(o, Net(Ahead)) = Net(Ahead) + 1
    BY <1>3 DEF Moves
  <2>2. QED BY <1>1, <1>2, <2>1
<1>4. CASE o \notin PaperBuys
  <2>1. Moves(o, stock) = stock - 1 /\ Moves(o, Net(Ahead)) = Net(Ahead) - 1
    BY <1>4 DEF Moves
  <2>2. o \in PaperSells
    BY <1>4 DEF PaperOrders
  <2>3. Ahead \cap PaperSells = {}
    BY <2>2, PaperSaleAssumption
  <2>4. shares >= 1
    BY <2>2 DEF StockInv
  <2>5. Net(Ahead) >= 0
    BY <2>3, NetOfBuys
  <2>6. QED BY <1>1, <1>2, <2>1, <2>4, <2>5
<1>5. QED BY <1>3, <1>4

(* PaperPlace: a number the broker has not given before, and perhaps the fill. *)
LEMMA PaperPlaceKeeps ==
  ASSUME PaperInv, NEW t \in PaperThreads, PaperPlace(t)
  PROVE  PaperInv'
<1> USE DEF PaperInv
<1> DEFINE o == task[t].order
           n == lastDry + 1
<1>1. Doing(t, "place") /\ UNCHANGED <<row, credited, shares, starts>> /\ lastDry' = n
  BY DEF PaperPlace, rowVars
<1>2. PICK status \in {"PENDING", "FILLED"} :
        /\ dry' = [m \in DOMAIN dry \cup {n} |->
                     IF m = n THEN [order |-> o, status |-> status] ELSE dry[m]]
        /\ stock' = IF status = "FILLED" THEN Moves(o, stock) ELSE stock
        /\ task' = [task EXCEPT ![t] = Receipt(o, n, status)]
  BY DEF PaperPlace
<1>3. o \in PaperOrders /\ row[o].status = "CREATED" /\ row[o].dry = 0
      /\ \A m \in DOMAIN dry : dry[m].order # o /\ dry[m].order \in PaperOrders
  <2>1. task[t] \in PaperTasks /\ task[t].at = "place"
    BY <1>1 DEF PaperTyped, Doing
  <2>2. o \in PaperOrders
    BY <2>1 DEF PaperTasks, Rest
  <2>3. QED BY <1>1, <2>1, <2>2 DEF TasksInv, RowsInv, PaperTyped, PaperSettled
<1>4. \A u \in PaperThreads : u # t /\ Doing(u, "place") => task[u].order # o
  BY <1>1 DEF TasksInv
<1> HIDE DEF o
<1>5. n \in Nat \ {0} /\ n \notin DOMAIN dry /\ \A p \in PaperOrders : row[p].dry # n
  <2>1. lastDry \in Nat /\ DOMAIN dry \subseteq 1..lastDry
    BY DEF PaperTyped
  <2>2. n \notin DOMAIN dry
    BY <2>1
  <2>3. \A p \in PaperOrders : row[p].dry \in Nat /\ row[p].dry <= lastDry
    BY DEF PaperTyped, NumbersInv
  <2>4. QED BY <2>1, <2>2, <2>3
<1>6. lastDry' \in Nat /\ 1..lastDry \subseteq 1..lastDry' /\ n \in 1..lastDry'
      /\ \A p \in PaperOrders : row[p].dry <= lastDry'
  <2>1. \A p \in PaperOrders : row[p].dry \in Nat /\ row[p].dry <= lastDry
    BY DEF PaperTyped, NumbersInv
  <2>2. QED BY <1>1, <2>1 DEF PaperTyped
<1> HIDE DEF n
<1>7. DOMAIN dry' = DOMAIN dry \cup {n} /\ dry'[n] = [order |-> o, status |-> status]
      /\ \A m \in DOMAIN dry : dry'[m] = dry[m]
  BY <1>2, <1>5
<1>8. task'[t] = [at |-> "store", order |-> o, dry |-> n, status |-> status]
      /\ \A u \in PaperThreads : u # t => task'[u] = task[u]
  BY <1>2 DEF PaperTyped, Receipt
<1>9. o \notin credited /\ o \notin Ahead
  <2>1. o \notin credited
    BY <1>3 DEF StockInv
  <2>2. QED BY <1>3, <2>1 DEF Ahead
<1>10. Ahead' = IF status = "FILLED" THEN Ahead \cup {o} ELSE Ahead
  <2>1. \A p \in PaperOrders \ credited :
          p \in Ahead' <=> p \in Ahead \/ (p = o /\ status = "FILLED")
    BY <1>1, <1>7 DEF Ahead
  <2>2. Ahead \subseteq PaperOrders \ credited /\ Ahead' \subseteq PaperOrders \ credited
    BY <1>1 DEF Ahead
  <2>3. QED BY <1>3, <1>9, <2>1, <2>2
<1>11. stock' \in Nat /\ stock' = shares + Net(Ahead')
  <2>1. CASE status = "FILLED"
    <3>1. Moves(o, stock) \in Nat /\ Moves(o, stock) = shares + Net(Ahead \cup {o})
      BY <1>3, <1>9, FillBooked
    <3>2. QED BY <1>2, <1>10, <2>1, <3>1
  <2>2. CASE status # "FILLED"
    BY <1>2, <1>10, <2>2 DEF PaperTyped, StockInv
  <2>3. QED BY <2>1, <2>2
<1>12. PaperTyped'
  <2>1. task'[t] \in PaperTasks
    BY <1>3, <1>5, <1>8 DEF PaperTasks, PaperSettled
  <2>2. task' \in [PaperThreads -> PaperTasks]
    BY <1>2, <1>8, <2>1 DEF PaperTyped
  <2>3. dry' \in [DOMAIN dry' -> [order : PaperOrders, status : PaperSettled \cup {"PENDING"}]]
    BY <1>2, <1>3, <1>7 DEF PaperTyped, PaperSettled
  <2>4. DOMAIN dry' \subseteq 1..lastDry'
    BY <1>6, <1>7 DEF PaperTyped
  <2>5. QED BY <1>1, <1>6, <1>11, <2>2, <2>3, <2>4 DEF PaperTyped
<1>13. NumbersInv'
  <2>1. \A p \in PaperOrders : row'[p].dry \in DOMAIN dry' => dry'[row'[p].dry].order = p
    BY <1>1, <1>5, <1>7 DEF NumbersInv
  <2>2. \A m, k \in DOMAIN dry' : dry'[m].order = dry'[k].order => m = k
    BY <1>3, <1>7 DEF NumbersInv
  <2>3. QED BY <1>1, <1>6, <2>1, <2>2 DEF NumbersInv, DryNumberIsOne
<1>14. RowsInv'
  <2>1. Asked' = Asked
    BY <1>1 DEF Asked
  <2>2. QED BY <1>1, <1>3, <1>7, <2>1 DEF RowsInv, PaperSettled
<1>15. TasksInv'
  BY <1>1, <1>3, <1>4, <1>7, <1>8 DEF TasksInv, Doing
<1>16. CarriedInv'
  <2>1. \A u \in PaperThreads : Doing(u, "store") \/ Doing(u, "apply") => task'[u] = task[u]
    BY <1>1, <1>8 DEF Doing
  <2>2. ASSUME NEW m \in DOMAIN dry', row'[dry'[m].order].status # dry'[m].status
        PROVE  \E u \in PaperThreads :
                 Doing(u, "store")' /\ task'[u].dry = m /\ task'[u].status = dry'[m].status
    <3>1. CASE m = n
      BY <1>7, <1>8, <3>1 DEF Doing
    <3>2. CASE m # n
      <4>1. m \in DOMAIN dry /\ dry'[m] = dry[m] /\ row[dry[m].order].status # dry[m].status
        BY <1>1, <1>7, <2>2, <3>2
      <4>2. PICK u \in PaperThreads :
              Doing(u, "store") /\ task[u].dry = m /\ task[u].status = dry[m].status
        BY <4>1 DEF CarriedInv
      <4>3. QED BY <2>1, <4>1, <4>2 DEF Doing
    <3>3. QED BY <3>1, <3>2
  <2>3. Uncredited' = Uncredited
    BY <1>1 DEF Uncredited
  <2>4. ASSUME NEW p \in Uncredited'
        PROVE  \E u \in PaperThreads : Doing(u, "apply")' /\ task'[u].order = p
    BY <2>1, <2>3, <2>4 DEF CarriedInv, Doing
  <2>5. QED BY <2>2, <2>4 DEF CarriedInv
<1>17. StockInv'
  <2>1. Uncredited' \subseteq Ahead'
    BY <1>1, <1>10 DEF StockInv, Uncredited
  <2>2. QED BY <1>1, <1>11, <2>1 DEF StockInv
<1>18. QED BY <1>12, <1>13, <1>14, <1>15, <1>16, <1>17

(* An answer about a row the broker knows: the order keeps its status or, if it was
   pending, fills or is canceled; the thread holds the receipt. *)
PaperAnswer(t, o, status) ==
  LET n == row[o].dry
  IN  /\ Idle(t) /\ o \in Asked /\ n \in DOMAIN dry
      /\ dry[n].status # "PENDING" => status = dry[n].status
      /\ dry' = [dry EXCEPT ![n].status = status]
      /\ stock' = IF dry[n].status = "PENDING" /\ status = "FILLED"
                  THEN Moves(dry[n].order, stock) ELSE stock
      /\ task' = [task EXCEPT ![t] = Receipt(o, n, status)]
      /\ UNCHANGED <<row, credited, shares, lastDry, starts>>

LEMMA PaperAnswerKeeps ==
  ASSUME PaperInv, NEW t \in PaperThreads, NEW o \in PaperOrders,
         NEW status \in PaperSettled \cup {"PENDING"}, PaperAnswer(t, o, status)
  PROVE  PaperInv'
<1> USE DEF PaperInv
<1> DEFINE n == row[o].dry
<1>1. UNCHANGED <<row, credited, shares, lastDry, starts>> /\ Idle(t) /\ o \in Asked
      /\ n \in DOMAIN dry /\ n \in Nat /\ n # 0 /\ row[o].status \in Live_
  BY DEF PaperAnswer, Asked, PaperTyped
<1>2. dry[n].order = o /\ row[o].status = "PENDING" /\ dry[n] \in [order : PaperOrders,
        status : PaperSettled \cup {"PENDING"}]
  BY <1>1 DEF NumbersInv, RowsInv, PaperSettled, Live_, PaperTyped
<1>3. dry[n].status # "PENDING" => status = dry[n].status
  BY DEF PaperAnswer
<1>4. stock' = IF dry[n].status = "PENDING" /\ status = "FILLED" THEN Moves(o, stock) ELSE stock
  BY <1>2 DEF PaperAnswer
<1>5. dry' = [dry EXCEPT ![n].status = status]
      /\ task' = [task EXCEPT ![t] = Receipt(o, n, status)]
  BY DEF PaperAnswer
<1> HIDE DEF n
<1>6. DOMAIN dry' = DOMAIN dry /\ dry'[n] = [order |-> o, status |-> status]
      /\ \A m \in DOMAIN dry : m # n => dry'[m] = dry[m]
  <2>1. [dry[n] EXCEPT !.status = status] = [order |-> o, status |-> status]
    BY <1>2
  <2>2. QED BY <1>1, <1>5, <2>1 DEF PaperTyped
<1>7. task'[t] = [at |-> "store", order |-> o, dry |-> n, status |-> status]
      /\ \A u \in PaperThreads : u # t => task'[u] = task[u]
  BY <1>5 DEF PaperTyped, Receipt
<1>8. \A m \in DOMAIN dry : dry'[m].order = dry[m].order
  BY <1>2, <1>6
<1>9. \A m \in DOMAIN dry : m # n => dry[m].order # o
  BY <1>1, <1>2 DEF NumbersInv
<1>10. \A m \in DOMAIN dry : dry[m].status \in PaperSettled => dry'[m].status = dry[m].status
  BY <1>3, <1>6 DEF PaperSettled
<1>11. o \notin credited
  BY <1>2 DEF StockInv
<1>12. Ahead' = IF status = "FILLED" THEN Ahead \cup {o} ELSE Ahead
  <2>1. \A p \in PaperOrders \ credited :
          p \in Ahead' <=> p \in Ahead \/ (p = o /\ status = "FILLED")
    <3>1. ASSUME NEW p \in PaperOrders \ credited, p # o PROVE p \in Ahead' <=> p \in Ahead
      BY <1>1, <1>2, <1>6, <1>8, <3>1 DEF Ahead
    <3>2. o \in Ahead' <=> status = "FILLED"
      BY <1>1, <1>6, <1>8, <1>9, <1>11 DEF Ahead
    <3>3. o \in Ahead => status = "FILLED"
      BY <1>3, <1>9 DEF Ahead
    <3>4. QED BY <3>1, <3>2, <3>3
  <2>2. Ahead \subseteq PaperOrders \ credited /\ Ahead' \subseteq PaperOrders \ credited
    BY <1>1 DEF Ahead
  <2>3. QED BY <1>11, <2>1, <2>2
<1>13. stock' \in Nat /\ stock' = shares + Net(Ahead')
  <2>1. CASE dry[n].status = "PENDING" /\ status = "FILLED"
    <3>1. o \notin Ahead
      BY <1>9, <2>1 DEF Ahead
    <3>2. Moves(o, stock) \in Nat /\ Moves(o, stock) = shares + Net(Ahead \cup {o})
      BY <1>2, <1>11, <3>1, FillBooked
    <3>3. QED BY <1>4, <1>12, <2>1, <3>2
  <2>2. CASE ~(dry[n].status = "PENDING" /\ status = "FILLED")
    <3>1. status = "FILLED" => o \in Ahead
      BY <1>1, <1>2, <1>3, <1>11, <2>2 DEF Ahead
    <3>2. Ahead' = Ahead
      BY <1>12, <3>1
    <3>3. QED BY <1>4, <2>2, <3>2 DEF PaperTyped, StockInv
  <2>3. QED BY <2>1, <2>2
<1>14. PaperTyped'
  <2>1. task'[t] \in PaperTasks
    BY <1>1, <1>7 DEF PaperTasks
  <2>2. task' \in [PaperThreads -> PaperTasks]
    BY <1>5, <1>7, <2>1 DEF PaperTyped
  <2>3. dry' \in [DOMAIN dry' -> [order : PaperOrders, status : PaperSettled \cup {"PENDING"}]]
    BY <1>5, <1>6 DEF PaperTyped
  <2>4. QED BY <1>1, <1>6, <1>13, <2>2, <2>3 DEF PaperTyped
<1>15. NumbersInv'
  BY <1>1, <1>6, <1>8 DEF NumbersInv, DryNumberIsOne
<1>16. RowsInv'
  <2>1. Asked' = Asked
    BY <1>1 DEF Asked
  <2>2. QED BY <1>1, <1>6, <1>8, <1>10, <2>1 DEF RowsInv
<1>17. TasksInv'
  BY <1>1, <1>2, <1>6, <1>7, <1>8, <1>10 DEF TasksInv, Doing
<1>18. CarriedInv'
  <2>1. \A u \in PaperThreads : Doing(u, "store") \/ Doing(u, "apply") => task'[u] = task[u]
    BY <1>1, <1>7 DEF Doing, Idle
  <2>2. ASSUME NEW m \in DOMAIN dry', row'[dry'[m].order].status # dry'[m].status
        PROVE  \E u \in PaperThreads :
                 Doing(u, "store")' /\ task'[u].dry = m /\ task'[u].status = dry'[m].status
    <3>1. CASE m = n
      BY <1>6, <1>7, <3>1 DEF Doing
    <3>2. CASE m # n
      <4>1. m \in DOMAIN dry /\ dry'[m] = dry[m] /\ row[dry[m].order].status # dry[m].status
        BY <1>1, <1>6, <2>2, <3>2
      <4>2. PICK u \in PaperThreads :
              Doing(u, "store") /\ task[u].dry = m /\ task[u].status = dry[m].status
        BY <4>1 DEF CarriedInv
      <4>3. QED BY <2>1, <4>1, <4>2 DEF Doing
    <3>3. QED BY <3>1, <3>2
  <2>3. Uncredited' = Uncredited
    BY <1>1 DEF Uncredited
  <2>4. ASSUME NEW p \in Uncredited'
        PROVE  \E u \in PaperThreads : Doing(u, "apply")' /\ task'[u].order = p
    BY <2>1, <2>3, <2>4 DEF CarriedInv, Doing
  <2>5. QED BY <2>2, <2>4 DEF CarriedInv
<1>19. StockInv'
  <2>1. Uncredited' \subseteq Ahead'
    BY <1>1, <1>12 DEF StockInv, Uncredited
  <2>2. QED BY <1>1, <1>13, <2>1 DEF StockInv
<1>20. QED BY <1>14, <1>15, <1>16, <1>17, <1>18, <1>19

LEMMA PaperGetKeeps ==
  ASSUME PaperInv, NEW t \in PaperThreads, NEW o \in PaperOrders, PaperGet(t, o)
  PROVE  PaperInv'
<1>1. \E status \in PaperSettled \cup {"PENDING"} : PaperAnswer(t, o, status)
  <2>1. row[o].dry \in DOMAIN dry =>
          dry[row[o].dry].status \in PaperSettled \cup {"PENDING"}
    BY DEF PaperInv, PaperTyped
  <2>2. PICK status \in IF dry[row[o].dry].status = "PENDING" THEN {"PENDING", "FILLED"}
                        ELSE {dry[row[o].dry].status} :
          /\ dry' = [dry EXCEPT ![row[o].dry].status = status]
          /\ stock' = IF dry[row[o].dry].status = "PENDING" /\ status = "FILLED"
                      THEN Moves(dry[row[o].dry].order, stock) ELSE stock
          /\ task' = [task EXCEPT ![t] = Receipt(o, row[o].dry, status)]
    BY DEF PaperGet
  <2>3. status \in PaperSettled \cup {"PENDING"}
    BY <2>1, <2>2 DEF PaperGet, PaperSettled
  <2>4. PaperAnswer(t, o, status)
    BY <2>2 DEF PaperGet, PaperAnswer, rowVars
  <2>5. QED BY <2>3, <2>4
<1>2. QED BY <1>1, PaperAnswerKeeps

LEMMA PaperCancelKeeps ==
  ASSUME PaperInv, NEW t \in PaperThreads, NEW o \in PaperOrders, PaperCancel(t, o)
  PROVE  PaperInv'
<1> DEFINE status == IF dry[row[o].dry].status = "PENDING" THEN "CANCELED"
                     ELSE dry[row[o].dry].status
<1>1. status \in PaperSettled \cup {"PENDING"}
  BY DEF PaperCancel, PaperInv, PaperTyped, PaperSettled
<1>2. PaperAnswer(t, o, status)
  BY DEF PaperCancel, PaperAnswer, rowVars
<1> HIDE DEF status
<1>3. QED BY <1>1, <1>2, PaperAnswerKeeps

(* PaperStore: the row says what the receipt says, unless it is settled otherwise. *)
LEMMA PaperStoreKeeps ==
  ASSUME PaperInv, NEW t \in PaperThreads, PaperStore(t)
  PROVE  PaperInv'
<1> USE DEF PaperInv
<1> DEFINE o == task[t].order
           n == task[t].dry
           s == task[t].status
<1>1. Doing(t, "store") /\ UNCHANGED <<credited, shares, dry, stock, lastDry, starts>>
  BY DEF PaperStore, brokerMemory
<1>2. o \in PaperOrders /\ n \in Nat /\ s \in PaperSettled \cup {"PENDING"}
      /\ n \in DOMAIN dry /\ dry[n].order = o /\ (s \in PaperSettled => dry[n].status = s)
  <2>1. task[t] \in PaperTasks /\ task[t].at = "store"
    BY <1>1 DEF PaperTyped, Doing
  <2>2. o \in PaperOrders /\ n \in Nat /\ s \in PaperSettled \cup {"PENDING"}
    BY <2>1 DEF PaperTasks, Rest
  <2>3. QED BY <1>1, <2>2 DEF TasksInv
<1>3. \/ row' = row /\ task' = [task EXCEPT ![t] = Rest]
         /\ row[o].status \in PaperSettled /\ row[o].status # s
      \/ /\ row' = [row EXCEPT ![o].status = s, ![o].dry = n]
         /\ task' = [task EXCEPT ![t] = [at |-> "apply", order |-> o]]
         /\ row[o].status \in PaperSettled => row[o].status = s
  BY DEF PaperStore, PaperSettled
<1>4. n \in 1..lastDry /\ lastDry \in Nat
  BY <1>2 DEF PaperTyped
<1> HIDE DEF o, n, s
<1>5. CASE /\ row' = row /\ task' = [task EXCEPT ![t] = Rest]
           /\ row[o].status \in PaperSettled /\ row[o].status # s
  <2>1. task'[t] = Rest /\ \A u \in PaperThreads : u # t => task'[u] = task[u]
    BY <1>5 DEF PaperTyped
  <2>2. row[o].status = dry[n].status
    BY <1>2, <1>5 DEF RowsInv
  <2>3. PaperTyped'
    BY <1>1, <1>5 DEF PaperTyped, PaperTasks
  <2>4. NumbersInv' /\ RowsInv'
    BY <1>1, <1>5 DEF NumbersInv, DryNumberIsOne, RowsInv, Asked
  <2>5. TasksInv'
    BY <1>1, <1>5, <2>1 DEF TasksInv, Doing, Rest
  <2>6. Uncredited' = Uncredited /\ Ahead' = Ahead
    BY <1>1, <1>5 DEF Uncredited, Ahead
  <2>7. CarriedInv'
    <3>1. ASSUME NEW m \in DOMAIN dry, row[dry[m].order].status # dry[m].status
          PROVE  \E u \in PaperThreads :
                   Doing(u, "store")' /\ task'[u].dry = m /\ task'[u].status = dry[m].status
      <4>1. PICK u \in PaperThreads :
              Doing(u, "store") /\ task[u].dry = m /\ task[u].status = dry[m].status
        BY <3>1 DEF CarriedInv
      <4>2. u # t
        BY <1>2, <2>2, <3>1, <4>1 DEF n
      <4>3. QED BY <2>1, <4>1, <4>2 DEF Doing
    <3>2. ASSUME NEW p \in Uncredited
          PROVE  \E u \in PaperThreads : Doing(u, "apply")' /\ task'[u].order = p
      <4>1. PICK u \in PaperThreads : Doing(u, "apply") /\ task[u].order = p
        BY <3>2 DEF CarriedInv
      <4>2. u # t
        BY <1>1, <4>1 DEF Doing
      <4>3. QED BY <2>1, <4>1, <4>2 DEF Doing
    <3>3. QED BY <1>1, <1>5, <2>6, <3>1, <3>2 DEF CarriedInv
  <2>8. StockInv'
    BY <1>1, <1>5, <2>6 DEF StockInv
  <2>9. QED BY <2>3, <2>4, <2>5, <2>7, <2>8
<1>6. CASE /\ row' = [row EXCEPT ![o].status = s, ![o].dry = n]
           /\ task' = [task EXCEPT ![t] = [at |-> "apply", order |-> o]]
           /\ row[o].status \in PaperSettled => row[o].status = s
  <2>1. row'[o].status = s /\ row'[o].dry = n
        /\ \A p \in PaperOrders : p # o => row'[p] = row[p]
    BY <1>2, <1>6 DEF PaperTyped
  <2>2. task'[t] = [at |-> "apply", order |-> o]
        /\ \A u \in PaperThreads : u # t => task'[u] = task[u]
    BY <1>6 DEF PaperTyped
  <2>3. \A m \in DOMAIN dry : dry[m].order = o => m = n
    BY <1>2 DEF NumbersInv
  <2>4. n # 0 /\ n <= lastDry
    BY <1>4
  <2>5. PaperTyped'
    <3>1. row' \in [PaperOrders -> [status : Statuses \cup {"NONE"}, dry : Nat]]
      <4>1. [[row[o] EXCEPT !.status = s] EXCEPT !.dry = n]
              \in [status : Statuses \cup {"NONE"}, dry : Nat]
        BY <1>2 DEF PaperTyped, Statuses, PaperSettled
      <4>2. row' = [row EXCEPT ![o] = [[row[o] EXCEPT !.status = s] EXCEPT !.dry = n]]
        BY <1>2, <1>6 DEF PaperTyped
      <4>3. QED BY <4>1, <4>2 DEF PaperTyped
    <3>2. task' \in [PaperThreads -> PaperTasks]
      BY <1>2, <1>6 DEF PaperTyped, PaperTasks
    <3>3. QED BY <1>1, <3>1, <3>2 DEF PaperTyped
  <2>6. NumbersInv'
    <3>1. \A p \in PaperOrders : row'[p].dry <= lastDry
      BY <2>1, <2>4 DEF NumbersInv
    <3>2. \A p \in PaperOrders : row'[p].dry \in DOMAIN dry => dry[row'[p].dry].order = p
      BY <1>2, <2>1 DEF NumbersInv
    <3>3. \A p \in PaperOrders : p # o => row[p].dry # n
      BY <1>2 DEF NumbersInv
    <3>4. DryNumberIsOne'
      BY <2>1, <3>3 DEF NumbersInv, DryNumberIsOne
    <3>5. QED BY <1>1, <3>1, <3>2, <3>4 DEF NumbersInv
  <2>7. RowsInv'
    <3>1. \A p \in PaperOrders : row'[p].dry # 0 <=> row'[p].status \in PaperSettled \cup {"PENDING"}
      BY <1>2, <2>1, <2>4 DEF RowsInv
    <3>2. \A p \in Asked' : row'[p].dry \in DOMAIN dry
      BY <1>2, <2>1 DEF RowsInv, Asked
    <3>3. ASSUME NEW m \in DOMAIN dry
          PROVE  /\ row'[dry[m].order].status \in {"CREATED", "PENDING"} \cup PaperSettled
                 /\ row'[dry[m].order].dry \in {0, m}
                 /\ row'[dry[m].order].status \in PaperSettled =>
                      row'[dry[m].order].status = dry[m].status
      <4>1. dry[m].order \in PaperOrders
        BY DEF PaperTyped
      <4>2. CASE dry[m].order = o
        BY <1>2, <2>1, <2>3, <4>2
      <4>3. CASE dry[m].order # o
        BY <2>1, <4>1, <4>3 DEF RowsInv
      <4>4. QED BY <4>2, <4>3
    <3>4. QED BY <1>1, <3>1, <3>2, <3>3 DEF RowsInv
  <2>8. TasksInv'
    <3>1. ASSUME NEW u \in PaperThreads, Doing(u, "place")
          PROVE  task[u].order # o /\ task[u].order \in PaperOrders
      <4>1. task[u].order # o
        BY <1>2, <3>1 DEF TasksInv
      <4>2. task[u] \in PaperTasks /\ task[u].at = "place"
        BY <3>1 DEF PaperTyped, Doing
      <4>3. QED BY <4>1, <4>2 DEF PaperTasks, Rest
    <3>2. QED BY <1>1, <2>1, <2>2, <3>1 DEF TasksInv, Doing
  <2>9. CarriedInv'
    <3>1. ASSUME NEW m \in DOMAIN dry, row'[dry[m].order].status # dry[m].status
          PROVE  \E u \in PaperThreads :
                   Doing(u, "store")' /\ task'[u].dry = m /\ task'[u].status = dry[m].status
      <4>1. dry[m].order \in PaperOrders
        BY DEF PaperTyped
      <4>2. row[dry[m].order].status # dry[m].status
        <5>1. CASE dry[m].order = o
          <6>1. m = n /\ s # dry[n].status
            BY <2>1, <2>3, <3>1, <5>1
          <6>2. s = "PENDING"
            BY <1>2, <6>1
          <6>3. row[o].status \notin PaperSettled
            BY <1>6, <6>2 DEF PaperSettled
          <6>4. dry[n].status \in PaperSettled
            BY <1>2, <6>1, <6>2 DEF PaperTyped
          <6>5. QED BY <5>1, <6>1, <6>3, <6>4
        <5>2. CASE dry[m].order # o
          BY <2>1, <3>1, <4>1, <5>2
        <5>3. QED BY <5>1, <5>2
      <4>3. PICK u \in PaperThreads :
              Doing(u, "store") /\ task[u].dry = m /\ task[u].status = dry[m].status
        BY <4>2 DEF CarriedInv
      <4>4. u # t
        BY <1>2, <2>1, <3>1, <4>3 DEF n, s
      <4>5. QED BY <2>2, <4>3, <4>4 DEF Doing
    <3>2. ASSUME NEW p \in Uncredited'
          PROVE  \E u \in PaperThreads : Doing(u, "apply")' /\ task'[u].order = p
      <4>1. CASE p = o
        BY <2>2, <4>1 DEF Doing
      <4>2. CASE p # o
        <5>1. p \in Uncredited
          BY <1>1, <2>1, <3>2, <4>2 DEF Uncredited
        <5>2. PICK u \in PaperThreads : Doing(u, "apply") /\ task[u].order = p
          BY <5>1 DEF CarriedInv
        <5>3. u # t
          BY <1>1, <5>2 DEF Doing
        <5>4. QED BY <2>2, <5>2, <5>3 DEF Doing
      <4>3. QED BY <4>1, <4>2
    <3>3. QED BY <1>1, <3>1, <3>2 DEF CarriedInv
  <2>10. StockInv'
    <3>1. Ahead' = Ahead
      BY <1>1 DEF Ahead
    <3>2. \A p \in credited : row'[p].status = "FILLED"
      BY <1>6, <2>1 DEF StockInv, PaperTyped, PaperSettled
    <3>3. ASSUME NEW p \in Uncredited' PROVE p \in Ahead
      <4>1. p \in PaperOrders \ credited /\ row'[p].status = "FILLED"
        BY <1>1, <3>3 DEF Uncredited
      <4>2. CASE p = o
        BY <1>2, <2>1, <4>1, <4>2 DEF Ahead, PaperSettled
      <4>3. CASE p # o
        BY <2>1, <4>1, <4>3 DEF StockInv, Uncredited
      <4>4. QED BY <4>2, <4>3
    <3>4. \A p \in PaperSells : row'[p].status # "NONE" => row[p].status # "NONE"
      BY <1>2, <2>1 DEF PaperOrders, RowsInv, PaperSettled
    <3>5. QED BY <1>1, <3>1, <3>2, <3>3, <3>4 DEF StockInv
  <2>11. QED BY <2>5, <2>6, <2>7, <2>8, <2>9, <2>10
<1>7. QED BY <1>3, <1>5, <1>6

(* PaperApply: the position gets what the broker has booked.               *)
LEMMA PaperApplyKeeps ==
  ASSUME PaperInv, NEW t \in PaperThreads, PaperApply(t)
  PROVE  PaperInv'
<1> USE DEF PaperInv
<1> DEFINE o == task[t].order
<1>1. Doing(t, "apply") /\ task' = [task EXCEPT ![t] = Rest]
      /\ UNCHANGED <<row, dry, stock, lastDry, starts>>
  BY DEF PaperApply, brokerMemory
<1>2. o \in PaperOrders
  <2>1. task[t] \in PaperTasks /\ task[t].at = "apply"
    BY <1>1 DEF PaperTyped, Doing
  <2>2. QED BY <2>1 DEF PaperTasks, Rest
<1>3. IF o \in Uncredited THEN credited' = credited \cup {o} /\ shares' = Moves(o, shares)
      ELSE UNCHANGED <<credited, shares>>
  BY DEF PaperApply
<1>4. task'[t] = Rest /\ \A u \in PaperThreads : u # t => task'[u] = task[u]
  BY <1>1 DEF PaperTyped
<1>5. Uncredited' = Uncredited \ {o}
  BY <1>1, <1>3 DEF Uncredited
<1>6. \A u \in PaperThreads : Doing(u, "apply") /\ task[u].order # o => u # t
  OBVIOUS
<1>7. o \in Uncredited => row[o].status = "FILLED" /\ o \notin credited /\ o \in Ahead
  BY DEF StockInv, Uncredited
<1> HIDE DEF o
<1>8. ASSUME o \in Uncredited PROVE StockInv' /\ shares' \in Nat /\ credited' \subseteq PaperOrders
  <2>1. credited' = credited \cup {o} /\ shares' = Moves(o, shares) /\ Ahead' = Ahead \ {o}
    BY <1>1, <1>3, <1>8 DEF Ahead
  <2>2. Net(Ahead) = Moves(o, Net(Ahead')) /\ Net(Ahead') \in Int
    <3> DEFINE A == Ahead \ {o}
    <3>1. o \notin A /\ A \cup {o} = Ahead
      BY <1>7, <1>8
    <3> HIDE DEF A
    <3>2. Net(Ahead) = Moves(o, Net(A)) /\ Net(A) \in Int
      BY <1>2, <3>1, NetMoves, NetInt
    <3>3. QED BY <2>1, <3>2 DEF A
  <2>3. shares' \in Nat /\ stock = shares' + Net(Ahead')
        /\ (o \in PaperBuys => shares' >= shares)
    <3>1. stock = shares + Net(Ahead) /\ shares \in Nat
      BY DEF StockInv, PaperTyped
    <3>2. CASE o \in PaperBuys
      <4>1. shares' = shares + 1 /\ Net(Ahead) = Net(Ahead') + 1
        BY <2>1, <2>2, <3>2 DEF Moves
      <4>2. QED BY <2>2, <3>1, <4>1
    <3>3. CASE o \notin PaperBuys
      <4>1. shares' = shares - 1 /\ Net(Ahead) = Net(Ahead') - 1
        BY <2>1, <2>2, <3>3 DEF Moves
      <4>2. shares >= 1
        BY <1>2, <1>7, <1>8, <3>3 DEF StockInv, PaperOrders
      <4>3. QED BY <2>2, <3>1, <3>3, <4>1, <4>2
    <3>4. QED BY <3>2, <3>3
  <2>4. ASSUME NEW p \in PaperSells, row[p].status # "NONE", p \notin credited' PROVE shares' >= 1
    <3>1. p # o /\ o \in PaperBuys
      BY <1>2, <2>1, <2>4, PaperSaleAssumption DEF PaperOrders
    <3>2. shares >= 1 /\ shares' >= shares /\ shares \in Nat /\ shares' \in Nat
      BY <2>1, <2>3, <2>4, <3>1 DEF StockInv, PaperTyped
    <3>3. QED BY <3>2
  <2>5. StockInv'
    <3>1. Uncredited' \subseteq Ahead'
      BY <1>5, <2>1 DEF StockInv
    <3>2. \A p \in credited' : row[p].status = "FILLED"
      BY <1>7, <1>8, <2>1 DEF StockInv
    <3>3. QED BY <1>1, <2>3, <2>4, <3>1, <3>2 DEF StockInv
  <2>6. credited' \subseteq PaperOrders
    BY <1>2, <2>1 DEF PaperTyped
  <2>7. QED BY <2>3, <2>5, <2>6
<1>9. ASSUME o \notin Uncredited
      PROVE  StockInv' /\ shares' \in Nat /\ credited' \subseteq PaperOrders
  <2>1. UNCHANGED <<row, dry, stock, credited, shares>>
    BY <1>1, <1>3, <1>9
  <2>2. Ahead' = Ahead /\ Uncredited' = Uncredited
    BY <2>1 DEF Ahead, Uncredited
  <2>3. QED BY <2>1, <2>2 DEF StockInv, PaperTyped
<1>10. StockInv' /\ shares' \in Nat /\ credited' \subseteq PaperOrders
  BY <1>8, <1>9
<1>11. PaperTyped'
  BY <1>1, <1>10 DEF PaperTyped, PaperTasks
<1>12. NumbersInv' /\ RowsInv'
  BY <1>1 DEF NumbersInv, DryNumberIsOne, RowsInv, Asked
<1>13. TasksInv'
  BY <1>1, <1>4 DEF TasksInv, Doing, Rest
<1>14. CarriedInv'
  <2>1. \A u \in PaperThreads : u = t => ~Doing(u, "store")
    BY <1>1 DEF Doing
  <2>2. \A m \in DOMAIN dry : row[dry[m].order].status # dry[m].status =>
         \E u \in PaperThreads :
           Doing(u, "store")' /\ task'[u].dry = m /\ task'[u].status = dry[m].status
    BY <1>4, <2>1 DEF CarriedInv, Doing
  <2>3. ASSUME NEW p \in Uncredited'
        PROVE  \E u \in PaperThreads : Doing(u, "apply")' /\ task'[u].order = p
    <3>1. p \in Uncredited /\ p # o
      BY <1>5, <2>3
    <3>2. PICK u \in PaperThreads : Doing(u, "apply") /\ task[u].order = p
      BY <3>1 DEF CarriedInv
    <3>3. u # t
      BY <1>6, <3>1, <3>2
    <3>4. QED BY <1>4, <3>2, <3>3 DEF Doing
  <2>4. QED BY <1>1, <2>2, <2>3 DEF CarriedInv
<1>15. QED BY <1>10, <1>11, <1>12, <1>13, <1>14

(* PaperRestart: the paper account is what the database tells.             *)
LEMMA RestoredNumberIs ==
  ASSUME PaperTyped, NumbersInv
  PROVE  RestoredNumber \in Nat /\ \A o \in PaperOrders : row[o].dry <= RestoredNumber
<1> DEFINE T == {0} \cup {row[o].dry : o \in PaperOrders}
<1>1. T \subseteq Nat /\ T # {} /\ lastDry \in Nat /\ \A n \in T : n <= lastDry
  <2>1. \A o \in PaperOrders : row[o].dry \in Nat /\ row[o].dry <= lastDry
    BY DEF PaperTyped, NumbersInv
  <2>2. lastDry \in Nat /\ 0 <= lastDry
    BY DEF PaperTyped
  <2>3. QED BY <2>1, <2>2
<1>2. \E n \in T : \A m \in T : m <= n
  <2> HIDE DEF T
  <2>1. QED BY <1>1, MaxExists
<1>3. \E n \in T : \A o \in PaperOrders : row[o].dry <= n
  BY <1>2
<1>4. RestoredNumber \in T /\ \A o \in PaperOrders : row[o].dry <= RestoredNumber
  BY <1>3 DEF RestoredNumber
<1>5. QED BY <1>1, <1>4

LEMMA RestoredOrdersAre ==
  ASSUME PaperTyped, NumbersInv, RowsInv
  PROVE  /\ RestoredOrders = [n \in DOMAIN RestoredOrders |-> RestoredOrders[n]]
         /\ DOMAIN RestoredOrders = {row[o].dry : o \in Asked}
         /\ \A o \in Asked : RestoredOrders[row[o].dry] = [order |-> o, status |-> "PENDING"]
<1> DEFINE back == {o \in Asked : row[o].status \in {"CREATED", "PENDING"}}
<1>1. \A o \in Asked : row[o].status = "PENDING"
  BY DEF Asked, RowsInv, PaperSettled, Live_
<1>2. back = Asked
  BY <1>1
<1>3. RestoredOrders = [n \in {row[o].dry : o \in Asked} |->
           [order |-> CHOOSE o \in Asked : row[o].dry = n, status |-> "PENDING"]]
  BY <1>2 DEF RestoredOrders
<1>4. ASSUME NEW o \in Asked PROVE (CHOOSE p \in Asked : row[p].dry = row[o].dry) = o
  <2>1. \A p \in Asked : row[p].dry = row[o].dry => p = o
    BY DEF NumbersInv, DryNumberIsOne, Asked
  <2>2. QED BY <2>1
<1>5. QED BY <1>3, <1>4

LEMMA PaperRestartKeeps == PaperInv /\ PaperRestart => PaperInv'
<1> SUFFICES ASSUME PaperInv, PaperRestart PROVE PaperInv'
  OBVIOUS
<1> USE DEF PaperInv
<1>1. row' = row /\ credited' = credited \cup Uncredited /\ shares' = Recovered
      /\ stock' = shares' /\ dry' = RestoredOrders /\ lastDry' = RestoredNumber
      /\ starts' = starts + 1 /\ task' = [t \in PaperThreads |-> Rest]
  BY DEF PaperRestart, RestoredStock
<1>2. lastDry' \in Nat /\ \A o \in PaperOrders : row[o].dry <= lastDry'
  BY <1>1, RestoredNumberIs
<1>3. /\ \A n \in DOMAIN dry' : \E o \in Asked :
           row[o].dry = n /\ dry'[n].order = o /\ dry'[n].status = "PENDING"
      /\ \A o \in Asked : row[o].dry \in DOMAIN dry' /\ dry'[row[o].dry].order = o
                          /\ dry'[row[o].dry].status = "PENDING"
  <2>1. DOMAIN dry' = {row[o].dry : o \in Asked}
        /\ \A o \in Asked : dry'[row[o].dry] = [order |-> o, status |-> "PENDING"]
    BY <1>1, RestoredOrdersAre
  <2>2. ASSUME NEW o \in Asked
        PROVE  row[o].dry \in DOMAIN dry' /\ dry'[row[o].dry].order = o
               /\ dry'[row[o].dry].status = "PENDING"
    <3>1. row[o].dry \in DOMAIN dry'
      BY <2>1
    <3>2. dry'[row[o].dry] = [order |-> o, status |-> "PENDING"]
      BY <2>1
    <3>3. QED BY ONLY <3>1, <3>2
  <2>3. \A n \in DOMAIN dry' : \E o \in Asked : row[o].dry = n
    BY <2>1
  <2>4. QED BY <2>2, <2>3
<1>4. Asked' = Asked /\ Asked \subseteq PaperOrders
      /\ \A o \in Asked : row[o].status = "PENDING" /\ row[o].dry # 0
  BY <1>1 DEF Asked, RowsInv, PaperSettled, Live_
<1>5. Uncredited' = {} /\ Ahead' = {}
  <2>1. Uncredited' = {}
    BY <1>1 DEF Uncredited
  <2>2. \A n \in DOMAIN dry' : dry'[n].status = "PENDING"
    BY <1>3
  <2>3. QED BY <2>1, <2>2 DEF Ahead
<1>6. shares' = shares + Net(Uncredited) /\ Net(Uncredited) \in Int /\ shares \in Nat
  <2>1. shares' = shares + Cardinality(Uncredited \cap PaperBuys)
                         - Cardinality(Uncredited \cap PaperSells)
    BY <1>1 DEF Recovered
  <2> DEFINE b == Cardinality(Uncredited \cap PaperBuys)
             c == Cardinality(Uncredited \cap PaperSells)
  <2>2. b \in Nat /\ c \in Nat
    BY PaperFinite, FS_CardinalityType
  <2>3. Net(Uncredited) = b - c /\ shares' = shares + b - c
    BY <2>1 DEF Net
  <2>4. shares \in Nat
    BY DEF PaperTyped
  <2> HIDE DEF b, c
  <2>5. QED BY <2>2, <2>3, <2>4
<1>7. shares' \in Nat
  <2>1. CASE Uncredited \cap PaperSells = {}
    <3>1. Net(Uncredited) >= 0
      BY <2>1, NetOfBuys
    <3>2. QED BY <1>6, <3>1
  <2>2. CASE Uncredited \cap PaperSells # {}
    <3>1. shares >= 1
      BY <2>2 DEF Uncredited, StockInv
    <3>2. Net(Uncredited) >= -1
      BY NetAtLeast
    <3>3. QED BY <1>6, <3>1, <3>2
  <2>3. QED BY <2>1, <2>2
<1>8. PaperTyped'
  <2>1. \A o \in Asked : row[o].dry \in 1..lastDry'
    <3>1. \A o \in Asked : row[o].dry \in Nat /\ row[o].dry # 0 /\ row[o].dry <= lastDry'
      BY <1>2, <1>4 DEF PaperTyped
    <3>2. QED BY <1>2, <3>1
  <2>2. DOMAIN dry' \subseteq 1..lastDry'
    BY <1>3, <2>1
  <2>3. dry' \in [DOMAIN dry' -> [order : PaperOrders, status : PaperSettled \cup {"PENDING"}]]
    <3>1. dry' = [n \in DOMAIN dry' |-> dry'[n]] /\ DOMAIN dry' = {row[o].dry : o \in Asked}
          /\ \A o \in Asked : dry'[row[o].dry] = [order |-> o, status |-> "PENDING"]
      BY <1>1, RestoredOrdersAre
    <3>2. ASSUME NEW o \in Asked
          PROVE  dry'[row[o].dry] \in [order : PaperOrders, status : PaperSettled \cup {"PENDING"}]
      <4>1. dry'[row[o].dry] = [order |-> o, status |-> "PENDING"] /\ o \in PaperOrders
        BY <1>4, <3>1
      <4>2. QED BY ONLY <4>1
    <3>3. \A n \in DOMAIN dry' : \E o \in Asked : n = row[o].dry
      BY <1>3
    <3>4. \A n \in DOMAIN dry' :
            dry'[n] \in [order : PaperOrders, status : PaperSettled \cup {"PENDING"}]
      BY <3>2, <3>3
    <3>5. dry' = [n \in DOMAIN dry' |-> dry'[n]]
      BY <3>1
    <3>6. QED BY ONLY <3>4, <3>5
  <2>4. credited' \subseteq PaperOrders
    BY <1>1 DEF PaperTyped, Uncredited
  <2>5. task' \in [PaperThreads -> PaperTasks]
    BY <1>1 DEF PaperTasks
  <2>6. starts' \in Nat
    BY <1>1 DEF PaperTyped
  <2>7. QED BY <1>1, <1>2, <1>7, <2>2, <2>3, <2>4, <2>5, <2>6 DEF PaperTyped
<1>9. NumbersInv'
  <2>1. DryNumberIsOne'
    BY <1>1 DEF NumbersInv, DryNumberIsOne
  <2>2. ASSUME NEW o \in PaperOrders, row[o].dry \in DOMAIN dry' PROVE dry'[row[o].dry].order = o
    <3>1. PICK p \in Asked : row[p].dry = row[o].dry
      BY <1>3, <2>2
    <3>2. p = o
      BY <1>4, <3>1 DEF NumbersInv, DryNumberIsOne
    <3>3. QED BY <1>3, <3>2
  <2>3. \A n, m \in DOMAIN dry' : dry'[n].order = dry'[m].order => n = m
    BY <1>3
  <2>4. QED BY <1>1, <1>2, <2>1, <2>2, <2>3 DEF NumbersInv
<1>10. RowsInv'
  BY <1>1, <1>3, <1>4 DEF RowsInv, PaperSettled
<1>11. TasksInv' /\ CarriedInv'
  <2>1. \A t \in PaperThreads : ~Doing(t, "place")' /\ ~Doing(t, "store")'
    BY <1>1 DEF Doing, Rest
  <2>2. \A n \in DOMAIN dry' : row'[dry'[n].order].status = dry'[n].status
    BY <1>1, <1>3, <1>4
  <2>3. QED BY <1>5, <2>1, <2>2 DEF TasksInv, CarriedInv
<1>12. StockInv'
  <2>1. stock' = shares' + Net(Ahead')
    BY <1>1, <1>5, <1>7, NetEmpty
  <2>2. \A o \in credited' : row'[o].status = "FILLED"
    BY <1>1 DEF StockInv, Uncredited
  <2>3. ASSUME NEW p \in PaperSells, row[p].status # "NONE", p \notin credited' PROVE shares' >= 1
    <3>1. shares >= 1 /\ p \notin Uncredited
      BY <1>1, <2>3 DEF StockInv
    <3>2. Uncredited \cap PaperSells = {}
      BY <3>1, PaperSaleAssumption
    <3>3. Net(Uncredited) >= 0
      BY <3>2, NetOfBuys
    <3>4. QED BY <1>6, <3>1, <3>3
  <2>4. QED BY <1>1, <1>5, <2>1, <2>2, <2>3 DEF StockInv
<1>13. QED BY <1>8, <1>9, <1>10, <1>11, <1>12

LEMMA PaperStepKeeps == PaperInv /\ [PaperNext]_paperVars => PaperInv'
<1> SUFFICES ASSUME PaperInv, [PaperNext]_paperVars PROVE PaperInv'
  OBVIOUS
<1>1. CASE PaperRestart
  BY <1>1, PaperRestartKeeps
<1>2. CASE \E t \in PaperThreads : PaperStep(t)
  <2>1. PICK t \in PaperThreads : PaperStep(t)
    BY <1>2
  <2>2. \/ \E o \in PaperOrders : PaperReserve(t, o) \/ PaperGet(t, o) \/ PaperCancel(t, o)
        \/ PaperPlace(t) \/ PaperPlaceFails(t) \/ PaperStore(t) \/ PaperApply(t)
    BY <2>1 DEF PaperStep
  <2>3. QED BY <2>2, PaperReserveKeeps, PaperGetKeeps, PaperCancelKeeps, PaperPlaceKeeps,
               PaperPlaceFailsKeeps, PaperStoreKeeps, PaperApplyKeeps
<1>3. CASE UNCHANGED paperVars
  BY <1>3, PaperStutters
<1>4. QED BY <1>1, <1>2, <1>3 DEF PaperNext

THEOREM PaperInvariant == PaperSpec => []PaperInv
BY PaperStarts, PaperStepKeeps, PTL DEF PaperSpec

(* The paper account and the rows hold the values they stand for; the holdings of the
   dry-run broker (_apply_fill) never go below zero. *)
THEOREM PaperTypeCorrect == PaperSpec => []PaperTypeOK
<1>1. PaperInv => PaperTypeOK
  <2>1. SUFFICES ASSUME PaperInv PROVE PaperTypeOK
    OBVIOUS
  <2>2. \A t \in PaperThreads : task[t].at \in {"rest", "place", "store", "apply"}
    BY <2>1 DEF PaperInv, PaperTyped, PaperTasks, Rest
  <2>3. QED BY <2>1, <2>2 DEF PaperInv, PaperTyped, PaperTypeOK
<1>2. QED BY <1>1, PaperInvariant, PTL

(* With no thread between two calls, what reconcile compares agrees, however often
   bot.main rebuilt the paper account and whatever was under way when a process ended. *)
THEOREM PaperAgreesHolds == PaperSpec => []PaperAgrees
<1>1. PaperInv => PaperAgrees
  <2>1. SUFFICES ASSUME PaperInv PROVE PaperAgrees
    OBVIOUS
  <2> USE <2>1 DEF PaperInv
  <2>2. ASSUME \A t \in PaperThreads : Idle(t)
        PROVE  /\ stock = shares
               /\ {<<n, dry[n].order>> : n \in {m \in DOMAIN dry : dry[m].status = "PENDING"}}
                    = {<<row[o].dry, o>> : o \in Asked}
    <3>1. \A n \in DOMAIN dry : row[dry[n].order].status = dry[n].status
      BY <2>2 DEF CarriedInv, Doing, Idle
    <3>2. Uncredited = {}
      BY <2>2 DEF CarriedInv, Doing, Idle
    <3>3. Ahead = {}
      BY <3>1, <3>2 DEF Ahead, Uncredited
    <3>4. stock = shares
      <4>1. stock = shares + 0 /\ shares \in Nat
        BY <3>3, NetEmpty DEF StockInv, PaperTyped
      <4>2. QED BY <4>1
    <3>5. ASSUME NEW n \in DOMAIN dry, dry[n].status = "PENDING"
          PROVE  dry[n].order \in Asked /\ row[dry[n].order].dry = n
      <4>1. dry[n].order \in PaperOrders /\ row[dry[n].order].status = "PENDING"
        BY <3>1, <3>5 DEF PaperTyped
      <4>2. row[dry[n].order].dry # 0
        BY <4>1 DEF RowsInv
      <4>3. row[dry[n].order].dry = n
        BY <4>2 DEF RowsInv
      <4>4. QED BY <4>1, <4>2, <4>3 DEF Asked, Live_
    <3>6. ASSUME NEW o \in Asked
          PROVE  row[o].dry \in DOMAIN dry /\ dry[row[o].dry].order = o
                 /\ dry[row[o].dry].status = "PENDING"
      <4>1. row[o].dry \in DOMAIN dry /\ o \in PaperOrders /\ row[o].status = "PENDING"
        BY DEF RowsInv, Asked, PaperSettled, Live_
      <4>2. dry[row[o].dry].order = o
        BY <4>1 DEF NumbersInv
      <4>3. QED BY <3>1, <4>1, <4>2
    <3>7. QED BY <3>4, <3>5, <3>6
  <2>3. QED BY <2>2 DEF PaperAgrees, NumbersInv
<1>2. QED BY <1>1, PaperInvariant, PTL
=============================================================================
