----------------------------- MODULE TokenCache -----------------------------
(***************************************************************************)
(* One access token of the broker, shared by the threads of several local  *)
(* processes through a cache file under an exclusive file lock             *)
(* (SharedTossTokenCache, ResilientReadTossClient.authenticate,            *)
(* TossClient.authenticate and TossClient._request).  Issuing a token      *)
(* revokes the one before.  A request answered 401 refreshes the token;    *)
(* only a read is sent again.  Tokens are numbered in the order the broker *)
(* issues them; 0 is none.                                                 *)
(***************************************************************************)
EXTENDS Integers

CONSTANTS
  Processes,  \* the local services with the same credentials
  Callers,    \* their threads
  Home,       \* the process of each thread
  MaxTokens   \* tokens the broker issues in a behaviour

ASSUME TokenAssumption == Home \in [Callers -> Processes] /\ MaxTokens \in Nat

VARIABLES
  issued,  \* tokens issued so far
  valid,   \* the token the broker accepts
  cache,   \* the token in the cache file
  fresh,   \* its age is below the limit
  mem,     \* _access_token of each process's client
  call,    \* each thread's request
  holder   \* the threads that hold the file lock

brokerVars == <<issued, valid>>
fileVars == <<cache, fresh>>
tokenVars == <<issued, valid, cache, fresh, mem, call, holder>>

Tokens == 0..MaxTokens
CallPlaces == {"idle", "lock", "issue", "store", "send", "rejected", "replay"}
NoCall == [pc |-> "idle", tok |-> 0, rejected |-> 0, force |-> FALSE, write |-> FALSE,
           last |-> FALSE]

TokenInit ==
  /\ issued = 0 /\ valid = 0 /\ cache = 0 /\ fresh = FALSE
  /\ mem = [p \in Processes |-> 0]
  /\ call = [c \in Callers |-> NoCall]
  /\ holder = {}

TokenTypeOK ==
  /\ issued \in Tokens /\ valid \in Tokens /\ cache \in Tokens /\ fresh \in BOOLEAN
  /\ mem \in [Processes -> Tokens]
  /\ call \in [Callers -> [pc : CallPlaces, tok : Tokens, rejected : Tokens, force : BOOLEAN,
                           write : BOOLEAN, last : BOOLEAN]]
  /\ holder \subseteq Callers

AtCall(c, place) == call[c].pc = place
Step(c, place) == call' = [call EXCEPT ![c].pc = place]
Done(c) == call' = [call EXCEPT ![c] = NoCall]
Hold(c, t) == mem' = [mem EXCEPT ![Home[c]] = t]

(* Where the thread continues with the token it got. *)
Onward(c, t) ==
  call' = [call EXCEPT ![c] = IF call[c].force
                              THEN [NoCall EXCEPT !.pc = "replay", !.write = call[c].write]
                              ELSE [call[c] EXCEPT !.pc = "send", !.tok = t]]

(* A thread starts a read or a write. *)
Begin(c) ==
  /\ AtCall(c, "idle")
  /\ \E w \in BOOLEAN : call' = [call EXCEPT ![c] = [NoCall EXCEPT !.pc = "lock", !.write = w]]
  /\ UNCHANGED <<brokerVars, fileVars, mem, holder>>

(* load_locked: the fresh token of the file, unless it is the one excluded. *)
Cached(c) ==
  IF cache # 0 /\ fresh /\ (call[c].force => cache # call[c].rejected) THEN cache ELSE 0

(* discard_locked *)
Discarded(c) == call[c].force /\ call[c].rejected # 0 /\ cache = call[c].rejected

(* Under the lock the thread takes the file's token, or else drops the rejected one and
   goes to issue; a forced refresh clears the client's token first. *)
Loaded(c) ==
  \/ /\ Cached(c) # 0 /\ Hold(c, Cached(c)) /\ Onward(c, Cached(c))
     /\ UNCHANGED <<fileVars, holder>>
  \/ /\ Cached(c) = 0
     /\ holder' = holder \union {c} /\ Step(c, "issue")
     /\ mem' = IF call[c].force THEN [mem EXCEPT ![Home[c]] = 0] ELSE mem
     /\ cache' = IF Discarded(c) THEN 0 ELSE cache
     /\ UNCHANGED fresh

(* Mutant: the lock does not exclude the other processes. *)
LoadUnlocked(c) == AtCall(c, "lock") /\ Loaded(c) /\ UNCHANGED brokerVars

Load(c) == AtCall(c, "lock") /\ holder = {} /\ Loaded(c) /\ UNCHANGED brokerVars

(* TossClient.authenticate, still under the file lock: the client's token when there is
   one and no refresh is forced, or a new token from the broker. *)
Issue(c) ==
  /\ AtCall(c, "issue")
  /\ IF mem[Home[c]] # 0 /\ ~call[c].force
     THEN call' = [call EXCEPT ![c].pc = "store", ![c].tok = mem[Home[c]]]
          /\ UNCHANGED <<brokerVars, mem>>
     ELSE /\ issued < MaxTokens /\ issued' = issued + 1 /\ valid' = issued + 1
          /\ Hold(c, issued + 1)
          /\ call' = [call EXCEPT ![c].pc = "store", ![c].tok = issued + 1]
  /\ UNCHANGED <<fileVars, holder>>

(* The last retry fails, before the broker issued anything or after it.  A request
   fails with it; a refresh goes on without a token. *)
IssueFails(c) ==
  /\ AtCall(c, "issue") /\ (call[c].force \/ mem[Home[c]] = 0)
  /\ \/ UNCHANGED brokerVars
     \/ issued < MaxTokens /\ issued' = issued + 1 /\ valid' = issued + 1
  /\ holder' = holder \ {c}
  /\ IF call[c].force THEN Onward(c, 0) ELSE Done(c)
  /\ UNCHANGED <<fileVars, mem>>

(* store_locked *)
Store(c) ==
  /\ AtCall(c, "store")
  /\ cache' = call[c].tok /\ fresh' = TRUE /\ holder' = holder \ {c}
  /\ Onward(c, call[c].tok)
  /\ UNCHANGED <<brokerVars, mem>>

(* _request: the broker answers, or 401.  The second 401 of a request is final. *)
Send(c) ==
  /\ AtCall(c, "send")
  /\ IF call[c].tok = valid \/ call[c].last THEN Done(c) ELSE Step(c, "rejected")
  /\ UNCHANGED <<brokerVars, fileVars, mem, holder>>

(* authenticate(force=True): the token taken as rejected is the one the client holds
   now, which another thread of the process may have replaced since. *)
Reject(c) ==
  /\ AtCall(c, "rejected")
  /\ call' = [call EXCEPT ![c].pc = "lock", ![c].force = TRUE, ![c].rejected = mem[Home[c]]]
  /\ UNCHANGED <<brokerVars, fileVars, mem, holder>>

(* A read is sent once more when the client has a token; a write never is. *)
Replay(c) ==
  /\ AtCall(c, "replay")
  /\ IF ~call[c].write /\ mem[Home[c]] # 0
     THEN call' = [call EXCEPT ![c] = [NoCall EXCEPT !.pc = "lock", !.last = TRUE]]
     ELSE Done(c)
  /\ UNCHANGED <<brokerVars, fileVars, mem, holder>>

(* The broker lets its token expire. *)
TokenExpires == valid # 0 /\ valid' = 0 /\ UNCHANGED <<issued, fileVars, mem, call, holder>>

(* The entry of the file passes its age limit. *)
CacheAges == fresh /\ fresh' = FALSE /\ UNCHANGED <<brokerVars, cache, mem, call, holder>>

(* A process ends; the system releases its file lock. *)
ProcessEnds(p) ==
  /\ mem' = [mem EXCEPT ![p] = 0]
  /\ call' = [c \in Callers |-> IF Home[c] = p THEN NoCall ELSE call[c]]
  /\ holder' = {c \in holder : Home[c] # p}
  /\ UNCHANGED <<brokerVars, fileVars>>

CallerStep(c) ==
  \/ Begin(c) \/ Load(c) \/ Issue(c) \/ IssueFails(c) \/ Store(c)
  \/ Send(c) \/ Reject(c) \/ Replay(c)

TokenNext ==
  \/ \E c \in Callers : CallerStep(c)
  \/ \E p \in Processes : ProcessEnds(p)
  \/ TokenExpires \/ CacheAges

TokenSpec == TokenInit /\ [][TokenNext]_tokenVars

-----------------------------------------------------------------------------
(* Properties.                                                             *)

(* The file offers a fresh token the broker accepts. *)
Good == valid # 0 /\ cache = valid /\ fresh

(* A thread refreshes because of a 401 on one token, and takes for the rejected token
   the good one that another thread of its process has put in place meanwhile. *)
Mistaken(c) ==
  AtCall(c, "lock") /\ call[c].force /\ call[c].rejected = valid /\ call[c].tok # valid

(* While the file offers a good token no process discards it, overwrites it or has the
   broker issue another that revokes it, short of a mistaken refresh
   (SharedTossTokenCache: "lets every local process converge on the newest token"). *)
TokensConverge ==
  [][Good => \/ issued' = issued /\ cache' = cache
             \/ \E c \in Callers : Mistaken(c) /\ AtCall(c, "issue")']_tokenVars
=============================================================================
