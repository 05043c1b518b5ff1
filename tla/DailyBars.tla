----------------------------- MODULE DailyBars ------------------------------
(***************************************************************************)
(* The daily bars the strategy is replayed on (YahooTossDualDataSource with *)
(* refresh=True): Yahoo first, a cached file that covers the range when     *)
(* Yahoo fails, recent Toss candles laid over the longest history at hand   *)
(* when the last session is still missing.  A series is a function from the *)
(* sessions it has to the adjustment basis their prices are in: a split     *)
(* changes the basis of everything a provider sends from then on, and of    *)
(* nothing that lies in a file.                                             *)
(***************************************************************************)
EXTENDS Integers, FiniteSetsExt

CONSTANTS
  MaxClosed,  \* completed sessions of a behaviour
  Span,       \* sessions of history the analysis asks for; the replay asks for all
  Candles,    \* candles of a Toss answer
  StartGrace, \* sessions a series may begin late
  MaxSplits

ASSUME BarsAssumption ==
  /\ MaxClosed \in Nat \ {0} /\ Span \in Nat /\ Candles \in Nat \ {0}
  /\ StartGrace \in Nat /\ MaxSplits \in Nat

VARIABLES
  lastClosed, \* the latest completed session
  quoteBasis, \* the adjustment basis of the day
  files,      \* the cache directory: from a range asked for to the series stored
  fetch,      \* the call under way: its range and the series it goes on with
  bars,       \* the last series handed to the strategy, its range, and the first
              \* session that came from one answer of one provider
  unbridged   \* some merge left sessions out between history and candles

barVars == <<lastClosed, quoteBasis, files, fetch, bars, unbridged>>

Sessions_ == 1..MaxClosed
Series == UNION {[S -> 0..MaxSplits] : S \in SUBSET Sessions_}
NoBars == [s \in {} |-> 0]
Ended == [pc |-> "none", start |-> 1, end |-> 1, base |-> NoBars]
Nothing == [start |-> 1, end |-> 1, series |-> NoBars, since |-> 1]

BarsInit ==
  /\ lastClosed = 1 /\ quoteBasis = 0 /\ files = NoBars /\ fetch = Ended /\ bars = Nothing
  /\ unbridged = FALSE

BarsTypeOK ==
  /\ lastClosed \in Sessions_ /\ quoteBasis \in 0..MaxSplits /\ unbridged \in BOOLEAN
  /\ DOMAIN files \subseteq Sessions_ \X Sessions_ /\ \A r \in DOMAIN files : files[r] \in Series
  /\ fetch.pc \in {"none", "yahoo", "toss"} /\ {fetch.start, fetch.end} \subseteq Sessions_
  /\ fetch.base \in Series /\ bars.series \in Series

First_(series) == Min(DOMAIN series)
Last_(series) == Max(DOMAIN series)
Empty(series) == DOMAIN series = {}

(* _slice_frame *)
Slice(series, start, end) == [s \in DOMAIN series \cap start..end |-> series[s]]

(* Mutant: older prices win where both have a session. *)
LaidUnder(base, recent) ==
  [s \in DOMAIN base \cup DOMAIN recent |-> IF s \in DOMAIN base THEN base[s] ELSE recent[s]]

(* Newer prices win where both have a session. *)
LaidOver(base, recent) ==
  [s \in DOMAIN base \cup DOMAIN recent |->
     IF s \in DOMAIN recent THEN recent[s] ELSE base[s]]

Stored(start, end, series) ==
  [r \in DOMAIN files \cup {<<start, end>>} |-> IF r = <<start, end>> THEN series ELSE files[r]]

-----------------------------------------------------------------------------
(* The call.                                                               *)

(* The stored series that begin in time (and, if the whole range is needed, reach its
   end), cut to the range. *)
Usable(whole) ==
  {Slice(files[r], fetch.start, fetch.end) :
     r \in {q \in DOMAIN files : /\ ~Empty(files[q])
                                 /\ First_(files[q]) <= fetch.start + StartGrace
                                 /\ whole => Last_(files[q]) >= fetch.end}} \ {NoBars}

(* _best_cache: the latest, then the longest; among equals the directory decides. *)
Best(whole) ==
  {f \in Usable(whole) :
     \A g \in Usable(whole) :
       \/ Last_(g) < Last_(f)
       \/ Last_(g) = Last_(f) /\ Cardinality(DOMAIN g) <= Cardinality(DOMAIN f)}

Hand(series, since_) ==
  /\ bars' = [start |-> fetch.start, end |-> fetch.end, series |-> series, since |-> since_]
  /\ fetch' = Ended

(* analyze_all and _calculate_target ask for a range up to the completed session. *)
AskBars ==
  /\ fetch = Ended
  /\ \E start \in {1, IF lastClosed > Span THEN lastClosed - Span ELSE 1} :
       fetch' = [pc |-> "yahoo", start |-> start, end |-> lastClosed, base |-> NoBars]
  /\ UNCHANGED <<lastClosed, quoteBasis, files, bars, unbridged>>

(* Yahoo answers, with or without the last session: the answer is stored as it is, and
   without the last session goes on to Toss. *)
YahooAnswers ==
  /\ fetch.pc = "yahoo"
  /\ \E last \in {fetch.end - 1, fetch.end} :
       LET series == [s \in fetch.start..last |-> quoteBasis]
       IN  /\ ~Empty(series)
           /\ files' = Stored(fetch.start, fetch.end, series)
           /\ IF last >= fetch.end THEN Hand(series, fetch.start)
              ELSE fetch' = [fetch EXCEPT !.pc = "toss", !.base = series] /\ UNCHANGED bars
  /\ UNCHANGED <<lastClosed, quoteBasis, unbridged>>

(* Yahoo fails on both its paths: a stored series that covers the range stands in,
   without one Toss does. *)
YahooFails ==
  /\ fetch.pc = "yahoo"
  /\ \/ \E f \in Best(TRUE) : Hand(f, fetch.end)
     \/ /\ Best(TRUE) = {} /\ Best(FALSE) = {}
        /\ fetch' = [fetch EXCEPT !.pc = "toss"] /\ UNCHANGED bars
     \/ /\ Best(TRUE) = {}
        /\ \E f \in Best(FALSE) : fetch' = [fetch EXCEPT !.pc = "toss", !.base = f]
        /\ UNCHANGED bars
  /\ UNCHANGED <<lastClosed, quoteBasis, files, unbridged>>

(* Toss answers with its newest candles, perhaps fewer, perhaps without the last
   session.  They are laid over the history; begin and end of the range must be there. *)
TossAnswers ==
  /\ fetch.pc = "toss"
  /\ \E last \in {lastClosed - 1, lastClosed} : \E count \in 1..Candles :
       LET recent == [s \in Sessions_ \cap (last - count + 1)..last |-> quoteBasis]
           merged == Slice(LaidOver(fetch.base, recent), fetch.start, fetch.end)
       IN  /\ ~Empty(recent)
           /\ IF /\ ~Empty(merged)
                 /\ First_(merged) <= fetch.start + StartGrace
                 /\ Last_(merged) >= fetch.end
              THEN /\ Hand(merged, First_(recent)) /\ files' = Stored(fetch.start, fetch.end, merged)
                   /\ unbridged' = (unbridged \/ (/\ ~Empty(fetch.base)
                                                  /\ Last_(fetch.base) + 1 < First_(recent)))
              ELSE fetch' = Ended /\ UNCHANGED <<files, bars, unbridged>>
  /\ UNCHANGED <<lastClosed, quoteBasis>>

(* Toss fails too: MarketDataError. *)
TossFails ==
  /\ fetch.pc = "toss" /\ fetch' = Ended
  /\ UNCHANGED <<lastClosed, quoteBasis, files, bars, unbridged>>

-----------------------------------------------------------------------------
(* A session completes; a split changes the basis; a file is lost or unreadable. *)

SessionCloses ==
  /\ lastClosed < MaxClosed /\ lastClosed' = lastClosed + 1
  /\ UNCHANGED <<quoteBasis, files, fetch, bars, unbridged>>

Split ==
  /\ quoteBasis < MaxSplits /\ quoteBasis' = quoteBasis + 1
  /\ UNCHANGED <<lastClosed, files, fetch, bars, unbridged>>

FileLost ==
  /\ \E r \in DOMAIN files : files' = [q \in DOMAIN files \ {r} |-> files[q]]
  /\ UNCHANGED <<lastClosed, quoteBasis, fetch, bars, unbridged>>

BarsNext ==
  \/ AskBars \/ YahooAnswers \/ YahooFails \/ TossAnswers \/ TossFails
  \/ SessionCloses \/ Split \/ FileLost

BarsSpec == BarsInit /\ [][BarsNext]_barVars

-----------------------------------------------------------------------------
(* Properties.                                                             *)

Handed == ~Empty(bars.series)

(* The last completed session of the range is there, however the series came about. *)
EndReached == Handed => Last_(bars.series) = bars.end

(* No session between its first and its last is missing, unless some merge could not
   bridge history and candles. *)
NoHole == Handed /\ ~unbridged =>
  DOMAIN bars.series = First_(bars.series)..Last_(bars.series)

(* What came from one answer is in one basis, and older history under it is in the same
   or an older one. *)
OneRecentBasis ==
  \A s, t \in DOMAIN bars.series :
    /\ bars.since <= s /\ s <= t => bars.series[s] = bars.series[t]
    /\ s <= t => bars.series[s] <= bars.series[t]

(* What YahooTossDualDataSource.daily hands to the strategy ends at the session asked
   for, has no hole it could have filled, and lays newer prices over older ones. *)
BarsTrusted == EndReached /\ NoHole /\ OneRecentBasis
=============================================================================
