-------------------------------- MODULE Inflight --------------------------------
(***************************************************************************)
(* How the internet service of alta-src shares its fetches: callers that   *)
(* miss the cache join the fetch that is already under way for their key,  *)
(* each may cancel for itself, the last to cancel aborts the fetch, and an *)
(* outage is bridged by what the cache held when the fetch began.          *)
(*                                                                         *)
(* An action is what JavaScript runs between two awaits.  An aborted fetch *)
(* need not notice at once: name resolution, for one, cannot be cancelled. *)
(***************************************************************************)
EXTENDS Naturals, FiniteSets

CONSTANTS
  Callers,   \* calls of the service's tools, one after the other
  Keys,      \* canonical keys of requests
  NoKey,     \* of a caller that wants nothing
  Limit      \* fetches that can be shared at a time

InflightAssumption == NoKey \notin Keys /\ Limit \in Nat

VARIABLES
  closed,    \* close() was called
  cache,     \* "none", "fresh" or "stale" for each key
  entry,     \* the shared fetch of each key
  call       \* each caller

vars == <<closed, cache, entry, call>>

\* stale: a stale value was at hand when the fetch began.
NoEntry == [running |-> FALSE, aborted |-> FALSE, stale |-> FALSE]
Entries == [running : BOOLEAN, aborted : BOOLEAN, stale : BOOLEAN]

\* "share": subscribed to the fetch of its key.  "own": a fetch of its own.
\* result: what the last call came to; "abandoned" is the error of a fetch that
\* was aborted because all its subscribers had cancelled.
Results == {"none", "value", "stale", "failed", "cancelled", "abandoned", "closed"}
Calls == [step : {"idle", "share", "own"}, key : Keys \cup {NoKey},
          stale : BOOLEAN, cancelled : BOOLEAN, result : Results]
Answered(result) ==
  [step |-> "idle", key |-> NoKey, stale |-> FALSE, cancelled |-> FALSE, result |-> result]

Init ==
  /\ closed = FALSE
  /\ cache = [k \in Keys |-> "none"]
  /\ entry = [k \in Keys |-> NoEntry]
  /\ call = [c \in Callers |-> Answered("none")]

Subscribers(k) == {c \in Callers : call[c].step = "share" /\ call[c].key = k}
Shared == {k \in Keys : entry[k].running}

--------------------------------------------------------------------------------
\* #cached and InflightCoalescer.run: the cache, the fetch under way, a new
\* fetch, or, when too many are shared, one of the caller's own.
Request(c, k) ==
  LET Wait(step) == call' = [call EXCEPT ![c] =
        [Answered("none") EXCEPT !.step = step, !.key = k, !.stale = cache[k] = "stale"]]
  IN
  /\ call[c].step = "idle"
  /\ \/ closed /\ call' = [call EXCEPT ![c] = Answered("closed")] /\ UNCHANGED entry
     \/ /\ ~closed /\ cache[k] = "fresh"
        /\ call' = [call EXCEPT ![c] = Answered("value")]
        /\ UNCHANGED entry
     \/ /\ ~closed /\ cache[k] # "fresh" /\ k \in Shared
        /\ Wait("share")
        /\ UNCHANGED entry
     \/ /\ ~closed /\ cache[k] # "fresh" /\ k \notin Shared
        /\ Cardinality(Shared) < Limit
        /\ entry' = [entry EXCEPT ![k] =
              [running |-> TRUE, aborted |-> FALSE, stale |-> cache[k] = "stale"]]
        /\ Wait("share")
     \/ /\ ~closed /\ cache[k] # "fresh" /\ k \notin Shared
        /\ Cardinality(Shared) >= Limit
        /\ Wait("own")
        /\ UNCHANGED entry
  /\ UNCHANGED <<closed, cache>>

\* Mutant: whoever cancels aborts the fetch.
Anyone(c) == TRUE

\* subscribers === 0
Last(c) == Subscribers(call[c].key) = {c}

\* The caller's signal: a subscriber is rejected at once, a fetch of one's own
\* rejects when it notices.
Cancel(c) ==
  /\ \/ /\ call[c].step = "share"
        /\ call' = [call EXCEPT ![c] = Answered("cancelled")]
        /\ entry' = IF Last(c) THEN [entry EXCEPT ![call[c].key].aborted = TRUE] ELSE entry
     \/ /\ call[c].step = "own"
        /\ call' = [call EXCEPT ![c].cancelled = TRUE]
        /\ UNCHANGED entry
  /\ UNCHANGED <<closed, cache>>

\* sharedSignal.throwIfAborted and lifecycleSignal.throwIfAborted
Delivers(aborted) == ~aborted /\ ~closed

\* What a fetch comes to, given its signal and the stale value it began with.
Outcomes(aborted, stale) ==
  (IF Delivers(aborted) THEN {"value"} ELSE {})
  \cup (IF stale /\ ~closed /\ ~aborted THEN {"stale"} ELSE {})
  \cup {IF closed THEN "closed" ELSE "failed"}

\* A value is stored, an outage is not.
Store(k, result) ==
  cache' = IF result = "value" THEN [cache EXCEPT ![k] = "fresh"] ELSE cache

\* A shared fetch settles: every subscriber gets what it came to.
Settle(k) ==
  /\ entry[k].running
  /\ \E result \in Outcomes(entry[k].aborted, entry[k].stale)
                   \cup (IF entry[k].aborted THEN {"abandoned"} ELSE {}) :
        /\ Store(k, result)
        /\ call' = [c \in Callers |->
              IF c \in Subscribers(k) THEN Answered(result) ELSE call[c]]
  /\ entry' = [entry EXCEPT ![k] = NoEntry]
  /\ UNCHANGED closed

SettleOwn(c) ==
  /\ call[c].step = "own"
  /\ \E result \in Outcomes(call[c].cancelled, call[c].stale)
                   \cup (IF call[c].cancelled THEN {"cancelled"} ELSE {}) :
        /\ Store(call[c].key, result)
        /\ call' = [call EXCEPT ![c] = Answered(result)]
  /\ UNCHANGED <<closed, entry>>

\* Time passes, or room is made for another value.
Age(k) ==
  /\ cache[k] # "none"
  /\ \E older \in {"stale", "none"} \ {cache[k]} : cache' = [cache EXCEPT ![k] = older]
  /\ UNCHANGED <<closed, entry, call>>

\* InternetService.close
Close ==
  /\ ~closed
  /\ closed' = TRUE
  /\ cache' = [k \in Keys |-> "none"]
  /\ UNCHANGED <<entry, call>>

Next ==
  \/ \E c \in Callers, k \in Keys : Request(c, k)
  \/ \E c \in Callers : Cancel(c) \/ SettleOwn(c)
  \/ \E k \in Keys : Settle(k) \/ Age(k)
  \/ Close

Spec == Init /\ [][Next]_vars
--------------------------------------------------------------------------------
TypeOK ==
  /\ closed \in BOOLEAN
  /\ cache \in [Keys -> {"none", "fresh", "stale"}]
  /\ entry \in [Keys -> Entries]
  /\ call \in [Callers -> Calls]

\* A closed service keeps nothing, although fetches that began before still
\* settle afterwards (#cached looks at the lifecycle once more, close clears).
ClosedKeepsNothing == closed => \A k \in Keys : cache[k] = "none"

\* A fetch is aborted only when nobody waits for it any more, and what an
\* aborted fetch brings is neither cached nor handed out.
LastOneAborts ==
  \A k \in Keys :
    /\ entry'[k].aborted /\ ~entry[k].aborted => Subscribers(k)' = {}
    /\ entry[k].aborted /\ ~entry'[k].running =>
          /\ cache'[k] = "fresh" => cache[k] = "fresh"
          /\ \A c \in Subscribers(k) : call'[c].result \notin {"value", "stale"}
SharedToTheLast == [][LastOneAborts]_vars

\* Cancelling is one's own affair: nobody gets the error of callers that
\* cancelled (the title of the test: "concurrent cache misses share one fetch
\* without coupling subscriber cancellation").
CancellationUncoupled == \A c \in Callers : call[c].result # "abandoned"
================================================================================
