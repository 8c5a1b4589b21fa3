------------------------------ MODULE MCTraffic ------------------------------
(***************************************************************************)
(* What bounds and shares the requests of the host, for TLC in one run:    *)
(* the model gateway (once for its accounts, once small enough for its     *)
(* liveness), the shared fetches, the access to one source, and the        *)
(* sources of the research process, for any record of parameters: once in  *)
(* one wake with two faults and once in two wakes while the clock goes on. *)
(* They share no state, so one of them runs in each behaviour and the      *)
(* others stay as they began.                                              *)
(***************************************************************************)
EXTENDS Gateway

CONSTANTS
  r1, r2, r3, A, B,                 \* three requests, or calls, and two providers
  Callers, Keys, NoKey, Limit,      \* of Inflight
  Clients, MaxQueue, Threshold,     \* of SourceAccess
  OneWake, TwoWakes                 \* the parameters of SourceWake

VARIABLES
  closed, cache, entry, call,
  waiting, paced, timer, failures, open, cooling, probe, access,
  published, now, faults, raw, evidence, cursor, daily, wakeEvent, counted, transport,
  anchor, lock, reader, phase, cycle, wakeAt, posture, cut, chosen, gate, resting, budget,
  system     \* what runs

\* For TLC: r3 uses provider B, which has one place like the rest, but for A; one
\* request may wait at each limiter.
ProviderOf == [r \in {r1, r2, r3} |-> IF r = r3 THEN B ELSE A]
PlacesOf == [l \in {"media", "global", A, B} |-> IF l = A THEN 2 ELSE 1]
WaitersOf == [l \in {"media", "global", A, B} |-> 1]
OneWakeOf ==
  [news |-> 2, cycles |-> 1, time |-> 1, faults |-> 2, page |-> 2, evidence |-> 2,
   factor |-> 2, requests |-> 2]
TwoWakesOf == [OneWakeOf EXCEPT !.news = 1, !.cycles = 2, !.time = 2, !.faults = 1]

\* Two requests to one provider, one of them with media.
Load == INSTANCE Gateway WITH
  Requests <- {r1, r2}, Media <- {r1}, Providers <- {A},
  Provider <- [r \in {r1, r2} |-> A],
  Configured <- [l \in {"media", "global", A} |-> IF l = A THEN 2 ELSE 1],
  QueueLimit <- [l \in {"media", "global", A} |-> 1],
  MaxRetries <- 1, Recovery <- 1, Budget <- 1, MaxChunks <- 1

Fetches == INSTANCE Inflight
Source == INSTANCE SourceAccess WITH queue <- waiting, call <- access, Calls <- Clients

Wake(K) == INSTANCE SourceWake WITH cooling <- resting,
  MaxNews <- K.news, MaxCycles <- K.cycles, MaxTime <- K.time, MaxFaults <- K.faults,
  PageSize <- K.page, MaxEvidence <- K.evidence, Factor <- K.factor, MaxRequests <- K.requests

ASSUME WakeBounds == Wake(OneWake)!WakeAssumption /\ Wake(TwoWakes)!WakeAssumption
ASSUME GateBounds == GatewayAssumption /\ Load!GatewayAssumption
ASSUME AccessBounds == Fetches!InflightAssumption /\ Source!SourceAssumption

fetchVars == <<closed, cache, entry, call>>
sourceVars == <<waiting, paced, timer, failures, open, cooling, probe, access>>
wakeVars ==
  <<published, now, faults, raw, evidence, cursor, daily, wakeEvent, counted, transport,
    anchor, lock, reader, phase, cycle, wakeAt, posture, cut, chosen, gate, resting, budget>>
trafficVars == <<vars, fetchVars, sourceVars, wakeVars, system>>

InGate == system = "gateway"
InLoad == system = "load"
InFetches == system = "fetches"
InSource == system = "source"
InOneWake == system = "one wake"
InTwoWakes == system = "two wakes"

TrafficInit ==
  /\ Fetches!Init /\ Source!Init
  /\ \/ system = "load" /\ Load!Init /\ Wake(OneWake)!Init
     \/ system \in {"gateway", "fetches", "source", "one wake"} /\ Init /\ Wake(OneWake)!Init
     \/ system = "two wakes" /\ Init /\ Wake(TwoWakes)!Init

TrafficNext ==
  /\ UNCHANGED system
  /\ \/ /\ UNCHANGED wakeVars
        /\ \/ InGate /\ Next /\ UNCHANGED <<fetchVars, sourceVars>>
           \/ InLoad /\ Load!Next /\ UNCHANGED <<fetchVars, sourceVars>>
           \/ InFetches /\ Fetches!Next /\ UNCHANGED <<vars, sourceVars>>
           \/ InSource /\ Source!Next /\ UNCHANGED <<vars, fetchVars>>
     \/ /\ UNCHANGED <<vars, fetchVars, sourceVars>>
        /\ (InOneWake /\ Wake(OneWake)!Next) \/ (InTwoWakes /\ Wake(TwoWakes)!Next)

TrafficSafety == TrafficInit /\ [][TrafficNext]_trafficVars

\* The fairness of Gateway and SourceAccess; the other two have none.
TrafficFairness ==
  /\ \A r \in {r1, r2} : WF_vars(InLoad /\ Load!GoOn(r))
  /\ WF_sourceVars(InSource /\ Source!TimerFires)
  /\ WF_sourceVars(InSource /\ Source!IntervalEnds)
  /\ WF_sourceVars(InSource /\ Source!CooldownEnds)
  /\ \A c \in Clients : WF_sourceVars(InSource /\ Source!Ends(c))

TrafficSpec == TrafficSafety /\ TrafficFairness

--------------------------------------------------------------------------------
\* What is held has its owner: each limiter counts exactly the requests that
\* hold one of its places, the budget exactly the bytes in memory, a request in
\* back-off holds no place, a circuit's probe belongs to one running call whose
\* answer will count, and a closed internet service keeps nothing that a late
\* fetch brings (acquireCapacityLease, readJsonBody, resilientJson,
\* BackendHealth, #cached).
Accounted ==
  /\ InGate =>
       PlacesAccounted /\ BytesAccounted /\ BackoffHoldsNothing
  /\ InSource => Source!ProbeOwned
  /\ InFetches => Fetches!ClosedKeepsNothing

\* Nobody is forgotten in a queue: a limiter with waiters has no free place
\* while the gateway is open (#drainQueue), and a source's queue has a timer
\* and every queued call exactly once (SourcePacer).
NobodyForgotten == (InGate => NoIdlePlace) /\ (InSource => Source!QueueServed)

\* A wake is truthful about its sources.  The cursor never passes a record that
\* was not stored, whoever polls with a cursor of whatever age, loses its lock or
\* dies (finlight.py); an anchor holds what was known at the one cutoff of its
\* cycle and the postures its events record; no source crowds another out of
\* the rows that are looked at (live_source_flow.py).
WakeTruthful ==
  /\ InOneWake => Wake(OneWake)!WakeTruthful
  /\ InTwoWakes => Wake(TwoWakes)!WakeTruthful

\* Late and excess events change nothing: places are only given below the
\* limit that holds by then and never while draining, calls that a circuit or
\* a probe has overtaken do not move the breaker, dispatches keep their
\* interval, and a fetch is aborted only when its last subscriber has left.
NothingOverdue ==
  [][/\ InGate => WithinLimit
     /\ InSource => Source!OverdueHarmless /\ Source!Apart
     /\ InFetches => Fetches!LastOneAborts]_trafficVars

\* Waiting ends: attempts end, served or refused, without starvation or mutual
\* waiting; a closed gateway gives back every place and byte for good; a call
\* queued for a source is dispatched or rejected.  A name is a request of the one
\* instance and a call of the other.
Waits(r) ==
  \/ InLoad /\ r \in {r1, r2} /\ Load!Trying(r)
  \/ InSource /\ r \in Clients /\ Source!Waits(r)
WaitsEnd ==
  /\ \A r \in {r1, r2} \cup Clients : Waits(r) ~> ~Waits(r)
  /\ (InLoad /\ closing) ~> []Load!Drained
================================================================================
