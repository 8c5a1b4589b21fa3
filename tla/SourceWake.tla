----------------------------- MODULE SourceWake -----------------------------
(* How a cycle gets its evidence: the connectors are polled, what they        *)
(* deliver becomes raw records behind a durable cursor, raw records become    *)
(* evidence, and what is known by the cutoff is frozen as the anchor of the   *)
(* cycle.  live_source_flow.py, finlight.py, ingest.py, massive.py and the    *)
(* Finlight transport of official_sources.py.  The waking process shares the  *)
(* news source with a rival process that polls it too.  Both may fail between *)
(* any two transactions, the waking process may die, and the advisory lock    *)
(* of the source goes with the session that holds it.  What a record says is  *)
(* its number; the context that the input carries besides evidence is in      *)
(* ResearchAgenda.                                                            *)
EXTENDS Naturals, Sequences, FiniteSets, FiniteSetsExt

CONSTANTS
  MaxNews,          \* bound: records the news source publishes
  MaxCycles,        \* bound: cycles that wake
  MaxTime,          \* bound: the clock, within one day
  MaxFaults,        \* bound: failures, crashes and rival runs
  PageSize,         \* page_size
  MaxEvidence,      \* max_evidence
  Factor,           \* how many times more rows are looked at than are frozen
  MaxRequests       \* maximum of MassiveRequestBudget

WakeAssumption ==
  /\ {MaxNews, MaxCycles, MaxTime, MaxEvidence, Factor, MaxRequests} \subseteq Nat \ {0}
  /\ MaxFaults \in Nat
  \* A page of one would return the record of the cursor for ever.
  /\ PageSize \in Nat /\ PageSize >= 2

VARIABLES
  published, now, faults,       \* the world; faults so far
  \* durable: when each record became known (0: not yet), which are evidence, the
  \* cursors of the two sources, the events and the anchor of each cycle
  raw, evidence, cursor, daily, wakeEvent, counted, transport, anchor,
  lock,                         \* who holds the advisory lock of the news source
  reader,                       \* the runs of the adapter, one per process
  \* volatile: the wake, the retry gates, the cooldowns, the request budget
  phase, cycle, wakeAt, posture, cut, chosen, gate, cooling, budget

world == <<published, now>>
records == <<raw, evidence>>
cursors == <<cursor, daily>>
events == <<wakeEvent, counted, transport, anchor>>
source == <<lock, reader>>
attempt == <<cycle, wakeAt, posture, cut, chosen>>
wake == <<phase, attempt>>
limits == <<gate, cooling, budget>>
vars == <<world, faults, records, cursors, events, source, wake, limits>>

Cycles == 1..MaxCycles
Connectors == {"finlight", "massive"}
News == {"finlight"} \X (1..MaxNews)
\* What the market says at an instant; number 0 is the daily bar.
Market == {"massive"} \X (0..MaxTime)
Items == News \cup Market
Processes == {"wake", "rival"}
Off == [step |-> "off", at |-> 0, page |-> <<>>, mode |-> "none"]
NoAnchor == [cutoff |-> 0, evidence |-> {}, transport |-> <<>>]
Open == [failures |-> 0, retryAt |-> 0]

Init ==
  /\ published = 1 /\ now = 1 /\ faults = 0
  /\ raw = [i \in Items |-> 0] /\ evidence = {} /\ cursor = 0 /\ daily = FALSE
  /\ wakeEvent = [c \in Cycles |-> 0] /\ counted = [c \in Cycles |-> [s \in Connectors |-> 0]]
  /\ transport = [c \in Cycles |-> <<>>] /\ anchor = [c \in Cycles |-> NoAnchor]
  /\ lock = "none" /\ reader = [p \in Processes |-> Off]
  /\ phase = "idle" /\ cycle = 0 /\ wakeAt = 0 /\ posture = [s \in Connectors |-> "none"]
  /\ cut = 0 /\ chosen = {}
  /\ gate = [s \in Connectors |-> Open] /\ cooling = {} /\ budget = [cycle |-> 0, used |-> 0]

-----------------------------------------------------------------------------
\* The retry gate of a connector.  Delays double in the code; here they grow.

Blocked(s) == wakeAt < gate[s].retryAt
Gated(s, p) ==
  IF p \in {"healthy", "disabled"} THEN Open
  ELSE LET n == Min({gate[s].failures + 1, 2}) IN [failures |-> n, retryAt |-> wakeAt + n]
\* The connector has been asked and its posture counts.
Asked(s, p) ==
  posture' = [posture EXCEPT ![s] = p] /\ gate' = [gate EXCEPT ![s] = Gated(s, p)]
\* It is not asked this time.
Spared(s) == posture' = [posture EXCEPT ![s] = "degraded"] /\ UNCHANGED gate

-----------------------------------------------------------------------------
\* The adapter of the news source.

\* Mutant: a page holds the newest records first.
Newest(from) ==
  LET lo == Max({1, from})
      n == Min({PageSize, published - lo + 1})
  IN [k \in 1..n |-> published - k + 1]
\* A page begins with the record of the cursor and goes on in order.
Page(from) ==
  LET lo == Max({1, from})
  IN [k \in 1..Min({PageSize, published - lo + 1}) |-> lo + k - 1]

Step(p, s) == reader' = [reader EXCEPT ![p].step = s]
Release(p) == lock' = IF lock = p THEN "none" ELSE lock
Start(p) ==
  /\ reader[p] = Off
  /\ reader' = [reader EXCEPT ![p] = [Off EXCEPT !.step = "loaded", !.at = cursor]]

\* The run ends with a posture, which the wake notes.
Returns(p, result) ==
  /\ reader' = [reader EXCEPT ![p] = Off]
  /\ IF p = "wake" THEN Asked("finlight", result) /\ phase' = "massive"
                   ELSE UNCHANGED <<posture, gate, phase>>
  /\ UNCHANGED <<cycle, wakeAt, cut, chosen>>
Running(p) == p = "wake" => phase = "finlight"

\* The cursor is read first, before the source has an owner.
LoadCursor ==
  /\ phase = "finlight" /\ ~Blocked("finlight") /\ Start("wake")
  /\ UNCHANGED <<world, faults, records, cursors, events, lock, wake, limits>>
SparedNews ==
  /\ phase = "finlight" /\ Blocked("finlight") /\ reader["wake"] = Off
  /\ Spared("finlight") /\ phase' = "massive"
  /\ UNCHANGED <<world, faults, records, cursors, events, source, cycle, wakeAt, cut, chosen,
                 cooling, budget>>
RivalLoads ==
  /\ faults < MaxFaults /\ faults' = faults + 1 /\ Start("rival")
  /\ UNCHANGED <<world, records, cursors, events, lock, wake, limits>>

\* No request in a cooldown, and none without the lock.
Cooled(p) ==
  /\ Running(p) /\ reader[p].step = "loaded" /\ p = "wake" /\ "finlight" \in cooling
  /\ Returns(p, "rate_limited")
  /\ UNCHANGED <<world, faults, records, cursors, events, lock, cooling, budget>>
Busy(p) ==
  /\ Running(p) /\ reader[p].step = "loaded" /\ lock # "none"
  /\ p = "wake" => "finlight" \notin cooling
  /\ Returns(p, "disabled")
  /\ UNCHANGED <<world, faults, records, cursors, events, lock, cooling, budget>>
Acquire(p) ==
  /\ Running(p) /\ reader[p].step = "loaded" /\ lock = "none"
  /\ p = "wake" => "finlight" \notin cooling
  /\ lock' = p /\ Step(p, "owner")
  /\ UNCHANGED <<world, faults, records, cursors, events, wake, limits>>

\* A socket that streams, or a page of records; a stream that breaks is
\* completed by a page.
Connect(p) ==
  /\ reader[p].step = "owner"
  /\ \E mode \in {"stream", "rest"} :
       reader' = [reader EXCEPT ![p].step = "reading", ![p].mode = mode,
                                ![p].page = IF mode = "rest" THEN Page(reader[p].at) ELSE <<>>]
  /\ UNCHANGED <<world, faults, records, cursors, events, lock, wake, limits>>
Disconnect(p) ==
  /\ reader[p].step = "reading" /\ reader[p].mode = "stream" /\ reader[p].page = <<>>
  /\ reader' = [reader EXCEPT ![p].mode = "gap", ![p].page = Page(reader[p].at)]
  /\ UNCHANGED <<world, faults, records, cursors, events, lock, wake, limits>>
Streamed(p) ==
  /\ reader[p].step = "reading" /\ reader[p].mode = "stream" /\ reader[p].page = <<>>
  /\ reader[p].at < published
  /\ reader' = [reader EXCEPT ![p].page = <<reader[p].at + 1>>]
  /\ UNCHANGED <<world, faults, records, cursors, events, lock, wake, limits>>

\* Each record is stored, once, and then the cursor is.  Who finds its lock gone
\* when it gives it back has failed, whatever it stored.
Stored(i) == raw' = [raw EXCEPT ![i] = IF @ = 0 THEN now ELSE @]
Save(p) ==
  /\ reader[p].step = "reading" /\ reader[p].page # <<>>
  /\ Stored(<<"finlight", Head(reader[p].page)>>) /\ Step(p, "saved")
  /\ UNCHANGED <<world, faults, evidence, cursors, events, lock, wake, limits>>
PersistCursor(p) ==
  /\ reader[p].step = "saved"
  /\ cursor' = Head(reader[p].page)
  /\ reader' = [reader EXCEPT ![p].step = "reading", ![p].at = Head(reader[p].page),
                              ![p].page = Tail(@)]
  /\ UNCHANGED <<world, faults, records, daily, events, lock, wake, limits>>
Complete(p) ==
  /\ reader[p].step = "reading" /\ reader[p].page = <<>>
  /\ Returns(p, IF reader[p].mode = "stream" /\ lock = p THEN "healthy" ELSE "degraded")
  /\ Release(p)
  /\ UNCHANGED <<world, faults, records, cursors, events, cooling, budget>>

\* The source refuses for a while, or something breaks.
Limited(p) ==
  /\ reader[p].step = "owner" /\ lock = p /\ faults < MaxFaults /\ faults' = faults + 1
  /\ Returns(p, "rate_limited") /\ Release(p)
  /\ cooling' = IF p = "wake" THEN cooling \cup {"finlight"} ELSE cooling
  /\ UNCHANGED <<world, records, cursors, events, budget>>
Broken(p) ==
  /\ reader[p].step \in {"owner", "reading", "saved"}
  /\ faults < MaxFaults /\ faults' = faults + 1
  /\ Returns(p, "degraded") /\ Release(p)
  /\ UNCHANGED <<world, records, cursors, events, cooling, budget>>
\* The session that holds the lock ends; its owner goes on unaware.
LockLost ==
  /\ lock # "none" /\ faults < MaxFaults /\ faults' = faults + 1 /\ lock' = "none"
  /\ UNCHANGED <<world, records, cursors, events, reader, wake, limits>>
CooldownEnds(s) ==
  /\ s \in cooling /\ cooling' = cooling \ {s}
  /\ UNCHANGED <<world, faults, records, cursors, events, source, wake, gate, budget>>

-----------------------------------------------------------------------------
\* The market source: a snapshot, and once a day the daily bars.

ToFreeze(p) ==
  Asked("massive", p) /\ phase' = "freeze" /\ UNCHANGED <<cycle, wakeAt, cut, chosen>>

SparedMarket ==
  /\ phase = "massive" /\ Blocked("massive") /\ Spared("massive") /\ phase' = "freeze"
  /\ UNCHANGED <<world, faults, records, cursors, events, source, cycle, wakeAt, cut, chosen,
                 cooling, budget>>

Fetching == phase \in {"massive", "daily"} /\ (phase = "massive" => ~Blocked("massive"))
Refused ==
  /\ Fetching
  /\ \/ "massive" \in cooling /\ ToFreeze("rate_limited")
     \/ "massive" \notin cooling /\ budget.used = MaxRequests /\ ToFreeze("budget_exhausted")
  /\ UNCHANGED <<world, faults, records, cursors, events, source, cooling, budget>>

Admitted == Fetching /\ "massive" \notin cooling /\ budget.used < MaxRequests
Request == Admitted /\ budget' = [budget EXCEPT !.used = @ + 1]
\* The daily bars follow a snapshot unless their cursor has the date.
Fetched ==
  /\ Request
  /\ Stored(<<"massive", IF phase = "daily" THEN 0 ELSE now>>)
  /\ IF phase = "massive" /\ ~daily
     THEN phase' = "daily" /\ UNCHANGED <<cycle, wakeAt, cut, chosen, posture, gate, daily>>
     ELSE ToFreeze("healthy") /\ daily' = (daily \/ phase = "daily")
  /\ UNCHANGED <<world, faults, evidence, cursor, events, source, cooling>>
\* What was stored before the refusal stays.
MarketLimited ==
  /\ Request /\ faults < MaxFaults /\ faults' = faults + 1
  /\ cooling' = cooling \cup {"massive"} /\ ToFreeze("rate_limited")
  /\ Stored(<<"massive", IF phase = "daily" THEN 0 ELSE now>>) \/ UNCHANGED raw
  /\ UNCHANGED <<world, evidence, cursors, events, source>>
\* The bars may be stored before their cursor fails to be.
MarketBroken ==
  /\ Request /\ faults < MaxFaults /\ faults' = faults + 1 /\ ToFreeze("degraded")
  /\ Stored(<<"massive", IF phase = "daily" THEN 0 ELSE now>>) \/ UNCHANGED raw
  /\ UNCHANGED <<world, evidence, cursors, events, source, cooling>>

-----------------------------------------------------------------------------
\* The wake.

\* The budget counts for a cycle, its retries in this process included.
Reset(c) == budget' = IF budget.cycle = c THEN budget ELSE [cycle |-> c, used |-> 0]

\* An attempt takes the transport postures an earlier one has left, and then
\* freezes at the wake; else it polls.
Attempt(c, at) ==
  /\ cycle' = c /\ wakeAt' = at /\ chosen' = {} /\ Reset(c)
  /\ IF transport[c] # <<>>
     THEN phase' = "freeze" /\ posture' = transport[c] /\ cut' = at
     ELSE phase' = "finlight" /\ posture' = [s \in Connectors |-> "none"] /\ cut' = 0
  /\ UNCHANGED <<world, faults, records, cursors, events, source, gate, cooling>>

Begin == phase = "idle" /\ cycle < MaxCycles /\ Attempt(cycle + 1, now)
Retry == phase \in {"failed", "down"} /\ anchor[cycle] = NoAnchor /\ Attempt(cycle, wakeAt)
\* Recovery finds the cycle anchored, or gives it up.
Leave ==
  /\ phase = "down" /\ phase' = "idle"
  /\ UNCHANGED <<world, faults, records, cursors, events, source, attempt, limits>>

Fresher(i, j) == raw[i] > raw[j] \/ (raw[i] = raw[j] /\ i[2] > j[2])
KnownBy(at) == {i \in Items : raw[i] \in 1..at}
\* The freshest rows, and of those as many of each source as there is room for.
\* Between sources that came at one instant the order is that of their names.
Before(i, j) ==
  Fresher(i, j) \/ (raw[i] = raw[j] /\ i[2] = j[2] /\ i[1] = "finlight" /\ j[1] = "massive")
Window(rows) ==
  {i \in rows : Cardinality({j \in rows : Before(j, i)}) < Factor * MaxEvidence}
Round(rows, i) == Cardinality({j \in rows : j[1] = i[1] /\ Before(j, i)})
Served(rows, i, j) ==
  Round(rows, i) < Round(rows, j)
  \/ (Round(rows, i) = Round(rows, j) /\ i[1] = "finlight" /\ j[1] = "massive")
Balanced(rows) == {i \in rows : Cardinality({j \in rows : Served(rows, j, i)}) < MaxEvidence}
Counts(E) == [s \in Connectors |-> Cardinality({i \in E : i[1] = s})]

\* The posture of a source is an event of its own, if the source has rows.
Agrees(old, new) == \A s \in Connectors : old[s] = 0 \/ new[s] = 0 \/ old[s] = new[s]
FreezeAt == IF cut # 0 THEN cut ELSE Max({wakeAt, now})

\* One transaction: the wake, the evidence, the choice and its postures.  An
\* event that exists must be the same, the time it became known included.
Frozen ==
  LET at == FreezeAt
      rows == Balanced(Window(KnownBy(at)))
  IN /\ phase = "freeze"
     /\ wakeEvent[cycle] \in {0, at} /\ Agrees(counted[cycle], Counts(rows))
     /\ wakeEvent' = [wakeEvent EXCEPT ![cycle] = at]
     /\ counted' = [counted EXCEPT ![cycle] = [s \in Connectors |->
                                       IF @[s] = 0 THEN Counts(rows)[s] ELSE @[s]]]
     /\ evidence' = evidence \cup KnownBy(at)
     /\ cut' = at /\ chosen' = rows /\ phase' = "context"
     /\ UNCHANGED <<world, faults, raw, cursors, transport, anchor, source, cycle, wakeAt,
                    posture, limits>>
Conflict ==
  LET at == FreezeAt
  IN /\ phase = "freeze"
     /\ \/ wakeEvent[cycle] \notin {0, at}
        \/ ~Agrees(counted[cycle], Counts(Balanced(Window(KnownBy(at)))))
     /\ phase' = "failed"
     /\ UNCHANGED <<world, faults, records, cursors, events, source, attempt, limits>>

\* The rest of the input is read; then the transport postures, both or none.
Context ==
  /\ phase = "context" /\ phase' = (IF transport[cycle] = <<>> THEN "postures" ELSE "anchor")
  /\ UNCHANGED <<world, faults, records, cursors, events, source, attempt, limits>>
Postures ==
  /\ phase = "postures" /\ phase' = "anchor"
  /\ transport' = [transport EXCEPT ![cycle] = posture]
  /\ UNCHANGED <<world, faults, records, cursors, wakeEvent, counted, anchor, source,
                 attempt, limits>>
StartBatch ==
  /\ phase = "anchor" /\ phase' = "idle"
  /\ anchor' = [anchor EXCEPT ![cycle] =
       [cutoff |-> cut, evidence |-> chosen, transport |-> posture]]
  /\ UNCHANGED <<world, faults, records, cursors, wakeEvent, counted, transport, source,
                 attempt, limits>>

Fail ==
  /\ phase \in {"freeze", "context", "postures", "anchor"} /\ phase' = "failed"
  /\ faults < MaxFaults /\ faults' = faults + 1
  /\ UNCHANGED <<world, records, cursors, events, source, attempt, limits>>
Crash ==
  /\ phase \notin {"down", "idle"} /\ phase' = "down"
  /\ faults < MaxFaults /\ faults' = faults + 1
  /\ reader' = [reader EXCEPT !["wake"] = Off] /\ Release("wake")
  /\ posture' = [s \in Connectors |-> "none"] /\ cut' = 0 /\ chosen' = {}
  /\ gate' = [s \in Connectors |-> Open] /\ cooling' = {}
  /\ budget' = [cycle |-> 0, used |-> 0]
  /\ UNCHANGED <<world, records, cursors, events, cycle, wakeAt>>

Publish ==
  /\ published < MaxNews /\ published' = published + 1
  /\ UNCHANGED <<now, faults, records, cursors, events, source, wake, limits>>
Tick ==
  /\ now < MaxTime /\ now' = now + 1
  /\ UNCHANGED <<published, faults, records, cursors, events, source, wake, limits>>

\* The bounds are reached.
BoundReached ==
  /\ phase = "idle" /\ cycle = MaxCycles /\ now = MaxTime /\ published = MaxNews
  /\ reader["rival"] = Off /\ cooling = {} /\ UNCHANGED vars

Reads(p) ==
  \/ Cooled(p) \/ Busy(p) \/ Acquire(p) \/ Connect(p) \/ Disconnect(p) \/ Streamed(p)
  \/ Save(p) \/ PersistCursor(p) \/ Complete(p) \/ Limited(p) \/ Broken(p)
Polls ==
  \/ LoadCursor \/ SparedNews \/ SparedMarket
  \/ Refused \/ Fetched \/ MarketLimited \/ MarketBroken
Wakes == Begin \/ Retry \/ Leave \/ Frozen \/ Conflict \/ Context \/ Postures \/ StartBatch
Next ==
  \/ \E p \in Processes : Reads(p)
  \/ Polls \/ Wakes \/ RivalLoads \/ LockLost \/ Fail \/ Crash \/ Publish \/ Tick
  \/ BoundReached
  \/ \E s \in Connectors : CooldownEnds(s)
Spec == Init /\ [][Next]_vars

TypeOK ==
  /\ published \in 1..MaxNews /\ now \in 1..MaxTime /\ faults \in 0..MaxFaults
  /\ raw \in [Items -> 0..MaxTime] /\ evidence \subseteq Items /\ cursor \in 0..MaxNews
  /\ daily \in BOOLEAN /\ wakeEvent \in [Cycles -> 0..MaxTime]
  /\ \A c \in Cycles : anchor[c].evidence \subseteq Items
  /\ lock \in Processes \cup {"none"} /\ cooling \subseteq Connectors
  /\ phase \in {"idle", "finlight", "massive", "daily", "freeze", "context", "postures",
                "anchor", "failed", "down"}
  /\ cycle \in 0..MaxCycles /\ budget.used \in 0..MaxRequests

-----------------------------------------------------------------------------
\* The cursor never passes a record that was not stored, whoever polls with a
\* cursor of whatever age, loses its lock or dies (finlight.py).
NothingSkipped == \A n \in 1..cursor : raw[<<"finlight", n>>] # 0

\* An anchor holds what was known at its cutoff, the one cutoff of its cycle, the
\* transport postures its events record and, of each source it has rows of, as
\* many as the source's event counts (live_source_flow.py).
AnchorTruthful ==
  \A c \in Cycles : anchor[c] # NoAnchor =>
    /\ anchor[c].cutoff = wakeEvent[c]
    /\ anchor[c].evidence \subseteq evidence \cap KnownBy(wakeEvent[c])
    /\ anchor[c].transport = transport[c]
    /\ \A s \in Connectors : Counts(anchor[c].evidence)[s] \in {0, counted[c][s]}

\* No source crowds another out of the rows looked at: one that is left out has
\* as many rows frozen as any other, but for one (_balanced_rows).
FairShare ==
  phase = "context" =>
    \A i \in Window(KnownBy(cut) \cap evidence) \ chosen, j \in chosen :
      Counts(chosen)[j[1]] <= Counts(chosen)[i[1]] + 1

WakeTruthful == NothingSkipped /\ AnchorTruthful /\ FairShare

\* docs/architecture/opportunity-os.md:493: a failed cycle "resumes from durable
\* checkpoints": an attempt does not refuse the wake of an earlier one.
WakeResumes == [][~Conflict]_vars
=============================================================================
