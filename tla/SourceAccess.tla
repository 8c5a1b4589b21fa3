------------------------------ MODULE SourceAccess ------------------------------
(***************************************************************************)
(* Access to one public source in alta-src/internet: calls queue behind    *)
(* the pacer (source-pacer.mjs), are admitted by the circuit breaker       *)
(* (backend-health.mjs) the moment they are dispatched, and report what    *)
(* came of them with the lease they were admitted under (runSource,        *)
(* runBackend).  An unpaced search call with an explicit backend goes      *)
(* straight to the breaker and may ignore its cool-down.                   *)
(*                                                                         *)
(* A lease is current while its generation is the breaker's; a new         *)
(* generation makes every lease given before it an old one.                *)
(***************************************************************************)
EXTENDS Naturals, Sequences

CONSTANTS
  Calls,      \* calls to the source
  MaxQueue,   \* places in the pacer's queue
  Threshold   \* consecutive failures that open the circuit

SourceAssumption == MaxQueue \in Nat \ {0} /\ Threshold \in Nat \ {0}

VARIABLES
  queue,      \* the pacer's queue
  paced,      \* the interval since the last dispatch is not over
  timer,      \* the pacer's timer is set
  failures,   \* consecutive failures
  open,       \* cooldownUntil is set
  cooling,    \* and not reached
  probe,      \* probeInFlight
  call        \* of each call: its step, its lease and whether its wait expired

vars == <<queue, paced, timer, failures, open, cooling, probe, call>>
pacer == <<queue, paced, timer>>

Records == [step : {"idle", "queued", "running", "direct"}, current : BOOLEAN, expired : BOOLEAN]
Idle == [step |-> "idle", current |-> FALSE, expired |-> FALSE]
Queued == [Idle EXCEPT !.step = "queued"]
UnderWay(c) == call[c].step \in {"running", "direct"}

Init ==
  /\ queue = <<>>
  /\ paced = FALSE
  /\ timer = FALSE
  /\ failures = 0
  /\ open = FALSE
  /\ cooling = FALSE
  /\ probe = FALSE
  /\ call = [c \in Calls |-> Idle]

\* state.generation += 1
OutOfDate(calls) == [c \in Calls |-> [calls[c] EXCEPT !.current = FALSE]]

--------------------------------------------------------------------------------
\* BackendHealth.acquire
Admits(force) == ~open \/ ((force \/ ~cooling) /\ ~probe)

\* A call is admitted; the first one of an open circuit is its probe.
Admit(c, calls, step) ==
  /\ probe' = open
  /\ call' = [(IF open THEN OutOfDate(calls) ELSE calls) EXCEPT ![c] =
                [Idle EXCEPT !.step = step, !.current = TRUE]]

\* The first n entries of q have expired, and the next one has not.
Expired(n, q, calls) ==
  /\ \A i \in 1..n : calls[q[i]].expired
  /\ n < Len(q) => ~calls[q[n + 1]].expired

Behind(q, n) == SubSeq(q, n + 1, Len(q))

\* The first n of q are rejected, with their timeout or an open circuit.
Rejected(q, n, calls) ==
  [c \in Calls |-> IF \E i \in 1..n : q[i] = c THEN Idle ELSE calls[c]]

\* Mutant: a drain that dispatches leaves the timer alone.
ArmedOnReturn(q, dispatched) == q # <<>> /\ ~dispatched

\* The timer is set for whoever is left.
Armed(q, dispatched) == q # <<>>

\* nextAt = now + intervalMs
Spaced == TRUE

\* #drain: expired entries are rejected; unless the interval still runs, the
\* first of the others is dispatched if the breaker admits it, and if not,
\* everybody is rejected.
Drain(q, calls) ==
  \E n \in 0..Len(q) :
    /\ Expired(n, q, calls)
    /\ \/ /\ paced \/ n = Len(q)
          /\ queue' = Behind(q, n)
          /\ timer' = Armed(Behind(q, n), FALSE)
          /\ call' = Rejected(q, n, calls)
          /\ UNCHANGED <<paced, probe>>
       \/ /\ ~paced /\ n < Len(q) /\ ~Admits(FALSE)
          /\ queue' = <<>>
          /\ timer' = FALSE
          /\ call' = Rejected(q, Len(q), calls)
          /\ UNCHANGED <<paced, probe>>
       \/ /\ ~paced /\ n < Len(q) /\ Admits(FALSE)
          /\ \E m \in (n + 1)..Len(q) :
                /\ Expired(m - n - 1, Behind(q, n + 1), calls)
                /\ queue' = Behind(q, m)
                /\ timer' = Armed(Behind(q, m), TRUE)
                /\ Admit(q[n + 1], Rejected(q, m, calls), "running")
          /\ paced' = Spaced

--------------------------------------------------------------------------------
\* SourcePacer.schedule; a full queue rejects and changes nothing.
Schedule(c) ==
  /\ call[c].step = "idle"
  /\ Len(queue) < MaxQueue
  /\ Drain(Append(queue, c), [call EXCEPT ![c] = Queued])
  /\ UNCHANGED <<failures, open, cooling>>

\* runBackend: a search call that may, or may not, insist on its backend.
Direct(c) ==
  /\ call[c].step = "idle"
  /\ \E force \in BOOLEAN : Admits(force)
  /\ Admit(c, call, "direct")
  /\ UNCHANGED <<queue, paced, timer, failures, open, cooling>>

\* entry.cancel: the caller or the whole service goes away.
Leave(c) ==
  /\ call[c].step = "queued"
  /\ \E i \in 1..Len(queue) :
        /\ queue[i] = c
        /\ Drain(SubSeq(queue, 1, i - 1) \o Behind(queue, i), [call EXCEPT ![c] = Idle])
  /\ UNCHANGED <<failures, open, cooling>>

\* The timer is due when the interval is over or the first entry has expired.
TimerFires ==
  /\ timer
  /\ ~paced \/ call[Head(queue)].expired
  /\ Drain(queue, call)
  /\ UNCHANGED <<failures, open, cooling>>

IntervalEnds == paced /\ paced' = FALSE /\ UNCHANGED <<queue, timer, failures, open, cooling, probe, call>>
CooldownEnds == cooling /\ cooling' = FALSE /\ UNCHANGED <<queue, paced, timer, failures, open, probe, call>>
WaitExpires(c) ==
  /\ call[c].step = "queued"
  /\ call' = [call EXCEPT ![c].expired = TRUE]
  /\ UNCHANGED <<queue, paced, timer, failures, open, cooling, probe>>

--------------------------------------------------------------------------------
\* #owns
Owns(c) == call[c].current

\* What an answer leaves of the leases: an owner that ends a probe makes the
\* others old.
Ended(c, renew) ==
  call' = [(IF renew THEN OutOfDate(call) ELSE call) EXCEPT ![c] = Idle]

Succeeded(c) ==
  /\ UnderWay(c)
  /\ IF Owns(c)
     THEN /\ failures' = 0 /\ open' = FALSE /\ cooling' = FALSE /\ probe' = FALSE
          /\ Ended(c, probe)
     ELSE Ended(c, FALSE) /\ UNCHANGED <<failures, open, cooling, probe>>
  /\ UNCHANGED pacer

\* failureThreshold
Reaches(n) == n >= Threshold

\* BackendHealth.failed: only a transient failure counts.
Failed(c, transient) ==
  LET opens == transient /\ Reaches(failures + 1) IN
  /\ UnderWay(c)
  /\ IF Owns(c)
     THEN /\ failures' = IF ~transient THEN failures ELSE IF opens THEN 0 ELSE failures + 1
          /\ open' = (open \/ opens)
          /\ cooling' = (cooling \/ opens)
          /\ probe' = FALSE
          /\ Ended(c, probe \/ opens)
     ELSE Ended(c, FALSE) /\ UNCHANGED <<failures, open, cooling, probe>>
  /\ UNCHANGED pacer

\* state?.probeInFlight
KeepsProbe == ~probe

\* BackendHealth.cancelled
Cancelled(c) ==
  /\ UnderWay(c)
  /\ IF Owns(c) /\ ~KeepsProbe
     THEN probe' = FALSE /\ Ended(c, TRUE)
     ELSE Ended(c, FALSE) /\ UNCHANGED probe
  /\ UNCHANGED <<queue, paced, timer, failures, open, cooling>>

Next ==
  \/ TimerFires \/ IntervalEnds \/ CooldownEnds
  \/ \E c \in Calls :
        \/ Schedule(c) \/ Direct(c) \/ Leave(c) \/ WaitExpires(c)
        \/ Succeeded(c) \/ Cancelled(c)
        \/ \E transient \in BOOLEAN : Failed(c, transient)

Spec == Init /\ [][Next]_vars

\* Timers fire and intervals and cool-downs end.  Every call ends by its deadline.
Ends(c) == Succeeded(c) \/ Cancelled(c) \/ Failed(c, TRUE) \/ Failed(c, FALSE)
Fairness ==
  /\ WF_vars(TimerFires) /\ WF_vars(IntervalEnds) /\ WF_vars(CooldownEnds)
  /\ \A c \in Calls : WF_vars(Ends(c))

LiveSpec == Spec /\ Fairness
--------------------------------------------------------------------------------
TypeOK ==
  /\ queue \in Seq(Calls) /\ Len(queue) <= MaxQueue
  /\ {paced, timer, open, cooling, probe} \subseteq BOOLEAN
  /\ failures \in 0..(Threshold - 1)
  /\ call \in [Calls -> Records]

\* Whoever waits in the queue is covered by a timer, whichever way the others
\* left it, and a call is in the queue exactly once or not at all (#drain).
QueueServed ==
  /\ timer <=> queue # <<>>
  /\ \A i, j \in 1..Len(queue) : queue[i] = queue[j] => i = j
  /\ {c \in Calls : call[c].step = "queued"} = {queue[i] : i \in 1..Len(queue)}

\* A probe that is in flight belongs to exactly one call that is still running
\* and whose answer will count: it is never lost, so the circuit can always be
\* tried again (BackendHealth.acquire, cancelled).
CurrentCalls == {c \in Calls : UnderWay(c) /\ call[c].current}
ProbeOwned ==
  /\ probe => open /\ \E c \in Calls : CurrentCalls = {c}
  /\ open /\ ~probe => CurrentCalls = {}

\* Calls that were under way when the circuit opened, or that a probe has
\* overtaken, change nothing when they end.
OverdueHarmless ==
  \A c \in Calls :
    UnderWay(c) /\ ~call[c].current /\ call'[c].step = "idle"
      => UNCHANGED <<failures, open, cooling, probe>>
OverdueIgnored == [][OverdueHarmless]_vars

\* The pacer dispatches nothing while the interval of the last dispatch runs,
\* and one call at a time.
Dispatched == {c \in Calls : call[c].step # "running" /\ call'[c].step = "running"}
Apart == \A c \in Dispatched : ~paced /\ paced' /\ Dispatched = {c}
DispatchSpaced == [][Apart]_vars

\* A queued call is dispatched or rejected, in the end, even if its own wait
\* never expires.
Waits(c) == call[c].step = "queued"
WaitEnds == \A c \in Calls : Waits(c) ~> ~Waits(c)
================================================================================
