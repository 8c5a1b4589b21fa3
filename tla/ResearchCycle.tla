--------------------------- MODULE ResearchCycle ---------------------------
(* The autonomous runner and the durable Scout batch of one research cycle:  *)
(* alta_asterism/autonomous.py, mvp_orchestrator.py, scout_batch.py,         *)
(* scout_repository.py, cycle_recovery.py and the shutdown path of           *)
(* service.py.  Every action is one transaction of the database, one model   *)
(* turn, or one decision of the runner; the process may die between any two. *)
(* Time is a choice: a deadline or a cycle age that startup compares with    *)
(* the clock may have passed or not.                                         *)
EXTENDS Naturals, FiniteSets

CONSTANTS
  Scouts,        \* the configured roles (four in the code)
  MaxAttempts,   \* MAX_SCOUT_ATTEMPTS
  MaxCycles,     \* bound: cycles ever bound
  MaxBoots,      \* bound: starts of the process
  Faults         \* faults of the environment that may happen: a subset of FaultKinds

FaultKinds == {"record", "spoil", "config", "crash", "stop", "late", "circuit", "write"}

CycleAssumption ==
  /\ MaxAttempts \in Nat \ {0} /\ MaxCycles \in Nat \ {0} /\ MaxBoots \in Nat \ {0}
  /\ IsFiniteSet(Scouts) /\ Scouts # {}
  /\ Faults \subseteq FaultKinds

VARIABLES
  \* durable: the events, snapshots, jobs, runs, failure artifacts and minds
  event, boundTo, snapshot, spoiled, job, run, artifact, minds,
  \* the settings the next process starts with, and how many have started
  settings, boots,
  \* volatile: the runner, its cycle, its queue of unfinished cycles
  phase, cycle, todo, error, wake,
  \* volatile: the Scout workers, the outcomes of the batch
  worker, outcome,
  \* volatile: the stop flag, the cycle shown to the signal handler, its thread
  stop, shown, cancelling,
  \* history: reads of the sources, model turns begun
  fetched, calls

durable == <<event, boundTo, snapshot, spoiled, job, run, artifact, minds>>
process == <<phase, cycle, todo, error, wake>>
batch == <<worker, outcome>>
shutdown == <<stop, shown, cancelling>>
history == <<fetched, calls>>
vars == <<durable, settings, boots, process, batch, shutdown, history>>

Cycles == 1..MaxCycles
NoCycle == 0
Workers == {"idle", "existing", "queued", "call", "answered", "failed", "exhausted",
            "retry", "raised", "done"}
\* Recorded failures without a scheduled retry, each with its reason.
Dropped == {"snapshot", "expired", "config", "unfrozen", "superseded", "circuit"}
Jobs == {"none", "running", "succeeded", "failed", "cancelled"}

Init ==
  /\ event = [c \in Cycles |-> "none"] /\ boundTo = [c \in Cycles |-> 0]
  /\ snapshot = [c \in Cycles |-> 0] /\ spoiled = [c \in Cycles |-> FALSE]
  /\ job = [c \in Cycles |-> "none"]
  /\ run = [c \in Cycles |-> [s \in Scouts |-> [status |-> "none", attempts |-> 0]]]
  /\ artifact = [c \in Cycles |-> [s \in Scouts |-> {}]]
  /\ minds = [s \in Scouts |-> 0]
  /\ settings = 1 /\ boots = 0
  /\ phase = "down" /\ cycle = NoCycle /\ todo = {} /\ error = "none" /\ wake = 0
  /\ worker = [s \in Scouts |-> "idle"] /\ outcome = [s \in Scouts |-> "none"]
  /\ stop = FALSE /\ shown = NoCycle /\ cancelling = FALSE
  /\ fetched = 0 /\ calls = [c \in Cycles |-> [s \in Scouts |-> 0]]

-----------------------------------------------------------------------------
\* What the transactions do.

Status(c, s) == run[c][s].status

\* A failed run keeps its artifact, numbered by the attempt that failed.
FailedRun(c, s) ==
  /\ run' = [run EXCEPT ![c][s].status = "failed"]
  /\ artifact' = [artifact EXCEPT ![c][s] = @ \cup {run[c][s].attempts}]

\* A failed or cancelled run may be opened again while attempts are left.
Opens(c, s) ==
  \/ Status(c, s) = "none"
  \/ Status(c, s) \in {"failed", "cancelled"} /\ run[c][s].attempts < MaxAttempts
Opened(r) == [status |-> "running", attempts |-> r.attempts + 1]

Bound == {c \in Cycles : event[c] = "bound"}
Fresh == Cardinality({c \in Cycles : event[c] # "none"}) + 1

\* The job of a cycle ends as told, unless it has ended already.
FinishJob(c, target) ==
  job' = IF job[c] = "running" THEN [job EXCEPT ![c] = target] ELSE job
FinishConflicts(c, target) ==
  job[c] # "running" /\ job[c] # target /\ ~(target = "failed" /\ job[c] \in {"cancelled", "succeeded"})

NoBatch == worker' = [s \in Scouts |-> "idle"] /\ outcome' = [s \in Scouts |-> "none"]

\* The process ends: what it held in memory is gone.
Ends ==
  /\ phase' = "down" /\ cycle' = NoCycle /\ todo' = {} /\ error' = "none" /\ wake' = 0
  /\ NoBatch
  /\ stop' = FALSE /\ shown' = NoCycle /\ cancelling' = FALSE

Fails(kind) == phase' = "error" /\ error' = kind

-----------------------------------------------------------------------------
\* Startup.

Boot ==
  /\ phase = "down" /\ boots < MaxBoots
  /\ boots' = boots + 1
  /\ settings' \in IF "config" \in Faults /\ boots > 0 THEN {1, 2} ELSE {settings}
  /\ phase' = "boot"
  /\ UNCHANGED <<durable, cycle, todo, error, wake, batch, shutdown, history>>

\* A run left running whose deadline has passed is failed by startup.
ExpireRun(c, s) ==
  /\ phase = "boot" /\ Status(c, s) = "running" /\ "late" \in Faults
  /\ FailedRun(c, s)
  /\ UNCHANGED <<event, boundTo, snapshot, spoiled, job, minds, settings, boots,
                 process, batch, shutdown, history>>

\* Then every job without a running run is failed, and the cycles that were
\* bound and neither completed nor given up are looked at in their order.
ExpireJobs ==
  /\ phase = "boot"
  /\ job' = [c \in Cycles |-> IF job[c] = "running" /\ \A s \in Scouts : Status(c, s) # "running"
                              THEN "failed" ELSE job[c]]
  /\ todo' = Bound /\ cycle' = NoCycle /\ phase' = "recover"
  /\ UNCHANGED <<event, boundTo, snapshot, spoiled, run, artifact, minds, settings, boots,
                 error, wake, batch, shutdown, history>>

First == CHOOSE c \in todo : \A d \in todo : c <= d

\* Why an unfinished cycle is not resumed; "none" when it is.
Refusal(c, expired) ==
  IF expired THEN "expired"
  ELSE IF boundTo[c] # settings THEN "config"
  ELSE IF spoiled[c] THEN "snapshot"
  ELSE IF snapshot[c] = 0 THEN "unfrozen"
  ELSE IF cycle # NoCycle THEN "superseded" ELSE "none"

TerminalRuns(c) ==
  run' = [run EXCEPT ![c] = [s \in Scouts |->
            IF Status(c, s) = "running" THEN [run[c][s] EXCEPT !.status = "cancelled"] ELSE run[c][s]]]

\* Cancels the running runs of a cycle and fails its running job.
Terminalize(c) == TerminalRuns(c) /\ FinishJob(c, "failed")

LookAtCycle ==
  /\ phase = "recover" /\ todo # {}
  /\ \E expired \in IF "late" \in Faults THEN BOOLEAN ELSE {FALSE} :
       IF Refusal(First, expired) = "none"
       THEN /\ cycle' = First /\ todo' = todo \ {First}
            /\ UNCHANGED <<job, run, phase, error>>
       ELSE /\ Terminalize(First)
            /\ phase' = "drop" /\ error' = Refusal(First, expired)
            /\ UNCHANGED <<cycle, todo>>
  /\ UNCHANGED <<event, boundTo, snapshot, spoiled, artifact, minds, settings, boots, wake,
                 batch, shutdown, history>>

DropCycle ==
  /\ phase = "drop"
  /\ event' = [event EXCEPT ![First] = error]
  /\ todo' = todo \ {First} /\ phase' = "recover" /\ error' = "none"
  /\ UNCHANGED <<boundTo, snapshot, spoiled, job, run, artifact, minds, settings, boots,
                 cycle, wake, batch, shutdown, history>>

Recovered ==
  /\ phase = "recover" /\ todo = {}
  /\ phase' = "next"
  /\ UNCHANGED <<durable, settings, boots, cycle, todo, error, wake, batch, shutdown, history>>

-----------------------------------------------------------------------------
\* One turn of the loop: AutonomousRunner.run and the orchestrator's stages.

\* The loop ends on the stop flag; a signal may still arrive later.
NextCycle ==
  /\ phase = "next" /\ ~stop
  /\ cycle # NoCycle \/ Fresh \in Cycles
  /\ cycle' = IF cycle = NoCycle THEN Fresh ELSE cycle
  /\ shown' = cycle'
  /\ phase' = "bind"
  /\ UNCHANGED <<durable, settings, boots, todo, error, wake, batch, stop, cancelling, history>>

LoopEnds ==
  /\ phase = "next" /\ stop
  /\ Ends
  /\ UNCHANGED <<durable, settings, boots, history>>

\* Mutant: the cycle is bound again.
BindAlways ==
  /\ phase = "bind"
  /\ event' = [event EXCEPT ![cycle] = "bound"]
  /\ boundTo' = [boundTo EXCEPT ![cycle] = settings]
  /\ phase' = "wake"
  /\ UNCHANGED <<snapshot, spoiled, job, run, artifact, minds, settings, boots, cycle, todo,
                 error, wake, batch, shutdown, history>>

BindCycle ==
  /\ phase = "bind"
  /\ event' = [event EXCEPT ![cycle] = IF @ = "none" THEN "bound" ELSE @]
  /\ boundTo' = [boundTo EXCEPT ![cycle] = IF event[cycle] = "none" THEN settings ELSE @]
  /\ phase' = "wake"
  /\ UNCHANGED <<snapshot, spoiled, job, run, artifact, minds, settings, boots, cycle, todo,
                 error, wake, batch, shutdown, history>>

\* A completed cycle answers from its event.
ReplayCompleted ==
  /\ phase = "wake" /\ event[cycle] = "completed"
  /\ phase' = "completed"
  /\ UNCHANGED <<durable, settings, boots, cycle, todo, error, wake, batch, shutdown, history>>

\* The frozen input comes from the snapshot when there is one.
RecoverWake ==
  /\ phase = "wake" /\ event[cycle] # "completed" /\ snapshot[cycle] # 0
  /\ IF spoiled[cycle] THEN Fails("snapshot") /\ UNCHANGED wake
     ELSE phase' = "monitor" /\ wake' = snapshot[cycle] /\ UNCHANGED error
  /\ UNCHANGED <<durable, settings, boots, cycle, todo, batch, shutdown, history>>

\* Bound: one reading more than there are cycles, for one that is lost.
MaxReads == MaxCycles + 1
\* Otherwise the sources are read, which may fail; two readings are never the same.
FetchWake ==
  /\ phase = "wake" /\ event[cycle] # "completed" /\ snapshot[cycle] = 0
  /\ \/ fetched < MaxReads /\ fetched' = fetched + 1 /\ wake' = fetched'
        /\ phase' = "monitor" /\ UNCHANGED error
     \/ Fails("plain") /\ UNCHANGED <<wake, fetched>>
  /\ UNCHANGED <<durable, settings, boots, cycle, todo, batch, shutdown, calls>>

\* Before a Scout is asked the open positions are looked at, recovered input or
\* not; which may fail, or find the capital circuit open.
MonitorFails ==
  /\ phase = "monitor"
  /\ \E kind \in {"plain"} \cup ({"circuit"} \cap Faults) : Fails(kind)
  /\ UNCHANGED <<durable, settings, boots, cycle, todo, wake, batch, shutdown, history>>

MonitorExisting ==
  /\ phase = "monitor"
  /\ phase' = "open"
  /\ UNCHANGED <<durable, settings, boots, cycle, todo, error, wake, batch, shutdown, history>>

\* start_batch: the job and the snapshot, reopening a job that did not succeed.
OpenBatch ==
  /\ phase = "open"
  /\ IF snapshot[cycle] \in {0, wake}
     THEN /\ job' = [job EXCEPT ![cycle] = IF @ = "succeeded" THEN @ ELSE "running"]
          /\ snapshot' = [snapshot EXCEPT ![cycle] = wake]
          /\ phase' = "reserve" /\ UNCHANGED error
     ELSE Fails("snapshot") /\ UNCHANGED <<job, snapshot>>
  /\ UNCHANGED <<event, boundTo, spoiled, run, artifact, minds, settings, boots, cycle, todo,
                 wake, batch, shutdown, history>>

\* Mutant: every role is queued, reserved or not.
ReserveAll ==
  /\ phase = "reserve"
  /\ run' = [run EXCEPT ![cycle] = [s \in Scouts |->
               IF Opens(cycle, s) THEN Opened(run[cycle][s]) ELSE run[cycle][s]]]
  /\ worker' = [s \in Scouts |-> "queued"]
  /\ outcome' = [s \in Scouts |-> "none"]
  /\ phase' = "scouts"
  /\ UNCHANGED <<event, boundTo, snapshot, spoiled, job, artifact, minds, settings, boots,
                 cycle, todo, error, wake, shutdown, history>>

\* start_runs: all roles in one transaction.
ReserveRuns ==
  /\ phase = "reserve"
  /\ run' = [run EXCEPT ![cycle] = [s \in Scouts |->
               IF Opens(cycle, s) THEN Opened(run[cycle][s]) ELSE run[cycle][s]]]
  /\ worker' = [s \in Scouts |-> IF Opens(cycle, s) THEN "queued" ELSE "existing"]
  /\ outcome' = [s \in Scouts |-> "none"]
  /\ phase' = "scouts"
  /\ UNCHANGED <<event, boundTo, snapshot, spoiled, job, artifact, minds, settings, boots,
                 cycle, todo, error, wake, shutdown, history>>

\* A failing transaction of the batch before its workers run.
BatchFails ==
  /\ "write" \in Faults /\ phase = "reserve"
  /\ FinishJob(cycle, "failed") /\ Fails("plain")
  /\ UNCHANGED <<event, boundTo, snapshot, spoiled, run, artifact, minds, settings, boots,
                 cycle, todo, wake, batch, shutdown, history>>

-----------------------------------------------------------------------------
\* The Scout workers: MindWorker._run_one, one per reserved run.

Turn(s, from, to) ==
  /\ phase = "scouts" /\ worker[s] = from
  /\ worker' = [worker EXCEPT ![s] = to]

Done(s, result) == outcome' = [outcome EXCEPT ![s] = result]
\* What the workers never touch.
KeptByWorkers == <<event, boundTo, snapshot, spoiled, job, settings, boots, process, shutdown>>

\* Mutant: the run another process left running is left as it is.
LeaveOutcome(s) ==
  /\ Turn(s, "existing", "done")
  /\ Done(s, IF Status(cycle, s) = "succeeded" THEN "succeeded" ELSE "failed")
  /\ UNCHANGED <<run, artifact, KeptByWorkers, minds, history>>

\* existing_outcome: a run another process left running is failed.
ExistingOutcome(s) ==
  /\ Turn(s, "existing", "done")
  /\ Done(s, IF Status(cycle, s) = "succeeded" THEN "succeeded" ELSE "failed")
  /\ IF Status(cycle, s) = "running" THEN FailedRun(cycle, s) ELSE UNCHANGED <<run, artifact>>
  /\ UNCHANGED <<KeptByWorkers, minds, history>>

\* The executor starts when every existing outcome has been read.
CallModel(s) ==
  /\ \A t \in Scouts : worker[t] # "existing"
  /\ Turn(s, "queued", "call")
  /\ calls' = [calls EXCEPT ![cycle][s] = @ + 1]
  /\ UNCHANGED <<KeptByWorkers, run, artifact, minds, outcome, fetched>>

\* A turn yields a valid output, a failure that may be retried (deadline, App
\* Server, invalid output, no active research) or one that may not (budget).
ModelAnswers(s) ==
  /\ \E to \in {"answered", "failed", "exhausted"} : Turn(s, "call", to)
  /\ UNCHANGED <<KeptByWorkers, run, artifact, minds, outcome, history>>

\* complete: run, artifact, candidate and mind in one transaction, if the run
\* is still running; otherwise the output is lost and the turn has failed.
Complete(s) ==
  /\ phase = "scouts" /\ worker[s] = "answered"
  /\ IF Status(cycle, s) = "running"
     THEN /\ run' = [run EXCEPT ![cycle][s].status = "succeeded"]
          /\ minds' = [minds EXCEPT ![s] = @ + 1]
          /\ Turn(s, "answered", "done") /\ Done(s, "succeeded")
     ELSE Turn(s, "answered", "failed") /\ UNCHANGED <<run, minds, outcome>>
  /\ UNCHANGED <<KeptByWorkers, artifact, history>>

\* fail: a running run is failed, a cancelled one stays as it is.
RecordRunFailure(s) ==
  /\ \/ Turn(s, "failed", "retry") /\ UNCHANGED outcome
     \/ Turn(s, "exhausted", "done") /\ Done(s, "failed")
  /\ IF Status(cycle, s) = "running" THEN FailedRun(cycle, s) ELSE UNCHANGED <<run, artifact>>
  /\ UNCHANGED <<KeptByWorkers, minds, history>>

\* The transaction of fail or of the retry is refused: the worker raises.
WorkerRaises(s) ==
  /\ "write" \in Faults
  /\ \E from \in {"failed", "exhausted", "retry"} : Turn(s, from, "raised")
  /\ UNCHANGED <<KeptByWorkers, run, artifact, minds, outcome, history>>

\* start_run: another attempt at once, while attempts are left.
RetryRun(s) ==
  /\ phase = "scouts" /\ worker[s] = "retry"
  /\ IF Opens(cycle, s)
     THEN /\ run' = [run EXCEPT ![cycle][s] = Opened(@)]
          /\ Turn(s, "retry", "queued") /\ UNCHANGED outcome
     ELSE Turn(s, "retry", "done") /\ Done(s, "failed") /\ UNCHANGED run
  /\ UNCHANGED <<KeptByWorkers, artifact, minds, history>>

-----------------------------------------------------------------------------
\* The end of the batch and of the cycle.

AllFailed == \A s \in Scouts : outcome[s] = "failed"
SomeRaised == \E s \in Scouts : worker[s] = "raised"

\* run_batch joins its workers and ends the job; run_scouts raises when no
\* Scout has an outcome to use.
JoinScouts ==
  /\ phase = "scouts" /\ \A s \in Scouts : worker[s] \in {"done", "raised"}
  /\ LET target == IF SomeRaised \/ AllFailed THEN "failed" ELSE "succeeded" IN
       /\ FinishJob(cycle, target)
       /\ IF FinishConflicts(cycle, target) THEN Fails("snapshot")
          ELSE IF target = "failed" THEN Fails("plain")
          ELSE phase' = "later" /\ UNCHANGED error
  /\ NoBatch
  /\ UNCHANGED <<event, boundTo, snapshot, spoiled, run, artifact, minds, settings, boots,
                 cycle, todo, wake, shutdown, history>>

\* Foundry, assessment, ranking, expression and shadow book may fail, the last
\* because the capital circuit is open.
LaterStages ==
  /\ phase = "later"
  /\ \/ phase' = "persist" /\ UNCHANGED error
     \/ Fails("plain")
     \/ "circuit" \in Faults /\ Fails("circuit")
  /\ UNCHANGED <<durable, settings, boots, cycle, todo, wake, batch, shutdown, history>>

\* The completion event; reading it back may fail.
PersistCompletion ==
  /\ phase = "persist"
  /\ event' = [event EXCEPT ![cycle] = "completed"]
  /\ \/ phase' = "completed" /\ UNCHANGED error
     \/ "write" \in Faults /\ Fails("plain")
  /\ UNCHANGED <<boundTo, snapshot, spoiled, job, run, artifact, minds, settings, boots,
                 cycle, todo, wake, batch, shutdown, history>>

CycleCompleted ==
  /\ phase = "completed"
  /\ IF stop THEN Ends
     ELSE phase' = "waiting" /\ cycle' = NoCycle /\ wake' = 0
          /\ UNCHANGED <<todo, error, batch, shutdown>>
  /\ UNCHANGED <<durable, settings, boots, history>>

\* The wait between cycles and the backoff after a failure.
WaitEnds ==
  /\ phase \in {"waiting", "backoff"}
  /\ phase' = "next"
  /\ UNCHANGED <<durable, settings, boots, cycle, todo, error, wake, batch, shutdown, history>>

\* A failure after the stop flag is not recorded, unless the circuit is open.
CancelledCycle ==
  /\ phase = "error" /\ stop /\ error # "circuit"
  /\ Ends
  /\ UNCHANGED <<durable, settings, boots, history>>

\* The failure event: terminal for a snapshot error and an open circuit.  It
\* may itself be refused, which is only noted.
RecordFailure ==
  /\ phase = "error" /\ (stop => error = "circuit")
  /\ \E recorded \in IF "record" \in Faults THEN BOOLEAN ELSE {TRUE} :
       event' = IF recorded /\ error \in {"snapshot", "circuit"} /\ event[cycle] = "bound"
                THEN [event EXCEPT ![cycle] = error] ELSE event
  /\ phase' = "recorded"
  /\ UNCHANGED <<boundTo, snapshot, spoiled, job, run, artifact, minds, settings, boots,
                 cycle, todo, error, wake, batch, shutdown, history>>

\* An open circuit ends the process.
CircuitOpen ==
  /\ phase = "recorded" /\ error = "circuit"
  /\ Ends
  /\ UNCHANGED <<durable, settings, boots, history>>

\* A quarantined cycle is replaced, any other is tried again after the backoff.
BackOff ==
  /\ phase = "recorded" /\ error # "circuit"
  /\ IF error = "snapshot" THEN Terminalize(cycle) /\ cycle' = NoCycle
     ELSE UNCHANGED <<job, run, cycle>>
  /\ phase' = "backoff" /\ error' = "none" /\ wake' = 0
  /\ UNCHANGED <<event, boundTo, snapshot, spoiled, artifact, minds, settings, boots, todo,
                 batch, shutdown, history>>

-----------------------------------------------------------------------------
\* Shutdown, crashes and damage.

\* SIGTERM: the flag is set before the thread that cancels the cycle starts.
StopSignal ==
  /\ "stop" \in Faults /\ phase # "down" /\ ~stop /\ boots < MaxBoots
  /\ stop' = TRUE /\ cancelling' = TRUE
  /\ UNCHANGED <<durable, settings, boots, process, batch, shown, history>>

\* cancel_cycle: the running runs of the shown cycle, and their running jobs.
CancelCycle ==
  /\ cancelling /\ cancelling' = FALSE
  /\ IF shown # NoCycle /\ \E s \in Scouts : Status(shown, s) = "running"
     THEN TerminalRuns(shown) /\ FinishJob(shown, "cancelled")
     ELSE UNCHANGED <<run, job>>
  /\ UNCHANGED <<event, boundTo, snapshot, spoiled, artifact, minds, settings, boots, process,
                 batch, stop, shown, history>>

\* Bound: the program would bind one more cycle, or start once more.
BoundReached ==
  /\ \/ phase = "next" /\ ~stop /\ cycle = NoCycle /\ Fresh \notin Cycles
     \/ phase = "down" /\ boots = MaxBoots
  /\ UNCHANGED vars

\* The process dies, or ends because its runner outlives the shutdown grace.
Crash ==
  /\ phase # "down" /\ boots < MaxBoots
  /\ "crash" \in Faults \/ (stop /\ ~cancelling)
  /\ Ends
  /\ UNCHANGED <<durable, settings, boots, history>>

\* The stored snapshot stops agreeing with its hash.
Spoil(c) ==
  /\ "spoil" \in Faults /\ snapshot[c] # 0 /\ ~spoiled[c]
  /\ spoiled' = [spoiled EXCEPT ![c] = TRUE]
  /\ UNCHANGED <<event, boundTo, snapshot, job, run, artifact, minds, settings, boots, process,
                 batch, shutdown, history>>

-----------------------------------------------------------------------------
Startup == ExpireJobs \/ LookAtCycle \/ DropCycle \/ Recovered
Loop ==
  \/ NextCycle \/ LoopEnds \/ BindCycle \/ ReplayCompleted \/ RecoverWake \/ FetchWake
  \/ MonitorFails \/ MonitorExisting \/ OpenBatch \/ ReserveRuns \/ BatchFails
  \/ JoinScouts \/ LaterStages \/ PersistCompletion \/ CycleCompleted \/ WaitEnds
  \/ CancelledCycle \/ RecordFailure \/ CircuitOpen \/ BackOff
Work(s) ==
  \/ ExistingOutcome(s) \/ CallModel(s) \/ ModelAnswers(s) \/ Complete(s)
  \/ RecordRunFailure(s) \/ WorkerRaises(s) \/ RetryRun(s)
Environment ==
  \/ StopSignal \/ CancelCycle \/ Crash \/ BoundReached
  \/ \E c \in Cycles : Spoil(c)
  \/ \E c \in Cycles, s \in Scouts : ExpireRun(c, s)

Next == Boot \/ Startup \/ Loop \/ (\E s \in Scouts : Work(s)) \/ Environment

Spec == Init /\ [][Next]_vars

\* The process is started or takes its next step: one of them at any time.
Runner == Boot \/ Startup \/ Loop
\* The supervisor starts the process again; the runner, its workers and the
\* thread that cancels take their next step; a model turn ends by its deadline.
\* The positions can be looked at sooner or later, if they are asked about often
\* enough: while they cannot, no Scout of any cycle is asked.
Fairness ==
  /\ WF_vars(Runner) /\ WF_vars(CancelCycle)
  /\ SF_vars(MonitorExisting)
  /\ \A s \in Scouts : WF_vars(Work(s))
LiveSpec == Spec /\ Fairness
--------------------------------------------------------------------------------
TypeOK ==
  /\ event \in [Cycles -> {"none", "bound", "completed"} \cup Dropped]
  /\ boundTo \in [Cycles -> 0..2] /\ settings \in 1..2 /\ boots \in 0..MaxBoots
  /\ snapshot \in [Cycles -> Nat] /\ spoiled \in [Cycles -> BOOLEAN]
  /\ job \in [Cycles -> Jobs]
  /\ run \in [Cycles -> [Scouts -> [status : {"none", "running", "succeeded", "failed", "cancelled"},
                                    attempts : 0..MaxAttempts]]]
  /\ artifact \in [Cycles -> [Scouts -> SUBSET (1..MaxAttempts)]]
  /\ minds \in [Scouts -> 0..MaxCycles]
  /\ phase \in {"down", "boot", "recover", "drop", "next", "bind", "wake", "monitor", "open", "reserve",
                "scouts", "later", "persist", "completed", "waiting", "error", "recorded", "backoff"}
  /\ cycle \in Cycles \cup {NoCycle} /\ todo \subseteq Cycles
  /\ error \in {"none", "plain"} \cup Dropped /\ wake \in Nat
  /\ worker \in [Scouts -> Workers] /\ outcome \in [Scouts -> {"none", "succeeded", "failed"}]
  /\ stop \in BOOLEAN /\ shown \in Cycles \cup {NoCycle} /\ cancelling \in BOOLEAN
  /\ fetched \in Nat /\ calls \in [Cycles -> [Scouts -> 0..MaxAttempts]]

\* A role that has succeeded in a cycle is not asked again in that cycle, by
\* any process, and no role is asked more often than it has attempts
\* (recovery never calls "a succeeded model role again").
SucceededOnce ==
  \A s \in Scouts :
    /\ worker[s] \in {"queued", "call", "answered"} => Status(cycle, s) # "succeeded"
    /\ \A c \in Cycles : calls[c][s] <= run[c][s].attempts

\* The turns a Trader Mind has counted are its succeeded runs: neither a crash
\* nor a cancellation between the answer and the commit counts one twice or
\* loses one.
MindsCounted ==
  \A s \in Scouts : minds[s] = Cardinality({c \in Cycles : Status(c, s) = "succeeded"})

\* Every failed attempt has left its own artifact, and an attempt that was
\* cancelled or succeeded none.
FailuresKept ==
  \A c \in Cycles, s \in Scouts :
    /\ Status(c, s) = "failed" => run[c][s].attempts \in artifact[c][s]
    /\ Status(c, s) \in {"running", "succeeded", "cancelled"} => run[c][s].attempts \notin artifact[c][s]

\* Roles work on the input frozen for their cycle, whichever process froze it,
\* and only while the cycle is neither completed nor given up.
FrozenInput ==
  phase = "scouts" => wake = snapshot[cycle] /\ event[cycle] = "bound"

\* A cycle is given up as inconsistent only when its stored snapshot is: no
\* order of stop, cancellation, crash and recovery makes a sound one look so.
QuarantineJust ==
  \A c \in Cycles : event[c] = "snapshot" => spoiled[c]

\* While work of a cycle can still be resumed no other cycle is begun, across
\* restarts too, so that startup never has to choose between two.
OneResumable ==
  /\ Cardinality({c \in Bound : ~spoiled[c] /\ snapshot[c] # 0}) <= 1
  /\ \A c \in Cycles : event[c] # "superseded"

\* A batch counted as succeeded has a role that succeeded; one that is given
\* up or closed for good leaves no role running.
JobTruthful ==
  \A c \in Cycles :
    /\ job[c] = "succeeded" => \E s \in Scouts : run[c][s].attempts > 0 /\ Status(c, s) = "succeeded"
    /\ event[c] = "completed" => \E s \in Scouts : Status(c, s) = "succeeded"

CycleTruthful ==
  /\ SucceededOnce /\ MindsCounted /\ JobTruthful /\ FrozenInput /\ FailuresKept
  /\ QuarantineJust /\ OneResumable

\* What startup or an operator has settled stays settled: a completed or
\* dropped cycle keeps its verdict and its succeeded runs.
Settled ==
  \A c \in Cycles :
    /\ event[c] \notin {"none", "bound"} => event'[c] = event[c]
    /\ \A s \in Scouts : Status(c, s) = "succeeded" => run'[c][s] = run[c][s]
VerdictKept == [][Settled]_vars

\* A run that is running is settled sooner or later, whatever died with it.  In
\* a quarantined cycle it may have to wait for a start after its deadline: the
\* cycle's last event is recorded before its runs are cancelled.  And so it has
\* to in a cycle that is resumed and finds the circuit open: nobody cancels its
\* runs then.  (Bound: after the last start that may happen nobody comes at all.)
Unsettled(c, s) ==
  /\ Status(c, s) = "running" /\ event[c] \notin {"snapshot", "circuit"}
  /\ phase = "down" => boots < MaxBoots
RunsSettle == \A c \in Cycles, s \in Scouts : Unsettled(c, s) ~> ~Unsettled(c, s)

\* "That late failure must not overwrite the operator intent": a run cancelled
\* by a planned shutdown is not running again before the next start.
CancelledStays ==
  [][\A c \in Cycles, s \in Scouts :
       Status(c, s) = "cancelled" /\ stop => run'[c][s] = run[c][s]]_vars

\* The process is ready for the supervisor's probe: running, waiting, degraded.
Ready == phase \notin {"down", "boot", "recover", "drop"}
\* "Three total attempts keep recovery bounded": a cycle without an attempt
\* left for any role ends, or the process stops looking ready.
Spent(c) == \A s \in Scouts : Status(c, s) = "failed" /\ run[c][s].attempts = MaxAttempts
SpentCycleEnds ==
  \A c \in Cycles : Spent(c) ~> (event[c] # "bound" \/ ~Ready)
=============================================================================
