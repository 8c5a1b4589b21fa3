# ALTA in TLA+

TLA+ models of ALTA's protocols, the TLC configurations that check them and
TLAPS proofs about all of them.
Paths in this file are relative to the repository; `broker` stands for `alta-runtime/broker-python/src/alta_brokers`,
`asterism` for `alta-runtime/python/src/alta_asterism` and `capital` for
`alta-runtime/capital-python/src`.

ALTA is a research system that may trade. A Node host (`alta-src`) serves an
operator console and starts a Python service (`asterism`) that runs research
cycles and writes a PostgreSQL database. Plans it approves can be handed to
one broker account through short-lived child processes (`broker`), or, on an
older lane, to a Tiger Paper account (`capital`). The same host
contains a gateway to the model providers and an internet service. Most of the
source is data: research prompts, ranking arithmetic, wire formats, user
interface. What can go wrong in a way no unit test reaches is a smaller part of
it: durable state written in several steps by processes that are killed and
read by others that started before, limits and queues shared by requests that
are cancelled, cycles that are run again after any of their transactions, and
accounts at a broker that answers late or not at all. That part is modelled.

## 1. Inventory

Components with the state they keep, what acts on it, and how they interact.

| component | state | operations | hard because | module |
|---|---|---|---|---|
| Broker account engine (`broker/engine.py`, `storage.py`, `adapters/`) | `intents` table, `authority.json`; the orders at the broker | authorize, revoke, submit, reconcile, cancel, lookup | every operation is several durable writes and requests; the child is killed after 45 s; answers are lost, late, stale | `BrokerAccount`, `BrokerLedger` |
| Plan lifecycle (`broker/lifecycle.py`) | `broker_plans` table | stage, tick (expire, buy, watch, freeze the exit, sell, close) | partial fills, cancellations, deadlines, revocation at any step | `BrokerAccount`, `RoundTrip` |
| Broker adapters (`broker/adapters/`, `transport.py`) | none of their own; the order's identity in the ledger | submit, lookup, cancel, snapshot for six brokers | identities come late or never, orders leave the lists, statuses are wider than the engine's; the operator's own orders look alike | `BrokerAdapters`, `AccountReview` |
| Account review (`broker/verification.py`, gates in `engine.py`, `storage.py`) | `verification.json`, `authority.json`, the profile's revision | probe, authorize, revoke, rotate | evidence ages while the operator trades; two files for one authorization; two adapters cannot prove what is asked | `AccountReview` |
| Execution route and profiles (`broker/routing.py`, `storage.py`, `__main__.py`, `research_rpc.py`) | profile files, `route.json`, authority of every account | save and rotate credentials, select, deselect, authorize, revoke | two files are written one after the other; a research process pinned an older route | `ExecutionRoute` |
| Broker bridge (`asterism/broker_bridge.py`, `broker_process.py`, `broker_handoff.py`) | pinned lane, stop event, monitor lock, recorded hand-offs | hand over, monitor every 15 s from two threads, record, close | two threads, the fence and the stop event between reading and dispatching; child deadlines, stale pins | `BrokerBridge`; its effects in `BrokerAccount` (kill, loop) and `ExecutionRoute` (pin) |
| Autonomous owner (`asterism/autonomous_owner.py`, `database.py`) | advisory lock, `ops.autonomous_owner` row, fence and gate of `Database` | acquire, release, maintenance, fenced transactions, external operations | two runners, broken sessions, threads inside the gate | `OwnerFence` |
| Runner, recovery and Scout batches (`asterism/autonomous.py`, `mvp_orchestrator.py`, `scout_batch.py`, `scout_repository.py`, `cycle_recovery.py`, `forward_evaluation.py`) | cycle events, jobs, runs, frozen snapshots, artifacts, minds; the runner's volatile cycle | boot, recover, run, retry, back off, quarantine, cancel, stop | the process dies between transactions; late answers; a stop beside running turns | `ResearchCycle` |
| Sources and wakes (`asterism/live_source_flow.py`, `finlight.py`, `massive.py`, `ingest.py`, `official_sources.py`) | raw records, cursors, evidence, wake events, the anchor; retry gates, cooldowns, request budget | poll, materialize, record, freeze, retry, recover | a cursor that moves too far loses records for ever; two pollers share a lock that goes with a session | `SourceWake` |
| Agenda (`asterism/research_agenda.py`, `opportunity_continuity.py`, `live_source_flow.py`, `scouts.py`) | questions of opportunities, follow-ups made | choose, put off, assign, shed | deadlines against cadence against room | `ResearchAgenda` |
| Opportunities (`asterism/foundry.py`, `b4_runtime.py`, `opportunity_registry.py`, `agentic_roles.py`, `agentic_deliberation.py`, `ranking_store.py`, `mvp_research_flow.py`) | candidates, opportunities, registry events, role runs, assessments, rankings | group, refresh, suppress, merge, assess, share, discuss, rank | the cycle is run again after any transaction, with other candidates perhaps | `OpportunityDesk` |
| Shadow book (`asterism/agentic_expression.py`, `agentic_position.py`, `portfolio_construction.py`, `portfolio_state.py`, `capital_allocation.py`, `b5_runtime.py`, `shadow.py`) | expressions, plans, positions, results | express, admit, rotate, open, revalidate, watch, close, measure | the book moves between plan and entry; an attempt breaks off between closing one position and opening another | `ShadowBook` |
| Tiger Paper lane (`alta-src/capital-control.mjs`, `asterism/paper_execution.py`, `paper_intent.py`, `capital`) | authorization file with a generation, mutation lease, owner lease, intents, drains | enable, disable, snapshot, prepare, dispatch, place, settle, recover, drain | three processes and two lease files, stale-lease takeover | `PaperCapital`, `MutationLease` |
| Operator console (`alta-src/operator-console.mjs`, `broker-connections.mjs`) | in-memory flags, the operation file, the files above | start, stop, models, credentials, route, authorization | handlers interleave at every `await` | `OperatorConsole` |
| Host lease (`alta-src/storage.mjs`) | lease files | acquire, take over, release | check and removal are separate file-system calls; creators die between them; pids come back after a reboot | `HostLease` |
| Service supervisor and host service (`asterism/service_supervisor.py`, `alta-src/opportunity-service.mjs`, `process-runner.mjs`) | child, restarts, watchdog clocks, state file | start, watch, replace, back off, stop | stop races a crash; two graces nest; a killed host leaves its supervisor, which starts the next child, and a killed supervisor its child; a child lives before the file names it | `ServiceSupervisor` |
| Capacity and retry control (`alta-src/resource-control.mjs`, `provider-request.mjs`, `gateway.mjs`) | limiters, queues, byte budget, adaptive limits | acquire, release, retry, overload, close | cancellation while queued, limits that move, several limiters in turn | `Gateway` |
| Internet service (`alta-src/internet/`) | in-flight table, cache, source queues, circuit breakers | coalesce, pace, probe, abort, expire | callers that leave, queues at their limit, late answers | `Inflight`, `SourceAccess` |
| Market-data key (`asterism/massive_lease.py`, `massive.py`) | a directory, a lease and a cooldown file per slot; access decision, cooldown and budgets of each process | acquire, heartbeat, release, admit, pause | the lease is made and given up in several file-system calls that may fail; a pause must reach the next owner | `CredentialSlot` |
| Model gateway's translation, dashboard, vendored Codex | none that is authoritative | conversion, rendering | | no |

Interaction. The console runs operator requests on `broker` as child
processes; the research process runs its own through `BrokerProcess`. Both
take `route.lock` and then the account's connection lock, kernel locks that
end with the process: that is the composition inside `BrokerAccount` and
`ExecutionRoute`. The research process's calls are made inside
`autonomous_external_operation`, so a release of ownership waits for them
(`OwnerFence`). The Paper lane's authorization is written by the host and read by the
child of the research process (`PaperCapital`). The console, the host service
and the platform start the same runtime under the host lease
(`OperatorConsole`, `HostLease`). A cycle passes through `SourceWake`,
`ResearchAgenda`, `ResearchCycle`, `OpportunityDesk` and `ShadowBook` in this
order. What one hands to the next is durable and immutable under the cycle's
id; a later stage that fails makes the runner run all of them again, and each
of the modules runs its stage again for that reason.

### Properties that make each part correct

* An account: no order is sent twice; the ledger never claims more than the
  broker knows; nothing is sold that was not bought; one plan at a time has
  anything at the broker; "closed" and "unfilled" are true; what is durable is
  never taken back; every order was covered by the operator's authority when
  it went out; a plan ends.
* Routes: only the selected account is armed, and only by an authorization
  given in this selection; an account that holds something stays selected.
* Adapters: what the ledger says of an intent is true of that intent's own order;
  no order of the operator's is taken for it or cancelled; an account is offered
  and armed on current evidence its adapter can give.
* Bridge: a plan reaches the broker only under an audit of its own; nothing is sent
  once the runtime stops; records do not run ahead of the broker.
* Market-data key: one process uses it at a time, and whoever has it next keeps to
  the pauses it was told.
* Ownership: what a transaction wrote was written under the current owner;
  an orderly hand-over happens between transactions; a release ends.
* Leases: one holder except by a takeover; what a crash left does not block
  for ever.
* Paper lane: never two live orders; settled intents and both books agree with
  the broker; a drain that is called complete is; nothing is placed in another
  generation than the one that permitted it; intents are settled.
* Console: the host that runs, and its child, have the stored models; no flag
  sticks; operations end.
* Supervisor: no child without one that looks after it but a killed
  supervisor's last; one at a time, and none after `stop`, as long as nobody
  kills a host or a supervisor; ended only with cause; the service recovers.
* Requests: never over a limit, every place and byte given back once, nobody
  forgotten in a queue, an abort reaches only the caller that asked for it,
  late answers change nothing, every wait ends.
* Wakes: no record is skipped; an input holds what was known at one cutoff.
* Cycles: a success counts once; a sound cycle is never condemned; verdicts
  stay; what runs is settled.
* Opportunities: what was merged stays merged, once; what is ranked was
  assessed and discussed on that snapshot; no work is done twice.
* The book: no place, underlying or cycle is used twice; an entry respects the
  limits of its moment; an overdue position is closed.

## 2. Modules

Each module is one component; each action is the code between two points at
which something else can happen: two durable writes, two awaits, two
file-system calls, two transactions. `PROJECT.json` maps every definition to
its lines.

### BrokerLedger
The `intents` table as a value. `Prepare`, `Record`, `MarkUnknown` are the
three ways `Ledger` changes a row (`MarkUnknown` keeps the earlier result, as
the `COALESCE` does), `UnsettledRows`, `Book` and `FlatAndSettled` what the
engine asks of it. Prices, times and texts are left out; a fill is a number of
shares.

### RoundTrip
The abstract promise of an account: each plan is at most one purchase and then
at most one sale of at most the shares bought, and no purchase starts while
another plan holds or awaits shares. No ledger, no process, no operator.

### BrokerAccount
One account with its broker. The variables are the three durable stores
(`ledger`, `authority`, `plans`), the orders as the broker has them (`venue`),
two clocks (`lapsed`: an intent's `expires_at` has passed; `due`: a plan's
`exit_at` has passed), and `op`, the operation in progress with its local
variables. Because the locks admit one child at a time, `op` is one record;
because they are kernel locks, `Abandon` (kill or raised error) resets it and
nothing else.

| code | actions |
|---|---|
| `engine.authorize` | `Authorize` |
| `engine.revoke` | `RevokeAuthority`, `RevokeStaged` |
| `engine.reconcile` | `ReconcileAccount`, `ReconcileRow`, `ReconcileRowFails`, `ReadPositions`, `ReadOrders` |
| `engine.submit` and `adapter.submit` | `Submit`, `Post`, `Acknowledge`, `Detail`, `SubmissionUnconfirmed` |
| `engine._reconcile`, `engine.cancel` | `LookupSettled`, `Lookup`, `CancelLookup`, `CancelCall`, `ReconciliationUnconfirmed` |
| `lifecycle.stage`, `lifecycle.tick` | `Stage`, `TickExpire`, `TickSubmit`, `TickReconcile`, `TickExit`, `EntryCancel`, `EntryWorking`, `EntryUnfilled`, `Monitor`, `FreezeExit` |
| `lifecycle._exit` | `ExitGiveUp`, `ExitSubmit`, `ExitReconcile`, `ExitFilled`, `ClosePlan`, `ExitIncomplete`, `ExitCancel`, `ExitWorking` |
| the broker and the network | `VenueAccept`, `VenueLose`, `VenueFill`, `VenueCancel` |

A snapshot is two actions, because the adapters ask for positions and orders
in two requests; `Submit` is one, because no row is unsettled then and nothing
can move between them. A lookup may return the order's present state, or an
earlier one, or a status the adapter cannot name (`View`). An intent may time
out on the way, arrive later, or never (`VenueLose`).

Abstracted: cash, prices and quotes (the refusals they cause are steps that do
not happen; the stop and target prices make `FreezeExit` always possible),
account binding and revision (`ExecutionRoute` has them), manual plans, trades
made outside ALTA.

### ExecutionRoute
Profiles, route, authority files of all accounts, and one word per account for
what its ledger holds. A child killed between two files is `pending` followed
by `Kill`: `RotateCredentials`/`FinishRotation` (authority, then profile) and
`Revoke`/`FinishRevoke` (authority, then plans). `Start` pins a route as
`selected_broker` does, `SameSelection` is the comparison `handle_research`
makes under `route.lock`. The proof of an empty account that a rotation asks
for is a fresh snapshot; the model lets it succeed whenever the ledger is
settled. The random route generation is a counter: two selections never share
one; `granted` is a history of which accounts the operator authorized since the last
one. `Reconcile` keeps finding B below: it may turn a revoked account off
while an entry is unsettled, and the properties are proved all the same.

### BrokerAdapters
The six adapters as one protocol. `row` is what the ledger has of an intent, `call`
the call in progress and the request it is at (`post`, `sent`, `detail`, `lookup`,
`cancel`), `order` the orders as the broker has them,
the operator's own (`Manuals`) among them. Each adapter's `order()` is a table from
the broker's statuses to the four states of the engine (`Reading`, from `AlpacaOrder`
to `SchwabOrder`), and each has its operators for what it may learn when it submits
(`AlpacaSubmit`, ...) and what a lookup may return (`AlpacaLookup`, ...): by client id,
by the order's own id, among the orders of the session, or, without an id,
nothing at all. `Answers` is what `validate_fill` lets through. What the brokers' statuses mean is
external and named so in the map. A request, its answer or the child may be lost at
each step (`Lose`, `Unconfirmed`, `Die`).

### AccountReview
The evidence on which an account is armed: the six `snapshot()` functions as what
each can say of positions, working orders, identity and permission; the record of
the last probe with its revision and its age (fresh or not); the review the console
shows (`Eligible`) and the gates of `authorize` (`Gate`) and of a rotation. The
operator trades by hand and time passes between any two operations. `authorize`
saves its evidence and then the authority, two steps between which the child may die.

### CredentialSlot
The host lease of a Massive key as the file-system calls it is made of (`mkdir`, the
temporary file and its rename; list, unlink, `rmdir`), the coordinator's decision and
admission, the request budget of each adapter and the two places a cooldown is kept,
the process and the slot. `cooling` is a history: the upstream asked for a pause and a
process that heard it was alive to remember it.

### BrokerBridge
The cycle's thread, which hands a validated plan over and monitors between cycles,
and the bridge's own, which monitors every 15 s. `at` is where each is between two
reads, gates or calls; `Enter` is the fence and the gate of the external operation,
`MayDispatch` the stop event as `call` looks at it inside the gate. The child's answer
is any that it may give; one that was killed has done its work or not. `Stop`,
`ThreadEnds` and `Joined` are the runtime's shutdown with its time limit.

### OwnerFence
`acquire_autonomous_owner`, `release` and `acquire_maintenance_owner`, the
gate in `Database` (`_autonomous_fence`, `_fence_closing`,
`_fenced_transactions`) and `Database.connect`. `session` is what the client
will find when it uses its connection, `advisory` what the server believes:
`Break` and `Reap` change one and then the other. A transaction goes through
entering the gate, the session check, the row check, its statements, the
second session check and the commit; an external operation looks at the fence
once more before it goes on. `Kill` ends a process with everything in memory.

### HostLease
`acquireLease` and `release`, one step per file-system call. `file` is what is
at the path, `call` how far each process is; a pid is one process per boot, and
after `Reboot` the same pid can be another process. `Read` and `Judge` are the
liveness test of a lease that parses, `Stat` the age test of one that does not,
`Unlink` the removal by name that follows either. Writes and directory syncs
can fail. `Age` lets `staleMs` pass over a half-written lease only when its
creator is not still writing it: a process suspended for half an hour between
two lines is left out. `stolen` is a history variable: a takeover removed the
lease of a process that was writing or holding it.

### MutationLease
The account-global lease of Paper mutations, which the host and the research
process publish with a hard link, judge by process identity and take over
after a second reading. Again one step per file-system call; the two
implementations differ in their retries (`Hosts`, `Runtimes`). `stolen` is the
same history variable as in `HostLease`.

### PaperCapital
The Tiger Paper lane between three processes. `auth` is the authorization file
with its generation, `row` the intents, `local` the position in the research
database, `drain` the durable exit drains; `host`, `research` and `child` are
volatile and each may die at any step; `order`, `held` and `shown` are the
broker's, which may fill a part of an order and end it, and whose position report
(`shown`) may lag behind its holdings. An intent is prepared, dispatched, answered, judged and committed locally in
transactions of their own, with the child's owner lease, its reading of the
authorization and the placing of the order in between. A child whose parent
died lives on. The host's revocation is a snapshot child followed by a write. A
stale mutation lease is taken over in one step here; the race inside it is
`MutationLease`.

### OperatorConsole
The HTTP handlers of one process, cut at every `await`: `request` is how far
each is, `flags` the in-memory exclusion, `operation` the file a lifecycle
command leaves. The host runs under the host lock and can be started by others
as well; broker children are process groups of their own and outlive a console
that is killed. Each start of the host has a supervisor (`supervisors`) and that
one a child at a time (`children`), both with what their host had read
(`loaded`); a host that is killed leaves them (`orphaned`), and such a supervisor
starts its next child with the old environment. What the console sees of them is
the host's state and the child that the supervisors' one file names (`named`). Of
what the handlers change only that is kept on which a runtime, or the other
execution lane, can disagree.

### ServiceSupervisor
The starts of the host, the Python supervisor of each start and the `opportunityd`
processes these start one after the other, each with an App Server in its
session. `Tick` is about ten seconds; the graces are small numbers of ticks in the
order they have in the code. `file` is the one state file that all supervisors
write and `stop` reads; a child is started (`Spawn`, the Popen) before the file
names it (`Named`). Children can be unready, unresponsive, deaf to SIGTERM, slow
to end, can die, and leave servers behind. A host can be killed: its supervisor
lives on, is told nothing, and goes on starting children beside the next host's. A
supervisor can be killed, from outside or by its host's grace: its child lives
on. A stop may give up after its minute, and the operator may start the service
again. `disturbed` remembers that a host or a supervisor was killed from outside
or that a stop gave up.

### Gateway
A request reads its body against the byte budget (`used`) and takes one place
in each limiter of its path, media, provider, whole gateway; `req` is how far
it is, `queue` who waits at each limiter, `limit` what the provider's answers
have made of it. An attempt that fails gives the places back before it backs
off. `Close` drains, and aborts what is left when its grace is over.

### Inflight
The shared fetches of the internet service: join, cancel, settle, store, close.
An aborted fetch may take its time to notice.

### SourceAccess
The pacer's queue and timer with the circuit breaker behind it, and an unpaced
call that goes to the breaker directly. A lease is current while its
generation is the breaker's.

### SourceWake
The two connectors, raw records behind a durable cursor, evidence, the wake's
events and postures, and the anchor frozen at a cutoff. A rival process polls
the same news source; the advisory lock goes with a session that may break.
Records are numbers in the order of publication.

### ResearchAgenda
Which questions of the active opportunities are open, due and not decided,
which of them the wake takes up, who follows them up, and what of the input is
given up until it fits. Cycles follow each other; between them opportunities
move on. `Within` and `Wait` are the four cadence classes of the code, scaled.

### ResearchCycle
The runner, its recovery at startup, the jobs, runs and frozen snapshots, the
Scout workers and the shutdown path, one transaction, one model turn or one
decision per action. Deadlines and ages that the code compares with the clock
may have passed or not. `Faults` says which failures an instance has: a lost
failure record, a damaged snapshot, changed settings, a crash, a stop, late
turns, an open circuit, refused writes. Between the frozen input and the Scouts
every attempt looks at the open positions (`MonitorExisting`), and may fail at
it or find the circuit open (`MonitorFails`), in a resumed cycle with runs of a
dead process still running. A failure is retried; an open circuit ends the
process and the cycle and cancels no run, which then waits for a start after
its deadline (`Unsettled` says so).

### OpportunityDesk
Two cycles of the desk. An identity and a piece of content are
names, a snapshot is the sequence of candidate sets it was made from; models
and gates choose. An attempt may fail between two transactions, and then the
cycle runs again, perhaps with candidates of Scouts that had failed before.

### ShadowBook
A cycle watches what is open, ranks, expresses, passes the gates, rotates an
incumbent out if the book is full, and opens at the prices of that moment.
Prices and sizes are small numbers; comparisons of alpha and the governance
tightening are choices. A plan is sized, and looked at again before the entry,
at its ask; its limit is that ask rounded up to the cent (`RoundedUp`), and the
entry fills anywhere from the ask of the moment to the limit (`Fills`). So an
entry may cost more than was planned for it, by less than a cent a share, and
the limits of the book hold up to that (`Rounding`). `Cent` counts the ticks of
a cent. `Fail` breaks the attempt off anywhere; the same cycle
then starts again from its monitoring.

### The MC modules
`MCBrokerAccount` and `MCOwnerFence` give one component
its constants. `MCExecutionRoute`, `MCTraffic`, `MCPaper`, `MCHost` and `MCResearch` check several
components in one run: each has the variables of its components, makes
one or more instances of each with its own bounds, and chooses one instance,
`system`, in the initial state. Only that instance moves; the others stay as
they began. These modules compose nothing: the instances share no state, a
behaviour is a behaviour of one of them, and each conjunct of a property is
about one. What they save is a run, and what they add is a second instance of
the same module with other bounds (for instance with fewer faults, for its
liveness) under the same property names.

They leave the bounds open, so that the proofs can be about them. A module that
has one instance keeps its CONSTANTS, which the cfg sets: `MCPaper` EXTENDS
`PaperCapital`, `MCTraffic` EXTENDS `Gateway`, `MCExecutionRoute` EXTENDS `ExecutionRoute`
and instantiates the other four of the broker side. One that has several is
instantiated for a record `K` of parameters, `Cycle(K)`, `Book(K)`, `Wake(K)`, and
the records (`TwoScouts`, `OnePlace`, `OneWake` and so on) are constants: the cfg
gives them the values of section 3, and the lemmas are of every `K`.

## 3. Runs

| run | instance | checks |
|---|---|---|
| `broker_account` | 2 plans on one instrument, 2 shares each | `OneDispatch`, `LedgerTruthful`, `NeverShort`, `OneOwner`, `OverMeansOver`; `HistoryKept`, `DispatchAuthorized`; refinement of `RoundTrip` (`RoundTrips`) |
| `broker_account_live` | 1 plan, 1 share | `PlanResolves` |
| `broker_revoke_crash` | 1 plan | `RevokedStaysDead` violated: finding A |
| `broker_torn_snapshot` | 1 plan | `ExitsUntilFlat` violated: finding B |
| `execution_route` | `ExecutionRoute`, `BrokerAdapters`, `AccountReview`, `BrokerBridge`, `CredentialSlot` | `RouteTruthful`, `AdaptersTruthful`, `ResearchSideTruthful`; `OrdersInSelection` |
| `owner_fence` | 2 processes, 1 thread each, 3 epochs | `HandedOverIdle`, `ExternalInsideGate`, `FinishedCurrent`; `ReleaseCompletes` |
| `traffic` | `Gateway` twice, `Inflight`, `SourceAccess`, `SourceWake` twice | `Accounted`, `NobodyForgotten`, `WakeTruthful`; `NothingOverdue`; `WaitsEnd` |
| `paper` | `PaperCapital`, `MutationLease`, `HostLease` | `HolderKeepsLease`, `OneMutation`, `BooksTruthful`; `PlacedAsAuthorized`; `OrphanCleared`, `IntentsSettle` |
| `host` | `OperatorConsole`, `ServiceSupervisor` twice | `ConsoleConsistent`, `OneJustlyWatched`, `StopComplete`; `ServiceRecovers` |
| `research` | `ResearchCycle` four times, `OpportunityDesk` twice, `ShadowBook` twice, `ResearchAgenda` | `CycleTruthful`, `BookTruthful`, `DeskTruthful`, `AgendaTruthful`; `VerdictKept`, `EntryWithinLimits`, `NoWorkTwice`; `BegunEnds` |
| `book_rejected_rotation` | the `research` instances | `RotatedForValidated` violated: finding C |
| `desk_refreshed_unshared` | the `research` instances | `LockedIsShared` violated: finding D |

The type invariant of each module is not among the properties of a run. It is a
theorem for `BrokerAccount`, `OwnerFence`, `ExecutionRoute`, `HostLease`,
`MutationLease`, `PaperCapital`, `ServiceSupervisor`, `Gateway`, `SourceAccess` and
`Inflight`; the proofs about `OperatorConsole`, `ResearchCycle`, `ShadowBook` and
`SourceWake` prove of it what they need, as a part of their invariant.

### What the composed properties are made of

| property | conjuncts, each stated in its module |
|---|---|
| `RouteTruthful` | ExecutionRoute `OneArmedLane`, `HeldStaysSelected`, `RouteStaysValid` |
| `AdaptersTruthful` | BrokerAdapters `OwnIdentity`, `SettledTrue`, `OwnCancelled`; AccountReview `EligibleIsCurrent`, `ArmedOnProof` |
| `ResearchSideTruthful` | BrokerBridge `StagedUnderAudit`, `OnePass`, `QuietAfterStop`, `RecordsFollow`; CredentialSlot `OneOwner`, `PauseKept` |
| `Accounted` | Gateway `PlacesAccounted`, `BytesAccounted`, `BackoffHoldsNothing`; SourceAccess `ProbeOwned`; Inflight `ClosedKeepsNothing` |
| `NobodyForgotten` | Gateway `NoIdlePlace`; SourceAccess `QueueServed` |
| `WakeTruthful` | SourceWake `NothingSkipped`, `AnchorTruthful`, `FairShare` |
| `NothingOverdue` | Gateway `GrantedBelowLimit`; SourceAccess `OverdueIgnored`, `DispatchSpaced`; Inflight `SharedToTheLast` |
| `WaitsEnd` | Gateway `AttemptsEnd`, `DrainCompletes`; SourceAccess `WaitEnds` |
| `BooksTruthful` | PaperCapital `IntentsTruthful`, `BooksAgree`, `DrainTruthful` |
| `OneMutation` | PaperCapital `OneExposure`; MutationLease `HolderKeepsLease` |
| `ConsoleConsistent` | OperatorConsole `RuntimeAsConfigured`, `NoStuckFlag` |
| `OneJustlyWatched` | ServiceSupervisor `NoneForgotten`, `OneChild`, `WatchdogJust` |
| `ServiceRecovers` | OperatorConsole `OperationEnds`; ServiceSupervisor `UnreadyReplaced`, `Restarted` |
| `CycleTruthful` | ResearchCycle `SucceededOnce`, `MindsCounted`, `JobTruthful`, `FrozenInput`, `FailuresKept`, `QuarantineJust`, `OneResumable` |
| `DeskTruthful` | OpportunityDesk `RegistryTruthful`, `ReviewsTruthful` |
| `AgendaTruthful` | ResearchAgenda `AssignedSound`, `FrozenSound` |
| `NoWorkTwice` | OpportunityDesk `RetryResolvesSame`; ResearchAgenda `AskedApart` |
| `BegunEnds` | ResearchCycle `RunsSettle`; ShadowBook `OverdueClosed` |

A composed property has a mutant for several of its conjuncts, so that each part of the
run is known to be able to fail.

`WaitsEnd` and `BegunEnds` say what several instances promise with one
leads-to each: only one instance moves, so the formula on its left can be
the disjunction of what waits in each.

### Bounds, and why they are enough

`BrokerAccount`. Two plans are what `OneOwner` and `RoundTrip` need, and two
shares are the least that fill in part; a plan has at most two orders in the
code, so nothing else is cut, and the state space is finite without a bound.

`OwnerFence`. A claim and its revocation use two epochs, so three let a second
owner publish after a first, release included; `MaxEpoch` only stops further
acquisitions.

`ExecutionRoute`. Three selections are select, leave, select again, and two
accounts and two keys let a credential change leave an account behind
(`MaxGeneration` stops further selections).

`BrokerAdapters`. Each of the six brokers in turn; two intents, one order placed by
hand that looks like them, two shares, so that a fill can be partial and an order be
taken for another's. The state space is finite without a bound. `AccountReview`: two
revisions of a profile, each of the six brokers. `BrokerBridge`: two plans, of which one
is active while the other is asked for; both threads; restarts are not bounded.
`CredentialSlot`: two processes that hand the key to one another, two adapters each,
two requests per cycle; `MaxCycle` stops further resets of the budget.

`HostLease`. Three processes are a holder and two takers, and one reboot lets
every pid come back; calls are not bounded.

`MutationLease`. Two hosts and one research process, four tokens: a holder, a
taker of each implementation, and one lease more than processes.

`PaperCapital`. Three intents are an entry, an exit and an entry after it; four
generations are two authorizations with their revocations. A position is two
shares, so that the broker can fill a part of every order. The code means such an
order for review, but records it as not filled when the position report does not yet
show the part (`paper_trade.py:515-518`): `Misjudged` in the module. The run goes
through it, and on to later orders at shares nobody knows of; what the properties
say from then on is less, and each says what: no two live orders and no false fill
still, but positions that agree only while `WellJudged` (see Observations).

`OperatorConsole`. Two protected requests at a time, and the lifecycle
operations beside them; consoles, hosts, supervisors and children may die at any
time. Two starts of the host are one that is killed and the next one beside what it
left. `system = "console"` has requests of every kind over one start, whose
supervisor does not outlive it; `"rehosted"` has both starts, with the requests
that change what a runtime has read or stop it (`Bounded`); the two together are
too many states. The proof has neither bound.

`ServiceSupervisor`. Two children are a child and its replacement, or two that live
together; two starts are one that leaves something and the next, or a stop and a
start after it. `system = "service"` has children of every manner over one start,
`"restarted"` two starts with children that answer their port; the proof has
neither bound. `Lasting`, for liveness, has one start and no kills, because
nothing restarts a supervisor but the host's next start.

`Gateway`. Three requests, two of them at one provider, one with media, queues
of one, one retry: a limiter can be full, have a waiter and refuse a third.
`Load`, for liveness, has two requests. `Inflight`: two callers, two keys, one
shared fetch at a time (a second one runs by itself). `SourceAccess`: three
calls, a queue of two, two failures open the circuit.

`SourceWake`. `OneWake`: two records, two faults, pages of two of which one row
is the cursor's; so a page can be full and the next needed. `TwoWakes`: two
cycles while the clock goes on, one record, one fault: what the first wake
left is there for the second.

`ResearchCycle`. `TwoScouts`: two Scouts with two attempts, one cycle, two starts,
every fault but changed settings. For liveness, without refused writes: `Lasting`, the
same, and `Alone`, one Scout and three starts, so that a start can die in its recovery,
or find the circuit open and lose the record of it, and the next finish. `TwoCycles`:
two cycles, one Scout, settings that change, without refused writes, expiry and an open
circuit. The sources are read once more than there are cycles (`MaxReads`), so that a
reading can be lost before it is frozen. `OpportunityDesk`. `Merging`: one candidate
and then two, so that the second cycle refreshes, suppresses and merges at
once; `Asking`: one candidate in each of two cycles, roles asked twice, one
fault. `ShadowBook`. `TwoPlaces`: two places, prices that move in half cents, so that a limit
is rounded, two faults; `OnePlace`:
one place, so that every second candidate needs a rotation. `ResearchAgenda`:
three opportunities for a queue of two, four Scouts of whom half explore, an
input that fits and one that does not.

Symmetry is used on identities that nothing orders (plans, brokers, accounts),
and never in a run with liveness.

Deadlock is checked in every run but `paper`: in `HostLease` every process may
have ended and the host not reboot again (`MaxBoot`), and the four tokens of
`MutationLease` may be used up. Every other bound leaves the system something
to do.

### Fairness

| module | assumed | why |
|---|---|---|
| `BrokerAccount` | `WF` on `Abandon`, on what the broker settles and on time; `SF` on the lifecycle's steps and on current answers | `BrokerProcess.request` kills a child after 45 s; the monitor repeats its tick every 15 s and is not interrupted at the same step, or told an old state, for ever |
| `OwnerFence` | `WF` on `Rollback` and on a release that has begun | statements and broker calls have time limits; nothing about acquiring, committing or failing |
| `HostLease` | `WF` on a process's calls, on asking again, on `Age` | a call is carried through unless its process dies; operators and supervisors ask again; nothing about how long a lease is held |
| `PaperCapital` | `WF` on `Start`, `Answered`, `Judged`, `Entered`, `Capitald`, `Decided`; `SF` on `RecoverDispatched`, `RecoverFilled` | a process that is started goes on with what it began, every broker call has a time limit; recovery runs at the start of every cycle. Also `<>[](host # "revoke")`: the operator does not revoke for ever, since a revocation that is always in progress keeps the mutation lease from recovery |
| `OperatorConsole` | `WF` on `OperationDone`, `Poll` | the lifecycle child has a time limit; an open dashboard polls |
| `ServiceSupervisor` | `WF` on `Host`, each `Supervisor(s)`, `Tick`, `ChildUp(c)` | running processes run and time passes; nothing about a child's health |
| `Gateway` | `WF` on `GoOn(r)` | JavaScript runs what is ready; delays and fetches have time limits |
| `SourceAccess` | `WF` on `TimerFires`, `IntervalEnds`, `CooldownEnds`, `Ends(c)` | timers fire; every call carries a time limit |
| `ResearchCycle` | `WF` on `Runner`, `CancelCycle`, `Work(s)`; `SF` on `MonitorExisting` | the supervisor starts the process again; threads go on; model turns have time limits. The two instances have no refused writes: a database that refuses for ever settles nothing. `SF` is about the environment, not the scheduler: the look at the open positions is tried again after every backoff, and does not fail each time. While it does (a market client that is down), no Scout is asked, and runs a dead process left stay running until a start after their deadline |
| `ShadowBook` | `WF` on `Proceed` | the thread goes on. Faults, and refused quotes and fills of an exit that is due, are bounded by `MaxFaults`: a market that never quotes again lets nothing be closed |

Safety in `SourceWake`, `ResearchAgenda`, `OpportunityDesk`, `Inflight`,
`MutationLease` and the broker side (`ExecutionRoute` and the four modules beside it)
needs no fairness.

## 4. Proofs

| module | theorems | holds for |
|---|---|---|
| `BrokerAccountProofs` | `TypeOK`, `OneDispatch`, `LedgerTruthful`, `NeverShort`, `OneOwner`, `OverMeansOver`, `HistoryKept`, `DispatchAuthorized`, and `RoundTrips`, the refinement of `RoundTrip` | every finite set of plans, any instruments, every quantity |
| `OwnerFenceProofs` | `TypeOK`, `HandedOverIdle`, `FinishedCurrent`, `ExternalInsideGate` | any processes, any finite set of threads, any bound on epochs |
| `ExecutionRouteProofs` | ExecutionRoute `TypeOK`, `RouteTruthful`, `OrdersInSelection` | any brokers, accounts, keys, any bound on selections |
| | `AdaptersTruthful` | any of the six brokers, any intents and orders placed by hand, any quantity; any number of revisions |
| | `ResearchSideTruthful` | any plans; any processes, adapters, budget and cycles |
| `PaperProofs` | PaperCapital `TypeOK`, `OneExposure`, `BooksTruthful`, `PlacedAsAuthorized` | any number of intents and generations, any lot; a broker that fills any part of an order; what is said of its position, while no partial fill was recorded as none |
| | HostLease and MutationLease: `TypeOK`, `HolderKeepsLease`, and `OneHolder` as long as nothing was stolen | any processes, any number of reboots or tokens |
| | `HolderKeepsLease`, `OneMutation` of the run | all of these |
| `HostProofs` | ServiceSupervisor `TypeOK`; `ConsoleConsistent`, `OneJustlyWatched`, `StopComplete`, of the run and of each module's own `Spec` | any number of requests and of starts of the host; any number of children and starts, any graces, every fault but a stuck App Server |
| `TrafficProofs` | Gateway, SourceAccess and Inflight `TypeOK`; `Accounted`, `NobodyForgotten`, `NothingOverdue` | any finite set of requests, any providers, limits, queues, retries and budget; any callers, keys, queue and threshold |
| | `WakeTruthful` | any pages of two rows or more, any number of records, cycles, faults, rows and requests |
| `ResearchProofs` | `CycleTruthful`, `VerdictKept`, `BookTruthful`, `EntryWithinLimits` | any finite set of Scouts, any attempts, cycles, starts and faults; any finite set of opportunities, any places, prices, cent, sizes and limits |
| `OpportunityProofs` | `DeskTruthful`, `NoWorkTwice` | any number of cycles and of candidates each, any set of drafts, any bounds on evidence, attempts and faults |
| | `AgendaTruthful`, `NoWorkTwice` | any finite set of opportunities, any questions, deadlines, cadences, Scouts and limits, inputs of any size |

The only assumptions are the named ones on constants. One is worth a word:
`WakeAssumption` has `PageSize >= 2`: a page is asked for from the
cursor's own record on, so that with one row a page would never bring a new
record.

The property of a composed run follows from the invariants of its
components: each instance has its invariant while it is the one that moves, and
its conjuncts of the property follow from that.

**BrokerAccount.** None of the properties is inductive alone: that a row is
settled truthfully depends on what the operation in progress last heard.
`IInv` is `TypeOK`, `DataInv` and `OpInv`. `DataInv` relates the stores to the
broker: an order is sent once, with a durable intent (`VenueInv`); rows without
evidence record no fill (`RowInv`); an exit is frozen from a settled entry, at
the quantity that filled (`ExitInv`); plans that are over left a ledger that
agrees, and at most one plan is active (`PlanInv`). `OpInv` says what each step
of `op` already knows: at `post` the row is durable and unsettled and nothing was sent; at
`await` the order is out; a result in hand is a truthful one; the end of a
closing reconcile means the rows were all looked up. Each action is a step of
the proof, and under it each conjunct it can disturb. From `IInv` every step is
a step of `RoundTrip` or leaves its variables alone (`RefinementStep`).

**OwnerFence.** `IInv` is `TypeOK`, `OwnerInv` (which steps of a process go
with which fence, lease and session; a lease in force that is not in `lost`
holds the advisory lock and is the epoch), `TxInv` (who is inside the gate
carries its process's fence, and the process is owning or draining), `SnapInv`
(a fence that was seen and is gone does not come back) and `CountInv` (the
gate's counter is the number of transactions inside, which is why draining to
zero means none is open).

**ExecutionRoute.** `RouteInv` is the four invariants and `RotationHarmless`:
a profile waiting to be written belongs to an unselected broker and its
account is off and flat, so a kill at that point leaves nothing armed.

**The four beside it** share nothing with the route or with one another; `PartsInv` is the
invariant of the one that runs. `AdapterInv` adds to `AnswersTruthful` that a call is
about an intent that is not settled, and that the order a `cancel` names is the intent's
own. `ReadAs` says what a status is read as, for any table of statuses, and `Statuses`
applies it to the six; `OwnFound` and `AnswerTrue` say, for all six, that a lookup finds
no order but the intent's, and that an answer read from it is true of it. What is
believed to be filled never exceeds what is, because orders only fill (`OrdersMove`).
`ReviewInv` needs `EvidenceTrue`: a record that says "verified" is the last probe's, and
longport's and schwab's never carry the identity or the permission, so neither
is ever armed and neither has rows. `BridgeInv` is the properties with `ThreadKnows`, what
each thread relies on at each of its steps: its plan was proven, the broker has it, the
pass is its own, it was dispatched before the stop, and what it is going to record has been
reached. `SlotInv` is `LeaseOwned`, `AccessHeld`, `OneDedicated` and `PauseHeard`. The last is what
makes `PauseKept` inductive: until the slot's file has the pause, whoever owns the slot
is in a cooldown of its own, and is about to write the file or has a heartbeat too old
to release the slot; and if the owner is gone, its directory is still there and nobody
else gets it.

**Paper lane.** `IInv` is `TypeOK`, `LeaseInv` (who changes the account or its
authorization has the mutation lease), `WorkInv` (what each step of the research
process knows of its intent; that no other is unresolved), `ChildInv` (a child
that can still place an order is the one being waited for, or was left by a
process that died, and then its intent is still unresolved), `RowInv` (one intent at a
time is unresolved; an order that can fill belongs to a dispatched one),
`IntentsTruthful`, `PositionInv` (while no partial fill was misjudged, the two books differ
by exactly the intent that is unresolved) and `DrainInv`. A `mark_dispatching` that failed with
its effect leaves a dispatched row behind while the process goes on: `Unsent` says that such a
row has no child and no order, which is what a drain beside it rests on. Neither `BooksAgree` nor `OneExposure` is inductive: after a crash both rest
on which intent, of which order, was being worked on.

**Leases.** `LocalInv`: `TypeOK`, `HolderKeepsLease` and `GoneIdle` (a pid that
does not run is in no call). `GlobalInv`: `TypeOK`, `HolderKeepsLease` and `OwnLease`
(what a process writes or holds in a call is a lease of its own). A step that removes the file
is its holder's, or removes a lease nobody uses, or sets `stolen`; exclusive
creation does the rest.

**Console and supervisor.** `ConsoleInv`: `LockInv` (a host that runs has the
host lock, and of the handlers at most one has it) is what makes
`RuntimeAsConfigured` inductive, because settings change under that lock, and
`RunInv` says why a later child cannot be an old one: a supervisor that did not
outlive its host is the one of the host that runs.
`ServiceInv`: `ProcessInv` is `NoneForgotten` with what each step of a supervisor
says of its child. `QuietInv` is about the time before anything is killed from
outside: `LastOnly` (only the last supervisor has anything left, and what lives is
its child, which the file names as soon as it is written) gives `OneChild` and
`StopComplete`, and `Obedient` (when that supervisor is over, and what it knows of
the host's abort) makes it inductive. The abort is why: the host kills its
supervisor after a grace, and by then the supervisor has written which child it
has, because a supervisor that is told to stop starts none. `TimerInv` (a timer
has not run longer than the probe that would have cleared it is ago) gives
`WatchdogJust`.

**Gateway, sources, shared fetches.** `GateInv` is `TypeOK`, `HandlerInv` (what a
handler holds is a prefix of its path), `QueueInv` (who is queued waits there,
once, for its next limiter), and the three properties about places, bytes and idle
places. `NoIdlePlace` needs all of them: a release hands the place to the head of the
queue, which must be there still, and a limit that grows must be followed by a
grant. `AccessInv` adds the types to `QueueServed` and `ProbeOwned`, and `FetchesInv`
relates a caller to the fetch it joined.

**Wakes.** `WakeInv` is `WakeType`, `ReaderInv`, `FrozenInv`, `AnchorInv` and `FairInv`.
`ReaderInv` is why no record is skipped: up to the cursor, and up to the place where a
reader began, everything is stored, and a reader's page has no gap after that
place. So a cursor may go back, when a rival that read earlier writes later, and
never past a record that is missing. `FrozenInv` relates what an attempt has chosen to the
events of its cycle, `AnchorInv` leaves an anchor alone once it is written. For
`FairShare` the lemma `FairChoice` shows what choosing in balanced order gives for any
two sources and any limit, by the sizes of what was chosen of each.

**Cycles.** `CycleInv` is `TypeOK` with `RunInv` (artifacts, turns and minds count a role's
attempts), `WorkInv` (what a worker knows of its run), `EventInv` (what has become of the
cycle the runner holds at each of its steps), `JobInv` (a job that succeeded has a role
that did), `SnapInv` (who is blamed for a snapshot has a damaged one) and `ResumeInv` (the
one cycle that can be resumed is still before the recovery, or in its hands, or the
runner's). The last is why a second cycle is not opened beside one that can go on.

**Book.** `BookInv` is `BookType`, `RankInv` (what is ranked is expressed from the head
on), `PositionInv` (expressions and positions agree; one position each underlying and
cycle; no more than there are places), `StepInv` (what each step of the attempt found
true, which nothing else can change) and `RotationInv`. `RotationInv` is the hard
one: the attempt can break off after the incumbent was closed and start again
from its monitoring, and the place that became free must still be there for the expression
it was made free for.

For `EntryWithinLimits` a step that opens adds one entry to what is open, and the
gross the attempt read before it chose the size is the gross of what is still open. Its sums
are folds over a finite set, and a fold takes the members in an order of its own. So a sum is
compared with a number of things: the sum of `N` over `S` is the number of the pairs of a member
and a number below its `N` (`SumCounts`, by a smallest counterexample along the walk of the
fold), and the library's facts about cardinality say what a set with one more member has.
What the entry itself adds is at most its plan and `Rounding`: `RoundsUp` puts the limit at
the ask or less than a cent above it, and `Grows` carries this to the product with the size.

**Agenda.** `AgendaInv` is `RegistryInv` (the types, and that no follow-up is from after the
wake), `AssignedInv`, `InputInv` (what has priority is in the input, and evidence is given up
last) and `Fits`: until the input is anchored, the queue is the one a wake at that moment
would choose of all that is active. `QueueSame` is the reason the frozen input passes its own
check: a queue depends on nothing but the opportunities it has chosen, so leaving out others
leaves it as it is. It rests on `QueueOrders` (the keys of the code order the questions
totally) and on `FirstSame` and `Sorted`, lemmas about the first members of any finite set in
any strict order. Why two Scouts never get the same place is `ModApart`. For the agenda's
half of `NoWorkTwice`, `AssignedInv` keeps of every assigned question that it was `Rested`
when the wake began.

**Desk.** `DeskInv` is `RegInv`, about the tables of the registry, and `ReviewInv`, about
reviews, rankings and role runs. What is said of the rows, the events and the drafts
(`RowsInv`, `DraftsInv`) takes them as arguments, so that it speaks of the tables and of a
transaction under way (`AccInv`) alike. `DeskTruthful` needs three things. An opportunity
that was reviewed by itself, or opened, never gets a parent later (`SettledInv`). A parent
that was refreshed has the identity of a candidate in the group of the anchor that was
merged into it (`MergedInv`), and groups do not meet (`OneAnchor`), so that no other anchor
of the batch can change it. And two drafts of one opportunity have one snapshot, since a
canonical draft is a function of the parent's row. The transaction is a walk over the
anchors: `WalkExists` and `ResolutionIs` give its states, `WalkInv` says that each is in
order, both by a smallest place where it would fail. For the desk's half of
`NoWorkTwice`, `WalkAgain` shows that a walk which finds every anchor merged, or without
parents, changes no row and hands out what was handed out before, and `RedoInv` that the
tables are such while the cycle has the candidates it resolved. When a later attempt finds
more of them, groups grow, but who was no anchor never becomes one (`GroupsGrow`), which
keeps `SettledInv`.

What proving changed in the models. `ResearchCycle`'s refusals and
`OpportunityDesk`'s merge are written as the chain of conditions they are in the
code. `OpportunityDesk`'s transaction walks over the candidates as a recursive function
(`Resolution`), where it was a fold over the sorted anchors, and cuts evidence off while it
collects it, as the code does; its two instances name their parameters in a record. `ResearchAgenda` sorts by places in an order, which can be counted, and no longer
with an operator that takes a comparison; its assumption says that the Scouts are
different ones. `AnchorTruthful` says of each source that an anchor has none of its evidence
or as much as its event counted; an equality held in the run, and TLC, asked for a
larger instance, showed an attempt that is repeated at the same cutoff and whose
window then holds other sources.

Model-checked only:

* All liveness (`PlanResolves`, `ReleaseCompletes`, `OrphanCleared`, `WaitsEnd`,
  `IntentsSettle`, `ServiceRecovers`, `BegunEnds`), because ENABLED and fairness are
  beyond the prover.
* The violations, which are counterexamples.

## 5. Where the code and what it says differ

### Findings that a run shows

**A, revoke and crash** (`broker_revoke_crash`). `engine.py:85` promises that a
staged plan does not come back to life after a later authorization. `revoke`
writes `authority.json` (line 76) and then expires the staged plans (line 91);
a child that dies between the two leaves the plan staged, the account is empty
so it can be authorized again, and the next tick buys.

**B, torn snapshot** (`broker_torn_snapshot`). `engine.py:73` promises owned
exits until a flat snapshot proves closure. `reconcile` looks up the working
entry, then reads positions (none), the entry fills, then reads open orders
(none), and line 355 turns `close_only` into `off`. The account holds shares
and `submit` refuses their exit until the operator intervenes.

**C, rotation for a rejected expression** (`book_rejected_rotation`).
`docs/operations/autonomous-shadow.md:331` says that a position is opened when
every gate approved, and `docs/implementation/roadmap.md:272` that a retry
resumes from where it was. `express` persists a proposal that its validation
rejected (`agentic_expression.py:642`) and returns a Wait under another id; on
a retry `_existing` (line 1275) returns the rejected proposal as the selected
one, `_admit_entry` may rotate an incumbent out for it, and only
`ShadowRepository.open` refuses. The incumbent is gone, nothing takes its
place, and each retry of the cycle fails again.

**D, a refreshed opportunity is not shared** (`desk_refreshed_unshared`).
`docs/architecture/opportunity-os.md:360` says that a refreshed record proceeds
downstream. `share_private_assessments` (`b4_runtime.py:464`) reads the private
assessments of every cycle and demands exactly two; a refreshed opportunity
has four, so its review fails and with it every attempt of the cycle.

### Observations

Disagreements that were found with TLC while modelling. The property is in the
module and can be looked at again by naming it as the INVARIANT or PROPERTY of
a small instance of that module.

| module, property | code | what happens | what is said |
|---|---|---|---|
| OwnerFence `EpochFixedInTransaction` | `database.py:392` | the owner row is locked `FOR KEY SHARE`, for which the publishing update does not wait: after a lost session a successor publishes inside a predecessor's open transaction. `FinishedCurrent`, proved, is what still protects it | `database.py:278` |
| HostLease `OneHolder` | `storage.mjs:80` | a lease is judged and then removed by name: a live lease that another process created in between goes, and a second holder appears. `ExclusiveUnlessStolen`, proved, says that this is the only gap | `docs/operations/operator-console.md:253` |
| MutationLease `OneHolder` | `capital-control.mjs:203`, `paper_execution.py:197` | the same after the second reading; `HolderKeepsLease` says that nothing else costs a holder its file | `operator-console.md:353` |
| Inflight `CancellationUncoupled` | `internet/inflight.mjs:44` | a caller joins a fetch that was aborted and has not settled, and is told that all subscribers cancelled | `test/internet-stability.test.mjs:90` |
| PaperCapital `WellJudged` | `paper_trade.py:516` | a partial fill that the position report does not show is recorded as not filled, and the shares are nobody's: the next entry buys a lot on top of them, or a second exit sells more than is held | `operator-console.md:361`, `paper_trade.py:518` |
| PaperCapital `RevokedForGood` | `capital-control.mjs:606` | an orphaned order child reads the old authorization between the snapshot and the write of the revocation, and places its order after it | `operator-console.md:356` |
| PaperCapital `DrainUnblocked` | `paper_intent.py:303` | a second revocation makes another close-only generation, whose drain the unfinished first one stops for ever | `operator-console.md:358` |
| OperatorConsole `CredentialsLocked` | `operator-console.mjs:1095` | credentials are replaced after an await that follows the check, under no lease: a host started meanwhile has the old ones | `operator-console.md:324` |
| OperatorConsole `OneLane` | `operator-console.mjs:1007` | flags are read before the body is awaited and the own one is set after: a route and the Paper lane are both selected | `docs/broker-expansion.md:56` |
| OperatorConsole `RouteAsConfigured` | `broker-connections.mjs:79` | a broker child outlives a killed console and selects its route after a host pinned the old one | `alta-runtime/broker-python/README.md:26` |
| ResearchCycle `CancelledStays` | `scout_batch.py:277` | a turn that fails after the shutdown cancelled its run is retried, which opens the cancelled run again | `tests/integration/test_b3_mind_worker.py:348` |
| ResearchCycle `SpentCycleEnds` | `autonomous.py:213` | a cycle whose roles have no attempts left is tried again for ever, and counts as ready | `scout_repository.py:41`, `autonomous-shadow.md:424` |
| ServiceSupervisor `FinalState` | `environment.mjs:74` | the host's grace of 10 s ends before the supervisor's of 30 s: no final state is written | `autonomous-shadow.md:410` |
| ServiceSupervisor `NoOrphanServer` | `service_supervisor.py:78` | the group is killed only when the child itself outlives its grace; a server that ignores SIGTERM stays | `autonomous-shadow.md:406` |
| ServiceSupervisor `StopLeavesNone` | `service_supervisor.py:218-233` | a supervisor killed between the Popen and the write of the file leaves an `opportunityd` that no file names, and `stop` returns while it runs; so does one whose file the next start's supervisor has overwritten (`opportunity-service.mjs:552`), and a supervisor in backoff that outlived its host | `autonomous-shadow.md:502` |
| ServiceSupervisor `AlwaysOneChild` | `service_supervisor.py:286-303` | the supervisor of a killed host goes on, and starts its next child beside the one of the host that was started again; so does the child of a killed supervisor | `autonomous-shadow.md:502` |
| OperatorConsole `StraysAsConfigured` | `service_supervisor.py:303`, `operator-console.mjs:722` | a supervisor in backoff outlives its killed host and has no child to be seen: the console takes the stale lock, finds the runtime stopped and saves other models, and the next child starts with the old environment | `operator-console.mjs:722` |
| ShadowBook `EntersExactly` | `execution_planning.py:140`, `portfolio_construction.py:329`, `584` | a plan is sized and looked at again at its ask, and its limit is that ask rounded up to the cent: with an ask of part of a cent the entry fills above what was planned, and can take gross or source over its limit by less than a cent a share. `EntersWithinLimits`, proved, is the bound that holds | `autonomous-shadow.md:535` |
| SourceWake `WakeResumes` | `b5_runtime.py:26-80` | a wake's events are keyed without `known_at` and compared with it: an attempt that fails between those events and its batch makes every retry raise | `opportunity-os.md:493`; `test_live_source_flow.py:636-660` tests it with an unmoved clock |

Others that no property states:

* Broker. Between the second session check (`database.py:409`) and the commit
  ownership can still change; `FinishedCurrent` speaks of the check. After a
  release the `Database` is back in its no-owner mode, in which `connect`
  validates nothing. An intent whose order never reached the broker stays
  `unknown` and blocks its account until a person decides; so does a plan in
  `manual_review`. After a rotation that died between its two writes, selecting
  any lane fails until the half-rotated account is revoked.
* Host lease. A lease whose creator died between creating and writing it reads
  as "already running" until `staleMs` have passed, 24 hours for the service;
  one whose directory sync failed, until its process ends.
* Paper lane. A row left `prepared` or `dispatching` by a failed `mark_dispatching` blocks
  entries and exits until the next start; nothing is recovered while the
  authorization is off.
* Console. When the pid of a dead console is used again, its operation stays
  "running".
* Cycles. Quarantine records its failure before it terminalizes: a process that
  dies in between leaves the failure recorded and the cycle open. A
  resumed cycle that finds the capital circuit open ends without its runs being cancelled
  (`autonomous.py:99-121`): they stay "running" until a start after their deadline. A prompt restart fails an unexpired run
  as "recovery_incomplete". A retry after a later stage failed opens failed
  Scouts again under a job that succeeded.
* Shadow book. `autonomous-shadow.md:594` says that every completed close
  writes a performance event; `record_result` is a second transaction
  (`agentic_position.py:1148`) that a crash loses for good. An incumbent can be
  rotated out and its replacement then still be refused. An incumbent past its
  time exit is not rotated out; the entry is refused. The incumbent that goes is
  the one of least stress efficiency, where the roadmap (B18) says least
  remaining alpha.
* Desk. `ranking_store.py:47` sets "ranked" on a retry whatever the status has
  become. `agentic_roles.py:262` raises for an exhausted role, so one model that
  fails too often stops the cycle (`mvp_research_flow.py:137` says it must not).
  A candidate set that grew before a retry changes the snapshot: the lock
  raises, or an output of the older input is filed under the new one; a
  candidate with a smaller id can make the first attempt's own opportunity the
  parent and suppress its group. Bounded evidence forgets what the parent was
  first made of (`roadmap.md:398`). An output is validated after its run has
  durably succeeded, so every retry recovers an invalid one. Only the anchor's
  keys are matched against the registry.
* Sources. The Finlight poll reports "degraded" even when it succeeded
  (`finlight.py:190`), so the retry gate backs off up to an hour
  (`live_source_flow.py:45-58`). The gate compares the fixed time of the wake:
  retries of one cycle never poll a failed connector again. `known_at` is read
  before the insert commits, so what was known at a cutoff can still grow after
  the freeze. A page of 100 articles of one creation time would hold the
  Finlight cursor. `live_source_flow.py:366` sheds the last of the
  source-balanced order, where its comment keeps the freshest; the last branch
  of the shedding cannot be reached.
* Agenda. Two questions are chosen before the ones that are not due are left
  out: a third of the same opportunity is not asked while two exist.
  `eligible_at` is capped at the deadline at which the queue drops the
  opportunity.
* Market-data key. Nothing ever takes a slot over: a holder that dies leaves its
  directory, a lease whose heartbeat is older than its ttl can no longer be released by
  its owner, and a write that fails leaves a temporary file, because of which `acquire`
  cannot remove the directory and `release` refuses (`massive_lease.py:74-107`). Nothing in `asterism` calls
  `heartbeat`. In dedicated mode a pause is kept in the process only and goes with it;
  `PauseKept` speaks of a pause that a live process heard.
* Bridge. A hand-over can be recorded "staged" after the monitor recorded the plan's
  end: the child stages, the other thread ticks and records, and then the first does
  (`broker_bridge.py:65-72`). `RecordsFollow` allows it, since the plan was staged.
  `close` joins a monitor thread for 55 s whose tick may take two
  requests of 45 s.

## 6. Not modelled

Components: the model gateway's translation, the dashboard and the vendored Codex
CLI. Inside the modelled components, besides what section 2 abstracts:

* adapters: wire formats, prices, decimal places, the brokers' own errors by name
  (every one is `Unconfirmed`), the session with the broker's gateway process;
* review and bridge: ages in seconds (an age is too old or not), the fields of a quote,
  the texts of a refusal;
* manual plans and confirmations, the read-only queries of the broker;
* Paper: acceptance and flatten commands, the credential audit, an order whose
  placing is delayed beyond its child's death and a takeover;
* console: sessions, request forgery checks, the proxy, static files, the
  installation of launchd or systemd units;
* host and supervisor: what the platform's service manager kills of a host that died
  (systemd's `KillMode=mixed` does, launchd may) is not told apart from a supervisor
  and a child that are killed, or are not, at any time afterwards;
* `StorageManager`: pruning of caches by age and size;
* supervisor: the exponent of its backoff;
* gateway: latency metrics, heartbeats, the MCP budget; internet: retrieval
  and text processing;
* cycles: the cadence of the next cycle, snapshots older than the frozen
  input, the field checks of an input, the promotion of evidence;
* sources: limits by age and count of a materialization, the scan of 32 rows,
  option chains, access modes, the idle streak, the websocket (not wired in
  production); the gate's delays grow by one where the code doubles them;
* agenda: what single Scouts are fitted with (`scouts.py`), ties, which the
  code breaks by the hash of a question and the model by its origin;
* desk: scores, calibration, research attention, incentives and the market
  agenda; drafts are reviewed in one fixed order and at most as many as are
  reviewed at all; a cycle given up between materializing and resolving leaves
  a live duplicate, which the model leaves out;
* book: option pricing, the research mandate, performance statistics; limits
  on stress, catalyst and exposure are represented by those on gross and
  source.

## 7. What could follow

An abstract counting semaphore that `Gateway` implements. A composition of `ResearchCycle` with `OpportunityDesk`, so that it is
the runner and not a choice that says when a stage runs again.
