----------------------------- MODULE MCResearch -----------------------------
(***************************************************************************)
(* What one research process does, for TLC in one run.  ResearchCycle and  *)
(* ShadowBook are instantiated for any record of parameters.  Four such    *)
(* cycles run: two Scouts of one cycle; without refused writes, also for   *)
(* liveness, the same and one Scout over a start more; and one Scout of    *)
(* two cycles in sequence, with settings that change.                      *)
(* Two books run: one of two places with prices that move, and one of one  *)
(* place, where candidates replace incumbents, which also carries the      *)
(* liveness.  OpportunityDesk has two instances: one candidate and then up *)
(* to two, which refresh, suppress and merge, and one candidate in each of *)
(* two cycles with more content and roles that may be asked twice.         *)
(* ResearchAgenda has one, of three opportunities.  The modules share no   *)
(* state: a behaviour is one of one instance, and the other modules stay   *)
(* as they began.                                                          *)
(***************************************************************************)
EXTENDS Naturals, Sequences, FiniteSets

CONSTANTS
  TwoScouts, TwoCycles,     \* the parameters of ResearchCycle
  TwoPlaces, OnePlace,      \* those of ShadowBook
  Merging, Asking,          \* those of OpportunityDesk
  Asks,                     \* those of ResearchAgenda
  s1, s2, o1, o2            \* Scouts and opportunities

VARIABLES
  event, boundTo, snapshot, spoiled, job, run, artifact, minds, settings, boots,
  phase, cycle, todo, error, wake, worker, outcome, stop, shown, cancelling,
  fetched, calls,
  ranked, expression, plan, position, turn, step, todoBook, at, closing,
  rotatedFor, faults,
  candidate, opp, found, role, assessment, shared, discussed, book, held, day,
  stage, drafts, draft, seat, asked, pair, reviewed, last, breaks,
  clock, changes, registry, views, attempt, waking, wokenAt, queue, assigned,
  room, prior, context, evidenceLeft,
  system     \* the instance that runs

Cycle(K) == INSTANCE ResearchCycle WITH
  Scouts <- K.scouts, MaxAttempts <- K.attempts, MaxCycles <- K.cycles, MaxBoots <- K.boots,
  Faults <- K.faults
\* For liveness no write is refused: the batch, and one of its Scouts alone over
\* a start more.
Lasting == [TwoScouts EXCEPT !.faults = @ \ {"write"}]
Alone == [Lasting EXCEPT !.scouts = {s1}, !.boots = @ + 1]

Book(K) == INSTANCE ShadowBook WITH
  cycle <- turn, todo <- todoBook, Opps <- K.opps, Source <- K.source,
  MaxCycles <- K.cycles, MaxFaults <- K.faults, MaxAttempts <- K.attempts, MaxOpen <- K.open,
  Prices <- K.prices, Sizes <- K.sizes, Cent <- K.cent,
  GrossLimit <- K.gross, SourceLimit <- K.perSource

\* For TLC.
Every == {"record", "spoil", "config", "crash", "stop", "late", "circuit", "write"}
TwoScoutsOf ==
  [scouts |-> {s1, s2}, attempts |-> 2, cycles |-> 1, boots |-> 2, faults |-> Every \ {"config"}]
TwoCyclesOf ==
  [scouts |-> {s1}, attempts |-> 2, cycles |-> 2, boots |-> 2,
   faults |-> Every \ {"write", "late", "circuit"}]
OfSource == [o \in {o1, o2} |-> IF o = o1 THEN "a" ELSE "b"]
TwoPlacesOf ==
  [opps |-> {o1, o2}, source |-> OfSource, cycles |-> 2, faults |-> 2, attempts |-> 1,
   open |-> 2, prices |-> 1..2, sizes |-> {1}, cent |-> 2, gross |-> 3, perSource |-> 3]
OnePlaceOf ==
  [opps |-> {o1, o2}, source |-> OfSource, cycles |-> 2, faults |-> 2, attempts |-> 3,
   open |-> 1, prices |-> {1}, sizes |-> {1}, cent |-> 1, gross |-> 3, perSource |-> 2]

\* The first opportunity is due soon, and has two questions of its own.
AsksOf ==
  [opps |-> 1..3, scouts |-> <<"S1", "S2", "S3", "S4">>,
   prompts |-> [o \in 1..3 |-> IF o = 1 THEN {"next_test", "rejection"}
                               ELSE IF o = 2 THEN {"pillar"} ELSE {"rejection"}],
   horizon |-> [o \in 1..3 |-> IF o = 1 THEN 2 ELSE 4], later |-> {2, 4},
   within |-> <<1, 2, 3>>, wait |-> <<1, 1, 2, 3>>,
   open |-> 2, priority |-> 2, queue |-> 2, followUp |-> 2, frozen |-> 2,
   offered |-> 1, rooms |-> {1, 5}, time |-> 4, changes |-> 1]

Draft(e, s, f, v) == [exact |-> e, structural |-> s, follow |-> f, evidence |-> v]
MergingOf ==
  [cycles |-> 2, slots |-> <<1, 2>>,
   drafts |-> {Draft("a", "x", FALSE, <<1>>), Draft("a", "y", FALSE, <<2>>),
               Draft("b", "x", TRUE, <<2, 1>>)},
   evidence |-> 2, attempts |-> 1, faults |-> 0]
AskingOf ==
  [cycles |-> 2, slots |-> <<1, 1>>,
   drafts |-> {Draft("a", "x", FALSE, <<1>>), Draft("a", "y", FALSE, <<2>>)},
   evidence |-> 1, attempts |-> 2, faults |-> 1]

Desk(K) == INSTANCE OpportunityDesk WITH
  event <- found, run <- role, position <- held, cycle <- day, step <- stage, turn <- draft,
  faults <- breaks, MaxCycles <- K.cycles, Slots <- K.slots, Drafts <- K.drafts,
  MaxEvidence <- K.evidence, MaxRoleAttempts <- K.attempts, MaxFaults <- K.faults

Agenda == INSTANCE ResearchAgenda WITH
  at <- wokenAt, Opps <- Asks.opps, Scouts <- Asks.scouts, Prompts <- Asks.prompts,
  Horizon <- Asks.horizon, Later <- Asks.later, Within <- Asks.within, Wait <- Asks.wait,
  MaxOpen <- Asks.open, MaxPriority <- Asks.priority, MaxQueue <- Asks.queue,
  MaxFollowUp <- Asks.followUp, MaxFrozen <- Asks.frozen, Offered <- Asks.offered,
  Rooms <- Asks.rooms, MaxTime <- Asks.time, MaxChanges <- Asks.changes

ASSUME OtherBounds == Agenda!AgendaAssumption
ASSUME DeskBounds == Desk(Merging)!DeskAssumption /\ Desk(Asking)!DeskAssumption
ASSUME CycleBounds ==
  /\ Cycle(TwoScouts)!CycleAssumption /\ Cycle(Lasting)!CycleAssumption
  /\ Cycle(Alone)!CycleAssumption
  /\ Cycle(TwoCycles)!CycleAssumption
ASSUME BookBounds == Book(TwoPlaces)!BookAssumption /\ Book(OnePlace)!BookAssumption

cycleVars ==
  <<event, boundTo, snapshot, spoiled, job, run, artifact, minds, settings, boots,
    phase, cycle, todo, error, wake, worker, outcome, stop, shown, cancelling,
    fetched, calls>>
bookVars ==
  <<ranked, expression, plan, position, turn, step, todoBook, at, closing, rotatedFor, faults>>
deskVars ==
  <<candidate, opp, found, role, assessment, shared, discussed, book, held, day,
    stage, drafts, draft, seat, asked, pair, reviewed, last, breaks>>
agendaVars ==
  <<clock, changes, registry, views, attempt, waking, wokenAt, queue, assigned,
    room, prior, context, evidenceLeft>>
vars == <<cycleVars, bookVars, deskVars, agendaVars, system>>

InBatch == system = "batch"
InLasting == system = "lasting"
InAlone == system = "alone"
InSeries == system = "series"
InTwo == system = "two"
InSmall == system = "small"
InMerging == system = "merging"
InAsking == system = "asking"
InAgenda == system = "agenda"

Init ==
  /\ system \in {"batch", "lasting", "alone", "series", "two", "small", "merging", "asking", "agenda"}
  /\ Agenda!Init
  /\ IF InLasting THEN Cycle(Lasting)!Init
     ELSE IF InAlone THEN Cycle(Alone)!Init
     ELSE IF InSeries THEN Cycle(TwoCycles)!Init ELSE Cycle(TwoScouts)!Init
  /\ IF InSmall THEN Book(OnePlace)!Init ELSE Book(TwoPlaces)!Init
  /\ IF InAsking THEN Desk(Asking)!Init ELSE Desk(Merging)!Init

Next ==
  /\ UNCHANGED system
  /\ \/ /\ \/ InBatch /\ Cycle(TwoScouts)!Next
           \/ InLasting /\ Cycle(Lasting)!Next
           \/ InAlone /\ Cycle(Alone)!Next
           \/ InSeries /\ Cycle(TwoCycles)!Next
        /\ UNCHANGED <<bookVars, deskVars, agendaVars>>
     \/ /\ \/ InTwo /\ Book(TwoPlaces)!Next
           \/ InSmall /\ Book(OnePlace)!Next
        /\ UNCHANGED <<cycleVars, deskVars, agendaVars>>
     \/ /\ \/ InMerging /\ Desk(Merging)!Next
           \/ InAsking /\ Desk(Asking)!Next
        /\ UNCHANGED <<cycleVars, bookVars, agendaVars>>
     \/ InAgenda /\ Agenda!Next /\ UNCHANGED <<cycleVars, bookVars, deskVars>>

Safety == Init /\ [][Next]_vars

\* The fairness of the modules, for the instances whose liveness is checked.
RunnerSteps ==
  \/ InLasting /\ Cycle(Lasting)!Runner
  \/ InAlone /\ Cycle(Alone)!Runner
Cancels ==
  \/ InLasting /\ Cycle(Lasting)!CancelCycle
  \/ InAlone /\ Cycle(Alone)!CancelCycle
Monitors ==
  \/ InLasting /\ Cycle(Lasting)!MonitorExisting
  \/ InAlone /\ Cycle(Alone)!MonitorExisting
Works(s) ==
  \/ InLasting /\ Cycle(Lasting)!Work(s)
  \/ InAlone /\ s = s1 /\ Cycle(Alone)!Work(s)
Fairness ==
  /\ WF_cycleVars(RunnerSteps) /\ WF_cycleVars(Cancels) /\ SF_cycleVars(Monitors)
  /\ WF_cycleVars(Works(s1)) /\ WF_cycleVars(Works(s2))
  /\ WF_bookVars(InSmall /\ Book(OnePlace)!Proceed)
Spec == Safety /\ Fairness

--------------------------------------------------------------------------------
\* What the database says happened, happened, once: a role that succeeded is
\* not asked again by any process, a mind has counted exactly its succeeded
\* runs, and a batch or a cycle that is called succeeded has a role that was
\* (ScoutRepository.start_runs, complete, finish_batch).  And recovery is sound:
\* roles work on the input frozen for their cycle, each failed attempt leaves
\* its own artifact, a sound cycle is never quarantined, and no second cycle is
\* begun while one can be resumed (autonomous.py, cycle_recovery.py).
CycleTruthful ==
  /\ InBatch => Cycle(TwoScouts)!CycleTruthful
  /\ InLasting => Cycle(Lasting)!CycleTruthful
  /\ InAlone => Cycle(Alone)!CycleTruthful
  /\ InSeries => Cycle(TwoCycles)!CycleTruthful

\* A settled cycle keeps its verdict and its succeeded runs (bind_cycle, fail).
VerdictKept ==
  [][/\ InBatch => Cycle(TwoScouts)!Settled
     /\ InLasting => Cycle(Lasting)!Settled
     /\ InAlone => Cycle(Alone)!Settled
     /\ InSeries => Cycle(TwoCycles)!Settled]_vars

\* The Shadow book is what the cycles made of it, however often they ran and
\* wherever they broke off: never more positions than places, no two on one
\* underlying or of one cycle, each of an expression that says so, and no
\* candidate that cost two incumbents (agentic_position.py, b5_runtime.py).
BookTruthful ==
  /\ InSmall => Book(OnePlace)!BookTruthful
  /\ InTwo => Book(TwoPlaces)!BookTruthful

\* An entry leaves the book within its limits at the marks of that moment, even
\* if they moved since its plan was made or an incumbent was rotated out for
\* it, but for less than a cent a share: the plan is sized and looked at again at
\* its ask, and filled up to a limit that is this ask rounded up to the cent
\* (portfolio_construction.py revalidate, execution_planning.py:140, shadow.py
\* evaluate_shadow_fill).
EntryWithinLimits ==
  [][InTwo => Book(TwoPlaces)!EntersWithinLimits]_vars

\* What has begun ends.  A run that is running is settled sooner or later,
\* whatever died with it; in a quarantined cycle, and in one that the circuit
\* ended, at a start after its deadline (the roles are interchangeable: one
\* stands for each).  A position past its time exit is closed, if the market
\* refuses a quote or a fill only so often (reconcile_expired_activity,
\* existing_outcome, terminalize_snapshot_cycle, cancel_cycle; monitor_existing,
\* _close_position).
Unsettled ==
  \/ InLasting /\ Cycle(Lasting)!Unsettled(1, s1)
  \/ InAlone /\ Cycle(Alone)!Unsettled(1, s1)
Overdue == InSmall /\ \E e \in Book(OnePlace)!Expr : Book(OnePlace)!Overdue(e)
BegunEnds == (Unsettled \/ Overdue) ~> ~(Unsettled \/ Overdue)

\* The desk's tables are what its cycles made of them.  What the registry merged
\* away belongs to one active opportunity that holds its story, however often
\* the cycle was run; what is ranked was assessed twice and discussed on the
\* ranked snapshot, and no role is asked more often than it may
\* (opportunity_registry.py, agentic_roles.py, mvp_research_flow.py).
DeskTruthful ==
  /\ InMerging => Desk(Merging)!RegistryTruthful /\ Desk(Merging)!ReviewsTruthful
  /\ InAsking => Desk(Asking)!RegistryTruthful /\ Desk(Asking)!ReviewsTruthful

\* The agenda of a wake is sound: what is assigned is open, undecided and spread
\* over the opportunities, Scouts are left to explore, and the input that is
\* frozen is one its own checks accept, whatever had to be given up to make it
\* fit (research_agenda.py, DatabaseSourceFlow, FrozenScoutInput).
AgendaTruthful == InAgenda => Agenda!AgendaTruthful

\* No work is done twice.  A cycle that is run again with the same candidates
\* reviews the same drafts: what it merged is neither merged nor counted anew
\* (OpportunityRegistry.resolve).  And no question is looked into twice on one
\* snapshot of its opportunity within the cadence it had when it was first
\* looked into (next_follow_up_at).
NoWorkTwice ==
  [][/\ InMerging /\ Desk(Merging)!ResolvesAgain => drafts' = last.drafts
     /\ InAsking /\ Desk(Asking)!ResolvesAgain => drafts' = last.drafts
     /\ InAgenda => Agenda!Apart]_vars

\* Violated: both private views of this cycle are locked, and they are shared.
LockedIsShared == InAsking => Desk(Asking)!LockedIsShared

\* An incumbent gives way only to an expression that passed its gates
\* (agentic_position.py:580).
RotatedForValidated == InSmall => Book(OnePlace)!RotatedForValidated
=============================================================================
