----------------------------- MODULE PaperCapital -----------------------------
(***************************************************************************)
(* The Tiger Paper lane: the host authorizes and revokes it                *)
(* (capital-control.mjs), the research process writes a durable intent     *)
(* before every order and settles it afterwards (agentic_position.py,      *)
(* paper_intent.py, paper_execution.py), and an isolated child, which      *)
(* holds the owner lease, places the order (alta_capitald).                *)
(*                                                                         *)
(* Any of the three may die between two steps.  A child whose parent has   *)
(* died lives on as an orphan.  The broker's position report may lag       *)
(* behind its orders, as _wait_for_position expects.  One symbol, whose    *)
(* every position is Lot shares; a stale lease is taken over in one step   *)
(* (HostLease models the race inside such a takeover).                     *)
(***************************************************************************)
EXTENDS Integers, FiniteSets

CONSTANTS
  MaxIntents,    \* bound on intents written
  MaxGeneration, \* bound on authorization generations
  Lot            \* shares in a position

Intents == 1..MaxIntents
Generations == 1..MaxGeneration
PaperAssumption ==
  MaxIntents \in Nat /\ MaxGeneration \in Nat /\ Lot \in Nat \ {0}

VARIABLES
  auth,     \* the authorization file
  host,     \* the step of the host's setEnabled
  lease,    \* the mutation lease: free, or whose it is
  research, \* the research process: its step, its pinned generation, the intent
            \* at work and the drain its monitor asked for
  child,    \* the order child: its step, intent, generation and result
  row,      \* the intents of the database: operation and state
  order,    \* the broker's order of each intent
  held,     \* the broker's position
  shown,    \* the position it reports
  local,    \* the position of the research database
  drain     \* the state of each generation's drain

vars == <<auth, host, lease, research, child, row, order, held, shown, local, drain>>
broker == <<order, held, shown>>
books == <<row, local, drain>>

NoRow == [op |-> "none", state |-> "none"]
NoChild == [step |-> "none", intent |-> 0, gen |-> 0, result |-> "none"]

Init ==
  /\ auth = [gen |-> 0, enabled |-> FALSE, closeOnly |-> FALSE]
  /\ host = "idle"
  /\ lease = "free"
  /\ research = [step |-> "down", gen |-> 0, intent |-> 0, drain |-> 0]
  /\ child = NoChild
  /\ row = [i \in Intents |-> NoRow]
  /\ order = [i \in Intents |-> "none"]
  /\ held = 0
  /\ shown = 0
  /\ local = 0
  /\ drain = [g \in Generations |-> "none"]

\* Mutant: a mutation or a revocation does not wait for the lease
NotAwaited == TRUE

\* Mutant: a lease is never taken from an owner that is gone
OnlyFree == lease = "free"

\* acquire: the lease is free, or its owner is gone.
Takeable == lease \in {"free", "stale"}

\* SingleOwnerLease: one child of the account at a time; a dead one's is removed.
Owned == child.step \in {"admitted", "placed"}

\* The research process waits for the child; otherwise nobody does.
Waiting == research.step = "waiting"

\* What a snapshot calls an empty account.
Empty == shown = 0 /\ \A i \in Intents : order[i] # "live"

\* assert_authorized and _assert_mutation_authorized: an exit passes a later,
\* close-only generation as well.
Authorized(op, gen) ==
  /\ auth.enabled
  /\ auth.gen = gen \/ (op = "close" /\ auth.closeOnly /\ auth.gen > gen)
  /\ auth.closeOnly => op = "close"

Before(op) == IF op = "open" THEN 0 ELSE Lot
After(op) == Lot - Before(op)

Unresolved == {"prepared", "dispatching", "broker_filled", "manual_review"}
\* Mutant: an intent under review does not count as unresolved
ReviewAside(i) == row[i].state \in Unresolved \ {"manual_review"}

\* b17_paper_intent_one_unresolved_per_account
Active(i) == row[i].state \in Unresolved
Quiet == \A i \in Intents : ~Active(i)
Current == research.intent

\* The research process is gone; its host would start it again as it was.
Down == [research EXCEPT !.step = "down", !.intent = 0, !.drain = 0]

--------------------------------------------------------------------------------
\* setEnabled(false): the mutation lease of a known account first.
BeginRevoke ==
  /\ host = "idle"
  /\ auth.gen \in 1..(MaxGeneration - 1)
  /\ Takeable
  /\ lease' = "host"
  /\ host' = "revoke"
  /\ UNCHANGED <<auth, research, child, broker, books>>

\* Its snapshot child has the owner lease, reads the account, and is gone.
SurveyForRevoke ==
  /\ host = "revoke"
  /\ ~Owned
  /\ host' = IF Empty THEN "withdraw" ELSE "restrict"
  /\ UNCHANGED <<auth, lease, research, child, broker, books>>

WriteRevoke ==
  /\ host \in {"withdraw", "restrict"}
  /\ auth' = [gen |-> auth.gen + 1, enabled |-> host = "restrict", closeOnly |-> host = "restrict"]
  /\ host' = "idle"
  /\ lease' = "free"
  /\ UNCHANGED <<research, child, broker, books>>

\* A snapshot that fails, or finds the owner lease taken, changes nothing.
RevokeFails ==
  /\ host = "revoke"
  /\ host' = "idle"
  /\ lease' = "free"
  /\ UNCHANGED <<auth, research, child, broker, books>>

\* setEnabled(true), behind the console's check that the runtime is stopped: it
\* takes no mutation lease.
BeginEnable ==
  /\ host = "idle"
  /\ research.step = "down"
  /\ ~auth.enabled
  /\ auth.gen < MaxGeneration
  /\ ~Owned
  /\ Empty
  /\ host' = "enable"
  /\ UNCHANGED <<auth, lease, research, child, broker, books>>

WriteEnable ==
  /\ host = "enable"
  /\ auth' = [gen |-> auth.gen + 1, enabled |-> TRUE, closeOnly |-> FALSE]
  /\ host' = "idle"
  /\ UNCHANGED <<lease, research, child, broker, books>>

HostDies ==
  /\ host # "idle"
  /\ host' = "idle"
  /\ lease' = IF lease = "host" THEN "stale" ELSE lease
  /\ UNCHANGED <<auth, research, child, broker, books>>

--------------------------------------------------------------------------------
\* TigerPaperSession.reconcile: what the order of a client identity proves.
Proven(i) ==
  CASE order[i] = "filled" /\ shown = After(row[i].op)     -> "filled"
    [] order[i] = "cancelled" /\ shown = Before(row[i].op) -> "not_filled"
    [] OTHER                                               -> "unresolved"

\* PaperIntentStore._transition
Moved(i, state) == [row EXCEPT ![i].state = state]

ResultState(result) == IF result = "filled" THEN "broker_filled" ELSE "broker_not_filled"

\* An entry ends in the cycle, an exit in the monitor's loop.
Resumed(i) == IF row[i].op = "open" THEN "idle" ELSE "monitoring"

\* A recorded fill is committed locally next; anything else ends the mutation.
Recorded(i, result) ==
  /\ row' = Moved(i, ResultState(result))
  /\ research' = [research EXCEPT !.step = IF result = "filled" THEN "committing" ELSE Resumed(i)]
  /\ lease' = IF result = "filled" THEN lease ELSE "free"

\* shadow.open or shadow.close and commit_local, in one transaction
Committed(i) ==
  /\ row' = Moved(i, "local_committed")
  /\ local' = After(row[i].op)

\* PaperCapitalCircuitOpen ends the process; the lease is released on the way.
CircuitOpens ==
  /\ research' = Down
  /\ lease' = "free"

--------------------------------------------------------------------------------
\* The host starts a runtime of an enabled account with its generation; the
\* supervisor restarts one as it was.
Start ==
  /\ research.step = "down"
  /\ \E gen \in {research.gen} \cup {g \in {auth.gen} : auth.enabled} :
       /\ gen # 0
       /\ research' = [Down EXCEPT !.step = "recovering", !.gen = gen]
  /\ UNCHANGED <<auth, host, lease, child, broker, books>>

\* recover_paper_intents, each intent under the mutation lease
RecoverPrepared ==
  /\ research.step = "recovering"
  /\ Takeable
  /\ \E i \in Intents :
       /\ row[i].state = "prepared"
       /\ row' = Moved(i, "abandoned")
  /\ lease' = "free"
  /\ UNCHANGED <<auth, host, research, child, broker, local, drain>>

\* Mutant: a restart gives up an order it dispatched as it gives up one it did not
ForgetDispatched(i) == Moved(i, "abandoned")

\* What becomes of a dispatched intent on a restart.
Settled(i) ==
  Moved(i, IF Proven(i) = "unresolved" THEN "manual_review" ELSE ResultState(Proven(i)))

RecoverDispatched ==
  /\ research.step = "recovering"
  /\ Takeable
  /\ ~Owned
  /\ \E i \in Intents :
       /\ row[i].state = "dispatching"
       /\ row' = Settled(i)
  /\ lease' = "free"
  /\ UNCHANGED <<auth, host, research, child, broker, local, drain>>

RecoverFilled ==
  /\ research.step = "recovering"
  /\ Takeable
  /\ \E i \in Intents :
       /\ row[i].state = "broker_filled"
       /\ Committed(i)
  /\ lease' = "free"
  /\ UNCHANGED <<auth, host, research, child, broker, drain>>

\* reconcile_paper_startup: no order is open and the positions are the same.
AccountAgrees == shown = local /\ \A i \in Intents : order[i] # "live"

Ready ==
  /\ research.step = "recovering"
  /\ Quiet
  /\ ~Owned
  /\ AccountAgrees
  /\ research' = [research EXCEPT !.step = "idle"]
  /\ UNCHANGED <<auth, host, lease, child, broker, books>>

\* Recovery raises, on an intent under review or on an account that differs.
StartFails ==
  /\ research.step = "recovering"
  /\ research' = Down
  /\ UNCHANGED <<auth, host, lease, child, broker, books>>

\* _open_with_paper and _close_with_paper: the lease, the authorization, and a
\* prepared intent, which no other unresolved one may accompany.
Prepare(op) ==
  /\ research.step = IF op = "open" THEN "idle" ELSE "monitoring"
  /\ local = Before(op)
  /\ Takeable
  /\ Authorized(op, research.gen)
  /\ Quiet
  /\ \E i \in Intents :
       /\ row[i] = NoRow
       /\ \A j \in 1..(i - 1) : row[j] # NoRow
       /\ row' = [row EXCEPT ![i] = [op |-> op, state |-> "prepared"]]
       /\ research' = [research EXCEPT !.step = "prepared", !.intent = i]
  /\ lease' = "research"
  /\ UNCHANGED <<auth, host, child, broker, local, drain>>

\* mark_dispatching is committed before the child is started.
Dispatch ==
  /\ research.step = "prepared"
  /\ row' = Moved(Current, "dispatching")
  /\ child' = [step |-> "starting", intent |-> Current, gen |-> research.gen, result |-> "none"]
  /\ research' = [research EXCEPT !.step = "waiting"]
  /\ UNCHANGED <<auth, host, lease, broker, local, drain>>

\* The database fails there, with or without its effect: no child is started and
\* the cycle goes on.
DispatchFails ==
  /\ research.step = "prepared"
  /\ row' \in {row, Moved(Current, "dispatching")}
  /\ research' = [research EXCEPT !.step = Resumed(Current)]
  /\ lease' = "free"
  /\ UNCHANGED <<auth, host, child, broker, local, drain>>

\* The child answered, and record_result committed.
TakeResult ==
  /\ Waiting
  /\ child.step = "ended"
  /\ child.result # "error"
  /\ Recorded(child.intent, child.result)
  /\ child' = NoChild
  /\ UNCHANGED <<auth, host, broker, local, drain>>

\* It failed, or record_result did, with or without its effect.
DispatchFailed ==
  /\ Waiting
  /\ child.step = "ended"
  /\ \/ row' = row
     \/ child.result # "error" /\ row' = Moved(child.intent, ResultState(child.result))
  /\ research' = [research EXCEPT !.step = "failed"]
  /\ child' = NoChild
  /\ UNCHANGED <<auth, host, lease, broker, local, drain>>

\* subprocess.run times out and kills what it started: the child, or only the
\* uv launcher in front of it.
DispatchTimesOut ==
  /\ Waiting
  /\ child.step # "ended"
  /\ research' = [research EXCEPT !.step = "failed"]
  /\ child' \in {child, NoChild}
  /\ UNCHANGED <<auth, host, lease, broker, books>>

\* After a failed dispatch: one look at the broker, never a second order.
Reconcile ==
  /\ research.step = "failed"
  /\ ~Owned
  /\ Proven(Current) # "unresolved"
  /\ row[Current].state \in {"dispatching", ResultState(Proven(Current))}
  /\ Recorded(Current, Proven(Current))
  /\ UNCHANGED <<auth, host, child, broker, local, drain>>

\* The look fails or proves nothing: manual review and the end of the process.
\* Where the transition is forbidden or lost, the row stays as it is.
GoToReview ==
  /\ research.step = "failed"
  /\ \/ row' = row
     \/ row[Current].state = "dispatching" /\ row' = Moved(Current, "manual_review")
  /\ CircuitOpens
  /\ UNCHANGED <<auth, host, child, broker, local, drain>>

Commit ==
  /\ research.step = "committing"
  /\ Committed(Current)
  /\ research' = [research EXCEPT !.step = Resumed(Current)]
  /\ lease' = "free"
  /\ UNCHANGED <<auth, host, child, broker, drain>>

CommitFails ==
  /\ research.step = "committing"
  /\ CircuitOpens
  /\ UNCHANGED <<auth, host, child, broker, books>>

\* The process is killed; its lease is stale and its child an orphan.
Crash ==
  /\ research.step # "down"
  /\ research' = Down
  /\ lease' = IF lease = "research" THEN "stale" ELSE lease
  /\ child' = IF child.step = "ended" THEN NoChild ELSE child
  /\ UNCHANGED <<auth, host, broker, books>>

--------------------------------------------------------------------------------
\* monitor_existing, in a close-only generation with a drain of its own: an
\* unfinished one of another generation is a conflict, and ends the cycle.
Draining == auth.enabled /\ auth.closeOnly /\ auth.gen >= research.gen

Monitor ==
  /\ research.step = "idle"
  /\ auth.enabled
  /\ Draining => /\ drain[auth.gen] # "completed"
                 /\ \A g \in Generations \ {auth.gen} : drain[g] # "draining"
  /\ drain' = IF Draining THEN [drain EXCEPT ![auth.gen] = "draining"] ELSE drain
  /\ research' = [research EXCEPT !.step = "monitoring",
                                 !.drain = IF Draining THEN auth.gen ELSE 0]
  /\ UNCHANGED <<auth, host, lease, child, broker, row, local>>

\* complete_drain: the broker is flat and so is the research database.
Flat == Empty /\ local = 0

\* _complete_paper_drain_if_flat, under the mutation lease
CompleteDrain ==
  /\ research.step = "monitoring"
  /\ research.drain # 0
  /\ Takeable
  /\ ~Owned
  /\ Flat
  /\ drain' = [drain EXCEPT ![research.drain] = "completed"]
  /\ research' = [research EXCEPT !.step = "idle", !.drain = 0]
  /\ lease' = "free"
  /\ UNCHANGED <<auth, host, child, broker, row, local>>

\* The monitor ends with the drain unfinished, or without one.
EndMonitor ==
  /\ research.step = "monitoring"
  /\ research' = [research EXCEPT !.step = "idle", !.drain = 0]
  /\ UNCHANGED <<auth, host, lease, child, broker, books>>

--------------------------------------------------------------------------------
\* The end of a child: its answer is lost unless the research process waits.
Ended(result) ==
  child' = IF Waiting THEN [child EXCEPT !.step = "ended", !.result = result] ELSE NoChild

\* TigerPaperSession.start and the first half of execute: the owner lease, the
\* authorization, no order of this identity, and the expected position.
Admit ==
  /\ child.step = "starting"
  /\ Authorized(row[child.intent].op, child.gen)
  /\ order[child.intent] = "none"
  /\ shown = Before(row[child.intent].op)
  /\ child' = [child EXCEPT !.step = "admitted"]
  /\ UNCHANGED <<auth, host, lease, research, broker, books>>

Place ==
  /\ child.step = "admitted"
  /\ order' = [order EXCEPT ![child.intent] = "live"]
  /\ child' = [child EXCEPT !.step = "placed"]
  /\ UNCHANGED <<auth, host, lease, research, held, shown, books>>

\* Refused or unreachable anywhere, or an end that is not confirmed in time.
ChildFails ==
  /\ child.step \in {"starting", "admitted", "placed"}
  /\ Ended("error")
  /\ UNCHANGED <<auth, host, lease, research, broker, books>>

\* A full fill, and the position shows it.
ReportFilled ==
  /\ child.step = "placed"
  /\ order[child.intent] = "filled"
  /\ shown = After(row[child.intent].op)
  /\ Ended("filled")
  /\ UNCHANGED <<auth, host, lease, research, broker, books>>

\* The order is over without a full fill and the position reads as before: so it
\* does after a partial fill as well, while the report lags.
ReportNotFilled ==
  /\ child.step = "placed"
  /\ order[child.intent] \in {"cancelled", "partial"}
  /\ shown = Before(row[child.intent].op)
  /\ Ended("not_filled")
  /\ UNCHANGED <<auth, host, lease, research, broker, books>>

--------------------------------------------------------------------------------
Direction(i) == IF row[i].op = "open" THEN 1 ELSE -1

\* The broker fills a live order, in full or in part, or ends it.
Fill ==
  /\ \E i \in Intents :
       /\ order[i] = "live"
       /\ \/ /\ order' = [order EXCEPT ![i] = "filled"]
             /\ held' = held + Direction(i) * Lot
          \/ /\ order' = [order EXCEPT ![i] = "cancelled"]
             /\ held' = held
          \/ /\ order' = [order EXCEPT ![i] = "partial"]
             /\ held' \in {held + Direction(i) * n : n \in 1..(Lot - 1)}
  /\ UNCHANGED <<auth, host, lease, research, child, shown, books>>

CatchUp ==
  /\ shown # held
  /\ shown' = held
  /\ UNCHANGED <<auth, host, lease, research, child, order, held, books>>

--------------------------------------------------------------------------------
Host == BeginRevoke \/ SurveyForRevoke \/ WriteRevoke \/ RevokeFails \/ BeginEnable
        \/ WriteEnable \/ HostDies
Recovery == RecoverPrepared \/ RecoverDispatched \/ RecoverFilled \/ Ready \/ StartFails
Mutation == Prepare("open") \/ Prepare("close") \/ Dispatch \/ DispatchFails \/ TakeResult
            \/ DispatchFailed \/ DispatchTimesOut \/ Reconcile \/ GoToReview
            \/ Commit \/ CommitFails
Capitald == Admit \/ Place \/ ChildFails \/ ReportFilled \/ ReportNotFilled

Next == Host \/ Start \/ Recovery \/ Mutation \/ Crash \/ Monitor \/ CompleteDrain \/ EndMonitor
        \/ Capitald \/ Fill \/ CatchUp
Spec == Init /\ [][Next]_vars

\* The supervisor restarts the process, and again after each crash; every call of
\* it, of its child and of the host ends or runs into its timeout; the operator
\* does not revoke again and again for ever.
Answered == TakeResult \/ DispatchFailed \/ DispatchTimesOut
Judged == Reconcile \/ GoToReview
Entered == Commit \/ CommitFails
Decided == WriteRevoke \/ RevokeFails \/ WriteEnable
Fairness ==
  /\ WF_vars(Start)
  /\ SF_vars(RecoverDispatched)
  /\ SF_vars(RecoverFilled)
  /\ WF_vars(Answered) /\ WF_vars(Judged) /\ WF_vars(Entered)
  /\ WF_vars(Capitald)
  /\ WF_vars(Decided)
  /\ <>[](host # "revoke")
FairSpec == Spec /\ Fairness
--------------------------------------------------------------------------------
\* Every variable has its type.
TypeOK ==
  /\ auth \in [gen : 0..MaxGeneration, enabled : BOOLEAN, closeOnly : BOOLEAN]
  /\ host \in {"idle", "revoke", "withdraw", "restrict", "enable"}
  /\ lease \in {"free", "research", "host", "stale"}
  /\ research \in [step : {"down", "recovering", "idle", "monitoring", "prepared", "waiting",
                           "failed", "committing"},
                   gen : 0..MaxGeneration, intent : {0} \cup Intents, drain : 0..MaxGeneration]
  /\ child \in [step : {"none", "starting", "admitted", "placed", "ended"},
                intent : {0} \cup Intents, gen : 0..MaxGeneration,
                result : {"none", "filled", "not_filled", "error"}]
  /\ row \in [Intents -> [op : {"none", "open", "close"},
                          state : {"none", "broker_not_filled", "local_committed", "abandoned"}
                                  \cup Unresolved]]
  /\ order \in [Intents -> {"none", "live", "filled", "partial", "cancelled"}]
  /\ held \in Int /\ shown \in Int /\ local \in 0..Lot
  /\ drain \in [Generations -> {"none", "draining", "completed"}]

Live == {i \in Intents : order[i] = "live"}

\* An order that ended in a partial fill and is recorded as not filled: the position
\* report did not show the part when the child looked (paper_trade.py:515-518).  The
\* code can do it: WellJudged is false of the model, too.
Misjudged(i) == row[i].state = "broker_not_filled" /\ order[i] = "partial"
WellJudged == \A i \in Intents : ~Misjudged(i)

\* However the processes die, an intent is never ordered again while an earlier
\* order may still fill: no child is left that could place one, and one order is live
\* at most.  While no partial fill was misjudged, its fill leaves the position flat or
\* at one lot, never short or doubled.
OneExposure ==
  /\ research.step = "prepared" => child = NoChild
  /\ Cardinality(Live) <= 1
  /\ WellJudged => \A i \in Live : held = Before(row[i].op)

\* A settled intent says what the broker did: a recorded fill was filled in full, one
\* given up was never ordered, and of one recorded as not filled the order is over; it
\* traded nothing, or a part that the position report did not show.  No child of a
\* settled intent can order any more.
IntentsTruthful ==
  \A i \in Intents :
    /\ row[i].state \in {"broker_filled", "local_committed"} => order[i] = "filled"
    /\ row[i].state = "abandoned" => order[i] = "none"
    /\ row[i].state = "broker_not_filled" => order[i] \in {"cancelled", "partial"}
    /\ row[i].state \in {"broker_not_filled", "abandoned"} =>
         (child.intent = i => child.step = "ended")

\* When no intent is unresolved, and no partial fill was misjudged, the research
\* database and the broker have the same position, whatever the report says.
BooksAgree ==
  WellJudged /\ (\A i \in Intents : row[i].state \notin Unresolved) => held = local

\* While the research process waits for its order, the host does not change the
\* authorization: the order is placed in the generation that permitted it.
Permitted ==
  child.step = "admitted" /\ child'.step = "placed" /\ Waiting =>
    Authorized(row[child.intent].op, child.gen)
PlacedAsAuthorized == [][Permitted]_vars

\* A completed drain is true, and stays true while its generation lasts: no order is
\* open, the database is flat and, while no partial fill was misjudged, so is the broker.
DrainTruthful ==
  auth.closeOnly /\ auth.gen # 0 /\ drain[auth.gen] = "completed" =>
    local = 0 /\ Live = {} /\ (WellJudged => held = 0)

\* The books are truthful: settled intents say what the broker did, once none is
\* unresolved both sides have the same position, and a completed drain stays true
\* while its generation lasts (paper_intent.py, agentic_position.py), however the
\* processes die and whatever part of an order the broker fills.  What a partial fill
\* recorded as "not_filled" on a late position report costs is said in each part: the
\* positions agree only while there is none.
BooksTruthful == IntentsTruthful /\ BooksAgree /\ DrainTruthful

\* An intent for which a child was started comes to a recorded end or to manual
\* review, and a recorded fill to the research database, whoever crashes.  (One whose
\* mark_dispatching failed with its effect waits for the next start.)
Begun(i) ==
  \/ order[i] # "none" \/ child.intent = i
  \/ research.step \in {"waiting", "failed"} /\ Current = i
Owed(i) == row[i].state = "broker_filled" \/ (row[i].state = "dispatching" /\ Begun(i))
Closed(i) == row[i].state \in {"local_committed", "broker_not_filled", "manual_review"}
IntentsSettle == \A i \in Intents : Owed(i) ~> Closed(i)

\* docs/operations/operator-console.md:356: "Disabling an empty account fully
\* revokes mutation".
RevokedForGood == [][child.step = "admitted" /\ child'.step = "placed" => auth.enabled]_vars

\* docs/operations/operator-console.md:358: a close-only generation "lets the
\* durable exit drain": no drain of an earlier generation keeps it from one.
DrainUnblocked ==
  Draining /\ research.step = "idle" =>
    \A g \in Generations \ {auth.gen} : drain[g] # "draining"
=============================================================================
