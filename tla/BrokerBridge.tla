------------------------------- MODULE BrokerBridge -------------------------------
(***************************************************************************)
(* The bridge between the research process and the selected broker          *)
(* (BrokerResearchBridge): the handoff of a validated expression under its  *)
(* own independent audit, the monitor that ticks the active plan from two   *)
(* threads, the records both leave, and the shutdown.                       *)
(*                                                                         *)
(* A plan is one expression for the pinned route.  The thread that hands it *)
(* over has validated and audited it before, so what the rows say of it does*)
(* not change.  What the broker's child makes of a request (BrokerAccount,  *)
(* ExecutionRoute) is any answer it may give; a child killed at its         *)
(* deadline has done its work or not.                                       *)
(* Ages are not counted: a decision or an audit may turn out too old        *)
(* whenever it is looked at.  A handoff that is refused before it has a     *)
(* plan id is recorded under the expression, of which nothing is kept here. *)
(***************************************************************************)
EXTENDS Naturals

CONSTANTS
  Plans,  \* expressions that may be handed over
  None    \* nothing, nobody

BridgeAssumption == None \notin Plans \cup {"cycle", "monitor"}

VARIABLES
  proof,    \* what the events and the audits of its cycle say of each plan
  fence,    \* this process owns the database
  broker,   \* state of each plan in the broker's ledger
  at,       \* where each thread is
  plan,     \* the plan it is about
  result,   \* what it has to record
  pass,     \* holder of _monitor_lock
  last,     \* state this process last recorded of each plan
  stop,     \* the stop event
  close,    \* close() of the runtime
  early     \* history: threads that were told to go on before stop was set

threads == <<at, plan, result, pass>>
vars == <<proof, fence, broker, threads, last, stop, close, early>>

--------------------------------------------------------------------------------
\* The research cycle hands over, and monitors between cycles; the bridge's own
\* thread monitors every 15 seconds.
Threads == {"cycle", "monitor"}

\* Exactly one audit approves this slate candidate, opportunity version and route,
\* and the last validated event is of these terms; another approves something else
\* of the same cycle; or neither.
Proofs == {"own", "other", "none"}

Active == {"staged", "working", "review"}
PlanStates == Active \cup {"none", "over"}
Results == {"staged", "working", "review", "over", "blocked"}

Steps == {"idle", "reading", "prepared", "listing", "quoting", "priced",
          "staging", "ticking", "stageSent", "tickSent", "staged", "ticked", "gone"}
Monitoring == {"listing", "quoting", "priced", "ticking", "tickSent", "ticked"}

TypeOK ==
  /\ proof \in [Plans -> Proofs]
  /\ fence \in BOOLEAN
  /\ broker \in [Plans -> PlanStates]
  /\ at \in [Threads -> Steps]
  /\ plan \in [Threads -> Plans \cup {None}]
  /\ result \in [Threads -> Results \cup {None}]
  /\ pass \in Threads \cup {None}
  /\ last \in [Plans -> Results \cup {None}]
  /\ stop \in BOOLEAN
  /\ close \in {"open", "joining", "confirmed", "unconfirmed"}
  /\ early \subseteq Threads

Init ==
  /\ proof \in [Plans -> Proofs]
  /\ fence = TRUE
  /\ broker = [p \in Plans |-> "none"]
  /\ at = [t \in Threads |-> "idle"]
  /\ plan = [t \in Threads |-> None] /\ result = [t \in Threads |-> None]
  /\ pass = None
  /\ last = [p \in Plans |-> None]
  /\ stop = FALSE /\ close = "open" /\ early = {}

--------------------------------------------------------------------------------
\* Around the bridge

\* The process loses the database (OwnerFence).
LoseFence ==
  /\ fence
  /\ fence' = FALSE
  /\ UNCHANGED <<proof, broker, threads, last, stop, close, early>>

\* The operator revokes a staged plan.
Revoke(p) ==
  /\ broker[p] = "staged"
  /\ broker' = [broker EXCEPT ![p] = "over"]
  /\ UNCHANGED <<proof, fence, threads, last, stop, close, early>>

--------------------------------------------------------------------------------
Goes(t, step) == at' = [at EXCEPT ![t] = step]
Control == UNCHANGED <<last, stop, close>>

\* A handoff is over; a pass also frees the lock.
Leave(t) ==
  /\ Goes(t, "idle")
  /\ plan' = [plan EXCEPT ![t] = None]
  /\ result' = [result EXCEPT ![t] = None]
  /\ early' = early \ {t}
  /\ pass' = IF pass = t THEN None ELSE pass

--------------------------------------------------------------------------------
\* handoff, by the cycle

Handoff(p) ==
  /\ at["cycle"] = "idle"
  /\ fence /\ ~stop
  /\ Goes("cycle", "reading")
  /\ plan' = [plan EXCEPT !["cycle"] = p]
  /\ UNCHANGED <<proof, fence, broker, result, pass, early>> /\ Control

\* Mutant: any approving audit of the cycle is taken for proof.
AnyApproval(p) == proof[p] \in {"own", "other"}

\* prepare_handoff: exactly one audit of this candidate, and in time.
Proven(p) == proof[p] = "own"

Prepare ==
  /\ at["cycle"] = "reading"
  /\ \/ /\ Proven(plan["cycle"])
        /\ Goes("cycle", "prepared") /\ UNCHANGED <<plan, result, pass, early>>
     \/ Leave("cycle")
  /\ UNCHANGED <<proof, fence, broker>> /\ Control

--------------------------------------------------------------------------------
\* monitor_once, by either thread

\* _monitor_lock is not waited for.
Begin(t) ==
  /\ at[t] = "idle" /\ pass = None
  /\ fence
  /\ t = "monitor" => ~stop
  /\ Goes(t, "listing")
  /\ pass' = t
  /\ UNCHANGED <<proof, fence, broker, plan, result, early>> /\ Control

\* call("active") answers with the one active plan or none, or raises; a plan in
\* manual review is recorded as blocked.
List(t) ==
  /\ at[t] = "listing"
  /\ \/ Leave(t)
     \/ \E p \in Plans :
          /\ broker[p] \in Active /\ ~stop
          /\ plan' = [plan EXCEPT ![t] = p]
          /\ IF broker[p] = "review"
               THEN Goes(t, "ticked") /\ result' = [result EXCEPT ![t] = "blocked"]
               ELSE Goes(t, "quoting") /\ UNCHANGED result
          /\ UNCHANGED <<pass, early>>
  /\ UNCHANGED <<proof, fence, broker>> /\ Control

\* The quote is there or is not: either way the fence and stop are looked at again.
Quote(t) ==
  /\ at[t] = "quoting"
  /\ IF fence /\ ~stop THEN Goes(t, "priced") /\ UNCHANGED <<plan, result, pass, early>>
                       ELSE Leave(t)
  /\ UNCHANGED <<proof, fence, broker>> /\ Control

--------------------------------------------------------------------------------
\* call("stage") and call("tick"): an autonomous_external_operation

Enter(t) ==
  /\ at[t] \in {"prepared", "priced"}
  /\ IF fence THEN /\ Goes(t, IF at[t] = "prepared" THEN "staging" ELSE "ticking")
                   /\ UNCHANGED <<plan, result, pass, early>>
              ELSE Leave(t)
  /\ UNCHANGED <<proof, fence, broker>> /\ Control

\* Mutant: stop was looked at before the gate, and is not again.
SeenBefore == TRUE

MayDispatch == ~stop

Dispatch(t) ==
  /\ at[t] \in {"staging", "ticking"}
  /\ IF MayDispatch
       THEN /\ Goes(t, IF at[t] = "staging" THEN "stageSent" ELSE "tickSent")
            /\ early' = IF stop THEN early ELSE early \cup {t}
            /\ UNCHANGED result
       ELSE /\ Goes(t, IF at[t] = "staging" THEN "staged" ELSE "ticked")
            /\ result' = [result EXCEPT ![t] = "blocked"]
            /\ UNCHANGED early
  /\ UNCHANGED <<proof, fence, broker, plan, pass>> /\ Control

\* The child stages the plan if the account has no active one; of a plan it has,
\* it tells the state.  What it refuses, and a child that was killed, is "blocked".
Stageable(p) == broker[p] = "none" /\ \A q \in Plans : broker[q] \notin Active

Staged ==
  /\ at["cycle"] = "stageSent"
  /\ LET p == plan["cycle"] IN
       \E done \in BOOLEAN, heard \in BOOLEAN :
         /\ done => Stageable(p)
         /\ broker' = IF done THEN [broker EXCEPT ![p] = "staged"] ELSE broker
         /\ result' = [result EXCEPT !["cycle"] =
                         IF heard /\ broker'[p] # "none" THEN broker'[p] ELSE "blocked"]
  /\ Goes("cycle", "staged")
  /\ UNCHANGED <<proof, fence, plan, pass, early>> /\ Control

\* What one tick may make of a plan.
Ticks(s) == CASE s = "staged" -> {"staged", "working", "review", "over"}
              [] s = "working" -> {"working", "review", "over"}
              [] OTHER -> {s}

Ticked(t) ==
  /\ at[t] = "tickSent"
  /\ \E s \in Ticks(broker[plan[t]]), heard \in BOOLEAN :
       /\ broker' = [broker EXCEPT ![plan[t]] = s]
       /\ result' = [result EXCEPT ![t] = IF heard THEN s ELSE "blocked"]
  /\ Goes(t, "ticked")
  /\ UNCHANGED <<proof, fence, plan, pass, early>> /\ Control

\* _record: a state that was recorded last is not recorded again; without the
\* database nothing is.
Record(t) ==
  /\ at[t] \in {"staged", "ticked"}
  /\ last' = IF fence THEN [last EXCEPT ![plan[t]] = result[t]] ELSE last
  /\ Leave(t)
  /\ UNCHANGED <<proof, fence, broker, stop, close>>

--------------------------------------------------------------------------------
\* close()

Stop ==
  /\ close = "open"
  /\ stop' = TRUE /\ close' = "joining"
  /\ UNCHANGED <<proof, fence, broker, threads, last, early>>

\* The bridge's thread sees stop between two passes.
ThreadEnds ==
  /\ at["monitor"] = "idle" /\ stop
  /\ Goes("monitor", "gone")
  /\ UNCHANGED <<proof, fence, broker, plan, result, pass, early>> /\ Control

\* join(timeout=55)
Joined ==
  /\ close = "joining"
  /\ close' \in (IF at["monitor"] = "gone" THEN {"confirmed"} ELSE {"unconfirmed"})
  /\ UNCHANGED <<proof, fence, broker, threads, last, stop, early>>

\* The process ends, at any point, and another begins.  A request that was out has
\* been done or not.
Restart ==
  /\ fence' = TRUE
  /\ at' = [t \in Threads |-> "idle"]
  /\ plan' = [t \in Threads |-> None] /\ result' = [t \in Threads |-> None]
  /\ pass' = None /\ early' = {}
  /\ last' = [p \in Plans |-> None]
  /\ stop' = FALSE /\ close' = "open"
  /\ UNCHANGED <<proof, broker>>

Next ==
  \/ \E p \in Plans : Revoke(p) \/ Handoff(p)
  \/ LoseFence
  \/ Prepare \/ Staged
  \/ \E t \in Threads :
       Begin(t) \/ List(t) \/ Quote(t) \/ Enter(t) \/ Dispatch(t) \/ Ticked(t) \/ Record(t)
  \/ Stop \/ ThreadEnds \/ Joined \/ Restart

Spec == Init /\ [][Next]_vars

--------------------------------------------------------------------------------
\* Properties

\* Whatever was handed over, refused, timed out or handed over again, the broker
\* has no plan but of an expression that one audit of its own approves.
StagedUnderAudit ==
  \A p \in Plans : broker[p] # "none" => proof[p] = "own"

\* One active plan, and one pass over it.
OnePass ==
  /\ \A p, q \in Plans : broker[p] \in Active /\ broker[q] \in Active => p = q
  /\ at["cycle"] \in Monitoring => at["monitor"] \notin Monitoring

\* A request is out after stop only if it was sent before, and once the shutdown
\* is confirmed it is not the monitor's.
QuietAfterStop ==
  \A t \in Threads :
    at[t] \in {"stageSent", "tickSent"} => t \in early /\ (close = "confirmed" => t = "cycle")

\* No record runs ahead of the broker: what is recorded as over is over, what is
\* recorded as staged or working was.
Reached(s) == CASE s = "over" -> {"over"}
                [] s = "review" -> {"review"}
                [] s = "working" -> {"working", "review", "over"}
                [] s = "staged" -> Active \cup {"over"}
                [] OTHER -> PlanStates
RecordsFollow == \A p \in Plans : last[p] # None => broker[p] \in Reached(last[p])

BridgeTruthful == StagedUnderAudit /\ OnePass /\ QuietAfterStop /\ RecordsFollow
================================================================================
