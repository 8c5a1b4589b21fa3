----------------------------- MODULE ShadowBook -----------------------------
(* The Shadow book: how a research cycle turns a ranked opportunity into an  *)
(* expression, admits it under the limits of the book, rotates an incumbent  *)
(* out for it and monitors what is open.  agentic_expression.py,             *)
(* agentic_position.py, portfolio_construction.py, portfolio_state.py,       *)
(* capital_allocation.py, b5_runtime.py, shadow.py and the last stages of    *)
(* mvp_orchestrator.py, without a broker or a Paper account behind them.     *)
(* One thread runs the cycles; it may fail or die between two transactions,  *)
(* and then the same cycle runs again from its monitoring on.  Prices and    *)
(* sizes are small numbers; what the models answer, how alphas compare and   *)
(* whether governance has tightened are choices.                             *)
EXTENDS Integers, Sequences, FiniteSets, FiniteSetsExt

CONSTANTS
  Opps,             \* opportunities, each with an underlying of its own
  Source,           \* the alpha source of each: a function on Opps
  MaxCycles,        \* bound: cycles that may rank something
  MaxFaults,        \* bound: attempts that fail or die, due exits without quote or fill
  MaxAttempts,      \* MAX_EXPRESSION_ATTEMPTS
  MaxOpen,          \* max_open_positions
  Prices, Sizes,    \* bounds: asks and quantities
  Cent,             \* what a cent is, in the unit of the asks
  GrossLimit, SourceLimit

BookAssumption ==
  /\ IsFiniteSet(Opps) /\ "unranked" \notin Opps /\ Source \in [Opps -> STRING]
  /\ {MaxCycles, MaxAttempts, MaxOpen, GrossLimit, SourceLimit} \subseteq Nat \ {0}
  /\ MaxFaults \in Nat
  /\ Prices \subseteq Nat \ {0} /\ Sizes \subseteq Nat \ {0} /\ Cent \in Nat \ {0}

VARIABLES
  \* durable: the ranked book of the cycle and the plans of its expressions (no
  \* later cycle reads them), expressions, positions
  ranked, expression, plan, position, cycle,
  \* volatile: where the attempt is, what it still has to watch, which
  \* opportunity it expresses, which position it closes and for whom
  step, todo, at, closing,
  \* history: the expression each incumbent was rotated out for; failed attempts
  rotatedFor, faults

durable == <<ranked, expression, plan, position, cycle>>
attempt == <<step, todo, at, closing>>
history == <<rotatedFor, faults>>
vars == <<durable, attempt, history>>

Cycles == 1..MaxCycles
Expr == Cycles \X Opps      \* the expression of an opportunity in a cycle
NoExpr == <<0, "none">>
Unranked == <<"unranked">>
NoPlan == [size |-> 0, ask |-> 0, credit |-> 0]
NoPosition == [status |-> "none", size |-> 0, entry |-> 0, ask |-> 0, due |-> FALSE]
Steps == {"start", "watch", "close", "rotate", "result", "express", "gate", "open", "complete"}

Init ==
  /\ ranked = Unranked /\ cycle = 1
  /\ expression = [e \in Expr |-> "none"] /\ plan = [o \in Opps |-> NoPlan]
  /\ position = [e \in Expr |-> NoPosition]
  /\ step = "start" /\ todo = {} /\ at = 1 /\ closing = NoExpr
  /\ rotatedFor = [e \in Expr |-> NoExpr] /\ faults = 0

-----------------------------------------------------------------------------
\* The book as portfolio_state reads it.

Open == {e \in Expr : position[e].status = "open"}
Full == Cardinality(Open) >= MaxOpen

\* A position weighs its entry or its last monitored ask, whichever is more.
Notional(e) ==
  position[e].size * (IF position[e].ask > position[e].entry THEN position[e].ask
                                                             ELSE position[e].entry)
Gross(E) == MapThenSumSet(LAMBDA e : Notional(e), E)
SameSource(e) == {f \in Open : Source[f[2]] = Source[e[2]]}

\* What a full book may count on getting back from the incumbent it replaces.
Credit == IF Full THEN Min({Notional(e) : e \in Open}) ELSE 0

Target(e) == plan[e[2]].size * plan[e[2]].ask

\* Entry limits, with what a prospective replacement is counted for.
BookLimits(e, prospective) ==
  /\ Cardinality(Open) < MaxOpen + (IF prospective THEN 1 ELSE 0)
  /\ Gross(Open) + Target(e) <= GrossLimit + (IF prospective THEN plan[e[2]].credit ELSE 0)
Concentration(e) == Gross(SameSource(e)) + Target(e) <= SourceLimit
\* Mutant: only the number of positions is looked at again.
CountedOnly(e, prospective) == Cardinality(Open) < MaxOpen + (IF prospective THEN 1 ELSE 0)
Revalidated(e, prospective) == BookLimits(e, prospective) /\ Concentration(e)

\* A full book gives a candidate only the place of an incumbent.
Allocation == CASE Cardinality(Open) < MaxOpen -> "admit"
                [] Cardinality(Open) = MaxOpen -> "rotate"
                [] OTHER -> "wait"

\* What the limits leave for a new position at this ask.
Affordable(e, size, ask) ==
  /\ Gross(Open) + size * ask <= GrossLimit + Credit
  /\ Gross(SameSource(e)) + size * ask <= SourceLimit

\* The plan freezes what it was made with.
Planned(size, ask) == [size |-> size, ask |-> ask, credit |-> Credit]

-----------------------------------------------------------------------------
\* Steps of the attempt.

Goes(s) == step' = s /\ todo' = {} /\ closing' = NoExpr
Current == <<cycle, ranked[at]>>
Advance ==
  IF at < Len(ranked) /\ at < MaxAttempts THEN at' = at + 1 /\ Goes("express")
                                          ELSE at' = at /\ Goes("complete")

\* The candidate is not entered: the cycle completes without it.
Refused == Goes("complete") /\ at' = at

\* The attempt ends and the cycle is run again.
Again == Goes("start") /\ at' = 1

\* Every attempt watches what is open first.
Start ==
  /\ step = "start"
  /\ step' = "watch" /\ todo' = Open /\ UNCHANGED <<at, closing>>
  /\ UNCHANGED <<durable, history>>

Fault == faults < MaxFaults /\ faults' = faults + 1

Unquoted(e) ==
  /\ step = "watch" /\ e \in todo
  /\ IF position[e].due THEN Fault ELSE UNCHANGED faults
  /\ todo' = todo \ {e}
  /\ UNCHANGED <<durable, step, at, closing, rotatedFor>>

Monitored(e, ask) == position' = [position EXCEPT ![e].ask = ask]

\* Mutant: a stale quote may defer an exit that is due without end.
HoldAlways(e, ask) ==
  /\ step = "watch" /\ e \in todo
  /\ Monitored(e, ask)
  /\ todo' = todo \ {e}
  /\ UNCHANGED <<ranked, expression, plan, cycle, step, at, closing, history>>
\* A stale quote defers an exit; so does a position that has no reason to go.
Hold(e, ask) ==
  /\ step = "watch" /\ e \in todo /\ ~position[e].due
  /\ Monitored(e, ask)
  /\ todo' = todo \ {e}
  /\ UNCHANGED <<ranked, expression, plan, cycle, step, at, closing, history>>

Exit(e, ask) ==
  /\ step = "watch" /\ e \in todo
  /\ Monitored(e, ask)
  /\ todo' = todo \ {e} /\ closing' = e /\ step' = "close"
  /\ UNCHANGED <<ranked, expression, plan, cycle, at, history>>

\* New evidence meets an invalidation condition.
ExitFalsified(e, ask) == ~position[e].due /\ Exit(e, ask)
\* Its time is up.
ExitDue(e, ask) == position[e].due /\ Exit(e, ask)

\* Without a usable forward quote nothing is closed: monitoring goes on, a
\* rotation is given up and with it the entry.
CloseUnfilled ==
  /\ step \in {"close", "rotate"} /\ Fault
  /\ IF step = "rotate" THEN Refused
                        ELSE step' = "watch" /\ closing' = NoExpr /\ UNCHANGED <<todo, at>>
  /\ UNCHANGED <<durable, rotatedFor>>

CloseFilled ==
  /\ step \in {"close", "rotate"}
  /\ position' = [position EXCEPT ![closing] = [NoPosition EXCEPT !.status = "closed"]]
  /\ expression' = [expression EXCEPT ![closing] = "closed"]
  /\ rotatedFor' = IF step = "rotate" THEN [rotatedFor EXCEPT ![closing] = Current] ELSE rotatedFor
  /\ step' = "result"
  /\ UNCHANGED <<ranked, plan, cycle, todo, at, closing, faults>>

\* The result of a closed position is a transaction of its own.
RecordResult ==
  /\ step = "result"
  /\ position' = [position EXCEPT ![closing].status = "measured"]
  /\ step' = IF rotatedFor[closing] = NoExpr THEN "watch" ELSE "open"
  /\ closing' = NoExpr
  /\ UNCHANGED <<ranked, expression, plan, cycle, todo, at, history>>

\* The ranking of a cycle is made once; a cycle past the bound ranks nothing.
Rank(b) ==
  /\ IF ranked = Unranked THEN cycle > MaxCycles => b = <<>> ELSE b = ranked
  /\ ranked' = b /\ at' = 1
  /\ Goes(IF b = <<>> THEN "complete" ELSE "express")
  /\ UNCHANGED <<expression, plan, position, cycle, history>>

\* What was persisted under the id of the expression is what it is: a Wait
\* passes on to the next opportunity, anything else is the one selected.
Existing ==
  /\ step = "express" /\ expression[Current] # "none"
  /\ IF expression[Current] = "wait" THEN Advance ELSE Goes("gate") /\ at' = at
  /\ UNCHANGED <<durable, history>>

\* The models, the market, the plan, the allocation or the audit say Wait.
PersistWait ==
  /\ step = "express" /\ expression[Current] = "none"
  /\ expression' = [expression EXCEPT ![Current] = "wait"]
  /\ Advance
  /\ UNCHANGED <<ranked, plan, position, cycle, history>>

\* An audited plan within what the book leaves, persisted with its verdict.
\* What the gates reject is persisted too, and a Wait is returned in its place.
Persist(size, ask, verdict) ==
  /\ step = "express" /\ expression[Current] = "none"
  /\ Allocation # "wait" /\ Affordable(Current, size, ask)
  /\ expression' = [expression EXCEPT ![Current] = verdict]
  /\ plan' = [plan EXCEPT ![Current[2]] = Planned(size, ask)]
  /\ IF verdict = "validated" THEN Goes("gate") /\ at' = at ELSE Advance
  /\ UNCHANGED <<ranked, position, cycle, history>>

-----------------------------------------------------------------------------
\* Admission.

\* A position that exists, open or closed, is the answer.
AlreadyOpened ==
  /\ step = "gate" /\ position[Current].status # "none"
  /\ Refused
  /\ UNCHANGED <<durable, history>>

\* Mutant: only the expression itself counts as a duplicate.
SameExpression == Current \in Open
Duplicate == \E e \in Open : e[2] = Current[2]
MayEnter == step = "gate" /\ position[Current].status = "none"

\* The candidates' contributors, its pillars, an exposure to the same
\* underlying, the allocation or the first revalidation of a rotation refuse.
RefuseEntry ==
  /\ MayEnter
  /\ Refused
  /\ UNCHANGED <<durable, history>>

\* Free capacity admits.
Admit ==
  /\ MayEnter /\ ~Duplicate /\ Allocation = "admit"
  /\ Goes("open") /\ at' = at
  /\ UNCHANGED <<durable, history>>

\* In a full book the candidate may take the place of an incumbent that clears
\* every hurdle.  The incumbent is monitored once more: if its own time is up,
\* that is the reason found and the rotation is off.
Rotate(e, ask) ==
  /\ MayEnter /\ ~Duplicate /\ Allocation = "rotate"
  /\ e \in Open /\ Revalidated(Current, TRUE)
  /\ Monitored(e, ask)
  /\ IF position[e].due THEN Refused
                        ELSE step' = "rotate" /\ closing' = e /\ UNCHANGED <<todo, at>>
  /\ UNCHANGED <<ranked, expression, plan, cycle, history>>

\* The limits no longer hold, governance has tightened, alpha has decayed, or
\* there is no quote at which the limit is marketable.
RefuseOpen ==
  /\ step = "open"
  /\ Refused
  /\ UNCHANGED <<durable, history>>

\* The frozen limit is the plan's ask, rounded up to the cent.
RoundedUp(price) == Cent * ((price + Cent - 1) \div Cent)
Limit(e) == RoundedUp(plan[e[2]].ask)

\* An entry is filled when the ask is at most its limit: at the ask with the modelled
\* slippage, and never above the limit.
Marketable(e, ask) == ask <= Limit(e)
Fills(e, ask) == ask..Limit(e)

OpenPosition(ask) ==
  /\ step = "open" /\ Revalidated(Current, FALSE) /\ Marketable(Current, ask)
  /\ expression[Current] = "validated"
  /\ \E price \in Fills(Current, ask) :
       position' = [position EXCEPT ![Current] =
         [status |-> "open", size |-> plan[Current[2]].size, entry |-> price, ask |-> 0, due |-> FALSE]]
  /\ expression' = [expression EXCEPT ![Current] = "active"]
  /\ Goes("complete") /\ at' = at
  /\ UNCHANGED <<ranked, plan, cycle, history>>

\* Only a validated expression is opened: the attempt fails on any other.
OpenRaises ==
  /\ step = "open" /\ Revalidated(Current, FALSE)
  /\ expression[Current] # "validated"
  /\ Again
  /\ UNCHANGED <<durable, history>>

-----------------------------------------------------------------------------
Last == MaxCycles + 1    \* bound: stands for every later cycle
NextCycle ==
  /\ cycle' = (IF cycle < Last THEN cycle + 1 ELSE Last)
  /\ ranked' = Unranked /\ plan' = [o \in Opps |-> NoPlan] /\ Again
  /\ UNCHANGED <<expression, position, history>>

Complete == step = "complete" /\ NextCycle

\* Recovery gives up a cycle that has not completed.
GiveUp == step = "start" /\ cycle < Last /\ NextCycle

\* The attempt fails or the process dies.
Fail ==
  /\ step # "start" /\ Fault
  /\ Again
  /\ UNCHANGED <<durable, rotatedFor>>

TimePasses(e) ==
  /\ e \in Open /\ ~position[e].due
  /\ position' = [position EXCEPT ![e].due = TRUE]
  /\ UNCHANGED <<ranked, expression, plan, cycle, attempt, history>>

Books == {b \in UNION {[1..n -> Opps] : n \in 0..Cardinality(Opps)} :
            \A i, j \in DOMAIN b : i # j => b[i] # b[j]}
Watch == step = "watch" /\ \E e \in todo : Unquoted(e) \/ \E ask \in Prices : Hold(e, ask) \/ ExitFalsified(e, ask) \/ ExitDue(e, ask)
Express ==
  \/ Existing \/ PersistWait
  \/ \E size \in Sizes, ask \in Prices, v \in {"validated", "rejected"} : Persist(size, ask, v)
Gate == AlreadyOpened \/ RefuseEntry \/ Admit \/ \E e \in Open, ask \in Prices : Rotate(e, ask)
Enter == RefuseOpen \/ OpenRaises \/ \E ask \in Prices : OpenPosition(ask)
Proceed ==
  \/ Start \/ Watch \/ CloseUnfilled \/ CloseFilled \/ RecordResult
  \/ step = "watch" /\ todo = {} /\ \E b \in Books : Rank(b)
  \/ Express \/ Gate \/ Enter \/ Complete

Next == Proceed \/ GiveUp \/ Fail \/ \E e \in Open : TimePasses(e)

\* The thread goes on, and the next cycle comes.
Fairness == WF_vars(Proceed)
Spec == Init /\ [][Next]_vars /\ Fairness

-----------------------------------------------------------------------------
\* At most MaxOpen positions, each of a validated expression, no two on one
\* underlying and no two of one cycle, however often it ran; an expression is
\* active or closed as its position is; and no candidate costs two incumbents.
BookTruthful ==
  /\ Cardinality(Open) <= MaxOpen
  /\ \A e, f \in Open : e[2] = f[2] => e = f
  /\ \A e, f \in Expr : position[e].status # "none" /\ position[f].status # "none" /\ e[1] = f[1] => e = f
  /\ \A e \in Expr :
       /\ (expression[e] = "active") = (position[e].status = "open")
       /\ (expression[e] = "closed") = (position[e].status \in {"closed", "measured"})
  /\ \A e, f \in Expr : rotatedFor[e] = rotatedFor[f] /\ rotatedFor[e] # NoExpr => e = f

\* What the rounding of its limit lets an entry cost more than was planned for.
Rounding(e) == plan[e[2]].size * (Limit(e) - plan[e[2]].ask)
Entered(e) == position[e].status = "none" /\ position'[e].status = "open"

\* Whatever happened to the book since its plan was made, an entry leaves it within
\* the limits at the marks of that moment, but for the rounding of its limit, which is
\* less than a cent for each share.
EntersWithinLimits ==
  \A e \in Expr : Entered(e) =>
    /\ Limit(e) < plan[e[2]].ask + Cent
    /\ Gross(Open)' <= GrossLimit + Rounding(e)
    /\ Gross(SameSource(e))' <= SourceLimit + Rounding(e)
EntryWithinLimits == [][EntersWithinLimits]_vars

\* docs/operations/autonomous-shadow.md:535: the aggregate gross is bounded by a
\* fraction of the NAV.  Not exactly, when an ask has parts of a cent.
EntersExactly ==
  [][\A e \in Expr : Entered(e) =>
       Gross(Open)' <= GrossLimit /\ Gross(SameSource(e))' <= SourceLimit]_vars

\* A position past its time exit is closed sooner or later.
Overdue(e) == position[e].status = "open" /\ position[e].due
OverdueClosed == \A e \in Expr : Overdue(e) ~> ~Overdue(e)

\* An incumbent is given up only for an expression that passed its gates.
RotatedForValidated ==
  \A e \in Expr : rotatedFor[e] # NoExpr => expression[rotatedFor[e]] # "rejected"
=============================================================================
