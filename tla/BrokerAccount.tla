------------------------------ MODULE BrokerAccount ------------------------------
(***************************************************************************)
(* One broker account of alta_brokers: BrokerEngine (engine.py), the plan  *)
(* lifecycle that drives it (lifecycle.py), the durable ledger and         *)
(* authority file (storage.py), and the broker venue they talk to.         *)
(*                                                                         *)
(* Every operation on an account runs in a child process that holds the    *)
(* route lock and the account's connection lock (kernel locks, released    *)
(* when the process dies), so at most one operation is in progress.  "op"  *)
(* is that operation: where it has got to and its local variables.  Each   *)
(* action is the code between two durable writes or broker calls; between  *)
(* any two of them the process may be killed or an error may be raised     *)
(* (Abandon), the venue may accept, fill, cancel or lose an order, and a   *)
(* deadline may pass.                                                      *)
(*                                                                         *)
(* Left out: prices and cash (the admission refusals they cause are the    *)
(* steps that do not happen), account binding and revision (they select    *)
(* the account), the audit receipt (verified or the step does not happen). *)
(***************************************************************************)
EXTENDS BrokerLedger

CONSTANT NoClient  \* "op" works on no particular order
ASSUME NoClientAssumption == NoClient \notin ClientIds

VARIABLES
  ledger,     \* the intents table
  authority,  \* mode in authority.json
  plans,      \* the broker_plans table
  venue,      \* the orders as the broker has them
  posts,      \* history: how often an order was sent to the broker
  revoked,    \* history: plans that were staged when authority was revoked
  lapsed,     \* intents whose expires_at has passed
  due,        \* plans whose exit_at has passed
  op          \* the operation in progress

durable == <<ledger, authority, plans>>
clock == <<lapsed, due>>
vars == <<ledger, authority, plans, venue, posts, revoked, lapsed, due, op>>

--------------------------------------------------------------------------------
\* States

\* lifecycle.tick returns at once for a plan in one of these.
TickDone == {"closed", "expired", "unfilled", "manual_review"}
\* Mutant: a plan left to manual review no longer occupies the account.
InactiveOrReviewed == {"closed", "expired", "unfilled", "manual_review"}

\* lifecycle.stage and research_rpc "active" ignore a plan in one of these.
Inactive == {"closed", "expired", "unfilled"}
PlanStates == TickDone \cup {"staged", "entry_working", "monitoring",
                             "exit_prepared", "exit_working"}

\* exit is the quantity of the frozen exit_request, 0 while the column is NULL.
PlanRows == [state : PlanStates \cup {"absent"}, exit : 0 .. Qty]

\* "none" was never sent; "wire" is sent and not yet seen by the broker;
\* "lost" will never reach it.
Accepted == Terminal \cup {"working"}
VenueOrders == [state : Accepted \cup {"none", "wire", "lost"}, filled : 0 .. Qty]

Results == [state : OrderStates, filled : 0 .. Qty]
NoResult == [state |-> "unknown", filled |-> 0]

OpSteps == {"idle", "expire_staged", "rows", "orders", "close", "submit", "post",
            "await", "detail", "lookup", "result", "cancel", "cancel_call", "exit"}

\* cur, res: the order worked on and the broker's latest word on it;
\* todo: rows that engine.reconcile has still to look up;
\* flat: the snapshot's positions were empty;
\* closing: engine.reconcile was called to declare a plan closed;
\* tried: this tick has already asked for a cancellation.
Ops == [step : OpSteps, cur : ClientIds \cup {NoClient}, todo : SUBSET ClientIds,
        flat : BOOLEAN, res : Results, closing : BOOLEAN, tried : BOOLEAN]

Idle == [step |-> "idle", cur |-> NoClient, todo |-> {}, flat |-> FALSE,
         res |-> NoResult, closing |-> FALSE, tried |-> FALSE]

At(step, c) == [Idle EXCEPT !.step = step, !.cur = c]

TypeOK ==
  /\ ledger \in [ClientIds -> Rows]
  /\ authority \in {"off", "entries", "close_only"}
  /\ plans \in [Plans -> PlanRows]
  /\ venue \in [ClientIds -> VenueOrders]
  /\ posts \in [ClientIds -> Nat]
  /\ revoked \subseteq Plans
  /\ lapsed \subseteq ClientIds
  /\ due \subseteq Plans
  /\ op \in Ops

Init ==
  /\ ledger = EmptyLedger
  /\ authority = "off"
  /\ plans = [p \in Plans |-> [state |-> "absent", exit |-> 0]]
  /\ venue = [c \in ClientIds |-> [state |-> "none", filled |-> 0]]
  /\ posts = [c \in ClientIds |-> 0]
  /\ revoked = {}
  /\ lapsed = {}
  /\ due = {}
  /\ op = Idle

--------------------------------------------------------------------------------
\* What the engine can observe at the broker

VenuePosition == NetPosition([c \in ClientIds |-> venue[c].filled])
OpenOrders == {c \in ClientIds : venue[c].state = "working"}

\* The answers adapter.lookup may give about an accepted order: its present
\* state, or (a provider's history lags) an earlier one, or a status the
\* adapter does not recognise.
View(c) ==
  {[state |-> venue[c].state, filled |-> venue[c].filled]}
    \cup [state : {"working", "unknown"}, filled : 0 .. venue[c].filled]

\* The quantity on an order's request.
Asked(c) == IF c[2] = "entry" THEN Qty ELSE plans[c[1]].exit

--------------------------------------------------------------------------------
\* The venue and the clock

VenueAccept(c) ==
  /\ venue[c].state = "wire"
  /\ \E s \in {"working", "rejected"} : venue' = [venue EXCEPT ![c].state = s]
  /\ UNCHANGED <<durable, posts, revoked, clock, op>>

VenueLose(c) ==
  /\ venue[c].state = "wire"
  /\ venue' = [venue EXCEPT ![c].state = "lost"]
  /\ UNCHANGED <<durable, posts, revoked, clock, op>>

VenueFill(c) ==
  /\ venue[c].state = "working"
  /\ venue' = [venue EXCEPT
       ![c] = [state |-> IF @.filled + 1 = Asked(c) THEN "filled" ELSE "working",
               filled |-> @.filled + 1]]
  /\ UNCHANGED <<durable, posts, revoked, clock, op>>

\* A DAY order ends with the session; the broker may also cancel it.
VenueCancel(c) ==
  /\ venue[c].state = "working"
  /\ venue' = [venue EXCEPT ![c].state = "cancelled"]
  /\ UNCHANGED <<durable, posts, revoked, clock, op>>

\* expires_at of an intent passes; an exit intent has one once it is frozen.
Lapse(c) ==
  /\ c \notin lapsed
  /\ plans[c[1]].state # "absent"
  /\ c[2] = "exit" => plans[c[1]].exit > 0
  /\ lapsed' = lapsed \cup {c}
  /\ UNCHANGED <<durable, venue, posts, revoked, due, op>>

\* exit_at passes, which a valid plan puts after the entry's expiry.
FallDue(p) ==
  /\ p \notin due
  /\ Entry(p) \in lapsed
  /\ due' = due \cup {p}
  /\ UNCHANGED <<durable, venue, posts, revoked, lapsed, op>>

Environment ==
  \/ \E c \in ClientIds :
       VenueAccept(c) \/ VenueLose(c) \/ VenueFill(c) \/ VenueCancel(c) \/ Lapse(c)
  \/ \E p \in Plans : FallDue(p)

--------------------------------------------------------------------------------
\* Operator controls

\* engine.authorize: the one way to "entries".
Authorize ==
  /\ op = Idle
  /\ VenuePosition = NoPosition
  /\ OpenOrders = {}
  /\ FlatAndSettled(ledger)
  /\ authority' = "entries"
  /\ UNCHANGED <<ledger, plans, venue, posts, revoked, clock, op>>

\* Mutant: the update forgets the NOT EXISTS.
StagedRegardless(p) == plans[p].state = "staged"

\* A plan no submitted intent belongs to yet.
StagedOnly(p) == plans[p].state = "staged" /\ ledger[Entry(p)].state = "absent"

\* engine.revoke, the write of authority.json.
RevokeAuthority ==
  /\ op = Idle
  /\ authority' = IF FlatAndSettled(ledger) THEN "off" ELSE "close_only"
  /\ revoked' = revoked \cup {p \in Plans : StagedOnly(p)}
  /\ op' = At("expire_staged", NoClient)
  /\ UNCHANGED <<ledger, plans, venue, posts, clock>>

\* engine.revoke, the update of broker_plans that follows it.
RevokeStaged ==
  /\ op.step = "expire_staged"
  /\ plans' = [p \in Plans |->
       IF StagedOnly(p) THEN [plans[p] EXCEPT !.state = "expired"] ELSE plans[p]]
  /\ op' = Idle
  /\ UNCHANGED <<ledger, authority, venue, posts, revoked, clock>>

--------------------------------------------------------------------------------
\* engine.reconcile, for the operator or before a plan is declared closed

StartReconcile(closing, c) ==
  op' = [At("rows", c) EXCEPT !.todo = UnsettledRows(ledger), !.closing = closing]

ReconcileAccount ==
  /\ op = Idle
  /\ StartReconcile(FALSE, NoClient)
  /\ UNCHANGED <<durable, venue, posts, revoked, clock>>

\* Mutant: whatever the broker answers is recorded.
AnyAnswer(c, v) == TRUE

\* A lookup's answer is believed unless it takes back recorded fills.
Credible(c, v) == ledger[c].known => v.filled >= ledger[c].filled

ReconcileRow(c) ==
  /\ op.step = "rows"
  /\ c \in op.todo
  /\ venue[c].state \in Accepted
  /\ \E v \in View(c) :
       /\ Credible(c, v)
       /\ ledger' = Record(ledger, c, v.state, v.filled)
  /\ op' = [op EXCEPT !.todo = @ \ {c}]
  /\ UNCHANGED <<authority, plans, venue, posts, revoked, clock>>

\* The order is not found, its lookup fails or it is not credible.
ReconcileRowFails(c) ==
  /\ op.step = "rows"
  /\ c \in op.todo
  /\ ledger' = MarkUnknown(ledger, c)
  /\ op' = Idle
  /\ UNCHANGED <<authority, plans, venue, posts, revoked, clock>>

\* Every adapter's snapshot reads the positions first; they must be what the
\* ledger accounts for (no other step of this operation changes the ledger).
ReadPositions ==
  /\ op.step = "rows"
  /\ op.todo = {}
  /\ VenuePosition = Book(ledger)
  /\ op' = [op EXCEPT !.step = "orders", !.flat = (VenuePosition = NoPosition)]
  /\ UNCHANGED <<durable, venue, posts, revoked, clock>>

\* It reads the open orders in a later request.
ReadOrders ==
  /\ op.step = "orders"
  /\ OpenOrders = {}
  /\ authority' = IF authority = "close_only" /\ op.flat THEN "off" ELSE authority
  /\ op' = IF op.closing THEN [op EXCEPT !.step = "close"] ELSE Idle
  /\ UNCHANGED <<ledger, plans, venue, posts, revoked, clock>>

--------------------------------------------------------------------------------
\* The plan lifecycle

\* Mutant: only a plan whose entry is working occupies the account.
NoEntryWorking == \A q \in Plans : plans[q].state \notin {"staged", "entry_working"}

NoActivePlan == \A q \in Plans : plans[q].state \in Inactive \cup {"absent"}

\* lifecycle.stage.  A repeated stage of the same plan changes nothing.
Stage(p) ==
  /\ op = Idle
  /\ plans[p].state = "absent"
  /\ authority = "entries"
  /\ Entry(p) \notin lapsed
  /\ ledger[Entry(p)].state = "absent"
  /\ NoActivePlan
  /\ plans' = [plans EXCEPT ![p].state = "staged"]
  /\ UNCHANGED <<ledger, authority, venue, posts, revoked, clock, op>>

Save(p, state) == plans' = [plans EXCEPT ![p].state = state]

\* lifecycle.tick begins; the mode it reads cannot change while it runs.
Ticking(p) == op = Idle /\ plans[p].state \notin TickDone \cup {"absent"}

\* Mutant: the entry's own deadline is not looked at.
EntryRevoked(p) == authority # "entries"

\* The entry may not be sent, or not be left working, any more.
EntryOver(p) == Entry(p) \in lapsed \/ authority # "entries"

TickExpire(p) ==
  /\ Ticking(p)
  /\ plans[p].exit = 0
  /\ ledger[Entry(p)].state = "absent"
  /\ EntryOver(p)
  /\ Save(p, "expired")
  /\ UNCHANGED <<ledger, authority, venue, posts, revoked, clock, op>>

TickSubmit(p) ==
  /\ Ticking(p)
  /\ plans[p].exit = 0
  /\ ledger[Entry(p)].state = "absent"
  /\ ~EntryOver(p)
  /\ op' = At("submit", Entry(p))
  /\ UNCHANGED <<durable, venue, posts, revoked, clock>>

TickReconcile(p) ==
  /\ Ticking(p)
  /\ plans[p].exit = 0
  /\ ledger[Entry(p)].state # "absent"
  /\ op' = At("lookup", Entry(p))
  /\ UNCHANGED <<durable, venue, posts, revoked, clock>>

TickExit(p) ==
  /\ Ticking(p)
  /\ plans[p].exit > 0
  /\ op' = At("exit", Exit(p))
  /\ UNCHANGED <<durable, venue, posts, revoked, clock>>

--------------------------------------------------------------------------------
\* engine.submit, for a client id without a row (the lifecycle looks first)

\* Mutant: sales need no authority.
SalesExempt(c) == authority = "entries" \/ c[2] = "exit"

MayTrade(c) ==
  \/ authority = "entries"
  \/ authority = "close_only" /\ c[2] = "exit"

\* Admission, up to and including the durable intent.  No row is unsettled, so
\* no order of this account moves between the snapshot's two requests.
Submit ==
  /\ op.step = "submit"
  /\ MayTrade(op.cur)
  /\ UnsettledRows(ledger) = {}
  /\ OpenOrders = {}
  /\ VenuePosition = Book(ledger)
  /\ op.cur \notin lapsed
  /\ op.cur[2] = "exit" =>
       VenuePosition[SymbolOf[op.cur[1]]] >= plans[op.cur[1]].exit
  /\ ledger' = Prepare(ledger, op.cur)
  /\ op' = [op EXCEPT !.step = "post"]
  /\ UNCHANGED <<authority, plans, venue, posts, revoked, clock>>

\* adapter.submit: dispatch_guard holds and the order goes out.
Post ==
  /\ op.step = "post"
  /\ op.cur \notin lapsed
  /\ venue' = [venue EXCEPT ![op.cur].state = "wire"]
  /\ posts' = [posts EXCEPT ![op.cur] = @ + 1]
  /\ op' = [op EXCEPT !.step = "await"]
  /\ UNCHANGED <<durable, revoked, clock>>

\* acknowledge: the broker's order id is durable before any later request.
Acknowledge ==
  /\ op.step = "await"
  /\ venue[op.cur].state \in Accepted
  /\ ledger' = Record(ledger, op.cur, "unknown", 0)
  /\ op' = [op EXCEPT !.step = "detail"]
  /\ UNCHANGED <<authority, plans, venue, posts, revoked, clock>>

\* The order's details arrive and are recorded.
Detail ==
  /\ op.step = "detail"
  /\ \E v \in View(op.cur) :
       /\ ledger' = Record(ledger, op.cur, v.state, v.filled)
       /\ op' = [op EXCEPT !.step = "result", !.res = v]
  /\ UNCHANGED <<authority, plans, venue, posts, revoked, clock>>

\* Whatever is raised after the durable intent (preflight or dispatch_guard
\* refuses, the request times out, the answer is not understood).
SubmissionUnconfirmed ==
  /\ op.step \in {"post", "await", "detail"}
  /\ ledger' = MarkUnknown(ledger, op.cur)
  /\ op' = Idle
  /\ UNCHANGED <<authority, plans, venue, posts, revoked, clock>>

--------------------------------------------------------------------------------
\* engine._reconcile of one order, and engine.cancel

\* A settled row is answered from the ledger.
LookupSettled ==
  /\ op.step = "lookup"
  /\ ledger[op.cur].state \in Terminal
  /\ op' = [op EXCEPT !.step = "result",
              !.res = [state |-> ledger[op.cur].state, filled |-> ledger[op.cur].filled]]
  /\ UNCHANGED <<durable, venue, posts, revoked, clock>>

Lookup ==
  /\ op.step = "lookup"
  /\ ledger[op.cur].state \in Unsettled
  /\ venue[op.cur].state \in Accepted
  /\ \E v \in View(op.cur) :
       /\ Credible(op.cur, v)
       /\ ledger' = Record(ledger, op.cur, v.state, v.filled)
       /\ op' = [op EXCEPT !.step = "result", !.res = v]
  /\ UNCHANGED <<authority, plans, venue, posts, revoked, clock>>

\* Mutant: asking for the cancellation is taken for the cancellation.
PresumeCancelled(led, c, v) == Record(led, c, "cancelled", v.filled)

CancellationPending(led, c, v) == Record(led, c, "unknown", v.filled)

\* engine.cancel looks the order up before it asks for the cancellation.
CancelLookup ==
  /\ op.step = "cancel"
  /\ venue[op.cur].state \in Accepted
  /\ \E v \in View(op.cur) :
       /\ Credible(op.cur, v)
       /\ IF v.state \in Terminal
            THEN /\ ledger' = Record(ledger, op.cur, v.state, v.filled)
                 /\ op' = [op EXCEPT !.step = "result", !.res = v, !.tried = TRUE]
            ELSE /\ ledger' = CancellationPending(ledger, op.cur, v)
                 /\ op' = [op EXCEPT !.step = "cancel_call"]
  /\ UNCHANGED <<authority, plans, venue, posts, revoked, clock>>

ReconciliationUnconfirmed ==
  /\ op.step \in {"lookup", "cancel"}
  /\ ledger[op.cur].state \in Unsettled
  /\ ledger' = MarkUnknown(ledger, op.cur)
  /\ op' = Idle
  /\ UNCHANGED <<authority, plans, venue, posts, revoked, clock>>

\* adapter.cancel returns: the order is cancelled, or is still pending or over.
CancelCall ==
  /\ op.step = "cancel_call"
  /\ \/ UNCHANGED venue
     \/ /\ venue[op.cur].state = "working"
        /\ venue' = [venue EXCEPT ![op.cur].state = "cancelled"]
  /\ op' = [op EXCEPT !.step = "lookup", !.tried = TRUE]
  /\ UNCHANGED <<durable, posts, revoked, clock>>

--------------------------------------------------------------------------------
\* lifecycle.tick, with the entry order's result in hand

EntryResult(p) == op.step = "result" /\ op.cur = Entry(p)

\* Mutant: a state the adapter cannot name is taken for an order that is over.
RestingKnown == op.res.state = "working"

Resting == op.res.state \notin Terminal

EntryCancel(p) ==
  /\ EntryResult(p)
  /\ Resting /\ ~op.tried
  /\ EntryOver(p)
  /\ op' = [op EXCEPT !.step = "cancel"]
  /\ UNCHANGED <<durable, venue, posts, revoked, clock>>

EntryWorking(p) ==
  /\ EntryResult(p)
  /\ Resting
  /\ op.tried \/ ~EntryOver(p)
  /\ Save(p, "entry_working")
  /\ op' = Idle
  /\ UNCHANGED <<ledger, authority, venue, posts, revoked, clock>>

EntryUnfilled(p) ==
  /\ EntryResult(p)
  /\ ~Resting
  /\ op.res.filled = 0
  /\ Save(p, "unfilled")
  /\ op' = Idle
  /\ UNCHANGED <<ledger, authority, venue, posts, revoked, clock>>

\* A quote is at hand and asks for nothing.
Monitor(p) ==
  /\ EntryResult(p)
  /\ ~Resting
  /\ op.res.filled > 0
  /\ authority = "entries" /\ p \notin due
  /\ Save(p, "monitoring")
  /\ op' = Idle
  /\ UNCHANGED <<ledger, authority, venue, posts, revoked, clock>>

ExitQuantity == op.res.filled

\* A quote is at hand and the position is to be sold: the authority is revoked,
\* exit_at has passed, or the price has reached the stop or the target.
FreezeExit(p) ==
  /\ EntryResult(p)
  /\ ~Resting
  /\ op.res.filled > 0
  /\ plans' = [plans EXCEPT ![p] = [state |-> "exit_prepared", exit |-> ExitQuantity]]
  /\ op' = At("exit", Exit(p))
  /\ UNCHANGED <<ledger, authority, venue, posts, revoked, clock>>

--------------------------------------------------------------------------------
\* lifecycle._exit

ExitStart(p) == op.step = "exit" /\ op.cur = Exit(p)

ExitGiveUp(p) ==
  /\ ExitStart(p)
  /\ ledger[Exit(p)].state = "absent"
  /\ Exit(p) \in lapsed
  /\ Save(p, "manual_review")
  /\ op' = Idle
  /\ UNCHANGED <<ledger, authority, venue, posts, revoked, clock>>

ExitSubmit(p) ==
  /\ ExitStart(p)
  /\ ledger[Exit(p)].state = "absent"
  /\ Exit(p) \notin lapsed
  /\ op' = [op EXCEPT !.step = "submit"]
  /\ UNCHANGED <<durable, venue, posts, revoked, clock>>

ExitReconcile(p) ==
  /\ ExitStart(p)
  /\ ledger[Exit(p)].state # "absent"
  /\ op' = [op EXCEPT !.step = "lookup"]
  /\ UNCHANGED <<durable, venue, posts, revoked, clock>>

ExitResult(p) == op.step = "result" /\ op.cur = Exit(p)

\* Broker positions must agree before the plan is declared closed.
ExitFilled(p) ==
  /\ ExitResult(p)
  /\ op.res.state = "filled"
  /\ StartReconcile(TRUE, Exit(p))
  /\ UNCHANGED <<durable, venue, posts, revoked, clock>>

ClosePlan(p) ==
  /\ op.step = "close" /\ op.cur = Exit(p)
  /\ FlatAndSettled(ledger)
  /\ Save(p, "closed")
  /\ op' = Idle
  /\ UNCHANGED <<ledger, authority, venue, posts, revoked, clock>>

ExitIncomplete(p) ==
  /\ ExitResult(p)
  /\ op.res.state \in {"cancelled", "rejected"}
  /\ Save(p, "manual_review")
  /\ op' = Idle
  /\ UNCHANGED <<ledger, authority, venue, posts, revoked, clock>>

ExitCancel(p) ==
  /\ ExitResult(p)
  /\ Resting /\ ~op.tried
  /\ Exit(p) \in lapsed
  /\ op' = [op EXCEPT !.step = "cancel"]
  /\ UNCHANGED <<durable, venue, posts, revoked, clock>>

ExitWorking(p) ==
  /\ ExitResult(p)
  /\ Resting
  /\ op.tried \/ Exit(p) \notin lapsed
  /\ Save(p, "exit_working")
  /\ op' = Idle
  /\ UNCHANGED <<ledger, authority, venue, posts, revoked, clock>>

--------------------------------------------------------------------------------
\* The process dies (killed after its time limit, power lost) or a refusal is
\* raised to the caller: the kernel locks go, only durable state remains.
Abandon ==
  /\ op # Idle
  /\ op' = Idle
  /\ UNCHANGED <<durable, venue, posts, revoked, clock>>

Operator ==
  \/ Authorize \/ RevokeAuthority \/ RevokeStaged
  \/ ReconcileAccount \/ ReadPositions \/ ReadOrders
  \/ \E c \in ClientIds : ReconcileRow(c) \/ ReconcileRowFails(c)

Engine ==
  \/ Submit \/ Post \/ Acknowledge \/ Detail \/ SubmissionUnconfirmed
  \/ LookupSettled \/ Lookup \/ CancelLookup \/ CancelCall
  \/ ReconciliationUnconfirmed

Lifecycle ==
  \E p \in Plans :
    \/ Stage(p) \/ TickExpire(p) \/ TickSubmit(p) \/ TickReconcile(p) \/ TickExit(p)
    \/ EntryCancel(p) \/ EntryWorking(p) \/ EntryUnfilled(p) \/ Monitor(p)
    \/ FreezeExit(p) \/ ExitGiveUp(p) \/ ExitSubmit(p) \/ ExitReconcile(p)
    \/ ExitFilled(p) \/ ClosePlan(p) \/ ExitIncomplete(p) \/ ExitCancel(p)
    \/ ExitWorking(p)

Next == Environment \/ Operator \/ Engine \/ Lifecycle \/ Abandon

Spec == Init /\ [][Next]_vars

--------------------------------------------------------------------------------
\* Safety

\* No order is ever sent twice, and none is sent before its intent is durable:
\* a killed process, an unconfirmed submission or a broker that cannot find the
\* order must never lead the next tick to a second POST (engine.submit).
OneDispatch ==
  \A c \in ClientIds :
    /\ posts[c] <= 1
    /\ posts[c] = 1 => ledger[c].state # "absent"

\* The ledger never claims a fill the broker does not have, and a settled row
\* is the broker's final word, although lookups lag, fail and are cut short.
LedgerTruthful ==
  \A c \in ClientIds :
    /\ ledger[c].filled <= venue[c].filled
    /\ ledger[c].state \in Terminal =>
         venue[c].state = ledger[c].state /\ venue[c].filled = ledger[c].filled

\* The account never sells what a plan did not buy: an exit is on the market
\* only after its entry is over, for the very number of shares it came to.
NeverShort ==
  \A p \in Plans :
    venue[Exit(p)].state # "none" =>
      /\ venue[Entry(p)].state \in Terminal
      /\ plans[p].exit = venue[Entry(p)].filled
      /\ venue[Exit(p)].filled <= venue[Entry(p)].filled

\* One position owner per account (lifecycle.stage): of all plans at most one
\* has, or may still come to have, an order or shares at the broker.
Exposed(p) ==
  \/ venue[Entry(p)].state \in {"wire", "working"}
  \/ venue[Exit(p)].state \in {"wire", "working"}
  \/ venue[Entry(p)].filled # venue[Exit(p)].filled

OneOwner == \A p, q \in Plans : Exposed(p) /\ Exposed(q) => p = q

\* A plan reported over is over at the broker: closed means sold out, unfilled
\* means nothing was bought, expired means nothing was ever sent.
OverMeansOver ==
  \A p \in Plans :
    /\ plans[p].state \in Inactive => ~Exposed(p)
    /\ plans[p].state = "closed" => venue[Exit(p)].filled = plans[p].exit
    /\ plans[p].state = "expired" => posts[Entry(p)] = 0

\* Recorded fills only grow, a settled row and a frozen exit are never
\* rewritten, and a plan that is over stays over, across kills and restarts.
HistoryKept ==
  [][/\ \A c \in ClientIds :
          /\ ledger'[c].filled >= ledger[c].filled
          /\ ledger[c].state \in Terminal => ledger'[c] = ledger[c]
     /\ \A p \in Plans :
          /\ plans[p].exit > 0 => plans'[p].exit = plans[p].exit
          /\ plans[p].state \in TickDone => plans'[p] = plans[p]]_vars

\* What goes out is covered by the operator's authority at that instant: a
\* purchase by "entries", a sale by anything but "off".
DispatchAuthorized ==
  [][\A p \in Plans :
       /\ posts'[Entry(p)] > posts[Entry(p)] => authority = "entries"
       /\ posts'[Exit(p)] > posts[Exit(p)] => authority # "off"]_vars

--------------------------------------------------------------------------------
\* What the source promises and its steps do not keep (see the README)

\* "A staged plan with no submitted intent must not come back to life if the
\* operator subsequently re-authorizes this same account." (engine.revoke)
RevokedStaysDead == \A p \in revoked : posts[Entry(p)] = 0

\* "Keep reconciliation and owned exits available until a fresh flat snapshot
\* proves closure." (engine.revoke)
ExitsUntilFlat == authority = "off" => VenuePosition = NoPosition

--------------------------------------------------------------------------------
\* Refinement and liveness

BuyOver(p) == venue[Entry(p)].state \in Terminal \cup {"lost"}

\* The market's view of a plan.
MarketPhase(p) ==
  CASE venue[Entry(p)].state = "none" -> "unsent"
    [] venue[Entry(p)].state # "none" /\ venue[Exit(p)].state # "none" -> "selling"
    [] venue[Entry(p)].state # "none" /\ venue[Exit(p)].state = "none" ->
         IF BuyOver(p) THEN "bought" ELSE "buying"

RT == INSTANCE RoundTrip WITH
  phase <- [p \in Plans |-> MarketPhase(p)],
  bought <- [p \in Plans |-> venue[Entry(p)].filled],
  sold <- [p \in Plans |-> venue[Exit(p)].filled]

\* The account implements the round-trip promise.
RoundTrips == RT!RoundTripSpec

\* A lookup that tells how the order stands now.
LookupCurrent ==
  Lookup /\ op'.res = [state |-> venue[op.cur].state, filled |-> venue[op.cur].filled]

\* The venue settles what it accepts, time passes, an operation's process is
\* killed after 45 seconds if it has not ended (BrokerProcess.request), and the
\* monitor's loop (BrokerBridge.start, every 15 seconds) does not for ever meet
\* a held lock, a missing quote, a lagging lookup or a kill at the same step.
Fairness ==
  /\ WF_vars(Abandon)
  /\ \A c \in ClientIds :
       /\ WF_vars(VenueAccept(c) \/ VenueLose(c))
       /\ WF_vars(VenueCancel(c) \/ VenueFill(c))
       /\ WF_vars(Lapse(c))
  /\ \A p \in Plans :
       /\ WF_vars(FallDue(p))
       /\ SF_vars(TickExpire(p) \/ TickReconcile(p) \/ TickExit(p))
       /\ SF_vars(EntryUnfilled(p) \/ FreezeExit(p))
       /\ SF_vars(ExitReconcile(p) \/ ExitGiveUp(p))
       /\ SF_vars(ExitFilled(p) \/ ExitIncomplete(p))
       /\ SF_vars(ClosePlan(p))
  /\ SF_vars(LookupSettled)
  /\ SF_vars(LookupCurrent)
  /\ SF_vars(ReadPositions)
  /\ SF_vars(ReadOrders)

LiveSpec == Spec /\ Fairness

\* An intent is durable and its order never reaches the broker; the engine
\* cannot tell this from an order it has not found yet and never sends again.
Orphaned(p) ==
  \E c \in {Entry(p), Exit(p)} :
    ledger[c].state # "absent" /\ venue[c].state \in {"none", "lost"}

\* Every staged plan is eventually over or handed to manual review, however its
\* ticks are interrupted; an orphaned intent is the only thing that blocks it.
PlanResolves ==
  \A p \in Plans :
    plans[p].state = "staged" ~> plans[p].state \in TickDone \/ Orphaned(p)
================================================================================
