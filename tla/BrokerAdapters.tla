------------------------------ MODULE BrokerAdapters ------------------------------
(***************************************************************************)
(* The six broker adapters of alta_brokers: how each sends an order, learns *)
(* the identity the broker gave it, finds it again after a restart, reads   *)
(* its status and cancels it.  The caller keeps to the adapter protocol as  *)
(* BrokerEngine does: an intent is durable before it is submitted, and is   *)
(* submitted once.  Whether an account may be armed at all is               *)
(* AccountReview's subject.                                                 *)
(*                                                                         *)
(* An account has one provider, and holds the operator's own orders beside  *)
(* those of our intents, alike in instrument, side, quantity and price.     *)
(* Whatever an adapter raises, and an order it does not find, have the same *)
(* effect on the caller: they are one action, possible during any call.     *)
(*                                                                         *)
(* What a broker's statuses mean, which orders its requests return and that *)
(* an order keeps its identity are the brokers' business (external).        *)
(***************************************************************************)
EXTENDS Naturals, FiniteSets

CONSTANTS
  Providers,  \* brokers the account may be at
  Clients,    \* client ids of our intents
  Manuals,    \* orders the operator places by hand
  NoOrder,    \* no client id, no order id
  Qty         \* shares of an order

AdapterAssumption ==
  /\ Providers \subseteq {"alpaca", "tiger", "ibkr", "longport", "futu", "schwab"}
  /\ Clients \cap Manuals = {} /\ NoOrder \notin Clients \cup Manuals
  /\ Qty \in Nat \ {0}

VARIABLES
  provider,  \* the account's broker
  order,     \* the orders of the account, as the broker has them
  row,       \* our intents, as the ledger has them
  call,      \* the adapter call in progress
  asked      \* history: orders whose cancellation was asked for

vars == <<provider, order, row, call, asked>>

\* The identity a broker issues for an order is the order.
Orders == Clients \cup Manuals

--------------------------------------------------------------------------------
\* Statuses by the state each adapter's order() reads them as; a status it does
\* not list is "unknown".  "live" stands for all statuses of an order at work.

AlpacaOrder ==
  [working |-> {"live"}, filled |-> {"filled"}, rejected |-> {"rejected"},
   cancelled |-> {"cancelled", "expired", "replaced"}]
TigerOrder ==
  [working |-> {"live"}, filled |-> {"filled"}, rejected |-> {"rejected", "inactive"},
   cancelled |-> {"cancelled", "expired"}]
IbkrOrder ==
  [working |-> {"live"}, filled |-> {"filled"}, rejected |-> {"inactive"},
   cancelled |-> {"cancelled"}]
\* At Longport an order that was replaced goes on under its own identity.
LongportOrder ==
  [working |-> {"live", "replaced"}, filled |-> {"filled"}, rejected |-> {"rejected"},
   cancelled |-> {"cancelled", "expired", "withdrawn"}]
FutuOrder ==
  [working |-> {"live"}, filled |-> {"filled"}, rejected |-> {"failed", "disabled"},
   cancelled |-> {"cancelled", "deleted"}]
SchwabOrder ==
  [working |-> {"live"}, filled |-> {"filled"}, rejected |-> {"rejected"},
   cancelled |-> {"cancelled", "expired", "replaced"}]

Reading ==
  [alpaca |-> AlpacaOrder, tiger |-> TigerOrder, ibkr |-> IbkrOrder,
   longport |-> LongportOrder, futu |-> FutuOrder, schwab |-> SchwabOrder][provider]

Terminal == {"filled", "cancelled", "rejected"}
States == Terminal \cup {"working", "unknown"}
StateOf(s) ==
  IF \E k \in DOMAIN Reading : s \in Reading[k]
    THEN CHOOSE k \in DOMAIN Reading : s \in Reading[k] ELSE "unknown"

--------------------------------------------------------------------------------
\* The account at the broker

\* How an order of this broker may end short of its quantity, and how one at
\* work may look: "odd" is a status the adapter does not know.
Ends == CASE provider = "ibkr" -> {"cancelled", "inactive"}
          [] provider = "futu" -> {"cancelled", "deleted", "failed", "disabled"}
          [] provider = "tiger" -> {"cancelled", "expired", "rejected", "inactive"}
          [] provider = "longport" -> {"cancelled", "expired", "withdrawn", "rejected"}
          [] OTHER -> {"cancelled", "expired", "replaced", "rejected"}
Looks == {"live", "odd"} \cup (IF provider = "longport" THEN {"replaced"} ELSE {})

\* "wire" is sent and not yet seen by the broker, "lost" will never reach it.
Accepted(o) == order[o].status \notin {"none", "wire", "lost"}
AtWork(o) == order[o].status = "live"
Over(o) == Accepted(o) /\ ~AtWork(o)

\* issued: the broker has given the order its identity (IB's permId comes late);
\* age: the session the order is of, and how long histories go back.
NotSent == [status |-> "none", filled |-> 0, issued |-> FALSE, age |-> "today"]
\* The operator's orders stand beside ours all the while.
Standing == [status |-> "live", filled |-> 0, issued |-> TRUE, age |-> "today"]

\* Our client id on an order; Schwab's orders carry none.
Mark(o) == IF o \in Clients /\ provider # "schwab" THEN o ELSE NoOrder

\* What a request may say of an order: how it ended, how it looks or looked at
\* work (listings lag), or that it filled with executions still missing.
Views(o) ==
  [status : {order[o].status} \ {"live"}, filled : {order[o].filled}]
    \cup [status : Looks, filled : 0 .. order[o].filled]
    \cup [status : {order[o].status} \cap {"filled"}, filled : 0 .. order[o].filled]

\* What an adapter reads in them.
Read(o) == {[state |-> StateOf(v.status), filled |-> v.filled] : v \in Views(o)}

\* Mutant: a fill is believed without the executions that prove it.
FillBelieved(o) == Read(o)

\* Order.validate_fill refuses the others.
Answers(o) == {a \in Read(o) : a.state = "filled" => a.filled = Qty}

--------------------------------------------------------------------------------
\* lookup(client_id, order_id): the order it may return

AlpacaLookup(c, id, o) == Mark(o) = c /\ (id # NoOrder => o = id)
TigerLookup(c, id, o) == Mark(o) = c /\ (id # NoOrder => o = id)

\* Open orders, and those completed in this session.
IbkrLookup(c, id, o) ==
  Mark(o) = c /\ (id # NoOrder => o = id) /\ (AtWork(o) \/ order[o].age = "today")

\* By identity, or among those of today and then of the last 89 days.
LongportLookup(c, id, o) ==
  Mark(o) = c /\ IF id # NoOrder THEN o = id ELSE order[o].age # "gone"
FutuLookup(c, id, o) ==
  Mark(o) = c /\ (id # NoOrder => o = id) /\ order[o].age # "gone"

\* Mutant: without an identity, an order that looks like ours is taken for it.
SchwabInfers(c, id, o) == id # NoOrder => o = id

\* Without an identity nothing is inferred from what an order looks like.
SchwabLookup(c, id, o) == id # NoOrder /\ o = id

Lookup(c, id, o) ==
  /\ Accepted(o) /\ order[o].issued
  /\ CASE provider = "alpaca" -> AlpacaLookup(c, id, o)
       [] provider = "tiger" -> TigerLookup(c, id, o)
       [] provider = "ibkr" -> IbkrLookup(c, id, o)
       [] provider = "longport" -> LongportLookup(c, id, o)
       [] provider = "futu" -> FutuLookup(c, id, o)
       [] OTHER -> SchwabLookup(c, id, o)

\* The client id on the Order lookup returns: Schwab's adapter puts the one it
\* was asked for.
MarkRead(c, o) == IF provider = "schwab" THEN c ELSE Mark(o)

--------------------------------------------------------------------------------
\* submit: the order whose status is its result, once the identity is durable

\* The answer to the request is the order.
AlpacaSubmit(c, o) == o = c
FutuSubmit(c, o) == o = c
\* The trade object, once it has its permId.
IbkrSubmit(c, o) == o = c
\* The order is read back by the identity the request returned.
TigerSubmit(c, o) == Lookup(c, c, o)
LongportSubmit(c, o) == Lookup(c, c, o)
SchwabSubmit(c, o) == Lookup(c, c, o)

Submitted(c, o) ==
  CASE provider = "alpaca" -> AlpacaSubmit(c, o)
    [] provider = "tiger" -> TigerSubmit(c, o)
    [] provider = "ibkr" -> IbkrSubmit(c, o)
    [] provider = "longport" -> LongportSubmit(c, o)
    [] provider = "futu" -> FutuSubmit(c, o)
    [] OTHER -> SchwabSubmit(c, o)

--------------------------------------------------------------------------------
\* cancel(order_id): the orders it may be asked for

\* IB cancels what this API client placed and is open.
IbkrCancel(o) == o \in Clients /\ AtWork(o)
\* The others pass the identity on.
PassedOn(o) == TRUE
Cancels(o) == IF provider = "ibkr" THEN IbkrCancel(o) ELSE PassedOn(o)

--------------------------------------------------------------------------------
Idle == [step |-> "idle", client |-> NoOrder, cancel |-> FALSE]
Rows == [state : States \cup {"absent", "prepared"}, id : Orders \cup {NoOrder}, filled : 0 .. Qty]
Statuses == {"none", "wire", "lost", "live", "replaced", "filled", "cancelled", "expired",
             "withdrawn", "deleted", "rejected", "inactive", "failed", "disabled"}

TypeOK ==
  /\ provider \in Providers
  /\ order \in [Orders -> [status : Statuses, filled : 0 .. Qty, issued : BOOLEAN,
                           age : {"today", "past", "gone"}]]
  /\ row \in [Clients -> Rows]
  /\ call \in [step : {"idle", "post", "sent", "detail", "lookup", "cancel"},
               client : Clients \cup {NoOrder}, cancel : BOOLEAN]
  /\ asked \subseteq Orders

Init ==
  /\ provider \in Providers
  /\ order = [o \in Orders |-> IF o \in Manuals THEN Standing ELSE NotSent]
  /\ row = [c \in Clients |-> [state |-> "absent", id |-> NoOrder, filled |-> 0]]
  /\ call = Idle
  /\ asked = {}

--------------------------------------------------------------------------------
\* The broker

Becomes(o, status) == order' = [order EXCEPT ![o].status = status]
Broker == UNCHANGED <<provider, row, call, asked>>

Accept(c) ==
  /\ order[c].status = "wire"
  /\ \E issued \in (IF provider = "ibkr" THEN BOOLEAN ELSE {TRUE}) :
       order' = [order EXCEPT ![c].status = "live", ![c].issued = issued]
  /\ Broker

Issue(c) ==
  /\ Accepted(c) /\ ~order[c].issued
  /\ order' = [order EXCEPT ![c].issued = TRUE]
  /\ Broker

Lose(c) == order[c].status = "wire" /\ Becomes(c, "lost") /\ Broker

Fill(c) ==
  /\ AtWork(c) /\ order[c].filled < Qty
  /\ order' = [order EXCEPT
       ![c].filled = @ + 1,
       ![c].status = IF order[c].filled + 1 = Qty THEN "filled" ELSE @]
  /\ Broker

End(c) == AtWork(c) /\ (\E s \in Ends : Becomes(c, s)) /\ Broker

\* An intent's order is for the day; the operator's may stay.
NextSession ==
  /\ call = Idle
  /\ \A c \in Clients : ~AtWork(c) /\ order[c].status # "wire"
  /\ order' = [o \in Orders |->
       IF Over(o) THEN [order[o] EXCEPT !.age = IF @ = "today" THEN "past" ELSE "gone"]
                  ELSE order[o]]
  /\ Broker

--------------------------------------------------------------------------------
\* The caller

At(step, c, cancel) == call' = [step |-> step, client |-> c, cancel |-> cancel]
Record(c, state, id, filled) == row' = [row EXCEPT ![c] = [state |-> state, id |-> id, filled |-> filled]]

\* engine.submit, up to the durable intent.
Prepare(c) ==
  /\ call = Idle /\ row[c].state = "absent"
  /\ \A d \in Clients : row[d].state \in Terminal \cup {"absent"}
  /\ Record(c, "prepared", NoOrder, 0)
  /\ At("post", c, FALSE)
  /\ UNCHANGED <<provider, order, asked>>

Post(c) ==
  /\ call.step = "post" /\ call.client = c
  /\ Becomes(c, "wire")
  /\ At("sent", c, FALSE)
  /\ UNCHANGED <<provider, row, asked>>

\* acknowledge_order: an identity the broker issued is durable before whatever
\* can still fail.
Acknowledge(c) ==
  /\ call.step = "sent" /\ call.client = c
  /\ Accepted(c) /\ order[c].issued
  /\ Record(c, "unknown", c, 0)
  /\ At("detail", c, FALSE)
  /\ UNCHANGED <<provider, order, asked>>

\* engine.submit compares the client id and the identity with its own.
Detail(c) ==
  /\ call.step = "detail" /\ call.client = c
  /\ \E o \in Orders :
       /\ Submitted(c, o)
       /\ MarkRead(c, o) = c /\ o = row[c].id
       /\ \E a \in Answers(o) : Record(c, a.state, o, a.filled)
  /\ call' = Idle
  /\ UNCHANGED <<provider, order, asked>>

\* The operator, or a tick, asks for an intent that is not settled.
Ask(c) ==
  /\ call = Idle /\ row[c].state \in {"prepared", "unknown", "working"}
  /\ \E cancel \in BOOLEAN : At("lookup", c, cancel)
  /\ UNCHANGED <<provider, order, row, asked>>

\* engine._reconcile: the order's client id and identity, and no fill is taken
\* back; engine.cancel goes on with one that is not over.
Find(c) ==
  /\ call.step = "lookup" /\ call.client = c
  /\ \E o \in Orders :
       /\ Lookup(c, row[c].id, o)
       /\ MarkRead(c, o) = c
       /\ \E a \in Answers(o) :
            /\ row[c].id # NoOrder => o = row[c].id /\ a.filled >= row[c].filled
            /\ IF call.cancel /\ a.state \notin Terminal
                 THEN Record(c, "unknown", o, a.filled) /\ At("cancel", c, FALSE)
                 ELSE Record(c, a.state, o, a.filled) /\ call' = Idle
  /\ UNCHANGED <<provider, order, asked>>

\* The broker ends the order, or not, before the answer.
Cancel(c) ==
  /\ call.step = "cancel" /\ call.client = c
  /\ Cancels(row[c].id)
  /\ asked' = asked \cup {row[c].id}
  /\ \/ UNCHANGED order
     \/ AtWork(row[c].id) /\ Becomes(row[c].id, "cancelled")
  /\ At("lookup", c, FALSE)
  /\ UNCHANGED <<provider, row>>

\* Raised, or not found.
Unconfirmed(c) ==
  /\ call.step # "idle" /\ call.client = c
  /\ row' = IF call.step = "cancel" THEN row ELSE [row EXCEPT ![c].state = "unknown"]
  /\ call' = Idle
  /\ UNCHANGED <<provider, order, asked>>

\* The child process dies.
Die == call # Idle /\ call' = Idle /\ UNCHANGED <<provider, order, row, asked>>

Next ==
  \/ NextSession
  \/ \E c \in Clients :
       \/ Accept(c) \/ Issue(c) \/ Lose(c) \/ Fill(c) \/ End(c)
       \/ Prepare(c) \/ Post(c) \/ Acknowledge(c) \/ Detail(c)
       \/ Ask(c) \/ Find(c) \/ Cancel(c) \/ Unconfirmed(c)
  \/ Die

Spec == Init /\ [][Next]_vars

--------------------------------------------------------------------------------
\* Properties

\* What the ledger knows an order by is that order: not one of the operator's
\* that looks like it, not the order of another intent.
OwnIdentity == \A c \in Clients : row[c].id \in {c, NoOrder}

\* An intent that is settled has an order that is over, at the fill it says; of
\* one that is not, no more is believed to be filled than was.
SettledTrue ==
  \A c \in Clients :
    /\ row[c].filled <= order[c].filled
    /\ row[c].state \in Terminal =>
         /\ row[c].id = c /\ Over(c)
         /\ row[c].state = StateOf(order[c].status) /\ row[c].filled = order[c].filled

\* Only our own orders are ever cancelled.
OwnCancelled == asked \subseteq Clients

AnswersTruthful == OwnIdentity /\ SettledTrue /\ OwnCancelled
================================================================================
