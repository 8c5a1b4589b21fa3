--------------------------- MODULE BrokerAccountProofs ---------------------------
(***************************************************************************)
(* Proofs about BrokerAccount, for every set of plans, every assignment of *)
(* instruments and every entry quantity.  The inductive invariant is       *)
(* TypeOK, DataInv (how ledger, plans and venue agree at all times) and    *)
(* OpInv (what the operation in progress may rely on).                     *)
(***************************************************************************)
EXTENDS BrokerAccount, TLAPS

Active(p) == plans[p].state \notin Inactive \cup {"absent"}

\* Sent exactly once, with a durable intent, and filled within its request.
VenueInv ==
  \A c \in ClientIds :
    /\ posts[c] = IF venue[c].state = "none" THEN 0 ELSE 1
    /\ venue[c].state # "none" => ledger[c].state # "absent"
    /\ venue[c].state \in {"none", "wire", "lost", "rejected"} => venue[c].filled = 0
    /\ venue[c].state = "working" => venue[c].filled < Asked(c)
    /\ venue[c].state = "filled" => venue[c].filled = Asked(c)
    /\ venue[c].filled <= Asked(c)

\* Rows without evidence record no fill.
RowInv ==
  \A c \in ClientIds :
    /\ ~ledger[c].known => ledger[c].filled = 0
    /\ ledger[c].state \in Terminal => ledger[c].known
    /\ ledger[c].state \in {"prepared", "absent"} => ~ledger[c].known

\* An exit is frozen from a settled entry, and sent only when frozen.
ExitInv ==
  \A p \in Plans :
    /\ plans[p].exit > 0 =>
         /\ ledger[Entry(p)].state \in Terminal
         /\ ledger[Entry(p)].filled = plans[p].exit
    /\ plans[p].exit = 0 => ledger[Exit(p)].state = "absent"

\* What an inactive plan leaves in the ledger; one plan is active at most.
PlanInv ==
  /\ \A p \in Plans :
       /\ plans[p].state \in {"absent", "expired"} =>
            ledger[Entry(p)].state = "absent" /\ plans[p].exit = 0
       /\ plans[p].state = "unfilled" =>
            /\ ledger[Entry(p)].state \in Terminal
            /\ ledger[Entry(p)].filled = 0
            /\ plans[p].exit = 0
       /\ plans[p].state = "closed" =>
            plans[p].exit > 0 /\ ledger[Exit(p)].state = "filled"
  /\ \A p, q \in Plans : Active(p) /\ Active(q) => p = q

DataInv == VenueInv /\ LedgerTruthful /\ RowInv /\ ExitInv /\ PlanInv

TickSteps == {"submit", "post", "await", "detail", "lookup", "result", "cancel",
              "cancel_call", "exit", "close"}
Busy == op.step \in TickSteps \/ op.closing

OpInv ==
  /\ Busy =>
       /\ op.cur \in ClientIds
       /\ \A p \in Plans :
            /\ op.cur = Entry(p) => plans[p].state \notin TickDone \cup {"absent"}
            /\ op.cur = Entry(p) => plans[p].exit = 0
            /\ op.cur = Exit(p) => plans[p].state \notin TickDone \cup {"absent"}
            /\ op.cur = Exit(p) => plans[p].exit > 0
  /\ op.step = "submit" => ledger[op.cur].state = "absent"
  /\ op.step = "post" =>
       /\ ledger[op.cur].state = "prepared"
       /\ venue[op.cur].state = "none"
       /\ MayTrade(op.cur)
  /\ op.step = "await" => ledger[op.cur].state = "prepared"
  /\ op.step = "detail" =>
       /\ ledger[op.cur].state = "unknown"
       /\ ledger[op.cur].filled = 0
       /\ venue[op.cur].state \in Accepted
  /\ op.step = "lookup" => ledger[op.cur].state # "absent"
  /\ op.step \in {"cancel", "cancel_call"} => ledger[op.cur].state \in Unsettled
  /\ op.step = "result" =>
       /\ ledger[op.cur].state = op.res.state
       /\ ledger[op.cur].filled = op.res.filled
  /\ op.step = "rows" => \A c \in op.todo : ledger[c].state \in Unsettled
  /\ op.step = "exit" => \E p \in Plans : op.cur = Exit(p)
  /\ op.step = "close" => op.closing
  /\ op.closing =>
       /\ op.step \in {"rows", "orders", "close"}
       /\ ledger[op.cur].state = "filled"
       /\ \E p \in Plans : op.cur = Exit(p)

IInv == TypeOK /\ DataInv /\ OpInv

--------------------------------------------------------------------------------
\* Entry and exit client ids are distinct and there are no others, so that the
\* proofs below need not look into the pairs.
LEMMA IdFacts ==
  /\ \A p \in Plans : Entry(p) \in ClientIds /\ Exit(p) \in ClientIds
  /\ \A p, q \in Plans : Entry(p) # Exit(q)
  /\ \A p, q \in Plans : Entry(p) = Entry(q) \/ Exit(p) = Exit(q) => p = q
  /\ \A c \in ClientIds : \E p \in Plans : c = Entry(p) \/ c = Exit(p)
  /\ \A p \in Plans : Entry(p)[2] = "entry" /\ Exit(p)[2] = "exit"
  /\ \A p \in Plans : Entry(p)[1] = p /\ Exit(p)[1] = p
  /\ \A p \in Plans : Asked(Entry(p)) = Qty /\ Asked(Exit(p)) = plans[p].exit
BY DEF ClientIds, Entry, Exit, Asked

\* Everything holds at the start.
LEMMA InitIInv == Init => IInv
<1>. SUFFICES ASSUME Init PROVE IInv
  OBVIOUS
<1>. USE QtyAssumption, IdFacts DEF Init
<1>1. TypeOK
  BY DEF TypeOK, EmptyLedger, Absent, Rows, PlanRows, VenueOrders, Idle, Ops, OpSteps,
         NoResult, Results, OrderStates
<1>2. DataInv
  <2>1. \A c \in ClientIds : 0 <= Asked(c)
    BY DEF Asked, ClientIds
  <2>2. VenueInv /\ LedgerTruthful /\ RowInv
    BY <2>1 DEF VenueInv, LedgerTruthful, RowInv, EmptyLedger, Absent, Terminal
  <2>3. ExitInv /\ PlanInv
    BY DEF ExitInv, PlanInv, Active, EmptyLedger, Absent, Inactive
  <2>. QED
    BY <2>2, <2>3 DEF DataInv
<1>3. OpInv
  BY DEF OpInv, Idle, Busy, TickSteps
<1>. QED
  BY <1>1, <1>2, <1>3 DEF IInv

--------------------------------------------------------------------------------
\* DataInv across each kind of change the actions make

data == <<ledger, plans, venue, posts>>

LEMMA DataStable == DataInv /\ UNCHANGED data => DataInv'
BY DEF data, DataInv, VenueInv, LedgerTruthful, RowInv, ExitInv, PlanInv, Active, Asked

\* A row still unsettled is rewritten from what the venue said.
LEMMA RowStep ==
  ASSUME TypeOK, DataInv,
         NEW c \in ClientIds, NEW r \in Rows,
         ledger[c].state \in Unsettled,
         r.state \notin {"absent", "prepared"},
         r.filled <= venue[c].filled,
         ~r.known => r.filled = 0,
         r.state \in Terminal =>
           r.known /\ venue[c].state = r.state /\ venue[c].filled = r.filled,
         ledger' = [ledger EXCEPT ![c] = r],
         UNCHANGED <<plans, venue, posts>>
  PROVE  DataInv'
<1>1. /\ \A d \in ClientIds \ {c} : ledger'[d] = ledger[d]
      /\ ledger'[c] = r
      /\ UNCHANGED <<plans, venue, posts>>
      /\ \A d \in ClientIds : ledger'[d].state # "absent" <=> ledger[d].state # "absent"
  BY DEF TypeOK, Unsettled
<1>2. VenueInv'
  BY <1>1 DEF DataInv, VenueInv, Asked
<1>3. LedgerTruthful' /\ RowInv'
  BY <1>1 DEF DataInv, LedgerTruthful, RowInv
<1>4. \A p \in Plans :
        /\ ledger[Entry(p)].state \in Terminal => ledger'[Entry(p)] = ledger[Entry(p)]
        /\ ledger[Exit(p)].state \in Terminal => ledger'[Exit(p)] = ledger[Exit(p)]
  BY <1>1, IdFacts DEF Terminal, Unsettled
<1>5. ExitInv'
  BY <1>1, <1>4, IdFacts DEF DataInv, ExitInv
<1>6. PlanInv'
  BY <1>1, <1>4, IdFacts DEF DataInv, PlanInv, Active, Terminal
<1>. QED
  BY <1>2, <1>3, <1>5, <1>6 DEF DataInv

\* The venue moves on with an order that is not over.
LEMMA VenueStep ==
  ASSUME TypeOK, DataInv,
         NEW c \in ClientIds, NEW v \in VenueOrders,
         venue[c].state \in {"wire", "working"},
         v.state \in Accepted \cup {"lost"},
         v.state \in {"lost", "rejected"} => v.filled = 0,
         v.state = "working" => v.filled < Asked(c),
         v.state = "filled" => v.filled = Asked(c),
         venue[c].filled <= v.filled, v.filled <= Asked(c),
         venue' = [venue EXCEPT ![c] = v],
         UNCHANGED <<ledger, plans, posts>>
  PROVE  DataInv'
<1>1. /\ \A d \in ClientIds \ {c} : venue'[d] = venue[d]
      /\ venue'[c] = v
      /\ UNCHANGED <<ledger, plans, posts>>
      /\ \A d \in ClientIds : venue'[d].state # "none" <=> venue[d].state # "none"
  BY DEF TypeOK, Accepted, Terminal
<1>2. VenueInv'
  BY <1>1 DEF DataInv, VenueInv, Asked, Accepted, Terminal
<1>3. LedgerTruthful'
  <2>1. ledger[c].state \notin Terminal
    BY DEF DataInv, LedgerTruthful, Terminal
  <2>2. ledger[c].filled <= v.filled
    BY DEF DataInv, LedgerTruthful, TypeOK, Rows, VenueOrders
  <2>. QED
    BY <1>1, <2>1, <2>2 DEF DataInv, LedgerTruthful
<1>4. RowInv' /\ ExitInv' /\ PlanInv'
  BY <1>1 DEF DataInv, RowInv, ExitInv, PlanInv, Active
<1>. QED
  BY <1>2, <1>3, <1>4 DEF DataInv

\* The active plan takes a new state; the exit is not touched.
LEMMA PlanStep ==
  ASSUME TypeOK, DataInv,
         NEW p \in Plans, NEW s \in PlanStates,
         Active(p),
         s = "expired" => ledger[Entry(p)].state = "absent" /\ plans[p].exit = 0,
         s = "unfilled" => /\ ledger[Entry(p)].state \in Terminal
                           /\ ledger[Entry(p)].filled = 0
                           /\ plans[p].exit = 0,
         s = "closed" => plans[p].exit > 0 /\ ledger[Exit(p)].state = "filled",
         Save(p, s),
         UNCHANGED <<ledger, venue, posts>>
  PROVE  DataInv'
<1>1. /\ \A q \in Plans \ {p} : plans'[q] = plans[q]
      /\ plans'[p].state = s
      /\ \A q \in Plans : plans'[q].exit = plans[q].exit
      /\ UNCHANGED <<ledger, venue, posts>>
  BY DEF TypeOK, PlanRows, Save
<1>2. \A c \in ClientIds : Asked(c)' = Asked(c)
  BY <1>1, IdFacts DEF Asked, ClientIds
<1>3. VenueInv' /\ LedgerTruthful' /\ RowInv'
  BY <1>1, <1>2 DEF DataInv, VenueInv, LedgerTruthful, RowInv
<1>4. ExitInv'
  BY <1>1 DEF DataInv, ExitInv
<1>5. PlanInv'
  BY <1>1 DEF DataInv, PlanInv, Active, PlanStates, TickDone, Inactive
<1>. QED
  BY <1>3, <1>4, <1>5 DEF DataInv

--------------------------------------------------------------------------------
\* Facts about the operation record and about what a lookup may answer

LEMMA IdleFacts ==
  /\ Idle \in Ops
  /\ Idle.step = "idle" /\ ~Idle.closing
  /\ \A step \in OpSteps, c \in ClientIds \cup {NoClient} :
       /\ At(step, c) \in Ops
       /\ At(step, c).step = step /\ At(step, c).cur = c /\ ~At(step, c).closing
<1>1. NoResult \in Results
  BY QtyAssumption DEF NoResult, Results, OrderStates
<1>2. Idle \in Ops /\ Idle.step = "idle" /\ ~Idle.closing
  BY <1>1 DEF Idle, Ops, OpSteps
<1>3. ASSUME NEW step \in OpSteps, NEW c \in ClientIds \cup {NoClient}
      PROVE  /\ At(step, c) \in Ops
             /\ At(step, c).step = step /\ At(step, c).cur = c /\ ~At(step, c).closing
  BY <1>1 DEF At, Idle, Ops
<1>. QED
  BY <1>2, <1>3

\* An operation that has ended leaves nothing for OpInv to say.
LEMMA IdleOpInv == op' = Idle => OpInv'
BY IdleFacts DEF OpInv, Busy, TickSteps

LEMMA ViewFacts ==
  ASSUME TypeOK, NEW c \in ClientIds, venue[c].state \in Accepted, NEW v \in View(c)
  PROVE  /\ v \in Results
         /\ v.filled \in Nat /\ v.filled <= venue[c].filled
         /\ v.state \in OrderStates /\ v.state \notin {"absent", "prepared"}
         /\ v.state \in Terminal =>
              v.state = venue[c].state /\ v.filled = venue[c].filled
<1>1. venue[c].filled \in 0 .. Qty
  BY DEF TypeOK, VenueOrders
<1>2. CASE v = [state |-> venue[c].state, filled |-> venue[c].filled]
  BY <1>1, <1>2, QtyAssumption DEF Results, OrderStates, Accepted, Terminal
<1>3. CASE v \in [state : {"working", "unknown"}, filled : 0 .. venue[c].filled]
  BY <1>1, <1>3, QtyAssumption DEF Results, OrderStates, Terminal
<1>. QED
  BY <1>2, <1>3 DEF View

\* The three ways the engine writes an unsettled row keep TypeOK's and
\* DataInv's share in it.
LEMMA RecordStep ==
  ASSUME TypeOK, DataInv,
         NEW c \in ClientIds, ledger[c].state \in Unsettled,
         NEW state \in OrderStates, NEW filled \in 0 .. Qty,
         filled <= venue[c].filled,
         state \in Terminal => venue[c].state = state /\ venue[c].filled = filled,
         ledger' = Record(ledger, c, state, filled),
         UNCHANGED <<plans, venue, posts>>
  PROVE  /\ ledger' \in [ClientIds -> Rows] /\ DataInv'
         /\ ledger'[c].state = state /\ ledger'[c].filled = filled
         /\ \A d \in ClientIds \ {c} : ledger'[d] = ledger[d]
<1>. DEFINE r == [state |-> state, known |-> TRUE, filled |-> filled]
<1>1. r \in Rows /\ r.state = state /\ r.known /\ r.filled = filled
  BY DEF Rows, OrderStates, Terminal, Unsettled
<1>2. ledger' = [ledger EXCEPT ![c] = r]
  BY DEF Record
<1>3. state \notin {"absent", "prepared"}
  BY DEF OrderStates, Terminal
<1>4. DataInv'
  <2>. HIDE DEF r
  <2>. QED
    BY <1>1, <1>2, <1>3, RowStep
<1>. QED
  BY <1>1, <1>2, <1>4 DEF TypeOK

LEMMA MarkStep ==
  ASSUME TypeOK, DataInv,
         NEW c \in ClientIds, ledger[c].state \in Unsettled,
         ledger' = MarkUnknown(ledger, c),
         UNCHANGED <<plans, venue, posts>>
  PROVE  ledger' \in [ClientIds -> Rows] /\ DataInv'
<1>. DEFINE r == [ledger[c] EXCEPT !.state = "unknown"]
<1>1. /\ r \in Rows /\ r.state = "unknown"
      /\ r.filled = ledger[c].filled /\ r.known = ledger[c].known
  BY DEF TypeOK, Rows, Unsettled
<1>2. ledger' = [ledger EXCEPT ![c] = r]
  BY DEF MarkUnknown
<1>3. r.filled <= venue[c].filled /\ (~r.known => r.filled = 0)
  BY <1>1 DEF DataInv, LedgerTruthful, RowInv
<1>4. DataInv'
  <2>. HIDE DEF r
  <2>. QED
    BY <1>1, <1>2, <1>3, RowStep DEF Terminal
<1>. QED
  BY <1>1, <1>2, <1>4 DEF TypeOK

\* A row is inserted for an order that may be sent now.
LEMMA PrepareStep ==
  ASSUME TypeOK, DataInv,
         NEW c \in ClientIds, ledger[c].state = "absent",
         \A p \in Plans :
           /\ c = Entry(p) => plans[p].state \notin {"absent", "expired"}
           /\ c = Exit(p) => plans[p].exit > 0,
         ledger' = Prepare(ledger, c),
         UNCHANGED <<plans, venue, posts>>
  PROVE  /\ ledger' \in [ClientIds -> Rows] /\ DataInv'
         /\ ledger'[c].state = "prepared"
<1>. DEFINE r == [state |-> "prepared", known |-> FALSE, filled |-> 0]
<1>1. /\ \A d \in ClientIds \ {c} : ledger'[d] = ledger[d]
      /\ ledger'[c] = r /\ r \in Rows
      /\ UNCHANGED <<plans, venue, posts>>
      /\ venue[c].state = "none"
  BY QtyAssumption DEF TypeOK, Prepare, Rows, Unsettled, DataInv, VenueInv
<1>2. VenueInv' /\ LedgerTruthful' /\ RowInv'
  BY <1>1 DEF DataInv, VenueInv, LedgerTruthful, RowInv, Asked, Terminal
<1>3. ExitInv'
  BY <1>1, IdFacts DEF DataInv, ExitInv, Terminal
<1>4. PlanInv'
  BY <1>1, IdFacts DEF DataInv, PlanInv, Active, Terminal
<1>. QED
  BY <1>1, <1>2, <1>3, <1>4 DEF DataInv, TypeOK, Prepare

--------------------------------------------------------------------------------
\* The inductive invariant across the venue's and the clock's steps

LEMMA AskedType == TypeOK => \A c \in ClientIds : Asked(c) \in 0 .. Qty
BY QtyAssumption DEF TypeOK, PlanRows, Asked, ClientIds

\* Nothing of the operation in progress depends on where an order that was
\* already sent stands, as long as an accepted order stays accepted.
LEMMA OpInvAcrossVenue ==
  ASSUME OpInv, NEW c \in ClientIds,
         venue[c].state # "none", venue[c].state \in Accepted => venue'[c].state \in Accepted,
         \A d \in ClientIds \ {c} : venue'[d] = venue[d],
         UNCHANGED <<durable, op>>
  PROVE  OpInv'
<1>1. UNCHANGED <<ledger, plans, authority, op>>
  BY DEF durable
<1>. QED
  BY <1>1 DEF OpInv, Busy, TickSteps, MayTrade

\* An order that is not over takes another state at the venue.
LEMMA VenueMoves ==
  ASSUME IInv,
         NEW c \in ClientIds, NEW v \in VenueOrders,
         venue[c].state \in {"wire", "working"},
         v.state \in Accepted \cup {"lost"},
         venue[c].state = "working" => v.state \in Accepted,
         v.state \in {"lost", "rejected"} => v.filled = 0,
         v.state = "working" => v.filled < Asked(c),
         v.state = "filled" => v.filled = Asked(c),
         venue[c].filled <= v.filled, v.filled <= Asked(c),
         venue' = [venue EXCEPT ![c] = v],
         UNCHANGED <<durable, posts, revoked, clock, op>>
  PROVE  IInv'
<1>1. /\ UNCHANGED <<ledger, plans, posts, authority, revoked, lapsed, due, op>>
      /\ \A d \in ClientIds \ {c} : venue'[d] = venue[d]
      /\ venue'[c] = v
  BY DEF durable, clock, IInv, TypeOK
<1>2. TypeOK'
  BY <1>1 DEF IInv, TypeOK
<1>3. DataInv'
  BY <1>1, VenueStep DEF IInv
<1>4. OpInv'
  BY <1>1, OpInvAcrossVenue DEF Accepted, Terminal, IInv
<1>. QED
  BY <1>2, <1>3, <1>4 DEF IInv

LEMMA EnvironmentStep == IInv /\ Environment => IInv'
<1>. SUFFICES ASSUME IInv, Environment PROVE IInv'
  OBVIOUS
<1>1. TypeOK /\ DataInv /\ OpInv
  BY DEF IInv
<1>2. ASSUME NEW c \in ClientIds
      PROVE  venue[c].filled \in 0 .. Qty /\ Asked(c) \in 0 .. Qty
  BY <1>1, <1>2, AskedType DEF TypeOK, VenueOrders
<1>3. ASSUME NEW c \in ClientIds, VenueAccept(c) PROVE IInv'
  <2>1. PICK s \in {"working", "rejected"} : venue' = [venue EXCEPT ![c].state = s]
    BY <1>3 DEF VenueAccept
  <2>. DEFINE v == [venue[c] EXCEPT !.state = s]
  <2>2. v \in VenueOrders /\ v.state = s /\ v.filled = 0
    BY <1>1, <1>3 DEF VenueAccept, TypeOK, VenueOrders, Accepted, Terminal, DataInv, VenueInv
  <2>3. 0 < Asked(c)
    <3>1. PICK p \in Plans : c = Entry(p) \/ c = Exit(p)
      BY IdFacts
    <3>2. ledger[c].state # "absent"
      BY <1>1, <1>3 DEF VenueAccept, DataInv, VenueInv
    <3>3. c = Exit(p) => plans[p].exit > 0
      BY <1>1, <3>2 DEF DataInv, ExitInv, TypeOK, PlanRows
    <3>. QED
      BY <3>1, <3>3, IdFacts, QtyAssumption
  <2>4. venue' = [venue EXCEPT ![c] = v]
    BY <2>1
  <2>5. venue[c].state = "wire" /\ UNCHANGED <<durable, posts, revoked, clock, op>>
    BY <1>3 DEF VenueAccept
  <2>6. venue[c].filled = 0
    BY <1>1, <2>5 DEF DataInv, VenueInv
  <2>. HIDE DEF v
  <2>10. v.state \in Accepted \cup {"lost"} /\ venue[c].filled <= v.filled /\ v.filled <= Asked(c)
    BY <1>2, <1>3, <2>2, <2>3, <2>4, <2>5, <2>6, QtyAssumption DEF Accepted, Terminal
  <2>11. venue[c].state \in {"wire", "working"} /\ (venue[c].state = "working" => v.state \in Accepted)
    BY <2>2, <2>3, <2>4, <2>5, <2>6 DEF Accepted, Terminal
  <2>12. /\ v.state \in {"lost", "rejected"} => v.filled = 0
         /\ v.state = "working" => v.filled < Asked(c)
         /\ v.state = "filled" => v.filled = Asked(c)
    BY <1>2, <1>3, <2>2, <2>3, <2>4, <2>5, <2>6, QtyAssumption
  <2>. QED
    BY <1>3, <2>2, <2>3, <2>4, <2>5, <2>6, <2>10, <2>11, <2>12, VenueMoves
<1>4. ASSUME NEW c \in ClientIds, VenueLose(c) PROVE IInv'
  <2>. DEFINE v == [venue[c] EXCEPT !.state = "lost"]
  <2>1. /\ venue[c].state = "wire" /\ venue[c].filled = 0
        /\ UNCHANGED <<durable, posts, revoked, clock, op>>
    BY <1>1, <1>4 DEF VenueLose, DataInv, VenueInv
  <2>2. v \in VenueOrders /\ v.state = "lost" /\ v.filled = 0
    BY <1>1, <2>1 DEF TypeOK, VenueOrders
  <2>3. venue' = [venue EXCEPT ![c] = v]
    BY <1>1, <1>4 DEF VenueLose
  <2>. HIDE DEF v
  <2>4. v.state \in Accepted \cup {"lost"} /\ venue[c].filled <= v.filled /\ v.filled <= Asked(c)
    BY <1>2, <1>4, <2>1, <2>2
  <2>5. venue[c].state \in {"wire", "working"} /\ (venue[c].state = "working" => v.state \in Accepted)
    BY <2>1
  <2>6. /\ v.state \in {"lost", "rejected"} => v.filled = 0
        /\ v.state = "working" => v.filled < Asked(c)
        /\ v.state = "filled" => v.filled = Asked(c)
    BY <2>2
  <2>. QED
    BY <1>4, <2>1, <2>2, <2>3, <2>4, <2>5, <2>6, VenueMoves
<1>5. ASSUME NEW c \in ClientIds, VenueFill(c) PROVE IInv'
  <2>. DEFINE v == [state |-> IF venue[c].filled + 1 = Asked(c) THEN "filled" ELSE "working",
                    filled |-> venue[c].filled + 1]
  <2>1. /\ venue[c].state = "working" /\ venue[c].filled < Asked(c)
        /\ UNCHANGED <<durable, posts, revoked, clock, op>>
    BY <1>1, <1>5 DEF VenueFill, DataInv, VenueInv
  <2>2. /\ v \in VenueOrders /\ v.state \in {"working", "filled"}
        /\ v.filled = venue[c].filled + 1
        /\ v.state = "filled" <=> v.filled = Asked(c)
    BY <1>2, <2>1, QtyAssumption DEF VenueOrders, Accepted, Terminal
  <2>3. venue' = [venue EXCEPT ![c] = v]
    BY <1>1, <1>5 DEF VenueFill
  <2>. HIDE DEF v
  <2>10. v.state \in Accepted \cup {"lost"} /\ venue[c].filled <= v.filled /\ v.filled <= Asked(c)
    BY <1>2, <1>5, <2>1, <2>2, <2>3, QtyAssumption DEF Accepted, Terminal
  <2>11. venue[c].state \in {"wire", "working"} /\ (venue[c].state = "working" => v.state \in Accepted)
    BY <2>1, <2>2, <2>3 DEF Accepted, Terminal
  <2>12. /\ v.state \in {"lost", "rejected"} => v.filled = 0
         /\ v.state = "working" => v.filled < Asked(c)
         /\ v.state = "filled" => v.filled = Asked(c)
    BY <1>2, <1>5, <2>1, <2>2, <2>3, QtyAssumption
  <2>. QED
    BY <1>5, <2>1, <2>2, <2>3, <2>10, <2>11, <2>12, VenueMoves
<1>6. ASSUME NEW c \in ClientIds, VenueCancel(c) PROVE IInv'
  <2>. DEFINE v == [venue[c] EXCEPT !.state = "cancelled"]
  <2>1. /\ venue[c].state = "working" /\ venue[c].filled < Asked(c)
        /\ UNCHANGED <<durable, posts, revoked, clock, op>>
    BY <1>1, <1>6 DEF VenueCancel, DataInv, VenueInv
  <2>2. v \in VenueOrders /\ v.state = "cancelled" /\ v.filled = venue[c].filled
    BY <1>1, <2>1 DEF TypeOK, VenueOrders, Accepted, Terminal
  <2>3. venue' = [venue EXCEPT ![c] = v]
    BY <1>1, <1>6 DEF VenueCancel
  <2>. HIDE DEF v
  <2>10. v.state \in Accepted \cup {"lost"} /\ venue[c].filled <= v.filled /\ v.filled <= Asked(c)
    BY <1>2, <1>6, <2>1, <2>2, <2>3, QtyAssumption DEF Accepted, Terminal
  <2>11. venue[c].state \in {"wire", "working"} /\ (venue[c].state = "working" => v.state \in Accepted)
    BY <2>1, <2>2, <2>3 DEF Accepted, Terminal
  <2>12. /\ v.state \in {"lost", "rejected"} => v.filled = 0
         /\ v.state = "working" => v.filled < Asked(c)
         /\ v.state = "filled" => v.filled = Asked(c)
    BY <1>2, <1>6, <2>1, <2>2, <2>3, QtyAssumption
  <2>. QED
    BY <1>6, <2>1, <2>2, <2>3, <2>10, <2>11, <2>12, VenueMoves
<1>7. ASSUME NEW c \in ClientIds, NEW p \in Plans, Lapse(c) \/ FallDue(p) PROVE IInv'
  <2>1. UNCHANGED <<ledger, authority, plans, venue, posts, revoked, op>>
    BY <1>7 DEF Lapse, FallDue, durable
  <2>2. lapsed' \subseteq ClientIds /\ due' \subseteq Plans
    BY <1>1, <1>7 DEF Lapse, FallDue, TypeOK
  <2>3. TypeOK'
    BY <1>1, <2>1, <2>2 DEF TypeOK
  <2>4. DataInv'
    BY <1>1, <2>1, DataStable DEF data
  <2>5. OpInv'
    BY <1>1, <2>1 DEF OpInv, Busy, MayTrade
  <2>. QED
    BY <2>3, <2>4, <2>5 DEF IInv
<1>. QED
  BY <1>3, <1>4, <1>5, <1>6, <1>7, IdFacts DEF Environment

--------------------------------------------------------------------------------
\* The inductive invariant across the operator's controls and reconciliation

\* Only op, authority and the revocation history change, and the operation ends.
LEMMA EndsQuietly ==
  ASSUME IInv, op' = Idle, UNCHANGED <<ledger, plans, venue, posts, clock>>,
         authority' \in {"off", "entries", "close_only"}, revoked' \subseteq Plans
  PROVE  IInv'
<1>1. TypeOK'
  BY IdleFacts DEF IInv, TypeOK, clock
<1>2. DataInv'
  BY DataStable DEF IInv, data
<1>. QED
  BY <1>1, <1>2, IdleOpInv DEF IInv

LEMMA AuthorizeStep == IInv /\ Authorize => IInv'
BY EndsQuietly DEF Authorize, IInv, TypeOK

LEMMA RevokeAuthorityStep == IInv /\ RevokeAuthority => IInv'
<1>. SUFFICES ASSUME IInv, RevokeAuthority PROVE IInv'
  OBVIOUS
<1>1. /\ UNCHANGED <<ledger, plans, venue, posts, lapsed, due>>
      /\ authority' \in {"off", "close_only"} /\ revoked' \subseteq Plans
      /\ op' = At("expire_staged", NoClient)
  BY DEF RevokeAuthority, clock, IInv, TypeOK
<1>2. op' \in Ops /\ op'.step = "expire_staged" /\ ~op'.closing
  BY <1>1, IdleFacts DEF OpSteps
<1>3. TypeOK'
  BY <1>1, <1>2 DEF IInv, TypeOK
<1>4. DataInv'
  BY <1>1, DataStable DEF IInv, data
<1>5. OpInv'
  BY <1>2 DEF OpInv, Busy, TickSteps
<1>. QED
  BY <1>3, <1>4, <1>5 DEF IInv

LEMMA RevokeStagedStep == IInv /\ RevokeStaged => IInv'
<1>. SUFFICES ASSUME IInv, RevokeStaged PROVE IInv'
  OBVIOUS
<1>1. TypeOK /\ DataInv
  BY DEF IInv
<1>2. /\ UNCHANGED <<ledger, authority, venue, posts, revoked, lapsed, due>>
      /\ op' = Idle
      /\ plans' = [p \in Plans |->
           IF StagedOnly(p) THEN [plans[p] EXCEPT !.state = "expired"] ELSE plans[p]]
  BY DEF RevokeStaged, clock
<1>3. ASSUME NEW p \in Plans
      PROVE  /\ plans'[p] \in PlanRows
             /\ plans'[p].exit = plans[p].exit
             /\ \/ plans'[p].state = plans[p].state
                \/ /\ plans'[p].state = "expired" /\ plans[p].state = "staged"
                   /\ ledger[Entry(p)].state = "absent"
  BY <1>1, <1>2, <1>3 DEF TypeOK, PlanRows, PlanStates, TickDone, StagedOnly
<1>4. TypeOK'
  BY <1>1, <1>2, <1>3, IdleFacts DEF TypeOK
<1>5. \A c \in ClientIds : Asked(c)' = Asked(c)
  BY <1>3 DEF Asked, ClientIds
<1>6. VenueInv' /\ LedgerTruthful' /\ RowInv'
  BY <1>1, <1>2, <1>5 DEF DataInv, VenueInv, LedgerTruthful, RowInv
<1>7. ExitInv'
  BY <1>1, <1>2, <1>3 DEF DataInv, ExitInv
<1>8. \A p \in Plans : ledger[Entry(p)].state = "absent" => plans[p].exit = 0
  BY <1>1 DEF DataInv, ExitInv, Terminal, TypeOK, PlanRows
<1>9. PlanInv'
  BY <1>1, <1>2, <1>3, <1>8 DEF DataInv, PlanInv, Active, Inactive
<1>. QED
  BY <1>2, <1>4, <1>6, <1>7, <1>9, IdleOpInv DEF IInv, DataInv

LEMMA ReconcileAccountStep == IInv /\ ReconcileAccount => IInv'
<1>. SUFFICES ASSUME IInv, ReconcileAccount PROVE IInv'
  OBVIOUS
<1>1. /\ UNCHANGED <<ledger, authority, plans, venue, posts, revoked, lapsed, due>>
      /\ op' = [At("rows", NoClient) EXCEPT !.todo = UnsettledRows(ledger), !.closing = FALSE]
  BY DEF ReconcileAccount, StartReconcile, durable, clock
<1>2. /\ op' \in Ops /\ op'.step = "rows" /\ ~op'.closing
      /\ op'.todo = UnsettledRows(ledger)
  <2>1. UnsettledRows(ledger) \in SUBSET ClientIds
    BY DEF UnsettledRows
  <2>. DEFINE a == At("rows", NoClient)
  <2>2. a \in Ops /\ a.step = "rows"
    BY IdleFacts DEF OpSteps
  <2>3. op' = [a EXCEPT !.todo = UnsettledRows(ledger), !.closing = FALSE]
    BY <1>1
  <2>. HIDE DEF a
  <2>. QED
    BY <2>1, <2>2, <2>3 DEF Ops
<1>3. TypeOK'
  BY <1>1, <1>2 DEF IInv, TypeOK
<1>4. DataInv'
  BY <1>1, DataStable DEF IInv, data
<1>5. OpInv'
  BY <1>1, <1>2 DEF OpInv, Busy, TickSteps, UnsettledRows
<1>. QED
  BY <1>3, <1>4, <1>5 DEF IInv

LEMMA ReconcileRowStep ==
  ASSUME IInv, NEW c \in ClientIds, ReconcileRow(c)
  PROVE  IInv'
<1>1. /\ TypeOK /\ DataInv /\ OpInv
      /\ op.step = "rows" /\ c \in op.todo /\ venue[c].state \in Accepted
      /\ ledger[c].state \in Unsettled
      /\ op' = [op EXCEPT !.todo = @ \ {c}]
      /\ UNCHANGED <<authority, plans, venue, posts, revoked, lapsed, due>>
  BY DEF IInv, ReconcileRow, OpInv, clock
<1>2. PICK v \in View(c) : ledger' = Record(ledger, c, v.state, v.filled)
  BY DEF ReconcileRow
<1>3. /\ v.state \in OrderStates /\ v.filled \in 0 .. Qty
      /\ v.filled <= venue[c].filled
      /\ v.state \in Terminal => venue[c].state = v.state /\ venue[c].filled = v.filled
  BY <1>1, <1>2, ViewFacts DEF Results
<1>4. /\ ledger' \in [ClientIds -> Rows] /\ DataInv'
      /\ \A d \in ClientIds \ {c} : ledger'[d] = ledger[d]
  BY <1>1, <1>2, <1>3, RecordStep
<1>5. /\ op' \in Ops /\ op'.step = "rows" /\ op'.todo = op.todo \ {c}
      /\ op'.cur = op.cur /\ op'.closing = op.closing
  BY <1>1 DEF TypeOK, Ops
<1>6. TypeOK'
  BY <1>1, <1>4, <1>5 DEF TypeOK
<1>7. op.todo \subseteq ClientIds /\ (op.closing => op.cur \in ClientIds /\ op.cur # c)
  BY <1>1 DEF TypeOK, Ops, OpInv, Busy, Unsettled
<1>8. OpInv'
  BY <1>1, <1>4, <1>5, <1>7 DEF OpInv, Busy, TickSteps
<1>. QED
  BY <1>4, <1>6, <1>8 DEF IInv

LEMMA ReconcileRowFailsStep ==
  ASSUME IInv, NEW c \in ClientIds, ReconcileRowFails(c)
  PROVE  IInv'
<1>1. /\ TypeOK /\ DataInv
      /\ ledger[c].state \in Unsettled /\ ledger' = MarkUnknown(ledger, c) /\ op' = Idle
      /\ UNCHANGED <<authority, plans, venue, posts, revoked, lapsed, due>>
  BY DEF IInv, ReconcileRowFails, OpInv, clock
<1>2. ledger' \in [ClientIds -> Rows] /\ DataInv'
  BY <1>1, MarkStep
<1>3. TypeOK'
  BY <1>1, <1>2, IdleFacts DEF TypeOK
<1>. QED
  BY <1>1, <1>2, <1>3, IdleOpInv DEF IInv

LEMMA ReadStep == IInv /\ (ReadPositions \/ ReadOrders) => IInv'
<1>. SUFFICES ASSUME IInv, ReadPositions \/ ReadOrders PROVE IInv'
  OBVIOUS
<1>1. TypeOK /\ OpInv /\ UNCHANGED <<ledger, plans, venue, posts, revoked, lapsed, due>>
  BY DEF IInv, ReadPositions, ReadOrders, durable, clock
<1>2. DataInv'
  BY <1>1, DataStable DEF IInv, data
<1>3. CASE ReadPositions
  <2>1. /\ op.step = "rows" /\ UNCHANGED authority
        /\ op' \in Ops /\ op'.step = "orders" /\ op'.cur = op.cur /\ op'.closing = op.closing
    BY <1>1, <1>3 DEF ReadPositions, durable, TypeOK, Ops, OpSteps
  <2>2. TypeOK'
    BY <1>1, <2>1 DEF TypeOK
  <2>3. OpInv'
    BY <1>1, <2>1 DEF OpInv, Busy, TickSteps
  <2>. QED
    BY <1>2, <2>2, <2>3 DEF IInv
<1>4. CASE ReadOrders
  <2>1. authority' \in {"off", "entries", "close_only"}
    BY <1>1, <1>4 DEF ReadOrders, TypeOK
  <2>2. CASE op.closing
    <3>1. /\ op.step = "orders"
          /\ op' \in Ops /\ op'.step = "close" /\ op'.cur = op.cur /\ op'.closing = op.closing
      BY <1>1, <1>4, <2>2 DEF ReadOrders, TypeOK, Ops, OpSteps
    <3>2. TypeOK'
      BY <1>1, <2>1, <3>1 DEF TypeOK
    <3>3. OpInv'
      BY <1>1, <2>2, <3>1 DEF OpInv, Busy, TickSteps
    <3>. QED
      BY <1>2, <3>2, <3>3 DEF IInv
  <2>3. CASE ~op.closing
    BY <1>1, <1>4, <2>1, <2>3, EndsQuietly DEF ReadOrders, clock, TypeOK
  <2>. QED
    BY <2>2, <2>3
<1>. QED
  BY <1>3, <1>4

LEMMA OperatorStep == IInv /\ Operator => IInv'
BY AuthorizeStep, RevokeAuthorityStep, RevokeStagedStep, ReconcileAccountStep,
   ReconcileRowStep, ReconcileRowFailsStep, ReadStep DEF Operator

--------------------------------------------------------------------------------
\* The inductive invariant across the engine's steps

LEMMA SubmitStep == IInv /\ Submit => IInv'
<1>. SUFFICES ASSUME IInv, Submit PROVE IInv'
  OBVIOUS
<1>1. /\ TypeOK /\ DataInv /\ OpInv /\ op.cur \in ClientIds
      /\ op.step = "submit" /\ ledger[op.cur].state = "absent" /\ MayTrade(op.cur)
      /\ ledger' = Prepare(ledger, op.cur)
      /\ op' = [op EXCEPT !.step = "post"]
      /\ UNCHANGED <<authority, plans, venue, posts, revoked, lapsed, due>>
  BY DEF IInv, Submit, OpInv, Busy, TickSteps, clock
<1>2. \A p \in Plans :
        /\ op.cur = Entry(p) => plans[p].state \notin {"absent", "expired"}
        /\ op.cur = Exit(p) => plans[p].exit > 0
  BY <1>1 DEF OpInv, Busy, TickSteps, TickDone
<1>3. /\ ledger' \in [ClientIds -> Rows] /\ DataInv'
      /\ ledger'[op.cur].state = "prepared"
  BY <1>1, <1>2, PrepareStep
<1>4. /\ op' \in Ops /\ op'.step = "post" /\ op'.cur = op.cur /\ op'.closing = op.closing
  BY <1>1 DEF TypeOK, Ops, OpSteps
<1>5. TypeOK'
  BY <1>1, <1>3, <1>4 DEF TypeOK
<1>6. venue[op.cur].state = "none" /\ ~op.closing
  BY <1>1 DEF DataInv, VenueInv, OpInv
<1>7. OpInv'
  BY <1>1, <1>3, <1>4, <1>6 DEF OpInv, Busy, TickSteps, MayTrade
<1>. QED
  BY <1>3, <1>5, <1>7 DEF IInv

LEMMA PostStep == IInv /\ Post => IInv'
<1>. SUFFICES ASSUME IInv, Post PROVE IInv'
  OBVIOUS
<1>. DEFINE c == op.cur
<1>1. /\ TypeOK /\ DataInv /\ OpInv /\ c \in ClientIds
      /\ op.step = "post" /\ ledger[c].state = "prepared" /\ venue[c].state = "none"
      /\ venue' = [venue EXCEPT ![c].state = "wire"]
      /\ posts' = [posts EXCEPT ![c] = @ + 1]
      /\ op' = [op EXCEPT !.step = "await"]
      /\ UNCHANGED <<ledger, authority, plans, revoked, lapsed, due>>
  BY DEF IInv, Post, OpInv, Busy, TickSteps, durable, clock
<1>. HIDE DEF c
<1>2. /\ venue' \in [ClientIds -> VenueOrders] /\ posts' \in [ClientIds -> Nat]
      /\ \A d \in ClientIds \ {c} : venue'[d] = venue[d] /\ posts'[d] = posts[d]
      /\ venue'[c].state = "wire" /\ venue'[c].filled = venue[c].filled
      /\ venue[c].filled = 0 /\ posts[c] = 0 /\ posts'[c] = 1
  BY <1>1 DEF TypeOK, VenueOrders, Accepted, DataInv, VenueInv
<1>3. VenueInv'
  BY <1>1, <1>2 DEF DataInv, VenueInv, Asked
<1>4. LedgerTruthful'
  BY <1>1, <1>2 DEF DataInv, LedgerTruthful, Terminal
<1>5. RowInv' /\ ExitInv' /\ PlanInv'
  BY <1>1 DEF DataInv, RowInv, ExitInv, PlanInv, Active
<1>6. op' \in Ops /\ op'.step = "await" /\ op'.cur = c /\ op'.closing = op.closing
  BY <1>1 DEF TypeOK, Ops, OpSteps, c
<1>7. TypeOK'
  BY <1>1, <1>2, <1>6 DEF TypeOK
<1>8. OpInv'
  BY <1>1, <1>6 DEF OpInv, Busy, TickSteps, c
<1>. QED
  BY <1>3, <1>4, <1>5, <1>7, <1>8 DEF IInv, DataInv

LEMMA AcknowledgeStep == IInv /\ Acknowledge => IInv'
<1>. SUFFICES ASSUME IInv, Acknowledge PROVE IInv'
  OBVIOUS
<1>1. /\ TypeOK /\ DataInv /\ OpInv /\ op.cur \in ClientIds
      /\ op.step = "await" /\ ledger[op.cur].state \in Unsettled
      /\ venue[op.cur].state \in Accepted
      /\ ledger' = Record(ledger, op.cur, "unknown", 0)
      /\ op' = [op EXCEPT !.step = "detail"]
      /\ UNCHANGED <<authority, plans, venue, posts, revoked, lapsed, due>>
  BY DEF IInv, Acknowledge, OpInv, Busy, TickSteps, clock, Unsettled
<1>2. 0 \in 0 .. Qty /\ 0 <= venue[op.cur].filled
  BY <1>1, QtyAssumption DEF TypeOK, VenueOrders
<1>3. /\ ledger' \in [ClientIds -> Rows] /\ DataInv'
      /\ ledger'[op.cur].state = "unknown" /\ ledger'[op.cur].filled = 0
  BY <1>1, <1>2, RecordStep DEF OrderStates, Terminal
<1>4. op' \in Ops /\ op'.step = "detail" /\ op'.cur = op.cur /\ op'.closing = op.closing
  BY <1>1 DEF TypeOK, Ops, OpSteps
<1>5. TypeOK'
  BY <1>1, <1>3, <1>4 DEF TypeOK
<1>6. OpInv'
  BY <1>1, <1>3, <1>4 DEF OpInv, Busy, TickSteps
<1>. QED
  BY <1>3, <1>5, <1>6 DEF IInv

\* A credible answer is recorded and becomes the tick's result.
LEMMA AnswerStep ==
  ASSUME IInv, Busy, ~op.closing,
         ledger[op.cur].state \in Unsettled,
         venue[op.cur].state \in Accepted,
         NEW v \in View(op.cur),
         ledger' = Record(ledger, op.cur, v.state, v.filled),
         op' \in Ops, op'.step = "result", op'.cur = op.cur, op'.res = v, ~op'.closing,
         UNCHANGED <<authority, plans, venue, posts, revoked, clock>>
  PROVE  IInv'
<1>1. TypeOK /\ DataInv /\ OpInv /\ op.cur \in ClientIds
  BY DEF IInv, OpInv
<1>2. /\ v.state \in OrderStates /\ v.filled \in 0 .. Qty
      /\ v.filled <= venue[op.cur].filled
      /\ v.state \in Terminal =>
           venue[op.cur].state = v.state /\ venue[op.cur].filled = v.filled
  BY <1>1, ViewFacts DEF Results
<1>3. UNCHANGED <<authority, plans, venue, posts, revoked, lapsed, due>>
  BY DEF clock
<1>4. /\ ledger' \in [ClientIds -> Rows] /\ DataInv'
      /\ ledger'[op.cur].state = v.state /\ ledger'[op.cur].filled = v.filled
  BY <1>1, <1>2, <1>3, RecordStep
<1>5. TypeOK'
  BY <1>1, <1>3, <1>4 DEF TypeOK
<1>6. OpInv'
  BY <1>1, <1>3, <1>4 DEF OpInv, Busy, TickSteps
<1>. QED
  BY <1>4, <1>5, <1>6 DEF IInv

LEMMA DetailStep == IInv /\ Detail => IInv'
<1>. SUFFICES ASSUME IInv, Detail PROVE IInv'
  OBVIOUS
<1>1. PICK v \in View(op.cur) :
        /\ ledger' = Record(ledger, op.cur, v.state, v.filled)
        /\ op' = [op EXCEPT !.step = "result", !.res = v]
  BY DEF Detail
<1>2. /\ TypeOK /\ Busy /\ ~op.closing /\ op.cur \in ClientIds
      /\ ledger[op.cur].state \in Unsettled /\ venue[op.cur].state \in Accepted
      /\ UNCHANGED <<authority, plans, venue, posts, revoked, clock>>
  BY DEF IInv, Detail, OpInv, Busy, TickSteps, Unsettled
<1>3. v \in Results
  BY <1>2, ViewFacts
<1>4. /\ op' \in Ops /\ op'.step = "result" /\ op'.cur = op.cur /\ op'.res = v
      /\ ~op'.closing
  BY <1>1, <1>2, <1>3 DEF TypeOK, Ops, OpSteps
<1>. QED
  BY <1>1, <1>2, <1>4, AnswerStep

LEMMA LookupStep == IInv /\ Lookup => IInv'
<1>. SUFFICES ASSUME IInv, Lookup PROVE IInv'
  OBVIOUS
<1>1. PICK v \in View(op.cur) :
        /\ ledger' = Record(ledger, op.cur, v.state, v.filled)
        /\ op' = [op EXCEPT !.step = "result", !.res = v]
  BY DEF Lookup
<1>2. /\ TypeOK /\ Busy /\ ~op.closing /\ op.cur \in ClientIds
      /\ ledger[op.cur].state \in Unsettled /\ venue[op.cur].state \in Accepted
      /\ UNCHANGED <<authority, plans, venue, posts, revoked, clock>>
  BY DEF IInv, Lookup, OpInv, Busy, TickSteps
<1>3. v \in Results
  BY <1>2, ViewFacts
<1>4. /\ op' \in Ops /\ op'.step = "result" /\ op'.cur = op.cur /\ op'.res = v
      /\ ~op'.closing
  BY <1>1, <1>2, <1>3 DEF TypeOK, Ops, OpSteps
<1>. QED
  BY <1>1, <1>2, <1>4, AnswerStep

LEMMA LookupSettledStep == IInv /\ LookupSettled => IInv'
<1>. SUFFICES ASSUME IInv, LookupSettled PROVE IInv'
  OBVIOUS
<1>. DEFINE r == [state |-> ledger[op.cur].state, filled |-> ledger[op.cur].filled]
<1>1. /\ TypeOK /\ DataInv /\ OpInv /\ op.cur \in ClientIds
      /\ op.step = "lookup" /\ ledger[op.cur].state \in Terminal
      /\ op' = [op EXCEPT !.step = "result", !.res = r]
      /\ UNCHANGED <<ledger, authority, plans, venue, posts, revoked, lapsed, due>>
  BY DEF IInv, LookupSettled, OpInv, Busy, TickSteps, durable, clock
<1>2. /\ r \in Results /\ r.state = ledger[op.cur].state
      /\ r.filled = ledger[op.cur].filled
  BY <1>1 DEF TypeOK, Rows, Results, OrderStates
<1>. HIDE DEF r
<1>3. /\ op' \in Ops /\ op'.step = "result" /\ op'.cur = op.cur /\ op'.res = r
      /\ op'.closing = op.closing
  BY <1>1, <1>2 DEF TypeOK, Ops, OpSteps
<1>4. TypeOK'
  BY <1>1, <1>3 DEF TypeOK
<1>5. DataInv'
  BY <1>1, DataStable DEF data
<1>6. OpInv'
  BY <1>1, <1>2, <1>3 DEF OpInv, Busy, TickSteps
<1>. QED
  BY <1>4, <1>5, <1>6 DEF IInv

LEMMA CancelLookupStep == IInv /\ CancelLookup => IInv'
<1>. SUFFICES ASSUME IInv, CancelLookup PROVE IInv'
  OBVIOUS
<1>1. PICK v \in View(op.cur) :
        IF v.state \in Terminal
          THEN /\ ledger' = Record(ledger, op.cur, v.state, v.filled)
               /\ op' = [op EXCEPT !.step = "result", !.res = v, !.tried = TRUE]
          ELSE /\ ledger' = CancellationPending(ledger, op.cur, v)
               /\ op' = [op EXCEPT !.step = "cancel_call"]
  BY DEF CancelLookup
<1>2. /\ TypeOK /\ DataInv /\ OpInv /\ Busy /\ ~op.closing /\ op.cur \in ClientIds
      /\ ledger[op.cur].state \in Unsettled /\ venue[op.cur].state \in Accepted
      /\ op.step = "cancel"
      /\ UNCHANGED <<authority, plans, venue, posts, revoked, clock>>
  BY DEF IInv, CancelLookup, OpInv, Busy, TickSteps
<1>3. v \in Results /\ v.filled \in 0 .. Qty /\ v.filled <= venue[op.cur].filled
  BY <1>2, ViewFacts DEF Results
<1>4. CASE v.state \in Terminal
  <2>1. /\ op' \in Ops /\ op'.step = "result" /\ op'.cur = op.cur /\ op'.res = v
        /\ ~op'.closing
    BY <1>1, <1>2, <1>3, <1>4 DEF TypeOK, Ops, OpSteps
  <2>. QED
    BY <1>1, <1>2, <1>4, <2>1, AnswerStep
<1>5. CASE v.state \notin Terminal
  <2>1. /\ op' \in Ops /\ op'.step = "cancel_call" /\ op'.cur = op.cur
        /\ ~op'.closing
    BY <1>1, <1>2, <1>5 DEF TypeOK, Ops, OpSteps
  <2>2. UNCHANGED <<authority, plans, venue, posts, revoked, lapsed, due>>
    BY <1>2 DEF clock
  <2>3. ledger' = Record(ledger, op.cur, "unknown", v.filled)
    BY <1>1, <1>5 DEF CancellationPending
  <2>4. /\ ledger' \in [ClientIds -> Rows] /\ DataInv'
        /\ ledger'[op.cur].state = "unknown"
    BY <1>2, <1>3, <2>2, <2>3, RecordStep DEF OrderStates, Terminal
  <2>5. TypeOK'
    BY <1>2, <2>1, <2>2, <2>4 DEF TypeOK
  <2>6. OpInv'
    BY <1>2, <2>1, <2>2, <2>4 DEF OpInv, Busy, TickSteps, Unsettled
  <2>. QED
    BY <2>4, <2>5, <2>6 DEF IInv
<1>. QED
  BY <1>4, <1>5

\* The two ways an uncertain outcome is recorded and the operation ends.
LEMMA UnconfirmedStep ==
  IInv /\ (SubmissionUnconfirmed \/ ReconciliationUnconfirmed) => IInv'
<1>. SUFFICES ASSUME IInv, SubmissionUnconfirmed \/ ReconciliationUnconfirmed PROVE IInv'
  OBVIOUS
<1>1. /\ TypeOK /\ DataInv /\ OpInv /\ op.cur \in ClientIds
      /\ ledger[op.cur].state \in Unsettled
      /\ ledger' = MarkUnknown(ledger, op.cur)
      /\ op' = Idle
      /\ UNCHANGED <<authority, plans, venue, posts, revoked, lapsed, due>>
  BY DEF IInv, SubmissionUnconfirmed, ReconciliationUnconfirmed, OpInv, Busy, TickSteps,
         Unsettled, clock
<1>2. ledger' \in [ClientIds -> Rows] /\ DataInv'
  BY <1>1, MarkStep
<1>3. TypeOK'
  BY <1>1, <1>2, IdleFacts DEF TypeOK
<1>. QED
  BY <1>1, <1>2, <1>3, IdleOpInv DEF IInv

LEMMA CancelCallStep == IInv /\ CancelCall => IInv'
<1>. SUFFICES ASSUME IInv, CancelCall PROVE IInv'
  OBVIOUS
<1>. DEFINE c == op.cur
<1>1. /\ TypeOK /\ DataInv /\ OpInv /\ c \in ClientIds
      /\ op.step = "cancel_call" /\ ledger[c].state \in Unsettled /\ ~op.closing
      /\ op' = [op EXCEPT !.step = "lookup", !.tried = TRUE]
      /\ UNCHANGED <<ledger, authority, plans, posts, revoked, lapsed, due>>
  BY DEF IInv, CancelCall, OpInv, Busy, TickSteps, durable, clock
<1>2. op' \in Ops /\ op'.step = "lookup" /\ op'.cur = c /\ ~op'.closing
  BY <1>1 DEF TypeOK, Ops, OpSteps
<1>. HIDE DEF c
<1>3. OpInv'
  BY <1>1, <1>2 DEF OpInv, Busy, TickSteps, Unsettled, c
<1>4. CASE UNCHANGED venue
  <2>1. TypeOK'
    BY <1>1, <1>2, <1>4 DEF TypeOK
  <2>2. DataInv'
    BY <1>1, <1>4, DataStable DEF data
  <2>. QED
    BY <1>3, <2>1, <2>2 DEF IInv
<1>5. CASE venue[c].state = "working" /\ venue' = [venue EXCEPT ![c].state = "cancelled"]
  <2>. DEFINE v == [venue[c] EXCEPT !.state = "cancelled"]
  <2>1. /\ v \in VenueOrders /\ v.state = "cancelled" /\ v.filled = venue[c].filled
        /\ v.filled \in Nat /\ v.filled <= Asked(c)
    BY <1>1, <1>5 DEF TypeOK, VenueOrders, Accepted, Terminal, DataInv, VenueInv
  <2>2. venue' = [venue EXCEPT ![c] = v]
    BY <1>1, <1>5
  <2>. HIDE DEF v
  <2>3. /\ v.state \in Accepted \cup {"lost"}
        /\ v.state \in {"lost", "rejected"} => v.filled = 0
        /\ v.state = "working" => v.filled < Asked(c)
        /\ v.state = "filled" => v.filled = Asked(c)
        /\ venue[c].filled <= v.filled
    BY <2>1 DEF Accepted, Terminal
  <2>4. DataInv'
    BY <1>1, <1>5, <2>1, <2>2, <2>3, VenueStep
  <2>5. TypeOK'
    BY <1>1, <1>2, <2>1, <2>2 DEF TypeOK
  <2>. QED
    BY <1>3, <2>4, <2>5 DEF IInv
<1>. QED
  BY <1>4, <1>5 DEF CancelCall, c

LEMMA EngineStep == IInv /\ Engine => IInv'
BY SubmitStep, PostStep, AcknowledgeStep, DetailStep, UnconfirmedStep, LookupSettledStep,
   LookupStep, CancelLookupStep, CancelCallStep DEF Engine

--------------------------------------------------------------------------------
\* The inductive invariant across the lifecycle's steps

\* Only the operation in progress moves on.
LEMMA OpMoves ==
  ASSUME IInv, op' \in Ops, OpInv', UNCHANGED <<durable, venue, posts, revoked, clock>>
  PROVE  IInv'
<1>1. UNCHANGED <<ledger, authority, plans, venue, posts, revoked, lapsed, due>>
  BY DEF durable, clock
<1>2. TypeOK'
  BY <1>1 DEF IInv, TypeOK
<1>3. DataInv'
  BY <1>1, DataStable DEF IInv, data
<1>. QED
  BY <1>2, <1>3 DEF IInv

\* The tick saves the active plan's new state and ends.
LEMMA SaveStep ==
  ASSUME IInv, NEW p \in Plans, NEW s \in PlanStates,
         Active(p),
         s = "expired" => ledger[Entry(p)].state = "absent" /\ plans[p].exit = 0,
         s = "unfilled" => /\ ledger[Entry(p)].state \in Terminal
                           /\ ledger[Entry(p)].filled = 0
                           /\ plans[p].exit = 0,
         s = "closed" => plans[p].exit > 0 /\ ledger[Exit(p)].state = "filled",
         Save(p, s), op' = Idle,
         UNCHANGED <<ledger, authority, venue, posts, revoked, clock>>
  PROVE  IInv'
<1>1. TypeOK /\ DataInv /\ UNCHANGED <<ledger, authority, venue, posts, revoked, lapsed, due>>
  BY DEF IInv, clock
<1>2. DataInv'
  BY <1>1, PlanStep
<1>3. plans' \in [Plans -> PlanRows]
  BY <1>1 DEF TypeOK, Save, PlanRows
<1>4. TypeOK'
  BY <1>1, <1>3, IdleFacts DEF TypeOK
<1>. QED
  BY <1>2, <1>4, IdleOpInv DEF IInv

\* A tick in progress works on an order of the active plan.
LEMMA TickFacts ==
  ASSUME IInv, Busy, NEW p \in Plans
  PROVE  /\ op.cur = Entry(p) => Active(p) /\ plans[p].exit = 0
         /\ op.cur = Exit(p) => Active(p) /\ plans[p].exit > 0
BY DEF IInv, OpInv, Active, TickDone, Inactive

LEMMA StageStep == ASSUME IInv, NEW p \in Plans, Stage(p) PROVE IInv'
<1>1. /\ TypeOK /\ DataInv /\ OpInv
      /\ UNCHANGED <<ledger, authority, venue, posts, revoked, lapsed, due, op>>
      /\ op = Idle /\ plans[p].state = "absent" /\ ledger[Entry(p)].state = "absent"
      /\ NoActivePlan
  BY DEF IInv, Stage, clock
<1>2. /\ plans' \in [Plans -> PlanRows]
      /\ \A q \in Plans \ {p} : plans'[q] = plans[q]
      /\ plans'[p].state = "staged"
      /\ \A q \in Plans : plans'[q].exit = plans[q].exit
  BY <1>1 DEF Stage, TypeOK, PlanRows, PlanStates
<1>3. \A c \in ClientIds : Asked(c)' = Asked(c)
  BY <1>2, IdFacts DEF Asked, ClientIds
<1>4. VenueInv' /\ LedgerTruthful' /\ RowInv'
  BY <1>1, <1>3 DEF DataInv, VenueInv, LedgerTruthful, RowInv
<1>5. ExitInv'
  BY <1>1, <1>2 DEF DataInv, ExitInv
<1>6. PlanInv'
  BY <1>1, <1>2 DEF DataInv, PlanInv, Active, NoActivePlan, Inactive
<1>7. TypeOK' /\ OpInv'
  BY <1>1, <1>2, IdleOpInv DEF TypeOK
<1>. QED
  BY <1>4, <1>5, <1>6, <1>7 DEF IInv, DataInv

LEMMA TickStartStep ==
  ASSUME IInv, NEW p \in Plans, TickExpire(p) \/ TickSubmit(p) \/ TickReconcile(p) \/ TickExit(p)
  PROVE  IInv'
<1>1. TypeOK /\ Entry(p) \in ClientIds /\ Exit(p) \in ClientIds
  BY IdFacts DEF IInv
<1>2. op = Idle /\ plans[p].state \notin TickDone \cup {"absent"} /\ Active(p)
  BY DEF TickExpire, TickSubmit, TickReconcile, TickExit, Ticking, Active, TickDone, Inactive
<1>3. plans[p].exit \in 0 .. Qty
  BY <1>1 DEF TypeOK, PlanRows
<1>4. CASE TickExpire(p)
  BY <1>2, <1>4, SaveStep DEF TickExpire, PlanStates, TickDone
<1>5. CASE TickSubmit(p)
  <2>1. op' \in Ops /\ op'.step = "submit" /\ op'.cur = Entry(p) /\ ~op'.closing
    BY <1>1, <1>5, IdleFacts DEF TickSubmit, OpSteps
  <2>2. /\ UNCHANGED <<durable, venue, posts, revoked, clock>>
        /\ UNCHANGED <<ledger, plans>>
        /\ plans[p].exit = 0 /\ ledger[Entry(p)].state = "absent"
    BY <1>5 DEF TickSubmit, durable
  <2>3. OpInv'
    BY <1>1, <1>2, <2>1, <2>2, IdFacts DEF OpInv, Busy, TickSteps
  <2>. QED
    BY <2>1, <2>2, <2>3, OpMoves
<1>6. CASE TickReconcile(p)
  <2>1. op' \in Ops /\ op'.step = "lookup" /\ op'.cur = Entry(p) /\ ~op'.closing
    BY <1>1, <1>6, IdleFacts DEF TickReconcile, OpSteps
  <2>2. /\ UNCHANGED <<durable, venue, posts, revoked, clock>>
        /\ UNCHANGED <<ledger, plans>>
        /\ plans[p].exit = 0 /\ ledger[Entry(p)].state # "absent"
    BY <1>6 DEF TickReconcile, durable
  <2>3. OpInv'
    BY <1>1, <1>2, <2>1, <2>2, IdFacts DEF OpInv, Busy, TickSteps
  <2>. QED
    BY <2>1, <2>2, <2>3, OpMoves
<1>7. CASE TickExit(p)
  <2>1. op' \in Ops /\ op'.step = "exit" /\ op'.cur = Exit(p) /\ ~op'.closing
    BY <1>1, <1>7, IdleFacts DEF TickExit, OpSteps
  <2>2. /\ UNCHANGED <<durable, venue, posts, revoked, clock>>
        /\ UNCHANGED <<ledger, plans>>
        /\ plans[p].exit > 0
    BY <1>7 DEF TickExit, durable
  <2>3. OpInv'
    BY <1>1, <1>2, <2>1, <2>2, IdFacts DEF OpInv, Busy, TickSteps
  <2>. QED
    BY <2>1, <2>2, <2>3, OpMoves
<1>. QED
  BY <1>4, <1>5, <1>6, <1>7

\* The result in hand asks for a cancellation, or the exit for its order.
LEMMA TickMovesStep ==
  ASSUME IInv, NEW p \in Plans,
         EntryCancel(p) \/ ExitCancel(p) \/ ExitSubmit(p) \/ ExitReconcile(p)
  PROVE  IInv'
<1>1. /\ TypeOK /\ OpInv /\ ~op.closing /\ Busy /\ op.cur \in ClientIds
      /\ UNCHANGED <<durable, venue, posts, revoked, clock>>
      /\ UNCHANGED <<ledger, plans>>
  BY DEF IInv, OpInv, EntryCancel, ExitCancel, ExitSubmit, ExitReconcile, EntryResult,
         ExitResult, ExitStart, Busy, TickSteps, durable
<1>2. CASE EntryCancel(p) \/ ExitCancel(p)
  <2>1. /\ op' \in Ops /\ op'.step = "cancel" /\ op'.cur = op.cur /\ ~op'.closing
        /\ op.step = "result" /\ op.res.state \notin Terminal /\ op.res.state \in OrderStates
    BY <1>1, <1>2 DEF EntryCancel, ExitCancel, EntryResult, ExitResult, Resting, TypeOK,
                      Ops, OpSteps, Results
  <2>2. ledger[op.cur].state \in Unsettled
    BY <1>1, <2>1 DEF OpInv, OrderStates, Terminal, Unsettled
  <2>3. OpInv'
    BY <1>1, <2>1, <2>2 DEF OpInv, Busy, TickSteps
  <2>. QED
    BY <1>1, <2>1, <2>3, OpMoves
<1>3. CASE ExitSubmit(p)
  <2>1. /\ op' \in Ops /\ op'.step = "submit" /\ op'.cur = op.cur /\ ~op'.closing
        /\ ledger[op.cur].state = "absent"
    BY <1>1, <1>3 DEF ExitSubmit, ExitStart, TypeOK, Ops, OpSteps
  <2>2. OpInv'
    BY <1>1, <2>1 DEF OpInv, Busy, TickSteps
  <2>. QED
    BY <1>1, <2>1, <2>2, OpMoves
<1>4. CASE ExitReconcile(p)
  <2>1. /\ op' \in Ops /\ op'.step = "lookup" /\ op'.cur = op.cur /\ ~op'.closing
        /\ ledger[op.cur].state # "absent"
    BY <1>1, <1>4 DEF ExitReconcile, ExitStart, TypeOK, Ops, OpSteps
  <2>2. OpInv'
    BY <1>1, <2>1 DEF OpInv, Busy, TickSteps
  <2>. QED
    BY <1>1, <2>1, <2>2, OpMoves
<1>. QED
  BY <1>2, <1>3, <1>4

LEMMA TickSavesStep ==
  ASSUME IInv, NEW p \in Plans,
         \/ EntryWorking(p) \/ EntryUnfilled(p) \/ Monitor(p)
         \/ ExitGiveUp(p) \/ ExitIncomplete(p) \/ ExitWorking(p) \/ ClosePlan(p)
  PROVE  IInv'
<1>1. /\ Busy /\ TypeOK /\ OpInv /\ op' = Idle
      /\ UNCHANGED <<ledger, authority, venue, posts, revoked, clock>>
  BY DEF IInv, EntryWorking, EntryUnfilled, Monitor, ExitGiveUp, ExitIncomplete,
         ExitWorking, ClosePlan, EntryResult, ExitResult, ExitStart, Busy, TickSteps
<1>2. Active(p)
  BY <1>1, TickFacts DEF EntryWorking, EntryUnfilled, Monitor, ExitGiveUp, ExitIncomplete,
         ExitWorking, ClosePlan, EntryResult, ExitResult, ExitStart
<1>3. CASE EntryWorking(p) \/ Monitor(p) \/ ExitGiveUp(p) \/ ExitIncomplete(p) \/ ExitWorking(p)
  <2>1. PICK s \in {"entry_working", "monitoring", "manual_review", "exit_working"} : Save(p, s)
    BY <1>3 DEF EntryWorking, Monitor, ExitGiveUp, ExitIncomplete, ExitWorking
  <2>2. s \in PlanStates
    BY DEF PlanStates, TickDone
  <2>. QED
    BY <1>1, <1>2, <2>1, <2>2, SaveStep
<1>4. CASE EntryUnfilled(p)
  <2>1. /\ op.step = "result" /\ op.cur = Entry(p)
        /\ op.res.state \in Terminal /\ op.res.filled = 0 /\ Save(p, "unfilled")
    BY <1>4 DEF EntryUnfilled, EntryResult, Resting
  <2>2. /\ ledger[Entry(p)].state \in Terminal /\ ledger[Entry(p)].filled = 0
        /\ plans[p].exit = 0
    BY <1>1, <2>1, TickFacts DEF OpInv
  <2>. QED
    BY <1>1, <1>2, <2>1, <2>2, SaveStep DEF PlanStates, TickDone
<1>5. CASE ClosePlan(p)
  <2>1. op.step = "close" /\ op.cur = Exit(p) /\ Save(p, "closed")
    BY <1>5 DEF ClosePlan
  <2>2. plans[p].exit > 0 /\ ledger[Exit(p)].state = "filled"
    BY <1>1, <2>1, TickFacts DEF OpInv
  <2>. QED
    BY <1>1, <1>2, <2>1, <2>2, SaveStep DEF PlanStates, TickDone
<1>. QED
  BY <1>3, <1>4, <1>5

LEMMA ExitFilledStep == ASSUME IInv, NEW p \in Plans, ExitFilled(p) PROVE IInv'
<1>. DEFINE a == At("rows", Exit(p))
<1>1. /\ TypeOK /\ OpInv /\ op.step = "result" /\ op.cur = Exit(p) /\ op.res.state = "filled"
      /\ op' = [a EXCEPT !.todo = UnsettledRows(ledger), !.closing = TRUE]
      /\ UNCHANGED <<durable, venue, posts, revoked, clock>>
      /\ UNCHANGED <<ledger, plans>>
  BY DEF IInv, ExitFilled, ExitResult, StartReconcile, durable
<1>2. a \in Ops /\ a.step = "rows" /\ a.cur = Exit(p)
  BY IdleFacts, IdFacts DEF OpSteps
<1>. HIDE DEF a
<1>3. UnsettledRows(ledger) \in SUBSET ClientIds
  BY DEF UnsettledRows
<1>4. /\ op' \in Ops /\ op'.step = "rows" /\ op'.closing
      /\ op'.todo = UnsettledRows(ledger) /\ op'.cur = Exit(p)
  BY <1>1, <1>2, <1>3 DEF Ops
<1>5. OpInv'
  BY <1>1, <1>4 DEF OpInv, Busy, TickSteps, UnsettledRows
<1>. QED
  BY <1>1, <1>4, <1>5, OpMoves

LEMMA FreezeExitStep == ASSUME IInv, NEW p \in Plans, FreezeExit(p) PROVE IInv'
<1>1. /\ TypeOK /\ DataInv /\ OpInv /\ op.step = "result" /\ op.cur = Entry(p)
      /\ op.res.state \in Terminal /\ op.res.filled > 0
      /\ plans' = [plans EXCEPT ![p] = [state |-> "exit_prepared", exit |-> op.res.filled]]
      /\ op' = At("exit", Exit(p))
      /\ UNCHANGED <<ledger, authority, venue, posts, revoked, lapsed, due>>
  BY DEF IInv, FreezeExit, EntryResult, Resting, ExitQuantity, clock
<1>2. /\ Active(p) /\ plans[p].exit = 0
      /\ ledger[Entry(p)].state \in Terminal
      /\ ledger[Entry(p)].filled = op.res.filled
      /\ op.res.filled \in 0 .. Qty
  BY <1>1, TickFacts DEF OpInv, Busy, TickSteps, TypeOK, Ops, Results
<1>3. /\ plans' \in [Plans -> PlanRows]
      /\ \A q \in Plans \ {p} : plans'[q] = plans[q]
      /\ plans'[p].state = "exit_prepared" /\ plans'[p].exit = op.res.filled
  BY <1>1, <1>2 DEF TypeOK, PlanRows, PlanStates
<1>4. ledger[Exit(p)].state = "absent" /\ venue[Exit(p)].state = "none"
  BY <1>1, <1>2, IdFacts DEF DataInv, ExitInv, VenueInv
<1>5. \A c \in ClientIds \ {Exit(p)} : Asked(c)' = Asked(c)
  BY <1>3, IdFacts DEF Asked, ClientIds, Exit
<1>6. Asked(Exit(p))' = op.res.filled
  BY <1>3, IdFacts DEF Asked
<1>7. VenueInv'
  BY <1>1, <1>2, <1>4, <1>5, <1>6 DEF DataInv, VenueInv
<1>8. LedgerTruthful' /\ RowInv'
  BY <1>1 DEF DataInv, LedgerTruthful, RowInv
<1>9. ExitInv'
  BY <1>1, <1>2, <1>3 DEF DataInv, ExitInv
<1>10. PlanInv'
  BY <1>1, <1>2, <1>3 DEF DataInv, PlanInv, Active
<1>11. op' \in Ops /\ op'.step = "exit" /\ op'.cur = Exit(p) /\ ~op'.closing
  BY <1>1, IdleFacts, IdFacts DEF OpSteps
<1>12. OpInv'
  BY <1>1, <1>2, <1>3, <1>11, IdFacts DEF OpInv, Busy, TickSteps, TickDone
<1>13. TypeOK'
  BY <1>1, <1>3, <1>11 DEF TypeOK
<1>. QED
  BY <1>7, <1>8, <1>9, <1>10, <1>12, <1>13 DEF IInv, DataInv

LEMMA LifecycleStep == IInv /\ Lifecycle => IInv'
BY StageStep, TickStartStep, TickMovesStep, TickSavesStep, ExitFilledStep, FreezeExitStep
   DEF Lifecycle

LEMMA AbandonStep == IInv /\ Abandon => IInv'
BY EndsQuietly DEF Abandon, durable, IInv, TypeOK

\* The inductive invariant across every step of the account.
LEMMA NextStep == IInv /\ [Next]_vars => IInv'
<1>1. IInv /\ UNCHANGED vars => IInv'
  <2>. SUFFICES ASSUME IInv, UNCHANGED vars PROVE IInv'
    OBVIOUS
  <2>1. UNCHANGED <<durable, venue, posts, revoked, clock, op>> /\ UNCHANGED <<ledger, plans, authority, venue, op>>
    BY DEF vars, durable, clock
  <2>2. OpInv' /\ op' \in Ops
    BY <2>1 DEF IInv, OpInv, Busy, MayTrade, TypeOK
  <2>. QED
    BY <2>1, <2>2, OpMoves
<1>. QED
  BY <1>1, EnvironmentStep, OperatorStep, EngineStep, LifecycleStep, AbandonStep DEF Next

\* The inductive invariant holds throughout every behaviour.
THEOREM Invariance == Spec => []IInv
BY InitIInv, NextStep, PTL DEF Spec

--------------------------------------------------------------------------------
\* What the invariant says of the market

LEMMA SafetyFacts ==
  IInv => TypeOK /\ OneDispatch /\ LedgerTruthful /\ NeverShort /\ OneOwner /\ OverMeansOver
<1>. SUFFICES ASSUME IInv
              PROVE  TypeOK /\ OneDispatch /\ LedgerTruthful /\ NeverShort /\ OneOwner
                       /\ OverMeansOver
  OBVIOUS
<1>1. TypeOK /\ VenueInv /\ LedgerTruthful /\ ExitInv /\ PlanInv
  BY DEF IInv, DataInv
<1>2. OneDispatch
  BY <1>1 DEF OneDispatch, VenueInv
<1>3. ASSUME NEW p \in Plans
      PROVE  /\ plans[p].exit \in Nat
             /\ venue[Entry(p)].filled \in Nat /\ venue[Exit(p)].filled \in Nat
  BY <1>1, IdFacts DEF TypeOK, PlanRows, VenueOrders
<1>4. ASSUME NEW p \in Plans, venue[Exit(p)].state # "none"
      PROVE  /\ plans[p].exit > 0
             /\ venue[Entry(p)].state \in Terminal
             /\ venue[Entry(p)].filled = plans[p].exit
             /\ venue[Exit(p)].filled <= plans[p].exit
  <2>1. plans[p].exit > 0
    BY <1>1, <1>3, <1>4, IdFacts DEF VenueInv, ExitInv
  <2>2. ledger[Entry(p)].state \in Terminal /\ ledger[Entry(p)].filled = plans[p].exit
    BY <1>1, <2>1 DEF ExitInv
  <2>. QED
    BY <1>1, <2>1, <2>2, IdFacts DEF LedgerTruthful, VenueInv
<1>5. NeverShort
  BY <1>4, IdFacts DEF NeverShort
<1>6. ASSUME NEW p \in Plans, plans[p].state \in Inactive \cup {"absent"}
      PROVE  /\ ~Exposed(p)
             /\ plans[p].state = "closed" => venue[Exit(p)].filled = plans[p].exit
             /\ plans[p].state = "expired" => posts[Entry(p)] = 0
  <2>1. CASE plans[p].state \in {"absent", "expired"}
    <3>1. ledger[Entry(p)].state = "absent" /\ plans[p].exit = 0 /\ ledger[Exit(p)].state = "absent"
      BY <1>1, <2>1 DEF PlanInv, ExitInv
    <3>2. venue[Entry(p)].state = "none" /\ venue[Exit(p)].state = "none" /\ posts[Entry(p)] = 0
      BY <1>1, <3>1, IdFacts DEF VenueInv
    <3>3. venue[Entry(p)].filled = 0 /\ venue[Exit(p)].filled = 0
      BY <1>1, <3>2, IdFacts DEF VenueInv
    <3>. QED
      BY <2>1, <3>2, <3>3 DEF Exposed
  <2>2. CASE plans[p].state = "unfilled"
    <3>1. /\ ledger[Entry(p)].state \in Terminal /\ ledger[Entry(p)].filled = 0
          /\ ledger[Exit(p)].state = "absent"
      BY <1>1, <2>2 DEF PlanInv, ExitInv
    <3>2. /\ venue[Entry(p)].state \in Terminal /\ venue[Entry(p)].filled = 0
          /\ venue[Exit(p)].state = "none" /\ venue[Exit(p)].filled = 0
      BY <1>1, <3>1, IdFacts DEF VenueInv, LedgerTruthful
    <3>. QED
      BY <2>2, <3>2 DEF Exposed, Terminal
  <2>3. CASE plans[p].state = "closed"
    <3>1. plans[p].exit > 0 /\ ledger[Exit(p)].state = "filled"
      BY <1>1, <2>3 DEF PlanInv
    <3>2. venue[Exit(p)].state = "filled" /\ venue[Exit(p)].filled = plans[p].exit
      BY <1>1, <3>1, IdFacts DEF LedgerTruthful, VenueInv, Terminal
    <3>3. venue[Entry(p)].state \in Terminal /\ venue[Entry(p)].filled = plans[p].exit
      BY <1>4, <3>2
    <3>. QED
      BY <2>3, <3>2, <3>3 DEF Exposed, Terminal
  <2>. QED
    BY <1>6, <2>1, <2>2, <2>3 DEF Inactive
<1>7. OneOwner
  BY <1>1, <1>6 DEF OneOwner, PlanInv, Active
<1>8. OverMeansOver
  BY <1>6 DEF OverMeansOver, Inactive
<1>. QED
  BY <1>1, <1>2, <1>5, <1>7, <1>8

\* Types are preserved: every step leaves the state one the code can be in.
THEOREM TypeCorrect == Spec => []TypeOK
BY Invariance, SafetyFacts, PTL

\* At most one POST per client id, behind a durable intent (engine.submit).
THEOREM DispatchedOnce == Spec => []OneDispatch
BY Invariance, SafetyFacts, PTL

\* The intents table never runs ahead of the broker (engine._reconcile).
THEOREM LedgerIsTruthful == Spec => []LedgerTruthful
BY Invariance, SafetyFacts, PTL

\* The one exit sells what the settled entry bought and no more (lifecycle.tick).
THEOREM NeverSellsShort == Spec => []NeverShort
BY Invariance, SafetyFacts, PTL

\* At most one plan is exposed at the broker (lifecycle.stage).
THEOREM OnePositionOwner == Spec => []OneOwner
BY Invariance, SafetyFacts, PTL

\* closed, unfilled and expired are the broker's truth (lifecycle.tick).
THEOREM OverIsOver == Spec => []OverMeansOver
BY Invariance, SafetyFacts, PTL

--------------------------------------------------------------------------------
\* What a step may never do

\* Only Post sends, and it sends only what the authority it found still covers.
LEMMA DispatchStep ==
  IInv /\ [Next]_vars =>
    \A p \in Plans :
      /\ posts'[Entry(p)] > posts[Entry(p)] => authority = "entries"
      /\ posts'[Exit(p)] > posts[Exit(p)] => authority # "off"
<1>. SUFFICES ASSUME IInv, [Next]_vars, NEW p \in Plans
              PROVE  /\ posts'[Entry(p)] > posts[Entry(p)] => authority = "entries"
                     /\ posts'[Exit(p)] > posts[Exit(p)] => authority # "off"
  OBVIOUS
<1>1. \A c \in ClientIds : posts[c] \in Nat
  BY DEF IInv, TypeOK
<1>2. CASE Post
  <2>1. /\ posts' = [posts EXCEPT ![op.cur] = @ + 1] /\ MayTrade(op.cur)
    BY <1>2 DEF Post, IInv, OpInv
  <2>2. \A c \in ClientIds : posts'[c] > posts[c] => c = op.cur
    BY <1>1, <2>1 DEF IInv, TypeOK
  <2>. QED
    BY <2>1, <2>2, IdFacts DEF MayTrade
<1>3. CASE ~Post
  <2>1. UNCHANGED posts
    BY <1>3 DEF Next, vars, Environment, VenueAccept, VenueLose, VenueFill, VenueCancel,
           Lapse, FallDue, Operator, Authorize, RevokeAuthority, RevokeStaged,
           ReconcileAccount, ReadPositions, ReadOrders, ReconcileRow, ReconcileRowFails,
           Engine, Submit, Acknowledge, Detail, SubmissionUnconfirmed, LookupSettled,
           Lookup, CancelLookup, CancelCall, ReconciliationUnconfirmed, Lifecycle, Stage,
           TickExpire, TickSubmit, TickReconcile, TickExit, EntryCancel, EntryWorking,
           EntryUnfilled, Monitor, FreezeExit, ExitGiveUp, ExitSubmit, ExitReconcile,
           ExitFilled, ClosePlan, ExitIncomplete, ExitCancel, ExitWorking, Abandon
  <2>. QED
    BY <1>1, <2>1, IdFacts
<1>. QED
  BY <1>2, <1>3

\* Nothing is sent without the operator's authority at that instant
\* (engine.submit, dispatch_guard).
THEOREM DispatchIsAuthorized == Spec => DispatchAuthorized
BY Invariance, DispatchStep, PTL DEF Spec, DispatchAuthorized

\* The ledger's share in HistoryKept: which rows a step rewrites, and how.
LEMMA LedgerHistory ==
  IInv /\ [Next]_vars =>
    \A c \in ClientIds :
      /\ ledger'[c].filled >= ledger[c].filled
      /\ ledger[c].state \in Terminal => ledger'[c] = ledger[c]
<1>. SUFFICES ASSUME IInv, [Next]_vars, NEW c \in ClientIds
              PROVE  /\ ledger'[c].filled >= ledger[c].filled
                     /\ ledger[c].state \in Terminal => ledger'[c] = ledger[c]
  OBVIOUS
<1>1. /\ TypeOK /\ OpInv /\ RowInv /\ ledger[c].filled \in Nat
      /\ ledger \in [ClientIds -> Rows]
  BY DEF IInv, TypeOK, Rows, DataInv
<1>2. CASE UNCHANGED ledger
  BY <1>1, <1>2
<1>3. ASSUME NEW d \in ClientIds, NEW state, NEW filled \in Nat,
             ledger' = Record(ledger, d, state, filled),
             ledger[d].state \in Unsettled, ledger[d].filled <= filled
      PROVE  /\ ledger'[c].filled >= ledger[c].filled
             /\ ledger[c].state \in Terminal => ledger'[c] = ledger[c]
  BY <1>1, <1>3 DEF Record, Unsettled, Terminal
<1>4. ASSUME NEW d \in ClientIds, ledger' = MarkUnknown(ledger, d),
             ledger[d].state \in Unsettled
      PROVE  /\ ledger'[c].filled >= ledger[c].filled
             /\ ledger[c].state \in Terminal => ledger'[c] = ledger[c]
  BY <1>1, <1>4 DEF MarkUnknown, Unsettled, Terminal, Rows
<1>5. CASE Submit
  <2>1. /\ ledger' = Prepare(ledger, op.cur) /\ ledger[op.cur].state = "absent"
        /\ op.cur \in ClientIds
    BY <1>1, <1>5 DEF Submit, OpInv, Busy, TickSteps
  <2>2. ledger[op.cur].filled = 0
    BY <1>1, <2>1 DEF RowInv
  <2>. QED
    BY <1>1, <2>1, <2>2 DEF Prepare, Terminal
<1>6. CASE Acknowledge
  <2>1. /\ ledger' = Record(ledger, op.cur, "unknown", 0) /\ ledger[op.cur].state = "prepared"
        /\ op.cur \in ClientIds
    BY <1>1, <1>6 DEF Acknowledge, OpInv, Busy, TickSteps
  <2>2. ledger[op.cur].filled = 0
    BY <1>1, <2>1 DEF RowInv
  <2>. QED
    BY <1>3, <2>1, <2>2 DEF Unsettled
<1>7. CASE Detail
  <2>1. /\ op.cur \in ClientIds /\ ledger[op.cur].state \in Unsettled
        /\ ledger[op.cur].filled = 0 /\ venue[op.cur].state \in Accepted
    BY <1>1, <1>7 DEF Detail, OpInv, Busy, TickSteps, Unsettled
  <2>2. PICK v \in View(op.cur) : ledger' = Record(ledger, op.cur, v.state, v.filled)
    BY <1>7 DEF Detail
  <2>3. v.filled \in Nat
    BY <1>1, <2>1, <2>2, ViewFacts DEF IInv
  <2>. QED
    BY <1>3, <2>1, <2>2, <2>3
<1>8. CASE Lookup \/ CancelLookup
  <2>1. /\ op.cur \in ClientIds /\ ledger[op.cur].state \in Unsettled
        /\ venue[op.cur].state \in Accepted
    BY <1>1, <1>8 DEF Lookup, CancelLookup, OpInv, Busy, TickSteps
  <2>2. PICK v \in View(op.cur) :
          /\ Credible(op.cur, v)
          /\ \/ ledger' = Record(ledger, op.cur, v.state, v.filled)
             \/ ledger' = Record(ledger, op.cur, "unknown", v.filled)
    BY <1>8 DEF Lookup, CancelLookup, CancellationPending
  <2>3. v.filled \in Nat
    BY <1>1, <2>1, <2>2, ViewFacts DEF IInv
  <2>4. ledger[op.cur].filled <= v.filled
    BY <1>1, <2>1, <2>2, <2>3 DEF Credible, RowInv
  <2>. QED
    BY <1>3, <2>1, <2>2, <2>3, <2>4
<1>9. ASSUME NEW d \in ClientIds, ReconcileRow(d)
      PROVE  /\ ledger'[c].filled >= ledger[c].filled
             /\ ledger[c].state \in Terminal => ledger'[c] = ledger[c]
  <2>1. ledger[d].state \in Unsettled /\ venue[d].state \in Accepted
    BY <1>1, <1>9 DEF ReconcileRow, OpInv
  <2>2. PICK v \in View(d) : Credible(d, v) /\ ledger' = Record(ledger, d, v.state, v.filled)
    BY <1>9 DEF ReconcileRow
  <2>3. v.filled \in Nat
    BY <1>1, <2>1, <2>2, ViewFacts DEF IInv
  <2>4. ledger[d].filled <= v.filled
    BY <1>1, <2>1, <2>2, <2>3 DEF Credible, RowInv
  <2>. QED
    BY <1>3, <2>1, <2>2, <2>3, <2>4
<1>10. ASSUME NEW d \in ClientIds, ReconcileRowFails(d)
       PROVE  /\ ledger'[c].filled >= ledger[c].filled
              /\ ledger[c].state \in Terminal => ledger'[c] = ledger[c]
  BY <1>1, <1>4, <1>10 DEF ReconcileRowFails, OpInv
<1>11. CASE SubmissionUnconfirmed \/ ReconciliationUnconfirmed
  BY <1>1, <1>4, <1>11 DEF SubmissionUnconfirmed, ReconciliationUnconfirmed, OpInv, Busy,
                           TickSteps, Unsettled
<1>12. CASE UNCHANGED vars \/ Environment \/ Lifecycle \/ Abandon
  <2>1. UNCHANGED ledger
    BY <1>12 DEF vars, durable, Environment, VenueAccept, VenueLose, VenueFill, VenueCancel,
           Lapse, FallDue, Lifecycle, Stage,
           TickExpire, TickSubmit, TickReconcile, TickExit, EntryCancel, EntryWorking,
           EntryUnfilled, Monitor, FreezeExit, ExitGiveUp, ExitSubmit, ExitReconcile,
           ExitFilled, ClosePlan, ExitIncomplete, ExitCancel, ExitWorking, Abandon
  <2>. QED
    BY <1>2, <2>1
<1>13. CASE \/ Authorize \/ RevokeAuthority \/ RevokeStaged \/ ReconcileAccount
            \/ ReadPositions \/ ReadOrders \/ Post \/ LookupSettled \/ CancelCall
  <2>1. UNCHANGED ledger
    BY <1>13 DEF durable, Authorize, RevokeAuthority, RevokeStaged, ReconcileAccount,
           ReadPositions, ReadOrders, Post, LookupSettled, CancelCall
  <2>. QED
    BY <1>2, <2>1
<1>. QED
  BY <1>5, <1>6, <1>7, <1>8, <1>9, <1>10, <1>11, <1>12, <1>13
     DEF Next, Operator, Engine

\* The plans' share in it.
LEMMA PlanHistory ==
  IInv /\ [Next]_vars =>
    \A p \in Plans :
      /\ plans[p].exit > 0 => plans'[p].exit = plans[p].exit
      /\ plans[p].state \in TickDone => plans'[p] = plans[p]
<1>. SUFFICES ASSUME IInv, [Next]_vars, NEW p \in Plans
              PROVE  /\ plans[p].exit > 0 => plans'[p].exit = plans[p].exit
                     /\ plans[p].state \in TickDone => plans'[p] = plans[p]
  OBVIOUS
<1>1. TypeOK /\ OpInv /\ plans \in [Plans -> PlanRows] /\ op \in Ops
  BY DEF IInv, TypeOK
<1>2. CASE UNCHANGED plans
  BY <1>2
<1>3. ASSUME NEW q \in Plans, NEW s, Save(q, s), plans[q].state \notin TickDone
      PROVE  /\ plans[p].exit > 0 => plans'[p].exit = plans[p].exit
             /\ plans[p].state \in TickDone => plans'[p] = plans[p]
  BY <1>1, <1>3 DEF Save, PlanRows
<1>4. CASE RevokeStaged
  BY <1>1, <1>4 DEF RevokeStaged, StagedOnly, TickDone, PlanRows
<1>5. ASSUME NEW q \in Plans, Stage(q)
      PROVE  /\ plans[p].exit > 0 => plans'[p].exit = plans[p].exit
             /\ plans[p].state \in TickDone => plans'[p] = plans[p]
  BY <1>1, <1>5 DEF Stage, TickDone, PlanRows
<1>6. ASSUME NEW q \in Plans, TickExpire(q)
      PROVE  /\ plans[p].exit > 0 => plans'[p].exit = plans[p].exit
             /\ plans[p].state \in TickDone => plans'[p] = plans[p]
  BY <1>3, <1>6 DEF TickExpire, Ticking
<1>7. ASSUME NEW q \in Plans,
             \/ EntryWorking(q) \/ EntryUnfilled(q) \/ Monitor(q)
             \/ ExitGiveUp(q) \/ ExitIncomplete(q) \/ ExitWorking(q) \/ ClosePlan(q)
      PROVE  /\ plans[p].exit > 0 => plans'[p].exit = plans[p].exit
             /\ plans[p].state \in TickDone => plans'[p] = plans[p]
  <2>1. PICK s : Save(q, s)
    BY <1>7 DEF EntryWorking, EntryUnfilled, Monitor, ExitGiveUp, ExitIncomplete,
           ExitWorking, ClosePlan
  <2>2. plans[q].state \notin TickDone
    BY <1>1, <1>7 DEF EntryWorking, EntryUnfilled, Monitor, ExitGiveUp, ExitIncomplete,
           ExitWorking, ClosePlan, EntryResult, ExitResult, ExitStart, OpInv, Busy, TickSteps
  <2>. QED
    BY <1>3, <2>1, <2>2
<1>8. ASSUME NEW q \in Plans, FreezeExit(q)
      PROVE  /\ plans[p].exit > 0 => plans'[p].exit = plans[p].exit
             /\ plans[p].state \in TickDone => plans'[p] = plans[p]
  <2>1. plans[q].exit = 0 /\ plans[q].state \notin TickDone
    BY <1>1, <1>8 DEF FreezeExit, EntryResult, OpInv, Busy, TickSteps
  <2>2. plans' = [plans EXCEPT ![q] = [state |-> "exit_prepared", exit |-> ExitQuantity]]
    BY <1>8 DEF FreezeExit
  <2>. QED
    BY <1>1, <2>1, <2>2
<1>9. CASE UNCHANGED vars \/ Environment \/ Engine \/ Abandon
  <2>1. UNCHANGED plans
    BY <1>9 DEF vars, durable, Environment, VenueAccept, VenueLose, VenueFill, VenueCancel,
           Lapse, FallDue, Engine, Submit, Post, Acknowledge, Detail, SubmissionUnconfirmed,
           LookupSettled, Lookup, CancelLookup, CancelCall, ReconciliationUnconfirmed, Abandon
  <2>. QED
    BY <1>2, <2>1
<1>10. ASSUME NEW c \in ClientIds, NEW q \in Plans,
         \/ Authorize \/ RevokeAuthority \/ ReconcileAccount \/ ReadPositions \/ ReadOrders
         \/ ReconcileRow(c) \/ ReconcileRowFails(c)
         \/ TickSubmit(q) \/ TickReconcile(q) \/ TickExit(q) \/ EntryCancel(q)
         \/ ExitSubmit(q) \/ ExitReconcile(q) \/ ExitFilled(q) \/ ExitCancel(q)
       PROVE  UNCHANGED plans
  BY <1>10 DEF durable, Authorize, RevokeAuthority, ReconcileAccount, ReadPositions,
         ReadOrders, ReconcileRow, ReconcileRowFails, TickSubmit, TickReconcile, TickExit,
         EntryCancel, ExitSubmit, ExitReconcile, ExitFilled, ExitCancel
<1>11. CASE Operator
  BY <1>2, <1>4, <1>10, <1>11, IdFacts DEF Operator
<1>12. CASE Lifecycle
  BY <1>2, <1>5, <1>6, <1>7, <1>8, <1>10, <1>12, IdFacts DEF Lifecycle
<1>. QED
  BY <1>9, <1>11, <1>12 DEF Next

\* Evidence is never taken back (engine._reconcile, lifecycle.tick).
THEOREM HistoryIsKept == Spec => HistoryKept
BY Invariance, LedgerHistory, PlanHistory, PTL DEF Spec, HistoryKept

--------------------------------------------------------------------------------
\* The account implements RoundTrip

LEMMA PhaseFacts ==
  ASSUME NEW p \in Plans
  PROVE  /\ venue[Entry(p)].state = "none" => MarketPhase(p) = "unsent"
         /\ venue[Entry(p)].state # "none" =>
              /\ venue[Exit(p)].state # "none" => MarketPhase(p) = "selling"
              /\ venue[Exit(p)].state = "none" =>
                   /\ BuyOver(p) => MarketPhase(p) = "bought"
                   /\ ~BuyOver(p) => MarketPhase(p) = "buying"
BY DEF MarketPhase

LEMMA PhaseFactsNext ==
  ASSUME NEW p \in Plans
  PROVE  /\ venue'[Entry(p)].state = "none" => MarketPhase(p)' = "unsent"
         /\ venue'[Entry(p)].state # "none" =>
              /\ venue'[Exit(p)].state # "none" => MarketPhase(p)' = "selling"
              /\ venue'[Exit(p)].state = "none" =>
                   /\ BuyOver(p)' => MarketPhase(p)' = "bought"
                   /\ ~BuyOver(p)' => MarketPhase(p)' = "buying"
BY DEF MarketPhase

\* The mapped variables.
mphase == [p \in Plans |-> MarketPhase(p)]
mbought == [p \in Plans |-> venue[Entry(p)].filled]
msold == [p \in Plans |-> venue[Exit(p)].filled]

\* An order keeps the mapped state of the other plans.
LEMMA OthersKeep ==
  ASSUME NEW p \in Plans, NEW c \in {Entry(p), Exit(p)},
         \A d \in ClientIds \ {c} : venue'[d] = venue[d]
  PROVE  \A q \in Plans \ {p} :
           /\ MarketPhase(q)' = MarketPhase(q)
           /\ venue'[Entry(q)] = venue[Entry(q)] /\ venue'[Exit(q)] = venue[Exit(q)]
<1>. SUFFICES ASSUME NEW q \in Plans \ {p}
              PROVE  /\ MarketPhase(q)' = MarketPhase(q)
                     /\ venue'[Entry(q)] = venue[Entry(q)]
                     /\ venue'[Exit(q)] = venue[Exit(q)]
  OBVIOUS
<1>1. venue'[Entry(q)] = venue[Entry(q)] /\ venue'[Exit(q)] = venue[Exit(q)]
  BY IdFacts
<1>. QED
  BY <1>1 DEF MarketPhase, BuyOver

\* An order that was sent moves on at the broker: a purchase goes on or ends,
\* or shares of a settled purchase are sold.
LEMMA MarketMoves ==
  ASSUME IInv, NEW c \in ClientIds,
         venue[c].state \in {"wire", "working"},
         venue'[c].state \in Accepted \cup {"lost"},
         \/ venue'[c].filled = venue[c].filled
         \/ /\ venue[c].state = "working" /\ venue'[c].filled = venue[c].filled + 1
            /\ venue'[c].state \in {"working", "filled"},
         \A d \in ClientIds \ {c} : venue'[d] = venue[d]
  PROVE  [RT!RoundTripNext]_(RT!rvars)
<1>1. /\ TypeOK /\ VenueInv /\ NeverShort
      /\ \A d \in ClientIds : venue[d].filled \in Nat /\ Asked(d) \in 0 .. Qty
  BY SafetyFacts, AskedType DEF IInv, DataInv, TypeOK, VenueOrders
<1>2. PICK p \in Plans : c = Entry(p) \/ c = Exit(p)
  BY IdFacts
<1>3. \A q \in Plans \ {p} :
        /\ MarketPhase(q)' = MarketPhase(q)
        /\ venue'[Entry(q)] = venue[Entry(q)] /\ venue'[Exit(q)] = venue[Exit(q)]
  BY <1>2, OthersKeep
<1>4. CASE c = Entry(p)
  <2>1. /\ venue[Exit(p)].state = "none" /\ venue'[Exit(p)] = venue[Exit(p)]
        /\ ~BuyOver(p)
    BY <1>1, <1>4, IdFacts DEF NeverShort, BuyOver, Terminal
  <2>2. MarketPhase(p) = "buying" /\ MarketPhase(p)' \in {"buying", "bought"}
    BY <1>4, <2>1, PhaseFacts, PhaseFactsNext DEF Accepted, Terminal
  <2>3. mphase' \in {mphase, [mphase EXCEPT ![p] = "bought"]} /\ mphase[p] = "buying"
    BY <1>3, <2>2 DEF mphase
  <2>4. msold' = msold
    BY <1>3, <2>1 DEF msold
  <2>5. CASE venue'[c].filled = venue[c].filled
    <3>1. mbought' = mbought
      BY <1>3, <1>4, <2>5 DEF mbought
    <3>. QED
      BY <2>3, <2>4, <3>1 DEF RT!RoundTripNext, RT!FinishBuy, RT!rvars, mphase, mbought, msold
  <2>6. CASE venue[c].state = "working" /\ venue'[c].filled = venue[c].filled + 1
    <3>1. mbought' = [mbought EXCEPT ![p] = @ + 1]
      BY <1>3, <1>4, <2>6 DEF mbought
    <3>2. mbought[p] < Qty
      BY <1>1, <1>4, <2>6, QtyAssumption DEF mbought, VenueInv
    <3>3. RT!Buy(p)
      BY <2>3, <2>4, <3>1, <3>2 DEF RT!Buy, mphase, mbought, msold
    <3>. QED
      BY <3>3 DEF RT!RoundTripNext
  <2>. QED
    BY <2>5, <2>6
<1>5. CASE c = Exit(p)
  <2>1. /\ venue[Entry(p)].state \in Terminal /\ venue'[Entry(p)] = venue[Entry(p)]
        /\ venue[Exit(p)].state # "none" /\ venue'[Exit(p)].state # "none"
        /\ plans[p].exit = venue[Entry(p)].filled
    BY <1>1, <1>5, IdFacts DEF NeverShort, Accepted, Terminal
  <2>2. MarketPhase(p) = "selling" /\ MarketPhase(p)' = "selling"
    BY <2>1, PhaseFacts, PhaseFactsNext DEF Terminal
  <2>3. mphase' = mphase /\ mphase[p] = "selling" /\ mbought' = mbought
    BY <1>3, <2>1, <2>2 DEF mphase, mbought
  <2>4. CASE venue'[c].filled = venue[c].filled
    <3>1. msold' = msold
      BY <1>3, <1>5, <2>4 DEF msold
    <3>. QED
      BY <2>3, <3>1 DEF RT!rvars, mphase, mbought, msold
  <2>5. CASE venue[c].state = "working" /\ venue'[c].filled = venue[c].filled + 1
    <3>1. msold' = [msold EXCEPT ![p] = @ + 1]
      BY <1>3, <1>5, <2>5 DEF msold
    <3>2. msold[p] < mbought[p]
      BY <1>1, <1>5, <2>1, <2>5, IdFacts DEF msold, mbought, VenueInv
    <3>3. RT!Sell(p)
      BY <2>3, <3>1, <3>2 DEF RT!Sell, mphase, mbought, msold
    <3>. QED
      BY <3>3 DEF RT!RoundTripNext
  <2>. QED
    BY <2>4, <2>5
<1>. QED
  BY <1>2, <1>4, <1>5

\* An order goes out: the first purchase of a plan while no other plan holds
\* anything, or the one sale of a plan whose purchase is over.
LEMMA MarketSends == ASSUME IInv, Post PROVE RT!RoundTripNext
<1>. DEFINE c == op.cur
<1>1. /\ TypeOK /\ DataInv /\ OpInv /\ c \in ClientIds /\ Busy
      /\ venue[c].state = "none"
      /\ venue' = [venue EXCEPT ![c].state = "wire"]
  BY DEF IInv, Post, OpInv, Busy, TickSteps
<1>. HIDE DEF c
<1>2. /\ \A d \in ClientIds \ {c} : venue'[d] = venue[d]
      /\ venue'[c].state = "wire" /\ venue'[c].filled = venue[c].filled
  BY <1>1 DEF TypeOK, VenueOrders
<1>3. PICK p \in Plans : c = Entry(p) \/ c = Exit(p)
  BY <1>1, IdFacts
<1>4. \A q \in Plans \ {p} :
        /\ MarketPhase(q)' = MarketPhase(q)
        /\ venue'[Entry(q)] = venue[Entry(q)] /\ venue'[Exit(q)] = venue[Exit(q)]
  BY <1>2, <1>3, OthersKeep
<1>5. mbought' = mbought /\ msold' = msold
  BY <1>2, <1>3, <1>4, IdFacts DEF mbought, msold
<1>6. CASE c = Entry(p)
  <2>1. Active(p) /\ plans[p].exit = 0
    BY <1>1, <1>6, TickFacts DEF c
  <2>2. venue[Exit(p)].state = "none" /\ venue'[Exit(p)].state = "none"
    BY <1>1, <1>2, <1>6, <2>1, IdFacts DEF DataInv, ExitInv, VenueInv
  <2>3. MarketPhase(p) = "unsent" /\ MarketPhase(p)' = "buying"
    BY <1>1, <1>2, <1>6, <2>2, PhaseFacts, PhaseFactsNext DEF BuyOver, Terminal
  <2>4. mphase[p] = "unsent" /\ mphase' = [mphase EXCEPT ![p] = "buying"]
    BY <1>4, <2>3 DEF mphase
  <2>5. ASSUME NEW q \in Plans PROVE RT!Clear(q)
    <3>1. CASE q = p
      <4>1. venue[Entry(p)].filled = 0 /\ venue[Exit(p)].filled = 0
        BY <1>1, <1>6, <2>2, IdFacts DEF DataInv, VenueInv
      <4>. QED
        BY <2>3, <3>1, <4>1 DEF RT!Clear
    <3>2. CASE q # p
      <4>1. ~Active(q)
        BY <1>1, <2>1, <3>2 DEF DataInv, PlanInv
      <4>2. ~Exposed(q)
        <5>1. CASE plans[q].state \in Inactive
          BY <5>1, SafetyFacts DEF OverMeansOver
        <5>2. CASE plans[q].state = "absent"
          <6>1. /\ ledger[Entry(q)].state = "absent" /\ plans[q].exit = 0
                /\ ledger[Exit(q)].state = "absent"
            BY <1>1, <5>2 DEF DataInv, PlanInv, ExitInv
          <6>2. /\ venue[Entry(q)].state = "none" /\ venue[Entry(q)].filled = 0
                /\ venue[Exit(q)].state = "none" /\ venue[Exit(q)].filled = 0
            BY <1>1, <6>1, IdFacts DEF DataInv, VenueInv
          <6>. QED
            BY <6>2 DEF Exposed
        <5>. QED
          BY <4>1, <5>1, <5>2 DEF Active
      <4>3. venue[Entry(q)].state \in Accepted \cup {"none", "wire", "lost"}
        BY <1>1, IdFacts DEF TypeOK, VenueOrders
      <4>4. MarketPhase(q) # "buying"
        BY <4>2, <4>3, PhaseFacts DEF Exposed, BuyOver, Accepted
      <4>5. MarketPhase(q) \in {"unsent", "bought", "selling"}
        BY <4>4, PhaseFacts
      <4>. QED
        BY <4>2, <4>5 DEF RT!Clear, Exposed
    <3>. QED
      BY <3>1, <3>2
  <2>6. RT!SendBuy(p)
    BY <1>5, <2>4, <2>5 DEF RT!SendBuy, mphase, mbought, msold
  <2>. QED
    BY <2>6 DEF RT!RoundTripNext
<1>7. CASE c = Exit(p)
  <2>1. plans[p].exit > 0
    BY <1>1, <1>7, TickFacts DEF c
  <2>2. venue[Entry(p)].state \in Terminal /\ venue'[Entry(p)].state \in Terminal
    BY <1>1, <1>2, <1>7, <2>1, IdFacts DEF DataInv, ExitInv, LedgerTruthful
  <2>3. MarketPhase(p) = "bought" /\ MarketPhase(p)' = "selling"
    BY <1>1, <1>2, <1>7, <2>2, PhaseFacts, PhaseFactsNext DEF BuyOver, Terminal
  <2>4. mphase[p] = "bought" /\ mphase' = [mphase EXCEPT ![p] = "selling"]
    BY <1>4, <2>3 DEF mphase
  <2>5. RT!SendSell(p)
    BY <1>5, <2>4 DEF RT!SendSell, mphase, mbought, msold
  <2>. QED
    BY <2>5 DEF RT!RoundTripNext
<1>. QED
  BY <1>3, <1>6, <1>7

LEMMA RefinementStep == IInv /\ [Next]_vars => [RT!RoundTripNext]_(RT!rvars)
<1>. SUFFICES ASSUME IInv, [Next]_vars PROVE [RT!RoundTripNext]_(RT!rvars)
  OBVIOUS
<1>1. CASE UNCHANGED venue
  BY <1>1 DEF RT!rvars, MarketPhase, BuyOver
<1>2. CASE Post
  BY <1>2, MarketSends
<1>3. /\ TypeOK /\ VenueInv /\ OpInv /\ venue \in [ClientIds -> VenueOrders]
      /\ \A c \in ClientIds : venue[c].filled \in Nat
  BY DEF IInv, DataInv, TypeOK, VenueOrders
<1>4. ASSUME NEW c \in ClientIds, VenueAccept(c) \/ VenueLose(c) \/ VenueFill(c) \/ VenueCancel(c)
      PROVE  [RT!RoundTripNext]_(RT!rvars)
  <2>1. /\ venue[c].state \in {"wire", "working"}
        /\ \A d \in ClientIds \ {c} : venue'[d] = venue[d]
        /\ venue'[c].state \in Accepted \cup {"lost"}
        /\ \/ venue'[c].filled = venue[c].filled
           \/ /\ venue[c].state = "working" /\ venue'[c].filled = venue[c].filled + 1
              /\ venue'[c].state \in {"working", "filled"}
    BY <1>3, <1>4 DEF VenueAccept, VenueLose, VenueFill, VenueCancel, VenueOrders, Accepted,
                      Terminal
  <2>. QED
    BY <2>1, MarketMoves
<1>5. CASE CancelCall
  <2>1. CASE UNCHANGED venue
    BY <1>1, <2>1
  <2>2. CASE venue[op.cur].state = "working" /\ venue' = [venue EXCEPT ![op.cur].state = "cancelled"]
    <3>1. op.cur \in ClientIds
      BY <1>3, <1>5 DEF CancelCall, OpInv, Busy, TickSteps
    <3>. DEFINE c == op.cur
    <3>2. /\ venue[c].state \in {"wire", "working"}
          /\ \A d \in ClientIds \ {c} : venue'[d] = venue[d]
          /\ venue'[c].state \in Accepted \cup {"lost"}
          /\ venue'[c].filled = venue[c].filled
      BY <1>3, <2>2, <3>1 DEF VenueOrders, Accepted, Terminal
    <3>. HIDE DEF c
    <3>. QED
      BY <3>1, <3>2, MarketMoves DEF c
  <2>. QED
    BY <1>5, <2>1, <2>2 DEF CancelCall
<1>6. CASE \/ UNCHANGED vars \/ Operator \/ Lifecycle \/ Abandon
           \/ Submit \/ Acknowledge \/ Detail \/ SubmissionUnconfirmed
           \/ LookupSettled \/ Lookup \/ CancelLookup \/ ReconciliationUnconfirmed
           \/ \E c \in ClientIds : Lapse(c)
           \/ \E p \in Plans : FallDue(p)
  <2>1. UNCHANGED venue
    BY <1>6 DEF vars, Lapse, FallDue, Operator, Authorize, RevokeAuthority, RevokeStaged,
           ReconcileAccount, ReadPositions, ReadOrders, ReconcileRow, ReconcileRowFails,
           Submit, Acknowledge, Detail, SubmissionUnconfirmed, LookupSettled,
           Lookup, CancelLookup, ReconciliationUnconfirmed, Lifecycle, Stage,
           TickExpire, TickSubmit, TickReconcile, TickExit, EntryCancel, EntryWorking,
           EntryUnfilled, Monitor, FreezeExit, ExitGiveUp, ExitSubmit, ExitReconcile,
           ExitFilled, ClosePlan, ExitIncomplete, ExitCancel, ExitWorking, Abandon
  <2>. QED
    BY <1>1, <2>1
<1>. QED
  BY <1>2, <1>4, <1>5, <1>6 DEF Next, Environment, Engine

LEMMA RefinementInit == Init => RT!RoundTripInit
<1>. SUFFICES ASSUME Init PROVE RT!RoundTripInit
  OBVIOUS
<1>1. \A p \in Plans :
        /\ venue[Entry(p)].state = "none" /\ venue[Entry(p)].filled = 0
        /\ venue[Exit(p)].filled = 0
  BY IdFacts DEF Init
<1>2. \A p \in Plans : MarketPhase(p) = "unsent"
  BY <1>1, PhaseFacts
<1>. QED
  BY <1>1, <1>2 DEF RT!RoundTripInit

\* The account implements RoundTrip: whatever the engine, the lifecycle, the
\* operator, the broker and the crashes between them do, the market sees each
\* plan as one purchase and then one sale of what it bought, one plan at a time.
THEOREM Refinement == Spec => RoundTrips
BY Invariance, RefinementInit, RefinementStep, PTL DEF Spec, RoundTrips, RT!RoundTripSpec

================================================================================
