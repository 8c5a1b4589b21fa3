------------------------------ MODULE BrokerLedger ------------------------------
(***************************************************************************)
(* The durable intent ledger of one broker account: the sqlite table       *)
(* "intents" of alta_brokers/storage.py, as a value and the operators the  *)
(* engine applies to it.  There is no state machine here; BrokerAccount    *)
(* holds the ledger in a variable and changes it with Prepare, Record and  *)
(* MarkUnknown only, as BrokerEngine does.                                 *)
(*                                                                         *)
(* A plan owns at most two client ids: its entry order (BUY) and its one   *)
(* exit order (SELL, the identifier is derived from the plan id).  Prices, *)
(* timestamps and error texts are left out; fills are counted in shares.   *)
(***************************************************************************)
EXTENDS Integers, FiniteSets, FiniteSetsExt

CONSTANTS
  Plans,     \* identities of the approved plans that may be staged
  Symbols,   \* instruments
  SymbolOf,  \* the instrument each plan trades
  Qty        \* shares of an entry order

ASSUME PlansAssumption == IsFiniteSet(Plans)
ASSUME SymbolAssumption == SymbolOf \in [Plans -> Symbols]
ASSUME QtyAssumption == Qty \in Nat \ {0}

ClientIds == Plans \X {"entry", "exit"}
Entry(p) == <<p, "entry">>
Exit(p) == <<p, "exit">>

\* Order states the engine never asks the broker about again.
Terminal == {"filled", "cancelled", "rejected"}
\* Order states that block another submission (engine.submit).
Unsettled == {"prepared", "unknown", "working"}
\* States of an Order as an adapter may report it.
OrderStates == Terminal \cup {"working", "unknown"}

\* "known" is whether the result column is non-NULL; "filled" is the fill of
\* that result.  "absent" stands for no row with this primary key.
Rows == [state : Terminal \cup Unsettled \cup {"absent"},
         known : BOOLEAN, filled : 0 .. Qty]
Absent == [state |-> "absent", known |-> FALSE, filled |-> 0]
EmptyLedger == [c \in ClientIds |-> Absent]

--------------------------------------------------------------------------------
\* Mutant: the insert is not committed before the order goes out.
PrepareUncommitted(led, c) == led

\* Ledger.prepare for a client id without a row.
Prepare(led, c) ==
  [led EXCEPT ![c] = [state |-> "prepared", known |-> FALSE, filled |-> 0]]

\* Ledger.record with a result.
Record(led, c, state, filled) ==
  [led EXCEPT ![c] = [state |-> state, known |-> TRUE, filled |-> filled]]

\* Ledger.record("unknown") without a result: COALESCE keeps the earlier one.
MarkUnknown(led, c) == [led EXCEPT ![c].state = "unknown"]

UnsettledRows(led) == {c \in ClientIds : led[c].state \in Unsettled}

\* Shares bought minus shares sold, per instrument, that a family of fills
\* indexed by client id amounts to.
NetPosition(fill) ==
  [s \in Symbols |->
     MapThenSumSet(LAMBDA p : fill[Entry(p)] - fill[Exit(p)],
                   {p \in Plans : SymbolOf[p] = s})]

\* engine._position_book: what the recorded results say the account holds.
Book(led) == NetPosition([c \in ClientIds |-> led[c].filled])

NoPosition == [s \in Symbols |-> 0]

\* Ledger.flat_and_settled
FlatAndSettled(led) ==
  /\ \A c \in ClientIds :
       led[c].state # "absent" => led[c].state \in Terminal /\ led[c].known
  /\ Book(led) = NoPosition
================================================================================
