-------------------------------- MODULE RoundTrip --------------------------------
(***************************************************************************)
(* What a broker account promises about the orders it puts on the market,  *)
(* whatever fails inside it: each plan is at most one purchase followed by *)
(* at most one sale of exactly the shares that purchase came to, and a new *)
(* plan's purchase starts only when every earlier plan holds nothing.      *)
(* There is no ledger, lifecycle, process or operator here, only orders    *)
(* sent and shares traded.  BrokerAccount implements this specification.   *)
(***************************************************************************)
EXTENDS Integers

CONSTANTS Plans, Qty

VARIABLES
  phase,   \* how far each plan's orders have got
  bought,  \* shares bought for the plan
  sold     \* shares of the plan sold again

rvars == <<phase, bought, sold>>

Phases == {"unsent", "buying", "bought", "selling"}

RoundTripInit ==
  /\ phase = [p \in Plans |-> "unsent"]
  /\ bought = [p \in Plans |-> 0]
  /\ sold = [p \in Plans |-> 0]

\* Neither shares nor an order that could still bring some.
Clear(q) == phase[q] \in {"unsent", "bought", "selling"} /\ bought[q] = sold[q]

SendBuy(p) ==
  /\ phase[p] = "unsent"
  /\ \A q \in Plans : Clear(q)
  /\ phase' = [phase EXCEPT ![p] = "buying"]
  /\ UNCHANGED <<bought, sold>>

Buy(p) ==
  /\ phase[p] = "buying"
  /\ bought[p] < Qty
  /\ bought' = [bought EXCEPT ![p] = @ + 1]
  /\ phase' \in {phase, [phase EXCEPT ![p] = "bought"]}
  /\ UNCHANGED sold

\* The purchase is over: nothing more will be bought for this plan.
FinishBuy(p) ==
  /\ phase[p] = "buying"
  /\ phase' = [phase EXCEPT ![p] = "bought"]
  /\ UNCHANGED <<bought, sold>>

SendSell(p) ==
  /\ phase[p] = "bought"
  /\ phase' = [phase EXCEPT ![p] = "selling"]
  /\ UNCHANGED <<bought, sold>>

Sell(p) ==
  /\ phase[p] = "selling"
  /\ sold[p] < bought[p]
  /\ sold' = [sold EXCEPT ![p] = @ + 1]
  /\ UNCHANGED <<phase, bought>>

RoundTripNext ==
  \E p \in Plans : SendBuy(p) \/ Buy(p) \/ FinishBuy(p) \/ SendSell(p) \/ Sell(p)

RoundTripSpec == RoundTripInit /\ [][RoundTripNext]_rvars
================================================================================
