----------------------------- MODULE MCBrokerAccount -----------------------------
(***************************************************************************)
(* Instances of BrokerAccount for TLC: two plans that trade one            *)
(* instrument, entries of one or two shares (two make partial fills).      *)
(***************************************************************************)
EXTENDS BrokerAccount, TLC

CONSTANTS stock, p1, p2

TradesStock == [p \in Plans |-> stock]

PlanSymmetry == Permutations(Plans)

================================================================================
