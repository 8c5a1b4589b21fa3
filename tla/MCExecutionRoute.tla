---------------------------- MODULE MCExecutionRoute ----------------------------
(***************************************************************************)
(* The broker side for TLC, in one run: the routes of ExecutionRoute, the   *)
(* adapters of BrokerAdapters, the reviews of AccountReview, the bridge of  *)
(* BrokerBridge and the market-data key of CredentialSlot.  Their modules   *)
(* share no state, so one of them runs in each behaviour; of the others     *)
(* nothing but the route's is kept.                                         *)
(***************************************************************************)
EXTENDS ExecutionRoute, FiniteSets, TLC

CONSTANTS
  Brokers,                         \* of BrokerAdapters and AccountReview
  Clients, Manuals, NoOrder, Qty,  \* of BrokerAdapters
  MaxRevision,                     \* of AccountReview
  Plans,                           \* of BrokerBridge
  Processes, Users,                \* of CredentialSlot
  Budget, MaxCycle

VARIABLES
  broker,
  order, row, call, asked,
  account, revision, ledger, armed, record, writing, last,
  proof, fence, state, at, about, result, pass, said, stop, close, early,
  mode, slot, cooldown, owner, decision, wait, request, budget, cooling,
  system  \* what runs

Adapter == INSTANCE BrokerAdapters WITH Providers <- Brokers, provider <- broker
Review == INSTANCE AccountReview WITH
  Providers <- Brokers, provider <- broker, authority <- armed
Bridge == INSTANCE BrokerBridge WITH broker <- state, plan <- about, last <- said
Slot == INSTANCE CredentialSlot WITH
  Adapters <- Users, Nobody <- None, call <- request

ASSUME BrokerSideAssumption ==
  /\ Adapter!AdapterAssumption /\ Review!ReviewAssumption
  /\ Bridge!BridgeAssumption /\ Slot!SlotAssumption

adapterVars == <<order, row, call, asked>>
reviewVars == <<account, revision, ledger, armed, record, writing, last>>
bridgeVars == <<proof, fence, state, at, about, result, pass, said, stop, close, early>>
slotVars == <<mode, slot, cooldown, owner, decision, wait, request, budget, cooling>>
systems == <<vars, broker, adapterVars, reviewVars, bridgeVars, slotVars, system>>

NoAdapter == order = None /\ row = None /\ call = None /\ asked = None
NoReview ==
  /\ account = None /\ revision = None /\ ledger = None /\ armed = None
  /\ record = None /\ writing = None /\ last = None
NoBridge ==
  /\ proof = None /\ fence = None /\ state = None /\ at = None /\ about = None /\ result = None
  /\ pass = None /\ said = None /\ stop = None /\ close = None /\ early = None
NoSlot ==
  /\ mode = None /\ slot = None /\ cooldown = None /\ owner = None /\ decision = None
  /\ wait = None /\ request = None /\ budget = None /\ cooling = None

MCInit ==
  /\ Init
  /\ \/ /\ system = "route" /\ broker = None
        /\ NoAdapter /\ NoReview /\ NoBridge /\ NoSlot
     \/ system = "adapter" /\ Adapter!Init /\ NoReview /\ NoBridge /\ NoSlot
     \/ system = "review" /\ Review!Init /\ NoAdapter /\ NoBridge /\ NoSlot
     \/ /\ system = "bridge" /\ Bridge!Init /\ broker = None
        /\ NoAdapter /\ NoReview /\ NoSlot
     \/ /\ system = "slot" /\ Slot!Init /\ broker = None
        /\ NoAdapter /\ NoReview /\ NoBridge

MCNext ==
  /\ UNCHANGED <<system, broker>>
  /\ \/ /\ system = "route" /\ Next
        /\ UNCHANGED <<adapterVars, reviewVars, bridgeVars, slotVars>>
     \/ /\ system = "adapter" /\ Adapter!Next
        /\ UNCHANGED <<vars, reviewVars, bridgeVars, slotVars>>
     \/ /\ system = "review" /\ Review!Next
        /\ UNCHANGED <<vars, adapterVars, bridgeVars, slotVars>>
     \/ /\ system = "bridge" /\ Bridge!Next
        /\ UNCHANGED <<vars, adapterVars, reviewVars, slotVars>>
     \/ /\ system = "slot" /\ Slot!Next
        /\ UNCHANGED <<vars, adapterVars, reviewVars, bridgeVars>>

MCSpec == MCInit /\ [][MCNext]_systems

\* The brokers of the routes, account numbers and keys are interchangeable.
RouteSymmetry ==
  Permutations(Providers) \cup Permutations(Accounts) \cup Permutations(Keys)

--------------------------------------------------------------------------------
\* Whatever accounts were configured, armed, rotated and left half-written: only
\* the selected account is armed, it stays selected while it holds anything, and
\* the stored route describes a profile as it is (routing.py:63, storage.py:207).
RouteTruthful == OneArmedLane /\ HeldStaysSelected /\ RouteStaysValid

\* Whatever a broker leaves unsaid, lists late or fills meanwhile, what the
\* ledger says of an intent is true of its own order, and no other order is
\* ever cancelled (adapters/*.py, engine.py:269); an account is called eligible
\* on what the last probe found of it alone, and armed only where the adapter
\* can prove account and permission (verification.py:58, engine.py:47).
AnswersTruthful == system = "adapter" => Adapter!AnswersTruthful
ReviewTruthful == system = "review" => Review!ReviewTruthful
AdaptersTruthful == AnswersTruthful /\ ReviewTruthful

\* A plan is staged only under an audit of its own, one pass at a time ticks it,
\* nothing is sent once the runtime stops, no record runs ahead of the broker
\* (broker_bridge.py:65); and the market-data key changes hands only when its
\* owner gives it up, its pauses with it (massive_lease.py:38, massive.py:174).
BridgeTruthful == system = "bridge" => Bridge!BridgeTruthful
SlotTruthful == system = "slot" => Slot!SlotTruthful
ResearchSideTruthful == BridgeTruthful /\ SlotTruthful
================================================================================
