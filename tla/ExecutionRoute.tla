------------------------------ MODULE ExecutionRoute ------------------------------
(***************************************************************************)
(* Which broker account may trade: credential profiles (Profiles.save),    *)
(* the selected route (ExecutionRoute), the account's authority file and   *)
(* the research process that pinned a route when it started.               *)
(*                                                                         *)
(* Every operation runs in a child process that holds route.lock; what     *)
(* remains are children killed between two file writes, and a research     *)
(* process whose route was changed under it.  An account's ledger and its  *)
(* orders, BrokerAccount's subject, are one word here.                     *)
(*                                                                         *)
(* A binding is a provider and an account number (the environment is part  *)
(* of the number); its revision is the hash of the profile's contents, so  *)
(* within a binding the key stands for it.                                 *)
(***************************************************************************)
EXTENDS Naturals

CONSTANTS
  Providers,     \* brokers
  Accounts,      \* account numbers
  Keys,          \* the rest of a profile: credentials and limits
  None,          \* no file, no selection, no process
  MaxGeneration  \* bound: selections made

ASSUME RouteAssumption ==
  /\ MaxGeneration \in Nat
  /\ None \notin [account : Accounts, key : Keys]
  /\ None \notin Keys

VARIABLES
  profile,     \* broker-profiles/<provider>.json
  selected,    \* execution-route.json without its generation
  generation,  \* number of selections made, for the route's random generation
  authority,   \* <binding>/authority.json
  exposure,    \* <binding>/ledger: how far its latest order has come
  plan,        \* <binding>/ledger: key of the staged plan, not yet submitted
  pending,     \* what the child holding route.lock has yet to write
  lane,        \* route the research process pinned
  granted      \* history: accounts authorized in the present selection

files == <<profile, selected, generation, authority>>
ledgers == <<exposure, plan>>
vars == <<files, ledgers, pending, lane, granted>>

--------------------------------------------------------------------------------
Bindings == Providers \X Accounts
Profiles == [account : Accounts, key : Keys]
Routes == [provider : Providers, account : Accounts, key : Keys]
Lanes == [provider : Providers, account : Accounts, key : Keys, generation : Nat]
Authorities == [mode : {"off", "entries", "close_only"}, key : Keys]

\* buying: the entry is unsettled; held: shares; selling: the exit is unsettled.
Exposures == {"flat", "buying", "held", "selling"}

\* A profile that is still to be written, or staged plans still to be expired.
Pending == [write : {"profile"}, provider : Providers, profile : Profiles]
             \cup [write : {"plans"}, binding : Bindings]

TypeOK ==
  /\ profile \in [Providers -> Profiles \cup {None}]
  /\ selected \in Routes \cup {None}
  /\ generation \in Nat
  /\ authority \in [Bindings -> Authorities \cup {None}]
  /\ exposure \in [Bindings -> Exposures]
  /\ plan \in [Bindings -> Keys \cup {None}]
  /\ pending \in Pending \cup {None}
  /\ lane \in Lanes \cup {None}
  /\ granted \subseteq Bindings

Init ==
  /\ profile = [p \in Providers |-> None]
  /\ selected = None
  /\ generation = 0
  /\ authority = [b \in Bindings |-> None]
  /\ exposure = [b \in Bindings |-> "flat"]
  /\ plan = [b \in Bindings |-> None]
  /\ pending = None
  /\ lane = None
  /\ granted = {}

--------------------------------------------------------------------------------
Configured(p) == profile[p] # None
Binding(p) == <<p, profile[p].account>>

\* engine._authority: the file's mode, or an error if the file was written for
\* another revision of the profile.
Readable(p) == authority[Binding(p)] # None => authority[Binding(p)].key = profile[p].key
Mode(b) == IF authority[b] = None THEN "off" ELSE authority[b].mode

\* Ledger.flat_and_settled
FlatAndSettled(b) == exposure[b] = "flat"

Route(p) == [provider |-> p, account |-> profile[p].account, key |-> profile[p].key]

\* ExecutionRoute.state raises unless the route describes the profile as it is.
RouteValid == selected # None => Configured(selected.provider) /\ selected = Route(selected.provider)

\* ExecutionRoute.selected, for a request about p's current profile.
Selected(p) == selected # None /\ RouteValid /\ selected = Route(p)

Write(b, mode, key) == authority' = [authority EXCEPT ![b] = [mode |-> mode, key |-> key]]

--------------------------------------------------------------------------------
\* The operator's child processes (alta_brokers.__main__), one at a time

\* Mutant: the selected provider's credentials may be changed in place.
AnyProvider(p) == TRUE

NotRouted(p) == selected # None => selected.provider # p

\* The previous account of this provider is disarmed and holds nothing.
Retired(p) ==
  Configured(p) => Mode(Binding(p)) = "off" /\ FlatAndSettled(Binding(p))

\* Profiles.save of a first profile, or one for another account.
SaveProfile(p) ==
  /\ pending = None
  /\ NotRouted(p) /\ Retired(p)
  /\ \E new \in Profiles :
       /\ Configured(p) => new.account # profile[p].account
       /\ profile' = [profile EXCEPT ![p] = new]
  /\ UNCHANGED <<selected, generation, authority, ledgers, pending, lane, granted>>

\* Profiles.save of new credentials: the authority is turned off for the new
\* revision before the profile has it ...
RotateCredentials(p) ==
  /\ pending = None
  /\ Configured(p)
  /\ NotRouted(p) /\ Retired(p)
  /\ \E new \in Profiles :
       /\ new.account = profile[p].account
       /\ Write(Binding(p), "off", new.key)
       /\ pending' = [write |-> "profile", provider |-> p, profile |-> new]
  /\ UNCHANGED <<profile, selected, generation, ledgers, lane, granted>>

\* ... and the profile is written.
FinishRotation ==
  /\ pending # None /\ pending.write = "profile"
  /\ profile' = [profile EXCEPT ![pending.provider] = pending.profile]
  /\ pending' = None
  /\ UNCHANGED <<selected, generation, authority, ledgers, lane, granted>>

\* Mutant: only the lane to be selected is inspected.
ThisLaneOff(q) ==
  \A p \in Providers : p = q /\ Configured(p) =>
    Readable(p) /\ Mode(Binding(p)) = "off" /\ FlatAndSettled(Binding(p))

\* Mutant: authority alone is inspected, not the ledger.
EveryLaneDisarmed(q) ==
  \A p \in Providers : Configured(p) => Readable(p) /\ Mode(Binding(p)) = "off"

EveryLaneOff(q) ==
  \A p \in Providers : Configured(p) =>
    Readable(p) /\ Mode(Binding(p)) = "off" /\ FlatAndSettled(Binding(p))

Select(q) ==
  /\ pending = None
  /\ generation < MaxGeneration
  /\ RouteValid
  /\ q # None => Configured(q)
  /\ EveryLaneOff(q)
  /\ selected' = IF q = None THEN None ELSE Route(q)
  /\ generation' = generation + 1
  /\ granted' = {}
  /\ UNCHANGED <<profile, authority, ledgers, pending, lane>>

MayAuthorize(p) == Configured(p) /\ Selected(p)

\* engine.authorize: the account is empty and its ledger settled.
Authorize(p) ==
  /\ pending = None
  /\ MayAuthorize(p)
  /\ FlatAndSettled(Binding(p))
  /\ Write(Binding(p), "entries", profile[p].key)
  /\ granted' = granted \cup {Binding(p)}
  /\ UNCHANGED <<profile, selected, generation, ledgers, pending, lane>>

Revoked(b) == IF FlatAndSettled(b) THEN "off" ELSE "close_only"

\* engine.revoke writes the authority file, for any configured account ...
Revoke(p) ==
  /\ pending = None
  /\ Configured(p)
  /\ Write(Binding(p), Revoked(Binding(p)), profile[p].key)
  /\ pending' = [write |-> "plans", binding |-> Binding(p)]
  /\ UNCHANGED <<profile, selected, generation, ledgers, lane, granted>>

\* ... and then expires what is staged.
FinishRevoke ==
  /\ pending # None /\ pending.write = "plans"
  /\ plan' = [plan EXCEPT ![pending.binding] = None]
  /\ pending' = None
  /\ UNCHANGED <<files, exposure, lane, granted>>

\* A lookup of the latest order finds it over, or learns nothing new.
Observed(e) ==
  CASE e = "buying" -> {"buying", "flat", "held"}
    [] e = "selling" -> {"selling", "flat", "held"}
    [] OTHER -> {e}

\* engine.reconcile: with no position in the snapshot nor in the book the
\* authority of a revoked account goes off, unsettled entry or not.
Reconcile(p) ==
  /\ pending = None
  /\ Configured(p)
  /\ LET b == Binding(p) IN
       \E e \in Observed(exposure[b]) :
         /\ exposure' = [exposure EXCEPT ![b] = e]
         /\ IF Readable(p) /\ Mode(b) = "close_only" /\ e \in {"flat", "buying"}
              THEN authority' \in {authority, [authority EXCEPT ![b].mode = "off"]}
              ELSE UNCHANGED authority
  /\ UNCHANGED <<profile, selected, generation, plan, pending, lane, granted>>

\* The console's deadline kills the child; its lock goes with it.
Kill ==
  /\ pending # None
  /\ pending' = None
  /\ UNCHANGED <<files, ledgers, lane, granted>>

--------------------------------------------------------------------------------
\* The research process (selected_broker, research_rpc)

\* It reads the route without the lock.
Start ==
  /\ lane = None
  /\ selected # None /\ RouteValid
  /\ lane' = [provider |-> selected.provider, account |-> selected.account,
              key |-> selected.key, generation |-> generation]
  /\ UNCHANGED <<files, ledgers, pending, granted>>

Stop ==
  /\ lane # None
  /\ lane' = None
  /\ UNCHANGED <<files, ledgers, pending, granted>>

\* Mutant: the provider and its profile are compared, not the selection.
SameProfile ==
  /\ Configured(lane.provider) /\ Selected(lane.provider)
  /\ lane.account = profile[lane.provider].account
  /\ lane.key = profile[lane.provider].key

SameSelection ==
  /\ Configured(lane.provider) /\ Selected(lane.provider)
  /\ lane.account = profile[lane.provider].account
  /\ lane.key = profile[lane.provider].key
  /\ lane.generation = generation

\* handle_research, under route.lock
Research(b) ==
  /\ pending = None
  /\ lane # None
  /\ SameSelection
  /\ b = Binding(lane.provider)

\* lifecycle.stage: one plan per account, only while entries are authorized.
Stage(b) ==
  /\ Research(b)
  /\ Readable(lane.provider) /\ Mode(b) = "entries"
  /\ plan[b] = None /\ exposure[b] = "flat"
  /\ plan' = [plan EXCEPT ![b] = lane.key]
  /\ UNCHANGED <<files, exposure, pending, lane, granted>>

\* lifecycle.tick of a staged plan that has lapsed or been revoked
TickExpire(b) ==
  /\ Research(b)
  /\ plan[b] = lane.key
  /\ Readable(lane.provider)
  /\ plan' = [plan EXCEPT ![b] = None]
  /\ UNCHANGED <<files, exposure, pending, lane, granted>>

Armed(b, modes) == Readable(lane.provider) /\ Mode(b) \in modes

\* lifecycle.tick submits the entry ...
TickBuy(b) ==
  /\ Research(b)
  /\ plan[b] = lane.key
  /\ Armed(b, {"entries"})
  /\ exposure[b] = "flat"
  /\ exposure' = [exposure EXCEPT ![b] = "buying"]
  /\ plan' = [plan EXCEPT ![b] = None]
  /\ UNCHANGED <<files, pending, lane, granted>>

\* ... looks the order up ...
TickLookup(b) ==
  /\ Research(b)
  /\ exposure' \in {[exposure EXCEPT ![b] = e] : e \in Observed(exposure[b])}
  /\ UNCHANGED <<files, plan, pending, lane, granted>>

\* ... and submits the exit.
TickSell(b) ==
  /\ Research(b)
  /\ Armed(b, {"entries", "close_only"})
  /\ exposure[b] = "held"
  /\ exposure' = [exposure EXCEPT ![b] = "selling"]
  /\ UNCHANGED <<files, plan, pending, lane, granted>>

--------------------------------------------------------------------------------
Operator(p) ==
  \/ SaveProfile(p) \/ RotateCredentials(p) \/ Authorize(p)
  \/ Revoke(p) \/ Reconcile(p)

Worker(b) ==
  \/ Stage(b) \/ TickExpire(b) \/ TickBuy(b) \/ TickLookup(b) \/ TickSell(b)

Next ==
  \/ \E p \in Providers : Operator(p)
  \/ \E q \in Providers \cup {None} : Select(q)
  \/ FinishRotation \/ FinishRevoke \/ Kill
  \/ Start \/ Stop
  \/ \E b \in Bindings : Worker(b)

Spec == Init /\ [][Next]_vars

--------------------------------------------------------------------------------
\* Correctness

\* One execution destination (ExecutionRoute.select): an account that is armed
\* is the selected one, armed in this selection and for the credentials it has
\* now, whatever other accounts were configured, armed and rotated before.
OneArmedLane ==
  \A b \in Bindings :
    Mode(b) # "off" =>
      /\ selected # None /\ b = <<selected.provider, selected.account>>
      /\ Selected(selected.provider)
      /\ authority[b].key = selected.key
      /\ b \in granted

\* An account with shares or an unsettled order stays the selected one, with
\* the credentials it was traded with, until it is flat: nothing the operator
\* does to routes and credentials takes its exit away.
HeldStaysSelected ==
  \A b \in Bindings :
    exposure[b] # "flat" =>
      /\ selected # None /\ b = <<selected.provider, selected.account>>
      /\ Selected(selected.provider)
      /\ b \in granted

\* The route never refers to a profile that is gone or was changed since, even
\* if a child dies halfway: ExecutionRoute.state does not fail.
RouteStaysValid == RouteValid

\* Orders go out only from a process that pinned the present selection, to the
\* account authorized in it: never for a selection that was left, even if the
\* same account with the same credentials was selected again.
OrdersInSelection ==
  [][\A b \in Bindings :
       exposure'[b] # exposure[b] /\ exposure'[b] \in {"buying", "selling"} =>
         /\ lane # None /\ lane.generation = generation
         /\ b = <<lane.provider, lane.account>>
         /\ b \in granted
         /\ authority[b].key = lane.key]_vars
================================================================================
