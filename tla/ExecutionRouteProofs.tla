--------------------------- MODULE ExecutionRouteProofs ---------------------------
(***************************************************************************)
(* The safety of the broker side, for every set of providers, accounts,     *)
(* keys, intents, plans, processes and users of a key.                      *)
(*                                                                         *)
(* Route.  OneArmedLane and HeldStaysSelected need each other: selecting    *)
(* another account inspects only the accounts the profiles name now, and it *)
(* is because what is armed or held is the selected account, whose profile  *)
(* cannot be changed, that the inspection misses nothing.  The profile a    *)
(* rotation has still to write must concern neither (RotationHarmless).     *)
(*                                                                         *)
(* The other four share no state with it nor with one another; each has an  *)
(* inductive invariant of its own (AdapterInv, ReviewInv, BridgeInv,        *)
(* SlotInv), and PartsInv holds that of the system that runs.               *)
(***************************************************************************)
EXTENDS MCExecutionRoute, TLAPS

\* What a child has yet to write touches no account that is selected.
RotationHarmless ==
  pending # None /\ pending.write = "profile" =>
    /\ pending.provider \in Providers /\ pending.profile \in Profiles
    /\ NotRouted(pending.provider)

RouteInv ==
  /\ TypeOK /\ OneArmedLane /\ HeldStaysSelected /\ RouteStaysValid
  /\ RotationHarmless

--------------------------------------------------------------------------------
\* A provider that is not routed has no account that is armed or in use.
LEMMA UnroutedIdle ==
  ASSUME RouteInv, NEW b \in Bindings, ~ (selected # None /\ b[1] = selected.provider)
  PROVE  Mode(b) = "off" /\ exposure[b] = "flat"
BY DEF RouteInv, OneArmedLane, HeldStaysSelected, Bindings

\* select's inspection of the profiles covers every account.
LEMMA AllLanesOff ==
  ASSUME RouteInv, NEW q, EveryLaneOff(q), NEW b \in Bindings
  PROVE  Mode(b) = "off" /\ exposure[b] = "flat"
<1>1. CASE selected = None
  BY <1>1, UnroutedIdle
<1>2. CASE selected # None
  <2>1. selected \in Routes
    BY <1>2 DEF RouteInv, TypeOK
  <2>2. selected.provider \in Providers /\ Configured(selected.provider)
    BY <1>2, <2>1 DEF Routes, RouteInv, RouteStaysValid, RouteValid
  <2>3. selected.account = profile[selected.provider].account
    BY <1>2 DEF RouteInv, RouteStaysValid, RouteValid, Route
  <2>4. Binding(selected.provider) = <<selected.provider, selected.account>>
    BY <2>3 DEF Binding
  <2>5. /\ Mode(<<selected.provider, selected.account>>) = "off"
        /\ exposure[<<selected.provider, selected.account>>] = "flat"
    BY <2>2, <2>4 DEF EveryLaneOff, FlatAndSettled
  <2> QED BY <2>5 DEF RouteInv, OneArmedLane, HeldStaysSelected
<1> QED BY <1>1, <1>2

--------------------------------------------------------------------------------
\* No profile, no selection: nothing is armed.
LEMMA RouteInit == Init => RouteInv
BY RouteAssumption
   DEF Init, RouteInv, TypeOK, OneArmedLane, HeldStaysSelected, RouteStaysValid,
       RouteValid, RotationHarmless, Mode, Exposures, Bindings

\* Profiles that are not the selected one may change; nothing else did.
LEMMA ProfileStep ==
  ASSUME RouteInv, NEW p \in Providers, NEW new \in Profiles,
         NotRouted(p),
         profile' = [profile EXCEPT ![p] = new],
         pending' = None,
         UNCHANGED <<selected, generation, authority, ledgers, lane, granted>>
  PROVE  RouteInv'
<1> USE DEF RouteInv
<1>1. TypeOK'
  BY DEF TypeOK, ledgers
<1>2. selected # None => selected.provider \in Providers
  BY DEF TypeOK, Routes
<1>3. selected # None => profile'[selected.provider] = profile[selected.provider]
  BY <1>2 DEF NotRouted, TypeOK
<1>4. RouteStaysValid'
  BY <1>3 DEF RouteStaysValid, RouteValid, Configured, Route
<1>5. OneArmedLane'
  BY <1>3 DEF OneArmedLane, Selected, Mode, RouteStaysValid, RouteValid, Configured, Route
<1>6. HeldStaysSelected'
  BY <1>3 DEF HeldStaysSelected, Selected, RouteStaysValid, RouteValid, Configured, Route,
                ledgers
<1>7. RotationHarmless'
  BY DEF RotationHarmless
<1> QED BY <1>1, <1>4, <1>5, <1>6, <1>7

\* Steps that change neither routes nor profiles keep the selected lane.
LEMMA SameRoute ==
  ASSUME UNCHANGED <<profile, selected>>
  PROVE  /\ RouteValid' <=> RouteValid
         /\ \A p : Selected(p)' <=> Selected(p)
         /\ \A p : NotRouted(p)' <=> NotRouted(p)
BY DEF RouteValid, Selected, NotRouted, Configured, Route

LEMMA BindingTyped ==
  ASSUME TypeOK, NEW p \in Providers, Configured(p)
  PROVE  /\ profile[p] \in Profiles
         /\ Binding(p) \in Bindings
         /\ Route(p) \in Routes
         /\ profile[p].key \in Keys
BY DEF TypeOK, Configured, Binding, Bindings, Profiles, Route, Routes

--------------------------------------------------------------------------------
\* The operator's children: saving, rotating, authorizing, revoking, reconciling.
LEMMA OperatorStep ==
  ASSUME RouteInv, NEW p \in Providers, Operator(p)
  PROVE  RouteInv'
<1>1. CASE SaveProfile(p)
  BY <1>1, ProfileStep DEF SaveProfile
<1>2. CASE RotateCredentials(p)
  <2>1. PICK new \in Profiles :
          /\ new.account = profile[p].account
          /\ Write(Binding(p), "off", new.key)
          /\ pending' = [write |-> "profile", provider |-> p, profile |-> new]
    BY <1>2 DEF RotateCredentials
  <2>2. UNCHANGED <<profile, selected, generation, exposure, plan, lane, granted>>
    BY <1>2 DEF RotateCredentials, ledgers
  <2>3. NotRouted(p) /\ Configured(p)
    BY <1>2 DEF RotateCredentials
  <2>4. Binding(p) \in Bindings /\ new.key \in Keys
    BY <2>3, BindingTyped DEF RouteInv, Profiles
  <2>5. TypeOK'
    <3>1. authority' \in [Bindings -> Authorities \cup {None}]
      BY <2>1, <2>4 DEF RouteInv, TypeOK, Write, Authorities
    <3>2. pending' \in Pending
      BY <2>1 DEF Pending
    <3> QED BY <2>2, <3>1, <3>2 DEF RouteInv, TypeOK
  <2>6. \A b \in Bindings : authority'[b] = authority[b] \/ Mode(b)' = "off"
    BY <2>1, <2>4 DEF RouteInv, TypeOK, Write, Mode
  <2>7. OneArmedLane'
    BY <2>2, <2>6, SameRoute DEF RouteInv, OneArmedLane, Mode
  <2>8. HeldStaysSelected' /\ RouteStaysValid'
    BY <2>2, SameRoute DEF RouteInv, HeldStaysSelected, RouteStaysValid
  <2>9. RotationHarmless'
    BY <2>1, <2>2, <2>3, SameRoute DEF RotationHarmless, NotRouted
  <2> QED BY <2>5, <2>7, <2>8, <2>9 DEF RouteInv
<1>3. CASE Authorize(p)
  <2>1. /\ Configured(p) /\ Selected(p) /\ pending = None
        /\ exposure[Binding(p)] = "flat"
        /\ Write(Binding(p), "entries", profile[p].key)
        /\ granted' = granted \cup {Binding(p)}
        /\ UNCHANGED <<profile, selected, generation, exposure, plan, pending, lane>>
    BY <1>3 DEF Authorize, MayAuthorize, FlatAndSettled, ledgers
  <2>2. /\ Binding(p) \in Bindings
        /\ profile[p].key \in Keys
    BY <2>1, BindingTyped DEF RouteInv
  <2>3. TypeOK'
    <3>1. authority' \in [Bindings -> Authorities \cup {None}]
      BY <2>1, <2>2 DEF RouteInv, TypeOK, Write, Authorities
    <3>2. granted' \subseteq Bindings
      BY <2>1, <2>2 DEF RouteInv, TypeOK
    <3> QED BY <2>1, <3>1, <3>2 DEF RouteInv, TypeOK
  <2>4. /\ selected # None /\ Binding(p) = <<selected.provider, selected.account>>
        /\ selected.provider = p /\ selected.key = profile[p].key
    BY <2>1 DEF Selected, Route, Binding
  <2>5. OneArmedLane'
    <3>1. /\ \A b \in Bindings : b # Binding(p) => authority'[b] = authority[b]
          /\ granted \subseteq granted'
      BY <2>1, <2>2 DEF RouteInv, TypeOK, Write
    <3>2. /\ authority'[Binding(p)].key = selected.key
          /\ Binding(p) \in granted'
      BY <2>1, <2>2, <2>4 DEF RouteInv, TypeOK, Write
    <3> QED BY <2>1, <2>4, <3>1, <3>2, SameRoute DEF RouteInv, OneArmedLane, Mode
  <2>6. HeldStaysSelected'
    BY <2>1, <2>2, SameRoute DEF RouteInv, TypeOK, HeldStaysSelected
  <2>7. RouteStaysValid' /\ RotationHarmless'
    BY <2>1, SameRoute DEF RouteInv, RouteStaysValid, RotationHarmless
  <2> QED BY <2>3, <2>5, <2>6, <2>7 DEF RouteInv
<1>4. CASE Revoke(p)
  <2>1. /\ Configured(p)
        /\ Write(Binding(p), Revoked(Binding(p)), profile[p].key)
        /\ pending' = [write |-> "plans", binding |-> Binding(p)]
        /\ UNCHANGED <<profile, selected, generation, exposure, plan, lane, granted>>
    BY <1>4 DEF Revoke, ledgers
  <2>2. Binding(p) \in Bindings /\ profile[p].key \in Keys
    BY <2>1, BindingTyped DEF RouteInv
  <2>3. TypeOK'
    <3>1. authority' \in [Bindings -> Authorities \cup {None}]
      BY <2>1, <2>2 DEF RouteInv, TypeOK, Write, Authorities, Revoked
    <3>2. pending' \in Pending
      BY <2>1, <2>2 DEF Pending
    <3> QED BY <2>1, <3>1, <3>2 DEF RouteInv, TypeOK
  <2>4. OneArmedLane'
    <3> SUFFICES ASSUME NEW b \in Bindings, Mode(b)' # "off"
                 PROVE  (/\ selected # None /\ b = <<selected.provider, selected.account>>
                         /\ Selected(selected.provider)
                         /\ authority[b].key = selected.key
                         /\ b \in granted)'
      BY DEF OneArmedLane
    <3>1. CASE b # Binding(p)
      <4>1. authority'[b] = authority[b]
        BY <2>1, <2>2, <3>1 DEF RouteInv, TypeOK, Write
      <4> QED BY <2>1, <4>1, SameRoute DEF RouteInv, OneArmedLane, Mode
    <3>2. CASE b = Binding(p)
      <4>1. authority'[b] = [mode |-> Revoked(b), key |-> profile[p].key]
        BY <2>1, <2>2, <3>2 DEF RouteInv, TypeOK, Write
      <4>2. exposure[b] # "flat"
        BY <4>1 DEF Mode, Revoked, FlatAndSettled
      <4>3. /\ selected # None /\ b = <<selected.provider, selected.account>>
            /\ Selected(selected.provider) /\ b \in granted
        BY <4>2 DEF RouteInv, HeldStaysSelected
      <4>4. selected.provider = p
        BY <4>3, <3>2 DEF Binding
      <4>5. selected.key = profile[p].key
        BY <4>3, <4>4 DEF Selected, Route
      <4> QED BY <2>1, <4>1, <4>3, <4>5, SameRoute
    <3> QED BY <3>1, <3>2
  <2>5. HeldStaysSelected' /\ RouteStaysValid'
    BY <2>1, SameRoute DEF RouteInv, HeldStaysSelected, RouteStaysValid
  <2>6. RotationHarmless'
    BY <2>1 DEF RotationHarmless
  <2> QED BY <2>3, <2>4, <2>5, <2>6 DEF RouteInv
<1>5. CASE Reconcile(p)
  <2> DEFINE b == Binding(p)
  <2>1. PICK e \in Observed(exposure[b]) :
          /\ exposure' = [exposure EXCEPT ![b] = e]
          /\ authority' \in {authority, [authority EXCEPT ![b].mode = "off"]}
    BY <1>5 DEF Reconcile
  <2>2. /\ Configured(p)
        /\ authority' # authority => Readable(p) /\ Mode(b) = "close_only"
        /\ UNCHANGED <<profile, selected, generation, plan, pending, lane, granted>>
    BY <1>5 DEF Reconcile
  <2>3. b \in Bindings
    BY <2>2, BindingTyped DEF RouteInv
  <2>4. e \in Exposures /\ (exposure[b] = "flat" => e = "flat")
    BY <2>1, <2>3 DEF Observed, Exposures, RouteInv, TypeOK
  <2>5. authority' # authority =>
          /\ authority[b] \in Authorities
          /\ authority' = [authority EXCEPT ![b] = [authority[b] EXCEPT !.mode = "off"]]
    BY <2>1, <2>2, <2>3 DEF Mode, RouteInv, TypeOK
  <2>6. authority' \in [Bindings -> Authorities \cup {None}]
    BY <2>5, <2>3 DEF RouteInv, TypeOK, Authorities
  <2>7. TypeOK'
    BY <2>1, <2>2, <2>3, <2>4, <2>6 DEF RouteInv, TypeOK
  <2>8. \A a \in Bindings : authority'[a] = authority[a] \/ Mode(a)' = "off"
    BY <2>3, <2>5 DEF RouteInv, TypeOK, Mode, Authorities
  <2>9. OneArmedLane'
    BY <2>2, <2>8, SameRoute DEF RouteInv, OneArmedLane, Mode
  <2>10. HeldStaysSelected'
    BY <2>1, <2>2, <2>3, <2>4, SameRoute DEF RouteInv, TypeOK, HeldStaysSelected
  <2>11. RouteStaysValid' /\ RotationHarmless'
    BY <2>2, SameRoute DEF RouteInv, RouteStaysValid, RotationHarmless
  <2> QED BY <2>7, <2>9, <2>10, <2>11 DEF RouteInv
<1> QED BY <1>1, <1>2, <1>3, <1>4, <1>5 DEF Operator

\* Selecting an account inspects every lane that is configured.
LEMMA SelectStep ==
  ASSUME RouteInv, NEW q \in Providers \cup {None}, Select(q)
  PROVE  RouteInv'
<1>1. /\ q # None => Configured(q)
      /\ EveryLaneOff(q)
      /\ selected' = IF q = None THEN None ELSE Route(q)
      /\ generation' = generation + 1
      /\ pending = None
      /\ granted' = {}
      /\ UNCHANGED <<profile, authority, exposure, plan, pending, lane>>
  BY DEF Select, ledgers
<1>2. \A b \in Bindings : Mode(b) = "off" /\ exposure[b] = "flat"
  BY <1>1, AllLanesOff
<1>3. q # None => Route(q) \in Routes
  BY <1>1, BindingTyped DEF RouteInv
<1>4. TypeOK'
  BY <1>1, <1>3 DEF RouteInv, TypeOK
<1>5. OneArmedLane' /\ HeldStaysSelected'
  BY <1>1, <1>2 DEF OneArmedLane, HeldStaysSelected, Mode
<1>6. RouteStaysValid' /\ RotationHarmless'
  BY <1>1 DEF RouteStaysValid, RouteValid, RotationHarmless, Route, Configured
<1> QED BY <1>4, <1>5, <1>6 DEF RouteInv

\* What the worker may do: it stages, expires and trades, and when it submits
\* an order its account is the one authorized in this selection.
LEMMA WorkerFacts ==
  ASSUME RouteInv, NEW b \in Bindings, Worker(b)
  PROVE  /\ UNCHANGED <<files, pending, lane, granted>>
         /\ plan' \in [Bindings -> Keys \cup {None}]
         /\ exposure' \in [Bindings -> Exposures]
         /\ \A a \in Bindings : exposure'[a] # exposure[a] => a = b
         /\ exposure'[b] # "flat" /\ exposure[b] = "flat" => Mode(b) # "off"
         /\ exposure'[b] # exposure[b] /\ exposure'[b] \in {"buying", "selling"} =>
              /\ Mode(b) # "off"
              /\ lane # None /\ lane.generation = generation
              /\ b = <<lane.provider, lane.account>>
              /\ authority[b].key = lane.key
<1>1. /\ Research(b) /\ lane \in Lanes
      /\ lane.provider \in Providers /\ lane.key \in Keys
      /\ lane # None /\ lane.generation = generation
      /\ b = <<lane.provider, lane.account>>
      /\ b = Binding(lane.provider)
      /\ lane.key = profile[lane.provider].key
  BY DEF Worker, Stage, TickExpire, TickBuy, TickLookup, TickSell, Research,
         SameSelection, RouteInv, TypeOK, Lanes, Binding
<1>2. \A modes : Armed(b, modes) /\ "off" \notin modes =>
        Mode(b) # "off" /\ authority[b].key = lane.key
  BY <1>1 DEF Armed, Readable, Mode
<1> USE DEF RouteInv, TypeOK
<1>3. CASE Stage(b)
  BY <1>1, <1>3 DEF Stage
<1>4. CASE TickExpire(b)
  BY <1>1, <1>4 DEF TickExpire
<1>5. CASE TickBuy(b)
  BY <1>2, <1>1, <1>5 DEF TickBuy, Exposures
<1>6. CASE TickLookup(b)
  <2>1. PICK e \in Observed(exposure[b]) : exposure' = [exposure EXCEPT ![b] = e]
    BY <1>6 DEF TickLookup
  <2>2. /\ e \in Exposures
        /\ e # exposure[b] => e \in {"flat", "held"}
        /\ exposure[b] = "flat" => e = "flat"
    BY <2>1 DEF Observed, Exposures
  <2> QED BY <1>6, <2>1, <2>2 DEF TickLookup
<1>7. CASE TickSell(b)
  BY <1>2, <1>1, <1>7 DEF TickSell, Exposures
<1> QED BY <1>3, <1>4, <1>5, <1>6, <1>7 DEF Worker

\* The plans and orders of one account: staged, expired, bought, looked up, sold.
LEMMA WorkerStep ==
  ASSUME RouteInv, NEW b \in Bindings, Worker(b)
  PROVE  RouteInv'
<1>1. UNCHANGED <<profile, selected, generation, authority, pending, lane, granted>>
  BY WorkerFacts DEF files
<1>2. TypeOK'
  BY <1>1, WorkerFacts DEF RouteInv, TypeOK
<1>3. OneArmedLane' /\ RouteStaysValid' /\ RotationHarmless'
  BY <1>1, SameRoute DEF RouteInv, OneArmedLane, RouteStaysValid, RotationHarmless, Mode
<1>4. HeldStaysSelected'
  <2>1. exposure'[b] # "flat" =>
          /\ selected # None /\ b = <<selected.provider, selected.account>>
          /\ Selected(selected.provider) /\ b \in granted
    BY WorkerFacts DEF RouteInv, OneArmedLane, HeldStaysSelected
  <2>2. \A a \in Bindings : a # b => exposure'[a] = exposure[a]
    BY WorkerFacts
  <2> QED BY <1>1, <2>1, <2>2, SameRoute DEF RouteInv, HeldStaysSelected
<1> QED BY <1>2, <1>3, <1>4 DEF RouteInv

LEMMA RouteNext ==
  ASSUME RouteInv, [Next]_vars
  PROVE  RouteInv'
<1>1. CASE \E p \in Providers : Operator(p)
  BY <1>1, OperatorStep
<1>2. CASE \E q \in Providers \cup {None} : Select(q)
  BY <1>2, SelectStep
<1>3. CASE FinishRotation
  BY <1>3, ProfileStep DEF FinishRotation, RouteInv, RotationHarmless
<1>4. CASE FinishRevoke
  <2>1. /\ pending' = None
        /\ UNCHANGED <<profile, selected, generation, authority, exposure, lane, granted>>
        /\ plan' = [plan EXCEPT ![pending.binding] = None]
    BY <1>4 DEF FinishRevoke, files
  <2>2. TypeOK'
    BY <2>1 DEF RouteInv, TypeOK
  <2>3. OneArmedLane' /\ HeldStaysSelected' /\ RouteStaysValid' /\ RotationHarmless'
    BY <2>1, SameRoute DEF RouteInv, OneArmedLane, HeldStaysSelected,
                           RouteStaysValid, RotationHarmless, Mode
  <2> QED BY <2>2, <2>3 DEF RouteInv
<1>5. CASE Kill \/ Start \/ Stop \/ UNCHANGED vars
  <2>1. /\ UNCHANGED <<profile, selected, generation, authority, exposure, plan, granted>>
        /\ pending' \in {pending, None}
    BY <1>5 DEF Kill, Start, Stop, vars, files, ledgers
  <2>2. lane' \in Lanes \cup {None}
    <3>1. CASE Start
      BY <3>1 DEF Start, RouteInv, TypeOK, Routes, Lanes
    <3>2. CASE Kill \/ Stop \/ UNCHANGED vars
      BY <3>2 DEF Kill, Stop, vars, RouteInv, TypeOK
    <3> QED BY <1>5, <3>1, <3>2
  <2>3. TypeOK'
    BY <2>1, <2>2 DEF RouteInv, TypeOK
  <2>4. OneArmedLane' /\ HeldStaysSelected' /\ RouteStaysValid' /\ RotationHarmless'
    BY <2>1, SameRoute DEF RouteInv, OneArmedLane, HeldStaysSelected,
                           RouteStaysValid, RotationHarmless, Mode
  <2> QED BY <2>3, <2>4 DEF RouteInv
<1>6. CASE \E b \in Bindings : Worker(b)
  BY <1>6, WorkerStep
<1> QED BY <1>1, <1>2, <1>3, <1>4, <1>5, <1>6 DEF Next

\* Of a composed step the route sees one of its own, or nothing.
LEMMA RouteSees == MCSpec => Init /\ [][Next]_vars
<1>1. [MCNext]_systems => [Next]_vars
  BY DEF MCNext, systems
<1>2. MCInit => Init
  BY DEF MCInit
<1> QED BY <1>1, <1>2, PTL DEF MCSpec

LEMMA RouteInvariant == MCSpec => []RouteInv
BY RouteSees, RouteInit, RouteNext, PTL

--------------------------------------------------------------------------------
\* The files, the ledgers' states and the pinned route keep their types.
THEOREM RouteTypes == MCSpec => []TypeOK
<1>1. RouteInv => TypeOK
  BY DEF RouteInv
<1> QED BY <1>1, RouteInvariant, PTL

\* ExecutionRoute.select and Profiles.save leave at most one account armed, the
\* selected one, authorized in this selection for its present credentials; it
\* stays selected while it holds shares or an unsettled order; and the stored
\* route always describes an existing, unchanged profile.
THEOREM RouteStaysTruthful == MCSpec => []RouteTruthful
<1>1. RouteInv => RouteTruthful
  BY DEF RouteInv, RouteTruthful
<1> QED BY <1>1, RouteInvariant, PTL

\* Orders go out only in the selection their process pinned (handle_research).
THEOREM OrdersFollowSelection == MCSpec => OrdersInSelection
<1> DEFINE Ordered(b) ==
      exposure'[b] # exposure[b] /\ exposure'[b] \in {"buying", "selling"} =>
         /\ lane # None /\ lane.generation = generation
         /\ b = <<lane.provider, lane.account>>
         /\ b \in granted
         /\ authority[b].key = lane.key
<1>1. ASSUME RouteInv, Next
      PROVE  \A b \in Bindings : Ordered(b)
  <2>1. CASE \E b \in Bindings : Worker(b)
    BY <1>1, <2>1, WorkerFacts DEF RouteInv, OneArmedLane
  <2>2. CASE \E p \in Providers : Reconcile(p)
    <3>1. PICK p \in Providers : Reconcile(p)
      BY <2>2
    <3>2. Binding(p) \in Bindings
      BY <3>1, <1>1, BindingTyped DEF Reconcile, RouteInv
    <3>3. PICK e \in Observed(exposure[Binding(p)]) :
            exposure' = [exposure EXCEPT ![Binding(p)] = e]
      BY <3>1 DEF Reconcile
    <3>4. e = exposure[Binding(p)] \/ e \in {"flat", "held"}
      BY <3>2, <3>3, <1>1 DEF Observed, RouteInv, TypeOK, Exposures
    <3> QED BY <3>2, <3>3, <3>4, <1>1 DEF RouteInv, TypeOK
  <2>3. CASE UNCHANGED exposure
    BY <2>3
  <2> QED BY <1>1, <2>1, <2>2, <2>3
        DEF Next, Operator, SaveProfile, RotateCredentials, Authorize, Revoke,
            Select, FinishRotation, FinishRevoke, Kill, Start, Stop, ledgers
<1>2. RouteInv /\ [Next]_vars => [\A b \in Bindings : Ordered(b)]_vars
  BY <1>1
<1> QED BY <1>2, RouteSees, RouteInvariant, PTL DEF OrdersInSelection

--------------------------------------------------------------------------------
\* The adapters: what the ledger says of an intent

AdapterInv ==
  /\ Adapter!TypeOK
  /\ Adapter!AnswersTruthful
  /\ call.step # "idle" =>
       call.client \in Clients /\ row[call.client].state \notin Adapter!Terminal
  /\ call.step = "cancel" => row[call.client].id = call.client

\* What a status is read as, for a table of any broker.
LEMMA ReadAs ==
  ASSUME NEW W, NEW F, NEW R, NEW C,
         Adapter!Reading = [working |-> W, filled |-> F, rejected |-> R, cancelled |-> C],
         NEW s
  PROVE  /\ s \in W /\ s \notin F \cup R \cup C => Adapter!StateOf(s) = "working"
         /\ s \in F /\ s \notin W \cup R \cup C => Adapter!StateOf(s) = "filled"
         /\ s \notin W \cup F \cup R \cup C => Adapter!StateOf(s) = "unknown"
         /\ Adapter!StateOf(s) \in Adapter!States
<1> DEFINE K == {"working", "filled", "rejected", "cancelled"}
<1>1. DOMAIN Adapter!Reading = K
  OBVIOUS
<1>2. /\ Adapter!Reading["working"] = W /\ Adapter!Reading["filled"] = F
      /\ Adapter!Reading["rejected"] = R /\ Adapter!Reading["cancelled"] = C
  OBVIOUS
<1>3. Adapter!StateOf(s) = IF \E k \in K : s \in Adapter!Reading[k]
                             THEN CHOOSE k \in K : s \in Adapter!Reading[k] ELSE "unknown"
  BY <1>1 DEF Adapter!StateOf
<1>4. ASSUME NEW j \in K, s \in Adapter!Reading[j],
             \A k \in K : s \in Adapter!Reading[k] => k = j
      PROVE  Adapter!StateOf(s) = j
  BY <1>3, <1>4
<1>5. s \in W /\ s \notin F \cup R \cup C => Adapter!StateOf(s) = "working"
  BY <1>2, <1>4
<1>6. s \in F /\ s \notin W \cup R \cup C => Adapter!StateOf(s) = "filled"
  BY <1>2, <1>4
<1>7. s \notin W \cup F \cup R \cup C => Adapter!StateOf(s) = "unknown"
  BY <1>2, <1>3
<1>8. Adapter!StateOf(s) \in K \cup {"unknown"}
  BY <1>3
<1> QED BY <1>5, <1>6, <1>7, <1>8 DEF Adapter!States, Adapter!Terminal

\* What each adapter makes of an order at work, of a fill, and of a status it has no
\* word for.
LEMMA Statuses ==
  ASSUME Adapter!AdapterAssumption, broker \in Brokers
  PROVE  /\ Adapter!StateOf("live") = "working" /\ Adapter!StateOf("odd") = "unknown"
         /\ Adapter!StateOf("filled") = "filled"
         /\ \A s \in {"none", "wire", "lost"} : Adapter!StateOf(s) = "unknown"
         /\ broker = "longport" => Adapter!StateOf("replaced") = "working"
         /\ \A s : Adapter!StateOf(s) \in Adapter!States
<1>1. broker \in {"alpaca", "tiger", "ibkr", "longport", "futu", "schwab"}
  BY DEF Adapter!AdapterAssumption
<1>2. CASE broker = "alpaca"
  <2>1. Adapter!Reading = Adapter!AlpacaOrder
    BY <1>2 DEF Adapter!Reading
  <2> QED BY <1>2, <2>1, ReadAs DEF Adapter!AlpacaOrder
<1>3. CASE broker = "tiger"
  <2>1. Adapter!Reading = Adapter!TigerOrder
    BY <1>3 DEF Adapter!Reading
  <2> QED BY <1>3, <2>1, ReadAs DEF Adapter!TigerOrder
<1>4. CASE broker = "ibkr"
  <2>1. Adapter!Reading = Adapter!IbkrOrder
    BY <1>4 DEF Adapter!Reading
  <2> QED BY <1>4, <2>1, ReadAs DEF Adapter!IbkrOrder
<1>5. CASE broker = "longport"
  <2>1. Adapter!Reading = Adapter!LongportOrder
    BY <1>5 DEF Adapter!Reading
  <2> QED BY <1>5, <2>1, ReadAs DEF Adapter!LongportOrder
<1>6. CASE broker = "futu"
  <2>1. Adapter!Reading = Adapter!FutuOrder
    BY <1>6 DEF Adapter!Reading
  <2> QED BY <1>6, <2>1, ReadAs DEF Adapter!FutuOrder
<1>7. CASE broker = "schwab"
  <2>1. Adapter!Reading = Adapter!SchwabOrder
    BY <1>7 DEF Adapter!Reading
  <2> QED BY <1>7, <2>1, ReadAs DEF Adapter!SchwabOrder
<1> QED BY <1>1, <1>2, <1>3, <1>4, <1>5, <1>6, <1>7

\* The operation of an intent finds no order but its own.
LEMMA OwnFound ==
  ASSUME Adapter!AdapterAssumption, AdapterInv, NEW c \in Clients, NEW o \in Adapter!Orders,
         Adapter!MarkRead(c, o) = c,
         Adapter!Lookup(c, row[c].id, o) \/ o = row[c].id
  PROVE  o = c
<1>1. row[c].id \in {c, NoOrder} /\ NoOrder \notin Clients /\ NoOrder # o
  BY DEF AdapterInv, Adapter!AnswersTruthful, Adapter!OwnIdentity,
         Adapter!AdapterAssumption, Adapter!Orders
<1>2. CASE o = row[c].id
  BY <1>1, <1>2
<1>3. CASE broker = "schwab" /\ Adapter!Lookup(c, row[c].id, o)
  BY <1>1, <1>3 DEF Adapter!Lookup, Adapter!SchwabLookup
<1>4. CASE broker # "schwab"
  BY <1>1, <1>4 DEF Adapter!MarkRead, Adapter!Mark
<1> QED BY <1>2, <1>3, <1>4

\* An answer is no more than the broker has, and a final one is all of it.
LEMMA AnswerTrue ==
  ASSUME Adapter!AdapterAssumption, AdapterInv, NEW o \in Adapter!Orders,
         NEW a \in Adapter!Answers(o)
  PROVE  /\ a.state \in Adapter!States /\ a.filled \in 0 .. Qty
         /\ a.filled <= order[o].filled
         /\ a.state \in Adapter!Terminal =>
              /\ Adapter!Over(o) /\ a.state = Adapter!StateOf(order[o].status)
              /\ a.filled = order[o].filled
<1>1. broker \in Brokers /\ order[o].filled \in 0 .. Qty /\ Qty \in Nat
  BY DEF AdapterInv, Adapter!TypeOK, Adapter!AdapterAssumption
<1>2. PICK v \in Adapter!Views(o) :
        a = [state |-> Adapter!StateOf(v.status), filled |-> v.filled]
  BY DEF Adapter!Answers, Adapter!Read
<1>3. a.state = Adapter!StateOf(v.status) /\ a.filled = v.filled
  BY <1>2
<1>4. a.state = "filled" => a.filled = Qty
  BY DEF Adapter!Answers
<1>5. CASE v.status = order[o].status /\ v.status # "live" /\ v.filled = order[o].filled
  BY <1>1, <1>3, <1>5, Statuses
     DEF Adapter!Over, Adapter!AtWork, Adapter!Accepted, Adapter!Terminal
<1>6. CASE v.status \in Adapter!Looks /\ v.filled \in 0 .. order[o].filled
  <2>1. a.state \in {"working", "unknown"}
    BY <1>1, <1>3, <1>6, Statuses DEF Adapter!Looks
  <2> QED BY <1>1, <1>3, <1>6, <2>1 DEF Adapter!States, Adapter!Terminal
<1>7. CASE /\ v.status = "filled" /\ order[o].status = "filled"
           /\ v.filled \in 0 .. order[o].filled
  <2>1. a.state = "filled" /\ a.filled = Qty /\ a.filled = order[o].filled
    BY <1>1, <1>3, <1>4, <1>7, Statuses
  <2> QED BY <1>1, <1>3, <1>7, <2>1
          DEF Adapter!States, Adapter!Terminal, Adapter!Over, Adapter!AtWork, Adapter!Accepted
<1> QED BY <1>5, <1>6, <1>7 DEF Adapter!Views

LEMMA AdapterInit == ASSUME Adapter!AdapterAssumption, Adapter!Init PROVE AdapterInv
<1>1. /\ broker \in Brokers /\ asked = {} /\ call = Adapter!Idle /\ call.step = "idle"
      /\ call \in [step : {"idle", "post", "sent", "detail", "lookup", "cancel"},
                  client : Clients \cup {NoOrder}, cancel : BOOLEAN]
  BY DEF Adapter!Init, Adapter!Idle
<1>2. \A o \in Adapter!Orders : order[o] \in [status : Adapter!Statuses, filled : 0 .. Qty,
                                       issued : BOOLEAN, age : {"today", "past", "gone"}]
                              /\ order[o].filled = 0
  BY DEF Adapter!Init, Adapter!Standing, Adapter!NotSent, Adapter!Statuses,
         Adapter!AdapterAssumption
<1>3. order \in [Adapter!Orders -> [status : Adapter!Statuses, filled : 0 .. Qty,
                                       issued : BOOLEAN, age : {"today", "past", "gone"}]]
  BY <1>2 DEF Adapter!Init
<1>4. \A c \in Clients : /\ row[c] = [state |-> "absent", id |-> NoOrder, filled |-> 0]
                         /\ row[c] \in Adapter!Rows
  BY DEF Adapter!Init, Adapter!Rows, Adapter!AdapterAssumption
<1>5. row \in [Clients -> Adapter!Rows]
  BY <1>4 DEF Adapter!Init
<1>6. Adapter!AnswersTruthful
  BY <1>1, <1>2, <1>4
     DEF Adapter!AnswersTruthful, Adapter!OwnIdentity, Adapter!SettledTrue,
         Adapter!OwnCancelled,
     Adapter!Terminal, Adapter!Orders
<1> QED BY <1>1, <1>3, <1>5, <1>6 DEF AdapterInv, Adapter!TypeOK

\* What is true of an intent's row.
RowTrue(c) ==
  /\ row[c].id \in {c, NoOrder}
  /\ row[c].filled <= order[c].filled
  /\ row[c].state \in Adapter!Terminal =>
       /\ row[c].id = c /\ Adapter!Over(c)
       /\ row[c].state = Adapter!StateOf(order[c].status) /\ row[c].filled = order[c].filled

Placed == [status : Adapter!Statuses, filled : 0 .. Qty, issued : BOOLEAN,
           age : {"today", "past", "gone"}]
Calls == [step : {"idle", "post", "sent", "detail", "lookup", "cancel"},
          client : Clients \cup {NoOrder}, cancel : BOOLEAN]

\* The invariant taken apart ...
LEMMA AdapterFacts ==
  ASSUME Adapter!AdapterAssumption, AdapterInv
  PROVE  /\ broker \in Brokers /\ asked \subseteq Clients /\ Qty \in Nat \ {0}
         /\ order \in [Adapter!Orders -> Placed] /\ row \in [Clients -> Adapter!Rows]
         /\ call \in Calls
         /\ \A c \in Clients : RowTrue(c) /\ c \in Adapter!Orders
         /\ NoOrder \notin Adapter!Orders
         /\ call.step # "idle" =>
              call.client \in Clients /\ row[call.client].state \notin Adapter!Terminal
         /\ call.step = "cancel" => row[call.client].id = call.client
BY DEF AdapterInv, Adapter!TypeOK, Adapter!AnswersTruthful, Adapter!OwnIdentity,
       Adapter!SettledTrue, Adapter!OwnCancelled, RowTrue, Placed, Calls, Adapter!Orders,
       Adapter!AdapterAssumption

\* ... and put together again, after a step.
LEMMA AdapterFolds ==
  ASSUME /\ broker' \in Brokers /\ asked' \subseteq Clients
         /\ order' \in [Adapter!Orders -> Placed] /\ row' \in [Clients -> Adapter!Rows]
         /\ call' \in Calls
         /\ \A c \in Clients : RowTrue(c)'
         /\ call'.step # "idle" =>
              call'.client \in Clients /\ row'[call'.client].state \notin Adapter!Terminal
         /\ call'.step = "cancel" => row'[call'.client].id = call'.client
  PROVE  AdapterInv'
BY DEF AdapterInv, Adapter!TypeOK, Adapter!AnswersTruthful, Adapter!OwnIdentity,
       Adapter!SettledTrue, Adapter!OwnCancelled, RowTrue, Placed, Calls, Adapter!Orders,
       Adapter!Terminal, Adapter!Rows, Adapter!States, Adapter!Statuses

\* The broker's own steps take no fill back, and leave an order that is over.
LEMMA OrdersMove ==
  ASSUME Adapter!AdapterAssumption, AdapterInv, UNCHANGED <<broker, row, call, asked>>,
         order' \in [Adapter!Orders -> Placed],
         \A c \in Clients :
           /\ order[c].filled <= order'[c].filled
           /\ Adapter!Over(c) =>
                order'[c].filled = order[c].filled /\ order'[c].status = order[c].status
  PROVE  AdapterInv'
<1>1. ASSUME NEW c \in Clients PROVE RowTrue(c)'
  <2>1. /\ RowTrue(c) /\ c \in Adapter!Orders /\ row[c].filled \in 0 .. Qty
        /\ order[c].filled \in 0 .. Qty /\ order'[c].filled \in 0 .. Qty /\ Qty \in Nat
    BY AdapterFacts DEF Adapter!Rows, Placed
  <2>2. row'[c].filled <= order'[c].filled /\ row'[c].id \in {c, NoOrder}
    BY <2>1 DEF RowTrue
  <2>3. (row[c].state \in Adapter!Terminal =>
          /\ row[c].id = c /\ Adapter!Over(c)
          /\ row[c].state = Adapter!StateOf(order[c].status)
          /\ row[c].filled = order[c].filled)'
    <3> SUFFICES ASSUME (row[c].state \in Adapter!Terminal)'
                 PROVE  (/\ row[c].id = c /\ Adapter!Over(c)
                         /\ row[c].state = Adapter!StateOf(order[c].status)
                         /\ row[c].filled = order[c].filled)'
      OBVIOUS
    <3>1. /\ row[c].id = c /\ Adapter!Over(c)
          /\ row[c].state = Adapter!StateOf(order[c].status)
          /\ row[c].filled = order[c].filled
      BY <2>1 DEF RowTrue, Adapter!Terminal
    <3>2. order'[c].filled = order[c].filled /\ order'[c].status = order[c].status
      BY <3>1
    <3>3. Adapter!StateOf(order[c].status)' = Adapter!StateOf(order[c].status)
      BY <3>2 DEF Adapter!StateOf, Adapter!Reading
    <3> QED BY <3>1, <3>2, <3>3 DEF Adapter!Over, Adapter!Accepted, Adapter!AtWork
  <2> QED BY <2>2, <2>3 DEF RowTrue
<1> QED BY <1>1, AdapterFacts, AdapterFolds

\* The broker and the network move an order and nothing else.
LEMMA BrokerMoves ==
  ASSUME Adapter!AdapterAssumption, AdapterInv, NEW c \in Clients,
         \/ Adapter!Accept(c) \/ Adapter!Issue(c) \/ Adapter!Lose(c)
         \/ Adapter!Fill(c) \/ Adapter!End(c)
  PROVE  AdapterInv'
<1>1. /\ order \in [Adapter!Orders -> Placed] /\ c \in Adapter!Orders /\ order[c] \in Placed
      /\ Qty \in Nat
  BY AdapterFacts
<1>2. UNCHANGED <<broker, row, call, asked>>
  BY DEF Adapter!Accept, Adapter!Issue, Adapter!Lose, Adapter!Fill, Adapter!End,
         Adapter!Broker
<1>3. /\ order[c].filled \in 0 .. Qty /\ order[c].filled <= order[c].filled
       /\ order[c].issued \in BOOLEAN /\ order[c].status \in Adapter!Statuses
  BY <1>1 DEF Placed
<1>4. ASSUME NEW new \in Placed, order' = [order EXCEPT ![c] = new],
             order[c].filled <= new.filled, 
             Adapter!Over(c) => new.filled = order[c].filled /\ new.status = order[c].status
      PROVE  AdapterInv'
  <2>1. order' \in [Adapter!Orders -> Placed]
    BY <1>1, <1>4
  <2>2. \A d \in Clients : d \in Adapter!Orders /\ order[d].filled \in 0 .. Qty
    BY AdapterFacts DEF Placed
  <2>3. \A d \in Clients : order'[d] = IF d = c THEN new ELSE order[d]
    BY <1>1, <1>4, <2>2
  <2> QED BY <1>1, <1>2, <1>4, <2>1, <2>2, <2>3, OrdersMove
<1>5. ASSUME NEW status \in Adapter!Statuses, Adapter!Becomes(c, status), ~ Adapter!Over(c)
      PROVE  AdapterInv'
  <2> DEFINE new == [order[c] EXCEPT !.status = status]
  <2>1. new \in Placed /\ new.filled = order[c].filled
    BY <1>1 DEF Placed
  <2>2. order' = [order EXCEPT ![c] = new]
    BY <1>5 DEF Adapter!Becomes
  <2> HIDE DEF new
  <2> QED BY <1>3, <1>4, <1>5, <2>1, <2>2
<1>6. CASE Adapter!Accept(c)
  <2>1. PICK issued \in BOOLEAN :
          order' = [order EXCEPT ![c].status = "live", ![c].issued = issued]
    BY <1>6 DEF Adapter!Accept
  <2> DEFINE new == [order[c] EXCEPT !.status = "live", !.issued = issued]
  <2>2. ~ Adapter!Over(c)
    BY <1>6 DEF Adapter!Accept, Adapter!Over, Adapter!Accepted
  <2>3. new \in Placed /\ new.filled = order[c].filled
    BY <1>1 DEF Placed, Adapter!Statuses
  <2>4. order' = [order EXCEPT ![c] = new]
    BY <1>1, <2>1
  <2> HIDE DEF new
  <2> QED BY <1>3, <1>4, <2>2, <2>3, <2>4
<1>7. CASE Adapter!Issue(c)
  <2> DEFINE new == [order[c] EXCEPT !.issued = TRUE]
  <2>1. order' = [order EXCEPT ![c] = new]
    BY <1>1, <1>7 DEF Adapter!Issue
  <2>2. new \in Placed /\ new.filled = order[c].filled /\ new.status = order[c].status
    BY <1>1 DEF Placed
  <2> HIDE DEF new
  <2> QED BY <1>3, <1>4, <2>1, <2>2
<1>8. CASE Adapter!Lose(c)
  BY <1>5, <1>8 DEF Adapter!Lose, Adapter!Over, Adapter!Accepted, Adapter!Statuses
<1>9. CASE Adapter!Fill(c)
  <2> DEFINE status == IF order[c].filled + 1 = Qty THEN "filled" ELSE order[c].status
             new == [order[c] EXCEPT !.filled = order[c].filled + 1, !.status = status]
  <2>1. order[c].filled < Qty /\ ~ Adapter!Over(c)
    BY <1>9 DEF Adapter!Fill, Adapter!Over
  <2>2. order' = [order EXCEPT ![c] = new]
    BY <1>1, <1>9 DEF Adapter!Fill
  <2>3. status \in Adapter!Statuses /\ order[c].filled + 1 \in 0 .. Qty
    BY <1>1, <1>3, <2>1 DEF Adapter!Statuses
  <2> HIDE DEF status
  <2>4. new \in Placed /\ new.filled = order[c].filled + 1
    BY <1>1, <2>3 DEF Placed
  <2> HIDE DEF new
  <2>5. order[c].filled <= new.filled
    BY <1>3, <2>4
  <2> QED BY <1>4, <2>1, <2>2, <2>4, <2>5
<1>10. CASE Adapter!End(c)
  <2>1. PICK status \in Adapter!Ends : Adapter!Becomes(c, status)
    BY <1>10 DEF Adapter!End
  <2>2. status \in Adapter!Statuses /\ ~ Adapter!Over(c)
    BY <1>10 DEF Adapter!Ends, Adapter!Statuses, Adapter!End, Adapter!Over
  <2> QED BY <1>5, <2>1, <2>2
<1> QED BY <1>6, <1>7, <1>8, <1>9, <1>10

\* A step of the caller on intent c, whose orders the broker may end meanwhile.
LEMMA CallerMoves ==
  ASSUME Adapter!AdapterAssumption, AdapterInv, NEW c \in Clients, UNCHANGED broker,
         order' \in [Adapter!Orders -> Placed], row' \in [Clients -> Adapter!Rows],
         \A d \in Clients \ {c} : row'[d] = row[d] /\ order'[d] = order[d],
         RowTrue(c)',
         call' \in Calls,
         call'.step # "idle" => call'.client = c /\ row'[c].state \notin Adapter!Terminal,
         call'.step = "cancel" => row'[c].id = c,
         asked' \subseteq Clients
  PROVE  AdapterInv'
<1>1. ASSUME NEW d \in Clients, d # c PROVE RowTrue(d)'
  <2>1. RowTrue(d) /\ row'[d] = row[d] /\ order'[d] = order[d]
    BY <1>1, AdapterFacts
  <2>2. Adapter!StateOf(order[d].status)' = Adapter!StateOf(order[d].status)
    BY <2>1 DEF Adapter!StateOf, Adapter!Reading
  <2> QED BY <2>1, <2>2
             DEF RowTrue, Adapter!Over, Adapter!Accepted, Adapter!AtWork,
                 Adapter!Terminal
<1>2. \A d \in Clients : RowTrue(d)'
  BY <1>1
<1>3. broker' \in Brokers
  BY AdapterFacts
<1> QED BY <1>2, <1>3, AdapterFolds

\* An open row says nothing that could be wrong but the fill it knows.
LEMMA OpenRow ==
  ASSUME NEW c \in Clients, row'[c].id \in {c, NoOrder}, row'[c].filled <= order'[c].filled,
         row'[c].state \notin Adapter!Terminal
  PROVE  RowTrue(c)'
BY DEF RowTrue, Adapter!Terminal

\* What the caller does: prepare, submit, look up, cancel, give up.
LEMMA CallerStep ==
  ASSUME Adapter!AdapterAssumption, AdapterInv, NEW c \in Clients,
         \/ Adapter!Prepare(c) \/ Adapter!Post(c) \/ Adapter!Acknowledge(c) \/ Adapter!Detail(c)
         \/ Adapter!Ask(c) \/ Adapter!Find(c) \/ Adapter!Cancel(c) \/ Adapter!Unconfirmed(c)
  PROVE  AdapterInv'
<1>1. /\ order \in [Adapter!Orders -> Placed] /\ row \in [Clients -> Adapter!Rows]
      /\ call \in Calls /\ asked \subseteq Clients
      /\ c \in Adapter!Orders /\ order[c] \in Placed /\ row[c] \in Adapter!Rows
      /\ RowTrue(c) /\ Qty \in Nat \ {0} /\ broker \in Brokers
      /\ call.step # "idle" /\ call.client = c => row[c].state \notin Adapter!Terminal
      /\ call.step = "cancel" /\ call.client = c => row[c].id = c
  BY AdapterFacts
<1>2. /\ order[c].filled \in 0 .. Qty /\ order[c].status \in Adapter!Statuses
      /\ row[c].filled \in 0 .. Qty
      /\ row[c].state \in Adapter!States \cup {"absent", "prepared"}
      /\ row[c].id \in {c, NoOrder} /\ row[c].filled <= order[c].filled
  BY <1>1 DEF Placed, Adapter!Rows, RowTrue
<1>3. ASSUME NEW step \in {"idle", "post", "sent", "detail", "lookup", "cancel"},
             NEW cancel \in BOOLEAN, Adapter!At(step, c, cancel)
      PROVE  call' \in Calls /\ call'.step = step /\ call'.client = c
  BY <1>3 DEF Adapter!At, Calls
<1>4. Adapter!Idle \in Calls /\ Adapter!Idle.step = "idle"
  BY DEF Adapter!Idle, Calls
<1>5. UNCHANGED broker
  BY DEF Adapter!Prepare, Adapter!Post, Adapter!Acknowledge, Adapter!Detail, Adapter!Ask,
         Adapter!Find, Adapter!Cancel, Adapter!Unconfirmed
<1>6. \A d \in Clients : d \in Adapter!Orders
  BY DEF Adapter!Orders
\* What Record writes.
<1>7. ASSUME NEW s \in Adapter!States \cup {"prepared"},
             NEW id \in {c, NoOrder}, NEW f \in 0 .. Qty,
             Adapter!Record(c, s, id, f)
      PROVE  /\ row' \in [Clients -> Adapter!Rows]
             /\ row'[c].state = s /\ row'[c].id = id /\ row'[c].filled = f
             /\ \A d \in Clients \ {c} : row'[d] = row[d]
  <2> DEFINE new == [state |-> s, id |-> id, filled |-> f]
  <2>1. new \in Adapter!Rows
    BY <1>1 DEF Adapter!Rows
  <2>2. row' = [row EXCEPT ![c] = new]
    BY <1>7 DEF Adapter!Record
  <2> QED BY <1>1, <2>1, <2>2
<1>8. CASE Adapter!Prepare(c)
  <2>1. /\ Adapter!Record(c, "prepared", NoOrder, 0)
        /\ Adapter!At("post", c, FALSE)
        /\ UNCHANGED <<order, asked>>
    BY <1>8 DEF Adapter!Prepare
  <2>2. 0 \in 0 .. Qty /\ "prepared" \notin Adapter!Terminal /\ 0 <= order[c].filled
    BY <1>1, <1>2 DEF Adapter!Terminal
  <2>3. /\ row' \in [Clients -> Adapter!Rows]
        /\ row'[c].state = "prepared" /\ row'[c].id = NoOrder /\ row'[c].filled = 0
        /\ \A d \in Clients \ {c} : row'[d] = row[d]
    BY <1>7, <2>1, <2>2
  <2>4. RowTrue(c)'
    BY <2>1, <2>2, <2>3, OpenRow
  <2> QED BY <1>1, <1>3, <1>5, <2>1, <2>2, <2>3, <2>4, CallerMoves
<1>9. CASE Adapter!Post(c)
  <2> DEFINE new == [order[c] EXCEPT !.status = "wire"]
  <2>1. /\ call.step = "post" /\ call.client = c /\ order' = [order EXCEPT ![c] = new]
        /\ Adapter!At("sent", c, FALSE) /\ UNCHANGED <<row, asked>>
    BY <1>9 DEF Adapter!Post, Adapter!Becomes
  <2>2. new \in Placed /\ new.filled = order[c].filled
    BY <1>1 DEF Placed, Adapter!Statuses
  <2> HIDE DEF new
  <2>3. order' \in [Adapter!Orders -> Placed] /\ order'[c].filled = order[c].filled
        /\ \A d \in Clients \ {c} : order'[d] = order[d]
    BY <1>1, <1>6, <2>1, <2>2
  <2>4. RowTrue(c)'
    BY <1>1, <1>2, <2>1, <2>3, OpenRow
  <2> QED BY <1>1, <1>3, <1>5, <2>1, <2>3, <2>4, CallerMoves
<1>10. CASE Adapter!Acknowledge(c)
  <2>1. /\ Adapter!Record(c, "unknown", c, 0)
        /\ Adapter!At("detail", c, FALSE)
        /\ UNCHANGED <<order, asked>>
    BY <1>10 DEF Adapter!Acknowledge
  <2>2. 0 \in 0 .. Qty /\ "unknown" \notin Adapter!Terminal /\ 0 <= order[c].filled
    BY <1>1, <1>2 DEF Adapter!Terminal
  <2>3. /\ row' \in [Clients -> Adapter!Rows]
        /\ row'[c].state = "unknown" /\ row'[c].id = c /\ row'[c].filled = 0
        /\ \A d \in Clients \ {c} : row'[d] = row[d]
    BY <1>7, <2>1, <2>2 DEF Adapter!States
  <2>4. RowTrue(c)'
    BY <2>1, <2>2, <2>3, OpenRow
  <2> QED BY <1>1, <1>3, <1>5, <2>1, <2>2, <2>3, <2>4, CallerMoves
\* An answer is recorded as it is.
<1>11. ASSUME NEW a \in Adapter!Answers(c), UNCHANGED order
       PROVE  /\ a.state \in Adapter!States /\ a.filled \in 0 .. Qty
              /\ Adapter!Record(c, a.state, c, a.filled) => RowTrue(c)'
              /\ Adapter!Record(c, "unknown", c, a.filled) => RowTrue(c)'
  <2>1. /\ a.state \in Adapter!States /\ a.filled \in 0 .. Qty
        /\ a.filled <= order[c].filled
        /\ a.state \in Adapter!Terminal =>
             /\ Adapter!Over(c) /\ a.state = Adapter!StateOf(order[c].status)
             /\ a.filled = order[c].filled
    BY <1>1, <1>11, AnswerTrue
  <2>2. Adapter!StateOf(order[c].status)' = Adapter!StateOf(order[c].status)
    BY <1>5, <1>11 DEF Adapter!StateOf, Adapter!Reading
  <2>3. ASSUME Adapter!Record(c, a.state, c, a.filled) PROVE RowTrue(c)'
    <3>1. row'[c].state = a.state /\ row'[c].id = c /\ row'[c].filled = a.filled
      BY <1>7, <2>1, <2>3
    <3> QED BY <1>11, <2>1, <2>2, <3>1
               DEF RowTrue, Adapter!Over, Adapter!Accepted, Adapter!AtWork,
                   Adapter!Terminal
  <2>4. ASSUME Adapter!Record(c, "unknown", c, a.filled) PROVE RowTrue(c)'
    <3>1. row'[c].state = "unknown" /\ row'[c].id = c /\ row'[c].filled = a.filled
      BY <1>7, <2>1, <2>4 DEF Adapter!States
    <3> QED BY <1>11, <2>1, <3>1, OpenRow DEF Adapter!Terminal
  <2> QED BY <2>1, <2>3, <2>4
<1>12. CASE Adapter!Detail(c)
  <2>1. PICK o \in Adapter!Orders :
          /\ Adapter!Submitted(c, o) /\ Adapter!MarkRead(c, o) = c /\ o = row[c].id
          /\ \E a \in Adapter!Answers(o) : Adapter!Record(c, a.state, o, a.filled)
    BY <1>12 DEF Adapter!Detail
  <2>2. call' = Adapter!Idle /\ UNCHANGED <<order, asked>>
    BY <1>12 DEF Adapter!Detail
  <2>3. o = c
    BY <2>1, OwnFound
  <2>4. PICK a \in Adapter!Answers(c) : Adapter!Record(c, a.state, c, a.filled)
    BY <2>1, <2>3
  <2>5. RowTrue(c)' /\ a.state \in Adapter!States /\ a.filled \in 0 .. Qty
    BY <1>11, <2>2, <2>4
  <2>6. row' \in [Clients -> Adapter!Rows] /\ \A d \in Clients \ {c} : row'[d] = row[d]
    BY <1>7, <2>4, <2>5
  <2> QED BY <1>1, <1>4, <1>5, <2>2, <2>5, <2>6, CallerMoves
<1>13. CASE Adapter!Ask(c)
  <2>1. PICK cancel \in BOOLEAN : Adapter!At("lookup", c, cancel)
    BY <1>13 DEF Adapter!Ask
  <2>2. row[c].state \notin Adapter!Terminal /\ UNCHANGED <<order, row, asked>>
    BY <1>13 DEF Adapter!Ask, Adapter!Terminal
  <2>3. RowTrue(c)'
    BY <1>2, <2>2, OpenRow
  <2> QED BY <1>1, <1>3, <1>5, <2>1, <2>2, <2>3, CallerMoves
<1>14. CASE Adapter!Find(c)
  <2>1. PICK o \in Adapter!Orders :
          /\ Adapter!Lookup(c, row[c].id, o) /\ Adapter!MarkRead(c, o) = c
          /\ \E a \in Adapter!Answers(o) :
               IF call.cancel /\ a.state \notin Adapter!Terminal
                 THEN /\ Adapter!Record(c, "unknown", o, a.filled)
                      /\ Adapter!At("cancel", c, FALSE)
                 ELSE Adapter!Record(c, a.state, o, a.filled) /\ call' = Adapter!Idle
    BY <1>14 DEF Adapter!Find
  <2>2. o = c
    BY <2>1, OwnFound
  <2>3. PICK a \in Adapter!Answers(c) :
          IF call.cancel /\ a.state \notin Adapter!Terminal
            THEN Adapter!Record(c, "unknown", c, a.filled) /\ Adapter!At("cancel", c, FALSE)
            ELSE Adapter!Record(c, a.state, c, a.filled) /\ call' = Adapter!Idle
    BY <2>1, <2>2
  <2>4. UNCHANGED <<order, asked>>
    BY <1>14 DEF Adapter!Find
  <2>5. a.state \in Adapter!States /\ a.filled \in 0 .. Qty
    BY <1>11, <2>4
  <2>6. CASE Adapter!Record(c, "unknown", c, a.filled) /\ Adapter!At("cancel", c, FALSE)
    <3>1. RowTrue(c)'
      BY <1>11, <2>4, <2>6
    <3>2. /\ row' \in [Clients -> Adapter!Rows]
          /\ row'[c].state = "unknown"
          /\ row'[c].id = c
          /\ \A d \in Clients \ {c} : row'[d] = row[d]
      BY <1>7, <2>5, <2>6 DEF Adapter!States
    <3> QED BY <1>1, <1>3, <1>5, <2>4, <2>6, <3>1, <3>2, CallerMoves DEF Adapter!Terminal
  <2>7. CASE Adapter!Record(c, a.state, c, a.filled) /\ call' = Adapter!Idle
    <3>1. RowTrue(c)'
      BY <1>11, <2>4, <2>7
    <3>2. row' \in [Clients -> Adapter!Rows] /\ \A d \in Clients \ {c} : row'[d] = row[d]
      BY <1>7, <2>5, <2>7
    <3> QED BY <1>1, <1>4, <1>5, <2>4, <2>7, <3>1, <3>2, CallerMoves
  <2> QED BY <2>3, <2>6, <2>7
<1>15. CASE Adapter!Cancel(c)
  <2> DEFINE new == [order[c] EXCEPT !.status = "cancelled"]
  <2>1. /\ call.step = "cancel" /\ call.client = c
        /\ Adapter!At("lookup", c, FALSE) /\ UNCHANGED row
    BY <1>15 DEF Adapter!Cancel
  <2>2. row[c].id = c /\ row[c].state \notin Adapter!Terminal
    BY <1>1, <2>1
  <2>3. /\ asked' = asked \cup {c}
        /\ order' = order \/ order' = [order EXCEPT ![c] = new]
    BY <1>15, <2>2 DEF Adapter!Cancel, Adapter!Becomes
  <2>4. new \in Placed /\ new.filled = order[c].filled
    BY <1>1 DEF Placed, Adapter!Statuses
  <2> HIDE DEF new
  <2>5. /\ order' \in [Adapter!Orders -> Placed] /\ order'[c].filled = order[c].filled
        /\ \A d \in Clients \ {c} : order'[d] = order[d]
    BY <1>1, <1>6, <2>3, <2>4
  <2>6. RowTrue(c)'
    BY <1>2, <2>1, <2>2, <2>5, OpenRow
  <2> QED BY <1>1, <1>3, <1>5, <2>1, <2>2, <2>3, <2>5, <2>6, CallerMoves
<1>16. CASE Adapter!Unconfirmed(c)
  <2> DEFINE new == [row[c] EXCEPT !.state = "unknown"]
  <2>1. /\ call.step # "idle" /\ call.client = c /\ call' = Adapter!Idle
        /\ row' = row \/ row' = [row EXCEPT ![c] = new]
        /\ UNCHANGED <<order, asked>>
    BY <1>16 DEF Adapter!Unconfirmed
  <2>2. /\ new \in Adapter!Rows /\ new.state = "unknown"
        /\ new.id = row[c].id /\ new.filled = row[c].filled
    BY <1>1 DEF Adapter!Rows, Adapter!States
  <2> HIDE DEF new
  <2>3. /\ row' \in [Clients -> Adapter!Rows]
        /\ row'[c].id = row[c].id
        /\ row'[c].filled = row[c].filled
        /\ row'[c].state \notin Adapter!Terminal
        /\ \A d \in Clients \ {c} : row'[d] = row[d]
    BY <1>1, <2>1, <2>2 DEF Adapter!Terminal
  <2>4. RowTrue(c)'
    BY <1>2, <2>1, <2>3, OpenRow
  <2> QED BY <1>1, <1>4, <1>5, <2>1, <2>3, <2>4, CallerMoves
<1> QED BY <1>8, <1>9, <1>10, <1>12, <1>13, <1>14, <1>15, <1>16

LEMMA AdapterStep ==
  ASSUME Adapter!AdapterAssumption, AdapterInv, Adapter!Next, UNCHANGED broker
  PROVE  AdapterInv'
<1>1. CASE Adapter!NextSession
  <2>1. /\ order \in [Adapter!Orders -> Placed] /\ \A c \in Clients : c \in Adapter!Orders
        /\ Qty \in Nat
    BY AdapterFacts
  <2> DEFINE Aged(o) == IF Adapter!Over(o)
                          THEN [order[o] EXCEPT !.age = IF @ = "today" THEN "past" ELSE "gone"]
                          ELSE order[o]
  <2>2. ASSUME NEW o \in Adapter!Orders
        PROVE  /\ Aged(o) \in Placed
               /\ Aged(o).filled = order[o].filled
               /\ Aged(o).status = order[o].status
    BY <2>1 DEF Placed
  <2>3. /\ order' = [o \in Adapter!Orders |-> Aged(o)]
        /\ UNCHANGED <<broker, row, call, asked>>
    BY <1>1 DEF Adapter!NextSession, Adapter!Broker
  <2> HIDE DEF Aged
  <2>4. order' \in [Adapter!Orders -> Placed]
    BY <2>2, <2>3
  <2>5. \A c \in Clients :
          order'[c].filled = order[c].filled /\ order'[c].status = order[c].status
    BY <2>1, <2>2, <2>3
  <2>6. \A c \in Clients : order[c].filled \in Nat
    BY <2>1 DEF Placed
  <2>7. \A c \in Clients : order[c].filled <= order'[c].filled
    BY <2>5, <2>6
  <2> QED BY <2>3, <2>4, <2>5, <2>7, OrdersMove
<1>2. CASE Adapter!Die
  <2>1. call' = Adapter!Idle /\ UNCHANGED <<order, row, asked>>
    BY <1>2 DEF Adapter!Die
  <2>2. call' \in Calls /\ call'.step = "idle"
    BY <2>1 DEF Adapter!Idle, Calls
  <2>3. ASSUME NEW c \in Clients PROVE RowTrue(c)'
    <3>1. RowTrue(c)
      BY AdapterFacts
    <3>2. Adapter!StateOf(order[c].status)' = Adapter!StateOf(order[c].status)
      BY <2>1 DEF Adapter!StateOf, Adapter!Reading
    <3> QED BY <2>1, <3>1, <3>2
               DEF RowTrue, Adapter!Over, Adapter!Accepted, Adapter!AtWork,
                   Adapter!Terminal
  <2> QED BY <2>1, <2>2, <2>3, AdapterFacts, AdapterFolds
<1> QED BY <1>1, <1>2, BrokerMoves, CallerStep DEF Adapter!Next

--------------------------------------------------------------------------------
\* The reviews: what the evidence of the last probe says

\* What the evidence says is what the last probe found, and no more than the
\* account's adapter can say.
EvidenceTrue ==
  record.status = "verified" =>
    /\ record = last
    /\ broker = "longport" => ~ record.snapshot.identity
    /\ broker = "schwab" => ~ record.snapshot.permitted

Provable == broker \notin {"longport", "schwab"}

ReviewInv ==
  /\ Review!TypeOK
  /\ EvidenceTrue
  /\ armed.mode # "off" => armed.revision = revision
  /\ armed.mode = "entries" \/ writing \/ ledger # "empty" => Provable

\* A snapshot, whichever adapter takes it: longport never says which account it is,
\* schwab never that it may trade.
LEMMA SnapshotTyped ==
  ASSUME Review!ReviewAssumption, broker \in Brokers, account \in Review!Holdings
  PROVE  /\ Review!Snapshot \in Review!Snapshots
         /\ broker = "longport" => ~ Review!Snapshot.identity
         /\ broker = "schwab" => ~ Review!Snapshot.permitted
<1>1. account.held \in BOOLEAN /\ account.granted \in BOOLEAN
  BY DEF Review!Holdings
<1>2. Review!AlpacaSnapshot \in Review!Snapshots
  BY <1>1 DEF Review!AlpacaSnapshot, Review!Snapshots
<1>3. Review!TigerSnapshot \in Review!Snapshots
  BY <1>1 DEF Review!TigerSnapshot, Review!Snapshots
<1>4. Review!IbkrSnapshot \in Review!Snapshots
  BY <1>1 DEF Review!IbkrSnapshot, Review!Snapshots
<1>5. Review!LongportSnapshot \in Review!Snapshots /\ ~ Review!LongportSnapshot.identity
  BY <1>1 DEF Review!LongportSnapshot, Review!Snapshots
<1>6. Review!FutuSnapshot \in Review!Snapshots
  BY <1>1 DEF Review!FutuSnapshot, Review!Snapshots
<1>7. Review!SchwabSnapshot \in Review!Snapshots /\ ~ Review!SchwabSnapshot.permitted
  BY <1>1 DEF Review!SchwabSnapshot, Review!Snapshots
<1>8. broker \in {"alpaca", "tiger", "ibkr", "longport", "futu", "schwab"}
  BY DEF Review!ReviewAssumption
<1>9. /\ broker = "alpaca" => Review!Snapshot = Review!AlpacaSnapshot
      /\ broker = "tiger" => Review!Snapshot = Review!TigerSnapshot
      /\ broker = "ibkr" => Review!Snapshot = Review!IbkrSnapshot
      /\ broker = "longport" => Review!Snapshot = Review!LongportSnapshot
      /\ broker = "futu" => Review!Snapshot = Review!FutuSnapshot
      /\ broker = "schwab" => Review!Snapshot = Review!SchwabSnapshot
  BY DEF Review!Snapshot
<1> QED BY <1>2, <1>3, <1>4, <1>5, <1>6, <1>7, <1>8, <1>9

LEMMA ReviewInit == ASSUME Review!ReviewAssumption, Review!Init PROVE ReviewInv
<1>1. Review!NoSnapshot \in Review!Snapshots
  BY DEF Review!NoSnapshot, Review!Snapshots
<1>2. Review!Empty("none") \in Review!Records /\ Review!Empty("none").status = "none"
  BY <1>1 DEF Review!Empty, Review!Records, Review!ReviewAssumption
<1>3. /\ armed \in [mode : {"off", "entries", "close_only"}, revision : 0 .. MaxRevision]
      /\ armed.mode = "off"
  BY DEF Review!Init, Review!ReviewAssumption
<1>4. /\ record \in Review!Records /\ last \in Review!Records /\ record.status = "none"
      /\ ledger = "empty" /\ writing = FALSE
      /\ broker \in Brokers /\ account \in Review!Holdings /\ revision \in 1 .. MaxRevision
  BY <1>2 DEF Review!Init, Review!ReviewAssumption
<1> QED BY <1>3, <1>4 DEF ReviewInv, Review!TypeOK, EvidenceTrue

\* What the evidence says is enough for what the review and the gates let through.
LEMMA ReviewSafe == ASSUME ReviewInv PROVE Review!ReviewTruthful
<1>1. ASSUME Review!Eligible
      PROVE  /\ last.status = "verified" /\ last.revision = revision /\ last.fresh
             /\ Review!Gate(last.snapshot) /\ ledger # "unsettled" /\ Provable
  BY <1>1
     DEF Review!Eligible, Review!Fresh, Review!Gate, Review!Permission, ReviewInv,
         EvidenceTrue, Provable
<1> QED BY <1>1
           DEF Review!ReviewTruthful, Review!EligibleIsCurrent, Review!ArmedOnProof,
               ReviewInv, Provable

LEMMA ReviewStep ==
  ASSUME Review!ReviewAssumption, ReviewInv, Review!Next, UNCHANGED broker
  PROVE  ReviewInv'
<1>1. /\ broker \in Brokers /\ account \in Review!Holdings /\ revision \in 1 .. MaxRevision
      /\ ledger \in {"empty", "settled", "unsettled"}
      /\ armed \in [mode : {"off", "entries", "close_only"}, revision : 0 .. MaxRevision]
      /\ record \in Review!Records /\ last \in Review!Records /\ writing \in BOOLEAN
      /\ MaxRevision \in Nat
      /\ EvidenceTrue
      /\ armed.mode # "off" => armed.revision = revision
      /\ armed.mode = "entries" \/ writing \/ ledger # "empty" => Provable
  BY DEF ReviewInv, Review!TypeOK, Review!ReviewAssumption
<1>2. /\ Review!Snapshot \in Review!Snapshots
      /\ broker = "longport" => ~ Review!Snapshot.identity
      /\ broker = "schwab" => ~ Review!Snapshot.permitted
  BY <1>1, SnapshotTyped
<1>3. Review!Gate(Review!Snapshot) => Provable
  BY <1>2 DEF Review!Gate, Review!Permission, Provable
<1>4. /\ Review!Failed \in Review!Records /\ Review!Failed.status = "failed"
      /\ Review!Empty("failed") \in Review!Records
  <2>1. /\ Review!NoSnapshot \in Review!Snapshots
        /\ 0 \in 0 .. MaxRevision
        /\ revision \in 0 .. MaxRevision
    BY <1>1 DEF Review!NoSnapshot, Review!Snapshots
  <2>2. /\ Review!Empty("failed") \in Review!Records
        /\ Review!Empty("failed").status = "failed"
    BY <2>1 DEF Review!Empty, Review!Records
  <2> QED BY <2>1, <2>2 DEF Review!Failed, Review!Records
<1>5. ASSUME Review!Probed
      PROVE  record' \in Review!Records /\ last' \in Review!Records /\ EvidenceTrue'
  <2>1. Review!Saved(Review!Snapshot) \in Review!Records
        /\ Review!Saved(Review!Snapshot).snapshot = Review!Snapshot
    BY <1>1, <1>2 DEF Review!Saved, Review!Records
  <2> QED BY <1>2, <1>5, <2>1 DEF Review!Probed, EvidenceTrue
<1> DEFINE Armings == [mode : {"off", "entries", "close_only"}, revision : 0 .. MaxRevision]
<1>6. ASSUME account' \in Review!Holdings, revision' \in 1 .. MaxRevision,
             ledger' \in {"empty", "settled", "unsettled"}, armed' \in Armings,
             writing' \in BOOLEAN,
             \/ UNCHANGED <<record, last>>
             \/ record' \in Review!Records /\ last' \in Review!Records /\ EvidenceTrue',
             armed'.mode # "off" => armed'.revision = revision',
             armed'.mode = "entries" \/ writing' \/ ledger' # "empty" => Provable
      PROVE  ReviewInv'
  <2>1. /\ record' \in Review!Records
        /\ last' \in Review!Records
        /\ EvidenceTrue'
        /\ broker' \in Brokers
    BY <1>1, <1>6 DEF EvidenceTrue
  <2>2. Provable' <=> Provable
    BY DEF Provable
  <2> QED BY <1>6, <2>1, <2>2 DEF ReviewInv, Review!TypeOK
<1>7. CASE Review!Trade
  <2>1. account' \in Review!Holdings
    <3>1. /\ account.held \in BOOLEAN /\ account.granted \in BOOLEAN
          /\ account.working \in SUBSET {"today", "recent", "old"}
      BY <1>1 DEF Review!Holdings
    <3>2. [account EXCEPT !.held = ~ account.held] \in Review!Holdings
      BY <1>1 DEF Review!Holdings
    <3>3. [account EXCEPT !.granted = ~ account.granted] \in Review!Holdings
      BY <1>1 DEF Review!Holdings
    <3>4. ASSUME NEW ages \in SUBSET {"today", "recent", "old"}
          PROVE  [account EXCEPT !.working = ages] \in Review!Holdings
      BY <1>1 DEF Review!Holdings
    <3>5. \A age \in {"today", "recent", "old"} :
            (IF age \in account.working THEN account.working \ {age}
                                       ELSE account.working \cup {age})
              \in SUBSET {"today", "recent", "old"}
      BY <3>1
    <3> QED BY <1>7, <3>2, <3>3, <3>4, <3>5 DEF Review!Trade
  <2>2. UNCHANGED <<revision, ledger, armed, record, writing, last>>
    BY <1>7 DEF Review!Trade
  <2> QED BY <1>1, <1>6, <2>1, <2>2
<1>8. CASE Review!Age
  <2>1. /\ record' = [record EXCEPT !.fresh = FALSE]
        /\ last' = [last EXCEPT !.fresh = FALSE]
        /\ UNCHANGED <<account, revision, ledger, armed, writing>>
    BY <1>8 DEF Review!Age
  <2>2. /\ record' \in Review!Records /\ last' \in Review!Records
        /\ record'.status = record.status /\ record'.snapshot = record.snapshot
        /\ record = last => record' = last'
    BY <1>1, <2>1 DEF Review!Records
  <2>3. EvidenceTrue'
    BY <1>1, <2>2 DEF EvidenceTrue
  <2> QED BY <1>1, <1>6, <2>1, <2>2, <2>3
<1>9. CASE Review!ProbeFails
  <2>1. /\ record' = Review!Failed /\ last' = Review!Empty("failed")
        /\ UNCHANGED <<account, revision, ledger, armed, writing>>
    BY <1>9 DEF Review!ProbeFails
  <2>2. EvidenceTrue'
    BY <1>4, <2>1 DEF EvidenceTrue
  <2> QED BY <1>1, <1>4, <1>6, <2>1, <2>2
<1>10. CASE Review!Verify
  BY <1>1, <1>5, <1>6, <1>10 DEF Review!Verify
<1>11. CASE Review!Authorize
  BY <1>1, <1>3, <1>5, <1>6, <1>11 DEF Review!Authorize
<1>12. CASE Review!Authorized
  <2>1. armed' = [mode |-> "entries", revision |-> revision]
        /\ writing
        /\ writing' = FALSE
        /\ UNCHANGED <<account, revision, ledger, record, last>>
    BY <1>12 DEF Review!Authorized
  <2>2. armed' \in Armings
    BY <1>1, <2>1
  <2> QED BY <1>1, <1>6, <2>1, <2>2
<1>13. CASE Review!Die \/ Review!Settle
  BY <1>1, <1>6, <1>13 DEF Review!Die, Review!Settle
<1>14. CASE Review!Revoke
  <2>1. /\ armed' = [mode |-> IF ledger = "unsettled" THEN "close_only" ELSE "off",
                     revision |-> revision]
        /\ UNCHANGED <<account, revision, ledger, record, writing, last>>
    BY <1>14 DEF Review!Revoke
  <2>2. armed' \in Armings /\ armed'.mode # "entries" /\ armed'.revision = revision
    BY <1>1, <2>1
  <2> QED BY <1>1, <1>6, <2>1, <2>2
<1>15. CASE Review!Submit
  BY <1>1, <1>3, <1>6, <1>15 DEF Review!Submit
<1>16. CASE Review!Reconcile
  <2>1. /\ ledger' \in {"unsettled", "settled", ledger}
        /\ ledger = "empty" => ledger' = "empty"
        /\ Review!Probed
        /\ armed' = armed \/ armed' = [mode |-> "off", revision |-> revision]
        /\ UNCHANGED <<account, revision, writing>>
    BY <1>16 DEF Review!Reconcile
  <2>2. armed' \in Armings /\ (armed' = armed \/ armed'.mode = "off")
    BY <1>1, <2>1
  <2> QED BY <1>1, <1>5, <1>6, <2>1, <2>2
<1>17. CASE Review!Rotate
  <2>1. /\ revision' = revision + 1 /\ revision < MaxRevision
        /\ armed' = [mode |-> "off", revision |-> revision']
        /\ UNCHANGED <<account, ledger, record, writing, last>>
    BY <1>17 DEF Review!Rotate
  <2>2. revision' \in 1 .. MaxRevision /\ armed' \in Armings /\ armed'.mode = "off"
    BY <1>1, <2>1
  <2> QED BY <1>1, <1>6, <2>1, <2>2
<1> QED BY <1>7, <1>8, <1>9, <1>10, <1>11, <1>12, <1>13, <1>14, <1>15, <1>16, <1>17
        DEF Review!Next

--------------------------------------------------------------------------------
\* The bridge

\* What each thread knows while it is where it is.
ThreadKnows(t) ==
  /\ at[t] \notin {"idle", "listing", "gone"} => about[t] \in Plans
  /\ at[t] \in {"prepared", "staging", "stageSent"} => proof[about[t]] = "own"
  /\ at[t] \in {"quoting", "priced", "ticking", "tickSent", "ticked"} =>
       state[about[t]] # "none"
  /\ at[t] \in Bridge!Monitoring => pass = t
  /\ at[t] \in {"stageSent", "tickSent"} => t \in early
  /\ at[t] \in {"staged", "ticked"} =>
       result[t] \in Bridge!Results /\ state[about[t]] \in Bridge!Reached(result[t])

BridgeInv ==
  /\ Bridge!TypeOK
  /\ at["cycle"] # "gone"
  /\ at["monitor"] \notin {"reading", "prepared", "staging", "stageSent", "staged"}
  /\ \A t \in Bridge!Threads : ThreadKnows(t)
  /\ close = "confirmed" => at["monitor"] = "gone"
  /\ Bridge!BridgeTruthful

LEMMA BridgeInit == ASSUME Bridge!BridgeAssumption, Bridge!Init PROVE BridgeInv
BY DEF Bridge!BridgeAssumption, Bridge!Init, BridgeInv, Bridge!TypeOK, Bridge!Threads,
       Bridge!Proofs, Bridge!Steps, Bridge!PlanStates, Bridge!Active, Bridge!Results,
       Bridge!Monitoring, ThreadKnows, Bridge!BridgeTruthful, Bridge!StagedUnderAudit,
       Bridge!OnePass, Bridge!QuietAfterStop, Bridge!RecordsFollow

\* What one step may make of a plan.
Moves(s) == IF s = "none" THEN {"none", "staged"} ELSE Bridge!Ticks(s)
PlansMove == \A p \in Plans : state'[p] \in Moves(state[p])

\* A plan only moves on, and what was reached stays reached.
LEMMA Forward ==
  ASSUME NEW s \in Bridge!PlanStates, NEW r \in Bridge!Results, NEW n \in Moves(s)
  PROVE  /\ n \in Bridge!PlanStates /\ (s # "none" => n # "none")
         /\ s \in Bridge!Reached(r) => n \in Bridge!Reached(r)
BY DEF Moves, Bridge!PlanStates, Bridge!Active, Bridge!Results, Bridge!Ticks, Bridge!Reached

\* A step that leaves the plans alone.
LEMMA PlansStand == ASSUME BridgeInv, UNCHANGED state PROVE PlansMove
BY DEF BridgeInv, Bridge!TypeOK, PlansMove, Moves, Bridge!Ticks, Bridge!PlanStates,
       Bridge!Active

\* The thread that does not move knows what it knew.
LEMMA SameThread ==
  ASSUME BridgeInv, NEW u \in Bridge!Threads, PlansMove, proof' = proof,
         at'[u] = at[u], about'[u] = about[u], result'[u] = result[u],
         pass = u => pass' = u, u \in early => u \in early'
  PROVE  ThreadKnows(u)'
<1>1. ThreadKnows(u)
  BY DEF BridgeInv
<1>2. \A p \in Plans : state[p] \in Bridge!PlanStates
  BY DEF BridgeInv, Bridge!TypeOK
<1>3. at[u] \notin {"idle", "listing", "gone"} =>
        about[u] \in Plans /\ state'[about[u]] \in Moves(state[about[u]])
  BY <1>1 DEF ThreadKnows, PlansMove
<1>4. at'[u] \in {"quoting", "priced", "ticking", "tickSent", "ticked"} =>
        state'[about'[u]] # "none"
  BY <1>1, <1>2, <1>3, Forward DEF ThreadKnows, Bridge!Results
<1>5. at'[u] \in {"staged", "ticked"} =>
        result'[u] \in Bridge!Results /\ state'[about'[u]] \in Bridge!Reached(result'[u])
  BY <1>1, <1>2, <1>3, Forward DEF ThreadKnows
<1> QED BY <1>1, <1>4, <1>5 DEF ThreadKnows, Bridge!Monitoring

\* What is recorded stays behind plans that move on.
LEMMA SameRecords ==
  ASSUME BridgeInv, PlansMove, UNCHANGED said
  PROVE  Bridge!RecordsFollow'
<1> SUFFICES ASSUME NEW p \in Plans, said[p] # None
             PROVE  state'[p] \in Bridge!Reached(said[p])
  BY DEF Bridge!RecordsFollow
<1>1. said[p] \in Bridge!Results /\ state[p] \in Bridge!PlanStates
  BY DEF BridgeInv, Bridge!TypeOK
<1>2. state[p] \in Bridge!Reached(said[p])
  BY DEF BridgeInv, Bridge!BridgeTruthful, Bridge!RecordsFollow
<1> QED BY <1>1, <1>2, Forward DEF PlansMove

OneActive ==
  \A p, q \in Plans : state[p] \in Bridge!Active /\ state[q] \in Bridge!Active => p = q

\* Thread t moves, the other one stands where it was.
OnlyThread(t) ==
  /\ \A u \in Bridge!Threads \ {t} :
       /\ at'[u] = at[u] /\ about'[u] = about[u] /\ result'[u] = result[u]
       /\ pass = u => pass' = u
       /\ u \in early => u \in early'
  /\ UNCHANGED <<proof, stop, close>>

\* A step of one thread keeps the invariant if it keeps that thread's part of it.
LEMMA ThreadMoves ==
  ASSUME BridgeInv, NEW t \in Bridge!Threads, OnlyThread(t), PlansMove, Bridge!TypeOK',
         at[t] # "gone", at'[t] = "gone" => t = "monitor",
         at'[t] \in {"reading", "prepared", "staging", "stageSent", "staged"} => t = "cycle",
         ThreadKnows(t)', Bridge!StagedUnderAudit', OneActive', Bridge!RecordsFollow'
  PROVE  BridgeInv'
<1>1. \A u \in Bridge!Threads : ThreadKnows(u)'
  BY SameThread DEF OnlyThread
<1>2. Bridge!Threads = {"cycle", "monitor"}
  BY DEF Bridge!Threads
<1>3. /\ at'["cycle"] # "gone"
      /\ at'["monitor"] \notin {"reading", "prepared", "staging", "stageSent", "staged"}
  BY <1>2 DEF BridgeInv, OnlyThread
<1>4. close' = "confirmed" => at'["monitor"] = "gone"
  BY <1>2 DEF BridgeInv, OnlyThread
<1>5. Bridge!OnePass'
  BY <1>1, <1>2 DEF OneActive, Bridge!OnePass, ThreadKnows
<1>6. Bridge!QuietAfterStop'
  BY <1>1, <1>2, <1>4 DEF Bridge!QuietAfterStop, ThreadKnows
<1> QED BY <1>1, <1>3, <1>4, <1>5, <1>6 DEF BridgeInv, Bridge!BridgeTruthful

\* A step of a thread that leaves the broker and the records alone.
LEMMA ThreadGoes ==
  ASSUME BridgeInv, NEW t \in Bridge!Threads, OnlyThread(t), Bridge!TypeOK',
         UNCHANGED <<state, said>>,
         at[t] # "gone", at'[t] = "gone" => t = "monitor",
         at'[t] \in {"reading", "prepared", "staging", "stageSent", "staged"} => t = "cycle",
         ThreadKnows(t)'
  PROVE  BridgeInv'
<1>1. PlansMove /\ Bridge!RecordsFollow'
  BY PlansStand, SameRecords
<1>2. Bridge!StagedUnderAudit' /\ OneActive'
  BY DEF BridgeInv, Bridge!BridgeTruthful, Bridge!StagedUnderAudit, Bridge!OnePass,
         OneActive, OnlyThread
<1> QED BY <1>1, <1>2, ThreadMoves

\* A thread that gives up leaves nothing behind.
LEMMA Leaves ==
  ASSUME BridgeInv, NEW t \in Bridge!Threads, Bridge!Leave(t),
         UNCHANGED <<proof, fence, stop, close>>
  PROVE  /\ OnlyThread(t) /\ ThreadKnows(t)' /\ at'[t] = "idle"
         /\ (/\ state' \in [Plans -> Bridge!PlanStates]
             /\ said' \in [Plans -> Bridge!Results \cup {None}]) => Bridge!TypeOK'
BY DEF Bridge!Leave, Bridge!Goes, BridgeInv, Bridge!TypeOK, OnlyThread, ThreadKnows,
       Bridge!Monitoring, Bridge!Steps, Bridge!Threads

LEMMA BridgeStep ==
  ASSUME Bridge!BridgeAssumption, BridgeInv, Bridge!Next
  PROVE  BridgeInv'
<1> USE DEF Bridge!BridgeAssumption
<1>1. ASSUME NEW t \in Bridge!Threads, Bridge!List(t) PROVE BridgeInv'
  <2>1. /\ OnlyThread(t)
        /\ UNCHANGED <<state, said>> /\ at[t] \notin {"idle", "gone"} /\ at'[t] # "gone"
        /\ at'[t] \in {"reading", "prepared", "staging", "stageSent", "staged"} => t = "cycle"
    <3>1. CASE Bridge!Leave(t)
      BY <1>1, <3>1, Leaves DEF Bridge!List, Bridge!Control
    <3>2. CASE ~ Bridge!Leave(t)
      <4>1. UNCHANGED <<proof, stop, close, state, said>>
        BY <1>1, <3>2 DEF Bridge!List, Bridge!Control
      <4>2. /\ at \in [Bridge!Threads -> Bridge!Steps]
            /\ about \in [Bridge!Threads -> Plans \cup {None}]
            /\ result \in [Bridge!Threads -> Bridge!Results \cup {None}]
        BY DEF BridgeInv, Bridge!TypeOK
      <4>3. \A u \in Bridge!Threads \ {t} :
              /\ at'[u] = at[u] /\ about'[u] = about[u] /\ result'[u] = result[u]
              /\ pass' = pass /\ early' = early
        BY <1>1, <3>2, <4>2 DEF Bridge!List, Bridge!Goes
      <4>4. at[t] \notin {"idle", "gone"} /\ at'[t] \in {"quoting", "ticked"}
        BY <1>1, <3>2, <4>2 DEF Bridge!List, Bridge!Goes, Bridge!Threads
      <4>5. OnlyThread(t)
        BY <4>1, <4>3 DEF OnlyThread
      <4> QED BY <4>1, <4>4, <4>5 DEF BridgeInv, Bridge!Threads
    <3> QED BY <3>1, <3>2
  <2>2. Bridge!TypeOK'
    <3>1. CASE Bridge!Leave(t)
      BY <1>1, <3>1, Leaves DEF Bridge!List, Bridge!Control, BridgeInv, Bridge!TypeOK
    <3>2. CASE ~ Bridge!Leave(t)
      <4>1. PICK p \in Plans :
              /\ about' = [about EXCEPT ![t] = p]
              /\ at' = [at EXCEPT ![t] = "ticked"] \/ at' = [at EXCEPT ![t] = "quoting"]
              /\ result' = [result EXCEPT ![t] = "blocked"] \/ result' = result
        BY <1>1, <3>2 DEF Bridge!List, Bridge!Goes
      <4>2. UNCHANGED <<proof, fence, state, pass, said, stop, close, early>>
        BY <1>1, <3>2 DEF Bridge!List, Bridge!Control
      <4>3. at' \in [Bridge!Threads -> Bridge!Steps]
        BY <4>1 DEF BridgeInv, Bridge!TypeOK, Bridge!Steps
      <4>4. about' \in [Bridge!Threads -> Plans \cup {None}]
        BY <4>1 DEF BridgeInv, Bridge!TypeOK
      <4>5. result' \in [Bridge!Threads -> Bridge!Results \cup {None}]
        BY <4>1 DEF BridgeInv, Bridge!TypeOK, Bridge!Results
      <4> QED BY <4>2, <4>3, <4>4, <4>5 DEF BridgeInv, Bridge!TypeOK
    <3> QED BY <3>1, <3>2
  <2>3. ThreadKnows(t)'
    BY <1>1, Leaves
       DEF Bridge!List, Bridge!Goes, Bridge!Control, BridgeInv, Bridge!TypeOK,
           Bridge!Threads, Bridge!Steps, ThreadKnows, Bridge!Monitoring, Bridge!Active,
           Bridge!Results, Bridge!PlanStates, Bridge!Reached
  <2> QED BY <2>1, <2>2, <2>3, ThreadGoes
<1>2. ASSUME NEW t \in Bridge!Threads, Bridge!Quote(t) PROVE BridgeInv'
  <2>1. /\ OnlyThread(t)
        /\ UNCHANGED <<state, said>> /\ at[t] \notin {"idle", "gone"} /\ at'[t] # "gone"
        /\ at'[t] \in {"reading", "prepared", "staging", "stageSent", "staged"} => t = "cycle"
    BY <1>2, Leaves
       DEF Bridge!Quote, OnlyThread, Bridge!Goes, Bridge!Control, BridgeInv,
           Bridge!TypeOK, Bridge!Threads, Bridge!Steps
  <2>2. Bridge!TypeOK'
    BY <1>2, Leaves
       DEF Bridge!Quote, Bridge!Goes, Bridge!Control, BridgeInv, Bridge!TypeOK,
           Bridge!Threads, Bridge!Steps
  <2>3. ThreadKnows(t)'
    BY <1>2, Leaves
       DEF Bridge!Quote, Bridge!Goes, Bridge!Control, BridgeInv, Bridge!TypeOK,
           Bridge!Threads, Bridge!Steps, ThreadKnows, Bridge!Monitoring
  <2> QED BY <2>1, <2>2, <2>3, ThreadGoes
<1>3. ASSUME NEW t \in Bridge!Threads, Bridge!Enter(t) PROVE BridgeInv'
  <2>1. /\ OnlyThread(t)
        /\ UNCHANGED <<state, said>> /\ at[t] \notin {"idle", "gone"} /\ at'[t] # "gone"
        /\ at'[t] \in {"reading", "prepared", "staging", "stageSent", "staged"} => t = "cycle"
    BY <1>3, Leaves
       DEF Bridge!Enter, OnlyThread, Bridge!Goes, Bridge!Control, BridgeInv,
           Bridge!TypeOK, Bridge!Threads, Bridge!Steps
  <2>2. Bridge!TypeOK'
    BY <1>3, Leaves
       DEF Bridge!Enter, Bridge!Goes, Bridge!Control, BridgeInv, Bridge!TypeOK,
           Bridge!Threads, Bridge!Steps
  <2>3. ThreadKnows(t)'
    BY <1>3, Leaves
       DEF Bridge!Enter, Bridge!Goes, Bridge!Control, BridgeInv, Bridge!TypeOK,
           Bridge!Threads, Bridge!Steps, ThreadKnows, Bridge!Monitoring
  <2> QED BY <2>1, <2>2, <2>3, ThreadGoes
<1>4. ASSUME NEW t \in Bridge!Threads, Bridge!Dispatch(t) PROVE BridgeInv'
  <2>1. /\ OnlyThread(t)
        /\ UNCHANGED <<state, said>> /\ at[t] \notin {"idle", "gone"} /\ at'[t] # "gone"
        /\ at'[t] \in {"reading", "prepared", "staging", "stageSent", "staged"} => t = "cycle"
    <3>1. CASE Bridge!MayDispatch
      BY <1>4, <3>1
         DEF Bridge!Dispatch, OnlyThread, Bridge!Goes, Bridge!Control, BridgeInv,
             Bridge!TypeOK, Bridge!Threads, Bridge!Steps
    <3>2. CASE ~ Bridge!MayDispatch
      <4>1. UNCHANGED <<proof, stop, close, state, said>>
        BY <1>4, <3>2 DEF Bridge!Dispatch, Bridge!Control
      <4>2. /\ at \in [Bridge!Threads -> Bridge!Steps]
            /\ about \in [Bridge!Threads -> Plans \cup {None}]
            /\ result \in [Bridge!Threads -> Bridge!Results \cup {None}]
        BY DEF BridgeInv, Bridge!TypeOK
      <4>3. \A u \in Bridge!Threads \ {t} :
              /\ at'[u] = at[u] /\ about'[u] = about[u] /\ result'[u] = result[u]
              /\ pass' = pass /\ early' = early
        BY <1>4, <3>2, <4>2 DEF Bridge!Dispatch, Bridge!Goes
      <4>4. /\ at[t] \notin {"idle", "gone"} /\ at'[t] \in {"staged", "ticked"}
            /\ at'[t] = "staged" => at[t] = "staging"
        BY <1>4, <3>2, <4>2 DEF Bridge!Dispatch, Bridge!Goes, Bridge!Threads
      <4>5. OnlyThread(t)
        BY <4>1, <4>3 DEF OnlyThread
      <4> QED BY <4>1, <4>4, <4>5 DEF BridgeInv, Bridge!Threads
    <3> QED BY <3>1, <3>2
  <2>2. Bridge!TypeOK'
    <3>1. UNCHANGED <<proof, fence, state, about, pass, said, stop, close>>
      BY <1>4 DEF Bridge!Dispatch, Bridge!Control
    <3>2. at' \in [Bridge!Threads -> Bridge!Steps]
      BY <1>4 DEF Bridge!Dispatch, Bridge!Goes, BridgeInv, Bridge!TypeOK, Bridge!Steps
    <3>3. result' \in [Bridge!Threads -> Bridge!Results \cup {None}]
      BY <1>4 DEF Bridge!Dispatch, BridgeInv, Bridge!TypeOK, Bridge!Results
    <3>4. early' \subseteq Bridge!Threads
      BY <1>4 DEF Bridge!Dispatch, BridgeInv, Bridge!TypeOK
    <3> QED BY <3>1, <3>2, <3>3, <3>4 DEF BridgeInv, Bridge!TypeOK
  <2>3. ThreadKnows(t)'
    BY <1>4, Leaves
       DEF Bridge!Dispatch, Bridge!Goes, Bridge!Control, BridgeInv, Bridge!TypeOK,
           Bridge!Threads, Bridge!Steps, ThreadKnows, Bridge!Monitoring,
           Bridge!MayDispatch, Bridge!Results, Bridge!Reached, Bridge!PlanStates
  <2> QED BY <2>1, <2>2, <2>3, ThreadGoes
<1>5. ASSUME NEW t \in Bridge!Threads, Bridge!Begin(t) PROVE BridgeInv'
  <2>1. /\ OnlyThread(t)
        /\ UNCHANGED <<state, said>> /\ at[t] # "gone" /\ at'[t] = "listing"
    BY <1>5
       DEF Bridge!Begin, OnlyThread, Bridge!Goes, Bridge!Control, BridgeInv,
           Bridge!TypeOK, Bridge!Threads, Bridge!Steps
  <2>2. Bridge!TypeOK'
    BY <1>5
       DEF Bridge!Begin, Bridge!Goes, Bridge!Control, BridgeInv, Bridge!TypeOK,
           Bridge!Threads, Bridge!Steps
  <2>3. ThreadKnows(t)'
    BY <1>5, <2>1 DEF Bridge!Begin, ThreadKnows, Bridge!Monitoring
  <2> QED BY <2>1, <2>2, <2>3, ThreadGoes
<1>6. ASSUME NEW p \in Plans, Bridge!Handoff(p) PROVE BridgeInv'
  <2>1. /\ OnlyThread("cycle")
        /\ UNCHANGED <<state, said>> /\ at["cycle"] # "gone" /\ at'["cycle"] = "reading"
        /\ about'["cycle"] = p
    BY <1>6
       DEF Bridge!Handoff, OnlyThread, Bridge!Goes, Bridge!Control, BridgeInv,
           Bridge!TypeOK, Bridge!Threads, Bridge!Steps
  <2>2. Bridge!TypeOK'
    BY <1>6
       DEF Bridge!Handoff, Bridge!Goes, Bridge!Control, BridgeInv, Bridge!TypeOK,
           Bridge!Threads, Bridge!Steps
  <2>3. ThreadKnows("cycle")'
    BY <2>1 DEF ThreadKnows, Bridge!Monitoring
  <2>4. "cycle" \in Bridge!Threads
    BY DEF Bridge!Threads
  <2> QED BY <2>1, <2>2, <2>3, <2>4, ThreadGoes
<1>7. ASSUME Bridge!Prepare PROVE BridgeInv'
  <2>1. "cycle" \in Bridge!Threads
    BY DEF Bridge!Threads
  <2>2. /\ OnlyThread("cycle")
        /\ UNCHANGED <<state, said>> /\ at["cycle"] # "gone" /\ at'["cycle"] # "gone"
    <3>1. CASE Bridge!Leave("cycle")
      BY <1>7, <2>1, <3>1, Leaves DEF Bridge!Prepare, Bridge!Control, BridgeInv
    <3>2. CASE ~ Bridge!Leave("cycle")
      <4>1. UNCHANGED <<proof, stop, close, state, said>>
        BY <1>7, <3>2 DEF Bridge!Prepare, Bridge!Control
      <4>2. /\ at \in [Bridge!Threads -> Bridge!Steps]
            /\ about \in [Bridge!Threads -> Plans \cup {None}]
            /\ result \in [Bridge!Threads -> Bridge!Results \cup {None}]
        BY DEF BridgeInv, Bridge!TypeOK
      <4>3. \A u \in Bridge!Threads \ {"cycle"} :
              /\ at'[u] = at[u] /\ about'[u] = about[u] /\ result'[u] = result[u]
              /\ pass' = pass /\ early' = early
        BY <1>7, <3>2, <4>2 DEF Bridge!Prepare, Bridge!Goes
      <4>4. at["cycle"] # "gone" /\ at'["cycle"] # "gone"
        BY <1>7, <3>2, <4>2 DEF Bridge!Prepare, Bridge!Goes, Bridge!Threads
      <4>5. OnlyThread("cycle")
        BY <4>1, <4>3 DEF OnlyThread
      <4> QED BY <4>1, <4>4, <4>5 DEF BridgeInv, Bridge!Threads
    <3> QED BY <3>1, <3>2
  <2>3. Bridge!TypeOK'
    <3>1. CASE Bridge!Leave("cycle")
      BY <1>7, <2>1, <3>1, Leaves
         DEF Bridge!Prepare, Bridge!Control, BridgeInv, Bridge!TypeOK
    <3>2. CASE ~ Bridge!Leave("cycle")
      BY <1>7, <3>2
         DEF Bridge!Prepare, Bridge!Goes, Bridge!Control, BridgeInv, Bridge!TypeOK,
             Bridge!Threads, Bridge!Steps
    <3> QED BY <3>1, <3>2
  <2>4. ThreadKnows("cycle")'
    BY <1>7, <2>1, Leaves
       DEF Bridge!Prepare, Bridge!Proven, Bridge!Goes, Bridge!Control, BridgeInv,
           Bridge!TypeOK, Bridge!Threads, Bridge!Steps, ThreadKnows, Bridge!Monitoring
  <2> QED BY <2>2, <2>3, <2>4, <2>1, ThreadGoes
<1>8. ASSUME Bridge!ThreadEnds PROVE BridgeInv'
  <2>1. "monitor" \in Bridge!Threads
    BY DEF Bridge!Threads
  <2>2. /\ OnlyThread("monitor")
        /\ UNCHANGED <<state, said>> /\ at["monitor"] # "gone" /\ at'["monitor"] = "gone"
    BY <1>8, <2>1
       DEF Bridge!ThreadEnds, OnlyThread, Bridge!Goes, Bridge!Control, BridgeInv,
           Bridge!TypeOK, Bridge!Threads, Bridge!Steps
  <2>3. Bridge!TypeOK'
    BY <1>8, <2>1
       DEF Bridge!ThreadEnds, Bridge!Goes, Bridge!Control, BridgeInv, Bridge!TypeOK,
           Bridge!Threads, Bridge!Steps
  <2>4. ThreadKnows("monitor")'
    BY <2>2 DEF ThreadKnows, Bridge!Monitoring
  <2> QED BY <2>2, <2>3, <2>4, <2>1, ThreadGoes
<1>9. ASSUME Bridge!Staged PROVE BridgeInv'
  <2> DEFINE p == about["cycle"]
  <2>1. "cycle" \in Bridge!Threads /\ at["cycle"] = "stageSent"
    BY <1>9 DEF Bridge!Threads, Bridge!Staged
  <2>2. p \in Plans /\ proof[p] = "own"
    BY <2>1 DEF BridgeInv, ThreadKnows
  <2>3. /\ OnlyThread("cycle")
        /\ UNCHANGED said
        /\ at'["cycle"] = "staged"
        /\ about'["cycle"] = p
    BY <1>9, <2>1
       DEF Bridge!Staged, OnlyThread, Bridge!Goes, Bridge!Control, BridgeInv,
           Bridge!TypeOK, Bridge!Threads, Bridge!Steps
  <2>4. PICK done \in BOOLEAN, heard \in BOOLEAN :
          /\ done => Bridge!Stageable(p)
          /\ state' = IF done THEN [state EXCEPT ![p] = "staged"] ELSE state
          /\ result' = [result EXCEPT !["cycle"] =
                          IF heard /\ state'[p] # "none" THEN state'[p] ELSE "blocked"]
    BY <1>9 DEF Bridge!Staged
  <2>5. /\ state \in [Plans -> Bridge!PlanStates] /\ state' \in [Plans -> Bridge!PlanStates]
        /\ PlansMove
    BY <2>2, <2>4
       DEF BridgeInv, Bridge!TypeOK, PlansMove, Moves, Bridge!PlanStates, Bridge!Active,
           Bridge!Ticks, Bridge!Stageable
  <2>6. /\ result'["cycle"] \in Bridge!Results
        /\ state'[p] \in Bridge!Reached(result'["cycle"])
    BY <2>1, <2>2, <2>4, <2>5
       DEF BridgeInv, Bridge!TypeOK, Bridge!Results, Bridge!PlanStates, Bridge!Active,
           Bridge!Reached
  <2>7. Bridge!TypeOK'
    BY <1>9, <2>1, <2>4, <2>5, <2>6
       DEF Bridge!Staged, Bridge!Goes, Bridge!Control, BridgeInv, Bridge!TypeOK,
           Bridge!Threads, Bridge!Steps
  <2>8. ThreadKnows("cycle")'
    BY <2>2, <2>3, <2>6 DEF ThreadKnows, Bridge!Monitoring
  <2>9. Bridge!StagedUnderAudit' /\ OneActive'
    BY <2>2, <2>3, <2>4, <2>5
       DEF BridgeInv, Bridge!BridgeTruthful, Bridge!StagedUnderAudit, Bridge!OnePass,
           OneActive, OnlyThread,
       Bridge!Stageable, Bridge!Active
  <2> QED BY <2>1, <2>3, <2>5, <2>7, <2>8, <2>9, SameRecords, ThreadMoves
<1>10. ASSUME NEW t \in Bridge!Threads, Bridge!Ticked(t) PROVE BridgeInv'
  <2> DEFINE p == about[t]
  <2>1. at[t] = "tickSent" /\ p \in Plans /\ state[p] # "none"
    BY <1>10 DEF Bridge!Ticked, BridgeInv, ThreadKnows
  <2>2. OnlyThread(t) /\ UNCHANGED <<said, pass>> /\ at'[t] = "ticked" /\ about'[t] = p
    BY <1>10
       DEF Bridge!Ticked, OnlyThread, Bridge!Goes, Bridge!Control, BridgeInv,
           Bridge!TypeOK, Bridge!Threads, Bridge!Steps
  <2>3. PICK s \in Bridge!Ticks(state[p]), heard \in BOOLEAN :
          /\ state' = [state EXCEPT ![p] = s]
          /\ result' = [result EXCEPT ![t] = IF heard THEN s ELSE "blocked"]
    BY <1>10 DEF Bridge!Ticked
  <2>4. /\ state \in [Plans -> Bridge!PlanStates] /\ s \in Bridge!PlanStates \ {"none"}
        /\ s \in Bridge!Active => state[p] \in Bridge!Active
    BY <2>1, <2>3
       DEF BridgeInv, Bridge!TypeOK, Bridge!PlanStates, Bridge!Active, Bridge!Ticks
  <2>5. PlansMove /\ state' \in [Plans -> Bridge!PlanStates] /\ state'[p] = s
    BY <2>1, <2>3, <2>4 DEF PlansMove, Moves, Bridge!PlanStates, Bridge!Active, Bridge!Ticks
  <2>6. /\ result'[t] \in Bridge!Results
        /\ state'[p] \in Bridge!Reached(result'[t])
    BY <2>3, <2>4, <2>5
       DEF BridgeInv, Bridge!TypeOK, Bridge!Results, Bridge!PlanStates, Bridge!Active,
           Bridge!Reached
  <2>7. Bridge!TypeOK'
    BY <1>10, <2>3, <2>5, <2>6
       DEF Bridge!Ticked, Bridge!Goes, Bridge!Control, BridgeInv, Bridge!TypeOK,
           Bridge!Threads, Bridge!Steps
  <2>8. ThreadKnows(t)'
    BY <1>10, <2>1, <2>2, <2>4, <2>5, <2>6 DEF BridgeInv, ThreadKnows, Bridge!Monitoring
  <2>9. Bridge!StagedUnderAudit' /\ OneActive'
    BY <2>1, <2>2, <2>3, <2>4
       DEF BridgeInv, Bridge!BridgeTruthful, Bridge!StagedUnderAudit, Bridge!OnePass,
           OneActive, OnlyThread
  <2> QED BY <2>1, <2>2, <2>5, <2>7, <2>8, <2>9, SameRecords, ThreadMoves
<1>11. ASSUME NEW t \in Bridge!Threads, Bridge!Record(t) PROVE BridgeInv'
  <2>1. /\ at[t] \in {"staged", "ticked"}
        /\ about[t] \in Plans
        /\ result[t] \in Bridge!Results
        /\ state[about[t]] \in Bridge!Reached(result[t])
    BY <1>11 DEF Bridge!Record, BridgeInv, ThreadKnows
  <2>2. /\ OnlyThread(t)
        /\ ThreadKnows(t)'
        /\ at'[t] = "idle"
        /\ UNCHANGED state
        /\ UNCHANGED proof
        /\ said' \in [Plans -> Bridge!Results \cup {None}] => Bridge!TypeOK'
    BY <1>11, Leaves DEF Bridge!Record, BridgeInv, Bridge!TypeOK
  <2>3. said' = said \/ said' = [said EXCEPT ![about[t]] = result[t]]
    BY <1>11 DEF Bridge!Record
  <2>4. said' \in [Plans -> Bridge!Results \cup {None}]
    BY <2>1, <2>3 DEF BridgeInv, Bridge!TypeOK
  <2>5. Bridge!RecordsFollow'
    BY <2>1, <2>2, <2>3
       DEF BridgeInv, Bridge!TypeOK, Bridge!BridgeTruthful, Bridge!RecordsFollow
  <2>6. Bridge!StagedUnderAudit' /\ OneActive'
    BY <2>2
       DEF BridgeInv, Bridge!BridgeTruthful, Bridge!StagedUnderAudit, Bridge!OnePass,
           OneActive
  <2> QED BY <2>1, <2>2, <2>4, <2>5, <2>6, PlansStand, ThreadMoves
<1>12. ASSUME NEW p \in Plans, Bridge!Revoke(p) PROVE BridgeInv'
  <2>1. UNCHANGED <<proof, fence, at, about, result, pass, said, stop, close, early>>
    BY <1>12 DEF Bridge!Revoke, Bridge!threads
  <2>2. state[p] = "staged" /\ state' = [state EXCEPT ![p] = "over"]
    BY <1>12 DEF Bridge!Revoke
  <2>3. PlansMove /\ Bridge!TypeOK'
    BY <2>1, <2>2
       DEF BridgeInv, Bridge!TypeOK, PlansMove, Moves, Bridge!Ticks, Bridge!PlanStates,
           Bridge!Active
  <2>4. \A u \in Bridge!Threads : ThreadKnows(u)'
    BY <2>1, <2>3, SameThread
  <2>5. Bridge!StagedUnderAudit' /\ Bridge!OnePass' /\ Bridge!QuietAfterStop'
    BY <2>1, <2>2
       DEF BridgeInv, Bridge!TypeOK, Bridge!BridgeTruthful, Bridge!StagedUnderAudit,
           Bridge!OnePass,
                      Bridge!QuietAfterStop, Bridge!Active, Bridge!Monitoring
  <2> QED BY <2>1, <2>3, <2>4, <2>5, SameRecords DEF BridgeInv, Bridge!BridgeTruthful
<1>13. ASSUME Bridge!LoseFence \/ Bridge!Stop \/ Bridge!Joined PROVE BridgeInv'
  <2>1. /\ UNCHANGED <<proof, state, at, about, result, pass, said, early>>
        /\ close' \in {close, "joining", "confirmed", "unconfirmed"}
        /\ close' = "confirmed" => close = "confirmed" \/ at["monitor"] = "gone"
    BY <1>13 DEF Bridge!LoseFence, Bridge!Stop, Bridge!Joined, Bridge!threads
  <2>2. Bridge!TypeOK'
    BY <1>13, <2>1
       DEF BridgeInv, Bridge!TypeOK, Bridge!LoseFence, Bridge!Stop, Bridge!Joined
  <2>3. \A u \in Bridge!Threads : ThreadKnows(u)'
    BY <2>1, PlansStand, SameThread
  <2>4. Bridge!StagedUnderAudit' /\ Bridge!OnePass' /\ Bridge!RecordsFollow'
    BY <2>1, PlansStand, SameRecords
       DEF BridgeInv, Bridge!BridgeTruthful, Bridge!StagedUnderAudit, Bridge!OnePass,
           Bridge!Monitoring
  <2>5. close' = "confirmed" => at'["monitor"] = "gone"
    BY <2>1 DEF BridgeInv
  <2>6. Bridge!QuietAfterStop'
    BY <2>3, <2>5 DEF Bridge!QuietAfterStop, Bridge!Threads, ThreadKnows
  <2> QED BY <2>1, <2>2, <2>3, <2>4, <2>5, <2>6 DEF BridgeInv, Bridge!BridgeTruthful
<1>14. ASSUME Bridge!Restart PROVE BridgeInv'
  <2>1. /\ \A u \in Bridge!Threads : at'[u] = "idle"
        /\ said' = [p \in Plans |-> None] /\ close' = "open" /\ UNCHANGED <<proof, state>>
    BY <1>14 DEF Bridge!Restart
  <2>2. Bridge!TypeOK'
    BY <1>14 DEF Bridge!Restart, BridgeInv, Bridge!TypeOK, Bridge!Threads, Bridge!Steps
  <2>3. \A u \in Bridge!Threads : ThreadKnows(u)'
    BY <2>1 DEF ThreadKnows, Bridge!Monitoring
  <2>4. /\ Bridge!StagedUnderAudit'
        /\ Bridge!OnePass'
        /\ Bridge!RecordsFollow'
        /\ Bridge!QuietAfterStop'
    BY <2>1
       DEF BridgeInv, Bridge!BridgeTruthful, Bridge!StagedUnderAudit, Bridge!OnePass,
           Bridge!RecordsFollow,
                Bridge!QuietAfterStop, Bridge!Monitoring, Bridge!Threads
  <2> QED BY <2>1, <2>2, <2>3, <2>4 DEF BridgeInv, Bridge!BridgeTruthful, Bridge!Threads
<1> QED BY <1>1, <1>2, <1>3, <1>4, <1>5, <1>6, <1>7, <1>8, <1>9, <1>10, <1>11, <1>12,
           <1>13, <1>14
        DEF Bridge!Next

--------------------------------------------------------------------------------
\* The credential slot: whose it is, and where a pause is kept

Slots == [made : BOOLEAN, file : Processes \cup {None}, fresh : BOOLEAN, litter : BOOLEAN]
Owners == {"down", "up", "made", "held", "listed", "unlinked", "refused"}

Owning(p) == owner[p] \in {"made", "held", "listed", "unlinked"}
Resting(p) == \A a \in Users : request[p][a] = "idle"

\* The slot's directory and file are the owner's, and there is one owner.
LeaseOwned ==
  /\ \A p \in Processes :
       /\ Owning(p) => slot.made /\ mode = "host"
       /\ owner[p] \in {"held", "listed"} => slot.file = p
       /\ owner[p] \in {"made", "unlinked"} => slot.file = None
  /\ \A p, q \in Processes : Owning(p) /\ Owning(q) => p = q

\* What a process may be doing with the access it was given.
AccessHeld(p) ==
  /\ owner[p] = "listed" => Resting(p)
  /\ Resting(p) \/ decision[p] \in {"dedicated", "host"}
  /\ decision[p] = "dedicated" => mode = "dedicated" /\ owner[p] # "down"
  /\ decision[p] = "host" =>
       owner[p] \in {"held", "listed", "unlinked", "refused"} /\ mode = "host"
  /\ decision[p] = "host" /\ Slot!Busy(p) => owner[p] = "held"
  /\ owner[p] = "down" => decision[p] = "none"
  /\ (\E a \in Users : request[p][a] = "limited") => decision[p] = "host"
  /\ \A a, b \in Users : request[p][a] # "idle" /\ request[p][b] # "idle" => a = b

OneDedicated ==
  mode = "dedicated" =>
    \A p, q \in Processes : owner[p] # "down" /\ owner[q] # "down" => p = q

\* Where a pause is kept until the whole slot has it.
PauseHeard ==
  /\ cooling /\ mode = "dedicated" =>
       /\ \E p \in Processes : owner[p] # "down"
       /\ \A p \in Processes : owner[p] # "down" => p \in wait
  /\ cooling /\ mode = "host" /\ ~cooldown =>
       /\ slot.made
       /\ \A p \in Processes : Owning(p) =>
            /\ owner[p] = "held" /\ p \in wait
            /\ ~slot.fresh \/ \E a \in Users : request[p][a] = "limited"

SlotInv ==
  /\ Slot!TypeOK
  /\ LeaseOwned
  /\ \A p \in Processes : AccessHeld(p)
  /\ OneDedicated
  /\ PauseHeard
  /\ Slot!PauseKept

LEMMA SlotInit == ASSUME Slot!SlotAssumption, Slot!Init PROVE SlotInv
<1> USE DEF Slots, Owners
<1>1. /\ mode \in {"dedicated", "host"}
      /\ slot = [made |-> FALSE, file |-> None, fresh |-> FALSE, litter |-> FALSE]
      /\ cooldown = FALSE /\ cooling = FALSE /\ wait = {}
      /\ owner = [p \in Processes |-> "down"]
      /\ decision = [p \in Processes |-> "none"]
      /\ request = [p \in Processes |-> [a \in Users |-> "idle"]]
  BY DEF Slot!Init, Slot!NoSlot, Slot!AtRest
<1>2. budget \in [Processes -> [Users -> [cycle : 0 .. MaxCycle, used : 0 .. Budget]]]
  <2>1. 0 \in 0 .. MaxCycle /\ 0 \in 0 .. Budget
    BY DEF Slot!SlotAssumption
  <2> QED BY <2>1 DEF Slot!Init, Slot!NoBudget
<1>3. slot \in Slots
  BY <1>1
<1>4. Slot!TypeOK
  BY <1>1, <1>2, <1>3 DEF Slot!TypeOK
<1>5. LeaseOwned /\ OneDedicated /\ PauseHeard /\ Slot!PauseKept
  BY <1>1 DEF LeaseOwned, Owning, OneDedicated, PauseHeard, Slot!PauseKept
<1>6. \A p \in Processes : AccessHeld(p)
  BY <1>1 DEF AccessHeld, Resting, Slot!Busy
<1> QED BY <1>4, <1>5, <1>6 DEF SlotInv

\* The pieces of the invariant are the property.
LEMMA SlotSafe == ASSUME SlotInv PROVE Slot!SlotTruthful
<1>1. ASSUME NEW p \in Processes, NEW q \in Processes, Slot!Busy(p), Slot!Busy(q)
      PROVE  p = q
  <2>1. decision[p] \in {"dedicated", "host"} /\ decision[q] \in {"dedicated", "host"}
    BY <1>1 DEF SlotInv, AccessHeld, Resting, Slot!Busy
  <2> QED BY <1>1, <2>1 DEF SlotInv, AccessHeld, OneDedicated, LeaseOwned, Owning
<1> QED BY <1>1 DEF SlotInv, LeaseOwned, Owning, Slot!SlotTruthful, Slot!OneOwner

\* The steps on the lease leave the requests alone, and the other way round.
LEMMA LeaseTypes ==
  ASSUME SlotInv, Slot!Lease, NEW p \in Processes,
         NEW step \in {"up", "made", "held", "listed", "unlinked", "refused"},
         Slot!Becomes(p, step) \/ UNCHANGED owner,
         slot' \in Slots
  PROVE  Slot!TypeOK'
BY DEF Slots, Owners, SlotInv, Slot!TypeOK, Slot!Lease, Slot!Becomes

\* Moving on with the lease keeps everybody's access in order.
LEMMA LeaseMoves ==
  ASSUME SlotInv, Slot!Lease, NEW p \in Processes,
         NEW step \in {"up", "made", "held", "listed", "unlinked", "refused"},
         Slot!Becomes(p, step),
         step = "listed" => Resting(p),
         decision[p] = "host" => /\ step \in {"held", "listed", "unlinked", "refused"}
                                 /\ ~ Slot!Busy(p) \/ step = "held"
  PROVE  \A q \in Processes : AccessHeld(q)'
<1> SUFFICES ASSUME NEW q \in Processes PROVE AccessHeld(q)'
  OBVIOUS
<1>1. AccessHeld(q) /\ (q # p => owner'[q] = owner[q]) /\ owner'[p] = step
      /\ UNCHANGED <<mode, decision, request>>
  BY DEF SlotInv, Slot!TypeOK, Slot!Lease, Slot!Becomes
<1> QED BY <1>1 DEF AccessHeld, Resting, Slot!Busy

\* The steps on the lease: start, make, write, renew, release, expire, end.
LEMMA LeaseStep ==
  ASSUME Slot!SlotAssumption, SlotInv, NEW p \in Processes,
         \/ Slot!Start(p) \/ Slot!MakeDirectory(p) \/ Slot!WriteLease(p) \/ Slot!WriteFails(p)
         \/ Slot!Heartbeat(p) \/ Slot!List(p) \/ Slot!Unlink(p) \/ Slot!RemoveDirectory(p)
  PROVE  SlotInv'
<1> USE DEF Slots, Owners
<1>1. /\ Slot!TypeOK /\ LeaseOwned /\ OneDedicated /\ PauseHeard /\ Slot!PauseKept
      /\ \A q \in Processes : AccessHeld(q)
      /\ owner \in [Processes -> Owners]
      /\ slot \in Slots
      /\ mode \in {"dedicated", "host"} /\ cooling \in BOOLEAN /\ cooldown \in BOOLEAN
      /\ None \notin Processes
  BY DEF SlotInv, Slot!TypeOK, Slot!SlotAssumption
<1>2. Slot!Lease /\ UNCHANGED <<mode, cooldown, decision, wait, request, budget, cooling>>
  BY DEF Slot!Start, Slot!MakeDirectory, Slot!WriteLease, Slot!WriteFails, Slot!Heartbeat,
         Slot!List, Slot!Unlink, Slot!RemoveDirectory, Slot!Lease
<1>3. Slot!PauseKept'
  BY <1>1, <1>2 DEF Slot!PauseKept
<1>4. ASSUME UNCHANGED owner, slot' \in Slots, slot'.made = slot.made, slot'.file = slot.file,
             cooling /\ mode = "host" /\ ~cooldown /\ slot'.fresh =>
               slot.fresh \/ ~ \E q \in Processes : Owning(q)
      PROVE  SlotInv'
  <2>1. Slot!TypeOK'
    BY <1>1, <1>2, <1>4 DEF Slot!TypeOK
  <2>2. LeaseOwned' /\ OneDedicated' /\ \A q \in Processes : AccessHeld(q)'
    BY <1>1, <1>2, <1>4 DEF LeaseOwned, Owning, OneDedicated, AccessHeld, Resting, Slot!Busy
  <2>3. PauseHeard'
    BY <1>1, <1>2, <1>4 DEF PauseHeard, Owning
  <2> QED BY <2>1, <2>2, <2>3, <1>3 DEF SlotInv
<1>5. CASE Slot!Start(p)
  <2>1. /\ slot' = slot /\ owner[p] = "down" /\ owner' = [owner EXCEPT ![p] = "up"]
        /\ mode = "dedicated" => \A q \in Processes : owner[q] = "down"
    BY <1>5 DEF Slot!Start, Slot!Becomes
  <2>2. Slot!TypeOK'
    BY <1>1, <1>2, <2>1, LeaseTypes DEF Slot!Becomes
  <2>3. decision[p] = "none" /\ Resting(p)
    BY <1>1, <2>1 DEF AccessHeld
  <2>4. \A q \in Processes : AccessHeld(q)'
    BY <1>2, <2>1, <2>3, LeaseMoves DEF Slot!Becomes
  <2>5. \A q \in Processes : Owning(q)' => Owning(q) /\ owner'[q] = owner[q]
    BY <1>1, <2>1 DEF Owning
  <2>6. LeaseOwned' /\ OneDedicated'
    BY <1>1, <1>2, <2>1, <2>5 DEF LeaseOwned, OneDedicated, Owning
  <2>7. PauseHeard'
    BY <1>1, <1>2, <2>1, <2>5 DEF PauseHeard
  <2> QED BY <2>2, <2>4, <2>6, <2>7, <1>3 DEF SlotInv
<1>6. CASE Slot!MakeDirectory(p)
  <2>1. mode = "host" /\ owner[p] = "up" /\ decision[p] = "none"
    BY <1>6 DEF Slot!MakeDirectory
  <2>2. Resting(p)
    BY <1>1, <2>1 DEF AccessHeld
  <2>3. CASE ~slot.made
    <3>1. /\ slot' = [made |-> TRUE, file |-> None, fresh |-> FALSE, litter |-> FALSE]
          /\ owner' = [owner EXCEPT ![p] = "made"]
      BY <1>6, <2>3 DEF Slot!MakeDirectory, Slot!Free, Slot!NoSlot, Slot!Becomes
    <3>2. Slot!TypeOK' /\ \A q \in Processes : AccessHeld(q)'
      BY <1>2, <2>1, <2>2, <3>1, LeaseTypes, LeaseMoves DEF Slot!Becomes
    <3>3. \A q \in Processes : Owning(q)' => q = p
      BY <1>1, <2>3, <3>1 DEF LeaseOwned, Owning
    <3>4. LeaseOwned' /\ OneDedicated' /\ PauseHeard'
      <4>1. owner'[p] = "made" /\ UNCHANGED <<mode, cooling, cooldown>>
        BY <1>1, <1>2, <3>1
      <4>2. LeaseOwned'
        BY <2>1, <3>1, <3>3, <4>1 DEF LeaseOwned, Owning
      <4>3. OneDedicated' /\ PauseHeard'
        BY <1>1, <2>1, <2>3, <4>1 DEF OneDedicated, PauseHeard
      <4> QED BY <4>2, <4>3
    <3> QED BY <3>2, <3>4, <1>3 DEF SlotInv
  <2>4. CASE slot.made
    <3>1. slot' = slot /\ owner' = [owner EXCEPT ![p] = "refused"]
      BY <1>6, <2>4 DEF Slot!MakeDirectory, Slot!Free, Slot!Becomes
    <3>2. Slot!TypeOK' /\ \A q \in Processes : AccessHeld(q)'
      BY <1>1, <1>2, <2>1, <2>2, <3>1, LeaseTypes, LeaseMoves DEF Slot!Becomes
    <3>3. \A q \in Processes : Owning(q)' => Owning(q) /\ owner'[q] = owner[q]
      BY <1>1, <3>1 DEF Owning
    <3>4. LeaseOwned' /\ OneDedicated' /\ PauseHeard'
      BY <1>1, <1>2, <2>1, <3>1, <3>3 DEF LeaseOwned, OneDedicated, PauseHeard, Owning
    <3> QED BY <3>2, <3>4, <1>3 DEF SlotInv
  <2> QED BY <2>3, <2>4, <1>1
<1>7. ASSUME Owning(p), owner[p] # "held", slot' \in Slots,
             NEW step \in {"held", "unlinked", "refused"}, Slot!Becomes(p, step),
             step = "held" => slot'.made /\ slot'.file = p,
             step = "unlinked" => slot'.made /\ slot'.file = None,
             step = "refused" => owner[p] # "listed"
      PROVE  SlotInv'
  <2>1. mode = "host" /\ owner' = [owner EXCEPT ![p] = step]
    BY <1>1, <1>7 DEF LeaseOwned, Slot!Becomes
  <2>2. ~ Slot!Busy(p)
    BY <1>1, <1>7, <2>1 DEF AccessHeld, Owning, Resting, Slot!Busy
  <2>3. Slot!TypeOK'
    BY <1>2, <1>7, LeaseTypes
  <2>4. \A q \in Processes : AccessHeld(q)'
    BY <1>2, <1>7, <2>2, LeaseMoves
  <2>5. \A q \in Processes : Owning(q)' => q = p
    BY <1>1, <1>7, <2>1 DEF LeaseOwned, Owning
  <2>6. LeaseOwned' /\ OneDedicated'
    BY <1>1, <1>2, <1>7, <2>1, <2>5 DEF LeaseOwned, OneDedicated, Owning
  <2>7. PauseHeard'
    BY <1>1, <1>2, <1>7, <2>1 DEF PauseHeard
  <2> QED BY <2>3, <2>4, <2>6, <2>7, <1>3 DEF SlotInv
<1>8. CASE Slot!WriteLease(p)
  <2>1. /\ owner[p] = "made" /\ Slot!Becomes(p, "held")
        /\ slot' = [slot EXCEPT !.file = p, !.fresh = TRUE]
    BY <1>8 DEF Slot!WriteLease
  <2>2. Owning(p) /\ slot.made /\ slot' \in Slots /\ slot'.made /\ slot'.file = p
    BY <1>1, <2>1 DEF LeaseOwned, Owning
  <2> QED BY <1>7, <2>1, <2>2
<1>9. CASE Slot!WriteFails(p) \/ Slot!RemoveDirectory(p)
  <2>1. owner[p] \in {"made", "unlinked"} /\ Slot!Becomes(p, "refused")
    BY <1>9 DEF Slot!WriteFails, Slot!RemoveDirectory
  <2>2. /\ Slot!NoSlot \in Slots
        /\ [slot EXCEPT !.litter = TRUE] \in Slots
    BY <1>1 DEF Slot!NoSlot
  <2>3. slot' \in Slots
    BY <1>9, <2>2 DEF Slot!WriteFails, Slot!RemoveDirectory
  <2> QED BY <1>7, <2>1, <2>3 DEF Owning
<1>10. CASE Slot!Unlink(p)
  <2>1. /\ owner[p] = "listed" /\ Slot!Becomes(p, "unlinked")
        /\ slot' = [slot EXCEPT !.file = None]
    BY <1>10 DEF Slot!Unlink
  <2>2. Owning(p) /\ slot.made /\ slot' \in Slots /\ slot'.made /\ slot'.file = None
    BY <1>1, <2>1 DEF LeaseOwned, Owning
  <2> QED BY <1>7, <2>1, <2>2
<1>11. CASE Slot!Heartbeat(p)
  <2>1. /\ slot' \in Slots
        /\ slot'.made = slot.made
        /\ slot'.file = slot.file
        /\ slot.fresh
        /\ UNCHANGED owner
    BY <1>1, <1>11 DEF Slot!Heartbeat, Slot!Owned
  <2> QED BY <2>1, <1>4
<1>12. CASE Slot!List(p)
  <2>1. /\ slot' = slot
        /\ owner[p] = "held"
        /\ slot.file = p
        /\ slot.fresh
        /\ Slot!Becomes(p, "listed")
        /\ Resting(p)
    BY <1>12 DEF Slot!List, Slot!Owned, Slot!AtRest, Resting
  <2>2. slot' \in Slots /\ ~ Slot!Busy(p)
    BY <1>1, <2>1 DEF Resting, Slot!Busy
  <2>3. Slot!TypeOK'
    BY <1>2, <2>1, <2>2, LeaseTypes
  <2>4. \A q \in Processes : AccessHeld(q)'
    BY <1>2, <2>1, <2>2, LeaseMoves
  <2>5. owner' = [owner EXCEPT ![p] = "listed"] /\ Owning(p) /\ mode = "host"
    BY <1>1, <2>1 DEF Slot!Becomes, Owning, LeaseOwned
  <2>6. LeaseOwned' /\ OneDedicated'
    BY <1>1, <1>2, <2>1, <2>5 DEF LeaseOwned, OneDedicated, Owning
  <2>7. PauseHeard'
    BY <1>1, <1>2, <2>1, <2>5 DEF PauseHeard, Resting
  <2> QED BY <2>4, <2>6, <2>7, <2>3, <1>3 DEF SlotInv
<1> QED BY <1>5, <1>6, <1>11, <1>12, <1>8, <1>9, <1>10

\* A step of one request, of user a in process p.
LEMMA RequestMoves ==
  ASSUME SlotInv, UNCHANGED <<mode, slot, owner, decision>>,
         cooldown' = cooldown \/ cooldown' = TRUE,
         NEW p \in Processes, NEW a \in Users,
         NEW step \in {"idle", "inside", "clear", "sent", "limited"}, Slot!Goes(p, a, step),
         decision[p] \in {"dedicated", "host"},
         \A b \in Users : b # a => request[p][b] = "idle",
         owner[p] # "listed" \/ step = "idle",
         step \in {"clear", "sent", "limited"} /\ decision[p] = "host" => owner[p] = "held",
         step \in {"clear", "sent"} => ~ cooling',
         step = "limited" => p \in wait' /\ decision[p] = "host",
         request[p][a] = "limited" => cooldown' \/ ~ slot.fresh,
         \/ UNCHANGED <<wait, cooling>>
         \/ /\ step \in {"limited", "idle"} /\ request[p][a] = "sent" /\ cooling' = TRUE
            /\ decision[p] = "host" => step = "limited"
            /\ wait' = wait \cup {p},
         budget' \in [Processes -> [Users -> [cycle : 0 .. MaxCycle, used : 0 .. Budget]]]
  PROVE  SlotInv'
<1>1. /\ Slot!TypeOK /\ LeaseOwned /\ OneDedicated /\ PauseHeard /\ Slot!PauseKept
      /\ \A q \in Processes : AccessHeld(q)
      /\ request \in [Processes -> [Users -> {"idle", "inside", "clear", "sent", "limited"}]]
      /\ mode \in {"dedicated", "host"} /\ cooling \in BOOLEAN /\ cooldown \in BOOLEAN
  BY DEF SlotInv, Slot!TypeOK
<1>2. request' = [request EXCEPT ![p] = [request[p] EXCEPT ![a] = step]]
  BY <1>1 DEF Slot!Goes
<1>3. /\ \A q \in Processes : q # p => request'[q] = request[q]
      /\ \A b \in Users : request'[p][b] = IF b = a THEN step ELSE "idle"
  BY <1>1, <1>2
<1>4. Slot!TypeOK'
  BY <1>1, <1>2 DEF Slot!TypeOK
<1>5. LeaseOwned' /\ OneDedicated'
  BY <1>1 DEF LeaseOwned, OneDedicated, Owning
<1>6. ASSUME NEW q \in Processes PROVE AccessHeld(q)'
  <2>1. AccessHeld(q)
    BY <1>1
  <2>2. CASE q # p
    <3>1. request'[q] = request[q]
      BY <1>3, <2>2
    <3> QED BY <2>1, <3>1 DEF AccessHeld, Resting, Slot!Busy
  <2>3. CASE q = p
    BY <1>3, <2>1, <2>3 DEF AccessHeld, Resting, Slot!Busy
  <2> QED BY <2>2, <2>3
<1>7. ASSUME NEW q \in Processes, q # p, request[p][a] = "sent"
      PROVE  /\ \A b \in Users : request[q][b] \notin {"clear", "sent"}
             /\ mode = "dedicated" => owner[q] = "down"
             /\ mode = "host" => ~ Owning(q) /\ owner[p] = "held" /\ slot.made
  <2>1. AccessHeld(p) /\ AccessHeld(q) /\ Slot!Busy(p)
    BY <1>1, <1>7 DEF Slot!Busy
  <2>2. CASE decision[p] = "host"
    <3>1. owner[p] = "held" /\ mode = "host" /\ ~ Owning(q) /\ slot.made
      BY <1>1, <1>7, <2>1, <2>2 DEF AccessHeld, LeaseOwned, Owning
    <3> QED BY <2>1, <3>1 DEF AccessHeld, Owning, Resting, Slot!Busy
  <2>3. CASE decision[p] = "dedicated"
    <3>1. mode = "dedicated" /\ owner[q] = "down" /\ decision[q] = "none"
      BY <1>1, <1>7, <2>1, <2>3 DEF AccessHeld, OneDedicated
    <3> QED BY <2>1, <3>1 DEF AccessHeld, Resting
  <2> QED BY <2>2, <2>3
<1>8. Slot!PauseKept'
  <2>1. CASE UNCHANGED <<wait, cooling>>
    BY <1>1, <1>3, <2>1 DEF Slot!PauseKept
  <2>2. CASE request[p][a] = "sent" /\ step \in {"limited", "idle"}
    BY <1>3, <1>7, <2>2 DEF Slot!PauseKept
  <2> QED BY <2>1, <2>2
<1>9. PauseHeard'
  <2>1. CASE UNCHANGED <<wait, cooling>>
    <3>1. ASSUME NEW q \in Processes, ~ cooldown', slot.fresh,
                 NEW b \in Users, request[q][b] = "limited"
          PROVE  request'[q][b] = "limited"
      BY <1>3, <3>1
    <3>2. ~ cooldown' => ~ cooldown
      BY <1>1
    <3> QED BY <1>1, <2>1, <3>1, <3>2 DEF PauseHeard, Owning
  <2>2. CASE /\ step \in {"limited", "idle"} /\ request[p][a] = "sent" /\ cooling' = TRUE
             /\ decision[p] = "host" => step = "limited"
             /\ wait' = wait \cup {p}
    <3>1. AccessHeld(p) /\ Slot!Busy(p)
      BY <1>1, <2>2 DEF Slot!Busy
    <3>2. CASE mode = "dedicated"
      BY <1>7, <2>2, <3>1, <3>2 DEF PauseHeard, AccessHeld
    <3>3. CASE mode = "host"
      <4>1. decision[p] = "host" /\ owner[p] = "held" /\ slot.made /\ step = "limited"
        BY <1>1, <2>2, <3>1, <3>3 DEF AccessHeld, LeaseOwned, Owning
      <4> QED BY <1>3, <1>7, <2>2, <3>3, <4>1 DEF PauseHeard, Owning
    <3> QED BY <1>1, <3>2, <3>3
  <2> QED BY <2>1, <2>2
<1> QED BY <1>4, <1>5, <1>6, <1>8, <1>9 DEF SlotInv

\* The steps of a request: connect, enter, admit, send, answer, pause.
LEMMA RequestStep ==
  ASSUME Slot!SlotAssumption, SlotInv, NEW p \in Processes, NEW a \in Users,
         \/ Slot!Enter(p, a) \/ Slot!Admit(p, a) \/ Slot!Send(p, a)
         \/ Slot!Answer(p, a) \/ Slot!Limited(p, a) \/ Slot!RecordCooldown(p, a)
  PROVE  SlotInv'
<1>1. /\ Slot!TypeOK /\ LeaseOwned /\ PauseHeard /\ Slot!PauseKept /\ AccessHeld(p)
      /\ budget \in [Processes -> [Users -> [cycle : 0 .. MaxCycle, used : 0 .. Budget]]]
      /\ mode \in {"dedicated", "host"} /\ cooling \in BOOLEAN /\ cooldown \in BOOLEAN
  BY DEF SlotInv, Slot!TypeOK
<1>2. UNCHANGED <<mode, slot, owner>>
  BY DEF Slot!Requests, Slot!Enter, Slot!Admit, Slot!Send, Slot!Answer, Slot!Limited,
         Slot!RecordCooldown
<1>3. CASE Slot!Enter(p, a)
  <2>1. /\ Slot!Goes(p, a, "inside")
        /\ owner[p] # "listed"
        /\ decision[p] \in {"dedicated", "host"}
        /\ \A b \in Users : request[p][b] = "idle"
        /\ UNCHANGED <<cooldown, decision, wait, budget, cooling>>
    BY <1>3 DEF Slot!Enter
  <2> QED BY <1>1, <1>2, <2>1, RequestMoves
<1> DEFINE Inside == /\ decision[p] \in {"dedicated", "host"} /\ owner[p] # "listed"
                     /\ \A b \in Users : b # a => request[p][b] = "idle"
<1>4. request[p][a] # "idle" => Inside
  BY <1>1 DEF AccessHeld, Resting
<1>5. request[p][a] \in {"clear", "sent", "limited"} => Slot!Busy(p)
  BY DEF Slot!Busy
<1>6. CASE Slot!Admit(p, a)
  <2>1. /\ request[p][a] = "inside"
        /\ UNCHANGED <<cooldown, decision, wait, budget, cooling>>
        /\ Slot!Goes(p, a, IF Slot!Admitted(p) THEN "clear" ELSE "idle")
    BY <1>6 DEF Slot!Admit
  <2>2. CASE Slot!Admitted(p)
    <3>1. /\ Slot!Goes(p, a, "clear") /\ p \notin wait
          /\ decision[p] = "host" => ~ cooldown /\ owner[p] \in {"held", "listed"}
      BY <2>1, <2>2 DEF Slot!Admitted, Slot!Paused, Slot!Owned
    <3>2. decision[p] = "host" => mode = "host" /\ owner[p] = "held"
      BY <1>1, <1>4, <2>1, <3>1 DEF AccessHeld
    <3>3. decision[p] = "dedicated" => mode = "dedicated" /\ owner[p] # "down"
      BY <1>1 DEF AccessHeld
    <3>4. ~ cooling
      BY <1>1, <1>4, <2>1, <3>1, <3>2, <3>3 DEF PauseHeard, Owning
    <3>5. ~ cooling'
      BY <2>1, <3>4
    <3> QED BY <1>1, <1>2, <1>4, <2>1, <3>1, <3>2, <3>5, RequestMoves
  <2>3. CASE ~ Slot!Admitted(p)
    <3>1. Slot!Goes(p, a, "idle")
      BY <2>1, <2>3
    <3> QED BY <1>1, <1>2, <1>4, <2>1, <3>1, RequestMoves
  <2> QED BY <2>2, <2>3
<1>7. CASE Slot!Send(p, a)
  <2>1. request[p][a] = "clear" /\ UNCHANGED <<cooldown, decision, wait, cooling>>
    BY <1>7 DEF Slot!Send
  <2>2. ~ cooling'
    BY <1>1, <2>1 DEF Slot!PauseKept
  <2>3. decision[p] = "host" => owner[p] = "held"
    BY <1>1, <1>5, <2>1 DEF AccessHeld
  <2>4. CASE /\ budget[p][a].used < Budget /\ Slot!Goes(p, a, "sent")
             /\ budget' = [budget EXCEPT ![p][a].used = @ + 1]
    <3>1. budget[p][a] \in [cycle : 0 .. MaxCycle, used : 0 .. Budget]
      BY <1>1
    <3>2. [budget[p][a] EXCEPT !.used = @ + 1] \in [cycle : 0 .. MaxCycle, used : 0 .. Budget]
      BY <2>4, <3>1 DEF Slot!SlotAssumption
    <3>3. budget' \in [Processes -> [Users -> [cycle : 0 .. MaxCycle, used : 0 .. Budget]]]
      BY <1>1, <2>4, <3>2
    <3> QED BY <1>1, <1>2, <1>4, <2>1, <2>2, <2>3, <2>4, <3>3, RequestMoves
  <2>5. CASE Slot!Goes(p, a, "idle") /\ UNCHANGED budget
    BY <1>1, <1>2, <1>4, <2>1, <2>5, RequestMoves
  <2> QED BY <1>7, <2>4, <2>5 DEF Slot!Send
<1>8. CASE Slot!Answer(p, a)
  <2>1. request[p][a] = "sent" /\ Slot!Goes(p, a, "idle")
        /\ UNCHANGED <<cooldown, decision, wait, budget, cooling>>
    BY <1>8 DEF Slot!Answer
  <2> QED BY <1>1, <1>2, <1>4, <2>1, RequestMoves
<1>9. CASE Slot!Limited(p, a)
  <2>1. /\ request[p][a] = "sent" /\ wait' = wait \cup {p} /\ cooling' = TRUE
        /\ Slot!Goes(p, a, IF decision[p] = "host" THEN "limited" ELSE "idle")
        /\ UNCHANGED <<cooldown, decision, budget>>
    BY <1>9 DEF Slot!Limited
  <2>2. decision[p] = "host" => owner[p] = "held"
    BY <1>1, <1>5, <2>1 DEF AccessHeld
  <2>3. CASE decision[p] = "host"
    <3>1. Slot!Goes(p, a, "limited")
      BY <2>1, <2>3
    <3> QED BY <1>1, <1>2, <1>4, <2>1, <2>2, <2>3, <3>1, RequestMoves
  <2>4. CASE decision[p] # "host"
    <3>1. Slot!Goes(p, a, "idle")
      BY <2>1, <2>4
    <3> QED BY <1>1, <1>2, <1>4, <2>1, <2>4, <3>1, RequestMoves
  <2> QED BY <2>3, <2>4
<1>10. CASE Slot!RecordCooldown(p, a)
  <2>1. /\ request[p][a] = "limited" /\ cooldown' = (cooldown \/ Slot!Owned(p))
        /\ Slot!Goes(p, a, "idle")
        /\ UNCHANGED <<decision, wait, budget, cooling>>
    BY <1>10 DEF Slot!RecordCooldown
  <2>2. cooldown' \/ ~ slot.fresh
    BY <1>1, <1>5, <2>1 DEF Slot!Owned, AccessHeld, LeaseOwned, SlotInv
  <2> QED BY <1>1, <1>2, <1>4, <2>1, <2>2, RequestMoves
<1> QED BY <1>3, <1>6, <1>7, <1>8, <1>9, <1>10

LEMMA SlotStep ==
  ASSUME Slot!SlotAssumption, SlotInv, Slot!Next
  PROVE  SlotInv'
<1> USE DEF Slots, Owners
<1>1. /\ Slot!TypeOK /\ LeaseOwned /\ OneDedicated /\ PauseHeard /\ Slot!PauseKept
      /\ \A q \in Processes : AccessHeld(q)
      /\ owner \in [Processes -> Owners]
      /\ slot \in Slots
      /\ decision \in [Processes -> {"none", "disabled", "dedicated", "host"}]
      /\ request \in [Processes -> [Users -> {"idle", "inside", "clear", "sent", "limited"}]]
      /\ budget \in [Processes -> [Users -> [cycle : 0 .. MaxCycle, used : 0 .. Budget]]]
      /\ mode \in {"dedicated", "host"} /\ cooling \in BOOLEAN /\ cooldown \in BOOLEAN
      /\ wait \subseteq Processes
  BY DEF SlotInv, Slot!TypeOK
<1>2. ASSUME NEW p \in Processes, Slot!Connect(p) PROVE SlotInv'
  <2>1. /\ owner[p] \in {"up", "held", "refused"} /\ decision[p] = "none"
        /\ decision' = [decision EXCEPT ![p] = Slot!Decided(p)]
        /\ UNCHANGED <<mode, slot, owner, cooldown, wait, request, budget, cooling>>
    BY <1>2 DEF Slot!Connect, Slot!Requests
  <2>2. Slot!Decided(p) \in {"disabled", "dedicated", "host"}
        /\ (Slot!Decided(p) = "dedicated" => mode = "dedicated")
        /\ (Slot!Decided(p) = "host" => mode = "host" /\ owner[p] = "held")
    BY <2>1 DEF Slot!Decided, Slot!Owned
  <2>3. Slot!TypeOK'
    BY <1>1, <2>1, <2>2 DEF Slot!TypeOK
  <2>4. Resting(p)
    BY <1>1, <2>1 DEF AccessHeld
  <2>5. ASSUME NEW q \in Processes PROVE AccessHeld(q)'
    <3>1. CASE q = p
      BY <1>1, <2>1, <2>2, <2>4, <3>1 DEF AccessHeld, Resting, Slot!Busy
    <3>2. CASE q # p
      BY <1>1, <2>1, <3>2 DEF AccessHeld, Resting, Slot!Busy
    <3> QED BY <3>1, <3>2
  <2>6. LeaseOwned' /\ OneDedicated' /\ PauseHeard' /\ Slot!PauseKept'
    BY <1>1, <2>1 DEF LeaseOwned, OneDedicated, PauseHeard, Slot!PauseKept, Owning
  <2> QED BY <2>3, <2>5, <2>6 DEF SlotInv
<1>3. ASSUME NEW p \in Processes, NEW a \in Users, Slot!StartCycle(p, a) PROVE SlotInv'
  <2>1. UNCHANGED <<mode, slot, owner, decision, cooldown, wait, request, cooling>>
    BY <1>3 DEF Slot!StartCycle, Slot!Requests
  <2>2. PICK cycle \in 1 .. MaxCycle : budget' = [budget EXCEPT ![p][a] = Slot!Reset(@, cycle)]
    BY <1>3 DEF Slot!StartCycle
  <2>3. Slot!Reset(budget[p][a], cycle) \in [cycle : 0 .. MaxCycle, used : 0 .. Budget]
    BY <1>1, <2>2 DEF Slot!Reset, Slot!SlotAssumption
  <2>4. budget' \in [Processes -> [Users -> [cycle : 0 .. MaxCycle, used : 0 .. Budget]]]
    BY <1>1, <2>2, <2>3
  <2>5. Slot!TypeOK'
    BY <1>1, <2>1, <2>4 DEF Slot!TypeOK
  <2>6. /\ LeaseOwned' /\ OneDedicated' /\ PauseHeard' /\ Slot!PauseKept'
        /\ \A q \in Processes : AccessHeld(q)'
    BY <1>1, <2>1
       DEF LeaseOwned, OneDedicated, PauseHeard, Slot!PauseKept, Owning, AccessHeld,
           Resting, Slot!Busy
  <2> QED BY <2>5, <2>6 DEF SlotInv
<1>4. ASSUME NEW p \in Processes, Slot!End(p) PROVE SlotInv'
  <2>1. /\ owner' = [owner EXCEPT ![p] = "down"]
        /\ decision' = [decision EXCEPT ![p] = "none"]
        /\ wait' = wait \ {p} /\ request' = [request EXCEPT ![p] = [a \in Users |-> "idle"]]
        /\ budget' = [budget EXCEPT ![p] = Slot!NoBudget]
        /\ cooling' = (cooling /\ mode = "host")
        /\ UNCHANGED <<mode, slot, cooldown>>
    BY <1>4 DEF Slot!End, Slot!Becomes, Slot!AtRest
  <2>2. Slot!NoBudget \in [Users -> [cycle : 0 .. MaxCycle, used : 0 .. Budget]]
    <3>1. 0 \in 0 .. MaxCycle /\ 0 \in 0 .. Budget
      BY DEF Slot!SlotAssumption
    <3> QED BY <3>1 DEF Slot!NoBudget
  <2>3. Slot!TypeOK'
    BY <1>1, <2>1, <2>2 DEF Slot!TypeOK
  <2>4. /\ owner'[p] = "down" /\ decision'[p] = "none"
        /\ \A a \in Users : request'[p][a] = "idle"
        /\ \A q \in Processes \ {p} :
             /\ owner'[q] = owner[q]
             /\ decision'[q] = decision[q]
             /\ request'[q] = request[q]
             /\ q \in wait => q \in wait'
    BY <1>1, <2>1
  <2>5. ASSUME NEW q \in Processes PROVE AccessHeld(q)'
    <3>1. CASE q = p
      BY <2>4, <3>1 DEF AccessHeld, Resting, Slot!Busy
    <3>2. CASE q # p
      BY <1>1, <2>1, <2>4, <3>2 DEF AccessHeld, Resting, Slot!Busy
    <3> QED BY <3>1, <3>2
  <2>6. LeaseOwned' /\ OneDedicated'
    BY <1>1, <2>1, <2>4 DEF LeaseOwned, OneDedicated, Owning
  <2>7. PauseHeard'
    <3>1. ASSUME cooling', mode' = "host", ~ cooldown' PROVE PauseHeard'
      <4>1. cooling /\ mode = "host" /\ ~ cooldown
        BY <2>1, <3>1
      <4> QED BY <1>1, <2>1, <2>4, <3>1, <4>1 DEF PauseHeard, Owning
    <3> QED BY <2>1, <3>1 DEF PauseHeard
  <2>8. Slot!PauseKept'
    BY <1>1, <2>1, <2>4 DEF Slot!PauseKept
  <2> QED BY <2>3, <2>5, <2>6, <2>7, <2>8 DEF SlotInv
<1>5. CASE Slot!Expire
  <2>1. /\ slot' = [slot EXCEPT !.fresh = FALSE]
        /\ UNCHANGED <<mode, owner, decision, cooldown, wait, request, budget, cooling>>
    BY <1>5 DEF Slot!Expire, Slot!Lease
  <2>2. /\ slot' \in Slots
        /\ slot'.made = slot.made /\ slot'.file = slot.file /\ ~ slot'.fresh
    BY <1>1, <2>1
  <2>3. Slot!TypeOK'
    BY <1>1, <2>1, <2>2 DEF Slot!TypeOK
  <2>4. /\ LeaseOwned' /\ OneDedicated' /\ PauseHeard' /\ Slot!PauseKept'
        /\ \A q \in Processes : AccessHeld(q)'
    BY <1>1, <2>1, <2>2
       DEF LeaseOwned, OneDedicated, PauseHeard, Slot!PauseKept, Owning, AccessHeld,
           Resting, Slot!Busy
  <2> QED BY <2>3, <2>4 DEF SlotInv
<1>6. CASE Slot!Elapse
  <2>1. /\ cooling' = FALSE /\ cooldown' = FALSE /\ wait' = {}
        /\ UNCHANGED <<mode, slot, owner, decision, request, budget>>
    BY <1>6 DEF Slot!Elapse, Slot!Requests
  <2>2. Slot!TypeOK'
    BY <1>1, <2>1 DEF Slot!TypeOK
  <2>3. /\ LeaseOwned' /\ OneDedicated' /\ PauseHeard' /\ Slot!PauseKept'
        /\ \A q \in Processes : AccessHeld(q)'
    BY <1>1, <2>1
       DEF LeaseOwned, OneDedicated, PauseHeard, Slot!PauseKept, Owning, AccessHeld,
           Resting, Slot!Busy
  <2> QED BY <2>2, <2>3 DEF SlotInv
<1> QED BY <1>2, <1>3, <1>4, <1>5, <1>6, LeaseStep, RequestStep DEF Slot!Next

--------------------------------------------------------------------------------
\* The composition: the system that runs makes its own steps, the others none

\* What does not move keeps its invariant.
LEMMA AdapterStutter ==
  ASSUME Adapter!AdapterAssumption, AdapterInv, UNCHANGED <<broker, adapterVars>>
  PROVE  AdapterInv'
<1>1. order' = order /\ UNCHANGED <<broker, row, call, asked>>
  BY DEF adapterVars
<1>2. order \in [Adapter!Orders -> Placed] /\ \A c \in Clients : order[c].filled \in Nat
  BY AdapterFacts DEF Placed
<1> QED BY <1>1, <1>2, OrdersMove

LEMMA ReviewStutter ==
  ASSUME ReviewInv, UNCHANGED <<broker, reviewVars>>
  PROVE  ReviewInv'
BY DEF reviewVars, ReviewInv, Review!TypeOK, EvidenceTrue, Provable

LEMMA BridgeStutter ==
  ASSUME BridgeInv, UNCHANGED bridgeVars
  PROVE  BridgeInv'
<1>1. UNCHANGED <<proof, fence, state, at, about, result, pass, said, stop, close, early>>
  BY DEF bridgeVars
<1>2. \A u \in Bridge!Threads : ThreadKnows(u)'
  BY <1>1, PlansStand, SameThread
<1>3. Bridge!RecordsFollow'
  BY <1>1, PlansStand, SameRecords
<1> QED BY <1>1, <1>2, <1>3
        DEF BridgeInv, Bridge!TypeOK, Bridge!BridgeTruthful, Bridge!StagedUnderAudit,
            Bridge!OnePass, Bridge!QuietAfterStop

LEMMA SlotStutter ==
  ASSUME SlotInv, UNCHANGED slotVars
  PROVE  SlotInv'
BY DEF slotVars, SlotInv, Slot!TypeOK, LeaseOwned, OneDedicated, PauseHeard, Slot!PauseKept,
       Owning, AccessHeld, Resting, Slot!Busy

PartsInv ==
  /\ system = "adapter" => AdapterInv
  /\ system = "review" => ReviewInv
  /\ system = "bridge" => BridgeInv
  /\ system = "slot" => SlotInv

LEMMA PartsInit == MCInit => PartsInv
BY BrokerSideAssumption, AdapterInit, ReviewInit, BridgeInit, SlotInit
   DEF MCInit, PartsInv, BrokerSideAssumption

\* The system that runs takes a step of its own; the others are not there.
LEMMA PartsStep ==
  ASSUME PartsInv, [MCNext]_systems
  PROVE  PartsInv'
<1>1. CASE MCNext
  <2>1. system' = system /\ broker' = broker
    BY <1>1 DEF MCNext
  <2>2. /\ system = "adapter" => Adapter!Next
        /\ system = "review" => Review!Next
        /\ system = "bridge" => Bridge!Next
        /\ system = "slot" => Slot!Next
    BY <1>1 DEF MCNext
  <2>3. system = "adapter" => AdapterInv'
    BY <2>1, <2>2, AdapterStep, BrokerSideAssumption DEF PartsInv, BrokerSideAssumption
  <2>4. system = "review" => ReviewInv'
    BY <2>1, <2>2, ReviewStep, BrokerSideAssumption DEF PartsInv, BrokerSideAssumption
  <2>5. system = "bridge" => BridgeInv'
    BY <2>2, BridgeStep, BrokerSideAssumption DEF PartsInv, BrokerSideAssumption
  <2>6. system = "slot" => SlotInv'
    BY <2>2, SlotStep, BrokerSideAssumption DEF PartsInv, BrokerSideAssumption
  <2> QED BY <2>1, <2>3, <2>4, <2>5, <2>6 DEF PartsInv
<1>2. CASE UNCHANGED systems
  <2>1. UNCHANGED <<system, broker, adapterVars, reviewVars, bridgeVars, slotVars>>
    BY <1>2 DEF systems
  <2>2. system = "adapter" => AdapterInv'
    BY <2>1, AdapterStutter, BrokerSideAssumption DEF PartsInv, BrokerSideAssumption
  <2>3. system = "review" => ReviewInv'
    BY <2>1, ReviewStutter DEF PartsInv
  <2>4. system = "bridge" => BridgeInv'
    BY <2>1, BridgeStutter DEF PartsInv
  <2>5. system = "slot" => SlotInv'
    BY <2>1, SlotStutter DEF PartsInv
  <2> QED BY <2>1, <2>2, <2>3, <2>4, <2>5 DEF PartsInv
<1> QED BY <1>1, <1>2

LEMMA PartsInvariant == MCSpec => []PartsInv
BY PartsInit, PartsStep, PTL DEF MCSpec

\* Whatever the six brokers leave unsaid, list late or fill meanwhile, what the
\* ledger says of an intent is true of that intent's own order, and no other order
\* is cancelled (adapters/*.py, engine.py:269); an account is called eligible on the
\* last probe alone and armed only where the adapter can prove account and
\* permission (verification.py:58, engine.py:47).
THEOREM AdaptersStayTruthful == MCSpec => []AdaptersTruthful
<1>1. PartsInv => AdaptersTruthful
  <2>1. PartsInv => AnswersTruthful
    BY DEF PartsInv, AnswersTruthful, AdapterInv
  <2>2. PartsInv => ReviewTruthful
    BY ReviewSafe DEF PartsInv, ReviewTruthful
  <2> QED BY <2>1, <2>2 DEF AdaptersTruthful
<1> QED BY <1>1, PartsInvariant, PTL

\* A plan is staged only under an audit of its own, one pass at a time ticks it,
\* nothing is sent once the runtime stops and no record runs ahead of the broker
\* (broker_bridge.py:65); the market-data key changes hands only when its owner
\* gives it up, its pauses with it (massive_lease.py:38, massive.py:174).
THEOREM ResearchSideStaysTruthful == MCSpec => []ResearchSideTruthful
<1>1. PartsInv => ResearchSideTruthful
  <2>1. PartsInv => BridgeTruthful
    BY DEF PartsInv, BridgeTruthful, BridgeInv
  <2>2. PartsInv => SlotTruthful
    BY SlotSafe DEF PartsInv, SlotTruthful
  <2> QED BY <2>1, <2>2 DEF ResearchSideTruthful
<1> QED BY <1>1, PartsInvariant, PTL
================================================================================
