---------------------------- MODULE OperatorConsole ----------------------------
(***************************************************************************)
(* The operator console (alta-src/operator-console.mjs): HTTP handlers of  *)
(* one process that interleave at every await, keep each other out with    *)
(* three flags and the lifecycle operation, and configure a research       *)
(* runtime that others (the CLI, the platform's service manager) start as  *)
(* well.  The runtime's host holds the host lock for its lifetime; each    *)
(* start of it has a supervisor, which starts one child after the other    *)
(* with the environment of its host, also when that host was killed        *)
(* (ServiceSupervisor has their timers and signals).                       *)
(*                                                                         *)
(* A handler's step names what it waits for.  What the handlers change is  *)
(* kept only as far as the runtime, or the other execution lane, may       *)
(* disagree with it.                                                       *)
(***************************************************************************)
EXTENDS Naturals

CONSTANTS
  Requests,   \* protected requests under way at once
  MaxHosts,   \* bound: starts of the runtime's host
  Settings,   \* the stored settings kept track of
  Killed      \* whether the console may be killed

ConsoleAssumption ==
  /\ MaxHosts \in Nat \ {0} /\ Killed \in BOOLEAN
  /\ "models" \in Settings /\ Settings \subseteq {"models", "route", "secret"}

VARIABLES
  flags,      \* the flags that are set
  operation,  \* the lifecycle operation of operator-operation.json
  hostLock,   \* opportunity-host.lock: free, or whose it is
  host,       \* the runtime's host process
  hosts,      \* its starts so far
  supervisors, children,
              \* the starts whose supervisor lives, and whose supervised child does
  named,      \* the start whose child the supervisors' file names
  loaded,     \* of each start: the settings in which it agrees with what is stored
  orphaned,   \* history: the starts whose supervisor outlived its host
  paper,      \* whether the Paper lane is authorized
  route,      \* whether a broker route is selected
  selecting,  \* whether a broker child is about to select one
  request     \* of each request: its handler and what it waits for

processes == <<host, hosts, supervisors, children, named, orphaned>>
runtime == <<hostLock, processes, loaded>>
vars == <<flags, operation, runtime, paper, route, selecting, request>>
lanes == <<paper, route, selecting>>

Hosts == 1..MaxHosts
Nobody == 0

Flags == {"capital", "models", "verification"}
Actions == {"start", "stop", "restart"}
Kinds == {"models", "route", "mode", "lane", "verify", "enable", "revoke", "secret"}
NoRequest == [kind |-> "none", step |-> "idle"]

Init ==
  /\ flags = {}
  /\ operation = "none"
  /\ hostLock = "free"
  /\ host = "down"
  /\ hosts = 0 /\ supervisors = {} /\ children = {} /\ named = Nobody /\ orphaned = {}
  /\ loaded = [h \in Hosts |-> Settings]
  /\ paper = FALSE
  /\ route = FALSE
  /\ selecting = FALSE
  /\ request = [r \in Requests |-> NoRequest]

Busy == operation \in Actions \cup {"left"}
At(r, kind, step) == request[r] = [kind |-> kind, step |-> step]
Go(r, step) == request' = [request EXCEPT ![r].step = step]

\* Mutant: a supervised child that outlived its host does not count
HostOnly == host = "up"

\* What service.status() sees: a host that wrote its state, or the child that the
\* file names, when it lives.
SeenRunning == host = "up" \/ named \in children
\* The starts of which a process is left.
Left == supervisors \cup children \cup (IF host = "down" THEN {} ELSE {hosts})

\* A stored setting that changes is no longer what a runtime has.
Stored(setting) == loaded' = [h \in Hosts |-> loaded[h] \ {setting}]

\* A lease is released by its holder, or found stale when the holder is dead.
Released(holder) == hostLock' = IF hostLock = holder THEN "free" ELSE hostLock

--------------------------------------------------------------------------------
\* The 409 of a handler that finds another one at work.
Admitted(kind) ==
  IF kind = "verify"
  THEN flags \cap {"verification", "models"} = {}
  ELSE flags = {} /\ ~Busy

\* The flag a handler sets before its first await; the Paper authorization and a
\* credential set none.
Raised(kind) ==
  CASE kind \in {"route", "mode", "lane"} -> {"capital"}
    [] kind = "models"                    -> {"models"}
    [] kind = "verify"                    -> {"verification"}
    [] OTHER                              -> {}

\* The flags its finally leaves; the Paper authorization's follows the body.
Finally(r) ==
  flags \ (IF request[r].kind \in {"enable", "revoke"} /\ request[r].step # "body"
           THEN {"capital"} ELSE Raised(request[r].kind))

\* Its first await: the body, the runtime's status, or the work itself.
FirstStep(kind) ==
  CASE kind = "secret"           -> "status"
    [] kind \in {"verify", "lane"} -> "work"
    [] OTHER                     -> "body"

Enter(r, kind) ==
  /\ request[r] = NoRequest
  /\ Admitted(kind)
  /\ flags' = flags \cup Raised(kind)
  /\ request' = [request EXCEPT ![r] = [kind |-> kind, step |-> FirstStep(kind)]]
  /\ UNCHANGED <<operation, runtime, lanes>>

Answered(r) ==
  /\ flags' = Finally(r)
  /\ request' = [request EXCEPT ![r] = NoRequest]

\* Whether a handler has taken the host's lease.
Leased(r) == request[r].kind \in {"models", "route", "mode"} /\ request[r].step # "body"

\* verifyCredentialHealth, or a broker account's verify, authorize, revoke,
\* reconcile and the Paper account's refresh: what it does is not the console's.
Work(r) ==
  /\ \E kind \in {"verify", "lane"} : At(r, kind, "work")
  /\ Answered(r)
  /\ UNCHANGED <<operation, runtime, lanes>>

\* A request that is refused, fails or is cut off: its lease is released, and a
\* broker child that failed it is killed.
Refused(r) ==
  /\ request[r] # NoRequest
  /\ IF Leased(r) THEN Released("console") ELSE UNCHANGED hostLock
  /\ selecting' = (selecting /\ ~At(r, "route", "select"))
  /\ Answered(r)
  /\ UNCHANGED <<operation, processes, loaded, paper, route>>

--------------------------------------------------------------------------------
\* PUT /control/agent-models, /control/broker-connections/route and
\* /control/execution-mode: the body, then the host's lifetime lease, then a status.
TakeLease(r) ==
  /\ \E kind \in {"models", "route", "mode"} : At(r, kind, "body")
  /\ hostLock = "free"
  /\ hostLock' = "console"
  /\ Go(r, "status")
  /\ UNCHANGED <<flags, operation, processes, loaded, lanes>>

\* modelSettings.save, in the same turn as the status
SaveModels(r) ==
  /\ At(r, "models", "status")
  /\ ~SeenRunning
  /\ Stored("models")
  /\ Released("console")
  /\ Answered(r)
  /\ UNCHANGED <<operation, processes, lanes>>

\* brokerConnection(select) looks at the Paper lane, then starts a child, which is
\* the leader of a process group of its own.
SelectRoute(r) ==
  /\ At(r, "route", "status")
  /\ ~SeenRunning
  /\ ~paper
  /\ selecting' = TRUE
  /\ Go(r, "select")
  /\ UNCHANGED <<flags, operation, runtime, paper, route>>

\* The child replaces the route, or ends without doing so.
RouteSelected ==
  /\ selecting
  /\ selecting' = FALSE
  /\ route' \in BOOLEAN
  /\ IF route' = route THEN UNCHANGED loaded ELSE Stored("route")
  /\ UNCHANGED <<flags, operation, hostLock, processes, paper, request>>

SelectionAnswered(r) ==
  /\ At(r, "route", "select")
  /\ ~selecting
  /\ Released("console")
  /\ Answered(r)
  /\ UNCHANGED <<operation, processes, loaded, lanes>>

--------------------------------------------------------------------------------
\* PUT /control/capital/authorization: the flag is set after the body arrived.
PaperBody(r) ==
  /\ \E kind \in {"enable", "revoke"} : At(r, kind, "body")
  /\ flags' = flags \cup {"capital"}
  /\ Go(r, "status")
  /\ UNCHANGED <<operation, runtime, lanes>>

\* To enable, and to change the mode, the runtime must be stopped and no route selected.
PaperStopped(r) ==
  /\ At(r, "enable", "status") \/ At(r, "mode", "status")
  /\ ~SeenRunning
  /\ Go(r, "route")
  /\ UNCHANGED <<flags, operation, runtime, lanes>>

PaperRouteFree(r) ==
  /\ At(r, "enable", "route") \/ At(r, "mode", "route")
  /\ ~route
  /\ Go(r, "authorize")
  /\ UNCHANGED <<flags, operation, runtime, lanes>>

PaperAuthorized(r) ==
  /\ At(r, "enable", "authorize")
  /\ paper' = TRUE
  /\ Answered(r)
  /\ UNCHANGED <<operation, runtime, route, selecting>>

\* setExecutionMode authorizes the Paper lane, revokes it or leaves it as it is.
ModeSet(r) ==
  /\ At(r, "mode", "authorize")
  /\ paper' \in BOOLEAN
  /\ Released("console")
  /\ Answered(r)
  /\ UNCHANGED <<operation, processes, loaded, route, selecting>>

\* A revocation that empties the lane also stops a runtime that was seen to run.
PaperRevoked(r) ==
  /\ At(r, "revoke", "status")
  /\ paper' = FALSE
  /\ \/ Answered(r)
     \/ SeenRunning /\ Go(r, "stop") /\ UNCHANGED flags
  /\ UNCHANGED <<operation, runtime, route, selecting>>

\* The host ends in good order: its supervisor ended its child and says so.
EndsInOrder ==
  LET ended == IF host = "down" THEN {} ELSE supervisors \cap {hosts} IN
  /\ host' = "down"
  /\ Released("host")
  /\ supervisors' = supervisors \ ended
  /\ children' = children \ ended
  /\ named' = IF ended = {} THEN named ELSE Nobody
  /\ UNCHANGED <<hosts, loaded, orphaned>>

\* service.stop() returns when the host and the child that the file names are gone;
\* it knows of no other supervisor or child.
Stopped == EndsInOrder /\ named' \notin children'

PaperStops(r) ==
  /\ At(r, "revoke", "stop")
  /\ Stopped
  /\ Answered(r)
  /\ UNCHANGED <<operation, lanes>>

--------------------------------------------------------------------------------
\* PUT /control/credentials: the status, then the body, then the replacement.
SecretStopped(r) ==
  /\ At(r, "secret", "status")
  /\ ~SeenRunning
  /\ Go(r, "body")
  /\ UNCHANGED <<flags, operation, runtime, lanes>>

ReplaceSecret(r) ==
  /\ At(r, "secret", "body")
  /\ Stored("secret")
  /\ Answered(r)
  /\ UNCHANGED <<operation, hostLock, processes, lanes>>

--------------------------------------------------------------------------------
\* POST /control/runtime: one operation at a time, with a lock of its own.
Accept(action) ==
  /\ ~Busy
  /\ flags \cap {"capital", "models"} = {}
  /\ operation' = action
  /\ UNCHANGED <<flags, runtime, lanes, request>>

\* runOperation comes to its end: completed or failed, by its deadline.
OperationDone ==
  /\ operation \in Actions
  /\ operation' = "none"
  /\ UNCHANGED <<flags, runtime, lanes, request>>

\* Its service.stop(), through the platform's service manager.
StopService ==
  /\ operation \in {"stop", "restart"}
  /\ Stopped
  /\ UNCHANGED <<flags, operation, lanes, request>>

\* The host process takes its lock and reads the settings, whoever started it.
Boot ==
  /\ host = "down" /\ hosts < MaxHosts
  /\ hostLock = "free"
  /\ hostLock' = "host"
  /\ host' = "booting" /\ hosts' = hosts + 1
  /\ loaded' = [loaded EXCEPT ![hosts + 1] = Settings]
  /\ UNCHANGED <<flags, operation, supervisors, children, named, orphaned, lanes, request>>

\* It writes its state and starts a supervisor with its environment.
Up ==
  /\ host = "booting"
  /\ host' = "up"
  /\ supervisors' = supervisors \cup {hosts}
  /\ UNCHANGED <<flags, operation, hostLock, hosts, children, named, loaded, orphaned, lanes,
                 request>>

HostEnds ==
  /\ host # "down"
  /\ EndsInOrder
  /\ UNCHANGED <<flags, operation, lanes, request>>

\* The host is killed, or its supervisor was: it leaves what lives.
HostDies ==
  /\ host # "down"
  /\ host' = "down"
  /\ Released("host")
  /\ orphaned' = orphaned \cup (supervisors \cap {hosts})
  /\ UNCHANGED <<flags, operation, hosts, supervisors, children, named, loaded, lanes, request>>

\* A supervisor, of this host or of one that was killed, starts a child, or the next
\* one; then, and later, it writes its file, which names that child or none.
ChildStarts(h) ==
  /\ h \in supervisors \ children
  /\ children' = children \cup {h}
  /\ UNCHANGED <<flags, operation, hostLock, host, hosts, supervisors, named, loaded, orphaned,
                 lanes, request>>

FileWritten(h) ==
  /\ h \in supervisors
  /\ named' = IF h \in children THEN h ELSE Nobody
  /\ UNCHANGED <<flags, operation, hostLock, host, hosts, supervisors, children, loaded, orphaned,
                 lanes, request>>

\* A supervisor is killed, by its host's grace or from outside; a child ends, or dies.
SupervisorDies(h) ==
  /\ h \in supervisors
  /\ supervisors' = supervisors \ {h}
  /\ UNCHANGED <<flags, operation, hostLock, host, hosts, children, named, loaded, orphaned, lanes,
                 request>>

ChildEnds(h) ==
  /\ h \in children
  /\ children' = children \ {h}
  /\ UNCHANGED <<flags, operation, hostLock, host, hosts, supervisors, named, loaded, orphaned,
                 lanes, request>>

--------------------------------------------------------------------------------
\* The console is killed; its operation file, a stale lease and a broker child
\* stay.  The next console starts without flags.
ConsoleDies ==
  /\ Killed
  /\ flags' = {}
  /\ request' = [r \in Requests |-> NoRequest]
  /\ operation' = IF Busy THEN "left" ELSE operation
  /\ Released("console")
  /\ UNCHANGED <<processes, loaded, lanes>>

\* reconcileOperation, whenever the dashboard asks for the state
Reconciled == operation = "left" /\ operation' = "none"

Poll ==
  /\ Reconciled
  /\ UNCHANGED <<flags, runtime, lanes, request>>

Models(r) == TakeLease(r) \/ SaveModels(r)
Route(r) == SelectRoute(r) \/ SelectionAnswered(r)
Paper(r) == PaperBody(r) \/ PaperStopped(r) \/ PaperRouteFree(r) \/ PaperAuthorized(r)
            \/ ModeSet(r) \/ PaperRevoked(r) \/ PaperStops(r)
Secret(r) == SecretStopped(r) \/ ReplaceSecret(r)
Handle(r) ==
  \/ \E kind \in Kinds : Enter(r, kind)
  \/ Work(r) \/ Refused(r) \/ Models(r) \/ Route(r) \/ Paper(r) \/ Secret(r)

Lifecycle == (\E action \in Actions : Accept(action)) \/ OperationDone \/ StopService
OfStart(h) == ChildStarts(h) \/ FileWritten(h) \/ SupervisorDies(h) \/ ChildEnds(h)
Process == Boot \/ Up \/ HostEnds \/ HostDies \/ (\E h \in Hosts : OfStart(h)) \/ RouteSelected
Next == (\E r \in Requests : Handle(r)) \/ Lifecycle \/ Process \/ ConsoleDies \/ Poll
Spec == Init /\ [][Next]_vars

\* An operation has deadlines of its own, and the dashboard keeps asking.
FairSpec == Spec /\ WF_vars(OperationDone) /\ WF_vars(Poll)
--------------------------------------------------------------------------------
\* Every variable has its type.
TypeOK ==
  /\ flags \subseteq Flags
  /\ operation \in {"none", "left"} \cup Actions
  /\ hostLock \in {"free", "console", "host"}
  /\ host \in {"down", "booting", "up"} /\ hosts \in 0..MaxHosts
  /\ supervisors \subseteq Hosts /\ children \subseteq Hosts /\ orphaned \subseteq Hosts
  /\ named \in Hosts \cup {Nobody}
  /\ {paper, route, selecting} \subseteq BOOLEAN
  /\ loaded \in [Hosts -> SUBSET Settings]
  /\ \A r \in Requests :
       request[r] = NoRequest \/
       request[r] \in [kind : Kinds,
                      step : {"body", "status", "work", "select", "route", "authorize", "stop"}]

\* The requests that cleared what they raised, or still will: no flag outlives its
\* requests and shuts every later one out (operator-console.mjs:205).
NoStuckFlag ==
  \A flag \in flags : \E r \in Requests : request[r] # NoRequest /\ flag \notin Finally(r)

\* operator-console.mjs:722: neither the CLI nor a second console can "start a worker
\* between the stopped check and the atomic save": a host that runs, however many
\* consoles and hosts died before it, has the models that are stored, and so has the
\* living child that the file names, unless its supervisor outlived its host.
RuntimeAsConfigured ==
  /\ host # "down" => "models" \in loaded[hosts]
  /\ named \in children \ orphaned => "models" \in loaded[named]

\* The same of whatever is left of any start.
StraysAsConfigured == \A h \in Left : "models" \in loaded[h]

\* A lifecycle operation ends, and one that a dead console left is closed by the
\* next one.
OperationEnds == Busy ~> ~Busy

\* alta-runtime/broker-python/README.md:26: "Configuration changes require stopped
\* research": whatever runs pinned the route that is selected.
RouteAsConfigured == host # "down" => "route" \in loaded[hosts]

\* docs/operations/operator-console.md:324: provider tokens are replaced "while the
\* complete research runtime is stopped": whatever runs has the secrets that are stored.
CredentialsLocked == host # "down" => "secret" \in loaded[hosts]

\* docs/broker-expansion.md:56: the Tiger Paper lane "must be drained before selecting
\* the new route; it is not a third mode": never are both lanes open.
OneLane == ~(paper /\ route)
=============================================================================
