------------------------- MODULE ServiceSupervisor -------------------------
(* The research service's processes: the host (OpportunityService.run and    *)
(* stop, process-runner.mjs), the Python supervisor it starts                *)
(* (service_supervisor.py), and the opportunityd processes the supervisor    *)
(* starts one after the other, each the leader of a session of its own with  *)
(* an App Server in it.  Every start of the host has a supervisor of its own *)
(* and all of them keep one file; a host that is killed leaves its           *)
(* supervisor, and a killed supervisor its opportunityd, so that processes   *)
(* of several starts live together.  Time passes in Ticks of about ten       *)
(* seconds; each process's signals, exits and probes interleave between them.*)
EXTENDS Naturals

CONSTANTS
  MaxChildren,        \* bound: opportunityd processes ever started
  MaxStarts,          \* bound: starts of the host
  UnhealthyGrace,     \* supervisor_unhealthy_grace_seconds, in ticks
  UnresponsiveGrace,  \* supervisor_unresponsive_grace_seconds
  ShutdownGrace,      \* supervisor_shutdown_grace_seconds
  HostGrace,          \* shutdownGraceMs of runProcess
  Faults              \* a subset of FaultKinds

\* A child may become unready, unresponsive, deaf to SIGTERM, slow to stop, or
\* die; its App Server may be stuck; a host or a supervisor may be killed, and a
\* stop may give up.
FaultKinds == {"unready", "unresponsive", "deaf", "slow", "dies", "stuck", "killed", "late"}

SupervisorAssumption ==
  /\ MaxChildren \in Nat \ {0} /\ MaxStarts \in Nat \ {0}
  /\ UnhealthyGrace \in Nat \ {0} /\ UnresponsiveGrace \in Nat \ {0}
  /\ ShutdownGrace \in Nat \ {0} /\ HostGrace \in Nat \ {0}
  /\ Faults \subseteq FaultKinds

VARIABLES
  \* the host: its state, its abort and the ticks since, the supervisor it has
  host, abort, starts,
  \* the operator's stop
  stopping,
  \* the supervisor of each start: its step, its stop flag, its child, its
  \* timers, and whether it has probed since the last Tick
  sup, told, child, unhealthy, unresponsive, terminating, reason, probed,
  \* the file they keep: [state, child]
  file,
  \* the children ever started: each one's process, App Server and manners
  count, process, server, deaf,
  \* what the port answers, and for each supervisor the ticks since a probe of
  \* its found its child ready or live
  live, ready, sinceReady, sinceLive,
  \* history: a host or a supervisor was killed from outside, or a stop gave up
  disturbed

hostVars == <<host, abort, starts>>
timers == <<unhealthy, unresponsive, terminating>>
supVars == <<sup, told, child, timers, reason, probed>>
childVars == <<count, process, server, deaf>>
health == <<live, ready>>
since == <<sinceReady, sinceLive>>
vars == <<hostVars, stopping, supVars, file, childVars, health, since, disturbed>>

Children == 1..MaxChildren
Starts == 1..MaxStarts
None == 0
\* Timers count ticks up to the longest grace; Off is a timer that does not run.
Longer(s, t) == IF s >= t THEN s ELSE t
Longest == Longer(Longer(UnhealthyGrace, UnresponsiveGrace), Longer(ShutdownGrace, HostGrace))
Off == Longest + 1
Timers == 0..Off
Later(t) == IF t < Longest THEN t + 1 ELSE t
Past(t, grace) == t # Off /\ t >= grace

Alive(c) == c # None /\ process[c] \in {"starting", "up", "ending"}
Idle == [state |-> "stopped", child |-> None]
Over(s) == sup[s] \in {"down", "killed"}

Init ==
  /\ host = "down" /\ abort = Off /\ starts = 0 /\ stopping = "no"
  /\ sup = [s \in Starts |-> "down"] /\ told = [s \in Starts |-> FALSE]
  /\ child = [s \in Starts |-> None] /\ unhealthy = [s \in Starts |-> Off]
  /\ unresponsive = [s \in Starts |-> Off] /\ terminating = [s \in Starts |-> Off]
  /\ reason = [s \in Starts |-> "none"] /\ probed = [s \in Starts |-> FALSE]
  /\ file = Idle
  /\ count = 0 /\ process = [c \in Children |-> "none"]
  /\ server = [c \in Children |-> "none"] /\ deaf = [c \in Children |-> FALSE]
  /\ live = FALSE /\ ready = FALSE
  /\ sinceReady = [s \in Starts |-> 0] /\ sinceLive = [s \in Starts |-> 0]
  /\ disturbed = FALSE

Write(state, c) == file' = [state |-> state, child |-> c]
Goes(s, step) == sup' = [sup EXCEPT ![s] = step]

-----------------------------------------------------------------------------
\* The host.

\* The platform starts the host, which starts a supervisor; it starts it again
\* when it ended otherwise than stopped.
StartHost ==
  /\ host = "down" /\ stopping = "no" /\ starts < MaxStarts
  /\ host' = "running" /\ starts' = starts + 1 /\ abort' = Off
  /\ Goes(starts + 1, "spawn")
  /\ UNCHANGED <<stopping, told, child, timers, reason, probed, file, childVars, health, since,
                 disturbed>>

\* The operator starts a service that was stopped, when its port is free.
StartAgain ==
  /\ stopping \in {"done", "failed"} /\ host = "stopped" /\ starts < MaxStarts
  /\ \A c \in Children : process[c] # "up"
  /\ host' = "down" /\ stopping' = "no"
  /\ UNCHANGED <<abort, starts, supVars, file, childVars, health, since, disturbed>>

\* The operator stops the service: the platform's SIGTERM makes the host abort,
\* which sends SIGTERM to its supervisor.
StopService ==
  /\ stopping = "no" /\ starts > 0
  /\ stopping' = "waiting"
  /\ IF host = "running"
     THEN abort' = 0 /\ told' = [told EXCEPT ![starts] = ~Over(starts)] /\ UNCHANGED host
     ELSE host' = "stopped" /\ UNCHANGED <<abort, told>>
  /\ UNCHANGED <<starts, sup, child, timers, reason, probed, file, childVars, health, since,
                 disturbed>>

\* SIGKILL: what the supervisor knew is gone, its child lives on.
Slain(s) ==
  /\ Goes(s, "killed") /\ told' = [told EXCEPT ![s] = FALSE]
  /\ unhealthy' = [unhealthy EXCEPT ![s] = Off]
  /\ unresponsive' = [unresponsive EXCEPT ![s] = Off]
  /\ terminating' = [terminating EXCEPT ![s] = Off]
  /\ reason' = [reason EXCEPT ![s] = "none"] /\ probed' = [probed EXCEPT ![s] = FALSE]
  /\ sinceReady' = [sinceReady EXCEPT ![s] = 0] /\ sinceLive' = [sinceLive EXCEPT ![s] = 0]

\* A supervisor that outlives the host's grace is killed, its child is not.
HostKills ==
  /\ host = "running" /\ Past(abort, HostGrace) /\ ~Over(starts)
  /\ Slain(starts)
  /\ UNCHANGED <<hostVars, stopping, child, file, childVars, health, disturbed>>

\* runProcess settles when the supervisor is gone, and the host ends with it.
HostEnds ==
  /\ host = "running" /\ Over(starts)
  /\ host' = IF abort = Off THEN "down" ELSE "stopped"
  /\ abort' = Off
  /\ UNCHANGED <<starts, stopping, supVars, file, childVars, health, since, disturbed>>

\* The host itself is killed: its supervisor lives on, nobody tells it to stop,
\* and the platform starts the next host unless the service is being stopped.
HostKilled ==
  /\ "killed" \in Faults /\ host = "running"
  /\ host' = IF stopping = "no" THEN "down" ELSE "stopped"
  /\ abort' = Off /\ disturbed' = TRUE
  /\ UNCHANGED <<starts, stopping, supVars, file, childVars, health, since>>

Stops(to) ==
  /\ stopping = "waiting" /\ stopping' = to
  /\ UNCHANGED <<hostVars, supVars, file, childVars, health, since>>
\* Mutant: stop waits for the host only.
StopReturnsEarly == host = "stopped" /\ Stops("done") /\ UNCHANGED disturbed
\* stop returns when the host and the child named in the file are gone.
StopReturns == host = "stopped" /\ ~Alive(file.child) /\ Stops("done") /\ UNCHANGED disturbed
\* It gives up after a minute; what it waited for lives on.
StopGivesUp ==
  /\ "late" \in Faults /\ host = "stopped" /\ Alive(file.child)
  /\ Stops("failed") /\ disturbed' = TRUE

-----------------------------------------------------------------------------
\* The supervisor of start s.

\* Popen in a session of its own, while the loop has not been told to stop.
Spawn(s) ==
  /\ sup[s] = "spawn" /\ ~told[s] /\ count < MaxChildren
  /\ count' = count + 1 /\ child' = [child EXCEPT ![s] = count + 1]
  /\ process' = [process EXCEPT ![count + 1] = "starting"]
  /\ Goes(s, "named")
  /\ UNCHANGED <<hostVars, stopping, told, timers, reason, probed, file, server, deaf, health,
                 since, disturbed>>

\* Only then does the file name the child.
Named(s) ==
  /\ sup[s] = "named" /\ Goes(s, "await") /\ Write("starting", child[s])
  /\ UNCHANGED <<hostVars, stopping, told, child, timers, reason, probed, childVars, health,
                 since, disturbed>>

\* /health/live answers from the process that this supervisor started.
Answers(s) == live /\ process[child[s]] = "up"

\* The first such answer.
SeenLive(s) ==
  /\ sup[s] = "await" /\ ~told[s] /\ Answers(s)
  /\ Goes(s, "monitor") /\ Write("running", child[s])
  /\ probed' = [probed EXCEPT ![s] = FALSE]
  /\ sinceReady' = [sinceReady EXCEPT ![s] = 0] /\ sinceLive' = [sinceLive EXCEPT ![s] = 0]
  /\ UNCHANGED <<hostVars, stopping, told, child, timers, reason, childVars, health, disturbed>>

\* _terminate_child sends SIGTERM to the whole group of a child that has not
\* ended: one that is not deaf begins to end, an App Server that is not stuck ends.
Terminate(s, why) ==
  /\ Goes(s, "terminate") /\ terminating' = [terminating EXCEPT ![s] = 0]
  /\ reason' = [reason EXCEPT ![s] = why]
  /\ LET c == child[s] IN
     IF Alive(c)
     THEN /\ process' = [process EXCEPT ![c] = IF deaf[c] THEN @ ELSE "ending"]
          /\ server' = [server EXCEPT ![c] = IF @ = "up" THEN "none" ELSE @]
     ELSE UNCHANGED <<process, server>>

\* No answer within the start's deadline, an exit before it, or the stop flag.
StartupFails(s) ==
  /\ sup[s] = "await" /\ (told[s] \/ ~Answers(s))
  /\ Terminate(s, "startup_timeout")
  /\ UNCHANGED <<hostVars, stopping, told, child, unhealthy, unresponsive, probed, file, count,
                 deaf, health, since, disturbed>>

\* A probe that starts the timer, one within the grace, one past it.
Begun(timer) == IF timer = Off THEN 0 ELSE timer
Watch(s, timer, grace, why) ==
  \/ timer = Off /\ Write("degraded", child[s])
     /\ UNCHANGED <<sup, terminating, reason, process, server>>
  \/ timer < grace /\ UNCHANGED <<sup, terminating, reason, process, server, file>>
  \/ Past(timer, grace) /\ Terminate(s, why) /\ UNCHANGED file

\* A ready answer clears both timers.
Recover(s) ==
  /\ unresponsive' = [unresponsive EXCEPT ![s] = Off]
  /\ unhealthy' = [unhealthy EXCEPT ![s] = Off]

\* One round of _monitor_child: /health/live, then /health/ready.
Probe(s) ==
  /\ sup[s] = "monitor" /\ ~told[s] /\ Alive(child[s]) /\ ~probed[s]
  /\ probed' = [probed EXCEPT ![s] = TRUE]
  /\ \/ /\ ~Answers(s)
        /\ Watch(s, unresponsive[s], UnresponsiveGrace, "liveness_timeout")
        /\ unresponsive' = [unresponsive EXCEPT ![s] = Begun(@)]
        /\ UNCHANGED <<unhealthy, since>>
     \/ /\ Answers(s) /\ ready
        /\ Recover(s)
        /\ sinceReady' = [sinceReady EXCEPT ![s] = 0] /\ sinceLive' = [sinceLive EXCEPT ![s] = 0]
        /\ \/ Write("running", child[s])
           \/ unhealthy[s] = Off /\ UNCHANGED file
        /\ UNCHANGED <<sup, terminating, reason, process, server>>
     \/ /\ Answers(s) /\ ~ready
        /\ Watch(s, unhealthy[s], UnhealthyGrace, "readiness_timeout")
        /\ unresponsive' = [unresponsive EXCEPT ![s] = Off]
        /\ unhealthy' = [unhealthy EXCEPT ![s] = Begun(@)]
        /\ sinceLive' = [sinceLive EXCEPT ![s] = 0] /\ UNCHANGED sinceReady
  /\ UNCHANGED <<hostVars, stopping, told, child, count, deaf, health, disturbed>>

\* The loop of _monitor_child ends on the stop flag or on the child's exit.
MonitorEnds(s) ==
  /\ sup[s] = "monitor" /\ (told[s] \/ ~Alive(child[s]))
  /\ Terminate(s, IF told[s] THEN "stopped" ELSE "unexpected_exit")
  /\ UNCHANGED <<hostVars, stopping, told, child, unhealthy, unresponsive, probed, file, count,
                 deaf, health, since, disturbed>>

\* The port answers while a process that came up is left.
Falls(c) ==
  LET answered == \E d \in Children \ {c} : process[d] = "up" IN
  live' = (live /\ answered) /\ ready' = (ready /\ answered)

\* The child outlives its grace: SIGKILL to the group.
Escalate(s) ==
  /\ sup[s] = "terminate" /\ Alive(child[s]) /\ Past(terminating[s], ShutdownGrace)
  /\ process' = [process EXCEPT ![child[s]] = "dead"]
  /\ server' = [server EXCEPT ![child[s]] = "none"]
  /\ deaf' = [deaf EXCEPT ![child[s]] = FALSE]
  /\ Falls(child[s])
  /\ UNCHANGED <<hostVars, stopping, supVars, file, count, since, disturbed>>

\* Mutant: the wait for the child is left out.
NotWaited(s) == TRUE
\* child.wait() has returned.
Reaped(s) == ~Alive(child[s])

\* The child is gone: stop, or back off and start another.
ChildGone(s) ==
  /\ sup[s] = "terminate" /\ Reaped(s)
  /\ Goes(s, IF told[s] THEN "down" ELSE "backoff")
  /\ Write(IF told[s] THEN "stopped" ELSE "backoff", None)
  /\ child' = [child EXCEPT ![s] = None] /\ reason' = [reason EXCEPT ![s] = "none"]
  /\ terminating' = [terminating EXCEPT ![s] = Off]
  /\ unhealthy' = [unhealthy EXCEPT ![s] = Off]
  /\ unresponsive' = [unresponsive EXCEPT ![s] = Off]
  /\ sinceReady' = [sinceReady EXCEPT ![s] = 0] /\ sinceLive' = [sinceLive EXCEPT ![s] = 0]
  /\ UNCHANGED <<hostVars, stopping, told, probed, childVars, health, disturbed>>

\* Mutant: the supervisor gives up with its first child.
BackoffLast(s) ==
  /\ sup[s] = "backoff" /\ Goes(s, "down")
  /\ UNCHANGED <<hostVars, stopping, told, child, timers, reason, probed, file, childVars,
                 health, since, disturbed>>
\* The backoff is over: the next child.
BackoffEnds(s) ==
  /\ sup[s] = "backoff" /\ Goes(s, "spawn")
  /\ UNCHANGED <<hostVars, stopping, told, child, timers, reason, probed, file, childVars,
                 health, since, disturbed>>

\* The stop flag between two children.
SupervisorEnds(s) ==
  /\ sup[s] = "spawn" /\ told[s]
  /\ Goes(s, "down") /\ Write("stopped", None)
  /\ UNCHANGED <<hostVars, stopping, told, child, timers, reason, probed, childVars, health,
                 since, disturbed>>

-----------------------------------------------------------------------------
\* The opportunityd processes.

\* A child that starts binds its port unless another process holds it, and
\* starts an App Server.  A process that ends gives its port up at some time.
ChildUp(c) ==
  /\ process[c] = "starting"
  /\ \/ /\ \E d \in Children : process[d] \in {"up", "ending"}
        /\ process' = [process EXCEPT ![c] = "dead"] /\ UNCHANGED <<server, live, ready>>
     \/ /\ \A d \in Children : process[d] # "up"
        /\ process' = [process EXCEPT ![c] = "up"]
        /\ live' = TRUE /\ ready' = TRUE
        /\ server' \in {[server EXCEPT ![c] = kind] :
                          kind \in {"up"} \cup ({"stuck"} \cap Faults)}
  /\ UNCHANGED <<hostVars, stopping, supVars, file, count, deaf, since, disturbed>>

\* A process ends, its App Server with it unless that is stuck.
Ends(c) ==
  /\ process' = [process EXCEPT ![c] = "dead"]
  /\ server' = [server EXCEPT ![c] = IF @ = "stuck" THEN @ ELSE "none"]
  /\ deaf' = [deaf EXCEPT ![c] = FALSE]
  /\ Falls(c)
  /\ UNCHANGED <<hostVars, stopping, supVars, file, count, since, disturbed>>

ChildEnds(c) == process[c] = "ending" /\ Ends(c)
ChildDies(c) == "dies" \in Faults /\ Alive(c) /\ Ends(c)

\* The health of a child changes while it is up.
HealthChanges ==
  /\ \E c \in Children : process[c] = "up"
  /\ \/ "unready" \in Faults /\ live /\ ready' = ~ready /\ UNCHANGED live
     \/ "unresponsive" \in Faults /\ live' = ~live /\ UNCHANGED ready
  /\ UNCHANGED <<hostVars, stopping, supVars, file, childVars, since, disturbed>>

GoesDeaf(c) ==
  /\ "deaf" \in Faults /\ process[c] = "up" /\ ~deaf[c]
  /\ deaf' = [deaf EXCEPT ![c] = TRUE]
  /\ UNCHANGED <<hostVars, stopping, supVars, file, count, process, server, health, since,
                 disturbed>>

SupervisorKilled(s) ==
  /\ "killed" \in Faults /\ ~Over(s)
  /\ Slain(s) /\ disturbed' = TRUE
  /\ UNCHANGED <<hostVars, stopping, child, file, childVars, health>>

\* Time passes when nothing that takes no time is left to do: a child is named,
\* the round of probes is made, what has ended and the stop flag are noticed, a
\* grace that is over is acted on.
UrgentOf(s) ==
  \/ sup[s] = "spawn" /\ (told[s] \/ count < MaxChildren)
  \/ sup[s] = "named"
  \/ sup[s] = "await" /\ told[s]
  \/ sup[s] = "terminate" /\ (~Alive(child[s]) \/ Past(terminating[s], ShutdownGrace))
  \/ sup[s] = "monitor" /\ (told[s] \/ ~Alive(child[s]) \/ ~probed[s])
Urgent ==
  \/ \E s \in Starts : UrgentOf(s)
  \/ host = "running" /\ (Over(starts) \/ Past(abort, HostGrace))
  \/ "slow" \notin Faults /\ \E c \in Children : process[c] = "ending"

Watched(s, t) == IF sup[s] = "monitor" THEN Later(t) ELSE t
Tick ==
  /\ ~Urgent
  /\ abort' = Later(abort)
  /\ unhealthy' = [s \in Starts |-> Later(unhealthy[s])]
  /\ unresponsive' = [s \in Starts |-> Later(unresponsive[s])]
  /\ terminating' = [s \in Starts |-> Later(terminating[s])]
  /\ sinceReady' = [s \in Starts |-> Watched(s, sinceReady[s])]
  /\ sinceLive' = [s \in Starts |-> Watched(s, sinceLive[s])]
  /\ probed' = [s \in Starts |-> FALSE]
  /\ UNCHANGED <<host, starts, stopping, sup, told, child, reason, file, childVars, health,
                 disturbed>>

-----------------------------------------------------------------------------
Host == StartHost \/ HostKills \/ HostEnds \/ StopReturns
Supervisor(s) ==
  \/ Spawn(s) \/ Named(s) \/ SeenLive(s) \/ StartupFails(s) \/ Probe(s) \/ MonitorEnds(s)
  \/ Escalate(s) \/ ChildGone(s) \/ BackoffEnds(s) \/ SupervisorEnds(s)
Child(c) == ChildUp(c) \/ ChildEnds(c)
Operator == StopService \/ StopGivesUp \/ StartAgain
Trouble ==
  \/ HealthChanges \/ HostKilled
  \/ \E s \in Starts : SupervisorKilled(s)
  \/ \E c \in Children : ChildDies(c) \/ GoesDeaf(c)

Next ==
  \/ Host \/ (\E s \in Starts : Supervisor(s)) \/ (\E c \in Children : Child(c)) \/ Tick
  \/ Operator \/ Trouble

Spec == Init /\ [][Next]_vars

\* The host and each supervisor take their next step, a child that starts comes
\* up or fails, and time passes.
Fairness ==
  /\ WF_vars(Host) /\ WF_vars(Tick)
  /\ \A s \in Starts : WF_vars(Supervisor(s))
  /\ \A c \in Children : WF_vars(ChildUp(c))
LiveSpec == Spec /\ Fairness
--------------------------------------------------------------------------------
TypeOK ==
  /\ host \in {"down", "running", "stopped"} /\ abort \in Timers /\ starts \in 0..MaxStarts
  /\ stopping \in {"no", "waiting", "done", "failed"}
  /\ sup \in [Starts -> {"down", "spawn", "named", "await", "monitor", "terminate", "backoff",
                         "killed"}]
  /\ told \in [Starts -> BOOLEAN] /\ child \in [Starts -> Children \cup {None}]
  /\ probed \in [Starts -> BOOLEAN]
  /\ unhealthy \in [Starts -> Timers] /\ unresponsive \in [Starts -> Timers]
  /\ terminating \in [Starts -> Timers]
  /\ reason \in [Starts -> {"none", "startup_timeout", "liveness_timeout", "readiness_timeout",
                            "stopped", "unexpected_exit"}]
  /\ file \in [state : {"stopped", "starting", "running", "degraded", "backoff"},
               child : Children \cup {None}]
  /\ count \in 0..MaxChildren
  /\ process \in [Children -> {"none", "starting", "up", "ending", "dead"}]
  /\ server \in [Children -> {"none", "up", "stuck"}] /\ deaf \in [Children -> BOOLEAN]
  /\ live \in BOOLEAN /\ ready \in BOOLEAN
  /\ sinceReady \in [Starts -> Timers] /\ sinceLive \in [Starts -> Timers]
  /\ disturbed \in BOOLEAN

\* The watchdog ends only a child that no probe has found ready, or live, for
\* the whole of the grace: no flapping of the other endpoint, no earlier child's
\* trouble and no other start's opportunityd on the port shortens it.
WatchdogJust ==
  \A s \in Starts : sup[s] = "terminate" =>
    /\ reason[s] = "readiness_timeout" => sinceReady[s] >= UnhealthyGrace
    /\ reason[s] = "liveness_timeout" => sinceLive[s] >= UnresponsiveGrace

\* An opportunityd that lives is the one that the supervisor of some start looks
\* after, or the last one of a supervisor that was killed: none outlives a
\* supervisor that ended by itself, backs off or starts the next.
LookedAfter(c) ==
  \E s \in Starts : child[s] = c
                   /\ sup[s] \in {"named", "await", "monitor", "terminate", "killed"}
NoneForgotten == \A c \in Children : Alive(c) => LookedAfter(c)

\* As long as no host or supervisor is killed from outside and no stop gives up,
\* one opportunityd lives at a time, over any number of stops and starts.
OneChild ==
  ~disturbed => \A c, d \in Children : Alive(c) /\ Alive(d) => c = d

\* Then `stop` returns only when no opportunityd is left, although the file it
\* reads is written by a supervisor that the host may have killed.
StopComplete ==
  ~disturbed /\ stopping = "done" => \A c \in Children : ~Alive(c)

\* autonomous-shadow.md:502, whatever is killed: "`stop` waits for the owner and
\* child tree to exit", and with that a service that is started again is alone.
StopLeavesNone == stopping = "done" => \A c \in Children : ~Alive(c)
AlwaysOneChild == \A c, d \in Children : Alive(c) /\ Alive(d) => c = d

\* "A process that remains live but unready" is replaced, even one that is deaf
\* to SIGTERM, unless it recovers or the service is stopped.
Troubled(c) == Alive(c) /\ ~ready /\ \E s \in Starts : sup[s] = "monitor" /\ child[s] = c
TroubleOver(c) == ~Alive(c) \/ ready \/ stopping # "no"
UnreadyReplaced == \A c \in Children : Troubled(c) ~> TroubleOver(c)

\* "The supervisor has no restart limit": a dead child is followed by another.
Abandoned == starts > 0 /\ \A c \in Children : ~Alive(c)
Resumed == stopping # "no" \/ count = MaxChildren \/ \E c \in Children : process[c] = "up"
Restarted == Abandoned ~> Resumed

\* "SIGINT and SIGTERM ... terminate the child, and write a final ... state".
FinalState ==
  host = "stopped" => file.state = "stopped"

\* "so a stuck App Server cannot be orphaned".
NoOrphanServer ==
  \A s \in Starts : sup[s] = "backoff" => \A c \in Children : server[c] = "none"
=============================================================================
