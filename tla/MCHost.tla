------------------------------- MODULE MCHost -------------------------------
(***************************************************************************)
(* The operator console and the service supervisor for TLC, in one run.    *)
(* Their modules share no state, so one of them runs in each behaviour and *)
(* the other stays as it began.  The console runs with requests of every   *)
(* kind over one start of the host, and with those that look at a runtime  *)
(* they change or stop over several.  The supervisor has two instances:    *)
(* one whose hosts and supervisors may be killed, over one start with      *)
(* children of every manner and over several with children that answer,    *)
(* and one, over one start without kills, for its liveness.                *)
(***************************************************************************)
EXTENDS Naturals, FiniteSets

CONSTANTS
  Requests, MaxHosts,                                        \* of OperatorConsole
  MaxStarts, MaxChildren, UnhealthyGrace, UnresponsiveGrace, ShutdownGrace, HostGrace
                                                             \* of ServiceSupervisor

VARIABLES
  flags, operation, hostLock, runtime, hosts, supervisors, children, named, loaded, orphaned,
  paper, route, selecting, request,
  host, abort, starts, stopping, sup, told, child, unhealthy, unresponsive,
  terminating, reason, probed, file, count, process, server, deaf,
  live, ready, sinceReady, sinceLive, disturbed,
  system     \* what runs

Console == INSTANCE OperatorConsole WITH
  host <- runtime, Killed <- TRUE, Settings <- {"models"}

Service == INSTANCE ServiceSupervisor WITH
  Faults <- {"unready", "unresponsive", "deaf", "slow", "dies", "killed", "late"}

Lasting == INSTANCE ServiceSupervisor WITH
  MaxStarts <- 1,
  Faults <- {"unready", "unresponsive", "deaf", "slow", "dies", "stuck"}

ASSUME ServiceBounds == Service!SupervisorAssumption /\ Lasting!SupervisorAssumption
ASSUME ConsoleBounds == Console!ConsoleAssumption

consoleVars ==
  <<flags, operation, hostLock, runtime, hosts, supervisors, children, named, loaded, orphaned,
    paper, route, selecting, request>>
serviceVars ==
  <<host, abort, starts, stopping, sup, told, child, unhealthy, unresponsive,
    terminating, reason, probed, file, count, process, server, deaf,
    live, ready, sinceReady, sinceLive, disturbed>>
vars == <<consoleVars, serviceVars, system>>

InConsole == system \in {"console", "rehosted"}
InService == system \in {"service", "restarted"}
InLasting == system = "lasting"

Init ==
  /\ Console!Init
  /\ \/ system \in {"console", "rehosted", "service", "restarted"} /\ Service!Init
     \/ system = "lasting" /\ Lasting!Init

\* The bounds of the console's two systems, and of the supervisor's.
Bounded ==
  /\ system = "service" => starts <= 1
  /\ system = "restarted" => live \/ \A c \in Service!Children : process[c] # "up"
  /\ system = "console" => hosts <= 1 /\ orphaned = {}
  /\ system = "rehosted" => \A r \in Requests : request[r].kind \in {"none", "models", "revoke"}

Next ==
  /\ UNCHANGED system
  /\ \/ InConsole /\ Console!Next /\ Bounded' /\ UNCHANGED serviceVars
     \/ InService /\ Service!Next /\ Bounded' /\ UNCHANGED consoleVars
     \/ InLasting /\ Lasting!Next /\ UNCHANGED consoleVars

Safety == Init /\ [][Next]_vars

\* The fairness of the two modules.
Fairness ==
  /\ WF_consoleVars(InConsole /\ Console!OperationDone)
  /\ WF_consoleVars(InConsole /\ Console!Poll)
  /\ WF_serviceVars(InLasting /\ Lasting!Host)
  /\ \A s \in Lasting!Starts : WF_serviceVars(InLasting /\ Lasting!Supervisor(s))
  /\ WF_serviceVars(InLasting /\ Lasting!Tick)
  /\ \A c \in Lasting!Children : WF_serviceVars(InLasting /\ Lasting!ChildUp(c))

Spec == Safety /\ Fairness

--------------------------------------------------------------------------------
\* A host that runs has the models that are stored, however many consoles, hosts
\* and supervisors died before it, and so has the living child that the file names,
\* unless its supervisor outlived its host (operator-console.mjs:722); and no flag
\* outlives the requests that raised it and shuts every later one out
\* (operator-console.mjs:205).
ConsoleConsistent == InConsole => Console!RuntimeAsConfigured /\ Console!NoStuckFlag

\* No opportunityd outlives a supervisor that ended by itself, backs off or starts
\* the next one, whatever is killed; one lives at a time, over several stops and
\* starts, as long as no host or supervisor is killed from outside and no stop
\* gives up; and the watchdog ends only one that no probe has found ready, or
\* live, for the whole of the grace (service_supervisor.py).
OneJustlyWatched ==
  InService => Service!NoneForgotten /\ Service!OneChild /\ Service!WatchdogJust

\* As long as no host or supervisor is killed from outside and no stop gives up,
\* `stop` returns only when no opportunityd is left, although the file it reads is
\* written by a supervisor that the host may have killed, and named the child
\* after it had started it.
StopComplete == InService => Service!StopComplete

\* A lifecycle operation ends, also one that a dead console left; an unready
\* child is replaced even if it is deaf to SIGTERM, and a dead one is followed
\* by another.
ServiceRecovers ==
  /\ (InConsole /\ Console!Busy) ~> ~Console!Busy
  /\ \A c \in Lasting!Children :
       (InLasting /\ Lasting!Troubled(c)) ~> Lasting!TroubleOver(c)
  /\ (InLasting /\ Lasting!Abandoned) ~> Lasting!Resumed
=============================================================================
