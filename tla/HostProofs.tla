----------------------------- MODULE HostProofs -----------------------------
(***************************************************************************)
(* Proofs about MCHost: the operator console for any number of requests    *)
(* and of starts of the runtime's host, and the service supervisors for    *)
(* any number of starts, children and ticks of each grace, whatever is     *)
(* killed.                                                                 *)
(***************************************************************************)
EXTENDS MCHost, TLAPS

--------------------------------------------------------------------------------
\* The operator console
\* What a request is, and what it waits for.
ConsoleSteps == {"idle", "body", "status", "work", "select", "route", "authorize", "stop"}
RequestType == request \in [Requests -> [kind : Console!Kinds \cup {"none"}, step : ConsoleSteps]]

\* The host process has the host's lock while it lives, a handler that took the
\* lock has it alone.
LockInv ==
  /\ runtime # "down" => hostLock = "host"
  /\ \A r \in Requests : Console!Leased(r) => hostLock = "console"
  /\ \A q, r \in Requests : Console!Leased(q) /\ Console!Leased(r) => q = r

\* A process left is of a start that was made; a supervisor that did not outlive
\* its host is the one of the host that runs.
StartType ==
  /\ hosts \in Nat /\ hosts <= MaxHosts /\ (runtime # "down" => hosts > 0)
  /\ loaded \in [Console!Hosts -> SUBSET {"models"}]
  /\ supervisors \subseteq 1..hosts /\ children \subseteq 1..hosts
  /\ named \in 0..hosts
RunInv ==
  /\ StartType
  /\ \A h \in supervisors : h \in orphaned \/ (h = hosts /\ runtime # "down")
  /\ Console!RuntimeAsConfigured

ConsoleInv == RequestType /\ LockInv /\ RunInv /\ Console!NoStuckFlag

\* What a request's finally clears.
Clears(r) == IF request[r].kind \in {"enable", "revoke"} /\ request[r].step # "body"
             THEN {"capital"} ELSE Console!Raised(request[r].kind)

LEMMA FinallyClears == \A r : Console!Finally(r) = flags \ Clears(r)
BY DEF Console!Finally, Clears

\* One request moves: it and the others.
LEMMA RequestFacts ==
  ASSUME RequestType, NEW r \in Requests
  PROVE  /\ \A step \in ConsoleSteps \ {"idle"} :
              Console!Go(r, step) /\ request[r] # Console!NoRequest =>
              /\ RequestType' /\ request'[r] # Console!NoRequest
              /\ request'[r].kind = request[r].kind /\ request'[r].step = step
         /\ Console!Answered(r) => RequestType' /\ request'[r] = Console!NoRequest
         /\ \A step \in ConsoleSteps : Console!Go(r, step) \/ Console!Answered(r) =>
              \A q \in Requests \ {r} : request'[q] = request[q]
<1>1. ASSUME NEW step \in ConsoleSteps, Console!Go(r, step)
      PROVE  /\ RequestType'
             /\ request'[r].kind = request[r].kind /\ request'[r].step = step
             /\ \A q \in Requests \ {r} : request'[q] = request[q]
  <2>1. [request[r] EXCEPT !.step = step]
          \in [kind : Console!Kinds \cup {"none"}, step : ConsoleSteps]
    BY DEF RequestType
  <2>. QED BY <1>1, <2>1 DEF Console!Go, RequestType
<1>2. /\ Console!NoRequest \in [kind : Console!Kinds \cup {"none"}, step : ConsoleSteps]
      /\ Console!NoRequest.step = "idle"
  BY DEF Console!NoRequest, ConsoleSteps
<1>3. ASSUME Console!Answered(r)
      PROVE  /\ RequestType' /\ request'[r] = Console!NoRequest
             /\ \A q \in Requests \ {r} : request'[q] = request[q]
  BY <1>2, <1>3 DEF Console!Answered, RequestType
<1>. QED BY <1>1, <1>2, <1>3

LEMMA LockFrame ==
  ASSUME LockInv, UNCHANGED <<runtime, hostLock, request>>
  PROVE  LockInv'
BY DEF LockInv, Console!Leased

LEMMA RunFrame ==
  ASSUME RunInv, UNCHANGED <<Console!processes, loaded>>
  PROVE  RunInv'
BY DEF RunInv, StartType, Console!RuntimeAsConfigured, Console!processes

\* Models are stored only while no host runs and no child that the file names.
LEMMA StoredKeepsRun ==
  ASSUME RunInv, UNCHANGED Console!processes, NEW setting, Console!Stored(setting),
         setting = "models" => runtime = "down" /\ named \notin children
  PROVE  RunInv'
<1>1. loaded' \in [Console!Hosts -> SUBSET {"models"}]
  BY DEF Console!Stored, RunInv, StartType
<1>2. \A h \in 1..hosts : h \in Console!Hosts
  BY ConsoleBounds DEF RunInv, StartType, Console!Hosts, Console!ConsoleAssumption
<1>3. \A h \in 1..hosts : setting # "models" /\ "models" \in loaded[h] => "models" \in loaded'[h]
  BY <1>2 DEF Console!Stored
<1>4. Console!RuntimeAsConfigured'
  <2>1. CASE setting = "models"
    BY <2>1 DEF Console!RuntimeAsConfigured, Console!processes
  <2>2. CASE setting # "models"
    <3>1. runtime # "down" => hosts \in 1..hosts
      BY DEF RunInv, StartType
    <3>. QED BY <1>3, <2>2, <3>1 DEF Console!RuntimeAsConfigured, Console!processes, RunInv,
         StartType
  <2>. QED BY <2>1, <2>2
<1>. QED BY <1>1, <1>4 DEF RunInv, StartType, Console!processes

\* A host that ends in good order takes its supervisor and their child with it.
LEMMA EndsKeepsRun ==
  ASSUME RunInv, Console!EndsInOrder
  PROVE  RunInv'
<1>1. StartType'
  BY DEF Console!EndsInOrder, RunInv, StartType, Console!Nobody
<1>2. 0 \notin children' /\ children' \subseteq children
  BY DEF Console!EndsInOrder, RunInv, StartType
<1>3. \A h \in supervisors' : h \in orphaned'
  BY DEF Console!EndsInOrder, RunInv
<1>4. Console!RuntimeAsConfigured'
  BY <1>2 DEF Console!EndsInOrder, Console!Nobody, RunInv, Console!RuntimeAsConfigured
<1>. QED BY <1>1, <1>3, <1>4 DEF RunInv

LEMMA FlagFrame ==
  ASSUME Console!NoStuckFlag, UNCHANGED <<flags, request>>
  PROVE  Console!NoStuckFlag'
BY DEF Console!NoStuckFlag, Console!Finally

\* A request that ends clears what it raised, and no more than another clears.
LEMMA AnsweredKeepsFlags ==
  ASSUME RequestType, Console!NoStuckFlag, NEW r \in Requests, Console!Answered(r)
  PROVE  Console!NoStuckFlag'
<1> SUFFICES ASSUME NEW flag \in flags'
             PROVE  \E q \in Requests :
                      request'[q] # Console!NoRequest /\ flag \notin Console!Finally(q)'
  BY DEF Console!NoStuckFlag
<1>1. flag \in flags /\ flag \in Console!Finally(r)
  BY DEF Console!Answered, Console!Finally
<1>2. PICK q \in Requests : request[q] # Console!NoRequest /\ flag \notin Console!Finally(q)
  BY <1>1 DEF Console!NoStuckFlag
<1>3. q # r
  BY <1>1, <1>2
<1>4. request'[q] = request[q]
  BY <1>3 DEF Console!Answered, RequestType
<1>. QED BY <1>1, <1>2, <1>4 DEF Console!Finally, Console!Answered

\* A request that goes on still clears what it raised, and what it raises now.
LEMMA OngoingKeepsFlags ==
  ASSUME Console!NoStuckFlag, NEW r \in Requests, request'[r] # Console!NoRequest,
         \A q \in Requests \ {r} : request'[q] = request[q],
         request[r] = Console!NoRequest \/ Clears(r) \subseteq Clears(r)',
         flags' \subseteq flags \cup Clears(r)'
  PROVE  Console!NoStuckFlag'
<1> SUFFICES ASSUME NEW flag \in flags'
             PROVE  \E q \in Requests : request'[q] # Console!NoRequest /\ flag \in Clears(q)'
  BY FinallyClears DEF Console!NoStuckFlag, Console!Finally, Clears
<1>1. CASE flag \in Clears(r)'
  BY <1>1
<1>2. CASE flag \notin Clears(r)'
  <2>1. PICK q \in Requests : request[q] # Console!NoRequest /\ flag \in Clears(q)
    BY <1>2, FinallyClears DEF Console!NoStuckFlag
  <2>2. q # r
    BY <1>2, <2>1
  <2>. QED BY <2>1, <2>2 DEF Clears
<1>. QED BY <1>1, <1>2

LEMMA GoKeepsFlags ==
  ASSUME RequestType, Console!NoStuckFlag, NEW r \in Requests, NEW step \in ConsoleSteps \ {"idle"},
         Console!Go(r, step), request[r] # Console!NoRequest,
         step # "body" \/ request[r].kind = "secret",
         \/ flags' = flags
         \/ /\ request[r].kind \in {"enable", "revoke"} /\ step # "body"
            /\ flags' = flags \cup {"capital"}
  PROVE  Console!NoStuckFlag'
<1>1. /\ request'[r] # Console!NoRequest
      /\ request'[r].kind = request[r].kind /\ request'[r].step = step
      /\ \A q \in Requests \ {r} : request'[q] = request[q]
  BY RequestFacts
<1>2. Clears(r) \subseteq Clears(r)'
  BY <1>1 DEF Clears, Console!Raised
<1>3. flags' \subseteq flags \cup Clears(r)'
  BY <1>1 DEF Clears
<1>. QED BY <1>1, <1>2, <1>3, OngoingKeepsFlags

--------------------------------------------------------------------------------
LEMMA ConsoleInit == Console!ConsoleAssumption /\ Console!Init => ConsoleInv
<1>. SUFFICES ASSUME Console!ConsoleAssumption, Console!Init PROVE ConsoleInv
  OBVIOUS
<1>1. RequestType
  BY DEF Console!Init, RequestType, Console!NoRequest, ConsoleSteps
<1>2. LockInv
  BY DEF Console!Init, LockInv, Console!Leased, Console!NoRequest
<1>3. RunInv
  BY DEF Console!Init, RunInv, StartType, Console!RuntimeAsConfigured,
       Console!ConsoleAssumption, Console!Nobody
<1>. QED BY <1>1, <1>2, <1>3 DEF Console!Init, ConsoleInv, Console!NoStuckFlag

\* A handler step that leaves the lock with whom it is.
LEMMA LockKept ==
  ASSUME LockInv, NEW r \in Requests, UNCHANGED <<Console!processes, hostLock>>,
         \A q \in Requests \ {r} : request'[q] = request[q],
         Console!Leased(r)' => Console!Leased(r)
  PROVE  LockInv'
BY DEF LockInv, Console!Leased, Console!processes

\* A handler that ends gives the lock back if it had it.
LEMMA LockReleased ==
  ASSUME LockInv, NEW r \in Requests, UNCHANGED Console!processes, Console!Released("console"),
         Console!Leased(r),
         \A q \in Requests \ {r} : request'[q] = request[q], ~Console!Leased(r)'
  PROVE  LockInv'
BY DEF LockInv, Console!Leased, Console!processes, Console!Released
--------------------------------------------------------------------------------
\* Every step of a handler keeps the invariant.
LEMMA EnterStep ==
  ASSUME ConsoleInv, NEW r \in Requests, NEW kind \in Console!Kinds, Console!Enter(r, kind)
  PROVE  ConsoleInv'
<1>1. /\ request'[r] = [kind |-> kind, step |-> Console!FirstStep(kind)]
      /\ \A q \in Requests \ {r} : request'[q] = request[q]
  BY DEF Console!Enter, ConsoleInv, RequestType
<1>2. Console!FirstStep(kind) \in ConsoleSteps \ {"idle"}
  BY DEF Console!FirstStep, ConsoleSteps
<1>3. RequestType'
  BY <1>1, <1>2 DEF Console!Enter, ConsoleInv, RequestType
<1>4. LockInv'
  BY <1>1, LockKept DEF Console!Enter, Console!runtime, ConsoleInv, Console!Leased,
       Console!FirstStep
<1>5. RunInv'
  BY RunFrame DEF Console!Enter, Console!runtime, ConsoleInv
<1>6. Console!NoStuckFlag'
  <2>1. Console!Raised(kind) = Clears(r)'
    BY <1>1 DEF Clears, Console!Raised, Console!FirstStep, Console!Kinds
  <2>2. request'[r] # Console!NoRequest
    BY <1>1, <1>2 DEF Console!NoRequest
  <2>. QED BY <1>1, <2>1, <2>2, OngoingKeepsFlags DEF Console!Enter, ConsoleInv
<1>. QED BY <1>3, <1>4, <1>5, <1>6 DEF ConsoleInv

LEMMA WorkStep ==
  ASSUME ConsoleInv, NEW r \in Requests, Console!Work(r)
  PROVE  ConsoleInv'
<1>1. /\ RequestType' /\ request'[r] = Console!NoRequest
      /\ \A q \in Requests \ {r} : request'[q] = request[q]
  BY RequestFacts DEF Console!Work, ConsoleInv, ConsoleSteps
<1>2. LockInv'
  BY <1>1, LockKept DEF Console!Work, Console!runtime, Console!At, ConsoleInv,
       Console!Leased, Console!NoRequest
<1>3. RunInv'
  BY RunFrame DEF Console!Work, Console!runtime, ConsoleInv
<1>4. Console!NoStuckFlag'
  BY AnsweredKeepsFlags DEF Console!Work, ConsoleInv
<1>. QED BY <1>1, <1>2, <1>3, <1>4 DEF ConsoleInv

LEMMA TakeLeaseStep ==
  ASSUME ConsoleInv, NEW r \in Requests, Console!TakeLease(r)
  PROVE  ConsoleInv'
<1>0. request[r] # Console!NoRequest
  BY DEF Console!TakeLease, Console!At, Console!NoRequest
<1>1. /\ RequestType' /\ request'[r] # Console!NoRequest
      /\ request'[r].kind = request[r].kind /\ request'[r].step = "status"
      /\ \A q \in Requests \ {r} : request'[q] = request[q]
  BY <1>0, RequestFacts DEF Console!TakeLease, ConsoleInv, ConsoleSteps
<1>2. LockInv'
  BY <1>1 DEF Console!TakeLease, Console!processes, ConsoleInv, LockInv, Console!Leased
<1>3. RunInv'
  BY RunFrame DEF Console!TakeLease, Console!runtime, ConsoleInv
<1>4. Console!NoStuckFlag'
  BY <1>0, GoKeepsFlags DEF Console!TakeLease, Console!At, ConsoleInv, ConsoleSteps
<1>. QED BY <1>1, <1>2, <1>3, <1>4 DEF ConsoleInv

LEMMA SaveModelsStep ==
  ASSUME ConsoleInv, NEW r \in Requests, Console!SaveModels(r)
  PROVE  ConsoleInv'
<1>1. /\ RequestType' /\ request'[r] = Console!NoRequest
      /\ \A q \in Requests \ {r} : request'[q] = request[q]
  BY RequestFacts DEF Console!SaveModels, ConsoleInv, ConsoleSteps
<1>2. LockInv'
  BY <1>1, LockReleased DEF Console!SaveModels, Console!At, ConsoleInv, Console!Leased,
       Console!NoRequest
<1>3. RunInv'
  <2>1. hostLock = "console"
    BY DEF Console!SaveModels, Console!At, ConsoleInv, LockInv, Console!Leased
  <2>2. runtime = "down"
    BY <2>1 DEF ConsoleInv, LockInv
  <2>. QED BY <2>2, StoredKeepsRun DEF Console!SaveModels, Console!SeenRunning, ConsoleInv
<1>4. Console!NoStuckFlag'
  BY AnsweredKeepsFlags DEF Console!SaveModels, ConsoleInv
<1>. QED BY <1>1, <1>2, <1>3, <1>4 DEF ConsoleInv

LEMMA SelectRouteStep ==
  ASSUME ConsoleInv, NEW r \in Requests, Console!SelectRoute(r)
  PROVE  ConsoleInv'
<1>0. request[r] # Console!NoRequest
  BY DEF Console!SelectRoute, Console!At, Console!NoRequest
<1>1. /\ RequestType' /\ request'[r] # Console!NoRequest
      /\ request'[r].kind = request[r].kind /\ request'[r].step = "select"
      /\ \A q \in Requests \ {r} : request'[q] = request[q]
  BY <1>0, RequestFacts DEF Console!SelectRoute, ConsoleInv, ConsoleSteps
<1>2. LockInv'
  BY <1>1, LockKept DEF Console!SelectRoute, Console!runtime, Console!At, ConsoleInv,
       Console!Leased, Console!NoRequest
<1>3. RunInv'
  BY RunFrame DEF Console!SelectRoute, Console!runtime, ConsoleInv
<1>4. Console!NoStuckFlag'
  BY <1>0, GoKeepsFlags DEF Console!SelectRoute, Console!At, ConsoleInv, ConsoleSteps
<1>. QED BY <1>1, <1>2, <1>3, <1>4 DEF ConsoleInv

LEMMA SelectionAnsweredStep ==
  ASSUME ConsoleInv, NEW r \in Requests, Console!SelectionAnswered(r)
  PROVE  ConsoleInv'
<1>1. /\ RequestType' /\ request'[r] = Console!NoRequest
      /\ \A q \in Requests \ {r} : request'[q] = request[q]
  BY RequestFacts DEF Console!SelectionAnswered, ConsoleInv, ConsoleSteps
<1>2. LockInv'
  BY <1>1, LockReleased DEF Console!SelectionAnswered, Console!At, ConsoleInv,
       Console!Leased, Console!NoRequest
<1>3. RunInv'
  BY RunFrame DEF Console!SelectionAnswered, Console!runtime, ConsoleInv
<1>4. Console!NoStuckFlag'
  BY AnsweredKeepsFlags DEF Console!SelectionAnswered, ConsoleInv
<1>. QED BY <1>1, <1>2, <1>3, <1>4 DEF ConsoleInv

LEMMA PaperBodyStep ==
  ASSUME ConsoleInv, NEW r \in Requests, Console!PaperBody(r)
  PROVE  ConsoleInv'
<1>0. request[r] # Console!NoRequest
  BY DEF Console!PaperBody, Console!At, Console!NoRequest
<1>1. /\ RequestType' /\ request'[r] # Console!NoRequest
      /\ request'[r].kind = request[r].kind /\ request'[r].step = "status"
      /\ \A q \in Requests \ {r} : request'[q] = request[q]
  BY <1>0, RequestFacts DEF Console!PaperBody, ConsoleInv, ConsoleSteps
<1>2. LockInv'
  BY <1>1, LockKept DEF Console!PaperBody, Console!runtime, Console!At, ConsoleInv,
       Console!Leased, Console!NoRequest
<1>3. RunInv'
  BY RunFrame DEF Console!PaperBody, Console!runtime, ConsoleInv
<1>4. Console!NoStuckFlag'
  BY <1>0, GoKeepsFlags DEF Console!PaperBody, Console!At, ConsoleInv, ConsoleSteps
<1>. QED BY <1>1, <1>2, <1>3, <1>4 DEF ConsoleInv

LEMMA PaperStoppedStep ==
  ASSUME ConsoleInv, NEW r \in Requests, Console!PaperStopped(r)
  PROVE  ConsoleInv'
<1>0. request[r] # Console!NoRequest
  BY DEF Console!PaperStopped, Console!At, Console!NoRequest
<1>1. /\ RequestType' /\ request'[r] # Console!NoRequest
      /\ request'[r].kind = request[r].kind /\ request'[r].step = "route"
      /\ \A q \in Requests \ {r} : request'[q] = request[q]
  BY <1>0, RequestFacts DEF Console!PaperStopped, ConsoleInv, ConsoleSteps
<1>2. LockInv'
  BY <1>1, LockKept DEF Console!PaperStopped, Console!runtime, Console!At, ConsoleInv,
       Console!Leased, Console!NoRequest
<1>3. RunInv'
  BY RunFrame DEF Console!PaperStopped, Console!runtime, ConsoleInv
<1>4. Console!NoStuckFlag'
  BY <1>0, GoKeepsFlags DEF Console!PaperStopped, Console!At, ConsoleInv, ConsoleSteps
<1>. QED BY <1>1, <1>2, <1>3, <1>4 DEF ConsoleInv

LEMMA PaperRouteFreeStep ==
  ASSUME ConsoleInv, NEW r \in Requests, Console!PaperRouteFree(r)
  PROVE  ConsoleInv'
<1>0. request[r] # Console!NoRequest
  BY DEF Console!PaperRouteFree, Console!At, Console!NoRequest
<1>1. /\ RequestType' /\ request'[r] # Console!NoRequest
      /\ request'[r].kind = request[r].kind /\ request'[r].step = "authorize"
      /\ \A q \in Requests \ {r} : request'[q] = request[q]
  BY <1>0, RequestFacts DEF Console!PaperRouteFree, ConsoleInv, ConsoleSteps
<1>2. LockInv'
  BY <1>1, LockKept DEF Console!PaperRouteFree, Console!runtime, Console!At, ConsoleInv,
       Console!Leased, Console!NoRequest
<1>3. RunInv'
  BY RunFrame DEF Console!PaperRouteFree, Console!runtime, ConsoleInv
<1>4. Console!NoStuckFlag'
  BY <1>0, GoKeepsFlags DEF Console!PaperRouteFree, Console!At, ConsoleInv, ConsoleSteps
<1>. QED BY <1>1, <1>2, <1>3, <1>4 DEF ConsoleInv

LEMMA PaperAuthorizedStep ==
  ASSUME ConsoleInv, NEW r \in Requests, Console!PaperAuthorized(r)
  PROVE  ConsoleInv'
<1>1. /\ RequestType' /\ request'[r] = Console!NoRequest
      /\ \A q \in Requests \ {r} : request'[q] = request[q]
  BY RequestFacts DEF Console!PaperAuthorized, ConsoleInv, ConsoleSteps
<1>2. LockInv'
  BY <1>1, LockKept DEF Console!PaperAuthorized, Console!runtime, Console!At, ConsoleInv,
       Console!Leased, Console!NoRequest
<1>3. RunInv'
  BY RunFrame DEF Console!PaperAuthorized, Console!runtime, ConsoleInv
<1>4. Console!NoStuckFlag'
  BY AnsweredKeepsFlags DEF Console!PaperAuthorized, ConsoleInv
<1>. QED BY <1>1, <1>2, <1>3, <1>4 DEF ConsoleInv

LEMMA ModeSetStep ==
  ASSUME ConsoleInv, NEW r \in Requests, Console!ModeSet(r)
  PROVE  ConsoleInv'
<1>1. /\ RequestType' /\ request'[r] = Console!NoRequest
      /\ \A q \in Requests \ {r} : request'[q] = request[q]
  BY RequestFacts DEF Console!ModeSet, ConsoleInv, ConsoleSteps
<1>2. LockInv'
  BY <1>1, LockReleased DEF Console!ModeSet, Console!At, ConsoleInv, Console!Leased,
       Console!NoRequest
<1>3. RunInv'
  BY RunFrame DEF Console!ModeSet, Console!runtime, ConsoleInv
<1>4. Console!NoStuckFlag'
  BY AnsweredKeepsFlags DEF Console!ModeSet, ConsoleInv
<1>. QED BY <1>1, <1>2, <1>3, <1>4 DEF ConsoleInv

LEMMA SecretStoppedStep ==
  ASSUME ConsoleInv, NEW r \in Requests, Console!SecretStopped(r)
  PROVE  ConsoleInv'
<1>0. request[r] # Console!NoRequest
  BY DEF Console!SecretStopped, Console!At, Console!NoRequest
<1>1. /\ RequestType' /\ request'[r] # Console!NoRequest
      /\ request'[r].kind = request[r].kind /\ request'[r].step = "body"
      /\ \A q \in Requests \ {r} : request'[q] = request[q]
  BY <1>0, RequestFacts DEF Console!SecretStopped, ConsoleInv, ConsoleSteps
<1>2. LockInv'
  BY <1>1, LockKept DEF Console!SecretStopped, Console!runtime, Console!At, ConsoleInv,
       Console!Leased, Console!NoRequest
<1>3. RunInv'
  BY RunFrame DEF Console!SecretStopped, Console!runtime, ConsoleInv
<1>4. Console!NoStuckFlag'
  BY <1>0, GoKeepsFlags DEF Console!SecretStopped, Console!At, ConsoleInv, ConsoleSteps
<1>. QED BY <1>1, <1>2, <1>3, <1>4 DEF ConsoleInv

LEMMA ReplaceSecretStep ==
  ASSUME ConsoleInv, NEW r \in Requests, Console!ReplaceSecret(r)
  PROVE  ConsoleInv'
<1>1. /\ RequestType' /\ request'[r] = Console!NoRequest
      /\ \A q \in Requests \ {r} : request'[q] = request[q]
  BY RequestFacts DEF Console!ReplaceSecret, ConsoleInv, ConsoleSteps
<1>2. LockInv'
  BY <1>1, LockKept DEF Console!ReplaceSecret, Console!runtime, Console!At, ConsoleInv,
       Console!Leased, Console!NoRequest
<1>3. RunInv'
  BY StoredKeepsRun DEF Console!ReplaceSecret, ConsoleInv
<1>4. Console!NoStuckFlag'
  BY AnsweredKeepsFlags DEF Console!ReplaceSecret, ConsoleInv
<1>. QED BY <1>1, <1>2, <1>3, <1>4 DEF ConsoleInv

LEMMA RefusedStep ==
  ASSUME ConsoleInv, NEW r \in Requests, Console!Refused(r)
  PROVE  ConsoleInv'
<1>1. /\ RequestType' /\ request'[r] = Console!NoRequest
      /\ \A q \in Requests \ {r} : request'[q] = request[q]
  BY RequestFacts DEF Console!Refused, ConsoleInv, ConsoleSteps
<1>2. LockInv'
  <2>1. CASE Console!Leased(r)
    BY <2>1, <1>1, LockReleased DEF Console!Refused, ConsoleInv, Console!Leased,
         Console!NoRequest
  <2>2. CASE ~Console!Leased(r)
    BY <2>2, <1>1, LockKept DEF Console!Refused, ConsoleInv, Console!Leased,
         Console!NoRequest
  <2>. QED BY <2>1, <2>2
<1>3. RunInv'
  BY RunFrame DEF Console!Refused, ConsoleInv
<1>4. Console!NoStuckFlag'
  BY AnsweredKeepsFlags DEF Console!Refused, ConsoleInv
<1>. QED BY <1>1, <1>2, <1>3, <1>4 DEF ConsoleInv

\* What stops the runtime, or ends it, frees the lock of its host only.
LEMMA HostLockFreed ==
  ASSUME LockInv, runtime' = "down", Console!Released("host"),
         \A r \in Requests : Console!Leased(r)' => Console!Leased(r)
  PROVE  LockInv'
BY DEF LockInv, Console!Released, Console!Leased

LEMMA PaperRevokedStep ==
  ASSUME ConsoleInv, NEW r \in Requests, Console!PaperRevoked(r)
  PROVE  ConsoleInv'
<1>0. request[r] # Console!NoRequest
  BY DEF Console!PaperRevoked, Console!At, Console!NoRequest
<1>1. CASE Console!Answered(r)
  <2>1. /\ RequestType' /\ request'[r] = Console!NoRequest
        /\ \A q \in Requests \ {r} : request'[q] = request[q]
    BY <1>1, RequestFacts DEF ConsoleInv, ConsoleSteps
  <2>2. LockInv'
    BY <2>1, LockKept DEF Console!PaperRevoked, Console!runtime, ConsoleInv,
         Console!Leased, Console!NoRequest
  <2>3. RunInv'
    BY RunFrame DEF Console!PaperRevoked, Console!runtime, ConsoleInv
  <2>4. Console!NoStuckFlag'
    BY <1>1, AnsweredKeepsFlags DEF ConsoleInv
  <2>. QED BY <2>1, <2>2, <2>3, <2>4 DEF ConsoleInv
<1>2. CASE Console!Go(r, "stop") /\ UNCHANGED flags
  <2>1. /\ RequestType' /\ request'[r].kind = request[r].kind
        /\ \A q \in Requests \ {r} : request'[q] = request[q]
    BY <1>0, <1>2, RequestFacts DEF ConsoleInv, ConsoleSteps
  <2>2. LockInv'
    BY <2>1, LockKept DEF Console!PaperRevoked, Console!At, Console!runtime, ConsoleInv,
         Console!Leased
  <2>3. RunInv'
    BY RunFrame DEF Console!PaperRevoked, Console!runtime, ConsoleInv
  <2>4. Console!NoStuckFlag'
    BY <1>0, <1>2, GoKeepsFlags DEF ConsoleInv, ConsoleSteps
  <2>. QED BY <2>1, <2>2, <2>3, <2>4 DEF ConsoleInv
<1>. QED BY <1>1, <1>2 DEF Console!PaperRevoked

LEMMA PaperStopsStep ==
  ASSUME ConsoleInv, NEW r \in Requests, Console!PaperStops(r)
  PROVE  ConsoleInv'
<1>1. /\ RequestType' /\ request'[r] = Console!NoRequest
      /\ \A q \in Requests \ {r} : request'[q] = request[q]
  BY RequestFacts DEF Console!PaperStops, ConsoleInv, ConsoleSteps
<1>2. LockInv'
  BY <1>1, HostLockFreed DEF Console!PaperStops, Console!Stopped,
       Console!EndsInOrder, ConsoleInv, Console!Leased, Console!NoRequest
<1>3. RunInv'
  BY EndsKeepsRun DEF Console!PaperStops, Console!Stopped, ConsoleInv
<1>4. Console!NoStuckFlag'
  BY AnsweredKeepsFlags DEF Console!PaperStops, ConsoleInv
<1>. QED BY <1>1, <1>2, <1>3, <1>4 DEF ConsoleInv

--------------------------------------------------------------------------------
\* The runtime's processes, lifecycle operations, and a console that dies.
LEMMA BootStep ==
  ASSUME ConsoleInv, Console!Boot
  PROVE  ConsoleInv'
<1>0. hosts + 1 \in Console!Hosts /\ runtime = "down"
  BY ConsoleBounds DEF Console!Boot, ConsoleInv, RunInv, StartType, Console!Hosts,
       Console!ConsoleAssumption
<1>1. LockInv'
  BY DEF Console!Boot, ConsoleInv, LockInv, Console!Leased
<1>2. /\ loaded' \in [Console!Hosts -> SUBSET {"models"}] /\ "models" \in loaded'[hosts + 1]
      /\ \A h \in 1..hosts : loaded'[h] = loaded[h]
  <2>1. \A h \in 1..hosts : h \in Console!Hosts /\ h # hosts + 1
    BY ConsoleBounds DEF ConsoleInv, RunInv, StartType, Console!Hosts,
         Console!ConsoleAssumption
  <2>2. loaded' = [loaded EXCEPT ![hosts + 1] = {"models"}]
    BY DEF Console!Boot
  <2>3. loaded \in [Console!Hosts -> SUBSET {"models"}] /\ {"models"} \in SUBSET {"models"}
    BY DEF ConsoleInv, RunInv, StartType
  <2>4. loaded'[hosts + 1] = {"models"} /\ \A h \in 1..hosts : loaded'[h] = loaded[h]
    BY <1>0, <2>1, <2>2, <2>3
  <2>5. loaded' \in [Console!Hosts -> SUBSET {"models"}]
    BY <2>2, <2>3
  <2>. QED BY <2>4, <2>5
<1>3. StartType'
  BY <1>0, <1>2, ConsoleBounds DEF Console!Boot, Console!ConsoleAssumption, ConsoleInv, RunInv,
       StartType
<1>4. RunInv'
  BY <1>0, <1>2, <1>3 DEF Console!Boot, ConsoleInv, RunInv, StartType,
       Console!RuntimeAsConfigured
<1>. QED BY <1>1, <1>4, FlagFrame DEF Console!Boot, ConsoleInv, RequestType

\* The host that runs, and the supervisors and children of any start.
LEMMA OfStartStep ==
  ASSUME ConsoleInv,
         \/ Console!Up \/ Console!HostDies
         \/ \E h \in Console!Hosts : Console!OfStart(h)
  PROVE  ConsoleInv'
<1>1. UNCHANGED <<flags, request>>
  BY DEF Console!Up, Console!HostDies, Console!OfStart, Console!ChildStarts,
       Console!FileWritten, Console!SupervisorDies, Console!ChildEnds
<1>2. LockInv'
  <2>1. CASE Console!HostDies
    BY <1>1, <2>1, HostLockFreed DEF Console!HostDies, Console!Leased, ConsoleInv
  <2>2. CASE Console!Up
    BY <2>2 DEF Console!Up, ConsoleInv, LockInv, Console!Leased
  <2>3. ASSUME NEW h \in Console!Hosts, Console!OfStart(h) PROVE UNCHANGED <<hostLock, runtime>>
    BY <2>3 DEF Console!OfStart, Console!ChildStarts, Console!FileWritten,
         Console!SupervisorDies, Console!ChildEnds
  <2>. QED BY <1>1, <2>1, <2>2, <2>3, LockFrame DEF ConsoleInv
<1>3. RunInv'
  <2>1. CASE Console!HostDies
    BY <2>1 DEF Console!HostDies, ConsoleInv, RunInv, StartType, Console!RuntimeAsConfigured
  <2>2. CASE Console!Up
    BY <2>2 DEF Console!Up, ConsoleInv, RunInv, StartType, Console!RuntimeAsConfigured
  <2>3. ASSUME NEW h \in Console!Hosts, Console!ChildStarts(h) PROVE RunInv'
    BY <2>3 DEF Console!ChildStarts, ConsoleInv, RunInv, StartType,
         Console!RuntimeAsConfigured
  <2>4. ASSUME NEW h \in Console!Hosts, Console!FileWritten(h) PROVE RunInv'
    BY <2>4 DEF Console!FileWritten, Console!Nobody, ConsoleInv, RunInv, StartType,
         Console!RuntimeAsConfigured
  <2>5. ASSUME NEW h \in Console!Hosts, Console!SupervisorDies(h) \/ Console!ChildEnds(h)
        PROVE  RunInv'
    BY <2>5 DEF Console!SupervisorDies, Console!ChildEnds, ConsoleInv, RunInv, StartType,
         Console!RuntimeAsConfigured
  <2>. QED BY <2>1, <2>2, <2>3, <2>4, <2>5 DEF Console!OfStart
<1>. QED BY <1>1, <1>2, <1>3, FlagFrame DEF ConsoleInv, RequestType

LEMMA ConsoleNext == ConsoleInv /\ [Console!Next]_Console!vars => ConsoleInv'
<1>. SUFFICES ASSUME ConsoleInv, [Console!Next]_Console!vars PROVE ConsoleInv'
  OBVIOUS
<1>0. RequestType /\ LockInv /\ RunInv /\ Console!NoStuckFlag
  BY DEF ConsoleInv
<1>1. ASSUME NEW r \in Requests, Console!Handle(r) PROVE ConsoleInv'
  BY <1>1, EnterStep, WorkStep, RefusedStep, TakeLeaseStep, SaveModelsStep,
       SelectRouteStep, SelectionAnsweredStep, PaperBodyStep, PaperStoppedStep,
       PaperRouteFreeStep, PaperAuthorizedStep, ModeSetStep, PaperRevokedStep,
       PaperStopsStep, SecretStoppedStep, ReplaceSecretStep DEF Console!Handle,
       Console!Models, Console!Route, Console!Paper, Console!Secret
<1>2. CASE \/ Console!Poll \/ Console!OperationDone
           \/ \E action \in Console!Actions : Console!Accept(action)
           \/ UNCHANGED Console!vars
  <2>1. UNCHANGED <<flags, Console!runtime, request>>
    BY <1>2 DEF Console!Poll, Console!OperationDone, Console!Accept, Console!vars
  <2>2. LockInv' /\ RunInv'
    BY <1>0, <2>1, LockFrame, RunFrame DEF Console!runtime, Console!processes
  <2>. QED BY <1>0, <2>1, <2>2, FlagFrame DEF ConsoleInv, RequestType
<1>3. CASE Console!StopService \/ Console!HostEnds
  <2>1. UNCHANGED <<flags, request>> /\ Console!EndsInOrder
    BY <1>3 DEF Console!StopService, Console!HostEnds, Console!Stopped
  <2>2. LockInv'
    BY <1>0, <2>1, HostLockFreed DEF Console!EndsInOrder, Console!Leased
  <2>. QED BY <1>0, <2>1, <2>2, FlagFrame, EndsKeepsRun DEF ConsoleInv, RequestType
<1>4. CASE Console!Boot
  BY <1>4, BootStep
<1>5. CASE Console!Up \/ Console!HostDies \/ \E h \in Console!Hosts : Console!OfStart(h)
  BY <1>5, OfStartStep
<1>6. CASE Console!RouteSelected
  <2>1. RunInv'
    BY <1>0, <1>6, RunFrame, StoredKeepsRun DEF Console!RouteSelected
  <2>2. LockInv'
    BY <1>0, <1>6, LockFrame DEF Console!RouteSelected, Console!processes
  <2>. QED BY <1>0, <1>6, <2>1, <2>2, FlagFrame DEF Console!RouteSelected, ConsoleInv,
       RequestType
<1>7. CASE Console!ConsoleDies
  <2>1. RequestType' /\ \A r \in Requests : request'[r].kind = "none"
    BY <1>7 DEF Console!ConsoleDies, RequestType, Console!NoRequest, ConsoleSteps
  <2>2. LockInv'
    BY <1>0, <1>7, <2>1 DEF Console!ConsoleDies, Console!processes, LockInv, Console!Leased,
         Console!Released
  <2>3. RunInv'
    BY <1>0, <1>7, RunFrame DEF Console!ConsoleDies
  <2>4. Console!NoStuckFlag'
    BY <1>7 DEF Console!ConsoleDies, Console!NoStuckFlag
  <2>. QED BY <2>1, <2>2, <2>3, <2>4 DEF ConsoleInv
<1>. QED BY <1>1, <1>2, <1>3, <1>4, <1>5, <1>6, <1>7 DEF Console!Next, Console!Lifecycle,
     Console!Process

--------------------------------------------------------------------------------
\* The service supervisor
\* Whoever lives is looked after; what a supervisor has is a child, and one that
\* has none says so; of a start that was not made there is nothing.
ProcessInv ==
  /\ Service!NoneForgotten
  /\ \A s \in Service!Starts :
       /\ sup[s] \in {"named", "await", "monitor", "terminate"} => child[s] \in Service!Children
       /\ sup[s] \in {"down", "spawn", "backoff"} => child[s] = Service!None
       /\ s > starts => sup[s] = "down" /\ ~told[s]
  /\ host = "running" => starts \in Service!Starts

\* As long as nothing is killed from outside and no stop gives up, only the last
\* supervisor has anything left: what lives is its child, which the file names as
\* soon as it is written.
LastOnly ==
  /\ \A s \in Service!Starts : s # starts => Service!Over(s)
  /\ \A c \in Service!Children : Service!Alive(c) =>
       starts \in Service!Starts /\ child[starts] = c
       /\ (file.child = c \/ sup[starts] = "named")
  /\ host = "down" \/ stopping = "done" => \A c \in Service!Children : ~Service!Alive(c)

\* That supervisor is over when its host is, was killed by nobody but its host,
\* and knows of the abort when it names a child, which it has done by the time
\* the host kills it.
Obedient ==
  /\ starts \in Service!Starts =>
       /\ host # "running" => Service!Over(starts)
       /\ host = "running" /\ abort = Service!Off => sup[starts] # "killed"
       /\ sup[starts] = "named" => abort \in {0, Service!Off}
       /\ host = "running" /\ ~Service!Over(starts) => (told[starts] <=> abort # Service!Off)
  /\ stopping = "done" => host = "stopped"
  /\ stopping # "failed"
  /\ host = "running" /\ stopping = "no" => abort = Service!Off

QuietInv == ~disturbed => LastOnly /\ Obedient

\* A timer that runs while its child is watched has run no longer than the last
\* probe that cleared it is ago; none runs before the first probe of a child.
TimerInv ==
  \A s \in Service!Starts :
    /\ sup[s] = "monitor" /\ unhealthy[s] # Service!Off => sinceReady[s] >= unhealthy[s]
    /\ sup[s] = "monitor" /\ unresponsive[s] # Service!Off => sinceLive[s] >= unresponsive[s]
    /\ sup[s] \notin {"monitor", "terminate"} =>
         unhealthy[s] = Service!Off /\ unresponsive[s] = Service!Off

ServiceInv == Service!TypeOK /\ ProcessInv /\ QuietInv /\ TimerInv /\ Service!WatchdogJust

LEMMA LaterFacts ==
  ASSUME Service!SupervisorAssumption
  PROVE  /\ 0 \in Service!Timers /\ Service!Off \in Service!Timers
         /\ Service!Off \in Nat /\ Service!Off # 0 /\ Service!Later(Service!Off) = Service!Off
         /\ \A t \in Service!Timers : /\ t \in Nat /\ Service!Later(t) \in Service!Timers
                                      /\ Service!Later(t) >= t
                                      /\ Service!Later(t) = Service!Off => t = Service!Off
         /\ \A s, t \in Service!Timers : s >= t => Service!Later(s) >= Service!Later(t)
<1>1. Service!Longest \in Nat
  BY DEF Service!SupervisorAssumption, Service!Longest, Service!Longer
<1>. QED BY <1>1 DEF Service!Timers, Service!Off, Service!Later

\* Supervisors, their steps and reasons, and what the file says.
Steps == {"down", "spawn", "named", "await", "monitor", "terminate", "backoff", "killed"}
Reasons == {"none", "startup_timeout", "liveness_timeout", "readiness_timeout", "stopped",
            "unexpected_exit"}
Files == [state : {"stopped", "starting", "running", "degraded", "backoff"},
          child : Service!Children \cup {Service!None}]

\* Nothing begins to live but by a spawn: steps that leave the supervisors as they are.
LEMMA FewerAlive ==
  ASSUME ProcessInv, QuietInv,
         UNCHANGED <<host, abort, starts, stopping, sup, told, child, file, disturbed>>,
         \A c \in Service!Children : Service!Alive(c)' => Service!Alive(c)
  PROVE  ProcessInv' /\ QuietInv'
<1>1. ProcessInv'
  BY DEF ProcessInv, Service!NoneForgotten, Service!LookedAfter
<1>2. LastOnly => LastOnly'
  BY DEF LastOnly, Service!Over
<1>3. Obedient => Obedient'
  BY DEF Obedient, Service!Over, Service!Off, Service!Longest
<1>. QED BY <1>1, <1>2, <1>3 DEF QuietInv

\* Steps that leave the timers as they are, and do not begin to watch a child or
\* end one for its health.
LEMMA TimerFrame ==
  ASSUME TimerInv, Service!WatchdogJust,
         UNCHANGED <<unhealthy, unresponsive, sinceReady, sinceLive>>,
         \A s \in Service!Starts :
           \/ sup'[s] = sup[s] /\ reason'[s] = reason[s]
           \/ sup'[s] = "terminate" /\ reason'[s] \notin {"readiness_timeout", "liveness_timeout"}
           \/ sup'[s] \notin {"monitor", "terminate"} /\ sup[s] \notin {"monitor", "terminate"}
  PROVE  TimerInv' /\ Service!WatchdogJust'
BY DEF TimerInv, Service!WatchdogJust, Service!Off, Service!Longest

\* The supervisor of a start ends its child: only its step, its reason and the
\* timer of the end change, and nothing begins to live.
LEMMA TerminateFacts ==
  ASSUME Service!SupervisorAssumption, Service!TypeOK, NEW s \in Service!Starts,
         NEW why \in Reasons, child[s] \in Service!Children, Service!Terminate(s, why)
  PROVE  /\ process' \in [Service!Children -> {"none", "starting", "up", "ending", "dead"}]
         /\ server' \in [Service!Children -> {"none", "up", "stuck"}]
         /\ sup' \in [Service!Starts -> Steps] /\ reason' \in [Service!Starts -> Reasons]
         /\ terminating' \in [Service!Starts -> Service!Timers]
         /\ sup'[s] = "terminate" /\ reason'[s] = why
         /\ \A t \in Service!Starts \ {s} : sup'[t] = sup[t] /\ reason'[t] = reason[t]
         /\ \A c \in Service!Children : Service!Alive(c)' => Service!Alive(c)
<1>1. /\ process' \in [Service!Children -> {"none", "starting", "up", "ending", "dead"}]
      /\ server' \in [Service!Children -> {"none", "up", "stuck"}]
      /\ \A c \in Service!Children : Service!Alive(c)' => Service!Alive(c)
  <2>1. CASE Service!Alive(child[s])
    BY <2>1 DEF Service!Terminate, Service!TypeOK, Service!Alive
  <2>2. CASE ~Service!Alive(child[s])
    BY <2>2 DEF Service!Terminate, Service!TypeOK, Service!Alive
  <2>. QED BY <2>1, <2>2
<1>2. /\ sup \in [Service!Starts -> Steps] /\ reason \in [Service!Starts -> Reasons]
      /\ terminating \in [Service!Starts -> Service!Timers] /\ "terminate" \in Steps
      /\ 0 \in Service!Timers
  BY LaterFacts DEF Service!TypeOK, Steps, Reasons
<1>3. /\ sup' = [sup EXCEPT ![s] = "terminate"] /\ reason' = [reason EXCEPT ![s] = why]
      /\ terminating' = [terminating EXCEPT ![s] = 0]
  BY DEF Service!Terminate, Service!Goes
<1>. QED BY <1>1, <1>2, <1>3

\* A killed supervisor knows nothing more.
LEMMA SlainFacts ==
  ASSUME Service!SupervisorAssumption, Service!TypeOK, TimerInv, Service!WatchdogJust,
         NEW s \in Service!Starts, Service!Slain(s)
  PROVE  /\ sup' \in [Service!Starts -> Steps] /\ reason' \in [Service!Starts -> Reasons]
         /\ told' \in [Service!Starts -> BOOLEAN] /\ probed' \in [Service!Starts -> BOOLEAN]
         /\ unhealthy' \in [Service!Starts -> Service!Timers]
         /\ unresponsive' \in [Service!Starts -> Service!Timers]
         /\ terminating' \in [Service!Starts -> Service!Timers]
         /\ sinceReady' \in [Service!Starts -> Service!Timers]
         /\ sinceLive' \in [Service!Starts -> Service!Timers]
         /\ sup'[s] = "killed" /\ ~told'[s]
         /\ \A t \in Service!Starts \ {s} : sup'[t] = sup[t] /\ told'[t] = told[t]
         /\ TimerInv' /\ Service!WatchdogJust'
<1>1. /\ sup \in [Service!Starts -> Steps] /\ reason \in [Service!Starts -> Reasons]
      /\ told \in [Service!Starts -> BOOLEAN] /\ probed \in [Service!Starts -> BOOLEAN]
      /\ unhealthy \in [Service!Starts -> Service!Timers]
      /\ unresponsive \in [Service!Starts -> Service!Timers]
      /\ terminating \in [Service!Starts -> Service!Timers]
      /\ sinceReady \in [Service!Starts -> Service!Timers]
      /\ sinceLive \in [Service!Starts -> Service!Timers]
  BY DEF Service!TypeOK, Steps, Reasons
<1>2. "killed" \in Steps /\ "none" \in Reasons /\ {0, Service!Off} \subseteq Service!Timers
  BY LaterFacts DEF Steps, Reasons
<1>3. /\ sup' = [sup EXCEPT ![s] = "killed"] /\ reason' = [reason EXCEPT ![s] = "none"]
      /\ told' = [told EXCEPT ![s] = FALSE] /\ probed' = [probed EXCEPT ![s] = FALSE]
      /\ unhealthy' = [unhealthy EXCEPT ![s] = Service!Off]
      /\ unresponsive' = [unresponsive EXCEPT ![s] = Service!Off]
      /\ terminating' = [terminating EXCEPT ![s] = Service!Off]
      /\ sinceReady' = [sinceReady EXCEPT ![s] = 0] /\ sinceLive' = [sinceLive EXCEPT ![s] = 0]
  BY DEF Service!Slain, Service!Goes
<1>4. TimerInv' /\ Service!WatchdogJust'
  BY <1>1, <1>3 DEF TimerInv, Service!WatchdogJust, Service!Off, Service!Longest
<1>. QED BY <1>1, <1>2, <1>3, <1>4

\* Whoever it leaves is its last child.
LEMMA KilledKeepsProcesses ==
  ASSUME ProcessInv, NEW s \in Service!Starts, ~Service!Over(s), sup'[s] = "killed", ~told'[s],
         \A t \in Service!Starts \ {s} : sup'[t] = sup[t] /\ told'[t] = told[t],
         UNCHANGED <<host, starts, child, process>>
  PROVE  ProcessInv'
<1>1. ~(s > starts)
  BY DEF ProcessInv, Service!Over
<1>2. Service!NoneForgotten'
  <2>. SUFFICES ASSUME NEW c \in Service!Children, Service!Alive(c) PROVE Service!LookedAfter(c)'
    BY DEF Service!NoneForgotten, Service!Alive
  <2>1. PICK t \in Service!Starts :
          child[t] = c /\ sup[t] \in {"named", "await", "monitor", "terminate", "killed"}
    BY DEF ProcessInv, Service!NoneForgotten, Service!LookedAfter
  <2>. QED BY <2>1 DEF Service!LookedAfter
<1>. QED BY <1>1, <1>2 DEF ProcessInv

--------------------------------------------------------------------------------
LEMMA ServiceInit == Service!SupervisorAssumption /\ Service!Init => ServiceInv
<1>. SUFFICES ASSUME Service!SupervisorAssumption, Service!Init PROVE ServiceInv
  OBVIOUS
<1>1. Service!TypeOK
  <2>1. file \in Files
    BY DEF Service!Init, Service!Idle, Files
  <2>2. count \in 0..MaxChildren /\ starts \in 0..MaxStarts
    BY DEF Service!Init, Service!SupervisorAssumption
  <2>. QED BY <2>1, <2>2, LaterFacts DEF Service!Init, Service!TypeOK, Files
<1>2. \A c \in Service!Children : ~Service!Alive(c)
  BY DEF Service!Init, Service!Alive
<1>3. ProcessInv
  BY <1>2 DEF Service!Init, ProcessInv, Service!NoneForgotten
<1>4. QuietInv
  BY <1>2 DEF Service!Init, QuietInv, LastOnly, Obedient, Service!Over, Service!Starts
<1>5. TimerInv /\ Service!WatchdogJust
  BY DEF Service!Init, TimerInv, Service!WatchdogJust
<1>. QED BY <1>1, <1>3, <1>4, <1>5 DEF ServiceInv

--------------------------------------------------------------------------------
\* Every step of the host and of the operator keeps the invariant.

LEMMA StartHostStep ==
  ASSUME Service!SupervisorAssumption, ServiceInv, Service!StartHost
  PROVE  ServiceInv'
<1>0. /\ starts + 1 \in Service!Starts /\ starts' = starts + 1 /\ starts \in Nat
      /\ sup' = [sup EXCEPT ![starts + 1] = "spawn"] /\ sup \in [Service!Starts -> Steps]
      /\ child[starts + 1] = Service!None /\ ~told[starts + 1]
  BY DEF Service!StartHost, Service!Goes, Service!SupervisorAssumption, ServiceInv,
         Service!TypeOK, ProcessInv, Service!Starts, Steps
<1>1. Service!TypeOK'
  <2>1. sup' \in [Service!Starts -> Steps] /\ starts' \in 0..MaxStarts
    BY <1>0 DEF Service!Starts, Steps
  <2>. QED BY <2>1, LaterFacts DEF Service!StartHost, ServiceInv, Service!TypeOK, Steps,
       Service!timers, Service!childVars, Service!health, Service!since
<1>2. ProcessInv'
  <2>1. \A s \in Service!Starts : s # starts + 1 => sup'[s] = sup[s]
    BY <1>0
  <2>2. Service!NoneForgotten'
    BY <1>0, <2>1 DEF Service!StartHost, Service!childVars, ServiceInv, ProcessInv,
         Service!NoneForgotten, Service!LookedAfter, Service!Alive, Service!None
  <2>3. \A s \in Service!Starts : s > starts + 1 => s > starts /\ s # starts + 1
    BY <1>0 DEF Service!Starts
  <2>4. sup'[starts + 1] = "spawn" /\ ~(starts + 1 > starts + 1)
    BY <1>0
  <2>. QED BY <1>0, <2>1, <2>2, <2>3, <2>4 DEF Service!StartHost, ServiceInv, ProcessInv
<1>3. QuietInv'
  <2>. SUFFICES ASSUME ~disturbed PROVE LastOnly' /\ Obedient'
    BY DEF Service!StartHost, QuietInv
  <2>1. LastOnly /\ Obedient
    BY DEF ServiceInv, QuietInv
  <2>2. \A s \in Service!Starts : Service!Over(s)
    BY <2>1 DEF Service!StartHost, LastOnly, Obedient
  <2>3. \A c \in Service!Children : ~Service!Alive(c)'
    BY <2>1 DEF Service!StartHost, Service!childVars, LastOnly, Service!Alive
  <2>4. LastOnly'
    BY <1>0, <2>2, <2>3 DEF LastOnly, Service!Over
  <2>5. Obedient'
    BY <1>0, <2>1 DEF Service!StartHost, Obedient, Service!Over, Service!Off,
         Service!Longest
  <2>. QED BY <2>4, <2>5
<1>4. TimerInv' /\ Service!WatchdogJust'
  <2>1. sup[starts + 1] = "down"
    BY <1>0 DEF ServiceInv, ProcessInv
  <2>. QED BY <1>0, <2>1, TimerFrame DEF Service!StartHost, Service!timers, Service!since,
       ServiceInv
<1>. QED BY <1>1, <1>2, <1>3, <1>4 DEF ServiceInv

LEMMA StartAgainStep ==
  ASSUME Service!SupervisorAssumption, ServiceInv, Service!StartAgain
  PROVE  ServiceInv'
<1>1. Service!TypeOK'
  BY DEF Service!StartAgain, ServiceInv, Service!TypeOK, Service!supVars, Service!timers,
         Service!childVars, Service!health, Service!since
<1>2. ProcessInv'
  BY DEF Service!StartAgain, ServiceInv, ProcessInv, Service!NoneForgotten,
         Service!LookedAfter, Service!Alive, Service!supVars, Service!childVars
<1>3. QuietInv'
  BY DEF Service!StartAgain, ServiceInv, QuietInv, LastOnly, Obedient, Service!Alive,
         Service!Over, Service!supVars, Service!childVars, Service!Off, Service!Longest
<1>4. TimerInv' /\ Service!WatchdogJust'
  BY TimerFrame DEF Service!StartAgain, ServiceInv, Service!supVars, Service!timers,
         Service!since
<1>. QED BY <1>1, <1>2, <1>3, <1>4 DEF ServiceInv

LEMMA StopServiceStep ==
  ASSUME Service!SupervisorAssumption, ServiceInv, Service!StopService
  PROVE  ServiceInv'
<1>0. /\ starts \in Service!Starts /\ told \in [Service!Starts -> BOOLEAN]
      /\ told' \in [Service!Starts -> BOOLEAN]
      /\ \A s \in Service!Starts : s # starts => told'[s] = told[s]
      /\ host = "running" => abort' = 0 /\ told'[starts] = ~Service!Over(starts)
      /\ host # "running" => UNCHANGED <<abort, told>>
  <2>1. starts \in Service!Starts
    BY DEF Service!StopService, Service!SupervisorAssumption, ServiceInv, Service!TypeOK,
           Service!Starts
  <2>2. told \in [Service!Starts -> BOOLEAN] /\ Service!Over(starts) \in BOOLEAN
    BY DEF ServiceInv, Service!TypeOK, Service!Over
  <2>3. CASE host = "running"
    BY <2>1, <2>2, <2>3 DEF Service!StopService
  <2>4. CASE host # "running"
    BY <2>1, <2>2, <2>4 DEF Service!StopService
  <2>. QED BY <2>3, <2>4
<1>1. Service!TypeOK'
  <2>1. host' \in {"down", "running", "stopped"} /\ abort' \in Service!Timers
    BY LaterFacts DEF Service!StopService, ServiceInv, Service!TypeOK
  <2>. QED BY <1>0, <2>1 DEF Service!StopService, ServiceInv, Service!TypeOK, Service!timers,
       Service!childVars, Service!health, Service!since
<1>2. ProcessInv'
  <2>1. Service!NoneForgotten'
    BY DEF Service!StopService, ServiceInv, ProcessInv, Service!NoneForgotten,
           Service!LookedAfter, Service!Alive, Service!childVars
  <2>2. ~(starts > starts)
    BY <1>0 DEF Service!Starts
  <2>. QED BY <1>0, <2>1, <2>2 DEF Service!StopService, ServiceInv, ProcessInv
<1>3. QuietInv'
  <2>1. LastOnly /\ Obedient => LastOnly'
    BY DEF Service!StopService, LastOnly, Service!Alive, Service!Over, Service!childVars
  <2>2. Obedient => Obedient'
    BY <1>0, LaterFacts DEF Service!StopService, Obedient, Service!Over, Service!Off,
         Service!Longest
  <2>. QED BY <2>1, <2>2 DEF Service!StopService, ServiceInv, QuietInv
<1>4. TimerInv' /\ Service!WatchdogJust'
  BY TimerFrame DEF Service!StopService, ServiceInv, Service!timers, Service!since
<1>. QED BY <1>1, <1>2, <1>3, <1>4 DEF ServiceInv

LEMMA HostKillsStep ==
  ASSUME Service!SupervisorAssumption, ServiceInv, Service!HostKills
  PROVE  ServiceInv'
<1>0. starts \in Service!Starts /\ Service!Slain(starts) /\ starts \in Nat
  BY DEF Service!HostKills, ServiceInv, ProcessInv, Service!Starts
<1>s. /\ sup' \in [Service!Starts -> Steps] /\ reason' \in [Service!Starts -> Reasons]
      /\ told' \in [Service!Starts -> BOOLEAN] /\ probed' \in [Service!Starts -> BOOLEAN]
      /\ unhealthy' \in [Service!Starts -> Service!Timers]
      /\ unresponsive' \in [Service!Starts -> Service!Timers]
      /\ terminating' \in [Service!Starts -> Service!Timers]
      /\ sinceReady' \in [Service!Starts -> Service!Timers]
      /\ sinceLive' \in [Service!Starts -> Service!Timers]
      /\ sup'[starts] = "killed" /\ ~told'[starts]
      /\ \A t \in Service!Starts \ {starts} : sup'[t] = sup[t] /\ told'[t] = told[t]
      /\ TimerInv' /\ Service!WatchdogJust'
  BY <1>0, SlainFacts DEF ServiceInv
<1>1. Service!TypeOK'
  BY <1>s DEF Service!HostKills, ServiceInv, Service!TypeOK, Service!hostVars,
       Service!childVars, Service!health, Steps, Reasons
<1>2. ProcessInv'
  BY <1>0, <1>s, KilledKeepsProcesses DEF Service!HostKills, Service!hostVars,
       Service!childVars, ServiceInv
<1>3. QuietInv'
  <2>. SUFFICES ASSUME ~disturbed PROVE LastOnly' /\ Obedient'
    BY DEF Service!HostKills, QuietInv
  <2>1. LastOnly /\ Obedient /\ abort # Service!Off /\ abort # 0
    BY <1>0 DEF ServiceInv, QuietInv, Service!HostKills, Service!Past,
         Service!SupervisorAssumption
  <2>2. LastOnly'
    BY <1>0, <1>s, <2>1 DEF Service!HostKills, LastOnly, Obedient, Service!Alive,
         Service!Over, Service!childVars, Service!hostVars
  <2>3. Obedient'
    BY <1>0, <1>s, <2>1 DEF Service!HostKills, Obedient, Service!Over, Service!hostVars,
         Service!Off, Service!Longest
  <2>. QED BY <2>2, <2>3
<1>. QED BY <1>s, <1>1, <1>2, <1>3 DEF ServiceInv

LEMMA HostEndsStep ==
  ASSUME Service!SupervisorAssumption, ServiceInv, Service!HostEnds
  PROVE  ServiceInv'
<1>0. starts \in Service!Starts
  BY DEF Service!HostEnds, ServiceInv, ProcessInv
<1>1. Service!TypeOK'
  BY LaterFacts DEF Service!HostEnds, ServiceInv, Service!TypeOK, Service!supVars,
       Service!timers, Service!childVars, Service!health, Service!since
<1>2. ProcessInv'
  BY DEF Service!HostEnds, ServiceInv, ProcessInv, Service!NoneForgotten,
         Service!LookedAfter, Service!Alive, Service!supVars, Service!childVars
<1>3. QuietInv'
  <2>. SUFFICES ASSUME ~disturbed PROVE LastOnly' /\ Obedient'
    BY DEF Service!HostEnds, QuietInv
  <2>1. LastOnly /\ Obedient
    BY DEF ServiceInv, QuietInv
  <2>2. abort = Service!Off => \A c \in Service!Children : ~Service!Alive(c)
    <3>1. abort = Service!Off => child[starts] = Service!None
      BY <1>0, <2>1 DEF Service!HostEnds, Service!Over, Obedient, ServiceInv, ProcessInv
    <3>. QED BY <2>1, <3>1 DEF LastOnly, Service!Alive
  <2>3. LastOnly'
    BY <2>1, <2>2 DEF Service!HostEnds, LastOnly, Obedient, Service!Alive, Service!Over,
         Service!supVars, Service!childVars
  <2>4. Obedient'
    BY <2>1 DEF Service!HostEnds, Obedient, Service!Over, Service!supVars, Service!Off,
         Service!Longest
  <2>. QED BY <2>3, <2>4
<1>4. TimerInv' /\ Service!WatchdogJust'
  BY TimerFrame DEF Service!HostEnds, ServiceInv, Service!supVars, Service!timers,
         Service!since
<1>. QED BY <1>1, <1>2, <1>3, <1>4 DEF ServiceInv

\* The host is killed, or the stop gives up: what is said of quiet times is over.
LEMMA DisturbedStep ==
  ASSUME Service!SupervisorAssumption, ServiceInv, Service!HostKilled \/ Service!StopGivesUp
  PROVE  ServiceInv'
<1>1. /\ UNCHANGED <<starts, Service!supVars, file, Service!childVars, Service!health,
                    Service!since>>
      /\ host' \in {"down", "running", "stopped"} /\ abort' \in Service!Timers
      /\ stopping' \in {"no", "waiting", "done", "failed"} /\ disturbed' = TRUE
      /\ host' = "running" => host = "running"
  BY LaterFacts DEF Service!HostKilled, Service!StopGivesUp, Service!Stops,
       Service!hostVars, ServiceInv, Service!TypeOK
<1>2. Service!TypeOK'
  BY <1>1 DEF ServiceInv, Service!TypeOK, Service!supVars, Service!timers,
       Service!childVars, Service!health, Service!since
<1>3. ProcessInv'
  BY <1>1 DEF ServiceInv, ProcessInv, Service!NoneForgotten, Service!LookedAfter,
         Service!Alive, Service!supVars, Service!childVars
<1>4. TimerInv' /\ Service!WatchdogJust'
  BY <1>1, TimerFrame DEF ServiceInv, Service!supVars, Service!timers, Service!since
<1>. QED BY <1>1, <1>2, <1>3, <1>4 DEF ServiceInv, QuietInv

LEMMA StopReturnsStep ==
  ASSUME Service!SupervisorAssumption, ServiceInv, Service!StopReturns
  PROVE  ServiceInv'
<1>0. /\ UNCHANGED <<Service!hostVars, Service!supVars, file, Service!childVars,
                    Service!health, Service!since, disturbed>>
      /\ stopping' = "done" /\ host = "stopped" /\ ~Service!Alive(file.child)
  BY DEF Service!StopReturns, Service!Stops
<1>1. Service!TypeOK'
  BY <1>0 DEF ServiceInv, Service!TypeOK, Service!hostVars, Service!supVars,
       Service!timers, Service!childVars, Service!health, Service!since
<1>2. ProcessInv'
  BY <1>0 DEF ServiceInv, ProcessInv, Service!NoneForgotten, Service!LookedAfter,
         Service!Alive, Service!hostVars, Service!supVars, Service!childVars
<1>3. QuietInv'
  <2>. SUFFICES ASSUME ~disturbed PROVE LastOnly' /\ Obedient'
    BY <1>0 DEF QuietInv
  <2>1. LastOnly /\ Obedient
    BY DEF ServiceInv, QuietInv
  <2>2. \A c \in Service!Children : ~Service!Alive(c)
    BY <1>0, <2>1 DEF LastOnly, Obedient, Service!Over
  <2>3. LastOnly'
    BY <1>0, <2>1, <2>2 DEF LastOnly, Service!Alive, Service!Over, Service!hostVars,
         Service!supVars, Service!childVars
  <2>4. Obedient'
    BY <1>0, <2>1 DEF Obedient, Service!Over, Service!hostVars, Service!supVars,
         Service!Off, Service!Longest
  <2>. QED BY <2>3, <2>4
<1>4. TimerInv' /\ Service!WatchdogJust'
  BY <1>0, TimerFrame DEF ServiceInv, Service!supVars, Service!timers, Service!since
<1>. QED BY <1>1, <1>2, <1>3, <1>4 DEF ServiceInv

--------------------------------------------------------------------------------
\* Every step of a supervisor keeps it.

\* In quiet times a supervisor that is not over is the last one, of the host that
\* runs, and alone has a child.
LEMMA QuietFacts ==
  ASSUME ServiceInv, ~disturbed, NEW s \in Service!Starts, ~Service!Over(s)
  PROVE  /\ LastOnly /\ Obedient /\ s = starts /\ host = "running" /\ stopping # "done"
         /\ told[s] <=> abort # Service!Off
         /\ \A c \in Service!Children : Service!Alive(c) =>
              child[s] = c /\ (file.child = c \/ sup[s] = "named")
<1>1. LastOnly /\ Obedient
  BY DEF ServiceInv, QuietInv
<1>2. s = starts
  BY <1>1 DEF LastOnly
<1>3. host = "running" /\ stopping # "done"
  BY <1>1, <1>2 DEF Obedient
<1>4. (told[s] <=> abort # Service!Off)
  BY <1>1, <1>2, <1>3 DEF Obedient
<1>. QED BY <1>1, <1>2, <1>3, <1>4 DEF LastOnly

\* Steps of a supervisor that keep its child and its flag: what lives then did
\* before, and the file names the child as soon as it is written.
LEMMA QuietStep ==
  ASSUME ServiceInv, NEW s \in Service!Starts, ~Service!Over(s),
         UNCHANGED <<host, abort, starts, stopping, told, child, disturbed>>,
         \A c \in Service!Children : Service!Alive(c)' => Service!Alive(c),
         sup \in [Service!Starts -> Steps], NEW step \in Steps, sup' = [sup EXCEPT ![s] = step],
         step # "named", step # "killed",
         step = "down" => told[s] /\ \A c \in Service!Children : ~Service!Alive(c),
         \A c \in Service!Children : Service!Alive(c) /\ c = child[s] =>
           file'.child = c \/ (file' = file /\ sup[s] # "named")
  PROVE  QuietInv'
<1>. SUFFICES ASSUME ~disturbed PROVE LastOnly' /\ Obedient'
  BY DEF QuietInv
<1>1. /\ LastOnly /\ Obedient /\ s = starts /\ host = "running" /\ stopping # "done"
      /\ told[s] <=> abort # Service!Off
      /\ \A c \in Service!Children : Service!Alive(c) =>
           child[s] = c /\ (file.child = c \/ sup[s] = "named")
  BY QuietFacts
<1>2. sup'[s] = step /\ \A t \in Service!Starts : t # s => sup'[t] = sup[t]
  OBVIOUS
<1>3. LastOnly'
  <2>1. \A t \in Service!Starts : t # starts => Service!Over(t)'
    BY <1>1, <1>2 DEF LastOnly, Service!Over
  <2>2. \A c \in Service!Children : Service!Alive(c)' => child[s] = c /\ file'.child = c
    BY <1>1
  <2>. QED BY <1>1, <2>1, <2>2 DEF LastOnly
<1>4. Obedient'
  BY <1>1, <1>2 DEF Obedient, Service!Over, Service!Off, Service!Longest
<1>. QED BY <1>3, <1>4

\* The processes of such a step.
LEMMA ProcessStep ==
  ASSUME ServiceInv, NEW s \in Service!Starts, ~Service!Over(s),
         UNCHANGED <<host, starts, told, child>>,
         \A c \in Service!Children : Service!Alive(c)' => Service!Alive(c),
         sup \in [Service!Starts -> Steps], NEW step \in Steps, sup' = [sup EXCEPT ![s] = step],
         \/ sup[s] \in {"named", "await", "monitor", "terminate"}
            /\ step \in {"named", "await", "monitor", "terminate"}
         \/ sup[s] \in {"spawn", "backoff"} /\ step \in {"down", "spawn", "backoff"}
  PROVE  ProcessInv'
<1>1. sup'[s] = step /\ \A t \in Service!Starts : t # s => sup'[t] = sup[t]
  OBVIOUS
<1>2. ~(s > starts)
  BY DEF ServiceInv, ProcessInv, Service!Over
<1>3. Service!NoneForgotten'
  <2>. SUFFICES ASSUME NEW c \in Service!Children, Service!Alive(c) PROVE Service!LookedAfter(c)'
    BY DEF Service!NoneForgotten
  <2>1. PICK t \in Service!Starts :
          child[t] = c /\ sup[t] \in {"named", "await", "monitor", "terminate", "killed"}
    BY DEF ServiceInv, ProcessInv, Service!NoneForgotten, Service!LookedAfter
  <2>. QED BY <1>1, <2>1 DEF Service!LookedAfter
<1>. QED BY <1>1, <1>2, <1>3 DEF ServiceInv, ProcessInv

LEMMA SupTypes ==
  ASSUME ServiceInv
  PROVE  /\ sup \in [Service!Starts -> Steps] /\ reason \in [Service!Starts -> Reasons]
         /\ told \in [Service!Starts -> BOOLEAN] /\ probed \in [Service!Starts -> BOOLEAN]
         /\ child \in [Service!Starts -> Service!Children \cup {Service!None}]
         /\ unhealthy \in [Service!Starts -> Service!Timers]
         /\ unresponsive \in [Service!Starts -> Service!Timers]
         /\ terminating \in [Service!Starts -> Service!Timers]
         /\ sinceReady \in [Service!Starts -> Service!Timers]
         /\ sinceLive \in [Service!Starts -> Service!Timers]
BY DEF ServiceInv, Service!TypeOK, Steps, Reasons

LEMMA SpawnStep ==
  ASSUME Service!SupervisorAssumption, ServiceInv, NEW s \in Service!Starts, Service!Spawn(s)
  PROVE  ServiceInv'
<1>0. count + 1 \in Service!Children /\ count + 1 # Service!None /\ count + 1 \in 0..MaxChildren
  BY DEF Service!Spawn, ServiceInv, Service!TypeOK, Service!SupervisorAssumption,
       Service!Children, Service!None
<1>1. /\ sup' = [sup EXCEPT ![s] = "named"] /\ child' = [child EXCEPT ![s] = count + 1]
      /\ process' = [process EXCEPT ![count + 1] = "starting"]
      /\ sup[s] = "spawn" /\ ~told[s] /\ child[s] = Service!None /\ ~(s > starts)
      /\ UNCHANGED <<host, abort, starts, stopping, told, reason, file, disturbed>>
  BY DEF Service!Spawn, Service!Goes, ServiceInv, ProcessInv, Service!hostVars
<1>2. /\ sup'[s] = "named" /\ child'[s] = count + 1
      /\ \A t \in Service!Starts : t # s => sup'[t] = sup[t] /\ child'[t] = child[t]
      /\ sup' \in [Service!Starts -> Steps]
      /\ child' \in [Service!Starts -> Service!Children \cup {Service!None}]
  BY <1>0, <1>1, SupTypes DEF Steps
<1>3. /\ process' \in [Service!Children -> {"none", "starting", "up", "ending", "dead"}]
      /\ \A c \in Service!Children : c # count + 1 /\ Service!Alive(c)' => Service!Alive(c)
  BY <1>0, <1>1 DEF ServiceInv, Service!TypeOK, Service!Alive
<1>4. Service!TypeOK'
  BY <1>0, <1>2, <1>3 DEF Service!Spawn, ServiceInv, Service!TypeOK, Service!hostVars,
       Service!timers, Service!health, Service!since, Steps
<1>5. ProcessInv'
  <2>1. Service!NoneForgotten'
    <3>. SUFFICES ASSUME NEW c \in Service!Children, Service!Alive(c)'
                  PROVE  Service!LookedAfter(c)'
      BY DEF Service!NoneForgotten
    <3>1. CASE c = count + 1
      BY <1>2, <3>1 DEF Service!LookedAfter
    <3>2. CASE c # count + 1
      <4>1. PICK t \in Service!Starts :
              child[t] = c /\ sup[t] \in {"named", "await", "monitor", "terminate", "killed"}
        BY <1>3, <3>2 DEF ServiceInv, ProcessInv, Service!NoneForgotten, Service!LookedAfter
      <4>2. t # s
        BY <1>1, <4>1
      <4>. QED BY <1>2, <4>1, <4>2 DEF Service!LookedAfter
    <3>. QED BY <3>1, <3>2
  <2>. QED BY <1>0, <1>1, <1>2, <2>1 DEF ServiceInv, ProcessInv
<1>6. QuietInv'
  <2>. SUFFICES ASSUME ~disturbed PROVE LastOnly' /\ Obedient'
    BY <1>1 DEF QuietInv
  <2>1. /\ LastOnly /\ Obedient /\ s = starts /\ host = "running" /\ stopping # "done"
        /\ told[s] <=> abort # Service!Off
        /\ \A c \in Service!Children : Service!Alive(c) => child[s] = c
    BY <1>1, QuietFacts DEF Service!Over
  <2>2. \A c \in Service!Children : Service!Alive(c)' => c = count + 1
    <3>1. \A c \in Service!Children : c # Service!None
      BY DEF Service!Children, Service!None
    <3>. QED BY <1>1, <1>3, <2>1, <3>1
  <2>3. LastOnly'
    BY <1>1, <1>2, <2>1, <2>2 DEF LastOnly, Service!Over
  <2>4. Obedient'
    BY <1>1, <1>2, <2>1 DEF Obedient, Service!Over, Service!Off, Service!Longest
  <2>. QED BY <2>3, <2>4
<1>7. TimerInv' /\ Service!WatchdogJust'
  BY <1>1, <1>2, TimerFrame DEF Service!Spawn, ServiceInv, Service!timers, Service!since
<1>. QED BY <1>4, <1>5, <1>6, <1>7 DEF ServiceInv

LEMMA NamedStep ==
  ASSUME Service!SupervisorAssumption, ServiceInv, NEW s \in Service!Starts, Service!Named(s)
  PROVE  ServiceInv'
<1>0. /\ child[s] \in Service!Children /\ ~Service!Over(s) /\ sup[s] = "named"
      /\ sup' = [sup EXCEPT ![s] = "await"] /\ file' = [state |-> "starting", child |-> child[s]]
      /\ \A c \in Service!Children : Service!Alive(c)' => Service!Alive(c)
      /\ sup \in [Service!Starts -> Steps] /\ "await" \in Steps
  BY SupTypes DEF Service!Named, Service!Goes, Service!Write, Service!Over, Service!childVars,
       Service!Alive, ServiceInv, ProcessInv, Steps
<1>1. Service!TypeOK'
  <2>1. file' \in Files /\ sup' \in [Service!Starts -> Steps]
    BY <1>0 DEF Files
  <2>. QED BY <2>1 DEF Service!Named, ServiceInv, Service!TypeOK, Service!hostVars,
       Service!timers, Service!childVars, Service!health, Service!since, Steps, Files
<1>2. ProcessInv'
  BY <1>0, ProcessStep DEF Service!Named, Service!hostVars
<1>3. QuietInv'
  BY <1>0, QuietStep DEF Service!Named, Service!hostVars
<1>4. TimerInv' /\ Service!WatchdogJust'
  BY <1>0, TimerFrame DEF Service!Named, ServiceInv, Service!timers, Service!since
<1>. QED BY <1>1, <1>2, <1>3, <1>4 DEF ServiceInv

LEMMA SeenLiveStep ==
  ASSUME Service!SupervisorAssumption, ServiceInv, NEW s \in Service!Starts, Service!SeenLive(s)
  PROVE  ServiceInv'
<1>0. /\ child[s] \in Service!Children /\ ~Service!Over(s) /\ sup[s] = "await"
      /\ sup' = [sup EXCEPT ![s] = "monitor"]
      /\ file' = [state |-> "running", child |-> child[s]]
      /\ \A c \in Service!Children : Service!Alive(c)' => Service!Alive(c)
      /\ sup \in [Service!Starts -> Steps] /\ "monitor" \in Steps
  BY SupTypes DEF Service!SeenLive, Service!Goes, Service!Write, Service!Over,
       Service!childVars, Service!Alive, ServiceInv, ProcessInv, Steps
<1>1. Service!TypeOK'
  <2>1. file' \in Files /\ sup' \in [Service!Starts -> Steps]
    BY <1>0 DEF Files
  <2>2. /\ probed' \in [Service!Starts -> BOOLEAN]
        /\ sinceReady' \in [Service!Starts -> Service!Timers]
        /\ sinceLive' \in [Service!Starts -> Service!Timers]
    BY SupTypes, LaterFacts DEF Service!SeenLive
  <2>. QED BY <2>1, <2>2 DEF Service!SeenLive, ServiceInv, Service!TypeOK, Service!hostVars,
       Service!timers, Service!childVars, Service!health, Steps, Files
<1>2. ProcessInv'
  BY <1>0, ProcessStep DEF Service!SeenLive, Service!hostVars
<1>3. QuietInv'
  BY <1>0, QuietStep DEF Service!SeenLive, Service!hostVars
<1>4. TimerInv' /\ Service!WatchdogJust'
  <2>1. /\ unhealthy'[s] = Service!Off /\ unresponsive'[s] = Service!Off /\ sup'[s] = "monitor"
    BY <1>0 DEF Service!SeenLive, Service!timers, ServiceInv, TimerInv
  <2>2. \A t \in Service!Starts : t # s =>
          sup'[t] = sup[t] /\ sinceReady'[t] = sinceReady[t] /\ sinceLive'[t] = sinceLive[t]
    BY <1>0 DEF Service!SeenLive
  <2>. QED BY <2>1, <2>2 DEF Service!SeenLive, Service!timers, ServiceInv, TimerInv,
       Service!WatchdogJust, Service!Off, Service!Longest
<1>. QED BY <1>1, <1>2, <1>3, <1>4 DEF ServiceInv

\* A supervisor that ends its child for another reason than its health.
LEMMA TerminateStep ==
  ASSUME Service!SupervisorAssumption, ServiceInv, NEW s \in Service!Starts,
         Service!StartupFails(s) \/ Service!MonitorEnds(s)
  PROVE  ServiceInv'
<1>0. child[s] \in Service!Children /\ ~Service!Over(s) /\ sup[s] \in {"await", "monitor"}
  BY DEF Service!StartupFails, Service!MonitorEnds, Service!Over, ServiceInv, ProcessInv
<1>1. PICK why \in Reasons :
        Service!Terminate(s, why) /\ why \notin {"readiness_timeout", "liveness_timeout"}
  BY DEF Service!StartupFails, Service!MonitorEnds, Reasons
<1>2. /\ process' \in [Service!Children -> {"none", "starting", "up", "ending", "dead"}]
      /\ server' \in [Service!Children -> {"none", "up", "stuck"}]
      /\ sup' \in [Service!Starts -> Steps] /\ reason' \in [Service!Starts -> Reasons]
      /\ terminating' \in [Service!Starts -> Service!Timers]
      /\ sup'[s] = "terminate" /\ reason'[s] = why
      /\ \A t \in Service!Starts \ {s} : sup'[t] = sup[t] /\ reason'[t] = reason[t]
      /\ \A c \in Service!Children : Service!Alive(c)' => Service!Alive(c)
  BY <1>0, <1>1, TerminateFacts DEF ServiceInv
<1>3. /\ UNCHANGED <<Service!hostVars, stopping, told, child, unhealthy, unresponsive, probed,
                     file, count, deaf, Service!health, Service!since, disturbed>>
      /\ sup' = [sup EXCEPT ![s] = "terminate"] /\ sup \in [Service!Starts -> Steps]
      /\ "terminate" \in Steps
  BY <1>1, SupTypes DEF Service!StartupFails, Service!MonitorEnds, Service!Terminate,
       Service!Goes, Steps
<1>4. Service!TypeOK'
  BY <1>2, <1>3 DEF ServiceInv, Service!TypeOK, Service!hostVars, Service!health,
       Service!since, Steps, Reasons
<1>5. ProcessInv'
  BY <1>0, <1>2, <1>3, ProcessStep DEF Service!hostVars
<1>6. QuietInv'
  BY <1>0, <1>2, <1>3, QuietStep DEF Service!hostVars
<1>7. TimerInv' /\ Service!WatchdogJust'
  BY <1>1, <1>2, <1>3, TimerFrame DEF ServiceInv, Service!since
<1>. QED BY <1>4, <1>5, <1>6, <1>7 DEF ServiceInv

LEMMA EscalateStep ==
  ASSUME Service!SupervisorAssumption, ServiceInv, NEW s \in Service!Starts, Service!Escalate(s)
  PROVE  ServiceInv'
<1>1. /\ process' \in [Service!Children -> {"none", "starting", "up", "ending", "dead"}]
      /\ server' \in [Service!Children -> {"none", "up", "stuck"}]
      /\ deaf' \in [Service!Children -> BOOLEAN] /\ live' \in BOOLEAN /\ ready' \in BOOLEAN
      /\ \A c \in Service!Children : Service!Alive(c)' => Service!Alive(c)
  BY DEF Service!Escalate, Service!Falls, Service!Alive, ServiceInv, Service!TypeOK
<1>2. Service!TypeOK'
  BY <1>1 DEF Service!Escalate, ServiceInv, Service!TypeOK, Service!hostVars,
       Service!supVars, Service!timers, Service!since
<1>3. ProcessInv' /\ QuietInv'
  BY <1>1, FewerAlive DEF Service!Escalate, ServiceInv, Service!hostVars, Service!supVars
<1>4. TimerInv' /\ Service!WatchdogJust'
  BY TimerFrame DEF Service!Escalate, ServiceInv, Service!supVars, Service!timers,
       Service!since
<1>. QED BY <1>2, <1>3, <1>4 DEF ServiceInv

LEMMA ChildGoneStep ==
  ASSUME Service!SupervisorAssumption, ServiceInv, NEW s \in Service!Starts, Service!ChildGone(s)
  PROVE  ServiceInv'
<1> DEFINE step == IF told[s] THEN "down" ELSE "backoff"
<1>0. /\ sup[s] = "terminate" /\ ~Service!Alive(child[s]) /\ ~Service!Over(s)
      /\ sup' = [sup EXCEPT ![s] = step] /\ child' = [child EXCEPT ![s] = Service!None]
      /\ file' = [state |-> IF told[s] THEN "stopped" ELSE "backoff", child |-> Service!None]
      /\ UNCHANGED <<host, abort, starts, stopping, told, process, disturbed>>
      /\ step \in {"down", "backoff"} /\ ~(s > starts)
  BY DEF Service!ChildGone, Service!Reaped, Service!Goes, Service!Write, Service!Over,
       Service!hostVars, Service!childVars, ServiceInv, ProcessInv
<1>1. /\ sup'[s] = step /\ child'[s] = Service!None
      /\ \A t \in Service!Starts : t # s => sup'[t] = sup[t] /\ child'[t] = child[t]
      /\ sup' \in [Service!Starts -> Steps]
      /\ child' \in [Service!Starts -> Service!Children \cup {Service!None}]
  BY <1>0, SupTypes DEF Steps
<1>2. Service!TypeOK'
  <2>1. file' \in Files
    BY <1>0 DEF Files
  <2>2. /\ reason' \in [Service!Starts -> Reasons]
        /\ unhealthy' \in [Service!Starts -> Service!Timers]
        /\ unresponsive' \in [Service!Starts -> Service!Timers]
        /\ terminating' \in [Service!Starts -> Service!Timers]
        /\ sinceReady' \in [Service!Starts -> Service!Timers]
        /\ sinceLive' \in [Service!Starts -> Service!Timers]
    BY SupTypes, LaterFacts DEF Service!ChildGone, Reasons
  <2>. QED BY <1>1, <2>1, <2>2 DEF Service!ChildGone, ServiceInv, Service!TypeOK,
       Service!hostVars, Service!childVars, Service!health, Steps, Reasons, Files
<1>3. ProcessInv'
  <2>1. Service!NoneForgotten'
    <3>. SUFFICES ASSUME NEW c \in Service!Children, Service!Alive(c)
                  PROVE  Service!LookedAfter(c)'
      BY <1>0 DEF Service!NoneForgotten, Service!Alive
    <3>1. PICK t \in Service!Starts :
            child[t] = c /\ sup[t] \in {"named", "await", "monitor", "terminate", "killed"}
      BY DEF ServiceInv, ProcessInv, Service!NoneForgotten, Service!LookedAfter
    <3>2. t # s
      BY <1>0, <3>1
    <3>. QED BY <1>1, <3>1, <3>2 DEF Service!LookedAfter
  <2>. QED BY <1>0, <1>1, <2>1 DEF ServiceInv, ProcessInv
<1>4. QuietInv'
  <2>. SUFFICES ASSUME ~disturbed PROVE LastOnly' /\ Obedient'
    BY <1>0 DEF QuietInv
  <2>1. /\ LastOnly /\ Obedient /\ s = starts /\ host = "running" /\ stopping # "done"
        /\ told[s] <=> abort # Service!Off
        /\ \A c \in Service!Children : Service!Alive(c) => child[s] = c
    BY <1>0, QuietFacts
  <2>2. \A c \in Service!Children : ~Service!Alive(c)'
    BY <1>0, <2>1 DEF Service!Alive
  <2>3. LastOnly'
    BY <1>0, <1>1, <2>1, <2>2 DEF LastOnly, Service!Over
  <2>4. Obedient'
    BY <1>0, <1>1, <2>1 DEF Obedient, Service!Over, Service!Off, Service!Longest
  <2>. QED BY <2>3, <2>4
<1>5. TimerInv' /\ Service!WatchdogJust'
  <2>1. /\ unhealthy'[s] = Service!Off /\ unresponsive'[s] = Service!Off
        /\ \A t \in Service!Starts : t # s =>
             /\ unhealthy'[t] = unhealthy[t] /\ unresponsive'[t] = unresponsive[t]
             /\ sinceReady'[t] = sinceReady[t] /\ sinceLive'[t] = sinceLive[t]
             /\ reason'[t] = reason[t]
    BY SupTypes DEF Service!ChildGone
  <2>. QED BY <1>0, <1>1, <2>1 DEF ServiceInv, TimerInv, Service!WatchdogJust, Service!Off,
       Service!Longest
<1>. QED BY <1>2, <1>3, <1>4, <1>5 DEF ServiceInv

\* The end of a backoff, and the stop flag between two children.
LEMMA BetweenStep ==
  ASSUME Service!SupervisorAssumption, ServiceInv, NEW s \in Service!Starts,
         Service!BackoffEnds(s) \/ Service!SupervisorEnds(s)
  PROVE  ServiceInv'
<1> DEFINE step == IF told[s] /\ sup[s] = "spawn" THEN "down" ELSE "spawn"
<1>0. /\ ~Service!Over(s) /\ sup[s] \in {"spawn", "backoff"} /\ child[s] = Service!None
      /\ sup' = [sup EXCEPT ![s] = step] /\ step \in {"down", "spawn"} /\ step \in Steps
      /\ step = "down" => told[s]
      /\ file' \in Files /\ sup \in [Service!Starts -> Steps]
      /\ UNCHANGED <<Service!hostVars, stopping, told, child, Service!timers, reason, probed,
                     Service!childVars, Service!health, Service!since, disturbed>>
  BY SupTypes DEF Service!BackoffEnds, Service!SupervisorEnds, Service!Goes, Service!Write,
       Service!Over, ServiceInv, Service!TypeOK, ProcessInv, Steps, Files
<1>1. /\ sup' \in [Service!Starts -> Steps] /\ sup'[s] = step
      /\ \A t \in Service!Starts : t # s => sup'[t] = sup[t]
  BY <1>0
<1>2. Service!TypeOK'
  BY <1>0, <1>1 DEF ServiceInv, Service!TypeOK, Service!hostVars, Service!timers,
       Service!childVars, Service!health, Service!since, Steps, Files
<1>3. \A c \in Service!Children :
        (Service!Alive(c)' => Service!Alive(c)) /\ c # child[s]
  BY <1>0 DEF Service!childVars, Service!Alive, Service!Children, Service!None
<1>4. ProcessInv'
  BY <1>0, <1>3, ProcessStep DEF Service!hostVars
<1>5. QuietInv'
  <2>1. ~disturbed => \A c \in Service!Children : ~Service!Alive(c)
    BY <1>0, <1>3, QuietFacts
  <2>2. CASE disturbed
    BY <1>0, <2>2 DEF QuietInv
  <2>3. CASE ~disturbed
    BY <1>0, <1>3, <2>1, <2>3, QuietStep DEF Service!hostVars
  <2>. QED BY <2>2, <2>3
<1>6. TimerInv' /\ Service!WatchdogJust'
  BY <1>0, <1>1, TimerFrame DEF ServiceInv, Service!timers, Service!since
<1>. QED BY <1>2, <1>4, <1>5, <1>6 DEF ServiceInv

\* A round of probes ends a child only past a grace.
LEMMA ProbeStep ==
  ASSUME Service!SupervisorAssumption, ServiceInv, NEW s \in Service!Starts, Service!Probe(s)
  PROVE  ServiceInv'
<1>0. /\ child[s] \in Service!Children /\ sup[s] = "monitor" /\ ~Service!Over(s)
      /\ UNCHANGED <<Service!hostVars, stopping, told, child, count, deaf, Service!health,
                     disturbed>>
  BY DEF Service!Probe, Service!Over, ServiceInv, ProcessInv
<1>1. /\ process' \in [Service!Children -> {"none", "starting", "up", "ending", "dead"}]
      /\ server' \in [Service!Children -> {"none", "up", "stuck"}]
      /\ \A c \in Service!Children : Service!Alive(c)' => Service!Alive(c)
      /\ terminating' \in [Service!Starts -> Service!Timers]
      /\ reason' \in [Service!Starts -> Reasons]
      /\ \A t \in Service!Starts : t # s => reason'[t] = reason[t]
  <2>1. CASE UNCHANGED <<process, server, terminating, reason>>
    BY <2>1 DEF ServiceInv, Service!TypeOK, Service!Alive, Reasons
  <2>2. ASSUME NEW why \in Reasons, Service!Terminate(s, why)
        PROVE  /\ process' \in [Service!Children -> {"none", "starting", "up", "ending", "dead"}]
               /\ server' \in [Service!Children -> {"none", "up", "stuck"}]
               /\ \A c \in Service!Children : Service!Alive(c)' => Service!Alive(c)
               /\ terminating' \in [Service!Starts -> Service!Timers]
               /\ reason' \in [Service!Starts -> Reasons]
               /\ \A t \in Service!Starts : t # s => reason'[t] = reason[t]
    BY <1>0, <2>2, TerminateFacts DEF ServiceInv
  <2>. QED BY <2>1, <2>2 DEF Service!Probe, Service!Watch, Reasons
<1>2. \E step \in {"monitor", "terminate"} : sup' = [sup EXCEPT ![s] = step]
  BY <1>0, SupTypes DEF Service!Probe, Service!Watch, Service!Terminate, Service!Goes
<1>3. /\ sup' \in [Service!Starts -> Steps] /\ sup'[s] \in {"monitor", "terminate"}
      /\ \A t \in Service!Starts : t # s => sup'[t] = sup[t]
  BY <1>2, SupTypes DEF Steps
<1>4. /\ unhealthy' \in [Service!Starts -> Service!Timers]
      /\ unresponsive' \in [Service!Starts -> Service!Timers]
      /\ sinceReady' \in [Service!Starts -> Service!Timers]
      /\ sinceLive' \in [Service!Starts -> Service!Timers]
      /\ probed' \in [Service!Starts -> BOOLEAN]
      /\ \A t \in Service!Starts : t # s =>
           /\ unhealthy'[t] = unhealthy[t] /\ unresponsive'[t] = unresponsive[t]
           /\ sinceReady'[t] = sinceReady[t] /\ sinceLive'[t] = sinceLive[t]
  <2>1. /\ unhealthy' = [unhealthy EXCEPT ![s] = Service!Begun(unhealthy[s])]
           \/ unhealthy' = [unhealthy EXCEPT ![s] = Service!Off] \/ UNCHANGED unhealthy
        /\ unresponsive' = [unresponsive EXCEPT ![s] = Service!Begun(unresponsive[s])]
           \/ unresponsive' = [unresponsive EXCEPT ![s] = Service!Off]
        /\ sinceReady' = [sinceReady EXCEPT ![s] = 0] \/ UNCHANGED sinceReady
        /\ sinceLive' = [sinceLive EXCEPT ![s] = 0] \/ UNCHANGED sinceLive
        /\ probed' = [probed EXCEPT ![s] = TRUE]
    BY DEF Service!Probe, Service!Recover, Service!since
  <2>2. /\ Service!Begun(unhealthy[s]) \in Service!Timers
        /\ Service!Begun(unresponsive[s]) \in Service!Timers
    BY SupTypes, LaterFacts DEF Service!Begun
  <2>3. /\ unhealthy' \in [Service!Starts -> Service!Timers]
        /\ \A t \in Service!Starts : t # s => unhealthy'[t] = unhealthy[t]
    BY <2>1, <2>2, SupTypes, LaterFacts
  <2>4. /\ unresponsive' \in [Service!Starts -> Service!Timers]
        /\ \A t \in Service!Starts : t # s => unresponsive'[t] = unresponsive[t]
    BY <2>1, <2>2, SupTypes, LaterFacts
  <2>5. /\ sinceReady' \in [Service!Starts -> Service!Timers]
        /\ sinceLive' \in [Service!Starts -> Service!Timers]
        /\ probed' \in [Service!Starts -> BOOLEAN]
        /\ \A t \in Service!Starts : t # s =>
             sinceReady'[t] = sinceReady[t] /\ sinceLive'[t] = sinceLive[t]
    BY <2>1, SupTypes, LaterFacts
  <2>. QED BY <2>3, <2>4, <2>5
<1>5. file' \in Files /\ (file' = file \/ file'.child = child[s])
  BY <1>0 DEF Service!Probe, Service!Watch, Service!Write, ServiceInv, Service!TypeOK, Files
<1>6. Service!TypeOK'
  BY <1>0, <1>1, <1>3, <1>4, <1>5 DEF ServiceInv, Service!TypeOK, Service!hostVars,
       Service!health, Steps, Reasons, Files
<1>7. PICK step \in {"monitor", "terminate"} : sup' = [sup EXCEPT ![s] = step]
  BY <1>2
<1>8. step \in Steps
  BY DEF Steps
<1>9. ProcessInv'
  BY <1>0, <1>1, <1>7, <1>8, SupTypes, ProcessStep DEF Service!hostVars
<1>10. QuietInv'
  BY <1>0, <1>1, <1>5, <1>7, <1>8, SupTypes, QuietStep DEF Service!hostVars
<1>11. TimerInv'
  <2>1. /\ unhealthy'[s] # Service!Off => sinceReady'[s] >= unhealthy'[s]
        /\ unresponsive'[s] # Service!Off => sinceLive'[s] >= unresponsive'[s]
    <3>1. /\ unhealthy[s] # Service!Off => sinceReady[s] >= unhealthy[s]
          /\ unresponsive[s] # Service!Off => sinceLive[s] >= unresponsive[s]
          /\ sinceReady[s] \in Nat /\ sinceLive[s] \in Nat
      BY <1>0, SupTypes, LaterFacts DEF ServiceInv, TimerInv
    <3>. QED BY <3>1, SupTypes DEF Service!Probe, Service!Recover, Service!Begun,
         Service!since
  <2>. QED BY <1>3, <1>4, <2>1 DEF ServiceInv, TimerInv, Service!Off, Service!Longest
<1>12. Service!WatchdogJust'
  <2>1. ASSUME sup'[s] = "terminate", reason'[s] = "readiness_timeout"
        PROVE  sinceReady'[s] >= UnhealthyGrace
    <3>1. Service!Terminate(s, "readiness_timeout") /\ Service!Past(unhealthy[s], UnhealthyGrace)
          /\ UNCHANGED sinceReady
      BY <1>0, <2>1, SupTypes DEF Service!Probe, Service!Watch, Service!Terminate
    <3>2. sinceReady[s] >= unhealthy[s] /\ sinceReady[s] \in Nat /\ unhealthy[s] \in Nat
      BY <1>0, <3>1, SupTypes, LaterFacts DEF ServiceInv, TimerInv, Service!Past
    <3>. QED BY <3>1, <3>2 DEF Service!Past, Service!SupervisorAssumption
  <2>2. ASSUME sup'[s] = "terminate", reason'[s] = "liveness_timeout"
        PROVE  sinceLive'[s] >= UnresponsiveGrace
    <3>1. Service!Terminate(s, "liveness_timeout")
          /\ Service!Past(unresponsive[s], UnresponsiveGrace) /\ UNCHANGED sinceLive
      BY <1>0, <2>2, SupTypes DEF Service!Probe, Service!Watch, Service!Terminate,
         Service!since
    <3>2. sinceLive[s] >= unresponsive[s] /\ sinceLive[s] \in Nat /\ unresponsive[s] \in Nat
      BY <1>0, <3>1, SupTypes, LaterFacts DEF ServiceInv, TimerInv, Service!Past
    <3>. QED BY <3>1, <3>2 DEF Service!Past, Service!SupervisorAssumption
  <2>. QED BY <1>1, <1>3, <1>4, <2>1, <2>2 DEF ServiceInv, Service!WatchdogJust
<1>. QED BY <1>6, <1>9, <1>10, <1>11, <1>12 DEF ServiceInv

--------------------------------------------------------------------------------
\* So do the children, their troubles and the clock.

LEMMA ChildUpStep ==
  ASSUME Service!SupervisorAssumption, ServiceInv, NEW c \in Service!Children, Service!ChildUp(c)
  PROVE  ServiceInv'
<1>0. /\ process' \in [Service!Children -> {"none", "starting", "up", "ending", "dead"}]
      /\ \A d \in Service!Children : Service!Alive(d)' => Service!Alive(d)
  BY DEF Service!ChildUp, ServiceInv, Service!TypeOK, Service!Alive
<1>1. Service!TypeOK'
  <2>1. server' \in [Service!Children -> {"none", "up", "stuck"}]
        /\ live' \in BOOLEAN /\ ready' \in BOOLEAN
    BY ZenonT(40) DEF Service!ChildUp, ServiceInv, Service!TypeOK
  <2>. QED BY <1>0, <2>1 DEF Service!ChildUp, ServiceInv, Service!TypeOK,
       Service!hostVars, Service!supVars, Service!timers, Service!since
<1>2. ProcessInv' /\ QuietInv'
  BY <1>0, FewerAlive DEF Service!ChildUp, ServiceInv, Service!hostVars, Service!supVars
<1>3. TimerInv' /\ Service!WatchdogJust'
  BY TimerFrame DEF Service!ChildUp, ServiceInv, Service!supVars, Service!timers,
       Service!since
<1>. QED BY <1>1, <1>2, <1>3 DEF ServiceInv

LEMMA EndsStep ==
  ASSUME Service!SupervisorAssumption, ServiceInv, NEW c \in Service!Children, Service!Ends(c)
  PROVE  ServiceInv'
<1>0. /\ process' \in [Service!Children -> {"none", "starting", "up", "ending", "dead"}]
      /\ \A d \in Service!Children : Service!Alive(d)' => Service!Alive(d)
  BY DEF Service!Ends, ServiceInv, Service!TypeOK, Service!Alive
<1>1. Service!TypeOK'
  <2>1. server' \in [Service!Children -> {"none", "up", "stuck"}]
        /\ deaf' \in [Service!Children -> BOOLEAN] /\ live' \in BOOLEAN /\ ready' \in BOOLEAN
    BY DEF Service!Ends, Service!Falls, ServiceInv, Service!TypeOK
  <2>. QED BY <1>0, <2>1 DEF Service!Ends, ServiceInv, Service!TypeOK, Service!hostVars,
       Service!supVars, Service!timers, Service!since
<1>2. ProcessInv' /\ QuietInv'
  BY <1>0, FewerAlive DEF Service!Ends, ServiceInv, Service!hostVars, Service!supVars
<1>3. TimerInv' /\ Service!WatchdogJust'
  BY TimerFrame DEF Service!Ends, ServiceInv, Service!supVars, Service!timers,
       Service!since
<1>. QED BY <1>1, <1>2, <1>3 DEF ServiceInv

LEMMA MannersStep ==
  ASSUME Service!SupervisorAssumption, ServiceInv,
         Service!HealthChanges \/ \E c \in Service!Children : Service!GoesDeaf(c)
  PROVE  ServiceInv'
<1>0. /\ UNCHANGED <<Service!hostVars, stopping, Service!supVars, file, count, process, server,
                     Service!since, disturbed>>
      /\ live' \in BOOLEAN /\ ready' \in BOOLEAN /\ deaf' \in [Service!Children -> BOOLEAN]
  BY DEF Service!HealthChanges, Service!GoesDeaf, Service!childVars, Service!health,
         ServiceInv, Service!TypeOK
<1>1. Service!TypeOK'
  BY <1>0 DEF ServiceInv, Service!TypeOK, Service!hostVars, Service!supVars, Service!timers,
       Service!since
<1>2. ProcessInv' /\ QuietInv'
  BY <1>0, FewerAlive DEF ServiceInv, Service!hostVars, Service!supVars, Service!Alive
<1>3. TimerInv' /\ Service!WatchdogJust'
  BY <1>0, TimerFrame DEF ServiceInv, Service!supVars, Service!timers, Service!since
<1>. QED BY <1>1, <1>2, <1>3 DEF ServiceInv

LEMMA SupervisorKilledStep ==
  ASSUME Service!SupervisorAssumption, ServiceInv, NEW s \in Service!Starts,
         Service!SupervisorKilled(s)
  PROVE  ServiceInv'
<1>0. Service!Slain(s) /\ ~Service!Over(s)
  BY DEF Service!SupervisorKilled
<1>1. /\ sup' \in [Service!Starts -> Steps] /\ reason' \in [Service!Starts -> Reasons]
      /\ told' \in [Service!Starts -> BOOLEAN] /\ probed' \in [Service!Starts -> BOOLEAN]
      /\ unhealthy' \in [Service!Starts -> Service!Timers]
      /\ unresponsive' \in [Service!Starts -> Service!Timers]
      /\ terminating' \in [Service!Starts -> Service!Timers]
      /\ sinceReady' \in [Service!Starts -> Service!Timers]
      /\ sinceLive' \in [Service!Starts -> Service!Timers]
      /\ sup'[s] = "killed" /\ ~told'[s]
      /\ \A t \in Service!Starts \ {s} : sup'[t] = sup[t] /\ told'[t] = told[t]
      /\ TimerInv' /\ Service!WatchdogJust'
  BY <1>0, SlainFacts DEF ServiceInv
<1>2. Service!TypeOK'
  BY <1>1 DEF Service!SupervisorKilled, ServiceInv, Service!TypeOK, Service!hostVars,
       Service!childVars, Service!health, Steps, Reasons
<1>3. ProcessInv'
  BY <1>0, <1>1, KilledKeepsProcesses DEF Service!SupervisorKilled, Service!hostVars,
       Service!childVars, ServiceInv
<1>4. QuietInv'
  BY DEF Service!SupervisorKilled, QuietInv
<1>. QED BY <1>1, <1>2, <1>3, <1>4 DEF ServiceInv

LEMMA TickStep ==
  ASSUME Service!SupervisorAssumption, ServiceInv, Service!Tick
  PROVE  ServiceInv'
<1>0. /\ abort' = Service!Later(abort) /\ abort \in Service!Timers
      /\ UNCHANGED <<host, starts, stopping, sup, told, child, reason, file,
                     Service!childVars, Service!health, disturbed>>
      /\ \A s \in Service!Starts : sup[s] # "named"
  BY DEF Service!Tick, Service!Urgent, Service!UrgentOf, ServiceInv, Service!TypeOK
<1>1. \A s \in Service!Starts :
        /\ unhealthy'[s] = Service!Later(unhealthy[s])
        /\ unresponsive'[s] = Service!Later(unresponsive[s])
        /\ terminating'[s] = Service!Later(terminating[s])
        /\ sinceReady'[s] = Service!Watched(s, sinceReady[s])
        /\ sinceLive'[s] = Service!Watched(s, sinceLive[s])
  BY DEF Service!Tick
<1>2. Service!TypeOK'
  <2>1. /\ abort' \in Service!Timers
        /\ unhealthy' \in [Service!Starts -> Service!Timers]
        /\ unresponsive' \in [Service!Starts -> Service!Timers]
        /\ terminating' \in [Service!Starts -> Service!Timers]
    BY <1>0, SupTypes, LaterFacts DEF Service!Tick
  <2>2. /\ sinceReady' \in [Service!Starts -> Service!Timers]
        /\ sinceLive' \in [Service!Starts -> Service!Timers]
        /\ probed' \in [Service!Starts -> BOOLEAN]
    BY SupTypes, LaterFacts DEF Service!Tick, Service!Watched
  <2>. QED BY <1>0, <2>1, <2>2 DEF ServiceInv, Service!TypeOK, Service!childVars,
       Service!health
<1>3. ProcessInv'
  BY <1>0 DEF ServiceInv, ProcessInv, Service!NoneForgotten, Service!LookedAfter,
       Service!Alive, Service!childVars
<1>4. QuietInv'
  <2>1. LastOnly => LastOnly'
    BY <1>0 DEF LastOnly, Service!Alive, Service!Over, Service!childVars
  <2>2. abort' = Service!Off <=> abort = Service!Off
    BY <1>0, LaterFacts
  <2>3. Obedient => Obedient'
    BY <1>0, <2>2 DEF Obedient, Service!Over, Service!Off, Service!Longest
  <2>. QED BY <1>0, <2>1, <2>3 DEF ServiceInv, QuietInv
<1>5. TimerInv'
  <2>. SUFFICES ASSUME NEW s \in Service!Starts
                PROVE  /\ sup[s] = "monitor" /\ unhealthy'[s] # Service!Off =>
                            sinceReady'[s] >= unhealthy'[s]
                       /\ sup[s] = "monitor" /\ unresponsive'[s] # Service!Off =>
                            sinceLive'[s] >= unresponsive'[s]
                       /\ sup[s] \notin {"monitor", "terminate"} =>
                            unhealthy'[s] = Service!Off /\ unresponsive'[s] = Service!Off
    BY <1>0 DEF TimerInv, Service!Off, Service!Longest
  <2>1. /\ unhealthy[s] \in Service!Timers /\ unresponsive[s] \in Service!Timers
        /\ sinceReady[s] \in Service!Timers /\ sinceLive[s] \in Service!Timers
    BY SupTypes
  <2>2. /\ sup[s] = "monitor" /\ unhealthy[s] # Service!Off => sinceReady[s] >= unhealthy[s]
        /\ sup[s] = "monitor" /\ unresponsive[s] # Service!Off => sinceLive[s] >= unresponsive[s]
        /\ sup[s] \notin {"monitor", "terminate"} =>
             unhealthy[s] = Service!Off /\ unresponsive[s] = Service!Off
    BY DEF ServiceInv, TimerInv
  <2>. QED BY <1>1, <2>1, <2>2, LaterFacts DEF Service!Watched
<1>6. Service!WatchdogJust'
  <2>1. \A s \in Service!Starts : sup[s] = "terminate" =>
          sinceReady'[s] = sinceReady[s] /\ sinceLive'[s] = sinceLive[s]
    BY <1>1 DEF Service!Watched
  <2>. QED BY <1>0, <2>1 DEF ServiceInv, Service!WatchdogJust
<1>. QED BY <1>2, <1>3, <1>4, <1>5, <1>6 DEF ServiceInv

LEMMA ServiceNext ==
  Service!SupervisorAssumption /\ ServiceInv /\ [Service!Next]_Service!vars => ServiceInv'
<1>. SUFFICES ASSUME Service!SupervisorAssumption, ServiceInv, [Service!Next]_Service!vars
             PROVE  ServiceInv'
  OBVIOUS
<1>1. CASE Service!Host \/ Service!Operator
  BY <1>1, StartHostStep, HostKillsStep, HostEndsStep, StopReturnsStep, StopServiceStep,
     DisturbedStep, StartAgainStep DEF Service!Host, Service!Operator
<1>2. ASSUME NEW s \in Service!Starts, Service!Supervisor(s) PROVE ServiceInv'
  BY <1>2, SpawnStep, NamedStep, SeenLiveStep, TerminateStep, ProbeStep, EscalateStep,
     ChildGoneStep, BetweenStep DEF Service!Supervisor
<1>3. ASSUME NEW c \in Service!Children, Service!Child(c) PROVE ServiceInv'
  BY <1>3, ChildUpStep, EndsStep DEF Service!Child, Service!ChildEnds
<1>4. CASE Service!Trouble
  BY <1>4, MannersStep, DisturbedStep, SupervisorKilledStep, EndsStep DEF
     Service!Trouble, Service!ChildDies
<1>5. CASE Service!Tick
  BY <1>5, TickStep
<1>6. CASE UNCHANGED Service!vars
  <2>1. /\ UNCHANGED <<host, abort, starts, stopping, sup, told, child, unhealthy, unresponsive,
                      terminating, reason, probed, file, count, process, server, deaf, live,
                      ready, sinceReady, sinceLive, disturbed>>
    BY <1>6 DEF Service!vars, Service!hostVars, Service!supVars, Service!timers,
         Service!childVars, Service!health, Service!since
  <2>2. Service!TypeOK'
    BY <2>1 DEF ServiceInv, Service!TypeOK
  <2>3. ProcessInv' /\ QuietInv'
    BY <2>1, FewerAlive DEF ServiceInv, Service!Alive
  <2>4. TimerInv' /\ Service!WatchdogJust'
    BY <2>1, TimerFrame DEF ServiceInv
  <2>. QED BY <2>2, <2>3, <2>4 DEF ServiceInv
<1>. QED BY <1>1, <1>2, <1>3, <1>4, <1>5, <1>6 DEF Service!Next

--------------------------------------------------------------------------------
\* In quiet times what lives is the child of the last supervisor, and nothing does
\* once the stop has returned.
LEMMA InvQuiet == ServiceInv => Service!OneChild /\ Service!StopComplete
BY DEF ServiceInv, QuietInv, LastOnly, Service!OneChild, Service!StopComplete

--------------------------------------------------------------------------------
\* The console does its own steps or none, and so do the supervisors where their
\* own faults can happen.
LEMMA HostParts ==
  Spec => /\ Console!Init /\ [][Console!Next]_Console!vars
          /\ InService => Service!Init
          /\ [][UNCHANGED system /\ (InService => [Service!Next]_Service!vars)]_vars
<1>1. Spec => Init /\ [][Next]_vars
  BY PTL DEF Spec, Safety
<1>2. Init => Console!Init /\ (InService => Service!Init)
  BY DEF Init, InService
<1>3. [Next]_vars => [Console!Next]_Console!vars
  BY DEF Next, vars, consoleVars, serviceVars, Console!vars, Console!runtime,
         Console!processes, Console!lanes
<1>4. [Next]_vars =>
        [UNCHANGED system /\ (InService => [Service!Next]_Service!vars)]_vars
  BY DEF Next, vars, InConsole, InService, InLasting, serviceVars, Service!vars,
         Service!hostVars, Service!supVars, Service!timers, Service!childVars,
         Service!health, Service!since
<1>. QED BY <1>1, <1>2, <1>3, <1>4, PTL

\* A host that runs has the models that are stored, however many consoles, hosts and
\* supervisors died before it, and so has the living child that the file names unless
\* its supervisor outlived its host (operator-console.mjs:722); and no flag outlives
\* the requests that raised it (operator-console.mjs:205): in every behaviour of the
\* console, and so in those of the run.
THEOREM ConsoleStaysConsistent ==
  /\ Spec => []ConsoleConsistent
  /\ Console!Spec => [](Console!RuntimeAsConfigured /\ Console!NoStuckFlag)
<1>1. Console!Init => ConsoleInv
  BY ConsoleInit, ConsoleBounds
<1>2. ConsoleInv /\ [Console!Next]_Console!vars => ConsoleInv'
  BY ConsoleNext
<1>3. ConsoleInv => ConsoleConsistent /\ Console!RuntimeAsConfigured /\ Console!NoStuckFlag
  BY DEF ConsoleInv, RunInv, ConsoleConsistent
<1>. QED BY <1>1, <1>2, <1>3, HostParts, PTL DEF Console!Spec

\* The supervisors' invariant, in every behaviour of theirs and in those of the run.
LEMMA ServiceHolds ==
  /\ Spec => [](InService => ServiceInv)
  /\ Service!Spec => []ServiceInv
<1>1. (InService => Service!Init) => (InService => ServiceInv)
  BY ServiceInit, ServiceBounds
<1>2. ASSUME InService => ServiceInv,
             [UNCHANGED system /\ (InService => [Service!Next]_Service!vars)]_vars
      PROVE  (InService => ServiceInv)'
  <2>1. InService' <=> InService
    BY <1>2 DEF InService, vars
  <2>2. InService => [Service!Next]_Service!vars
    BY <1>2 DEF vars, serviceVars, Service!vars, Service!hostVars, Service!supVars,
                Service!timers, Service!childVars, Service!health, Service!since
  <2>. QED BY <1>2, <2>1, <2>2, ServiceNext, ServiceBounds
<1>3. Service!Init => ServiceInv
  BY ServiceInit, ServiceBounds
<1>4. ServiceInv /\ [Service!Next]_Service!vars => ServiceInv'
  BY ServiceNext, ServiceBounds
<1>. QED BY <1>1, <1>2, <1>3, <1>4, HostParts, PTL DEF Service!Spec

\* Whatever is killed, an opportunityd that lives has a supervisor that looks after
\* it or is the last one of a supervisor that was killed, and the watchdog ends only
\* one that no probe has found ready, or live, for the whole of the grace; and one
\* lives at a time, over any number of stops and starts, until a host or a supervisor
\* is killed from outside or a stop gives up (service_supervisor.py).
THEOREM OneIsJustlyWatched ==
  /\ Spec => []OneJustlyWatched
  /\ Service!Spec => [](Service!NoneForgotten /\ Service!OneChild /\ Service!WatchdogJust)
<1>1. (InService => ServiceInv) => OneJustlyWatched
  BY InvQuiet DEF ServiceInv, ProcessInv, OneJustlyWatched
<1>2. ServiceInv => Service!NoneForgotten /\ Service!OneChild /\ Service!WatchdogJust
  BY InvQuiet DEF ServiceInv, ProcessInv
<1>. QED BY <1>1, <1>2, ServiceHolds, PTL

\* Until then `stop` returns only when no opportunityd is left, although the file it
\* reads is written by a supervisor that its host may have killed, and names a child
\* only after it was started.
THEOREM StopIsComplete ==
  /\ Spec => []StopComplete
  /\ Service!Spec => []Service!StopComplete
<1>1. (InService => ServiceInv) => StopComplete
  BY InvQuiet DEF StopComplete
<1>2. ServiceInv => Service!StopComplete
  BY InvQuiet
<1>. QED BY <1>1, <1>2, ServiceHolds, PTL

\* Every variable of the supervisors keeps its type.
THEOREM ServiceTypes == Service!Spec => []Service!TypeOK
<1>1. ServiceInv => Service!TypeOK
  BY DEF ServiceInv
<1>. QED BY <1>1, ServiceHolds, PTL
=============================================================================
