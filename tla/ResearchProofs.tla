--------------------------- MODULE ResearchProofs ---------------------------
(***************************************************************************)
(* Proofs about the research process: that the cycles stay truthful and    *)
(* keep their verdicts and that the Shadow book stays within its limits,   *)
(* for any batch of Scouts, number of cycles, attempts and starts, and for *)
(* any book. The instances of MCResearch name their parameters in a        *)
(* record, so that each lemma is of every record the module's own          *)
(* assumption admits. Two inductive invariants carry the proofs: CycleInv, *)
(* of the batches, and BookInv, of the book. OpportunityProofs has the     *)
(* desk and the agenda.                                                    *)
(***************************************************************************)
EXTENDS MCResearch, FiniteSetTheorems, SequenceTheorems, WellFoundedInduction, TLAPS

-----------------------------------------------------------------------------
(***************************************************************************)
(* The cycles.                                                             *)
(***************************************************************************)
\* What a role's runs say: artifacts and turns are those of its attempts.
RunInv(K) ==
  /\ \A c \in Cycle(K)!Cycles, s \in K.scouts :
       /\ Cycle(K)!Status(c, s) = "none" <=> run[c][s].attempts = 0
       /\ calls[c][s] <= run[c][s].attempts
       /\ artifact[c][s] \subseteq 1..run[c][s].attempts
  /\ Cycle(K)!FailuresKept /\ Cycle(K)!MindsCounted

\* What a worker knows of its run.
Knows(K, s) ==
  /\ worker[s] \in {"queued", "call", "answered"} => Cycle(K)!Status(cycle, s) # "succeeded"
  /\ worker[s] = "queued" => calls[cycle][s] < run[cycle][s].attempts
  /\ worker[s] = "done" => outcome[s] # "none"
  /\ outcome[s] = "succeeded" => Cycle(K)!Status(cycle, s) = "succeeded"
WorkInv(K) ==
  /\ phase # "scouts" => \A s \in K.scouts : worker[s] = "idle" /\ outcome[s] = "none"
  /\ \A s \in K.scouts : Knows(K, s)

\* What has become of the cycle the runner holds.
Held == {"bind", "wake", "monitor", "open", "reserve", "scouts", "later", "persist", "completed",
         "error", "recorded"}
Recovering(K) == phase \in {"recover", "drop"}
Begun(K) == {c \in Cycle(K)!Cycles : event[c] # "none"}
EventInv(K) ==
  /\ \E n \in 0..K.cycles : Begun(K) = 1..n
  /\ phase \in Held => cycle \in Cycle(K)!Cycles
  /\ phase \in {"down", "boot", "waiting"} => cycle = Cycle(K)!NoCycle
  /\ phase = "bind" => /\ event[cycle] \in {"none", "bound", "completed"}
                       /\ event[cycle] = "none" => cycle = Cycle(K)!Fresh
  /\ phase \in {"wake", "error"} => event[cycle] \in {"bound", "completed"}
  /\ phase \in {"monitor", "open", "reserve", "scouts", "later", "persist"} => event[cycle] = "bound"
  /\ phase = "completed" => event[cycle] = "completed"
  /\ phase = "recorded" /\ error \notin {"snapshot", "circuit"} =>
       event[cycle] \in {"bound", "completed"}
  /\ phase \in {"next", "backoff"} /\ cycle # Cycle(K)!NoCycle => event[cycle] \in {"bound", "completed"}
  /\ Recovering(K) => todo \subseteq Cycle(K)!Bound /\ cycle \in {Cycle(K)!NoCycle} \cup (Cycle(K)!Bound \ todo)
  /\ phase = "drop" => todo # {} /\ error \in Cycle(K)!Dropped \ {"superseded"}
  /\ \A c \in Cycle(K)!Cycles : event[c] # "superseded"

\* Jobs, completions and the stages that follow them.
Proven(K, c) == \E s \in K.scouts : Cycle(K)!Status(c, s) = "succeeded"
JobInv(K) ==
  /\ \A c \in Cycle(K)!Cycles : job[c] = "succeeded" \/ event[c] = "completed" => Proven(K, c)
  /\ phase \in {"later", "persist"} => Proven(K, cycle)
  /\ phase \in {"reserve", "scouts"} =>
       job[cycle] \in {"running", "succeeded"} \/ (stop /\ job[cycle] = "cancelled")
  /\ cancelling => stop

\* Snapshots, and who is blamed for one.
SnapInv(K) ==
  /\ \A c \in Cycle(K)!Cycles : snapshot[c] # 0 => event[c] # "none"
  /\ phase \in {"monitor", "open"} => snapshot[cycle] \in {0, wake}
  /\ phase \in {"reserve", "scouts"} => snapshot[cycle] = wake
  /\ phase = "drop" /\ error = "snapshot" => spoiled[Cycle(K)!First]
  /\ phase = "error" /\ error = "snapshot" => stop \/ spoiled[cycle]
  /\ phase = "recorded" /\ error = "snapshot" => spoiled[cycle]
  /\ Cycle(K)!QuarantineJust

\* Who could be resumed.
Resumable(K) == {c \in Cycle(K)!Bound : ~spoiled[c] /\ snapshot[c] # 0}
ResumeInv(K) ==
  /\ \A c, d \in Resumable(K) : c = d
  /\ Recovering(K) => Resumable(K) \subseteq todo \cup {cycle}
  /\ (Recovering(K) /\ cycle # Cycle(K)!NoCycle) \/ phase \notin {"down", "boot", "recover", "drop"} =>
       Resumable(K) \subseteq {cycle}

CycleInv(K) == Cycle(K)!TypeOK /\ RunInv(K) /\ WorkInv(K) /\ EventInv(K) /\ JobInv(K) /\ SnapInv(K) /\ ResumeInv(K)

-----------------------------------------------------------------------------
\* The cardinality of the instances is that of the module.
LEMMA CardIs ==
  ASSUME NEW K, NEW T
  PROVE  Cycle(K)!Cardinality(T) = Cardinality(T)
BY DEF Cycle!Cardinality, Cardinality, Cycle!IsFiniteSet, IsFiniteSet

\* Every nonempty set of naturals has a least element.
LEMMA Least ==
  ASSUME NEW T, T \subseteq Nat, T # {}
  PROVE  \E x \in T : \A y \in T : x <= y
<1> DEFINE R == OpToRel(<, Nat)
<1>1. IsWellFoundedOn(R, Nat) BY NatLessThanWellFounded
<1>2. \A x, y \in Nat : <<y, x>> \in R <=> y < x BY DEF OpToRel
<1> HIDE DEF R
<1>3. PICK x \in T : \A y \in T : ~ (<<y, x>> \in R) BY <1>1, WFMin
<1>4. ASSUME NEW y \in T PROVE x <= y
  <2>1. ~ (<<y, x>> \in R) BY <1>3, Zenon
  <2>2. x \in Nat /\ y \in Nat OBVIOUS
  <2>3. ~ (y < x) BY <1>2, <2>1, <2>2, Zenon
  <2> QED BY <2>2, <2>3
<1> QED BY <1>4

LEMMA FirstIn ==
  ASSUME NEW K, Cycle(K)!CycleAssumption, Cycle(K)!TypeOK, todo # {}
  PROVE  Cycle(K)!First \in todo
<1>1. todo \subseteq Nat BY DEF Cycle!TypeOK, Cycle!CycleAssumption, Cycle!Cycles
<1>2. \E c \in todo : \A d \in todo : c <= d BY <1>1, Least
<1> QED BY <1>2 DEF Cycle!First

LEMMA FreshIs ==
  ASSUME NEW K, Cycle(K)!CycleAssumption, NEW n \in 0..K.cycles, Begun(K) = 1..n
  PROVE  Cycle(K)!Fresh = n + 1
<1>1. n \in Nat BY DEF Cycle!CycleAssumption
<1>2. Cardinality(1..n) = n BY <1>1, FS_Interval
<1> QED BY <1>2, CardIs DEF Cycle!Fresh, Begun

Succeeded(K, s) == {c \in Cycle(K)!Cycles : Cycle(K)!Status(c, s) = "succeeded"}
LEMMA SucceededFinite ==
  ASSUME NEW K, Cycle(K)!CycleAssumption, NEW s
  PROVE  /\ IsFiniteSet(Succeeded(K, s)) /\ Cardinality(Succeeded(K, s)) \in 0..K.cycles
         /\ IsFiniteSet(Succeeded(K, s)') /\ Cardinality(Succeeded(K, s)') \in 0..K.cycles
<1>0. K.cycles \in Nat BY DEF Cycle!CycleAssumption
<1>1. IsFiniteSet(Cycle(K)!Cycles) /\ Cardinality(Cycle(K)!Cycles) = K.cycles
  <2>1. /\ IsFiniteSet(1..K.cycles)
        /\ Cardinality(1..K.cycles) = IF 1 > K.cycles THEN 0 ELSE K.cycles - 1 + 1
    BY <1>0, FS_Interval
  <2>2. (IF 1 > K.cycles THEN 0 ELSE K.cycles - 1 + 1) = K.cycles BY <1>0
  <2> QED BY <2>1, <2>2 DEF Cycle!Cycles
<1>2. Succeeded(K, s) \subseteq Cycle(K)!Cycles /\ Succeeded(K, s)' \subseteq Cycle(K)!Cycles
  BY DEF Succeeded, Cycle!Cycles
<1>3. ASSUME NEW T \in SUBSET Cycle(K)!Cycles PROVE IsFiniteSet(T) /\ Cardinality(T) \in 0..K.cycles
  BY <1>0, <1>1, FS_Subset, FS_CardinalityType
<1>4. IsFiniteSet(Succeeded(K, s)) /\ Cardinality(Succeeded(K, s)) \in 0..K.cycles
  <2>1. Succeeded(K, s) \in SUBSET Cycle(K)!Cycles BY <1>2
  <2> QED BY <1>3, <2>1, ZenonT(40)
<1>5. IsFiniteSet(Succeeded(K, s)') /\ Cardinality(Succeeded(K, s)') \in 0..K.cycles
  <2>1. Succeeded(K, s)' \in SUBSET Cycle(K)!Cycles BY <1>2
  <2> QED BY <1>3, <2>1, ZenonT(40)
<1> QED BY <1>4, <1>5

\* Runs that change without one more or less of them succeeding.
LEMMA MindsKept ==
  ASSUME NEW K, Cycle(K)!CycleAssumption, CycleInv(K), minds' = minds,
         \A c \in Cycle(K)!Cycles, s \in K.scouts : (Cycle(K)!Status(c, s) = "succeeded") <=> (Cycle(K)!Status(c, s)' = "succeeded")
  PROVE  Cycle(K)!MindsCounted'
<1>1. \A s \in K.scouts : Succeeded(K, s)' = Succeeded(K, s) BY DEF Succeeded, Cycle!Cycles
<1>2. \A s \in K.scouts : minds[s] = Cardinality(Succeeded(K, s))
  BY CardIs DEF CycleInv, RunInv, Cycle!MindsCounted, Succeeded
<1>3. \A s \in K.scouts : minds'[s] = Cardinality(Succeeded(K, s)') BY <1>1, <1>2
<1> QED BY <1>3, CardIs DEF Cycle!MindsCounted, Succeeded, Cycle!Cycles
LEMMA RunKept ==
  ASSUME NEW K, Cycle(K)!CycleAssumption, CycleInv(K), UNCHANGED <<run, artifact, minds, calls>>
  PROVE  RunInv(K)'
BY DEF CycleInv, RunInv, Cycle!FailuresKept, Cycle!MindsCounted, Cycle!Status, Cycle!Cycles

LEMMA EventKept ==
  ASSUME NEW K, Cycle(K)!CycleAssumption, CycleInv(K), UNCHANGED <<event, phase, cycle, error, todo>>
  PROVE  EventInv(K)'
<1>1. Begun(K)' = Begun(K) BY DEF Begun, Cycle!Cycles
<1>2. Cycle(K)!Bound' = Cycle(K)!Bound BY DEF Cycle!Bound, Cycle!Cycles
<1>3. Cycle(K)!Fresh' = Cycle(K)!Fresh BY DEF Cycle!Fresh, Cycle!Cycles
<1> QED BY <1>1, <1>2, <1>3 DEF CycleInv, EventInv, Held, Recovering, Cycle!Cycles, Cycle!NoCycle

LEMMA CycleInitInv ==
  ASSUME NEW K, Cycle(K)!CycleAssumption, Cycle(K)!Init
  PROVE  CycleInv(K)
<1>0. K.attempts \in Nat \ {0} /\ K.cycles \in Nat \ {0} /\ K.boots \in Nat \ {0}
  BY DEF Cycle!CycleAssumption
<1>1. Cycle(K)!TypeOK
  <2>1. 0 \in 0..K.attempts /\ 0 \in 0..K.cycles /\ 0 \in 0..K.boots BY <1>0
  <2>2. run \in [Cycle(K)!Cycles -> [K.scouts -> [status : {"none", "running", "succeeded", "failed", "cancelled"},
                                       attempts : 0..K.attempts]]]
    BY <2>1 DEF Cycle!Init
  <2>3. artifact \in [Cycle(K)!Cycles -> [K.scouts -> SUBSET (1..K.attempts)]] BY DEF Cycle!Init
  <2>4. calls \in [Cycle(K)!Cycles -> [K.scouts -> 0..K.attempts]] BY <2>1 DEF Cycle!Init
  <2>5. /\ event \in [Cycle(K)!Cycles -> {"none", "bound", "completed"} \cup Cycle(K)!Dropped]
        /\ boundTo \in [Cycle(K)!Cycles -> 0..2] /\ settings \in 1..2 /\ boots \in 0..K.boots
        /\ snapshot \in [Cycle(K)!Cycles -> Nat] /\ spoiled \in [Cycle(K)!Cycles -> BOOLEAN]
        /\ job \in [Cycle(K)!Cycles -> Cycle(K)!Jobs]
    BY <2>1 DEF Cycle!Init, Cycle!Jobs
  <2>6. /\ minds \in [K.scouts -> 0..K.cycles]
        /\ worker \in [K.scouts -> Cycle(K)!Workers] /\ outcome \in [K.scouts -> {"none", "succeeded", "failed"}]
    BY <2>1 DEF Cycle!Init, Cycle!Workers
  <2>7. /\ phase = "down" /\ cycle \in Cycle(K)!Cycles \cup {Cycle(K)!NoCycle} /\ todo \subseteq Cycle(K)!Cycles
        /\ error \in {"none", "plain"} \cup Cycle(K)!Dropped /\ wake \in Nat
        /\ stop \in BOOLEAN /\ shown \in Cycle(K)!Cycles \cup {Cycle(K)!NoCycle} /\ cancelling \in BOOLEAN
        /\ fetched \in Nat
    BY DEF Cycle!Init
  <2> QED BY <2>2, <2>3, <2>4, <2>5, <2>6, <2>7 DEF Cycle!TypeOK
<1>2. RunInv(K)
  <2>1. \A s \in K.scouts : Succeeded(K, s) = {} BY DEF Cycle!Init, Succeeded, Cycle!Status
  <2>2. \A s \in K.scouts : minds[s] = Cardinality(Succeeded(K, s)) BY <2>1, FS_EmptySet DEF Cycle!Init
  <2>3. Cycle(K)!MindsCounted BY <2>2, CardIs DEF Cycle!MindsCounted, Succeeded
  <2> QED BY <1>0, <2>3 DEF Cycle!Init, RunInv, Cycle!FailuresKept, Cycle!Status
<1>3. WorkInv(K) BY DEF Cycle!Init, WorkInv, Knows
<1>4. EventInv(K)
  <2>1. Begun(K) = 1..0 BY DEF Cycle!Init, Begun
  <2>2. 0 \in 0..K.cycles BY <1>0
  <2>3. \E n \in 0..K.cycles : Begun(K) = 1..n BY <2>1, <2>2
  <2> QED BY <2>3 DEF Cycle!Init, EventInv, Held, Recovering
<1>5. JobInv(K) BY DEF Cycle!Init, JobInv
<1>6. SnapInv(K) BY DEF Cycle!Init, SnapInv, Cycle!QuarantineJust
<1>7. ResumeInv(K) BY DEF Cycle!Init, ResumeInv, Resumable, Cycle!Bound, Recovering
<1> QED BY <1>1, <1>2, <1>3, <1>4, <1>5, <1>6, <1>7 DEF CycleInv

\* What the process held is gone.
LEMMA EndsInv ==
  ASSUME NEW K, Cycle(K)!CycleAssumption, CycleInv(K), Cycle(K)!Ends, UNCHANGED <<Cycle(K)!durable,
         settings, boots, Cycle(K)!history>>
  PROVE  CycleInv(K)'
<1> USE DEF Cycle!Ends, Cycle!durable, Cycle!history, Cycle!NoBatch
<1>1. Cycle(K)!TypeOK'
  BY DEF CycleInv, Cycle!TypeOK, Cycle!Workers, Cycle!Jobs, Cycle!Cycles, Cycle!NoCycle
<1>2. RunInv(K)' BY RunKept
<1>3. WorkInv(K)' BY DEF WorkInv, Knows
<1>4. EventInv(K)'
  <2>1. Begun(K)' = Begun(K) BY DEF Begun, Cycle!Cycles
  <2> QED BY <2>1 DEF CycleInv, EventInv, Held, Recovering, Cycle!Cycles
<1>5. JobInv(K)' BY DEF CycleInv, JobInv, Proven, Cycle!Status, Cycle!Cycles
<1>6. SnapInv(K)' BY DEF CycleInv, SnapInv, Cycle!QuarantineJust, Cycle!Cycles
<1>7. ResumeInv(K)' BY DEF CycleInv, ResumeInv, Resumable, Cycle!Bound, Recovering, Cycle!Cycles
<1> QED BY <1>1, <1>2, <1>3, <1>4, <1>5, <1>6, <1>7 DEF CycleInv
\* A process starts.
LEMMA BootInv ==
  ASSUME NEW K, Cycle(K)!CycleAssumption, CycleInv(K), Cycle(K)!Boot
  PROVE  CycleInv(K)'
<1> USE DEF Cycle!Boot, Cycle!durable, Cycle!process, Cycle!batch, Cycle!shutdown, Cycle!history
<1>1. Cycle(K)!TypeOK'
  <2>1. settings' \in 1..2 /\ boots' \in 0..K.boots BY DEF CycleInv, Cycle!TypeOK, Cycle!CycleAssumption
  <2> QED
    BY <2>1 DEF CycleInv, Cycle!TypeOK, Cycle!Workers, Cycle!Jobs, Cycle!Cycles, Cycle!NoCycle,
       Cycle!Dropped
<1>2. RunInv(K)' BY RunKept
<1>3. WorkInv(K)' BY DEF CycleInv, Cycle!TypeOK, WorkInv, Knows, Cycle!Status, Cycle!Cycles
<1>4. EventInv(K)'
  <2>1. Begun(K)' = Begun(K) BY DEF Begun, Cycle!Cycles
  <2>2. Cycle(K)!Bound' = Cycle(K)!Bound BY DEF Cycle!Bound, Cycle!Cycles
  <2> QED
    BY <2>1, <2>2 DEF CycleInv, Cycle!TypeOK, EventInv, Held, Recovering, Cycle!Cycles, Cycle!NoCycle
<1>5. JobInv(K)' BY DEF CycleInv, JobInv, Proven, Cycle!Status, Cycle!Cycles
<1>6. SnapInv(K)' BY DEF CycleInv, Cycle!TypeOK, SnapInv, Cycle!QuarantineJust, Cycle!First, Cycle!Cycles
<1>7. ResumeInv(K)'
  <2>1. Resumable(K)' = Resumable(K) BY DEF Resumable, Cycle!Bound, Cycle!Cycles
  <2> QED BY <2>1 DEF CycleInv, ResumeInv, Recovering, Cycle!NoCycle
<1> QED BY <1>1, <1>2, <1>3, <1>4, <1>5, <1>6, <1>7 DEF CycleInv

\* Every unfinished cycle has been looked at.
LEMMA RecoveredInv ==
  ASSUME NEW K, Cycle(K)!CycleAssumption, CycleInv(K), Cycle(K)!Recovered
  PROVE  CycleInv(K)'
<1> USE DEF Cycle!Recovered, Cycle!durable, Cycle!process, Cycle!batch, Cycle!shutdown, Cycle!history
<1>1. Cycle(K)!TypeOK'
  BY DEF CycleInv, Cycle!TypeOK, Cycle!Workers, Cycle!Jobs, Cycle!Cycles, Cycle!NoCycle,
     Cycle!CycleAssumption, Cycle!Dropped
<1>2. RunInv(K)' BY RunKept
<1>3. WorkInv(K)' BY DEF CycleInv, Cycle!TypeOK, WorkInv, Knows, Cycle!Status, Cycle!Cycles
<1>4. EventInv(K)'
  <2>1. Begun(K)' = Begun(K) BY DEF Begun, Cycle!Cycles
  <2>2. Cycle(K)!Bound' = Cycle(K)!Bound /\ \A c \in Cycle(K)!Bound : event[c] = "bound"
    BY DEF Cycle!Bound, Cycle!Cycles
  <2> QED
    BY <2>1, <2>2 DEF CycleInv, Cycle!TypeOK, EventInv, Held, Recovering, Cycle!Cycles, Cycle!NoCycle
<1>5. JobInv(K)' BY DEF CycleInv, JobInv, Proven, Cycle!Status, Cycle!Cycles
<1>6. SnapInv(K)' BY DEF CycleInv, Cycle!TypeOK, SnapInv, Cycle!QuarantineJust, Cycle!First, Cycle!Cycles
<1>7. ResumeInv(K)'
  <2>1. Resumable(K)' = Resumable(K) BY DEF Resumable, Cycle!Bound, Cycle!Cycles
  <2> QED BY <2>1 DEF CycleInv, ResumeInv, Recovering, Cycle!NoCycle
<1> QED BY <1>1, <1>2, <1>3, <1>4, <1>5, <1>6, <1>7 DEF CycleInv

\* A completed cycle is replayed.
LEMMA ReplayCompletedInv ==
  ASSUME NEW K, Cycle(K)!CycleAssumption, CycleInv(K), Cycle(K)!ReplayCompleted
  PROVE  CycleInv(K)'
<1> USE DEF Cycle!ReplayCompleted, Cycle!durable, Cycle!process, Cycle!batch, Cycle!shutdown, Cycle!history
<1>1. Cycle(K)!TypeOK'
  BY DEF CycleInv, Cycle!TypeOK, Cycle!Workers, Cycle!Jobs, Cycle!Cycles, Cycle!NoCycle,
     Cycle!CycleAssumption, Cycle!Dropped
<1>2. RunInv(K)' BY RunKept
<1>3. WorkInv(K)' BY DEF CycleInv, Cycle!TypeOK, WorkInv, Knows, Cycle!Status, Cycle!Cycles
<1>4. EventInv(K)'
  <2>1. Begun(K)' = Begun(K) BY DEF Begun, Cycle!Cycles
  <2>2. Cycle(K)!Bound' = Cycle(K)!Bound BY DEF Cycle!Bound, Cycle!Cycles
  <2> QED
    BY <2>1, <2>2 DEF CycleInv, Cycle!TypeOK, EventInv, Held, Recovering, Cycle!Cycles, Cycle!NoCycle
<1>5. JobInv(K)' BY DEF CycleInv, JobInv, Proven, Cycle!Status, Cycle!Cycles
<1>6. SnapInv(K)' BY DEF CycleInv, Cycle!TypeOK, SnapInv, Cycle!QuarantineJust, Cycle!First, Cycle!Cycles
<1>7. ResumeInv(K)'
  <2>1. Resumable(K)' = Resumable(K) BY DEF Resumable, Cycle!Bound, Cycle!Cycles
  <2> QED BY <2>1 DEF CycleInv, ResumeInv, Recovering, Cycle!NoCycle
<1> QED BY <1>1, <1>2, <1>3, <1>4, <1>5, <1>6, <1>7 DEF CycleInv

\* The input is the frozen one.
LEMMA RecoverWakeInv ==
  ASSUME NEW K, Cycle(K)!CycleAssumption, CycleInv(K), Cycle(K)!RecoverWake
  PROVE  CycleInv(K)'
<1> USE DEF Cycle!RecoverWake, Cycle!Fails, Cycle!durable, Cycle!process, Cycle!batch, Cycle!shutdown, Cycle!history
<1>1. Cycle(K)!TypeOK'
  <2>1. cycle \in Cycle(K)!Cycles BY DEF CycleInv, EventInv, Held
  <2>2. wake' \in Nat BY <2>1 DEF CycleInv, Cycle!TypeOK
  <2> QED
    BY <2>2 DEF CycleInv, Cycle!TypeOK, Cycle!Workers, Cycle!Jobs, Cycle!Cycles, Cycle!NoCycle,
       Cycle!Dropped
<1>2. RunInv(K)' BY RunKept
<1>3. WorkInv(K)' BY DEF CycleInv, Cycle!TypeOK, WorkInv, Knows, Cycle!Status, Cycle!Cycles
<1>4. EventInv(K)'
  <2>1. Begun(K)' = Begun(K) BY DEF Begun, Cycle!Cycles
  <2>2. Cycle(K)!Bound' = Cycle(K)!Bound BY DEF Cycle!Bound, Cycle!Cycles
  <2> QED
    BY <2>1, <2>2 DEF CycleInv, Cycle!TypeOK, EventInv, Held, Recovering, Cycle!Cycles, Cycle!NoCycle
<1>5. JobInv(K)' BY DEF CycleInv, JobInv, Proven, Cycle!Status, Cycle!Cycles
<1>6. SnapInv(K)' BY DEF CycleInv, Cycle!TypeOK, SnapInv, Cycle!QuarantineJust, Cycle!First, Cycle!Cycles
<1>7. ResumeInv(K)'
  <2>1. Resumable(K)' = Resumable(K) BY DEF Resumable, Cycle!Bound, Cycle!Cycles
  <2> QED BY <2>1 DEF CycleInv, ResumeInv, Recovering, Cycle!NoCycle
<1> QED BY <1>1, <1>2, <1>3, <1>4, <1>5, <1>6, <1>7 DEF CycleInv

\* The input is read anew.
LEMMA FetchWakeInv ==
  ASSUME NEW K, Cycle(K)!CycleAssumption, CycleInv(K), Cycle(K)!FetchWake
  PROVE  CycleInv(K)'
<1> USE DEF Cycle!FetchWake, Cycle!Fails, Cycle!durable, Cycle!process, Cycle!batch, Cycle!shutdown, Cycle!history
<1>1. Cycle(K)!TypeOK'
  <2>1. wake' \in Nat /\ fetched' \in Nat BY DEF CycleInv, Cycle!TypeOK
  <2> QED
    BY <2>1 DEF CycleInv, Cycle!TypeOK, Cycle!Workers, Cycle!Jobs, Cycle!Cycles, Cycle!NoCycle,
       Cycle!Dropped
<1>2. RunInv(K)' BY RunKept
<1>3. WorkInv(K)' BY DEF CycleInv, Cycle!TypeOK, WorkInv, Knows, Cycle!Status, Cycle!Cycles
<1>4. EventInv(K)'
  <2>1. Begun(K)' = Begun(K) BY DEF Begun, Cycle!Cycles
  <2>2. Cycle(K)!Bound' = Cycle(K)!Bound BY DEF Cycle!Bound, Cycle!Cycles
  <2> QED
    BY <2>1, <2>2 DEF CycleInv, Cycle!TypeOK, EventInv, Held, Recovering, Cycle!Cycles, Cycle!NoCycle
<1>5. JobInv(K)' BY DEF CycleInv, JobInv, Proven, Cycle!Status, Cycle!Cycles
<1>6. SnapInv(K)' BY DEF CycleInv, Cycle!TypeOK, SnapInv, Cycle!QuarantineJust, Cycle!First, Cycle!Cycles
<1>7. ResumeInv(K)'
  <2>1. Resumable(K)' = Resumable(K) BY DEF Resumable, Cycle!Bound, Cycle!Cycles
  <2> QED BY <2>1 DEF CycleInv, ResumeInv, Recovering, Cycle!NoCycle
<1> QED BY <1>1, <1>2, <1>3, <1>4, <1>5, <1>6, <1>7 DEF CycleInv

\* The open positions are looked at, or not.
LEMMA MonitorInv ==
  ASSUME NEW K, Cycle(K)!CycleAssumption, CycleInv(K),
         Cycle(K)!MonitorFails \/ Cycle(K)!MonitorExisting
  PROVE  CycleInv(K)'
<1> USE DEF Cycle!MonitorFails, Cycle!MonitorExisting, Cycle!Fails, Cycle!durable, Cycle!process,
    Cycle!batch, Cycle!shutdown, Cycle!history
<1>1. Cycle(K)!TypeOK'
  BY DEF CycleInv, Cycle!TypeOK, Cycle!Workers, Cycle!Jobs, Cycle!Cycles, Cycle!NoCycle,
     Cycle!CycleAssumption, Cycle!Dropped
<1>2. RunInv(K)' BY RunKept
<1>3. WorkInv(K)' BY DEF CycleInv, Cycle!TypeOK, WorkInv, Knows, Cycle!Status, Cycle!Cycles
<1>4. EventInv(K)'
  <2>1. Begun(K)' = Begun(K) BY DEF Begun, Cycle!Cycles
  <2>2. Cycle(K)!Bound' = Cycle(K)!Bound BY DEF Cycle!Bound, Cycle!Cycles
  <2> QED
    BY <2>1, <2>2 DEF CycleInv, Cycle!TypeOK, EventInv, Held, Recovering, Cycle!Cycles, Cycle!NoCycle
<1>5. JobInv(K)' BY DEF CycleInv, JobInv, Proven, Cycle!Status, Cycle!Cycles
<1>6. SnapInv(K)' BY DEF CycleInv, Cycle!TypeOK, SnapInv, Cycle!QuarantineJust, Cycle!First, Cycle!Cycles
<1>7. ResumeInv(K)'
  <2>1. Resumable(K)' = Resumable(K) BY DEF Resumable, Cycle!Bound, Cycle!Cycles
  <2> QED BY <2>1 DEF CycleInv, ResumeInv, Recovering, Cycle!NoCycle
<1> QED BY <1>1, <1>2, <1>3, <1>4, <1>5, <1>6, <1>7 DEF CycleInv

\* The stages after the batch.
LEMMA LaterStagesInv ==
  ASSUME NEW K, Cycle(K)!CycleAssumption, CycleInv(K), Cycle(K)!LaterStages
  PROVE  CycleInv(K)'
<1> USE DEF Cycle!LaterStages, Cycle!Fails, Cycle!durable, Cycle!process, Cycle!batch, Cycle!shutdown, Cycle!history
<1>1. Cycle(K)!TypeOK'
  BY DEF CycleInv, Cycle!TypeOK, Cycle!Workers, Cycle!Jobs, Cycle!Cycles, Cycle!NoCycle,
     Cycle!CycleAssumption, Cycle!Dropped
<1>2. RunInv(K)' BY RunKept
<1>3. WorkInv(K)' BY DEF CycleInv, Cycle!TypeOK, WorkInv, Knows, Cycle!Status, Cycle!Cycles
<1>4. EventInv(K)'
  <2>1. Begun(K)' = Begun(K) BY DEF Begun, Cycle!Cycles
  <2>2. Cycle(K)!Bound' = Cycle(K)!Bound BY DEF Cycle!Bound, Cycle!Cycles
  <2> QED
    BY <2>1, <2>2 DEF CycleInv, Cycle!TypeOK, EventInv, Held, Recovering, Cycle!Cycles, Cycle!NoCycle
<1>5. JobInv(K)' BY DEF CycleInv, JobInv, Proven, Cycle!Status, Cycle!Cycles
<1>6. SnapInv(K)' BY DEF CycleInv, Cycle!TypeOK, SnapInv, Cycle!QuarantineJust, Cycle!First, Cycle!Cycles
<1>7. ResumeInv(K)'
  <2>1. Resumable(K)' = Resumable(K) BY DEF Resumable, Cycle!Bound, Cycle!Cycles
  <2> QED BY <2>1 DEF CycleInv, ResumeInv, Recovering, Cycle!NoCycle
<1> QED BY <1>1, <1>2, <1>3, <1>4, <1>5, <1>6, <1>7 DEF CycleInv

\* A wait ends.
LEMMA WaitEndsInv ==
  ASSUME NEW K, Cycle(K)!CycleAssumption, CycleInv(K), Cycle(K)!WaitEnds
  PROVE  CycleInv(K)'
<1> USE DEF Cycle!WaitEnds, Cycle!durable, Cycle!process, Cycle!batch, Cycle!shutdown, Cycle!history
<1>1. Cycle(K)!TypeOK'
  BY DEF CycleInv, Cycle!TypeOK, Cycle!Workers, Cycle!Jobs, Cycle!Cycles, Cycle!NoCycle,
     Cycle!CycleAssumption, Cycle!Dropped
<1>2. RunInv(K)' BY RunKept
<1>3. WorkInv(K)' BY DEF CycleInv, Cycle!TypeOK, WorkInv, Knows, Cycle!Status, Cycle!Cycles
<1>4. EventInv(K)'
  <2>1. Begun(K)' = Begun(K) BY DEF Begun, Cycle!Cycles
  <2>2. Cycle(K)!Bound' = Cycle(K)!Bound BY DEF Cycle!Bound, Cycle!Cycles
  <2> QED
    BY <2>1, <2>2 DEF CycleInv, Cycle!TypeOK, EventInv, Held, Recovering, Cycle!Cycles, Cycle!NoCycle
<1>5. JobInv(K)' BY DEF CycleInv, JobInv, Proven, Cycle!Status, Cycle!Cycles
<1>6. SnapInv(K)' BY DEF CycleInv, Cycle!TypeOK, SnapInv, Cycle!QuarantineJust, Cycle!First, Cycle!Cycles
<1>7. ResumeInv(K)'
  <2>1. Resumable(K)' = Resumable(K) BY DEF Resumable, Cycle!Bound, Cycle!Cycles
  <2> QED BY <2>1 DEF CycleInv, ResumeInv, Recovering, Cycle!NoCycle
<1> QED BY <1>1, <1>2, <1>3, <1>4, <1>5, <1>6, <1>7 DEF CycleInv

\* The stop signal.
LEMMA StopSignalInv ==
  ASSUME NEW K, Cycle(K)!CycleAssumption, CycleInv(K), Cycle(K)!StopSignal
  PROVE  CycleInv(K)'
<1> USE DEF Cycle!StopSignal, Cycle!durable, Cycle!process, Cycle!batch, Cycle!shutdown, Cycle!history
<1>1. Cycle(K)!TypeOK'
  BY DEF CycleInv, Cycle!TypeOK, Cycle!Workers, Cycle!Jobs, Cycle!Cycles, Cycle!NoCycle,
     Cycle!CycleAssumption, Cycle!Dropped
<1>2. RunInv(K)' BY RunKept
<1>3. WorkInv(K)' BY DEF CycleInv, Cycle!TypeOK, WorkInv, Knows, Cycle!Status, Cycle!Cycles
<1>4. EventInv(K)' BY EventKept
<1>5. JobInv(K)' BY DEF CycleInv, JobInv, Proven, Cycle!Status, Cycle!Cycles
<1>6. SnapInv(K)' BY DEF CycleInv, Cycle!TypeOK, SnapInv, Cycle!QuarantineJust, Cycle!First, Cycle!Cycles
<1>7. ResumeInv(K)'
  <2>1. Resumable(K)' = Resumable(K) BY DEF Resumable, Cycle!Bound, Cycle!Cycles
  <2> QED BY <2>1 DEF CycleInv, ResumeInv, Recovering, Cycle!NoCycle
<1> QED BY <1>1, <1>2, <1>3, <1>4, <1>5, <1>6, <1>7 DEF CycleInv
\* A fault of the database: the stored snapshot is damaged.
LEMMA SpoilInv ==
  ASSUME NEW K, Cycle(K)!CycleAssumption, CycleInv(K), NEW c \in Cycle(K)!Cycles, Cycle(K)!Spoil(c)
  PROVE  CycleInv(K)'
<1> USE DEF Cycle!Spoil, Cycle!process, Cycle!batch, Cycle!shutdown, Cycle!history
<1>1. Cycle(K)!TypeOK'
  BY DEF CycleInv, Cycle!TypeOK, Cycle!Workers, Cycle!Jobs, Cycle!Cycles, Cycle!NoCycle, Cycle!Dropped
<1>2. RunInv(K)' BY RunKept
<1>3. WorkInv(K)' BY DEF CycleInv, WorkInv, Knows, Cycle!Status, Cycle!Cycles
<1>4. EventInv(K)' BY EventKept
<1>5. JobInv(K)' BY DEF CycleInv, JobInv, Proven, Cycle!Status, Cycle!Cycles
<1>a. \A d \in Cycle(K)!Cycles : spoiled[d] => spoiled'[d] BY DEF CycleInv, Cycle!TypeOK
<1>6. SnapInv(K)'
  <2>1. phase = "drop" /\ error = "snapshot" => Cycle(K)!First \in Cycle(K)!Cycles
    BY FirstIn DEF CycleInv, Cycle!TypeOK, EventInv
  <2>2. Cycle(K)!First' = Cycle(K)!First BY DEF Cycle!First
  <2>3. phase \in {"error", "recorded"} => cycle \in Cycle(K)!Cycles BY DEF CycleInv, EventInv, Held
  <2> QED BY <1>a, <2>1, <2>2, <2>3 DEF CycleInv, SnapInv, Cycle!QuarantineJust, Cycle!Cycles
<1>7. ResumeInv(K)'
  <2>1. Resumable(K)' \subseteq Resumable(K) BY <1>a DEF Resumable, Cycle!Bound, Cycle!Cycles
  <2> QED BY <2>1 DEF CycleInv, ResumeInv, Recovering, Cycle!NoCycle
<1> QED BY <1>1, <1>2, <1>3, <1>4, <1>5, <1>6, <1>7 DEF CycleInv

\* The next cycle is the one in hand, or one that has not been begun.
LEMMA NextCycleInv ==
  ASSUME NEW K, Cycle(K)!CycleAssumption, CycleInv(K), Cycle(K)!NextCycle
  PROVE  CycleInv(K)'
<1> USE DEF Cycle!NextCycle, Cycle!durable, Cycle!batch, Cycle!history
<1>0. cycle' \in Cycle(K)!Cycles BY DEF CycleInv, Cycle!TypeOK
<1>1. Cycle(K)!TypeOK'
  BY <1>0 DEF CycleInv, Cycle!TypeOK, Cycle!Workers, Cycle!Jobs, Cycle!Cycles, Cycle!NoCycle,
     Cycle!Dropped
<1>2. RunInv(K)' BY RunKept
<1>3. WorkInv(K)' BY DEF CycleInv, Cycle!TypeOK, WorkInv, Knows, Cycle!Status, Cycle!Cycles
<1>4. EventInv(K)'
  <2>1. Begun(K)' = Begun(K) /\ Cycle(K)!Fresh' = Cycle(K)!Fresh BY DEF Begun, Cycle!Fresh, Cycle!Cycles
  <2>2. PICK n \in 0..K.cycles : Begun(K) = 1..n BY DEF CycleInv, EventInv
  <2>3. Cycle(K)!Fresh = n + 1 BY <2>2, FreshIs
  <2>4. Cycle(K)!Fresh \in Cycle(K)!Cycles => event[Cycle(K)!Fresh] = "none"
    <3>1. Cycle(K)!Fresh \notin Begun(K) BY <2>2, <2>3
    <3> QED BY <3>1 DEF Begun
  <2>5. event' = event /\ cycle' = IF cycle = Cycle(K)!NoCycle THEN Cycle(K)!Fresh ELSE cycle OBVIOUS
  <2>6. /\ event[cycle'] \in {"none", "bound", "completed"}
        /\ event[cycle'] = "none" => cycle' = Cycle(K)!Fresh
    BY <1>0, <2>4 DEF CycleInv, EventInv
  <2> QED BY <1>0, <2>1, <2>2, <2>6 DEF CycleInv, EventInv, Held, Recovering, Cycle!NoCycle
<1>5. JobInv(K)' BY DEF CycleInv, JobInv, Proven, Cycle!Status, Cycle!Cycles
<1>6. SnapInv(K)' BY DEF CycleInv, SnapInv, Cycle!QuarantineJust, Cycle!Cycles
<1>7. ResumeInv(K)'
  <2>1. Resumable(K)' = Resumable(K) BY DEF Resumable, Cycle!Bound, Cycle!Cycles
  <2>2. Cycle(K)!NoCycle \notin Resumable(K) BY DEF Resumable, Cycle!Bound, Cycle!Cycles, Cycle!NoCycle
  <2> QED BY <2>1, <2>2 DEF CycleInv, ResumeInv, Recovering
<1> QED BY <1>1, <1>2, <1>3, <1>4, <1>5, <1>6, <1>7 DEF CycleInv

\* The cycle is bound, unless it was.
LEMMA BindCycleInv ==
  ASSUME NEW K, Cycle(K)!CycleAssumption, CycleInv(K), Cycle(K)!BindCycle
  PROVE  CycleInv(K)'
<1> USE DEF Cycle!BindCycle, Cycle!batch, Cycle!shutdown, Cycle!history
<1>0. cycle \in Cycle(K)!Cycles /\ cycle' = cycle BY DEF CycleInv, EventInv, Held
<1>a. \A c \in Cycle(K)!Cycles : event'[c] = IF c = cycle /\ event[c] = "none" THEN "bound" ELSE event[c]
  BY DEF CycleInv, Cycle!TypeOK
<1>1. Cycle(K)!TypeOK'
  <2>1. event' \in [Cycle(K)!Cycles -> {"none", "bound", "completed"} \cup Cycle(K)!Dropped]
    BY <1>0 DEF CycleInv, Cycle!TypeOK
  <2>2. boundTo' \in [Cycle(K)!Cycles -> 0..2] BY <1>0 DEF CycleInv, Cycle!TypeOK
  <2> QED
    BY <1>0, <2>1, <2>2 DEF CycleInv, Cycle!TypeOK, Cycle!Workers, Cycle!Jobs, Cycle!Cycles,
       Cycle!NoCycle, Cycle!Dropped
<1>2. RunInv(K)' BY RunKept
<1>3. WorkInv(K)' BY DEF CycleInv, Cycle!TypeOK, WorkInv, Knows, Cycle!Status, Cycle!Cycles
<1>4. EventInv(K)'
  <2>2. PICK n \in 0..K.cycles : Begun(K) = 1..n BY DEF CycleInv, EventInv
  <2>3. Cycle(K)!Fresh = n + 1 BY <2>2, FreshIs
  <2>4. \E m \in 0..K.cycles : Begun(K)' = 1..m
    <3>1. CASE event[cycle] = "none"
      <4>1. cycle = n + 1 /\ n \in Nat BY <2>3, <3>1 DEF CycleInv, EventInv, Cycle!CycleAssumption
      <4>2. Begun(K)' = Begun(K) \cup {cycle} BY <1>0, <1>a, <3>1 DEF Begun, Cycle!Cycles
      <4>3. n + 1 \in 0..K.cycles BY <1>0, <4>1 DEF Cycle!Cycles, Cycle!CycleAssumption
      <4>4. Begun(K)' = 1..(n + 1) BY <2>2, <4>1, <4>2
      <4> QED BY <4>3, <4>4
    <3>2. CASE event[cycle] # "none"
      <4>1. Begun(K)' = Begun(K) BY <1>a, <3>2 DEF Begun, Cycle!Cycles
      <4> QED BY <2>2, <4>1
    <3> QED BY <3>1, <3>2
  <2>5. event'[cycle] \in {"bound", "completed"} BY <1>0, <1>a DEF CycleInv, EventInv
  <2>6. \A c \in Cycle(K)!Cycles : event'[c] # "superseded" BY <1>a DEF CycleInv, EventInv
  <2> QED BY <1>0, <2>4, <2>5, <2>6 DEF CycleInv, EventInv, Held, Recovering, Cycle!NoCycle, Cycle!Cycles
<1>5. JobInv(K)' BY <1>a DEF CycleInv, JobInv, Proven, Cycle!Status, Cycle!Cycles
<1>6. SnapInv(K)' BY <1>a DEF CycleInv, SnapInv, Cycle!QuarantineJust, Cycle!Cycles
<1>7. ResumeInv(K)'
  <2>1. Resumable(K)' = Resumable(K)
    <3>1. \A c \in Cycle(K)!Cycles : c \in Resumable(K)' <=> c \in Resumable(K)
      BY <1>a DEF Resumable, Cycle!Bound, Cycle!Cycles, CycleInv, SnapInv
    <3> QED BY <3>1 DEF Resumable, Cycle!Bound, Cycle!Cycles
  <2> QED BY <1>0, <2>1 DEF CycleInv, ResumeInv, Recovering, Cycle!NoCycle
<1> QED BY <1>1, <1>2, <1>3, <1>4, <1>5, <1>6, <1>7 DEF CycleInv
-----------------------------------------------------------------------------
\* What the transactions on runs and jobs do, role by role.
RunsTyped(K) ==
  run \in [Cycle(K)!Cycles -> [K.scouts -> [status : {"none", "running", "succeeded", "failed", "cancelled"},
                                 attempts : 0..K.attempts]]]

LEMMA CancelsRuns ==
  ASSUME NEW K, Cycle(K)!CycleAssumption, CycleInv(K), NEW c \in Cycle(K)!Cycles, Cycle(K)!TerminalRuns(c)
  PROVE  /\ RunsTyped(K)'
         /\ \A d \in Cycle(K)!Cycles, s \in K.scouts :
              /\ run'[d][s].attempts = run[d][s].attempts
              /\ Cycle(K)!Status(d, s)' = IF d = c /\ Cycle(K)!Status(d, s) = "running" THEN "cancelled" ELSE Cycle(K)!Status(d, s)
<1>1. RunsTyped(K) BY DEF CycleInv, Cycle!TypeOK, RunsTyped
<1>2. \A d \in Cycle(K)!Cycles, s \in K.scouts :
        run'[d][s] = IF d = c /\ Cycle(K)!Status(d, s) = "running"
                     THEN [status |-> "cancelled", attempts |-> run[d][s].attempts] ELSE run[d][s]
  BY <1>1 DEF Cycle!TerminalRuns, RunsTyped, Cycle!Status
<1>3. run' = [run EXCEPT ![c] = run'[c]] BY <1>1 DEF Cycle!TerminalRuns, RunsTyped
<1>4. run'[c] \in [K.scouts -> [status : {"none", "running", "succeeded", "failed", "cancelled"},
                              attempts : 0..K.attempts]]
  BY <1>1 DEF Cycle!TerminalRuns, RunsTyped, Cycle!Status
<1>5. RunsTyped(K)' BY <1>1, <1>3, <1>4 DEF RunsTyped
<1>6. \A d \in Cycle(K)!Cycles, s \in K.scouts :
        /\ run'[d][s].attempts = run[d][s].attempts
        /\ run'[d][s].status = IF d = c /\ run[d][s].status = "running" THEN "cancelled"
                              ELSE run[d][s].status
  <2> TAKE d \in Cycle(K)!Cycles, s \in K.scouts
  <2>1. CASE d = c /\ Cycle(K)!Status(d, s) = "running"
    <3>1. run'[d][s] = [status |-> "cancelled", attempts |-> run[d][s].attempts] BY <1>2, <2>1
    <3> QED BY <2>1, <3>1 DEF Cycle!Status
  <2>2. CASE ~(d = c /\ Cycle(K)!Status(d, s) = "running")
    <3>1. run'[d][s] = run[d][s] BY <1>2, <2>2
    <3> QED BY <2>2, <3>1 DEF Cycle!Status
  <2> QED BY <2>1, <2>2
<1> QED BY <1>5, <1>6 DEF Cycle!Status

LEMMA FailsTyped ==
  ASSUME NEW K, Cycle(K)!CycleAssumption, CycleInv(K), NEW c \in Cycle(K)!Cycles, NEW s \in K.scouts,
         Cycle(K)!Status(c, s) = "running", Cycle(K)!FailedRun(c, s)
  PROVE  RunsTyped(K)' /\ artifact' \in [Cycle(K)!Cycles -> [K.scouts -> SUBSET (1..K.attempts)]]
<1>1. RunsTyped(K) /\ artifact \in [Cycle(K)!Cycles -> [K.scouts -> SUBSET (1..K.attempts)]]
  BY DEF CycleInv, Cycle!TypeOK, RunsTyped
<1>2. run[c][s].attempts \in 1..K.attempts
  BY <1>1 DEF CycleInv, RunInv, Cycle!Status, RunsTyped, Cycle!CycleAssumption
<1>3. RunsTyped(K)' BY <1>1 DEF Cycle!FailedRun, RunsTyped
<1>4. artifact' \in [Cycle(K)!Cycles -> [K.scouts -> SUBSET (1..K.attempts)]]
  BY <1>1, <1>2 DEF Cycle!FailedRun
<1> QED BY <1>3, <1>4

\* What a failed run says, and what the others still do.
FailsOne(K, c, s) ==
  \A d \in Cycle(K)!Cycles, t \in K.scouts :
    /\ run'[d][t].attempts = run[d][t].attempts
    /\ Cycle(K)!Status(d, t)' = IF d = c /\ t = s THEN "failed" ELSE Cycle(K)!Status(d, t)
    /\ artifact'[d][t] = IF d = c /\ t = s THEN artifact[d][t] \cup {run[d][t].attempts}
                         ELSE artifact[d][t]

LEMMA FailsRun ==
  ASSUME NEW K, Cycle(K)!CycleAssumption, CycleInv(K), NEW c \in Cycle(K)!Cycles, NEW s \in K.scouts,
         Cycle(K)!FailedRun(c, s)
  PROVE  FailsOne(K, c, s)
<1>1. RunsTyped(K) /\ artifact \in [Cycle(K)!Cycles -> [K.scouts -> SUBSET (1..K.attempts)]]
  BY DEF CycleInv, Cycle!TypeOK, RunsTyped
<1>2. \A d \in Cycle(K)!Cycles, t \in K.scouts :
        /\ run'[d][t].attempts = run[d][t].attempts
        /\ run'[d][t].status = IF d = c /\ t = s THEN "failed" ELSE run[d][t].status
  BY <1>1 DEF Cycle!FailedRun, RunsTyped
<1>3. \A d \in Cycle(K)!Cycles, t \in K.scouts :
        artifact'[d][t] = IF d = c /\ t = s THEN artifact[d][t] \cup {run[d][t].attempts} ELSE artifact[d][t]
  BY <1>1 DEF Cycle!FailedRun
<1> QED BY <1>2, <1>3 DEF FailsOne, Cycle!Status

LEMMA RunFailed ==
  ASSUME NEW K, Cycle(K)!CycleAssumption, CycleInv(K), NEW c \in Cycle(K)!Cycles, NEW s \in K.scouts,
         Cycle(K)!Status(c, s) = "running", Cycle(K)!FailedRun(c, s),
         UNCHANGED <<minds, calls>>
  PROVE  RunInv(K)'
<1>1. \A d \in Cycle(K)!Cycles, t \in K.scouts :
        /\ run'[d][t].attempts = run[d][t].attempts
        /\ Cycle(K)!Status(d, t)' = IF d = c /\ t = s THEN "failed" ELSE Cycle(K)!Status(d, t)
        /\ artifact'[d][t] = IF d = c /\ t = s THEN artifact[d][t] \cup {run[d][t].attempts}
                             ELSE artifact[d][t]
  BY FailsRun DEF FailsOne
<1>2. Cycle(K)!MindsCounted' BY <1>1, MindsKept
<1>3. Cycle(K)!FailuresKept'
  <2>1. ASSUME NEW d \in Cycle(K)!Cycles, NEW t \in K.scouts
        PROVE  /\ Cycle(K)!Status(d, t)' = "failed" => run'[d][t].attempts \in artifact'[d][t]
               /\ Cycle(K)!Status(d, t)' \in {"running", "succeeded", "cancelled"} =>
                    run'[d][t].attempts \notin artifact'[d][t]
    <3>1. CASE d = c /\ t = s BY <1>1, <3>1
    <3>2. CASE ~(d = c /\ t = s)
      <4>1. /\ Cycle(K)!Status(d, t) = "failed" => run[d][t].attempts \in artifact[d][t]
            /\ Cycle(K)!Status(d, t) \in {"running", "succeeded", "cancelled"} =>
                 run[d][t].attempts \notin artifact[d][t]
        BY DEF CycleInv, RunInv, Cycle!FailuresKept
      <4> QED BY <1>1, <3>2, <4>1
    <3> QED BY <3>1, <3>2
  <2> QED BY <2>1 DEF Cycle!FailuresKept, Cycle!Cycles
<1>4. \A d \in Cycle(K)!Cycles, t \in K.scouts :
        /\ Cycle(K)!Status(d, t)' = "none" <=> run'[d][t].attempts = 0
        /\ calls'[d][t] <= run'[d][t].attempts
        /\ artifact'[d][t] \subseteq 1..run'[d][t].attempts
  <2> TAKE d \in Cycle(K)!Cycles, t \in K.scouts
  <2>1. /\ Cycle(K)!Status(d, t) = "none" <=> run[d][t].attempts = 0
        /\ calls[d][t] <= run[d][t].attempts
        /\ artifact[d][t] \subseteq 1..run[d][t].attempts
    BY DEF CycleInv, RunInv
  <2>2. run[d][t].attempts \in Nat BY DEF CycleInv, Cycle!TypeOK, Cycle!CycleAssumption
  <2>3. CASE d = c /\ t = s
    <3>1. run[d][t].attempts # 0 BY <2>1, <2>3
    <3>2. /\ run'[d][t].attempts = run[d][t].attempts /\ Cycle(K)!Status(d, t)' = "failed"
          /\ artifact'[d][t] = artifact[d][t] \cup {run[d][t].attempts} /\ calls' = calls
      BY <1>1, <2>3
    <3>3. artifact'[d][t] \subseteq 1..run'[d][t].attempts BY <2>1, <2>2, <3>1, <3>2
    <3>4. Cycle(K)!Status(d, t)' = "none" <=> run'[d][t].attempts = 0 BY <3>1, <3>2
    <3> QED BY <2>1, <3>2, <3>3, <3>4
  <2>4. CASE ~(d = c /\ t = s) BY <1>1, <2>1, <2>4
  <2> QED BY <2>3, <2>4
<1> QED BY <1>2, <1>3, <1>4 DEF RunInv, Cycle!Cycles

LEMMA EndsJob ==
  ASSUME NEW K, Cycle(K)!CycleAssumption, CycleInv(K), NEW c \in Cycle(K)!Cycles,
         NEW target \in Cycle(K)!Jobs, Cycle(K)!FinishJob(c, target)
  PROVE  /\ job' \in [Cycle(K)!Cycles -> Cycle(K)!Jobs]
         /\ \A d \in Cycle(K)!Cycles : job'[d] = IF d = c /\ job[d] = "running" THEN target ELSE job[d]
BY DEF Cycle!FinishJob, CycleInv, Cycle!TypeOK

\* Runs that change no success and no artifact, and stay as they are otherwise.
LEMMA RunsCancelled ==
  ASSUME NEW K, Cycle(K)!CycleAssumption, CycleInv(K), NEW c \in Cycle(K)!Cycles,
         Cycle(K)!TerminalRuns(c), UNCHANGED <<artifact, minds, calls>>
  PROVE  RunInv(K)'
<1>1. \A d \in Cycle(K)!Cycles, s \in K.scouts :
        /\ run'[d][s].attempts = run[d][s].attempts
        /\ Cycle(K)!Status(d, s)' = IF d = c /\ Cycle(K)!Status(d, s) = "running" THEN "cancelled" ELSE Cycle(K)!Status(d, s)
  BY CancelsRuns
<1>2. Cycle(K)!MindsCounted' BY <1>1, MindsKept
<1>3. Cycle(K)!FailuresKept' BY <1>1 DEF CycleInv, RunInv, Cycle!FailuresKept, Cycle!Cycles
<1>4. \A d \in Cycle(K)!Cycles, s \in K.scouts :
        /\ Cycle(K)!Status(d, s)' = "none" <=> run'[d][s].attempts = 0
        /\ calls'[d][s] <= run'[d][s].attempts
        /\ artifact'[d][s] \subseteq 1..run'[d][s].attempts
  BY <1>1 DEF CycleInv, RunInv
<1> QED BY <1>2, <1>3, <1>4 DEF RunInv, Cycle!Cycles
\* The roles of S get another attempt in cycle c.
LEMMA RunsOpened ==
  ASSUME NEW K, Cycle(K)!CycleAssumption, CycleInv(K), NEW c \in Cycle(K)!Cycles,
         NEW S \in SUBSET K.scouts, \A s \in S : Cycle(K)!Opens(c, s),
         \A d \in Cycle(K)!Cycles, t \in K.scouts :
           run'[d][t] = IF d = c /\ t \in S THEN Cycle(K)!Opened(run[d][t]) ELSE run[d][t],
         UNCHANGED <<artifact, minds, calls>>
  PROVE  /\ RunInv(K)'
         /\ \A s \in S : run[c][s].attempts + 1 \in 0..K.attempts
<1>1. RunsTyped(K) BY DEF CycleInv, Cycle!TypeOK, RunsTyped
<1>2. \A s \in S : Cycle(K)!Status(c, s) \in {"none", "failed", "cancelled"} /\ run[c][s].attempts + 1 \in 0..K.attempts
  BY <1>1 DEF Cycle!Opens, CycleInv, RunInv, RunsTyped, Cycle!CycleAssumption
<1>3. \A d \in Cycle(K)!Cycles, t \in K.scouts :
        /\ run'[d][t].attempts = IF d = c /\ t \in S THEN run[d][t].attempts + 1 ELSE run[d][t].attempts
        /\ Cycle(K)!Status(d, t)' = IF d = c /\ t \in S THEN "running" ELSE Cycle(K)!Status(d, t)
  <2> TAKE d \in Cycle(K)!Cycles, t \in K.scouts
  <2>1. CASE d = c /\ t \in S
    <3>1. run'[d][t] = [status |-> "running", attempts |-> run[d][t].attempts + 1]
      BY <2>1 DEF Cycle!Opened
    <3> QED BY <2>1, <3>1 DEF Cycle!Status
  <2>2. CASE ~(d = c /\ t \in S)
    <3>1. run'[d][t] = run[d][t] BY <2>2
    <3> QED BY <2>2, <3>1 DEF Cycle!Status
  <2> QED BY <2>1, <2>2
<1>4. Cycle(K)!MindsCounted'
  <2>1. \A d \in Cycle(K)!Cycles, t \in K.scouts : (Cycle(K)!Status(d, t) = "succeeded") <=> (Cycle(K)!Status(d, t)' = "succeeded")
    BY <1>2, <1>3
  <2> QED BY <2>1, MindsKept
<1>5. ASSUME NEW d \in Cycle(K)!Cycles, NEW t \in K.scouts
      PROVE  /\ Cycle(K)!Status(d, t)' = "failed" => run'[d][t].attempts \in artifact'[d][t]
             /\ Cycle(K)!Status(d, t)' \in {"running", "succeeded", "cancelled"} =>
                  run'[d][t].attempts \notin artifact'[d][t]
             /\ Cycle(K)!Status(d, t)' = "none" <=> run'[d][t].attempts = 0
             /\ calls'[d][t] <= run'[d][t].attempts
             /\ artifact'[d][t] \subseteq 1..run'[d][t].attempts
  <2>1. /\ Cycle(K)!Status(d, t) = "failed" => run[d][t].attempts \in artifact[d][t]
        /\ Cycle(K)!Status(d, t) \in {"running", "succeeded", "cancelled"} =>
             run[d][t].attempts \notin artifact[d][t]
        /\ Cycle(K)!Status(d, t) = "none" <=> run[d][t].attempts = 0
        /\ calls[d][t] <= run[d][t].attempts
        /\ artifact[d][t] \subseteq 1..run[d][t].attempts
    BY DEF CycleInv, RunInv, Cycle!FailuresKept
  <2>2. run[d][t].attempts \in Nat /\ calls[d][t] \in Nat
    BY DEF CycleInv, Cycle!TypeOK, Cycle!CycleAssumption
  <2>3. CASE d = c /\ t \in S
    <3>1. /\ run'[d][t].attempts = run[d][t].attempts + 1 /\ Cycle(K)!Status(d, t)' = "running"
          /\ artifact'[d][t] = artifact[d][t] /\ calls'[d][t] = calls[d][t]
      BY <1>3, <2>3
    <3>2. run'[d][t].attempts \notin artifact'[d][t] /\ artifact'[d][t] \subseteq 1..run'[d][t].attempts
      BY <2>1, <2>2, <3>1
    <3>3. run'[d][t].attempts # 0 /\ calls'[d][t] <= run'[d][t].attempts BY <2>1, <2>2, <3>1
    <3> QED BY <3>1, <3>2, <3>3
  <2>4. CASE ~(d = c /\ t \in S) BY <1>3, <2>1, <2>4
  <2> QED BY <2>3, <2>4
<1>6. Cycle(K)!FailuresKept' BY <1>5 DEF Cycle!FailuresKept, Cycle!Cycles
<1> QED BY <1>2, <1>4, <1>5, <1>6 DEF RunInv, Cycle!Cycles

\* A role succeeds, and its mind counts it.
SucceededRun(K, c, s) == run' = [run EXCEPT ![c][s].status = "succeeded"]
SucceedsOne(K, c, s) ==
  \A d \in Cycle(K)!Cycles, t \in K.scouts :
    /\ run'[d][t].attempts = run[d][t].attempts
    /\ Cycle(K)!Status(d, t)' = IF d = c /\ t = s THEN "succeeded" ELSE Cycle(K)!Status(d, t)

LEMMA SucceedsOnly ==
  ASSUME NEW K, Cycle(K)!CycleAssumption, CycleInv(K), NEW c \in Cycle(K)!Cycles, NEW s \in K.scouts,
         SucceededRun(K, c, s)
  PROVE  SucceedsOne(K, c, s)
<1>1. RunsTyped(K) BY DEF CycleInv, Cycle!TypeOK, RunsTyped
<1>2. \A d \in Cycle(K)!Cycles, t \in K.scouts :
        /\ run'[d][t].attempts = run[d][t].attempts
        /\ run'[d][t].status = IF d = c /\ t = s THEN "succeeded" ELSE run[d][t].status
  BY <1>1 DEF RunsTyped, SucceededRun
<1> QED BY <1>2 DEF SucceedsOne, Cycle!Status

LEMMA RunSucceeds ==
  ASSUME NEW K, Cycle(K)!CycleAssumption, CycleInv(K), NEW c \in Cycle(K)!Cycles, NEW s \in K.scouts,
         Cycle(K)!Status(c, s) = "running",
         SucceededRun(K, c, s), minds' = [minds EXCEPT ![s] = @ + 1],
         UNCHANGED <<artifact, calls>>
  PROVE  /\ RunInv(K)' /\ RunsTyped(K)' /\ minds' \in [K.scouts -> 0..K.cycles]
<1>1. RunsTyped(K) /\ minds \in [K.scouts -> 0..K.cycles] BY DEF CycleInv, Cycle!TypeOK, RunsTyped
<1>2. RunsTyped(K)'
  <2> DEFINE Run == [status : {"none", "running", "succeeded", "failed", "cancelled"},
                     attempts : 0..K.attempts]
             r == [status |-> "succeeded", attempts |-> run[c][s].attempts]
  <2>1. run \in [Cycle(K)!Cycles -> [K.scouts -> Run]] BY <1>1 DEF RunsTyped
  <2>2. r \in Run BY <2>1
  <2>3. [run[c][s] EXCEPT !.status = "succeeded"] = r BY <2>1
  <2>4. run' = [run EXCEPT ![c] = [run[c] EXCEPT ![s] = r]] BY <2>1, <2>3 DEF SucceededRun
  <2> HIDE DEF Run, r
  <2>5. run' \in [Cycle(K)!Cycles -> [K.scouts -> Run]] BY <2>1, <2>2, <2>4
  <2> QED BY <2>5 DEF RunsTyped, Run
<1>3. \A d \in Cycle(K)!Cycles, t \in K.scouts :
        /\ run'[d][t].attempts = run[d][t].attempts
        /\ Cycle(K)!Status(d, t)' = IF d = c /\ t = s THEN "succeeded" ELSE Cycle(K)!Status(d, t)
  BY SucceedsOnly DEF SucceedsOne
<1>4. \A t \in K.scouts : minds[t] = Cardinality(Succeeded(K, t))
  BY CardIs DEF CycleInv, RunInv, Cycle!MindsCounted, Succeeded
<1>5. ASSUME NEW t \in K.scouts PROVE minds'[t] = Cardinality(Succeeded(K, t)')
  <2>1. CASE t = s
    <3>1. Succeeded(K, t)' = Succeeded(K, t) \cup {c} /\ c \notin Succeeded(K, t)
      BY <1>3, <2>1 DEF Succeeded, Cycle!Cycles
    <3>2. Cardinality(Succeeded(K, t)') = Cardinality(Succeeded(K, t)) + 1
      BY <3>1, SucceededFinite, FS_AddElement
    <3> QED BY <1>1, <1>4, <2>1, <3>2
  <2>2. CASE t # s
    <3>1. Succeeded(K, t)' = Succeeded(K, t) BY <1>3, <2>2 DEF Succeeded, Cycle!Cycles
    <3> QED BY <1>1, <1>4, <2>2, <3>1
  <2> QED BY <2>1, <2>2
<1>6. Cycle(K)!MindsCounted' BY <1>5, CardIs DEF Cycle!MindsCounted, Succeeded, Cycle!Cycles
<1>7. minds' \in [K.scouts -> 0..K.cycles]
  <2>1. \A t \in K.scouts : minds'[t] \in 0..K.cycles BY <1>5, SucceededFinite
  <2>2. minds' \in [K.scouts -> Nat] BY <1>1 DEF Cycle!CycleAssumption
  <2> QED BY <2>1, <2>2
<1>8. Cycle(K)!FailuresKept' BY <1>3 DEF CycleInv, RunInv, Cycle!FailuresKept, Cycle!Cycles
<1>9. \A d \in Cycle(K)!Cycles, t \in K.scouts :
        /\ Cycle(K)!Status(d, t)' = "none" <=> run'[d][t].attempts = 0
        /\ calls'[d][t] <= run'[d][t].attempts
        /\ artifact'[d][t] \subseteq 1..run'[d][t].attempts
  BY <1>3 DEF CycleInv, RunInv
<1> QED BY <1>2, <1>3, <1>6, <1>7, <1>8, <1>9 DEF RunInv, Cycle!Cycles
-----------------------------------------------------------------------------
\* What a change of runs and jobs alone leaves as it was.
LEMMA BooksKept ==
  ASSUME NEW K, Cycle(K)!CycleAssumption, CycleInv(K), UNCHANGED <<event, boundTo, snapshot, spoiled,
         Cycle(K)!process, stop>>
  PROVE  EventInv(K)' /\ SnapInv(K)' /\ ResumeInv(K)'
<1> USE DEF Cycle!process
<1>1. EventInv(K)' BY EventKept
<1>2. Cycle(K)!First' = Cycle(K)!First BY DEF Cycle!First
<1>3. SnapInv(K)' BY <1>2 DEF CycleInv, SnapInv, Cycle!QuarantineJust, Cycle!Cycles
<1>4. Resumable(K)' = Resumable(K) BY DEF Resumable, Cycle!Bound, Cycle!Cycles
<1>5. ResumeInv(K)' BY <1>4 DEF CycleInv, ResumeInv, Recovering, Cycle!NoCycle
<1> QED BY <1>1, <1>3, <1>5

LEMMA WorkersKeep ==
  ASSUME NEW K, Cycle(K)!CycleAssumption, CycleInv(K), UNCHANGED Cycle(K)!KeptByWorkers,
         \A c \in Cycle(K)!Cycles, s \in K.scouts : Cycle(K)!Status(c, s) = "succeeded" => Cycle(K)!Status(c, s)' = "succeeded"
  PROVE  EventInv(K)' /\ JobInv(K)' /\ SnapInv(K)' /\ ResumeInv(K)'
<1> USE DEF Cycle!KeptByWorkers, Cycle!shutdown
<1>1. EventInv(K)' /\ SnapInv(K)' /\ ResumeInv(K)' BY BooksKept
<1>2. \A c \in Cycle(K)!Cycles : Proven(K, c) => Proven(K, c)' BY DEF Proven
<1>3. phase \in Held => cycle \in Cycle(K)!Cycles BY DEF CycleInv, EventInv
<1>4. JobInv(K)'
  <2>1. \A c \in Cycle(K)!Cycles : job'[c] = "succeeded" \/ event'[c] = "completed" => Proven(K, c)'
    BY <1>2 DEF CycleInv, JobInv
  <2>2. phase' \in {"later", "persist"} => Proven(K, cycle)'
    BY <1>2, <1>3 DEF CycleInv, JobInv, Held, Cycle!process, Proven
  <2> QED BY <2>1, <2>2 DEF CycleInv, JobInv, Cycle!process, Cycle!Cycles, Proven
<1> QED BY <1>1, <1>4

\* Startup fails a run whose deadline has passed.
LEMMA ExpireRunInv ==
  ASSUME NEW K, Cycle(K)!CycleAssumption, CycleInv(K), NEW c \in Cycle(K)!Cycles, NEW s \in K.scouts,
         Cycle(K)!ExpireRun(c, s)
  PROVE  CycleInv(K)'
<1> USE DEF Cycle!ExpireRun, Cycle!batch, Cycle!history
<1>a. RunsTyped(K)' /\ artifact' \in [Cycle(K)!Cycles -> [K.scouts -> SUBSET (1..K.attempts)]]
  BY FailsTyped
<1>b. \A d \in Cycle(K)!Cycles, t \in K.scouts :
        Cycle(K)!Status(d, t)' = IF d = c /\ t = s THEN "failed" ELSE Cycle(K)!Status(d, t)
  <2>1. FailsOne(K, c, s) BY FailsRun
  <2> QED BY <2>1 DEF FailsOne
<1>1. Cycle(K)!TypeOK'
  BY <1>a DEF CycleInv, Cycle!TypeOK, Cycle!process, Cycle!shutdown, Cycle!Workers, Cycle!Jobs,
     Cycle!Cycles, Cycle!NoCycle, Cycle!Dropped, RunsTyped
<1>2. RunInv(K)' BY RunFailed
<1>3. WorkInv(K)' BY DEF CycleInv, WorkInv, Knows, Cycle!process, Cycle!Status
<1>4. EventInv(K)' /\ JobInv(K)' /\ SnapInv(K)' /\ ResumeInv(K)'
  BY <1>b, WorkersKeep DEF Cycle!KeptByWorkers
<1> QED BY <1>1, <1>2, <1>3, <1>4 DEF CycleInv

\* Startup fails the jobs without a running run and lists the unfinished cycles.
LEMMA ExpireJobsInv ==
  ASSUME NEW K, Cycle(K)!CycleAssumption, CycleInv(K), Cycle(K)!ExpireJobs
  PROVE  CycleInv(K)'
<1> USE DEF Cycle!ExpireJobs, Cycle!batch, Cycle!shutdown, Cycle!history
<1>a. /\ job' \in [Cycle(K)!Cycles -> Cycle(K)!Jobs]
      /\ \A c \in Cycle(K)!Cycles : job'[c] = job[c] \/ job'[c] = "failed"
  BY DEF CycleInv, Cycle!TypeOK, Cycle!Jobs
<1>b. Cycle(K)!Bound \subseteq Cycle(K)!Cycles BY DEF Cycle!Bound
<1>1. Cycle(K)!TypeOK'
  BY <1>a, <1>b DEF CycleInv, Cycle!TypeOK, Cycle!Workers, Cycle!Cycles, Cycle!NoCycle, Cycle!Dropped
<1>2. RunInv(K)' BY RunKept
<1>3. WorkInv(K)' BY DEF CycleInv, WorkInv, Knows, Cycle!Status
<1>4. EventInv(K)'
  <2>1. Begun(K)' = Begun(K) BY DEF Begun, Cycle!Cycles
  <2>2. Cycle(K)!Bound' = Cycle(K)!Bound BY DEF Cycle!Bound, Cycle!Cycles
  <2> QED BY <2>1, <2>2 DEF CycleInv, EventInv, Held, Recovering, Cycle!Cycles, Cycle!NoCycle
<1>5. JobInv(K)' BY <1>a DEF CycleInv, JobInv, Proven, Cycle!Status, Cycle!Cycles
<1>6. SnapInv(K)' BY DEF CycleInv, SnapInv, Cycle!QuarantineJust, Cycle!Cycles
<1>7. ResumeInv(K)'
  <2>1. Resumable(K)' = Resumable(K) /\ Resumable(K) \subseteq Cycle(K)!Bound
    BY DEF Resumable, Cycle!Bound, Cycle!Cycles
  <2> QED BY <2>1 DEF CycleInv, ResumeInv, Recovering, Cycle!NoCycle
<1> QED BY <1>1, <1>2, <1>3, <1>4, <1>5, <1>6, <1>7 DEF CycleInv

\* The cycle looked at is resumed, when it is the one that can be, or let go.
LEMMA LookAtCycleInv ==
  ASSUME NEW K, Cycle(K)!CycleAssumption, CycleInv(K), Cycle(K)!LookAtCycle
  PROVE  CycleInv(K)'
<1> USE DEF Cycle!batch, Cycle!shutdown, Cycle!history
<1>0. /\ Cycle(K)!First \in todo /\ Cycle(K)!First \in Cycle(K)!Cycles /\ phase = "recover"
      /\ todo \subseteq Cycle(K)!Bound /\ cycle \in {Cycle(K)!NoCycle} \cup (Cycle(K)!Bound \ todo)
  BY FirstIn DEF Cycle!LookAtCycle, CycleInv, Cycle!TypeOK, EventInv, Recovering
<1>k. UNCHANGED <<event, boundTo, snapshot, spoiled, artifact, minds, settings, boots, wake,
                  worker, outcome, stop, shown, cancelling, fetched, calls>>
  BY DEF Cycle!LookAtCycle
<1>b. Begun(K)' = Begun(K) /\ Cycle(K)!Bound' = Cycle(K)!Bound /\ Resumable(K)' = Resumable(K)
  BY <1>k DEF Begun, Cycle!Bound, Resumable, Cycle!Cycles
<1>1. CASE /\ \E e \in BOOLEAN : Cycle(K)!Refusal(Cycle(K)!First, e) = "none"
           /\ cycle' = Cycle(K)!First /\ todo' = todo \ {Cycle(K)!First} /\ UNCHANGED <<job, run, phase, error>>
  <2>1. Cycle(K)!First \in Resumable(K)
    BY <1>0, <1>1 DEF Cycle!Refusal, Resumable, Cycle!Bound
  <2>2. Cycle(K)!TypeOK'
    BY <1>0, <1>k, <1>1 DEF CycleInv, Cycle!TypeOK, Cycle!Workers, Cycle!Jobs, Cycle!Cycles,
       Cycle!NoCycle, Cycle!Dropped
  <2>3. RunInv(K)' BY <1>k, <1>1, RunKept
  <2>4. WorkInv(K)' BY <1>0, <1>k, <1>1 DEF CycleInv, WorkInv, Knows
  <2>5. EventInv(K)'
    BY <1>0, <1>k, <1>1, <1>b DEF CycleInv, EventInv, Held, Recovering, Cycle!Cycles, Cycle!NoCycle
  <2>6. JobInv(K)' BY <1>0, <1>k, <1>1 DEF CycleInv, JobInv, Proven, Cycle!Status, Cycle!Cycles
  <2>7. SnapInv(K)' BY <1>0, <1>k, <1>1 DEF CycleInv, SnapInv, Cycle!QuarantineJust, Cycle!Cycles
  <2>8. ResumeInv(K)' BY <1>0, <1>b, <1>1, <2>1 DEF CycleInv, ResumeInv, Recovering, Cycle!NoCycle
  <2> QED BY <2>2, <2>3, <2>4, <2>5, <2>6, <2>7, <2>8 DEF CycleInv
<1>2. CASE /\ \E e \in BOOLEAN : Cycle(K)!Refusal(Cycle(K)!First, e) # "none" /\ error' = Cycle(K)!Refusal(Cycle(K)!First, e)
           /\ Cycle(K)!Terminalize(Cycle(K)!First) /\ phase' = "drop" /\ UNCHANGED <<cycle, todo>>
  <2>1. Cycle(K)!TerminalRuns(Cycle(K)!First) /\ Cycle(K)!FinishJob(Cycle(K)!First, "failed")
    BY <1>2 DEF Cycle!Terminalize
  <2>a. /\ RunsTyped(K)'
        /\ \A d \in Cycle(K)!Cycles, s \in K.scouts :
              Cycle(K)!Status(d, s)' = IF d = Cycle(K)!First /\ Cycle(K)!Status(d, s) = "running" THEN "cancelled" ELSE Cycle(K)!Status(d, s)
    BY <1>0, <2>1, CancelsRuns
  <2>b. /\ job' \in [Cycle(K)!Cycles -> Cycle(K)!Jobs]
        /\ \A d \in Cycle(K)!Cycles : job'[d] = IF d = Cycle(K)!First /\ job[d] = "running" THEN "failed" ELSE job[d]
    BY <1>0, <2>1, EndsJob DEF Cycle!Jobs
  <2>c. error' \in Cycle(K)!Dropped \ {"superseded"} /\ (error' = "snapshot" => spoiled[Cycle(K)!First])
    <3>1. PICK e \in BOOLEAN : Cycle(K)!Refusal(Cycle(K)!First, e) # "none" /\ error' = Cycle(K)!Refusal(Cycle(K)!First, e)
      BY <1>2
    <3>2. Cycle(K)!Refusal(Cycle(K)!First, e) \in Cycle(K)!Dropped
      BY <3>1 DEF Cycle!Refusal, Cycle!Dropped
    <3>3. Cycle(K)!Refusal(Cycle(K)!First, e) = "snapshot" => spoiled[Cycle(K)!First] BY DEF Cycle!Refusal
    <3>4. Cycle(K)!Refusal(Cycle(K)!First, e) = "superseded" =>
            cycle # Cycle(K)!NoCycle /\ ~spoiled[Cycle(K)!First] /\ snapshot[Cycle(K)!First] # 0
      BY DEF Cycle!Refusal
    <3>5. ~(cycle # Cycle(K)!NoCycle /\ ~spoiled[Cycle(K)!First] /\ snapshot[Cycle(K)!First] # 0)
      BY <1>0 DEF CycleInv, ResumeInv, Resumable, Recovering
    <3> QED BY <3>1, <3>2, <3>3, <3>4, <3>5
  <2>2. Cycle(K)!TypeOK' BY <1>0, <1>k, <1>2, <2>a, <2>b, <2>c
    DEF CycleInv, Cycle!TypeOK, Cycle!Workers, Cycle!Cycles, Cycle!NoCycle, Cycle!Dropped, RunsTyped
  <2>3. RunInv(K)' BY <1>0, <1>k, <2>1, RunsCancelled
  <2>4. WorkInv(K)' BY <1>0, <1>k, <1>2 DEF CycleInv, WorkInv, Knows
  <2>5. EventInv(K)'
    BY <1>0, <1>k, <1>2, <1>b, <2>c DEF CycleInv, EventInv, Held, Recovering, Cycle!Cycles, Cycle!NoCycle
  <2>6. JobInv(K)'
    <3>1. \A c \in Cycle(K)!Cycles : Proven(K, c) => Proven(K, c)' BY <2>a DEF Proven
    <3> QED BY <1>0, <1>k, <1>2, <2>b, <3>1 DEF CycleInv, JobInv, Cycle!Cycles
  <2>7. SnapInv(K)'
    <3>1. Cycle(K)!First' = Cycle(K)!First BY <1>2 DEF Cycle!First
    <3> QED BY <1>0, <1>k, <1>2, <2>c, <3>1 DEF CycleInv, SnapInv, Cycle!QuarantineJust, Cycle!Cycles
  <2>8. ResumeInv(K)' BY <1>0, <1>b, <1>2 DEF CycleInv, ResumeInv, Recovering, Cycle!NoCycle
  <2> QED BY <2>2, <2>3, <2>4, <2>5, <2>6, <2>7, <2>8 DEF CycleInv
<1> QED BY <1>1, <1>2 DEF Cycle!LookAtCycle

\* A cycle that is not resumed gets its verdict.
LEMMA DropCycleInv ==
  ASSUME NEW K, Cycle(K)!CycleAssumption, CycleInv(K), Cycle(K)!DropCycle
  PROVE  CycleInv(K)'
<1> USE DEF Cycle!DropCycle, Cycle!batch, Cycle!shutdown, Cycle!history
<1>0. /\ Cycle(K)!First \in todo /\ Cycle(K)!First \in Cycle(K)!Cycles /\ error \in Cycle(K)!Dropped \ {"superseded"}
      /\ todo \subseteq Cycle(K)!Bound /\ cycle \in {Cycle(K)!NoCycle} \cup (Cycle(K)!Bound \ todo)
      /\ event[Cycle(K)!First] = "bound"
  BY FirstIn DEF CycleInv, Cycle!TypeOK, EventInv, Recovering, Cycle!Bound
<1>a. \A c \in Cycle(K)!Cycles : event'[c] = IF c = Cycle(K)!First THEN error ELSE event[c]
  BY DEF CycleInv, Cycle!TypeOK
<1>b. Cycle(K)!Bound' = Cycle(K)!Bound \ {Cycle(K)!First} /\ Begun(K)' = Begun(K) /\ Resumable(K)' = Resumable(K) \ {Cycle(K)!First}
  BY <1>0, <1>a DEF Cycle!Bound, Begun, Resumable, Cycle!Cycles, Cycle!Dropped
<1>1. Cycle(K)!TypeOK'
  <2>1. event' \in [Cycle(K)!Cycles -> {"none", "bound", "completed"} \cup Cycle(K)!Dropped]
    BY <1>0 DEF CycleInv, Cycle!TypeOK
  <2> QED
    BY <1>0, <2>1 DEF CycleInv, Cycle!TypeOK, Cycle!Workers, Cycle!Jobs, Cycle!Cycles, Cycle!NoCycle,
       Cycle!Dropped
<1>2. RunInv(K)' BY RunKept
<1>3. WorkInv(K)' BY DEF CycleInv, WorkInv, Knows, Cycle!Status
<1>4. EventInv(K)'
  BY <1>0, <1>a, <1>b DEF CycleInv, EventInv, Held, Recovering, Cycle!Cycles, Cycle!NoCycle
<1>5. JobInv(K)' BY <1>0, <1>a DEF CycleInv, JobInv, Proven, Cycle!Status, Cycle!Cycles, Cycle!Dropped
<1>6. SnapInv(K)' BY <1>0, <1>a DEF CycleInv, SnapInv, Cycle!QuarantineJust, Cycle!Cycles, Cycle!Dropped
<1>7. ResumeInv(K)' BY <1>0, <1>b DEF CycleInv, ResumeInv, Recovering, Cycle!NoCycle
<1> QED BY <1>1, <1>2, <1>3, <1>4, <1>5, <1>6, <1>7 DEF CycleInv
-----------------------------------------------------------------------------
\* The job is opened on the frozen input.
LEMMA OpenBatchInv ==
  ASSUME NEW K, Cycle(K)!CycleAssumption, CycleInv(K), Cycle(K)!OpenBatch
  PROVE  CycleInv(K)'
<1> USE DEF Cycle!batch, Cycle!shutdown, Cycle!history
<1>0. /\ cycle \in Cycle(K)!Cycles /\ phase = "open" /\ event[cycle] = "bound" /\ snapshot[cycle] \in {0, wake}
      /\ wake \in Nat
  BY DEF Cycle!OpenBatch, CycleInv, Cycle!TypeOK, EventInv, Held, SnapInv
<1>a. /\ job' = [job EXCEPT ![cycle] = IF @ = "succeeded" THEN @ ELSE "running"]
      /\ snapshot' = [snapshot EXCEPT ![cycle] = wake]
      /\ phase' = "reserve"
      /\ UNCHANGED <<event, boundTo, spoiled, run, artifact, minds, settings, boots, cycle, todo, error,
                     wake, worker, outcome, stop, shown, cancelling, fetched, calls>>
  BY <1>0 DEF Cycle!OpenBatch
<1>b. /\ \A c \in Cycle(K)!Cycles : snapshot'[c] = IF c = cycle THEN wake ELSE snapshot[c]
      /\ \A c \in Cycle(K)!Cycles : job'[c] = IF c = cycle /\ job[c] # "succeeded" THEN "running" ELSE job[c]
      /\ job' \in [Cycle(K)!Cycles -> Cycle(K)!Jobs] /\ snapshot' \in [Cycle(K)!Cycles -> Nat]
  BY <1>0, <1>a DEF CycleInv, Cycle!TypeOK, Cycle!Jobs
<1>1. Cycle(K)!TypeOK'
  BY <1>0, <1>a, <1>b DEF CycleInv, Cycle!TypeOK, Cycle!Workers, Cycle!Cycles, Cycle!NoCycle,
     Cycle!Dropped
<1>2. RunInv(K)' BY <1>a, RunKept
<1>3. WorkInv(K)' BY <1>0, <1>a DEF CycleInv, WorkInv, Knows, Cycle!Status
<1>4. EventInv(K)'
  <2>1. Begun(K)' = Begun(K) BY <1>a DEF Begun, Cycle!Cycles
  <2> QED BY <1>0, <1>a, <2>1 DEF CycleInv, EventInv, Held, Recovering, Cycle!Cycles
<1>5. JobInv(K)' BY <1>0, <1>a, <1>b DEF CycleInv, JobInv, Proven, Cycle!Status, Cycle!Cycles
<1>6. SnapInv(K)' BY <1>0, <1>a, <1>b DEF CycleInv, SnapInv, Cycle!QuarantineJust, Cycle!Cycles
<1>7. ResumeInv(K)'
  <2>1. Resumable(K)' \subseteq Resumable(K) \cup {cycle}
    BY <1>a, <1>b DEF Resumable, Cycle!Bound, Cycle!Cycles
  <2>2. Resumable(K) \subseteq {cycle} BY <1>0 DEF CycleInv, ResumeInv
  <2> QED BY <1>a, <2>1, <2>2 DEF ResumeInv, Recovering
<1> QED BY <1>1, <1>2, <1>3, <1>4, <1>5, <1>6, <1>7 DEF CycleInv

\* All roles are reserved.
LEMMA ReserveRunsInv ==
  ASSUME NEW K, Cycle(K)!CycleAssumption, CycleInv(K), Cycle(K)!ReserveRuns
  PROVE  CycleInv(K)'
<1> USE DEF Cycle!shutdown, Cycle!history
<1> DEFINE S == {s \in K.scouts : Cycle(K)!Opens(cycle, s)}
<1>0. /\ cycle \in Cycle(K)!Cycles /\ phase = "reserve" /\ phase' = "scouts"
      /\ worker' = [s \in K.scouts |-> IF Cycle(K)!Opens(cycle, s) THEN "queued" ELSE "existing"]
      /\ outcome' = [s \in K.scouts |-> "none"]
      /\ UNCHANGED <<event, boundTo, snapshot, spoiled, job, artifact, minds, settings, boots,
                 cycle, todo, error, wake, stop, shown, cancelling, fetched, calls>>
  BY DEF Cycle!ReserveRuns, CycleInv, EventInv, Held
<1>a. \A d \in Cycle(K)!Cycles, t \in K.scouts :
        run'[d][t] = IF d = cycle /\ t \in S THEN Cycle(K)!Opened(run[d][t]) ELSE run[d][t]
  BY <1>0 DEF Cycle!ReserveRuns, CycleInv, Cycle!TypeOK
<1>2. RunInv(K)' /\ \A s \in S : run[cycle][s].attempts + 1 \in 0..K.attempts
  <2>1. \A s \in S : Cycle(K)!Opens(cycle, s) OBVIOUS
  <2>2. S \in SUBSET K.scouts OBVIOUS
  <2> HIDE DEF S
  <2> QED BY <1>0, <1>a, <2>1, <2>2, RunsOpened
<1>b. RunsTyped(K)'
  <2> DEFINE Run == [status : {"none", "running", "succeeded", "failed", "cancelled"},
                     attempts : 0..K.attempts]
             r == [s \in K.scouts |-> IF Cycle(K)!Opens(cycle, s) THEN Cycle(K)!Opened(run[cycle][s]) ELSE run[cycle][s]]
  <2>1. run \in [Cycle(K)!Cycles -> [K.scouts -> Run]] BY DEF CycleInv, Cycle!TypeOK
  <2>2. \A s \in K.scouts : Cycle(K)!Opens(cycle, s) => Cycle(K)!Opened(run[cycle][s]) \in Run
    BY <1>2 DEF Cycle!Opened
  <2>3. r \in [K.scouts -> Run]
    <3> HIDE DEF Run
    <3> QED BY <1>0, <2>1, <2>2
  <2>4. run' = [run EXCEPT ![cycle] = r] BY DEF Cycle!ReserveRuns
  <2> HIDE DEF Run, r
  <2>5. run' \in [Cycle(K)!Cycles -> [K.scouts -> Run]] BY <1>0, <2>1, <2>3, <2>4
  <2> QED BY <2>5 DEF RunsTyped, Run
<1>c. \A d \in Cycle(K)!Cycles, s \in K.scouts :
        Cycle(K)!Status(d, s) = "succeeded" => Cycle(K)!Status(d, s)' = "succeeded"
  BY <1>a DEF Cycle!Opens, Cycle!Status
<1>d. \A s \in K.scouts : worker'[s] = "queued" =>
        Cycle(K)!Status(cycle, s)' = "running" /\ calls[cycle][s] < run'[cycle][s].attempts
  <2> TAKE s \in K.scouts
  <2> HAVE worker'[s] = "queued"
  <2>1. Cycle(K)!Opens(cycle, s) BY <1>0
  <2>2. run'[cycle][s] = Cycle(K)!Opened(run[cycle][s]) BY <1>0, <1>a, <2>1
  <2>3. calls[cycle][s] <= run[cycle][s].attempts /\ run[cycle][s].attempts \in Nat /\ calls[cycle][s] \in Nat
    BY <1>0 DEF CycleInv, RunInv, Cycle!TypeOK, Cycle!CycleAssumption
  <2>4. run'[cycle][s].attempts = run[cycle][s].attempts + 1 /\ run'[cycle][s].status = "running"
    BY <2>2 DEF Cycle!Opened
  <2> QED BY <1>0, <2>3, <2>4 DEF Cycle!Status
<1>1. Cycle(K)!TypeOK'
  BY <1>0, <1>b DEF CycleInv, Cycle!TypeOK, Cycle!Workers, Cycle!Cycles, Cycle!NoCycle, Cycle!Dropped,
     RunsTyped
<1>3. WorkInv(K)'
  <2>1. \A s \in K.scouts : worker'[s] \in {"queued", "existing"} /\ outcome'[s] = "none" BY <1>0
  <2> QED BY <1>0, <1>d, <2>1 DEF WorkInv, Knows, Cycle!Status
<1>4. EventInv(K)'
  <2>1. Begun(K)' = Begun(K) BY <1>0 DEF Begun, Cycle!Cycles
  <2> QED BY <1>0, <2>1 DEF CycleInv, EventInv, Held, Recovering, Cycle!Cycles
<1>5. JobInv(K)'
  <2>1. \A c \in Cycle(K)!Cycles : Proven(K, c) => Proven(K, c)' BY <1>c DEF Proven
  <2> QED BY <1>0, <2>1 DEF CycleInv, JobInv, Cycle!Cycles
<1>6. SnapInv(K)' BY <1>0 DEF CycleInv, SnapInv, Cycle!QuarantineJust, Cycle!Cycles
<1>7. ResumeInv(K)'
  <2>1. Resumable(K)' = Resumable(K) BY <1>0 DEF Resumable, Cycle!Bound, Cycle!Cycles
  <2> QED BY <1>0, <2>1 DEF CycleInv, ResumeInv, Recovering
<1> QED BY <1>1, <1>2, <1>3, <1>4, <1>5, <1>6, <1>7 DEF CycleInv

\* A transaction of the batch fails before its workers run.
LEMMA BatchFailsInv ==
  ASSUME NEW K, Cycle(K)!CycleAssumption, CycleInv(K), Cycle(K)!BatchFails
  PROVE  CycleInv(K)'
<1> USE DEF Cycle!BatchFails, Cycle!Fails, Cycle!batch, Cycle!shutdown, Cycle!history
<1>0. cycle \in Cycle(K)!Cycles BY DEF CycleInv, EventInv, Held
<1>a. /\ job' \in [Cycle(K)!Cycles -> Cycle(K)!Jobs]
      /\ \A c \in Cycle(K)!Cycles : job'[c] = IF c = cycle /\ job[c] = "running" THEN "failed" ELSE job[c]
  BY <1>0, EndsJob DEF Cycle!Jobs
<1>1. Cycle(K)!TypeOK'
  BY <1>a DEF CycleInv, Cycle!TypeOK, Cycle!Workers, Cycle!Cycles, Cycle!NoCycle, Cycle!Dropped
<1>2. RunInv(K)' BY RunKept
<1>3. WorkInv(K)' BY DEF CycleInv, WorkInv, Knows, Cycle!Status
<1>4. EventInv(K)'
  <2>1. Begun(K)' = Begun(K) BY DEF Begun, Cycle!Cycles
  <2> QED BY <1>0, <2>1 DEF CycleInv, EventInv, Held, Recovering, Cycle!Cycles
<1>5. JobInv(K)' BY <1>0, <1>a DEF CycleInv, JobInv, Proven, Cycle!Status, Cycle!Cycles
<1>6. SnapInv(K)' BY <1>0 DEF CycleInv, SnapInv, Cycle!QuarantineJust, Cycle!Cycles
<1>7. ResumeInv(K)'
  <2>1. Resumable(K)' = Resumable(K) BY DEF Resumable, Cycle!Bound, Cycle!Cycles
  <2> QED BY <2>1 DEF CycleInv, ResumeInv, Recovering
<1> QED BY <1>1, <1>2, <1>3, <1>4, <1>5, <1>6, <1>7 DEF CycleInv
\* The batch ends its job, and the cycle goes on if a role has succeeded.
LEMMA JoinScoutsInv ==
  ASSUME NEW K, Cycle(K)!CycleAssumption, CycleInv(K), Cycle(K)!JoinScouts
  PROVE  CycleInv(K)'
<1> USE DEF Cycle!shutdown, Cycle!history, Cycle!NoBatch
<1> DEFINE target == IF Cycle(K)!SomeRaised \/ Cycle(K)!AllFailed THEN "failed" ELSE "succeeded"
<1>0. /\ cycle \in Cycle(K)!Cycles /\ phase = "scouts" /\ event[cycle] = "bound"
      /\ \A s \in K.scouts : worker[s] \in {"done", "raised"}
  BY DEF Cycle!JoinScouts, CycleInv, EventInv, Held
<1>k. /\ UNCHANGED <<event, boundTo, snapshot, spoiled, run, artifact, minds, settings, boots,
                     cycle, todo, wake, stop, shown, cancelling, fetched, calls>>
      /\ worker' = [s \in K.scouts |-> "idle"] /\ outcome' = [s \in K.scouts |-> "none"]
      /\ Cycle(K)!FinishJob(cycle, target)
  BY DEF Cycle!JoinScouts
<1>j. target \in Cycle(K)!Jobs BY DEF Cycle!Jobs
<1>a. /\ job' \in [Cycle(K)!Cycles -> Cycle(K)!Jobs]
      /\ \A c \in Cycle(K)!Cycles : job'[c] = IF c = cycle /\ job[c] = "running" THEN target ELSE job[c]
  BY <1>0, <1>j, <1>k, EndsJob
<1>b. target = "succeeded" => Proven(K, cycle)
  <2> SUFFICES ASSUME ~Cycle(K)!SomeRaised, ~Cycle(K)!AllFailed PROVE Proven(K, cycle) OBVIOUS
  <2>1. PICK s \in K.scouts : outcome[s] # "failed" BY DEF Cycle!AllFailed
  <2>2. worker[s] = "done" BY <1>0, <2>1 DEF Cycle!SomeRaised
  <2>3. outcome[s] = "succeeded" BY <2>1, <2>2 DEF CycleInv, WorkInv, Knows, Cycle!TypeOK
  <2>4. Cycle(K)!Status(cycle, s) = "succeeded" BY <2>3 DEF CycleInv, WorkInv, Knows
  <2> QED BY <2>4 DEF Proven
<1>c. \/ phase' = "error" /\ error' = "snapshot" /\ stop
      \/ phase' = "error" /\ error' = "plain"
      \/ phase' = "later" /\ error' = error /\ target = "succeeded"
  <2>1. job[cycle] \in {"running", "succeeded"} \/ (stop /\ job[cycle] = "cancelled")
    BY <1>0 DEF CycleInv, JobInv
  <2>2. Cycle(K)!FinishConflicts(cycle, target) => stop BY <2>1 DEF Cycle!FinishConflicts
  <2>3. IF Cycle(K)!FinishConflicts(cycle, target) THEN Cycle(K)!Fails("snapshot")
        ELSE IF target = "failed" THEN Cycle(K)!Fails("plain")
        ELSE phase' = "later" /\ UNCHANGED error
    BY DEF Cycle!JoinScouts
  <2> QED BY <2>2, <2>3 DEF Cycle!Fails
<1> HIDE DEF target
<1>1. Cycle(K)!TypeOK'
  BY <1>0, <1>a, <1>c, <1>k DEF CycleInv, Cycle!TypeOK, Cycle!Workers, Cycle!Cycles, Cycle!NoCycle,
     Cycle!Dropped
<1>2. RunInv(K)' BY <1>k, RunKept
<1>3. WorkInv(K)' BY <1>c, <1>k DEF WorkInv, Knows
<1>4. EventInv(K)'
  <2>1. Begun(K)' = Begun(K) BY <1>k DEF Begun, Cycle!Cycles
  <2> QED BY <1>0, <1>c, <1>k, <2>1 DEF CycleInv, EventInv, Held, Recovering, Cycle!Cycles
<1>5. JobInv(K)'
  <2>1. \A c \in Cycle(K)!Cycles : Proven(K, c)' <=> Proven(K, c) BY <1>k DEF Proven, Cycle!Status
  <2>2. target # "succeeded" => target = "failed" BY DEF target
  <2> QED BY <1>0, <1>a, <1>b, <1>c, <1>k, <2>1, <2>2 DEF CycleInv, JobInv, Cycle!Cycles
<1>6. SnapInv(K)' BY <1>0, <1>c, <1>k DEF CycleInv, SnapInv, Cycle!QuarantineJust, Cycle!Cycles
<1>7. ResumeInv(K)'
  <2>1. Resumable(K)' = Resumable(K) BY <1>k DEF Resumable, Cycle!Bound, Cycle!Cycles
  <2> QED BY <1>0, <1>c, <1>k, <2>1 DEF CycleInv, ResumeInv, Recovering
<1> QED BY <1>1, <1>2, <1>3, <1>4, <1>5, <1>6, <1>7 DEF CycleInv

\* The completion event.
LEMMA PersistCompletionInv ==
  ASSUME NEW K, Cycle(K)!CycleAssumption, CycleInv(K), Cycle(K)!PersistCompletion
  PROVE  CycleInv(K)'
<1> USE DEF Cycle!PersistCompletion, Cycle!Fails, Cycle!batch, Cycle!shutdown, Cycle!history
<1>0. cycle \in Cycle(K)!Cycles /\ event[cycle] = "bound" BY DEF CycleInv, EventInv, Held
<1>a. \A c \in Cycle(K)!Cycles : event'[c] = IF c = cycle THEN "completed" ELSE event[c]
  BY <1>0 DEF CycleInv, Cycle!TypeOK
<1>b. Begun(K)' = Begun(K) /\ Resumable(K)' \subseteq Resumable(K)
  BY <1>0, <1>a DEF Begun, Resumable, Cycle!Bound, Cycle!Cycles
<1>1. Cycle(K)!TypeOK'
  <2>1. event' \in [Cycle(K)!Cycles -> {"none", "bound", "completed"} \cup Cycle(K)!Dropped]
    BY <1>0 DEF CycleInv, Cycle!TypeOK
  <2> QED
    BY <2>1 DEF CycleInv, Cycle!TypeOK, Cycle!Workers, Cycle!Jobs, Cycle!Cycles, Cycle!NoCycle,
       Cycle!Dropped
<1>2. RunInv(K)' BY RunKept
<1>3. WorkInv(K)' BY DEF CycleInv, WorkInv, Knows, Cycle!Status
<1>4. EventInv(K)' BY <1>0, <1>a, <1>b DEF CycleInv, EventInv, Held, Recovering, Cycle!Cycles
<1>5. JobInv(K)'
  <2>1. \A c \in Cycle(K)!Cycles : Proven(K, c)' <=> Proven(K, c) BY DEF Proven, Cycle!Status
  <2> QED BY <1>0, <1>a, <2>1 DEF CycleInv, JobInv, Cycle!Cycles
<1>6. SnapInv(K)' BY <1>0, <1>a DEF CycleInv, SnapInv, Cycle!QuarantineJust, Cycle!Cycles
<1>7. ResumeInv(K)' BY <1>b DEF CycleInv, ResumeInv, Recovering
<1> QED BY <1>1, <1>2, <1>3, <1>4, <1>5, <1>6, <1>7 DEF CycleInv

LEMMA CycleCompletedInv ==
  ASSUME NEW K, Cycle(K)!CycleAssumption, CycleInv(K), Cycle(K)!CycleCompleted
  PROVE  CycleInv(K)'
<1> USE DEF Cycle!durable, Cycle!history
<1>a. CASE Cycle(K)!Ends BY <1>a, EndsInv DEF Cycle!CycleCompleted
<1>b. CASE ~Cycle(K)!Ends
  <2>0. /\ cycle \in Cycle(K)!Cycles /\ phase = "completed" /\ event[cycle] = "completed"
        /\ phase' = "waiting" /\ cycle' = Cycle(K)!NoCycle /\ wake' = 0
        /\ UNCHANGED <<Cycle(K)!durable, settings, boots, Cycle(K)!history, todo, error, Cycle(K)!batch, Cycle(K)!shutdown>>
    BY <1>b DEF Cycle!CycleCompleted, CycleInv, EventInv, Held
  <2> USE <2>0 DEF Cycle!batch, Cycle!shutdown
  <2>1. Cycle(K)!TypeOK'
    BY DEF CycleInv, Cycle!TypeOK, Cycle!Workers, Cycle!Jobs, Cycle!Cycles, Cycle!NoCycle, Cycle!Dropped
  <2>2. RunInv(K)' BY RunKept
  <2>3. WorkInv(K)' BY DEF CycleInv, WorkInv, Knows, Cycle!Status
  <2>4. EventInv(K)'
    <3>1. Begun(K)' = Begun(K) BY DEF Begun, Cycle!Cycles
    <3> QED BY <3>1 DEF CycleInv, EventInv, Held, Recovering, Cycle!Cycles
  <2>5. JobInv(K)' BY DEF CycleInv, JobInv, Proven, Cycle!Status, Cycle!Cycles
  <2>6. SnapInv(K)' BY DEF CycleInv, SnapInv, Cycle!QuarantineJust, Cycle!Cycles
  <2>7. ResumeInv(K)'
    <3>1. Resumable(K)' = Resumable(K) /\ cycle \notin Resumable(K)
      BY DEF Resumable, Cycle!Bound, Cycle!Cycles
    <3> QED BY <3>1 DEF CycleInv, ResumeInv, Recovering
  <2> QED BY <2>1, <2>2, <2>3, <2>4, <2>5, <2>6, <2>7 DEF CycleInv
<1> QED BY <1>a, <1>b

\* The failure event: a verdict for a spoiled snapshot or an open circuit.
LEMMA RecordFailureInv ==
  ASSUME NEW K, Cycle(K)!CycleAssumption, CycleInv(K), Cycle(K)!RecordFailure
  PROVE  CycleInv(K)'
<1> USE DEF Cycle!batch, Cycle!shutdown, Cycle!history
<1>0. /\ cycle \in Cycle(K)!Cycles /\ phase = "error" /\ phase' = "recorded" /\ (stop => error = "circuit")
      /\ event[cycle] \in {"bound", "completed"}
      /\ UNCHANGED <<boundTo, snapshot, spoiled, job, run, artifact, minds, settings, boots,
                     cycle, todo, error, wake, Cycle(K)!batch, Cycle(K)!shutdown, Cycle(K)!history>>
  BY DEF Cycle!RecordFailure, CycleInv, EventInv, Held
<1>1. CASE event' = event
  <2>1. Cycle(K)!TypeOK'
    BY <1>0, <1>1 DEF CycleInv, Cycle!TypeOK, Cycle!Workers, Cycle!Jobs, Cycle!Cycles, Cycle!NoCycle,
       Cycle!Dropped
  <2>2. RunInv(K)' BY <1>0, RunKept
  <2>3. WorkInv(K)' BY <1>0 DEF CycleInv, WorkInv, Knows, Cycle!Status
  <2>4. EventInv(K)'
    <3>1. Begun(K)' = Begun(K) BY <1>1 DEF Begun, Cycle!Cycles
    <3> QED BY <1>0, <1>1, <3>1 DEF CycleInv, EventInv, Held, Recovering, Cycle!Cycles
  <2>5. JobInv(K)' BY <1>0, <1>1 DEF CycleInv, JobInv, Proven, Cycle!Status, Cycle!Cycles
  <2>6. SnapInv(K)' BY <1>0, <1>1 DEF CycleInv, SnapInv, Cycle!QuarantineJust, Cycle!Cycles
  <2>7. ResumeInv(K)'
    <3>1. Resumable(K)' = Resumable(K) BY <1>0, <1>1 DEF Resumable, Cycle!Bound, Cycle!Cycles
    <3> QED BY <1>0, <3>1 DEF CycleInv, ResumeInv, Recovering
  <2> QED BY <2>1, <2>2, <2>3, <2>4, <2>5, <2>6, <2>7 DEF CycleInv
<1>2. CASE /\ error \in {"snapshot", "circuit"} /\ event[cycle] = "bound"
           /\ event' = [event EXCEPT ![cycle] = error]
  <2>a. \A c \in Cycle(K)!Cycles : event'[c] = IF c = cycle THEN error ELSE event[c]
    BY <1>0, <1>2 DEF CycleInv, Cycle!TypeOK
  <2>b. Begun(K)' = Begun(K) /\ Resumable(K)' \subseteq Resumable(K)
    BY <1>0, <1>2, <2>a DEF Begun, Resumable, Cycle!Bound, Cycle!Cycles
  <2>c. error = "snapshot" => spoiled[cycle] BY <1>0 DEF CycleInv, SnapInv
  <2>1. Cycle(K)!TypeOK'
    <3>1. event' \in [Cycle(K)!Cycles -> {"none", "bound", "completed"} \cup Cycle(K)!Dropped]
      BY <1>0, <1>2 DEF CycleInv, Cycle!TypeOK, Cycle!Dropped
    <3> QED
      BY <1>0, <3>1 DEF CycleInv, Cycle!TypeOK, Cycle!Workers, Cycle!Jobs, Cycle!Cycles, Cycle!NoCycle,
         Cycle!Dropped
  <2>2. RunInv(K)' BY <1>0, RunKept
  <2>3. WorkInv(K)' BY <1>0 DEF CycleInv, WorkInv, Knows, Cycle!Status
  <2>4. EventInv(K)' BY <1>0, <1>2, <2>a, <2>b DEF CycleInv, EventInv, Held, Recovering, Cycle!Cycles
  <2>5. JobInv(K)'
    <3>1. \A c \in Cycle(K)!Cycles : Proven(K, c)' <=> Proven(K, c) BY <1>0 DEF Proven, Cycle!Status
    <3> QED BY <1>0, <1>2, <2>a, <3>1 DEF CycleInv, JobInv, Cycle!Cycles
  <2>6. SnapInv(K)' BY <1>0, <1>2, <2>a, <2>c DEF CycleInv, SnapInv, Cycle!QuarantineJust, Cycle!Cycles
  <2>7. ResumeInv(K)' BY <1>0, <2>b DEF CycleInv, ResumeInv, Recovering
  <2> QED BY <2>1, <2>2, <2>3, <2>4, <2>5, <2>6, <2>7 DEF CycleInv
<1> QED BY <1>1, <1>2 DEF Cycle!RecordFailure
\* A quarantined cycle is replaced; its runs are cancelled.
LEMMA BackOffInv ==
  ASSUME NEW K, Cycle(K)!CycleAssumption, CycleInv(K), Cycle(K)!BackOff
  PROVE  CycleInv(K)'
<1> USE DEF Cycle!batch, Cycle!shutdown, Cycle!history
<1>0. /\ cycle \in Cycle(K)!Cycles /\ phase = "recorded" /\ phase' = "backoff" /\ error' = "none" /\ wake' = 0
      /\ UNCHANGED <<event, boundTo, snapshot, spoiled, artifact, minds, settings, boots, todo,
                     Cycle(K)!batch, Cycle(K)!shutdown, Cycle(K)!history>>
      /\ error # "circuit"
  BY DEF Cycle!BackOff, CycleInv, EventInv, Held
<1>b. Begun(K)' = Begun(K) /\ Resumable(K)' = Resumable(K)
  BY <1>0 DEF Begun, Resumable, Cycle!Bound, Cycle!Cycles
<1>1. CASE error = "snapshot"
  <2>1. Cycle(K)!TerminalRuns(cycle) /\ Cycle(K)!FinishJob(cycle, "failed") /\ cycle' = Cycle(K)!NoCycle
    BY <1>1 DEF Cycle!BackOff, Cycle!Terminalize
  <2>a. /\ RunsTyped(K)'
        /\ \A d \in Cycle(K)!Cycles, s \in K.scouts :
              Cycle(K)!Status(d, s)' = IF d = cycle /\ Cycle(K)!Status(d, s) = "running" THEN "cancelled" ELSE Cycle(K)!Status(d, s)
    BY <1>0, <2>1, CancelsRuns
  <2>b. /\ job' \in [Cycle(K)!Cycles -> Cycle(K)!Jobs]
        /\ \A d \in Cycle(K)!Cycles : job'[d] = IF d = cycle /\ job[d] = "running" THEN "failed" ELSE job[d]
    BY <1>0, <2>1, EndsJob DEF Cycle!Jobs
  <2>c. cycle \notin Resumable(K) BY <1>0, <1>1 DEF CycleInv, SnapInv, Resumable
  <2>2. Cycle(K)!TypeOK'
    BY <1>0, <2>1, <2>a, <2>b DEF CycleInv, Cycle!TypeOK, Cycle!Workers, Cycle!Cycles, Cycle!NoCycle,
       Cycle!Dropped, RunsTyped
  <2>3. RunInv(K)' BY <1>0, <2>1, RunsCancelled
  <2>4. WorkInv(K)' BY <1>0 DEF CycleInv, WorkInv, Knows
  <2>5. EventInv(K)'
    BY <1>0, <1>b, <2>1 DEF CycleInv, EventInv, Held, Recovering, Cycle!Cycles, Cycle!NoCycle
  <2>6. JobInv(K)'
    <3>1. \A c \in Cycle(K)!Cycles : Proven(K, c) => Proven(K, c)' BY <2>a DEF Proven
    <3> QED BY <1>0, <2>b, <3>1 DEF CycleInv, JobInv, Cycle!Cycles
  <2>7. SnapInv(K)' BY <1>0 DEF CycleInv, SnapInv, Cycle!QuarantineJust, Cycle!Cycles
  <2>8. ResumeInv(K)' BY <1>0, <1>b, <2>1, <2>c DEF CycleInv, ResumeInv, Recovering, Cycle!NoCycle
  <2> QED BY <2>2, <2>3, <2>4, <2>5, <2>6, <2>7, <2>8 DEF CycleInv
<1>2. CASE error # "snapshot"
  <2>1. UNCHANGED <<job, run, cycle>> BY <1>2 DEF Cycle!BackOff
  <2>2. Cycle(K)!TypeOK'
    BY <1>0, <2>1 DEF CycleInv, Cycle!TypeOK, Cycle!Workers, Cycle!Jobs, Cycle!Cycles, Cycle!NoCycle,
       Cycle!Dropped
  <2>3. RunInv(K)' BY <1>0, <2>1, RunKept
  <2>4. WorkInv(K)' BY <1>0 DEF CycleInv, WorkInv, Knows
  <2>5. EventInv(K)'
    BY <1>0, <1>2, <1>b, <2>1 DEF CycleInv, EventInv, Held, Recovering, Cycle!Cycles, Cycle!NoCycle
  <2>6. JobInv(K)' BY <1>0, <2>1 DEF CycleInv, JobInv, Proven, Cycle!Status, Cycle!Cycles
  <2>7. SnapInv(K)' BY <1>0 DEF CycleInv, SnapInv, Cycle!QuarantineJust, Cycle!Cycles
  <2>8. ResumeInv(K)' BY <1>0, <1>b, <2>1 DEF CycleInv, ResumeInv, Recovering, Cycle!NoCycle
  <2> QED BY <2>2, <2>3, <2>4, <2>5, <2>6, <2>7, <2>8 DEF CycleInv
<1> QED BY <1>1, <1>2

\* The thread of the signal handler cancels the runs of the cycle it was shown.
LEMMA CancelCycleInv ==
  ASSUME NEW K, Cycle(K)!CycleAssumption, CycleInv(K), Cycle(K)!CancelCycle
  PROVE  CycleInv(K)'
<1> USE DEF Cycle!batch, Cycle!history
<1>0. /\ cancelling /\ cancelling' = FALSE
      /\ UNCHANGED <<event, boundTo, snapshot, spoiled, artifact, minds, settings, boots, Cycle(K)!process,
                     Cycle(K)!batch, stop, shown, Cycle(K)!history>>
  BY DEF Cycle!CancelCycle
<1>s. stop BY <1>0 DEF CycleInv, JobInv
<1>b. EventInv(K)' /\ SnapInv(K)' /\ ResumeInv(K)' BY <1>0, BooksKept
<1>k. ASSUME job' \in [Cycle(K)!Cycles -> Cycle(K)!Jobs], RunsTyped(K)' PROVE Cycle(K)!TypeOK'
  <2>1. UNCHANGED <<event, boundTo, snapshot, spoiled, artifact, minds, settings, boots, phase, cycle,
                    todo, error, wake, worker, outcome, stop, shown, fetched, calls>>
    BY <1>0 DEF Cycle!process
  <2>2. cancelling' \in BOOLEAN BY <1>0
  <2> QED BY <1>k, <2>1, <2>2 DEF CycleInv, Cycle!TypeOK, RunsTyped
<1>1. CASE shown \in Cycle(K)!Cycles /\ Cycle(K)!TerminalRuns(shown) /\ Cycle(K)!FinishJob(shown, "cancelled")
  <2>a. /\ RunsTyped(K)'
        /\ \A d \in Cycle(K)!Cycles, s \in K.scouts :
             /\ run'[d][s].attempts = run[d][s].attempts
             /\ Cycle(K)!Status(d, s)' = IF d = shown /\ Cycle(K)!Status(d, s) = "running" THEN "cancelled" ELSE Cycle(K)!Status(d, s)
    BY <1>1, CancelsRuns
  <2>b. /\ job' \in [Cycle(K)!Cycles -> Cycle(K)!Jobs]
        /\ \A d \in Cycle(K)!Cycles : job'[d] = IF d = shown /\ job[d] = "running" THEN "cancelled" ELSE job[d]
    BY <1>1, EndsJob DEF Cycle!Jobs
  <2>2. Cycle(K)!TypeOK' BY <1>k, <2>a, <2>b
  <2>3. RunInv(K)' BY <1>0, <1>1, RunsCancelled
  <2>4. WorkInv(K)'
    <3>1. phase = "scouts" => cycle \in Cycle(K)!Cycles BY DEF CycleInv, EventInv, Held
    <3>2. CASE phase = "scouts"
      <4>1. \A s \in K.scouts : /\ run'[cycle][s].attempts = run[cycle][s].attempts
                                /\ Cycle(K)!Status(cycle, s)' = "succeeded" <=> Cycle(K)!Status(cycle, s) = "succeeded"
        BY <1>0, <2>a, <3>1, <3>2 DEF Cycle!process, Cycle!Status
      <4> QED BY <1>0, <4>1, <3>2 DEF CycleInv, WorkInv, Knows, Cycle!process, Cycle!Status
    <3>3. CASE phase # "scouts" BY <1>0, <3>3 DEF CycleInv, WorkInv, Knows, Cycle!process
    <3> QED BY <3>2, <3>3
  <2>6. JobInv(K)'
    <3>1. \A c \in Cycle(K)!Cycles : Proven(K, c) => Proven(K, c)' BY <2>a DEF Proven
    <3>2. phase \in Held => cycle \in Cycle(K)!Cycles BY DEF CycleInv, EventInv
    <3>3. phase \in {"later", "persist"} => Proven(K, cycle)'
      BY <1>0, <3>1, <3>2 DEF CycleInv, JobInv, Held, Cycle!process, Proven
    <3>4. \A c \in Cycle(K)!Cycles : job'[c] = "succeeded" \/ event'[c] = "completed" => Proven(K, c)'
      BY <1>0, <2>b, <3>1 DEF CycleInv, JobInv
    <3>5. phase \in {"reserve", "scouts"} =>
            job'[cycle] \in {"running", "succeeded"} \/ (stop /\ job'[cycle] = "cancelled")
      BY <1>s, <2>b, <3>2 DEF CycleInv, JobInv, Held
    <3> QED BY <1>0, <3>3, <3>4, <3>5 DEF JobInv, Cycle!process, Cycle!Cycles, Proven
  <2> QED BY <1>b, <2>2, <2>3, <2>4, <2>6 DEF CycleInv
<1>2. CASE UNCHANGED <<run, job>>
  <2>2. Cycle(K)!TypeOK' BY <1>2, <1>k DEF CycleInv, Cycle!TypeOK, RunsTyped
  <2>3. RunInv(K)' BY <1>0, <1>2, RunKept
  <2>4. WorkInv(K)' BY <1>0, <1>2 DEF CycleInv, WorkInv, Knows, Cycle!process, Cycle!Status
  <2>6. JobInv(K)' BY <1>0, <1>2 DEF CycleInv, JobInv, Cycle!process, Proven, Cycle!Status, Cycle!Cycles
  <2> QED BY <1>b, <2>2, <2>3, <2>4, <2>6 DEF CycleInv
<1> QED BY <1>1, <1>2 DEF Cycle!CancelCycle, CycleInv, Cycle!TypeOK

-----------------------------------------------------------------------------
\* The workers.
LEMMA AtWork ==
  ASSUME NEW K, Cycle(K)!CycleAssumption, CycleInv(K), NEW s \in K.scouts, NEW from,
         NEW to \in Cycle(K)!Workers, Cycle(K)!Turn(s, from, to)
  PROVE  /\ cycle \in Cycle(K)!Cycles /\ phase = "scouts" /\ worker[s] = from
         /\ worker' \in [K.scouts -> Cycle(K)!Workers]
         /\ \A t \in K.scouts : worker'[t] = IF t = s THEN to ELSE worker[t]
BY DEF Cycle!Turn, CycleInv, EventInv, Held, Cycle!TypeOK

LEMMA Says ==
  ASSUME NEW K, Cycle(K)!CycleAssumption, CycleInv(K), NEW s \in K.scouts, NEW result \in {"succeeded",
         "failed"}, Cycle(K)!Done(s, result)
  PROVE  /\ outcome' \in [K.scouts -> {"none", "succeeded", "failed"}]
         /\ \A t \in K.scouts : outcome'[t] = IF t = s THEN result ELSE outcome[t]
BY DEF Cycle!Done, CycleInv, Cycle!TypeOK

\* The work of one role: the others are where they were.
LEMMA WorkOf ==
  ASSUME NEW K, Cycle(K)!CycleAssumption, CycleInv(K), NEW s \in K.scouts, phase = "scouts",
         UNCHANGED <<phase, cycle>>,
         \A t \in K.scouts \ {s} :
           /\ worker'[t] = worker[t] /\ outcome'[t] = outcome[t]
           /\ Cycle(K)!Status(cycle, t)' = "succeeded" <=> Cycle(K)!Status(cycle, t) = "succeeded"
           /\ run'[cycle][t].attempts = run[cycle][t].attempts
           /\ calls'[cycle][t] = calls[cycle][t],
         Knows(K, s)'
  PROVE  WorkInv(K)'
<1>1. ASSUME NEW t \in K.scouts PROVE Knows(K, t)'
  <2>1. CASE t = s BY <2>1
  <2>2. CASE t # s
    <3>1. Knows(K, t) BY DEF CycleInv, WorkInv
    <3> QED BY <2>2, <3>1 DEF Knows
  <2> QED BY <2>1, <2>2
<1> QED BY <1>1 DEF WorkInv

LEMMA ExistingOutcomeInv ==
  ASSUME NEW K, Cycle(K)!CycleAssumption, CycleInv(K), NEW s \in K.scouts, Cycle(K)!ExistingOutcome(s)
  PROVE  CycleInv(K)'
<1> DEFINE result == IF Cycle(K)!Status(cycle, s) = "succeeded" THEN "succeeded" ELSE "failed"
<1>0. Cycle(K)!Turn(s, "existing", "done") /\ Cycle(K)!Done(s, result) /\ UNCHANGED <<Cycle(K)!KeptByWorkers, minds, Cycle(K)!history>>
  BY DEF Cycle!ExistingOutcome
<1>j. result \in {"succeeded", "failed"} /\ "done" \in Cycle(K)!Workers BY DEF Cycle!Workers
<1>a. /\ cycle \in Cycle(K)!Cycles /\ phase = "scouts" /\ worker' \in [K.scouts -> Cycle(K)!Workers]
      /\ \A t \in K.scouts : worker'[t] = IF t = s THEN "done" ELSE worker[t]
  BY <1>0, <1>j, AtWork
<1>b. /\ outcome' \in [K.scouts -> {"none", "succeeded", "failed"}]
      /\ \A t \in K.scouts : outcome'[t] = IF t = s THEN result ELSE outcome[t]
  <2> HIDE DEF result
  <2> QED BY <1>0, <1>j, Says
<1>c. /\ RunInv(K)' /\ RunsTyped(K)' /\ artifact' \in [Cycle(K)!Cycles -> [K.scouts -> SUBSET (1..K.attempts)]]
      /\ \A d \in Cycle(K)!Cycles, t \in K.scouts :
           /\ run'[d][t].attempts = run[d][t].attempts
           /\ Cycle(K)!Status(d, t)' = "succeeded" <=> Cycle(K)!Status(d, t) = "succeeded"
  <2>1. CASE Cycle(K)!Status(cycle, s) = "running"
    <3>1. Cycle(K)!FailedRun(cycle, s) BY <2>1 DEF Cycle!ExistingOutcome
    <3>2. RunInv(K)' BY <1>0, <1>a, <2>1, <3>1, RunFailed DEF Cycle!history
    <3>3. RunsTyped(K)' /\ artifact' \in [Cycle(K)!Cycles -> [K.scouts -> SUBSET (1..K.attempts)]]
      BY <1>a, <2>1, <3>1, FailsTyped
    <3>4. FailsOne(K, cycle, s) BY <1>a, <3>1, FailsRun
    <3> QED BY <2>1, <3>2, <3>3, <3>4 DEF FailsOne
  <2>2. CASE Cycle(K)!Status(cycle, s) # "running"
    <3>1. UNCHANGED <<run, artifact>> BY <2>2 DEF Cycle!ExistingOutcome
    <3> QED BY <1>0, <3>1, RunKept DEF Cycle!history, CycleInv, Cycle!TypeOK, RunsTyped, Cycle!Status
  <2> QED BY <2>1, <2>2
<1>1. Cycle(K)!TypeOK'
  BY <1>0, <1>a, <1>b, <1>c DEF CycleInv, Cycle!TypeOK, RunsTyped, Cycle!KeptByWorkers, Cycle!process,
     Cycle!shutdown, Cycle!history,
                              Cycle!Jobs, Cycle!Cycles, Cycle!NoCycle, Cycle!Dropped
<1>3. WorkInv(K)'
  <2>1. phase' = phase /\ cycle' = cycle /\ calls' = calls
    BY <1>0 DEF Cycle!KeptByWorkers, Cycle!process, Cycle!history
  <2>2. \A t \in K.scouts : /\ run'[cycle][t].attempts = run[cycle][t].attempts
                            /\ Cycle(K)!Status(cycle, t)' = "succeeded" <=> Cycle(K)!Status(cycle, t) = "succeeded"
    BY <1>a, <1>c, <2>1 DEF Cycle!Status
  <2>3. worker'[s] = "done" /\ outcome'[s] = result BY <1>a, <1>b
  <2>4. result # "none" /\ (result = "succeeded" => Cycle(K)!Status(cycle, s) = "succeeded") OBVIOUS
  <2> HIDE DEF result
  <2>5. Knows(K, s)' BY <2>2, <2>3, <2>4 DEF Knows
  <2> QED BY <1>a, <1>b, <2>1, <2>2, <2>5, WorkOf
<1>4. EventInv(K)' /\ JobInv(K)' /\ SnapInv(K)' /\ ResumeInv(K)' BY <1>0, <1>c, WorkersKeep
<1> QED BY <1>1, <1>c, <1>3, <1>4 DEF CycleInv
\* Steps of a worker that touch neither its run nor what others know.
LEMMA CallModelInv ==
  ASSUME NEW K, Cycle(K)!CycleAssumption, CycleInv(K), NEW s \in K.scouts, Cycle(K)!CallModel(s)
  PROVE  CycleInv(K)'
<1>0. /\ Cycle(K)!Turn(s, "queued", "call") /\ calls' = [calls EXCEPT ![cycle][s] = @ + 1]
      /\ UNCHANGED <<Cycle(K)!KeptByWorkers, run, artifact, minds, outcome, fetched>>
  BY DEF Cycle!CallModel
<1>a. /\ cycle \in Cycle(K)!Cycles /\ phase = "scouts" /\ worker[s] = "queued" /\ worker' \in [K.scouts -> Cycle(K)!Workers]
      /\ \A t \in K.scouts : worker'[t] = IF t = s THEN "call" ELSE worker[t]
  <2>1. "call" \in Cycle(K)!Workers BY DEF Cycle!Workers
  <2> QED BY <1>0, <2>1, AtWork
<1>b. \A d \in Cycle(K)!Cycles, t \in K.scouts :
        calls'[d][t] = IF d = cycle /\ t = s THEN calls[d][t] + 1 ELSE calls[d][t]
  BY <1>0 DEF CycleInv, Cycle!TypeOK
<1>c. \A d \in Cycle(K)!Cycles, t \in K.scouts : calls'[d][t] <= run[d][t].attempts /\ calls'[d][t] \in Nat
  <2> TAKE d \in Cycle(K)!Cycles, t \in K.scouts
  <2>1. /\ calls[d][t] \in Nat /\ run[d][t].attempts \in Nat /\ calls[d][t] <= run[d][t].attempts
        /\ calls[cycle][s] < run[cycle][s].attempts
    BY <1>a DEF CycleInv, Cycle!TypeOK, RunInv, WorkInv, Knows, Cycle!CycleAssumption
  <2>2. CASE d = cycle /\ t = s BY <1>b, <2>1, <2>2
  <2>3. CASE ~(d = cycle /\ t = s) BY <1>b, <2>1, <2>3
  <2> QED BY <2>2, <2>3
<1>d. calls' \in [Cycle(K)!Cycles -> [K.scouts -> 0..K.attempts]]
  <2>1. \A d \in Cycle(K)!Cycles, t \in K.scouts : calls'[d][t] \in 0..K.attempts
    BY <1>c DEF CycleInv, Cycle!TypeOK, Cycle!CycleAssumption
  <2>2. calls' \in [Cycle(K)!Cycles -> [K.scouts -> Nat]]
    BY <1>0, <1>a DEF CycleInv, Cycle!TypeOK, Cycle!CycleAssumption
  <2> QED BY <2>1, <2>2
<1>1. Cycle(K)!TypeOK'
  BY <1>0, <1>a, <1>d DEF CycleInv, Cycle!TypeOK, Cycle!KeptByWorkers, Cycle!process, Cycle!shutdown,
     Cycle!Jobs, Cycle!Cycles, Cycle!NoCycle, Cycle!Dropped
<1>2. RunInv(K)'
  <2>1. Cycle(K)!MindsCounted'
    <3>1. \A c \in Cycle(K)!Cycles, t \in K.scouts : (Cycle(K)!Status(c, t) = "succeeded") <=> (Cycle(K)!Status(c, t)' = "succeeded")
      BY <1>0 DEF Cycle!Status
    <3> QED BY <1>0, <3>1, MindsKept
  <2> QED BY <1>0, <1>c, <2>1 DEF CycleInv, RunInv, Cycle!FailuresKept, Cycle!Status, Cycle!Cycles
<1>3. WorkInv(K)'
  <2>1. Knows(K, s)'
    BY <1>0, <1>a DEF CycleInv, WorkInv, Knows, Cycle!KeptByWorkers, Cycle!process, Cycle!Status
  <2> QED BY <1>0, <1>a, <1>b, <2>1, WorkOf DEF Cycle!KeptByWorkers, Cycle!process, Cycle!Status
<1>4. EventInv(K)' /\ JobInv(K)' /\ SnapInv(K)' /\ ResumeInv(K)'
  <2>1. \A c \in Cycle(K)!Cycles, t \in K.scouts : Cycle(K)!Status(c, t) = "succeeded" => Cycle(K)!Status(c, t)' = "succeeded"
    BY <1>0 DEF Cycle!Status
  <2> QED BY <1>0, <2>1, WorkersKeep
<1> QED BY <1>1, <1>2, <1>3, <1>4 DEF CycleInv

LEMMA MovesOn ==
  ASSUME NEW K, Cycle(K)!CycleAssumption, CycleInv(K), NEW s \in K.scouts, NEW from \in Cycle(K)!Workers,
         NEW to \in {"answered", "failed", "exhausted", "retry", "raised"},
         Cycle(K)!Turn(s, from, to), to = "answered" => from = "call",
         UNCHANGED <<Cycle(K)!KeptByWorkers, run, artifact, minds, outcome, Cycle(K)!history>>
  PROVE  CycleInv(K)'
<1>a. /\ cycle \in Cycle(K)!Cycles /\ phase = "scouts" /\ worker[s] = from /\ worker' \in [K.scouts -> Cycle(K)!Workers]
      /\ \A t \in K.scouts : worker'[t] = IF t = s THEN to ELSE worker[t]
  <2>1. to \in Cycle(K)!Workers BY DEF Cycle!Workers
  <2> QED BY <2>1, AtWork
<1>1. Cycle(K)!TypeOK'
  BY <1>a DEF CycleInv, Cycle!TypeOK, Cycle!KeptByWorkers, Cycle!process, Cycle!shutdown,
     Cycle!history, Cycle!Jobs, Cycle!Cycles, Cycle!NoCycle, Cycle!Dropped
<1>2. RunInv(K)' BY RunKept DEF Cycle!history
<1>3. WorkInv(K)'
  <2>1. Knows(K, s)'
    BY <1>a DEF CycleInv, WorkInv, Knows, Cycle!KeptByWorkers, Cycle!process, Cycle!history, Cycle!Status
  <2> QED BY <1>a, <2>1, WorkOf DEF Cycle!KeptByWorkers, Cycle!process, Cycle!history, Cycle!Status
<1>4. EventInv(K)' /\ JobInv(K)' /\ SnapInv(K)' /\ ResumeInv(K)'
  <2>1. \A c \in Cycle(K)!Cycles, t \in K.scouts : Cycle(K)!Status(c, t) = "succeeded" => Cycle(K)!Status(c, t)' = "succeeded"
    BY DEF Cycle!Status
  <2> QED BY <2>1, WorkersKeep
<1> QED BY <1>1, <1>2, <1>3, <1>4 DEF CycleInv

LEMMA ModelAnswersInv ==
  ASSUME NEW K, Cycle(K)!CycleAssumption, CycleInv(K), NEW s \in K.scouts, Cycle(K)!ModelAnswers(s)
  PROVE  CycleInv(K)'
<1>1. "call" \in Cycle(K)!Workers BY DEF Cycle!Workers
<1> QED BY <1>1, MovesOn DEF Cycle!ModelAnswers

LEMMA WorkerRaisesInv ==
  ASSUME NEW K, Cycle(K)!CycleAssumption, CycleInv(K), NEW s \in K.scouts, Cycle(K)!WorkerRaises(s)
  PROVE  CycleInv(K)'
<1>1. {"failed", "exhausted", "retry"} \subseteq Cycle(K)!Workers BY DEF Cycle!Workers
<1> QED BY <1>1, MovesOn DEF Cycle!WorkerRaises

\* The answer is committed, unless the run was cancelled or expired meanwhile.
LEMMA CompleteInv ==
  ASSUME NEW K, Cycle(K)!CycleAssumption, CycleInv(K), NEW s \in K.scouts, Cycle(K)!Complete(s)
  PROVE  CycleInv(K)'
<1>1. CASE Cycle(K)!Status(cycle, s) = "running"
  <2>0. /\ SucceededRun(K, cycle, s) /\ minds' = [minds EXCEPT ![s] = @ + 1]
        /\ Cycle(K)!Turn(s, "answered", "done") /\ Cycle(K)!Done(s, "succeeded")
        /\ UNCHANGED <<Cycle(K)!KeptByWorkers, artifact, Cycle(K)!history>>
    BY <1>1 DEF Cycle!Complete, SucceededRun
  <2>a. /\ cycle \in Cycle(K)!Cycles /\ phase = "scouts" /\ worker' \in [K.scouts -> Cycle(K)!Workers]
        /\ \A t \in K.scouts : worker'[t] = IF t = s THEN "done" ELSE worker[t]
    <3>1. "done" \in Cycle(K)!Workers BY DEF Cycle!Workers
    <3> QED BY <2>0, <3>1, AtWork
  <2>b. /\ outcome' \in [K.scouts -> {"none", "succeeded", "failed"}]
        /\ \A t \in K.scouts : outcome'[t] = IF t = s THEN "succeeded" ELSE outcome[t]
    BY <2>0, Says
  <2>c. RunInv(K)' /\ RunsTyped(K)' /\ minds' \in [K.scouts -> 0..K.cycles]
    BY <1>1, <2>0, <2>a, RunSucceeds DEF Cycle!history
  <2>d. \A d \in Cycle(K)!Cycles, t \in K.scouts :
             /\ run'[d][t].attempts = run[d][t].attempts
             /\ Cycle(K)!Status(d, t)' = IF d = cycle /\ t = s THEN "succeeded" ELSE Cycle(K)!Status(d, t)
    BY <2>0, <2>a, SucceedsOnly DEF SucceedsOne
  <2>1. Cycle(K)!TypeOK'
    BY <2>0, <2>a, <2>b, <2>c DEF CycleInv, Cycle!TypeOK, Cycle!KeptByWorkers, Cycle!process,
       Cycle!shutdown, Cycle!history, Cycle!Jobs, Cycle!Cycles,
                                  Cycle!NoCycle, Cycle!Dropped, RunsTyped
  <2>3. WorkInv(K)'
    <3>1. Knows(K, s)'
      BY <2>0, <2>a, <2>b, <2>d DEF Knows, Cycle!KeptByWorkers, Cycle!process, Cycle!Status
    <3> QED
      BY <2>0, <2>a, <2>b, <2>d, <3>1, WorkOf DEF Cycle!KeptByWorkers, Cycle!process, Cycle!history,
         Cycle!Status
  <2>4. EventInv(K)' /\ JobInv(K)' /\ SnapInv(K)' /\ ResumeInv(K)' BY <2>0, <2>d, WorkersKeep
  <2> QED BY <2>1, <2>c, <2>3, <2>4 DEF CycleInv
<1>2. CASE Cycle(K)!Status(cycle, s) # "running"
  <2>1. "answered" \in Cycle(K)!Workers BY DEF Cycle!Workers
  <2> QED BY <1>2, <2>1, MovesOn DEF Cycle!Complete
<1> QED BY <1>1, <1>2
\* The failure is kept, unless the run was cancelled or expired meanwhile.
LEMMA RecordRunFailureInv ==
  ASSUME NEW K, Cycle(K)!CycleAssumption, CycleInv(K), NEW s \in K.scouts, Cycle(K)!RecordRunFailure(s)
  PROVE  CycleInv(K)'
<1>0. UNCHANGED <<Cycle(K)!KeptByWorkers, minds, Cycle(K)!history>> BY DEF Cycle!RecordRunFailure
<1>a. /\ cycle \in Cycle(K)!Cycles /\ phase = "scouts" /\ worker' \in [K.scouts -> Cycle(K)!Workers]
      /\ \A t \in K.scouts : t # s => worker'[t] = worker[t] /\ outcome'[t] = outcome[t]
      /\ outcome' \in [K.scouts -> {"none", "succeeded", "failed"}]
      /\ \/ worker'[s] = "retry" /\ outcome'[s] = outcome[s]
         \/ worker'[s] = "done" /\ outcome'[s] = "failed"
  <2>0. "retry" \in Cycle(K)!Workers /\ "done" \in Cycle(K)!Workers BY DEF Cycle!Workers
  <2>1. CASE Cycle(K)!Turn(s, "failed", "retry") /\ UNCHANGED outcome
    <3>1. /\ cycle \in Cycle(K)!Cycles /\ phase = "scouts" /\ worker' \in [K.scouts -> Cycle(K)!Workers]
          /\ \A t \in K.scouts : worker'[t] = IF t = s THEN "retry" ELSE worker[t]
      BY <2>0, <2>1, AtWork
    <3>2. outcome \in [K.scouts -> {"none", "succeeded", "failed"}] BY DEF CycleInv, Cycle!TypeOK
    <3> QED BY <2>1, <3>1, <3>2
  <2>2. CASE Cycle(K)!Turn(s, "exhausted", "done") /\ Cycle(K)!Done(s, "failed")
    <3>1. /\ cycle \in Cycle(K)!Cycles /\ phase = "scouts" /\ worker' \in [K.scouts -> Cycle(K)!Workers]
          /\ \A t \in K.scouts : worker'[t] = IF t = s THEN "done" ELSE worker[t]
      BY <2>0, <2>2, AtWork
    <3>2. /\ outcome' \in [K.scouts -> {"none", "succeeded", "failed"}]
          /\ \A t \in K.scouts : outcome'[t] = IF t = s THEN "failed" ELSE outcome[t]
      BY <2>2, Says
    <3> QED BY <3>1, <3>2
  <2> QED BY <2>1, <2>2 DEF Cycle!RecordRunFailure
<1>c. /\ RunInv(K)' /\ RunsTyped(K)' /\ artifact' \in [Cycle(K)!Cycles -> [K.scouts -> SUBSET (1..K.attempts)]]
      /\ \A d \in Cycle(K)!Cycles, t \in K.scouts :
           /\ run'[d][t].attempts = run[d][t].attempts
           /\ Cycle(K)!Status(d, t)' = "succeeded" <=> Cycle(K)!Status(d, t) = "succeeded"
  <2>1. CASE Cycle(K)!Status(cycle, s) = "running"
    <3>1. Cycle(K)!FailedRun(cycle, s) BY <2>1 DEF Cycle!RecordRunFailure
    <3>2. RunInv(K)' BY <1>0, <1>a, <2>1, <3>1, RunFailed DEF Cycle!history
    <3>3. RunsTyped(K)' /\ artifact' \in [Cycle(K)!Cycles -> [K.scouts -> SUBSET (1..K.attempts)]]
      BY <1>a, <2>1, <3>1, FailsTyped
    <3>4. FailsOne(K, cycle, s) BY <1>a, <3>1, FailsRun
    <3> QED BY <2>1, <3>2, <3>3, <3>4 DEF FailsOne
  <2>2. CASE Cycle(K)!Status(cycle, s) # "running"
    <3>1. UNCHANGED <<run, artifact>> BY <2>2 DEF Cycle!RecordRunFailure
    <3> QED BY <1>0, <3>1, RunKept DEF Cycle!history, CycleInv, Cycle!TypeOK, RunsTyped, Cycle!Status
  <2> QED BY <2>1, <2>2
<1>1. Cycle(K)!TypeOK'
  BY <1>0, <1>a, <1>c DEF CycleInv, Cycle!TypeOK, RunsTyped, Cycle!KeptByWorkers, Cycle!process,
     Cycle!shutdown, Cycle!history,
                          Cycle!Jobs, Cycle!Cycles, Cycle!NoCycle, Cycle!Dropped
<1>3. WorkInv(K)'
  <2>1. phase' = phase /\ cycle' = cycle /\ calls' = calls
    BY <1>0 DEF Cycle!KeptByWorkers, Cycle!process, Cycle!history
  <2>2. \A t \in K.scouts : /\ run'[cycle][t].attempts = run[cycle][t].attempts
                            /\ Cycle(K)!Status(cycle, t)' = "succeeded" <=> Cycle(K)!Status(cycle, t) = "succeeded"
    BY <1>a, <1>c, <2>1 DEF Cycle!Status
  <2>3. outcome[s] = "succeeded" => Cycle(K)!Status(cycle, s) = "succeeded"
    BY DEF CycleInv, WorkInv, Knows
  <2>5. Knows(K, s)' BY <1>a, <2>2, <2>3 DEF Knows
  <2> QED BY <1>a, <2>1, <2>2, <2>5, WorkOf
<1>4. EventInv(K)' /\ JobInv(K)' /\ SnapInv(K)' /\ ResumeInv(K)' BY <1>0, <1>c, WorkersKeep
<1> QED BY <1>1, <1>c, <1>3, <1>4 DEF CycleInv

\* Another attempt, while one is left.
LEMMA RetryRunInv ==
  ASSUME NEW K, Cycle(K)!CycleAssumption, CycleInv(K), NEW s \in K.scouts, Cycle(K)!RetryRun(s)
  PROVE  CycleInv(K)'
<1>0. UNCHANGED <<Cycle(K)!KeptByWorkers, artifact, minds, Cycle(K)!history>> /\ phase = "scouts" /\ cycle \in Cycle(K)!Cycles
  BY DEF Cycle!RetryRun, CycleInv, EventInv, Held
<1>1. CASE Cycle(K)!Opens(cycle, s)
  <2>0. /\ run' = [run EXCEPT ![cycle][s] = Cycle(K)!Opened(run[cycle][s])]
        /\ Cycle(K)!Turn(s, "retry", "queued") /\ outcome' = outcome
    BY <1>0, <1>1 DEF Cycle!RetryRun, CycleInv, Cycle!TypeOK
  <2>a. /\ worker' \in [K.scouts -> Cycle(K)!Workers]
        /\ \A t \in K.scouts : worker'[t] = IF t = s THEN "queued" ELSE worker[t]
    <3>1. "queued" \in Cycle(K)!Workers BY DEF Cycle!Workers
    <3> QED BY <2>0, <3>1, AtWork
  <2>b. \A d \in Cycle(K)!Cycles, t \in K.scouts :
          run'[d][t] = IF d = cycle /\ t \in {s} THEN Cycle(K)!Opened(run[d][t]) ELSE run[d][t]
    BY <2>0 DEF CycleInv, Cycle!TypeOK
  <2>c. RunInv(K)' /\ run[cycle][s].attempts + 1 \in 0..K.attempts
    <3>1. {s} \in SUBSET K.scouts /\ \A t \in {s} : Cycle(K)!Opens(cycle, t) BY <1>1
    <3> DEFINE S == {s}
    <3>2. /\ S \in SUBSET K.scouts /\ \A t \in S : Cycle(K)!Opens(cycle, t)
          /\ \A d \in Cycle(K)!Cycles, t \in K.scouts :
               run'[d][t] = IF d = cycle /\ t \in S THEN Cycle(K)!Opened(run[d][t]) ELSE run[d][t]
      BY <2>b, <3>1
    <3>3. s \in S OBVIOUS
    <3> HIDE DEF S
    <3>4. RunInv(K)' /\ \A t \in S : run[cycle][t].attempts + 1 \in 0..K.attempts
      BY <1>0, <3>2, RunsOpened DEF Cycle!history
    <3> QED BY <3>3, <3>4
  <2>d. RunsTyped(K)'
    <3> DEFINE Run == [status : {"none", "running", "succeeded", "failed", "cancelled"},
                       attempts : 0..K.attempts]
               r == Cycle(K)!Opened(run[cycle][s])
    <3>1. run \in [Cycle(K)!Cycles -> [K.scouts -> Run]] BY DEF CycleInv, Cycle!TypeOK
    <3>2. r \in Run BY <2>c DEF Cycle!Opened
    <3>3. run' = [run EXCEPT ![cycle][s] = r] BY <2>0
    <3> HIDE DEF Run, r
    <3>4. run' \in [Cycle(K)!Cycles -> [K.scouts -> Run]] BY <1>0, <3>1, <3>2, <3>3
    <3> QED BY <3>4 DEF RunsTyped, Run
  <2>e. /\ run'[cycle][s].attempts = run[cycle][s].attempts + 1 /\ run'[cycle][s].status = "running"
        /\ \A d \in Cycle(K)!Cycles, t \in K.scouts : ~(d = cycle /\ t = s) => run'[d][t] = run[d][t]
    <3>1. run'[cycle][s] = Cycle(K)!Opened(run[cycle][s]) BY <1>0, <2>b
    <3>2. \A d \in Cycle(K)!Cycles, t \in K.scouts : ~(d = cycle /\ t = s) => run'[d][t] = run[d][t]
      BY <2>b
    <3>3. run'[cycle][s].attempts = run[cycle][s].attempts + 1 /\ run'[cycle][s].status = "running"
      BY <3>1 DEF Cycle!Opened
    <3> QED BY <3>2, <3>3
  <2>f. \A c \in Cycle(K)!Cycles, t \in K.scouts : Cycle(K)!Status(c, t) = "succeeded" => Cycle(K)!Status(c, t)' = "succeeded"
    BY <1>1, <2>e DEF Cycle!Opens, Cycle!Status
  <2>1. Cycle(K)!TypeOK'
    BY <1>0, <2>0, <2>a, <2>d DEF CycleInv, Cycle!TypeOK, Cycle!KeptByWorkers, Cycle!process,
       Cycle!shutdown, Cycle!history, Cycle!Jobs, Cycle!Cycles,
                                  Cycle!NoCycle, Cycle!Dropped, RunsTyped
  <2>3. WorkInv(K)'
    <3>1. phase' = phase /\ cycle' = cycle /\ calls' = calls
      BY <1>0 DEF Cycle!KeptByWorkers, Cycle!process, Cycle!history
    <3>2. calls[cycle][s] < run'[cycle][s].attempts
      <4>1. calls[cycle][s] <= run[cycle][s].attempts /\ run[cycle][s].attempts \in Nat /\ calls[cycle][s] \in Nat
        BY <1>0 DEF CycleInv, RunInv, Cycle!TypeOK, Cycle!CycleAssumption
      <4> QED BY <2>e, <4>1
    <3>3. outcome[s] # "succeeded"
      BY <1>1 DEF Cycle!Opens, CycleInv, WorkInv, Knows
    <3>4. Knows(K, s)' BY <2>0, <2>a, <2>e, <3>1, <3>2, <3>3 DEF Knows, Cycle!Status
    <3> QED BY <1>0, <2>0, <2>a, <2>e, <3>1, <3>4, WorkOf DEF Cycle!Status
  <2>4. EventInv(K)' /\ JobInv(K)' /\ SnapInv(K)' /\ ResumeInv(K)' BY <1>0, <2>f, WorkersKeep
  <2> QED BY <2>1, <2>c, <2>3, <2>4 DEF CycleInv
<1>2. CASE ~Cycle(K)!Opens(cycle, s)
  <2>0. Cycle(K)!Turn(s, "retry", "done") /\ Cycle(K)!Done(s, "failed") /\ UNCHANGED run
    BY <1>2 DEF Cycle!RetryRun
  <2>a. /\ worker' \in [K.scouts -> Cycle(K)!Workers]
        /\ \A t \in K.scouts : worker'[t] = IF t = s THEN "done" ELSE worker[t]
    <3>1. "done" \in Cycle(K)!Workers BY DEF Cycle!Workers
    <3> QED BY <2>0, <3>1, AtWork
  <2>b. /\ outcome' \in [K.scouts -> {"none", "succeeded", "failed"}]
        /\ \A t \in K.scouts : outcome'[t] = IF t = s THEN "failed" ELSE outcome[t]
    BY <2>0, Says
  <2>1. Cycle(K)!TypeOK'
    BY <1>0, <2>0, <2>a, <2>b DEF CycleInv, Cycle!TypeOK, Cycle!KeptByWorkers, Cycle!process,
       Cycle!shutdown, Cycle!history, Cycle!Jobs, Cycle!Cycles,
                                  Cycle!NoCycle, Cycle!Dropped
  <2>2. RunInv(K)' BY <1>0, <2>0, RunKept DEF Cycle!history
  <2>3. WorkInv(K)'
    <3>1. Knows(K, s)' BY <2>a, <2>b DEF Knows
    <3> QED
      BY <1>0, <2>0, <2>a, <2>b, <3>1, WorkOf DEF Cycle!KeptByWorkers, Cycle!process, Cycle!history,
         Cycle!Status
  <2>4. EventInv(K)' /\ JobInv(K)' /\ SnapInv(K)' /\ ResumeInv(K)'
    <3>1. \A c \in Cycle(K)!Cycles, t \in K.scouts : Cycle(K)!Status(c, t) = "succeeded" => Cycle(K)!Status(c, t)' = "succeeded"
      BY <2>0 DEF Cycle!Status
    <3> QED BY <1>0, <3>1, WorkersKeep
  <2> QED BY <2>1, <2>2, <2>3, <2>4 DEF CycleInv
<1> QED BY <1>1, <1>2

-----------------------------------------------------------------------------
LEMMA StutterInv ==
  ASSUME NEW K, Cycle(K)!CycleAssumption, CycleInv(K), UNCHANGED Cycle(K)!vars
  PROVE  CycleInv(K)'
<1> USE DEF Cycle!vars, Cycle!durable, Cycle!process, Cycle!batch, Cycle!shutdown, Cycle!history
<1>1. Cycle(K)!TypeOK'
  BY DEF CycleInv, Cycle!TypeOK, Cycle!Workers, Cycle!Jobs, Cycle!Cycles, Cycle!NoCycle, Cycle!Dropped
<1>2. RunInv(K)' BY RunKept
<1>3. WorkInv(K)' BY DEF CycleInv, WorkInv, Knows, Cycle!Status
<1>4. EventInv(K)' /\ SnapInv(K)' /\ ResumeInv(K)' BY BooksKept
<1>5. JobInv(K)' BY DEF CycleInv, JobInv, Proven, Cycle!Status, Cycle!Cycles
<1> QED BY <1>1, <1>2, <1>3, <1>4, <1>5 DEF CycleInv

LEMMA CycleNextInv ==
  ASSUME NEW K, Cycle(K)!CycleAssumption, CycleInv(K), Cycle(K)!Next
  PROVE  CycleInv(K)'
<1>1. ASSUME Cycle(K)!Startup PROVE CycleInv(K)'
  BY <1>1, ExpireJobsInv, LookAtCycleInv, DropCycleInv, RecoveredInv DEF Cycle!Startup
<1>2. ASSUME Cycle(K)!Loop PROVE CycleInv(K)'
  <2>1. ASSUME Cycle(K)!LoopEnds \/ Cycle(K)!CancelledCycle \/ Cycle(K)!CircuitOpen PROVE CycleInv(K)'
    BY <2>1, EndsInv DEF Cycle!LoopEnds, Cycle!CancelledCycle, Cycle!CircuitOpen
  <2> QED BY <1>2, <2>1, NextCycleInv, BindCycleInv, ReplayCompletedInv, RecoverWakeInv, FetchWakeInv, MonitorInv,
             OpenBatchInv, ReserveRunsInv, BatchFailsInv, JoinScoutsInv, LaterStagesInv,
             PersistCompletionInv, CycleCompletedInv, WaitEndsInv, RecordFailureInv, BackOffInv DEF Cycle!Loop
<1>3. ASSUME NEW s \in K.scouts, Cycle(K)!Work(s) PROVE CycleInv(K)'
  BY <1>3, ExistingOutcomeInv, CallModelInv, ModelAnswersInv, CompleteInv, RecordRunFailureInv,
     WorkerRaisesInv, RetryRunInv DEF Cycle!Work
<1>4. ASSUME Cycle(K)!Environment PROVE CycleInv(K)'
  <2>1. ASSUME Cycle(K)!Crash PROVE CycleInv(K)' BY <2>1, EndsInv DEF Cycle!Crash
  <2>2. ASSUME Cycle(K)!BoundReached PROVE CycleInv(K)' BY <2>2, StutterInv DEF Cycle!BoundReached
  <2> QED BY <1>4, <2>1, <2>2, StopSignalInv, CancelCycleInv, SpoilInv, ExpireRunInv DEF Cycle!Environment
<1>5. ASSUME \E s \in K.scouts : Cycle(K)!Work(s) PROVE CycleInv(K)' BY <1>3, <1>5
<1> QED BY <1>1, <1>2, <1>4, <1>5, BootInv DEF Cycle!Next

LEMMA InvCycle ==
  ASSUME NEW K, Cycle(K)!CycleAssumption, CycleInv(K)
  PROVE  Cycle(K)!CycleTruthful
<1>1. Cycle(K)!SucceededOnce BY DEF CycleInv, WorkInv, Knows, RunInv, Cycle!SucceededOnce
<1>2. Cycle(K)!JobTruthful
  <2>1. ASSUME NEW c \in Cycle(K)!Cycles, NEW s \in K.scouts, Cycle(K)!Status(c, s) = "succeeded" PROVE run[c][s].attempts > 0
    BY <2>1 DEF CycleInv, RunInv, Cycle!TypeOK, Cycle!CycleAssumption
  <2> QED BY <2>1 DEF CycleInv, JobInv, Proven, Cycle!JobTruthful
<1>3. Cycle(K)!FrozenInput BY DEF CycleInv, EventInv, SnapInv, Cycle!FrozenInput
<1>4. Cycle(K)!OneResumable
  <2>1. Resumable(K) = {} \/ \E c \in Resumable(K) : Resumable(K) = {c} BY DEF CycleInv, ResumeInv
  <2>2. Cardinality(Resumable(K)) <= 1
    <3>1. CASE Resumable(K) = {} BY <3>1, FS_EmptySet
    <3>2. ASSUME NEW c, Resumable(K) = {c} PROVE Cardinality(Resumable(K)) <= 1
      <4>1. Cardinality({c}) = 1 BY FS_Singleton
      <4> QED BY <3>2, <4>1
    <3> QED BY <2>1, <3>1, <3>2
  <2> QED BY <2>2, CardIs DEF CycleInv, EventInv, Cycle!OneResumable, Resumable
<1> QED BY <1>1, <1>2, <1>3, <1>4 DEF CycleInv, RunInv, SnapInv, Cycle!CycleTruthful
\* Steps that keep every event, or every run.
EventsKept(K) == \A c \in Cycle(K)!Cycles : event[c] \notin {"none", "bound"} => event'[c] = event[c]
SuccessKept(K) == \A c \in Cycle(K)!Cycles, s \in K.scouts : Cycle(K)!Status(c, s) = "succeeded" => run'[c][s] = run[c][s]

LEMMA CancelsNoSuccess ==
  ASSUME NEW K, Cycle(K)!CycleAssumption, CycleInv(K), NEW c \in Cycle(K)!Cycles, Cycle(K)!TerminalRuns(c)
  PROVE  SuccessKept(K)
BY DEF Cycle!TerminalRuns, SuccessKept, Cycle!Status, CycleInv, Cycle!TypeOK

LEMMA FailsNoSuccess ==
  ASSUME NEW K, Cycle(K)!CycleAssumption, CycleInv(K), NEW c \in Cycle(K)!Cycles, NEW s \in K.scouts,
         Cycle(K)!Status(c, s) = "running", Cycle(K)!FailedRun(c, s)
  PROVE  SuccessKept(K)
BY DEF Cycle!FailedRun, SuccessKept, Cycle!Status, CycleInv, Cycle!TypeOK

LEMMA EventsStay ==
  ASSUME NEW K, Cycle(K)!CycleAssumption, CycleInv(K), Cycle(K)!Next
  PROVE  EventsKept(K)
<1>1. CASE event' = event BY <1>1 DEF EventsKept
<1>2. CASE Cycle(K)!BindCycle BY <1>2 DEF Cycle!BindCycle, EventsKept, CycleInv, Cycle!TypeOK
<1>3. CASE Cycle(K)!DropCycle
  <2>1. Cycle(K)!First \in Cycle(K)!Bound
    BY <1>3, FirstIn DEF Cycle!DropCycle, CycleInv, EventInv, Recovering
  <2>2. event[Cycle(K)!First] = "bound" BY <2>1 DEF Cycle!Bound
  <2> QED BY <1>3, <2>2 DEF Cycle!DropCycle, EventsKept, CycleInv, Cycle!TypeOK
<1>4. CASE Cycle(K)!PersistCompletion
  <2>1. event[cycle] = "bound" BY <1>4 DEF Cycle!PersistCompletion, CycleInv, EventInv
  <2> QED BY <1>4, <2>1 DEF Cycle!PersistCompletion, EventsKept, CycleInv, Cycle!TypeOK
<1>5. CASE Cycle(K)!RecordFailure
  <2>1. event' = event \/ (event[cycle] = "bound" /\ event' = [event EXCEPT ![cycle] = error])
    BY <1>5 DEF Cycle!RecordFailure
  <2> QED BY <2>1 DEF EventsKept, CycleInv, Cycle!TypeOK
<1>6. ASSUME Cycle(K)!Startup, ~Cycle(K)!DropCycle PROVE event' = event
  BY <1>6 DEF Cycle!Startup, Cycle!ExpireJobs, Cycle!LookAtCycle, Cycle!Recovered, Cycle!durable
<1>7. ASSUME Cycle(K)!Loop, ~Cycle(K)!BindCycle, ~Cycle(K)!PersistCompletion, ~Cycle(K)!RecordFailure PROVE event' = event
  BY <1>7 DEF Cycle!Loop, Cycle!NextCycle, Cycle!LoopEnds, Cycle!ReplayCompleted, Cycle!RecoverWake,
     Cycle!FetchWake, Cycle!MonitorFails, Cycle!MonitorExisting, Cycle!OpenBatch, Cycle!ReserveRuns,
              Cycle!BatchFails, Cycle!JoinScouts, Cycle!LaterStages, Cycle!CycleCompleted, Cycle!WaitEnds, Cycle!CancelledCycle, Cycle!CircuitOpen,
              Cycle!BackOff, Cycle!durable
<1>8. ASSUME NEW s \in K.scouts, Cycle(K)!Work(s) PROVE event' = event
  BY <1>8 DEF Cycle!Work, Cycle!ExistingOutcome, Cycle!CallModel, Cycle!ModelAnswers, Cycle!Complete,
     Cycle!RecordRunFailure, Cycle!WorkerRaises,
              Cycle!RetryRun, Cycle!KeptByWorkers
<1>9. ASSUME Cycle(K)!Environment PROVE event' = event
  BY <1>9 DEF Cycle!Environment, Cycle!StopSignal, Cycle!CancelCycle, Cycle!Crash, Cycle!BoundReached,
     Cycle!Spoil, Cycle!ExpireRun, Cycle!durable, Cycle!vars
<1> QED BY <1>1, <1>2, <1>3, <1>4, <1>5, <1>6, <1>7, <1>8, <1>9 DEF Cycle!Next, Cycle!Boot, Cycle!durable

LEMMA SuccessStays ==
  ASSUME NEW K, Cycle(K)!CycleAssumption, CycleInv(K), Cycle(K)!Next
  PROVE  SuccessKept(K)
<1>1. CASE run' = run BY <1>1 DEF SuccessKept
<1>2. ASSUME NEW c \in Cycle(K)!Cycles, NEW s \in K.scouts, Cycle(K)!ExpireRun(c, s) PROVE SuccessKept(K)
  BY <1>2, FailsNoSuccess DEF Cycle!ExpireRun
<1>3. CASE Cycle(K)!LookAtCycle
  <2>1. Cycle(K)!First \in Cycle(K)!Cycles BY <1>3, FirstIn DEF Cycle!LookAtCycle, CycleInv, Cycle!TypeOK
  <2> QED BY <1>1, <1>3, <2>1, CancelsNoSuccess DEF Cycle!LookAtCycle, Cycle!Terminalize
<1>4. CASE Cycle(K)!ReserveRuns
  <2>1. \A c \in Cycle(K)!Cycles, s \in K.scouts : Cycle(K)!Status(c, s) = "succeeded" => run'[c][s] = run[c][s]
    BY <1>4 DEF Cycle!ReserveRuns, Cycle!Opens, Cycle!Status, CycleInv, Cycle!TypeOK
  <2> QED BY <2>1 DEF SuccessKept
<1>5. CASE Cycle(K)!BackOff
  <2>1. cycle \in Cycle(K)!Cycles BY <1>5 DEF Cycle!BackOff, CycleInv, EventInv, Held
  <2> QED BY <1>1, <1>5, <2>1, CancelsNoSuccess DEF Cycle!BackOff, Cycle!Terminalize
<1>6. CASE Cycle(K)!CancelCycle
  BY <1>1, <1>6, CancelsNoSuccess DEF Cycle!CancelCycle, CycleInv, Cycle!TypeOK
<1>7. ASSUME NEW s \in K.scouts, Cycle(K)!Work(s) PROVE SuccessKept(K)
  <2>1. phase = "scouts" /\ cycle \in Cycle(K)!Cycles
    BY <1>7 DEF Cycle!Work, Cycle!ExistingOutcome, Cycle!CallModel, Cycle!ModelAnswers, Cycle!Complete,
       Cycle!RecordRunFailure, Cycle!WorkerRaises,
                Cycle!RetryRun, Cycle!Turn, CycleInv, EventInv, Held
  <2>2. CASE Cycle(K)!Status(cycle, s) = "running" /\ Cycle(K)!FailedRun(cycle, s)
    BY <2>1, <2>2, FailsNoSuccess
  <2>3. CASE Cycle(K)!Status(cycle, s) = "running" /\ SucceededRun(K, cycle, s)
    BY <2>1, <2>3 DEF SucceededRun, SuccessKept, Cycle!Status, CycleInv, Cycle!TypeOK
  <2>4. CASE Cycle(K)!Opens(cycle, s) /\ run' = [run EXCEPT ![cycle][s] = Cycle(K)!Opened(@)]
    BY <2>1, <2>4 DEF Cycle!Opens, SuccessKept, Cycle!Status, CycleInv, Cycle!TypeOK
  <2> QED BY <1>1, <1>7, <2>2, <2>3, <2>4
       DEF Cycle!Work, Cycle!ExistingOutcome, Cycle!CallModel, Cycle!ModelAnswers, Cycle!Complete,
          Cycle!RecordRunFailure, Cycle!WorkerRaises,
           Cycle!RetryRun, SucceededRun
<1>8. ASSUME Cycle(K)!Startup, ~Cycle(K)!LookAtCycle PROVE run' = run
  BY <1>8 DEF Cycle!Startup, Cycle!ExpireJobs, Cycle!DropCycle, Cycle!Recovered, Cycle!durable
<1>9. ASSUME Cycle(K)!Loop, ~Cycle(K)!ReserveRuns, ~Cycle(K)!BackOff PROVE run' = run
  BY <1>9 DEF Cycle!Loop, Cycle!NextCycle, Cycle!LoopEnds, Cycle!BindCycle, Cycle!ReplayCompleted,
     Cycle!RecoverWake, Cycle!FetchWake, Cycle!MonitorFails, Cycle!MonitorExisting, Cycle!OpenBatch,
              Cycle!BatchFails, Cycle!JoinScouts, Cycle!LaterStages, Cycle!PersistCompletion, Cycle!CycleCompleted, Cycle!WaitEnds,
              Cycle!CancelledCycle, Cycle!RecordFailure, Cycle!CircuitOpen, Cycle!durable
<1>10. ASSUME Cycle(K)!StopSignal \/ Cycle(K)!Crash \/ Cycle(K)!BoundReached \/ \E c \in Cycle(K)!Cycles : Cycle(K)!Spoil(c) PROVE run' = run
  BY <1>10 DEF Cycle!StopSignal, Cycle!Crash, Cycle!BoundReached, Cycle!Spoil, Cycle!durable, Cycle!vars
<1> QED BY <1>1, <1>2, <1>3, <1>4, <1>5, <1>6, <1>7, <1>8, <1>9, <1>10
        DEF Cycle!Next, Cycle!Boot, Cycle!Environment, Cycle!durable

LEMMA NextSettled ==
  ASSUME NEW K, Cycle(K)!CycleAssumption, CycleInv(K), Cycle(K)!Next
  PROVE  Cycle(K)!Settled
BY EventsStay, SuccessStays DEF Cycle!Settled, EventsKept, SuccessKept

-----------------------------------------------------------------------------
(***************************************************************************)
(* The Shadow book.                                                        *)
(***************************************************************************)
Statuses == {"none", "open", "closed", "measured"}
Positions == [status : Statuses, size : Nat, entry : Nat, ask : Nat, due : BOOLEAN]
Words == {"none", "wait", "validated", "rejected", "active", "closed"}

BookType(K) ==
  /\ expression \in [Book(K)!Expr -> Words] /\ position \in [Book(K)!Expr -> Positions]
  /\ DOMAIN plan = K.opps /\ \A o \in K.opps : plan[o].size \in Nat /\ plan[o].ask \in Nat
  /\ turn \in 1..(K.cycles + 1) /\ step \in Book(K)!Steps /\ at \in Nat \ {0}
  /\ rotatedFor \in [Book(K)!Expr -> Book(K)!Expr \cup {Book(K)!NoExpr}]

\* What is ranked is a book of this cycle, whose expressions came in its order.
Fixed(K, e) == expression[e] \in {"wait", "rejected"}
Item(K, k) == <<turn, ranked[k]>>
RankInv(K) ==
  /\ \A e \in Book(K)!Expr : e[1] > turn \/ (e[1] = turn /\ ranked = Book(K)!Unranked) => expression[e] = "none"
  /\ ranked # Book(K)!Unranked =>
       /\ ranked \in Seq(K.opps)
       /\ \A i, j \in 1..Len(ranked) : ranked[i] = ranked[j] => i = j
       /\ ranked # <<>> => turn \in Book(K)!Cycles
       /\ \A e \in Book(K)!Expr : e[1] = turn /\ expression[e] # "none" =>
            \E k \in 1..Len(ranked) : ranked[k] = e[2]
       /\ \A k \in 1..Len(ranked) : expression[Item(K, k)] # "none" =>
            \A j \in 1..(k - 1) : Fixed(K, Item(K, j))

\* Positions and expressions agree; one position each underlying and cycle.
PositionInv(K) ==
  /\ \A e \in Book(K)!Expr :
       /\ (expression[e] = "active") <=> (position[e].status = "open")
       /\ (expression[e] = "closed") <=> (position[e].status \in {"closed", "measured"})
  /\ \A e, f \in Book(K)!Open : e[2] = f[2] => e = f
  /\ \A e, f \in Book(K)!Expr :
       position[e].status # "none" /\ position[f].status # "none" /\ e[1] = f[1] => e = f
  /\ Cardinality(Book(K)!Open) <= K.open

\* What a step of the attempt knows.
Rotating(K) == step = "rotate" \/ (step = "result" /\ rotatedFor[closing] # Book(K)!NoExpr)
Chosen(K) == step \in {"gate", "open"} \/ Rotating(K)
StepInv(K) ==
  /\ step \in {"watch", "close", "result"} /\ ~Rotating(K) => todoBook \subseteq Book(K)!Open
  /\ step = "close" => closing \in Book(K)!Open \ todoBook
  /\ step = "result" => closing \in Book(K)!Expr /\ position[closing].status = "closed"
  /\ step = "rotate" => closing \in Book(K)!Open /\ Cardinality(Book(K)!Open) = K.open
  /\ step = "express" \/ Chosen(K) => ranked # Book(K)!Unranked /\ at \in 1..Len(ranked)
  /\ step = "express" => \A j \in 1..(at - 1) : Fixed(K, Item(K, j))
  /\ Chosen(K) => expression[Book(K)!Current] \notin {"none", "wait"}
  /\ step = "open" \/ Rotating(K) =>
       position[Book(K)!Current].status = "none" /\ \A e \in Book(K)!Open : e[2] # Book(K)!Current[2]

\* Who an incumbent was rotated out for is still at the head of its cycle, and
\* the place is free until it is taken.
RotationInv(K) ==
  /\ \A e \in Book(K)!Expr : rotatedFor[e] # Book(K)!NoExpr =>
       /\ position[e].status \in {"closed", "measured"}
       /\ rotatedFor[e][1] <= turn
       /\ rotatedFor[e][1] = turn =>
            /\ ranked # Book(K)!Unranked
            /\ \E k \in 1..Len(ranked) : ranked[k] = rotatedFor[e][2] /\ at <= k
            /\ expression[rotatedFor[e]] \notin {"none", "wait"}
            /\ position[rotatedFor[e]].status # "none" \/ Cardinality(Book(K)!Open) < K.open
  /\ \A e, f \in Book(K)!Expr : rotatedFor[e] = rotatedFor[f] /\ rotatedFor[e] # Book(K)!NoExpr => e = f

BookInv(K) == BookType(K) /\ RankInv(K) /\ PositionInv(K) /\ StepInv(K) /\ RotationInv(K)

-----------------------------------------------------------------------------
LEMMA SameCard ==
  ASSUME NEW K, NEW T
  PROVE  Book(K)!Cardinality(T) = Cardinality(T) /\ (Book(K)!IsFiniteSet(T) <=> IsFiniteSet(T))
BY DEF Book!Cardinality, Cardinality, Book!IsFiniteSet, IsFiniteSet

LEMMA ExprFinite ==
  ASSUME NEW K, Book(K)!BookAssumption
  PROVE  IsFiniteSet(Book(K)!Expr)
<1>1. K.cycles \in Int /\ IsFiniteSet(K.opps)
  BY SameCard DEF Book!BookAssumption
<1>2. IsFiniteSet(1..K.cycles)
  BY <1>1, FS_Interval
<1>3. IsFiniteSet((1..K.cycles) \X K.opps)
  BY <1>1, <1>2, FS_Product
<1> QED BY <1>3 DEF Book!Expr, Book!Cycles

LEMMA OpenFinite ==
  ASSUME NEW K, Book(K)!BookAssumption
  PROVE  IsFiniteSet(Book(K)!Open) /\ Cardinality(Book(K)!Open) \in Nat
BY ExprFinite, FS_Subset, FS_CardinalityType DEF Book!Open

LEMMA NoExprOutside ==
  ASSUME NEW K, Book(K)!BookAssumption
  PROVE  Book(K)!NoExpr \notin Book(K)!Expr
BY DEF Book!BookAssumption, Book!NoExpr, Book!Expr, Book!Cycles

\* The current expression is one.
LEMMA CurrentIn ==
  ASSUME NEW K, Book(K)!BookAssumption, BookType(K), RankInv(K), ranked # Book(K)!Unranked,
         at \in 1..Len(ranked)
  PROVE  /\ Book(K)!Current \in Book(K)!Expr /\ Book(K)!Current[1] = turn /\ Book(K)!Current[2] = ranked[at]
         /\ Book(K)!Current = Item(K, at) /\ Book(K)!Current # Book(K)!NoExpr /\ turn \in Book(K)!Cycles
<1>1. ranked \in Seq(K.opps) /\ ranked # <<>> /\ ranked[at] \in K.opps /\ turn \in Book(K)!Cycles
  BY DEF RankInv
<1>2. Book(K)!Current = <<turn, ranked[at]>> /\ Item(K, at) = <<turn, ranked[at]>>
  BY DEF Book!Current, Item
<1>3. Book(K)!Current \in Book(K)!Expr
  BY <1>1, <1>2 DEF Book!Expr
<1> QED BY <1>1, <1>2, <1>3, NoExprOutside

LEMMA ItemIn ==
  ASSUME NEW K, Book(K)!BookAssumption, BookType(K), RankInv(K), ranked # Book(K)!Unranked,
         NEW k \in 1..Len(ranked)
  PROVE  /\ Item(K, k) \in Book(K)!Expr /\ Item(K, k)[1] = turn /\ Item(K, k)[2] = ranked[k]
         /\ \A j \in 1..Len(ranked) : Item(K, j) = Item(K, k) => j = k
BY DEF BookType, RankInv, Item, Book!Expr, Book!Cycles, Book!BookAssumption

\* What comes before an expression that exists was passed over.
LEMMA InOrder ==
  ASSUME NEW K, Book(K)!BookAssumption, RankInv(K), ranked # Book(K)!Unranked,
         NEW k \in 1..Len(ranked), NEW j \in 1..Len(ranked), j < k,
         expression[Item(K, k)] # "none"
  PROVE  expression[Item(K, j)] \in {"wait", "rejected"}
<1>1. Len(ranked) \in Nat
  BY DEF RankInv
<1>2. j \in 1..(k - 1)
  BY <1>1
<1> QED BY <1>2 DEF RankInv, Fixed

LEMMA BookInitInv ==
  ASSUME NEW K, Book(K)!BookAssumption, Book(K)!Init
  PROVE  BookInv(K)
<1> USE DEF Book!BookAssumption
<1>1. BookType(K)
  BY DEF Book!Init, BookType, Book!NoExpr, Book!NoPlan, Book!NoPosition, Positions, Statuses, Words,
     Book!Steps
<1>2. Book(K)!Open = {}
  BY DEF Book!Init, Book!Open, Book!NoPosition
<1>3. Cardinality(Book(K)!Open) = 0
  BY <1>2, FS_EmptySet
<1>4. RankInv(K)
  BY DEF Book!Init, RankInv
<1>5. PositionInv(K)
  BY <1>2, <1>3 DEF Book!Init, PositionInv, Book!NoPosition
<1>6. StepInv(K)
  BY DEF Book!Init, StepInv, Chosen, Rotating
<1>7. RotationInv(K)
  BY DEF Book!Init, RotationInv
<1> QED BY <1>1, <1>4, <1>5, <1>6, <1>7 DEF BookInv

-----------------------------------------------------------------------------
\* Steps that leave the statuses of the book alone.
BookKept(K) ==
  /\ expression' = expression /\ turn' = turn /\ ranked' = ranked
  /\ \A e \in Book(K)!Expr : position'[e].status = position[e].status

LEMMA KeptOpen ==
  ASSUME NEW K, Book(K)!BookAssumption, BookKept(K)
  PROVE  Book(K)!Open' = Book(K)!Open
BY DEF BookKept, Book!Open, Book!Expr, Book!Cycles

LEMMA KeptBook ==
  ASSUME NEW K, Book(K)!BookAssumption, BookInv(K), BookKept(K)
  PROVE  RankInv(K)' /\ PositionInv(K)'
<1> Book(K)!Open' = Book(K)!Open
  BY KeptOpen
<1>1. RankInv(K)'
  BY DEF BookInv, RankInv, BookKept, Fixed, Item
<1>2. PositionInv(K)'
  BY DEF BookInv, PositionInv, BookKept
<1> QED BY <1>1, <1>2

LEMMA KeptRotation ==
  ASSUME NEW K, Book(K)!BookAssumption, BookInv(K), BookKept(K), rotatedFor' = rotatedFor, at' <= at,
         at' \in Nat
  PROVE  RotationInv(K)'
<1> Book(K)!Open' = Book(K)!Open
  BY KeptOpen
<1>1. \A e \in Book(K)!Expr : rotatedFor[e] # Book(K)!NoExpr => rotatedFor[e] \in Book(K)!Expr
  BY DEF BookInv, BookType
<1> QED BY <1>1 DEF BookInv, RotationInv, BookKept, BookType

LEMMA MonitoredKeeps ==
  ASSUME NEW K, Book(K)!BookAssumption, BookType(K), NEW e \in Book(K)!Expr, NEW ask \in K.prices,
         Book(K)!Monitored(e, ask)
  PROVE  /\ position' \in [Book(K)!Expr -> Positions]
         /\ \A f \in Book(K)!Expr : position'[f].status = position[f].status
BY DEF BookType, Book!Monitored, Positions, Book!BookAssumption

LEMMA StartInv ==
  ASSUME NEW K, Book(K)!BookAssumption, BookInv(K), Book(K)!Start
  PROVE  BookInv(K)'
<1> BookKept(K) /\ rotatedFor' = rotatedFor /\ at' = at
  BY DEF Book!Start, BookKept, Book!durable, Book!history
<1>0. BookType(K) /\ BookType(K)' /\ at' <= at /\ at' \in Nat
  BY DEF BookInv, BookType, Book!Start, Book!durable, Book!history, Book!Steps
<1>1. StepInv(K)'
  BY KeptOpen DEF Book!Start, StepInv, Chosen, Rotating
<1> QED BY <1>0, <1>1, KeptBook, KeptRotation DEF BookInv

LEMMA UnquotedInv ==
  ASSUME NEW K, Book(K)!BookAssumption, BookInv(K), NEW e \in todoBook, Book(K)!Unquoted(e)
  PROVE  BookInv(K)'
<1> BookKept(K) /\ rotatedFor' = rotatedFor /\ at' = at
  BY DEF Book!Unquoted, BookKept, Book!durable
<1>0. BookType(K) /\ BookType(K)' /\ at' <= at /\ at' \in Nat
  BY DEF BookInv, BookType, Book!Unquoted, Book!durable
<1>1. StepInv(K)'
  BY KeptOpen DEF BookInv, Book!Unquoted, StepInv, Chosen, Rotating
<1> QED BY <1>0, <1>1, KeptBook, KeptRotation DEF BookInv

LEMMA HoldInv ==
  ASSUME NEW K, Book(K)!BookAssumption, BookInv(K), NEW e \in todoBook, NEW ask \in K.prices,
         Book(K)!Hold(e, ask)
  PROVE  BookInv(K)'
<1>a. e \in Book(K)!Expr
  BY DEF BookInv, Book!Hold, StepInv, Rotating, Book!Open
<1>b. BookType(K) /\ Book(K)!Monitored(e, ask)
  BY DEF BookInv, Book!Hold
<1>c. BookKept(K) /\ rotatedFor' = rotatedFor /\ at' = at
  BY <1>a, <1>b, MonitoredKeeps DEF Book!Hold, BookKept, Book!history
<1>0. BookType(K)' /\ at' <= at /\ at' \in Nat
  BY <1>a, <1>b, MonitoredKeeps DEF BookType, Book!Hold, Book!history
<1>1. StepInv(K)'
  BY <1>c, KeptOpen DEF BookInv, Book!Hold, StepInv, Chosen, Rotating
<1> QED BY <1>0, <1>1, <1>c, KeptBook, KeptRotation DEF BookInv

LEMMA ExitInv ==
  ASSUME NEW K, Book(K)!BookAssumption, BookInv(K), NEW e \in todoBook, NEW ask \in K.prices,
         Book(K)!Exit(e, ask)
  PROVE  BookInv(K)'
<1>a. e \in Book(K)!Open /\ e \in Book(K)!Expr /\ todoBook \subseteq Book(K)!Open
  BY DEF BookInv, Book!Exit, StepInv, Rotating, Book!Open
<1>b. BookType(K) /\ Book(K)!Monitored(e, ask)
  BY DEF BookInv, Book!Exit
<1>c. BookKept(K) /\ rotatedFor' = rotatedFor /\ at' = at
  BY <1>a, <1>b, MonitoredKeeps DEF Book!Exit, BookKept, Book!history
<1>0. BookType(K)' /\ at' <= at /\ at' \in Nat
  BY <1>a, <1>b, MonitoredKeeps DEF BookType, Book!Exit, Book!history, Book!Steps
<1>1. StepInv(K)'
  BY <1>a, <1>c, KeptOpen DEF Book!Exit, StepInv, Chosen, Rotating
<1> QED BY <1>0, <1>1, <1>c, KeptBook, KeptRotation DEF BookInv

LEMMA CloseUnfilledInv ==
  ASSUME NEW K, Book(K)!BookAssumption, BookInv(K), Book(K)!CloseUnfilled
  PROVE  BookInv(K)'
<1> BookKept(K) /\ rotatedFor' = rotatedFor /\ at' = at
  BY DEF Book!CloseUnfilled, Book!Refused, BookKept, Book!durable
<1>0. BookType(K) /\ BookType(K)' /\ at' <= at /\ at' \in Nat
  BY DEF BookInv, BookType, Book!CloseUnfilled, Book!Refused, Book!Goes, Book!durable, Book!Steps
<1>1. StepInv(K)'
  BY KeptOpen DEF BookInv, Book!CloseUnfilled, Book!Refused, Book!Goes, StepInv, Chosen, Rotating
<1> QED BY <1>0, <1>1, KeptBook, KeptRotation DEF BookInv

\* The attempt ends, or its entry is given up: nothing is known any more.
LEMMA Parts ==
  ASSUME NEW K, Book(K)!BookAssumption, BookInv(K), BookKept(K), rotatedFor' = rotatedFor, at' <= at,
         at' \in Nat \ {0}, plan' = plan,
         step' \in {"start", "complete"}, position' = position
  PROVE BookInv(K)'
<1>0. BookType(K) /\ BookType(K)' /\ at' <= at /\ at' \in Nat
  BY DEF BookInv, BookType, BookKept, Book!Steps
<1>1. StepInv(K)'
  BY DEF StepInv, Chosen, Rotating
<1> QED BY <1>0, <1>1, KeptBook, KeptRotation DEF BookInv

LEMMA GivenUpInv ==
  ASSUME NEW K, Book(K)!BookAssumption, BookInv(K),
         Book(K)!AlreadyOpened \/ Book(K)!RefuseEntry \/ Book(K)!RefuseOpen \/ Book(K)!OpenRaises \/ Book(K)!Fail
  PROVE  BookInv(K)'
<1>1. at \in Nat \ {0}
  BY DEF BookInv, BookType
<1>2. BookKept(K) /\ rotatedFor' = rotatedFor /\ plan' = plan /\ position' = position
  BY DEF Book!AlreadyOpened, Book!RefuseEntry, Book!RefuseOpen, Book!OpenRaises, Book!Fail, BookKept,
     Book!durable, Book!history
<1>3. at' \in {at, 1} /\ step' \in {"start", "complete"}
  BY DEF Book!AlreadyOpened, Book!RefuseEntry, Book!RefuseOpen, Book!OpenRaises, Book!Fail,
     Book!Refused, Book!Again, Book!Goes
<1> QED
  BY <1>1, <1>2, <1>3, Parts

LEMMA AdmitInv ==
  ASSUME NEW K, Book(K)!BookAssumption, BookInv(K), Book(K)!Admit
  PROVE  BookInv(K)'
<1>1. BookKept(K) /\ rotatedFor' = rotatedFor /\ at' = at
  BY DEF Book!Admit, BookKept, Book!durable, Book!history
<1>0. BookType(K) /\ BookType(K)' /\ at' <= at /\ at' \in Nat
  BY DEF BookInv, BookType, Book!Admit, Book!Goes, Book!durable, Book!history, Book!Steps
<1>2. StepInv(K)'
  BY <1>1, KeptOpen
     DEF BookInv, Book!Admit, Book!MayEnter, Book!Duplicate, Book!Goes, StepInv, Chosen, Rotating,
        Book!Current, Book!durable
<1> QED BY <1>0, <1>1, <1>2, KeptBook, KeptRotation DEF BookInv

LEMMA RotateInv ==
  ASSUME NEW K, Book(K)!BookAssumption, BookInv(K), NEW e \in Book(K)!Open, NEW ask \in K.prices,
         Book(K)!Rotate(e, ask)
  PROVE  BookInv(K)'
<1>a. e \in Book(K)!Expr /\ BookType(K) /\ Book(K)!Monitored(e, ask)
  BY DEF BookInv, Book!Rotate, Book!Open
<1>b. BookKept(K) /\ rotatedFor' = rotatedFor
  BY <1>a, MonitoredKeeps DEF Book!Rotate, BookKept, Book!history
<1>0. BookType(K)' /\ at' = at /\ at' <= at /\ at' \in Nat
  BY <1>a, <1>b, MonitoredKeeps DEF BookType, Book!Rotate, Book!Refused, Book!Goes, Book!history,
     Book!Steps
<1>1. StepInv(K)'
  <2>1. CASE position[e].due
    BY <2>1 DEF Book!Rotate, Book!Refused, Book!Goes, StepInv, Chosen, Rotating
  <2>2. CASE ~position[e].due
    <3>1. step' = "rotate" /\ closing' = e /\ Book(K)!Current' = Book(K)!Current
      BY <2>2, <1>0, <1>b DEF Book!Rotate, Book!Current, BookKept
    <3>2. Cardinality(Book(K)!Open) = K.open
      BY SameCard DEF Book!Rotate, Book!Allocation
    <3>3. Book(K)!Current \in Book(K)!Expr
      BY CurrentIn DEF BookInv, Book!Rotate, Book!MayEnter, StepInv, Chosen
    <3> QED
      BY <3>1, <3>2, <3>3, <1>0, <1>b, KeptOpen
         DEF BookInv, StepInv, Chosen, Rotating, Book!Rotate, Book!MayEnter, Book!Duplicate, BookKept
  <2> QED BY <2>1, <2>2
<1> QED BY <1>a, <1>b, <1>0, <1>1, KeptBook, KeptRotation DEF BookInv

LEMMA TimePassesInv ==
  ASSUME NEW K, Book(K)!BookAssumption, BookInv(K), NEW e \in Book(K)!Open, Book(K)!TimePasses(e)
  PROVE  BookInv(K)'
<1>a. e \in Book(K)!Expr /\ BookType(K)
  BY DEF BookInv, Book!Open
<1>b. /\ position' \in [Book(K)!Expr -> Positions]
      /\ \A f \in Book(K)!Expr : position'[f].status = position[f].status
  BY <1>a DEF BookType, Book!TimePasses, Positions
<1>c. BookKept(K) /\ rotatedFor' = rotatedFor /\ at' = at
  BY <1>b DEF Book!TimePasses, BookKept, Book!history, Book!attempt
<1>0. BookType(K)' /\ at' <= at /\ at' \in Nat
  BY <1>a, <1>b DEF BookType, Book!TimePasses, Book!history, Book!attempt
<1>1. StepInv(K)'
  <2>1. ranked # Book(K)!Unranked /\ at \in 1..Len(ranked) => Book(K)!Current \in Book(K)!Expr
    BY <1>a, CurrentIn DEF BookInv
  <2>2. Book(K)!Current' = Book(K)!Current
    BY <1>c DEF Book!Current, BookKept
  <2> QED
    BY <2>1, <2>2, <1>c, KeptOpen
       DEF BookInv, Book!TimePasses, StepInv, Chosen, Rotating, Book!attempt, BookKept, Fixed, Item,
          Book!history
<1> QED BY <1>a, <1>c, <1>0, <1>1, KeptBook, KeptRotation DEF BookInv

-----------------------------------------------------------------------------
\* The next cycle has a book of its own.
LEMMA BookNextCycleInv ==
  ASSUME NEW K, Book(K)!BookAssumption, BookInv(K), Book(K)!NextCycle
  PROVE  BookInv(K)'
<1> USE DEF Book!BookAssumption
<1>a. /\ expression' = expression /\ position' = position /\ rotatedFor' = rotatedFor
      /\ ranked' = Book(K)!Unranked /\ step' = "start" /\ at' = 1
      /\ turn' = IF turn < K.cycles + 1 THEN turn + 1 ELSE K.cycles + 1
  BY DEF Book!NextCycle, Book!Again, Book!Goes, Book!history, Book!Last
<1>b. turn \in 1..(K.cycles + 1) /\ K.cycles \in Nat
  BY DEF BookInv, BookType
<1>c. \A e \in Book(K)!Expr : e[1] \in 1..K.cycles
  BY DEF Book!Expr, Book!Cycles
<1>e. DOMAIN plan' = K.opps /\ \A o \in K.opps : plan'[o].size \in Nat /\ plan'[o].ask \in Nat
  BY DEF Book!NextCycle, Book!NoPlan
<1>f. turn' \in 1..(K.cycles + 1)
  BY <1>a, <1>b
<1>1. BookType(K)'
  BY <1>a, <1>e, <1>f DEF BookInv, BookType, Book!Steps
<1>2. RankInv(K)'
  <2>1. \A e \in Book(K)!Expr : e[1] >= turn' => e[1] > turn
    BY <1>a, <1>b, <1>c
  <2> QED BY <2>1, <1>a, <1>b, <1>c DEF BookInv, RankInv
<1>d. Book(K)!Open' = Book(K)!Open
  BY <1>a DEF Book!Open
<1>3. PositionInv(K)'
  BY <1>a, <1>d DEF BookInv, PositionInv
<1>4. StepInv(K)'
  BY <1>a DEF StepInv, Chosen, Rotating
<1>5. RotationInv(K)'
  <2>1. \A e \in Book(K)!Expr : rotatedFor[e] # Book(K)!NoExpr =>
          rotatedFor[e] \in Book(K)!Expr /\ rotatedFor[e][1] < turn'
    BY <1>a, <1>b, <1>c DEF BookInv, RotationInv, BookType
  <2> QED BY <2>1, <1>a, <1>b, <1>c DEF BookInv, RotationInv
<1> QED BY <1>1, <1>2, <1>3, <1>4, <1>5 DEF BookInv

-----------------------------------------------------------------------------
\* Ranking and expressing.
LEMMA RankInvariance ==
  ASSUME NEW K, Book(K)!BookAssumption, BookInv(K), step = "watch", NEW b \in Book(K)!Books,
         Book(K)!Rank(b)
  PROVE  BookInv(K)'
<1> USE DEF Book!BookAssumption
<1>a. /\ expression' = expression /\ position' = position /\ rotatedFor' = rotatedFor
      /\ turn' = turn /\ plan' = plan /\ ranked' = b /\ at' = 1
      /\ step' = IF b = <<>> THEN "complete" ELSE "express"
      /\ ranked # Book(K)!Unranked => b = ranked
      /\ ranked = Book(K)!Unranked /\ turn > K.cycles => b = <<>>
  BY DEF Book!Rank, Book!Goes, Book!history
<1>b. turn \in 1..(K.cycles + 1) /\ K.cycles \in Nat /\ at \in Nat \ {0}
  BY DEF BookInv, BookType
<1>c. /\ b \in Seq(K.opps) /\ Len(b) \in Nat
      /\ \A i, j \in 1..Len(b) : b[i] = b[j] => i = j
  <2>1. PICK n \in 0..Cardinality(K.opps) : b \in [1..n -> K.opps]
    BY SameCard DEF Book!Books
  <2>2. n \in Nat
    BY <2>1, FS_CardinalityType
  <2>3. b \in Seq(K.opps) /\ Len(b) = n /\ DOMAIN b = 1..n
    BY <2>1, <2>2
  <2> QED BY <2>2, <2>3 DEF Book!Books
<1>d. b # Book(K)!Unranked
  <2>1. CASE b = Book(K)!Unranked
    <3>1. Len(Book(K)!Unranked) = 1 /\ Book(K)!Unranked[1] = "unranked"
      BY DEF Book!Unranked
    <3>2. Len(b) = 1 /\ b[1] = "unranked"
      BY <3>1, <2>1
    <3>3. 1 \in 1..Len(b) /\ b \in Seq(K.opps)
      BY <3>2, <1>c
    <3>4. b[1] \in K.opps
      BY <3>3, ElementOfSeq
    <3> QED BY <3>2, <3>4
  <2> QED BY <2>1
<1>1. BookType(K)'
  BY <1>a, <1>b DEF BookInv, BookType, Book!Steps
<1>2. RankInv(K)'
  <2>1. CASE ranked # Book(K)!Unranked
    BY <2>1, <1>a, <1>d DEF BookInv, RankInv, Fixed, Item
  <2>2. CASE ranked = Book(K)!Unranked
    <3>1. \A e \in Book(K)!Expr : e[1] = turn => expression[e] = "none"
      BY <2>2 DEF BookInv, RankInv
    <3>2. b # <<>> => turn \in Book(K)!Cycles
      BY <2>2, <1>a, <1>b DEF Book!Cycles
    <3>3. \A k \in 1..Len(b) : expression[<<turn, b[k]>>] = "none"
      <4> SUFFICES ASSUME NEW k \in 1..Len(b) PROVE expression[<<turn, b[k]>>] = "none"
        OBVIOUS
      <4>1. b # <<>> /\ b[k] \in K.opps
        BY <1>c
      <4> QED BY <4>1, <3>1, <3>2 DEF Book!Expr
    <3> QED BY <3>1, <3>2, <3>3, <1>a, <1>c, <1>d DEF BookInv, RankInv, Item
  <2> QED BY <2>1, <2>2
<1>e. Book(K)!Open' = Book(K)!Open
  BY <1>a DEF Book!Open
<1>3. PositionInv(K)'
  BY <1>a, <1>e DEF BookInv, PositionInv
<1>4. StepInv(K)'
  <2>1. b # <<>> => 1 \in 1..Len(b)
    BY <1>c
  <2> QED BY <2>1, <1>a, <1>d DEF StepInv, Chosen, Rotating
<1>5. RotationInv(K)'
  <2>1. CASE ranked # Book(K)!Unranked
    BY <2>1, <1>a, <1>b, <1>c, <1>e DEF BookInv, RotationInv
  <2>2. CASE ranked = Book(K)!Unranked
    BY <2>2, <1>a, <1>e DEF BookInv, RotationInv
  <2> QED BY <2>1, <2>2
<1> QED BY <1>1, <1>2, <1>3, <1>4, <1>5 DEF BookInv

\* The attempt goes on to the next of the book, or completes.
LEMMA AdvanceTo ==
  ASSUME NEW K, Book(K)!BookAssumption, BookInv(K), step = "express", Book(K)!Advance
  PROVE  /\ at' \in Nat \ {0} /\ step' \in {"express", "complete"}
         /\ step' = "express" => at' = at + 1 /\ at' \in 1..Len(ranked)
         /\ step' = "complete" => at' = at
<1>1. at \in 1..Len(ranked) /\ ranked # Book(K)!Unranked
  BY DEF BookInv, StepInv, Chosen
<1>2. Len(ranked) \in Nat /\ K.attempts \in Nat
  BY <1>1 DEF BookInv, RankInv, Book!BookAssumption
<1> QED BY <1>1, <1>2 DEF Book!Advance, Book!Goes

\* What is persisted under the current expression keeps the order of the book.
LEMMA PersistedRank ==
  ASSUME NEW K, Book(K)!BookAssumption, BookInv(K), step = "express",
         expression[Book(K)!Current] = "none",
         NEW w \in Words \ {"none"}, expression' = [expression EXCEPT ![Book(K)!Current] = w],
         ranked' = ranked, turn' = turn
  PROVE  /\ RankInv(K)' /\ Book(K)!Current \in Book(K)!Expr
         /\ \A e \in Book(K)!Expr : expression'[e] = IF e = Book(K)!Current THEN w ELSE expression[e]
         /\ \A k \in 1..Len(ranked) : Item(K, k)' = Item(K, k)
<1>1. at \in 1..Len(ranked) /\ ranked # Book(K)!Unranked /\ BookType(K) /\ RankInv(K)
  BY DEF BookInv, StepInv, Chosen
<1>2. /\ Book(K)!Current \in Book(K)!Expr /\ Book(K)!Current[1] = turn /\ Book(K)!Current[2] = ranked[at]
      /\ Book(K)!Current = Item(K, at)
  BY <1>1, CurrentIn
<1>3. \A e \in Book(K)!Expr : expression'[e] = IF e = Book(K)!Current THEN w ELSE expression[e]
  BY <1>1, <1>2 DEF BookType
<1>4. \A k \in 1..Len(ranked) : Item(K, k)' = Item(K, k)
  BY DEF Item
<1>5. Len(ranked) \in Nat
  BY <1>1 DEF RankInv
<1>6. ASSUME NEW k \in 1..Len(ranked), expression'[Item(K, k)] # "none", NEW j \in 1..(k - 1)
      PROVE  expression'[Item(K, j)] \in {"wait", "rejected"}
  <2>1. j \in 1..Len(ranked) /\ j < k
    BY <1>5
  <2>2. Item(K, k) \in Book(K)!Expr /\ Item(K, j) \in Book(K)!Expr
    BY <1>1, <2>1, ItemIn
  <2>3. CASE k = at
    <3>1. Fixed(K, Item(K, j))
      BY <2>3 DEF BookInv, StepInv
    <3> QED BY <3>1, <2>2, <1>3 DEF Fixed
  <2>4. CASE k # at
    <3>1. expression[Item(K, k)] # "none"
      BY <2>2, <2>4, <1>1, <1>2, <1>3, <1>6, ItemIn
    <3>2. Fixed(K, Item(K, j))
      BY <3>1, <1>1 DEF RankInv
    <3> QED BY <3>2, <2>2, <1>3 DEF Fixed
  <2> QED BY <2>3, <2>4
<1>7. \A k \in 1..Len(ranked) : expression'[Item(K, k)] # "none" =>
        \A j \in 1..(k - 1) : expression'[Item(K, j)] \in {"wait", "rejected"}
  BY <1>6
<1>8. \A e \in Book(K)!Expr : e[1] > turn => expression'[e] = "none"
  BY <1>1, <1>2, <1>3 DEF RankInv, BookType, Book!Expr, Book!Cycles
<1>9. \A e \in Book(K)!Expr : e[1] = turn /\ expression'[e] # "none" =>
        \E k \in 1..Len(ranked) : ranked[k] = e[2]
  BY <1>1, <1>2, <1>3 DEF RankInv
<1>10. \A j \in Nat : Item(K, j)' = Item(K, j)
  BY DEF Item
<1> QED
  BY <1>1, <1>2, <1>3, <1>4, <1>5, <1>7, <1>8, <1>9, <1>10 DEF RankInv, Fixed, Item

\* Nothing is rotated out for an expression that does not exist yet.
LEMMA NotRotatedFor ==
  ASSUME NEW K, Book(K)!BookAssumption, BookInv(K), ranked # Book(K)!Unranked, at \in 1..Len(ranked),
         expression[Book(K)!Current] \in {"none", "wait"}
  PROVE  \A e \in Book(K)!Expr : rotatedFor[e] # Book(K)!NoExpr /\ rotatedFor[e][1] = turn =>
           /\ rotatedFor[e] \in Book(K)!Expr /\ rotatedFor[e] # Book(K)!Current
           /\ \E k \in 1..Len(ranked) : ranked[k] = rotatedFor[e][2] /\ at + 1 <= k
<1>1. BookType(K) /\ RankInv(K)
  BY DEF BookInv
<1>2. Book(K)!Current \in Book(K)!Expr /\ Book(K)!Current = <<turn, ranked[at]>>
  BY <1>1, CurrentIn DEF Book!Current
<1> SUFFICES ASSUME NEW e \in Book(K)!Expr, rotatedFor[e] # Book(K)!NoExpr, rotatedFor[e][1] = turn
             PROVE  /\ rotatedFor[e] \in Book(K)!Expr /\ rotatedFor[e] # Book(K)!Current
                    /\ \E k \in 1..Len(ranked) : ranked[k] = rotatedFor[e][2] /\ at + 1 <= k
  OBVIOUS
<1>3. rotatedFor[e] \in Book(K)!Expr
  BY <1>1 DEF BookType
<1>4. rotatedFor[e] # Book(K)!Current
  BY DEF BookInv, RotationInv
<1>5. PICK k \in 1..Len(ranked) : ranked[k] = rotatedFor[e][2] /\ at <= k
  BY DEF BookInv, RotationInv
<1>6. k # at
  <2>1. rotatedFor[e] = <<turn, rotatedFor[e][2]>>
    BY <1>3 DEF Book!Expr
  <2> QED BY <2>1, <1>2, <1>4, <1>5
<1>7. Len(ranked) \in Nat
  BY <1>1 DEF RankInv
<1> QED BY <1>3, <1>4, <1>5, <1>6, <1>7

LEMMA ExistingInv ==
  ASSUME NEW K, Book(K)!BookAssumption, BookInv(K), Book(K)!Existing
  PROVE  BookInv(K)'
<1>a. BookKept(K) /\ rotatedFor' = rotatedFor /\ plan' = plan /\ position' = position
  BY DEF Book!Existing, BookKept, Book!durable, Book!history
<1>b. ranked # Book(K)!Unranked /\ at \in 1..Len(ranked) /\ BookType(K)
  BY DEF BookInv, Book!Existing, StepInv
<1>c. /\ Len(ranked) \in Nat /\ \A j \in Nat : Item(K, j)' = Item(K, j)
      /\ Book(K)!Open' = Book(K)!Open /\ RankInv(K)' /\ PositionInv(K)'
  <2>1. Len(ranked) \in Nat
    BY <1>b DEF BookInv, RankInv
  <2>2. \A j \in Nat : Item(K, j)' = Item(K, j)
    BY <1>a DEF Item, BookKept
  <2> QED BY <1>a, <2>1, <2>2, KeptOpen, KeptBook
<1>1. CASE expression[Book(K)!Current] = "wait"
  <2>1. /\ at' \in Nat \ {0} /\ step' \in {"express", "complete"}
        /\ step' = "express" => at' = at + 1 /\ at' \in 1..Len(ranked)
        /\ step' = "complete" => at' = at
    BY <1>1, AdvanceTo DEF Book!Existing
  <2>2. BookType(K)'
    BY <2>1, <1>a, <1>b DEF BookType, BookKept, Book!Steps
  <2>3. StepInv(K)'
    <3>1. step' = "express" => \A j \in 1..(at' - 1) : Fixed(K, Item(K, j))'
      <4>1. \A j \in 1..(at - 1) : Fixed(K, Item(K, j))
        BY DEF BookInv, Book!Existing, StepInv
      <4>2. Fixed(K, Item(K, at))
        BY <1>1 DEF Fixed, Item, Book!Current
      <4> QED BY <4>1, <4>2, <2>1, <1>a, <1>b, <1>c DEF Fixed, BookKept
    <3> QED BY <3>1, <2>1, <1>a, <1>b, <1>c DEF StepInv, Chosen, Rotating, BookKept
  <2>4. RotationInv(K)'
    <3>1. \A e \in Book(K)!Expr : rotatedFor[e] # Book(K)!NoExpr /\ rotatedFor[e][1] = turn =>
             \E k \in 1..Len(ranked) : ranked[k] = rotatedFor[e][2] /\ at' <= k
      BY <1>1, <1>b, <1>c, <2>1, NotRotatedFor
    <3>2. \A e \in Book(K)!Expr : rotatedFor[e] # Book(K)!NoExpr => rotatedFor[e] \in Book(K)!Expr
      BY <1>b DEF BookType
    <3> QED BY <3>1, <3>2, <1>a, <1>c DEF BookInv, RotationInv, BookKept
  <2> QED BY <2>2, <2>3, <2>4, <1>c DEF BookInv
<1>2. CASE expression[Book(K)!Current] # "wait"
  <2>1. step' = "gate" /\ at' = at /\ expression[Book(K)!Current] # "none"
    BY <1>2 DEF Book!Existing, Book!Goes
  <2>2. BookType(K)' /\ at' <= at /\ at' \in Nat
    BY <2>1, <1>a, <1>b DEF BookType, BookKept, Book!Steps
  <2>3. StepInv(K)'
    BY <2>1, <1>2, <1>a, <1>b DEF StepInv, Chosen, Rotating, BookKept, Book!Current
  <2>4. RotationInv(K)'
    BY <1>a, <2>2, KeptRotation
  <2> QED BY <2>2, <2>3, <2>4, <1>c DEF BookInv
<1> QED BY <1>1, <1>2

LEMMA PersistsInv ==
  ASSUME NEW K, Book(K)!BookAssumption, BookInv(K), step = "express",
         expression[Book(K)!Current] = "none",
         NEW w \in {"wait", "rejected", "validated"},
         expression' = [expression EXCEPT ![Book(K)!Current] = w],
         ranked' = ranked, turn' = turn, position' = position, rotatedFor' = rotatedFor,
         DOMAIN plan' = K.opps, \A o \in K.opps : plan'[o].size \in Nat /\ plan'[o].ask \in Nat,
         IF w = "validated" THEN Book(K)!Goes("gate") /\ at' = at ELSE Book(K)!Advance
  PROVE  BookInv(K)'
<1>b. ranked # Book(K)!Unranked /\ at \in 1..Len(ranked) /\ BookType(K)
  BY DEF BookInv, StepInv
<1>c. /\ RankInv(K)' /\ Book(K)!Current \in Book(K)!Expr
      /\ \A e \in Book(K)!Expr : expression'[e] = IF e = Book(K)!Current THEN w ELSE expression[e]
      /\ \A k \in 1..Len(ranked) : Item(K, k)' = Item(K, k)
  BY PersistedRank DEF Words
<1>d. Len(ranked) \in Nat /\ Book(K)!Open' = Book(K)!Open /\ Book(K)!Current' \in {<<turn, ranked[at']>>}
  BY <1>b DEF BookInv, RankInv, Book!Open, Book!Current
<1>e. /\ at' \in Nat \ {0} /\ step' \in {"express", "complete", "gate"}
      /\ step' = "express" => at' = at + 1 /\ at' \in 1..Len(ranked) /\ w # "validated"
      /\ step' = "complete" => at' = at
      /\ step' = "gate" => at' = at /\ w = "validated"
  BY <1>b, <1>d, AdvanceTo DEF Book!Goes
<1>f. position[Book(K)!Current].status = "none"
  BY <1>b, <1>c DEF BookInv, PositionInv, BookType, Positions, Statuses
<1>1. BookType(K)'
  BY <1>b, <1>c, <1>e DEF BookType, Book!Steps, Words
<1>2. PositionInv(K)'
  BY <1>c, <1>d, <1>f DEF BookInv, PositionInv
<1>3. StepInv(K)'
  <2>1. step' = "express" => \A j \in 1..(at' - 1) : Fixed(K, Item(K, j))'
    <3> SUFFICES ASSUME step' = "express", NEW j \in 1..(at' - 1)
                 PROVE  Fixed(K, Item(K, j))'
      OBVIOUS
    <3>1. j \in 1..Len(ranked) /\ j <= at /\ w \in {"wait", "rejected"}
      BY <1>b, <1>d, <1>e
    <3>2. Item(K, j) \in Book(K)!Expr /\ Item(K, j)' = Item(K, j)
      BY <3>1, <1>b, <1>c, ItemIn DEF BookInv
    <3>3. j # at => Fixed(K, Item(K, j))
      BY <3>1, <1>b, <1>d DEF BookInv, StepInv
    <3>4. Item(K, at) = Book(K)!Current
      BY DEF Item, Book!Current
    <3> QED BY <3>1, <3>2, <3>3, <3>4, <1>c DEF Fixed
  <2>2. step' = "gate" => Book(K)!Current' = Book(K)!Current
    BY <1>e DEF Book!Current
  <2> QED BY <2>1, <2>2, <1>b, <1>c, <1>e DEF StepInv, Chosen, Rotating
<1>4. RotationInv(K)'
  <2>1. \A e \in Book(K)!Expr : rotatedFor[e] # Book(K)!NoExpr /\ rotatedFor[e][1] = turn =>
          /\ rotatedFor[e] \in Book(K)!Expr /\ rotatedFor[e] # Book(K)!Current
          /\ \E k \in 1..Len(ranked) : ranked[k] = rotatedFor[e][2] /\ at + 1 <= k
    BY <1>b, NotRotatedFor
  <2>2. at' <= at + 1
    BY <1>b, <1>e
  <2>3. \A e \in Book(K)!Expr : rotatedFor[e] # Book(K)!NoExpr /\ rotatedFor[e][1] = turn =>
          \E k \in 1..Len(ranked) : ranked[k] = rotatedFor[e][2] /\ at' <= k
    BY <2>1, <2>2, <1>b, <1>d, <1>e
  <2> QED BY <2>1, <2>3, <1>c, <1>d DEF BookInv, RotationInv
<1> QED BY <1>1, <1>2, <1>3, <1>4, <1>c DEF BookInv

LEMMA PersistWaitInv ==
  ASSUME NEW K, Book(K)!BookAssumption, BookInv(K), Book(K)!PersistWait
  PROVE  BookInv(K)'
BY PersistsInv DEF Book!PersistWait, Book!history, BookInv, BookType

LEMMA PersistInv ==
  ASSUME NEW K, Book(K)!BookAssumption, BookInv(K), NEW size \in K.sizes, NEW ask \in K.prices,
         NEW v \in {"validated", "rejected"},
         Book(K)!Persist(size, ask, v)
  PROVE  BookInv(K)'
<1>1. DOMAIN plan' = K.opps /\ \A o \in K.opps : plan'[o].size \in Nat /\ plan'[o].ask \in Nat
  BY DEF BookInv, BookType, Book!Persist, Book!Planned, Book!BookAssumption
<1> QED BY <1>1, PersistsInv DEF Book!Persist, Book!history

-----------------------------------------------------------------------------
\* Closing and opening.
LEMMA CloseFilledInv ==
  ASSUME NEW K, Book(K)!BookAssumption, BookInv(K), Book(K)!CloseFilled
  PROVE  BookInv(K)'
<1>a. BookType(K) /\ closing \in Book(K)!Open /\ closing \in Book(K)!Expr /\ IsFiniteSet(Book(K)!Open)
  BY OpenFinite DEF BookInv, Book!CloseFilled, StepInv, Book!Open
<1>b. /\ position' \in [Book(K)!Expr -> Positions]
      /\ \A e \in Book(K)!Expr : position'[e].status =
           IF e = closing THEN "closed" ELSE position[e].status
  BY <1>a DEF BookType, Book!CloseFilled, Book!NoPosition, Positions, Statuses
<1>c. \A e \in Book(K)!Expr : expression'[e] = IF e = closing THEN "closed" ELSE expression[e]
  BY <1>a DEF BookType, Book!CloseFilled
<1>d. /\ ranked' = ranked /\ plan' = plan /\ turn' = turn /\ at' = at /\ todoBook' = todoBook
      /\ closing' = closing /\ step' = "result"
      /\ \A j \in Nat : Item(K, j)' = Item(K, j)
      /\ Book(K)!Current' = Book(K)!Current
  BY DEF Book!CloseFilled, Item, Book!Current
<1>e. Book(K)!Open' = Book(K)!Open \ {closing}
  BY <1>b DEF Book!Open, Book!Expr, Book!Cycles
<1>f. Cardinality(Book(K)!Open') = Cardinality(Book(K)!Open) - 1 /\ Cardinality(Book(K)!Open) \in Nat
  BY <1>a, <1>e, OpenFinite, FS_RemoveElement
<1>g. Cardinality(Book(K)!Open') < K.open /\ Cardinality(Book(K)!Open) <= K.open
  BY <1>f DEF BookInv, PositionInv, Book!BookAssumption
<1>h. expression[closing] = "active" /\ position[closing].status = "open" /\ rotatedFor[closing] = Book(K)!NoExpr
  BY <1>a DEF BookInv, PositionInv, RotationInv, Book!Open
<1>i. step = "rotate" => /\ Book(K)!Current \in Book(K)!Expr /\ Book(K)!Current # Book(K)!NoExpr /\ Book(K)!Current # closing
                         /\ position[Book(K)!Current].status = "none" /\ Book(K)!Current = <<turn, ranked[at]>>
                         /\ ranked # Book(K)!Unranked /\ at \in 1..Len(ranked)
                         /\ expression[Book(K)!Current] \notin {"none", "wait"}
  BY <1>h, CurrentIn DEF BookInv, StepInv, Chosen, Rotating, Book!Current
<1>j. \A e \in Book(K)!Expr : rotatedFor'[e] =
        IF e = closing /\ step = "rotate" THEN Book(K)!Current ELSE rotatedFor[e]
  BY <1>a DEF BookType, Book!CloseFilled
<1>1. BookType(K)'
  BY <1>a, <1>b, <1>c, <1>d, <1>i DEF BookType, Book!CloseFilled, Book!Steps, Words
<1>2. RankInv(K)'
  <2>1. ASSUME ranked # Book(K)!Unranked, NEW k \in 1..Len(ranked), expression'[Item(K, k)] # "none",
               NEW j \in 1..(k - 1)
        PROVE  expression'[Item(K, j)] \in {"wait", "rejected"}
    <3>1. Len(ranked) \in Nat /\ j \in 1..Len(ranked)
      BY <2>1 DEF BookInv, RankInv
    <3>2. Item(K, k) \in Book(K)!Expr /\ Item(K, j) \in Book(K)!Expr
      BY <2>1, <3>1, <1>a, ItemIn DEF BookInv
    <3>3. expression[Item(K, k)] # "none"
      BY <3>2, <2>1, <1>c, <1>h
    <3>4. expression[Item(K, j)] \in {"wait", "rejected"}
      BY <3>3, <2>1 DEF BookInv, RankInv, Fixed
    <3> QED BY <3>2, <3>4, <1>c, <1>h
  <2>2. \A e \in Book(K)!Expr : expression'[e] # "none" => expression[e] # "none"
    BY <1>c, <1>h
  <2>3. \A e \in Book(K)!Expr : e[1] > turn \/ (e[1] = turn /\ ranked = Book(K)!Unranked) => expression'[e] = "none"
    BY <2>2 DEF BookInv, RankInv
  <2>4. ranked # Book(K)!Unranked => \A e \in Book(K)!Expr : e[1] = turn /\ expression'[e] # "none" =>
          \E k \in 1..Len(ranked) : ranked[k] = e[2]
    BY <2>2 DEF BookInv, RankInv
  <2>5. ranked # Book(K)!Unranked =>
          /\ ranked \in Seq(K.opps)
          /\ \A i, j \in 1..Len(ranked) : ranked[i] = ranked[j] => i = j
          /\ ranked # <<>> => turn \in Book(K)!Cycles
    BY DEF BookInv, RankInv
  <2>6. ranked # Book(K)!Unranked => Len(ranked) \in Nat
    BY <2>5
  <2>7. ranked # Book(K)!Unranked => \A k \in 1..Len(ranked) : expression'[Item(K, k)] # "none" =>
          \A j \in 1..(k - 1) : expression'[Item(K, j)] \in {"wait", "rejected"}
    BY <2>1
  <2> QED BY <2>3, <2>4, <2>5, <2>6, <2>7, <1>d DEF RankInv, Fixed, Item
<1>3. PositionInv(K)'
  <2>1. \A e \in Book(K)!Expr :
          /\ (expression'[e] = "active") <=> (position'[e].status = "open")
          /\ (expression'[e] = "closed") <=> (position'[e].status \in {"closed", "measured"})
    BY <1>b, <1>c DEF BookInv, PositionInv
  <2>2. \A e, f \in Book(K)!Open' : e[2] = f[2] => e = f
    BY <1>e DEF BookInv, PositionInv
  <2>3. \A e \in Book(K)!Expr : position'[e].status # "none" => position[e].status # "none"
    BY <1>b, <1>h
  <2>4. \A e, f \in Book(K)!Expr :
          position'[e].status # "none" /\ position'[f].status # "none" /\ e[1] = f[1] => e = f
    BY <2>3 DEF BookInv, PositionInv
  <2>5. Cardinality(Book(K)!Open') <= K.open
    BY <1>f, <1>g DEF Book!BookAssumption
  <2> QED BY <2>1, <2>2, <2>4, <2>5 DEF PositionInv
<1>4. StepInv(K)'
  <2>1. step = "close" => rotatedFor'[closing] = Book(K)!NoExpr /\ todoBook \subseteq Book(K)!Open \ {closing}
    BY <1>a, <1>h, <1>j DEF BookInv, StepInv, Rotating
  <2>2. step = "rotate" =>
           position'[Book(K)!Current].status = "none" /\ \A e \in Book(K)!Open \ {closing} : e[2] # Book(K)!Current[2]
    BY <1>b, <1>i DEF BookInv, StepInv, Rotating
  <2>3. step = "rotate" => expression'[Book(K)!Current] \notin {"none", "wait"}
    BY <1>c, <1>i
  <2>4. step \in {"close", "rotate"}
    BY DEF Book!CloseFilled
  <2> QED
    BY <2>1, <2>2, <2>3, <2>4, <1>a, <1>b, <1>d, <1>e, <1>i, <1>j DEF StepInv, Chosen, Rotating
<1>5. RotationInv(K)'
  <2>0. at \in Nat
    BY <1>a DEF BookType
  <2>1. ASSUME NEW e \in Book(K)!Expr, rotatedFor'[e] # Book(K)!NoExpr
        PROVE  /\ position'[e].status \in {"closed", "measured"}
               /\ rotatedFor'[e][1] <= turn
               /\ rotatedFor'[e][1] = turn =>
                    /\ ranked # Book(K)!Unranked
                    /\ \E k \in 1..Len(ranked) : ranked[k] = rotatedFor'[e][2] /\ at <= k
                    /\ expression'[rotatedFor'[e]] \notin {"none", "wait"}
    <3>1. CASE e = closing /\ step = "rotate"
      BY <3>1, <2>0, <1>a, <1>b, <1>c, <1>i, <1>j DEF BookType
    <3>2. CASE ~(e = closing /\ step = "rotate")
      BY <3>2, <2>1, <1>a, <1>b, <1>c, <1>h, <1>j DEF BookInv, RotationInv, BookType
    <3> QED BY <3>1, <3>2
  <2>2. ASSUME NEW e \in Book(K)!Expr, NEW f \in Book(K)!Expr, rotatedFor'[e] = rotatedFor'[f],
               rotatedFor'[e] # Book(K)!NoExpr
        PROVE  e = f
    <3>1. ASSUME step = "rotate", NEW g \in Book(K)!Expr PROVE rotatedFor[g] # Book(K)!Current
      <4>1. Cardinality(Book(K)!Open) = K.open /\ ~(Cardinality(Book(K)!Open) < K.open)
        BY <3>1, <1>f DEF BookInv, StepInv
      <4> QED BY <3>1, <4>1, <1>i DEF BookInv, RotationInv
    <3> QED BY <3>1, <2>2, <1>j DEF BookInv, RotationInv
  <2> QED BY <2>1, <2>2, <1>d, <1>g DEF RotationInv
<1> QED BY <1>1, <1>2, <1>3, <1>4, <1>5 DEF BookInv

LEMMA RecordResultInv ==
  ASSUME NEW K, Book(K)!BookAssumption, BookInv(K), Book(K)!RecordResult
  PROVE  BookInv(K)'
<1>a. BookType(K) /\ closing \in Book(K)!Expr /\ position[closing].status = "closed"
  BY DEF BookInv, Book!RecordResult, StepInv
<1>b. /\ position' \in [Book(K)!Expr -> Positions]
      /\ \A e \in Book(K)!Expr : position'[e].status =
           IF e = closing THEN "measured" ELSE position[e].status
  BY <1>a DEF BookType, Book!RecordResult, Positions, Statuses
<1>c. /\ expression' = expression /\ ranked' = ranked /\ turn' = turn /\ plan' = plan
      /\ rotatedFor' = rotatedFor /\ at' = at /\ todoBook' = todoBook /\ Book(K)!Current' = Book(K)!Current
      /\ \A j \in Nat : Item(K, j)' = Item(K, j)
      /\ step' = IF rotatedFor[closing] = Book(K)!NoExpr THEN "watch" ELSE "open"
  BY DEF Book!RecordResult, Book!history, Book!Current, Item
<1>d. Book(K)!Open' = Book(K)!Open
  BY <1>a, <1>b DEF Book!Open, Book!Expr, Book!Cycles
<1>1. BookType(K)'
  BY <1>a, <1>b, <1>c DEF BookType, Book!Steps
<1>2. RankInv(K)'
  BY <1>c DEF BookInv, RankInv, Fixed, Item
<1>3. PositionInv(K)'
  BY <1>a, <1>b, <1>c, <1>d DEF BookInv, PositionInv
<1>4. StepInv(K)'
  <2>1. CASE rotatedFor[closing] = Book(K)!NoExpr
    BY <2>1, <1>c, <1>d DEF BookInv, Book!RecordResult, StepInv, Chosen, Rotating
  <2>2. CASE rotatedFor[closing] # Book(K)!NoExpr
    <3>1. /\ ranked # Book(K)!Unranked /\ at \in 1..Len(ranked) /\ position[Book(K)!Current].status = "none"
          /\ expression[Book(K)!Current] \notin {"none", "wait"} /\ \A e \in Book(K)!Open : e[2] # Book(K)!Current[2]
      BY <2>2 DEF BookInv, Book!RecordResult, StepInv, Chosen, Rotating
    <3>2. Book(K)!Current \in Book(K)!Expr
      BY <3>1, <1>a, CurrentIn DEF BookInv
    <3>3. position'[Book(K)!Current].status = "none"
      BY <3>1, <3>2, <1>a, <1>b
    <3> QED BY <2>2, <3>1, <3>3, <1>c, <1>d DEF StepInv, Chosen, Rotating
  <2> QED BY <2>1, <2>2
<1>5. RotationInv(K)'
  <2>1. \A e \in Book(K)!Expr : rotatedFor[e] # Book(K)!NoExpr => rotatedFor[e] \in Book(K)!Expr
    BY <1>a DEF BookType
  <2> QED BY <2>1, <1>a, <1>b, <1>c, <1>d DEF BookInv, RotationInv
<1> QED BY <1>1, <1>2, <1>3, <1>4, <1>5 DEF BookInv

\* Quotient and remainder.
LEMMA Divided ==
  ASSUME NEW x \in Nat, NEW c \in Nat \ {0}
  PROVE  /\ x \div c \in Int /\ x % c \in 0..(c - 1)
         /\ x = c * (x \div c) + (x % c)
<1>1. x \div c \in Int /\ x % c \in 0..(c - 1)
  OBVIOUS
<1>2. x = c * (x \div c) + (x % c)
  BY SMTT(20)
<1> QED BY <1>1, <1>2

\* A limit is not below the ask it was made of, and less than a cent above it.
LEMMA RoundsUp ==
  ASSUME NEW c \in Nat \ {0}, NEW a \in Nat
  PROVE  LET r == c * ((a + c - 1) \div c) IN r \in Nat /\ a <= r /\ r < a + c
<1>1. PICK x \in Nat : x = a + c - 1
  OBVIOUS
<1>2. PICK q \in Int : q = x \div c
  BY <1>1, Divided
<1>3. PICK m \in 0..(c - 1) : x = c * q + m
  BY <1>2, Divided
<1>4. PICK r \in Int : r = c * q
  BY <1>2
<1>5. r \in Nat /\ a <= r /\ r < a + c
  BY <1>1, <1>3, <1>4
<1> QED BY <1>1, <1>2, <1>4, <1>5

\* A product grows with its factor.
LEMMA Grows ==
  ASSUME NEW n \in Nat, NEW a \in Nat, NEW b \in Nat, a <= b
  PROVE  n * a \in Nat /\ n * b = n * a + n * (b - a) /\ n * (b - a) \in Nat
<1>1. b - a \in Nat OBVIOUS
<1>2. PICK d \in Nat : d = b - a BY <1>1
<1>3. b = a + d BY <1>2
<1> QED BY <1>2, <1>3, Z3

LEMMA OpenPositionInv ==
  ASSUME NEW K, Book(K)!BookAssumption, BookInv(K), NEW ask \in K.prices, Book(K)!OpenPosition(ask)
  PROVE  BookInv(K)'
<1> USE DEF Book!BookAssumption
<1>a. BookType(K) /\ ranked # Book(K)!Unranked /\ at \in 1..Len(ranked) /\ Len(ranked) \in Nat
  BY DEF BookInv, Book!OpenPosition, StepInv, Chosen, RankInv
<1>b. /\ Book(K)!Current \in Book(K)!Expr /\ Book(K)!Current[1] = turn /\ Book(K)!Current[2] = ranked[at]
      /\ Book(K)!Current = Item(K, at)
  BY <1>a, CurrentIn DEF BookInv
<1>c. /\ expression[Book(K)!Current] = "validated" /\ position[Book(K)!Current].status = "none"
      /\ \A e \in Book(K)!Open : e[2] # Book(K)!Current[2]
      /\ Cardinality(Book(K)!Open) < K.open
  BY SameCard DEF BookInv, Book!OpenPosition, StepInv, Book!Revalidated, Book!BookLimits
<1>d. /\ Book(K)!Current[2] \in K.opps /\ ask \in Nat /\ plan[Book(K)!Current[2]].size \in Nat
      /\ plan[Book(K)!Current[2]].ask \in Nat
  BY <1>a, <1>b DEF Book!Expr, BookType
<1>p. PICK price \in Book(K)!Fills(Book(K)!Current, ask) :
        position' = [position EXCEPT ![Book(K)!Current] =
          [status |-> "open", size |-> plan[Book(K)!Current[2]].size, entry |-> price,
           ask |-> 0, due |-> FALSE]]
  BY DEF Book!OpenPosition
<1>n. price \in Nat
  BY <1>d, RoundsUp DEF Book!Fills, Book!Limit, Book!RoundedUp
<1>e. /\ position' \in [Book(K)!Expr -> Positions]
      /\ \A e \in Book(K)!Expr : position'[e].status = IF e = Book(K)!Current THEN "open" ELSE position[e].status
  BY <1>a, <1>b, <1>d, <1>p, <1>n DEF BookType, Positions, Statuses
<1>f. /\ expression' \in [Book(K)!Expr -> Words]
      /\ \A e \in Book(K)!Expr : expression'[e] = IF e = Book(K)!Current THEN "active" ELSE expression[e]
  BY <1>a, <1>b DEF BookType, Book!OpenPosition, Words
<1>g. /\ ranked' = ranked /\ plan' = plan /\ turn' = turn /\ at' = at
      /\ rotatedFor' = rotatedFor /\ step' = "complete"
      /\ \A j \in Nat : Item(K, j)' = Item(K, j)
  BY DEF Book!OpenPosition, Book!Goes, Book!history, Item
<1>h. Book(K)!Open' = Book(K)!Open \cup {Book(K)!Current} /\ Book(K)!Current \notin Book(K)!Open
  BY <1>b, <1>c, <1>e DEF Book!Open, Book!Expr, Book!Cycles
<1>i. Cardinality(Book(K)!Open') <= K.open
  <2>1. Cardinality(Book(K)!Open') = Cardinality(Book(K)!Open) + 1 /\ Cardinality(Book(K)!Open) \in Nat
    BY <1>h, OpenFinite, FS_AddElement
  <2> QED BY <2>1, <1>c
\* No other expression of this cycle has a position: the book is gone through in order.
<1>j. \A e \in Book(K)!Expr : e[1] = turn /\ position[e].status # "none" => FALSE
  <2> SUFFICES ASSUME NEW e \in Book(K)!Expr, e[1] = turn, position[e].status # "none" PROVE FALSE
    OBVIOUS
  <2>1. expression[e] \in {"active", "closed"}
    BY <1>a DEF BookInv, PositionInv, BookType, Positions, Statuses
  <2>2. PICK k \in 1..Len(ranked) : ranked[k] = e[2]
    BY <2>1, <1>a DEF BookInv, RankInv
  <2>3. e = Item(K, k)
    BY <2>2 DEF Item, Book!Expr
  <2>4. CASE k < at
    BY <2>1, <2>2, <2>3, <2>4, <1>a, <1>b, <1>c, InOrder DEF BookInv
  <2>5. CASE k = at
    BY <2>1, <2>3, <2>5, <1>b, <1>c
  <2>6. CASE at < k
    BY <2>1, <2>2, <2>3, <2>6, <1>a, <1>b, <1>c, InOrder DEF BookInv
  <2> QED BY <2>4, <2>5, <2>6, <1>a
<1>1. BookType(K)'
  BY <1>a, <1>e, <1>f, <1>g DEF BookType, Book!Steps, Words
<1>2. RankInv(K)'
  <2>2. \A e \in Book(K)!Expr : expression'[e] # "none" => expression[e] # "none"
    BY <1>c, <1>f
  <2>1. ASSUME NEW k \in 1..Len(ranked), expression'[Item(K, k)] # "none", NEW j \in 1..(k - 1)
        PROVE  expression'[Item(K, j)] \in {"wait", "rejected"}
    <3>1. j \in 1..Len(ranked)
      BY <1>a
    <3>2. Item(K, k) \in Book(K)!Expr /\ Item(K, j) \in Book(K)!Expr
      BY <3>1, <1>a, ItemIn DEF BookInv
    <3>3. expression[Item(K, j)] \in {"wait", "rejected"}
      BY <3>2, <2>1, <2>2, <1>a DEF BookInv, RankInv, Fixed
    <3> QED BY <3>2, <3>3, <1>c, <1>f
  <2>3. \A e \in Book(K)!Expr : e[1] > turn => expression'[e] = "none"
    BY <2>2 DEF BookInv, RankInv
  <2>4. \A e \in Book(K)!Expr : e[1] = turn /\ expression'[e] # "none" =>
          \E k \in 1..Len(ranked) : ranked[k] = e[2]
    BY <2>2, <1>a DEF BookInv, RankInv
  <2>5. /\ ranked \in Seq(K.opps)
        /\ \A i, j \in 1..Len(ranked) : ranked[i] = ranked[j] => i = j
        /\ ranked # <<>> => turn \in Book(K)!Cycles
    BY <1>a DEF BookInv, RankInv
  <2> QED BY <2>1, <2>3, <2>4, <2>5, <1>a, <1>g DEF RankInv, Fixed, Item
<1>3. PositionInv(K)'
  <2>1. \A e \in Book(K)!Expr :
          /\ (expression'[e] = "active") <=> (position'[e].status = "open")
          /\ (expression'[e] = "closed") <=> (position'[e].status \in {"closed", "measured"})
    BY <1>c, <1>e, <1>f DEF BookInv, PositionInv
  <2>2. \A e, f \in Book(K)!Open' : e[2] = f[2] => e = f
    BY <1>c, <1>h DEF BookInv, PositionInv
  <2>3. \A e, f \in Book(K)!Expr :
          position'[e].status # "none" /\ position'[f].status # "none" /\ e[1] = f[1] => e = f
    BY <1>b, <1>e, <1>j DEF BookInv, PositionInv
  <2> QED BY <2>1, <2>2, <2>3, <1>i DEF PositionInv
<1>4. StepInv(K)'
  BY <1>g DEF StepInv, Chosen, Rotating
<1>5. RotationInv(K)'
  <2>1. ASSUME NEW e \in Book(K)!Expr, rotatedFor[e] # Book(K)!NoExpr
        PROVE  /\ position'[e].status \in {"closed", "measured"}
               /\ rotatedFor[e][1] <= turn
               /\ rotatedFor[e][1] = turn =>
                    /\ \E k \in 1..Len(ranked) : ranked[k] = rotatedFor[e][2] /\ at <= k
                    /\ expression'[rotatedFor[e]] \notin {"none", "wait"}
                    /\ position'[rotatedFor[e]].status # "none"
    <3>1. rotatedFor[e] \in Book(K)!Expr
      BY <2>1, <1>a DEF BookType
    <3>2. position[e].status \in {"closed", "measured"} /\ rotatedFor[e][1] <= turn
      BY <2>1 DEF BookInv, RotationInv
    <3>3. CASE rotatedFor[e][1] = turn
      <4>1. PICK k \in 1..Len(ranked) : ranked[k] = rotatedFor[e][2] /\ at <= k
        BY <2>1, <3>3 DEF BookInv, RotationInv
      <4>2. rotatedFor[e] = Item(K, k)
        BY <4>1, <3>1, <3>3 DEF Item, Book!Expr
      <4>3. expression[Item(K, k)] \notin {"none", "wait"}
        BY <2>1, <3>3, <4>2 DEF BookInv, RotationInv
      \* One ranked behind would mean that the current one is settled.
      <4>4. k = at
        <5>1. expression[Item(K, at)] \notin {"wait", "rejected"}
          BY <1>b, <1>c
        <5>2. at < k => expression[Item(K, at)] \in {"wait", "rejected"}
          BY <4>3, <1>a, InOrder DEF BookInv
        <5> QED BY <5>1, <5>2, <4>1, <1>a
      <4> QED BY <3>1, <3>2, <4>1, <4>2, <4>4, <1>b, <1>c, <1>e, <1>f
    <3> QED BY <3>2, <3>3, <1>c, <1>e
  <2> QED BY <2>1, <1>a, <1>g DEF BookInv, RotationInv
<1> QED BY <1>1, <1>2, <1>3, <1>4, <1>5 DEF BookInv

-----------------------------------------------------------------------------
LEMMA BookNextInv ==
  ASSUME NEW K, Book(K)!BookAssumption, BookInv(K), Book(K)!Next \/ UNCHANGED Book(K)!vars
  PROVE  BookInv(K)'
<1>1. CASE UNCHANGED Book(K)!vars
  BY <1>1 DEF Book!vars, Book!durable, Book!attempt, Book!history, BookInv, BookType, RankInv,
     PositionInv, StepInv,
     RotationInv, BookKept, Fixed, Item, Chosen, Rotating, Book!Current, Book!Open
<1>2. CASE Book(K)!Proceed
  <2>1. CASE Book(K)!Start
    BY <2>1, StartInv
  <2>2. CASE Book(K)!Watch
    BY <2>2, UnquotedInv, HoldInv, ExitInv DEF Book!Watch, Book!ExitFalsified, Book!ExitDue
  <2>3. CASE Book(K)!CloseUnfilled \/ Book(K)!CloseFilled \/ Book(K)!RecordResult
    BY <2>3, CloseUnfilledInv, CloseFilledInv, RecordResultInv
  <2>4. CASE step = "watch" /\ \E b \in Book(K)!Books : Book(K)!Rank(b)
    BY <2>4, RankInvariance
  <2>5. CASE Book(K)!Express
    BY <2>5, ExistingInv, PersistWaitInv, PersistInv DEF Book!Express
  <2>6. CASE Book(K)!Gate
    BY <2>6, GivenUpInv, AdmitInv, RotateInv DEF Book!Gate
  <2>7. CASE Book(K)!Enter
    BY <2>7, GivenUpInv, OpenPositionInv DEF Book!Enter
  <2>8. CASE Book(K)!Complete
    BY <2>8, BookNextCycleInv DEF Book!Complete
  <2> QED BY <1>2, <2>1, <2>2, <2>3, <2>4, <2>5, <2>6, <2>7, <2>8 DEF Book!Proceed
<1>3. CASE Book(K)!GiveUp \/ Book(K)!Fail \/ \E e \in Book(K)!Open : Book(K)!TimePasses(e)
  BY <1>3, BookNextCycleInv, GivenUpInv, TimePassesInv DEF Book!GiveUp
<1> QED BY <1>1, <1>2, <1>3 DEF Book!Next

LEMMA InvBook ==
  ASSUME NEW K, Book(K)!BookAssumption, BookInv(K)
  PROVE  Book(K)!BookTruthful
BY SameCard DEF BookInv, PositionInv, RotationInv, Book!BookTruthful

-----------------------------------------------------------------------------
\* A sum counts units: MapThenSumSet walks over the subsets of what it sums.
Units(N, S) == {u \in S \X Nat : u[2] < N[u[1]]}
Pick(s) == CHOOSE x \in s : TRUE
\* iter is the recursive function of MapThenFoldSet.
Sums(iter, N, S) ==
  iter = [s \in SUBSET S |-> IF s = {} THEN 0 ELSE N[Pick(s)] + iter[s \ {Pick(s)}]]

\* Adding a member to S adds its number.
LEMMA UnitsAdded ==
  ASSUME NEW S, IsFiniteSet(S), NEW x, x \notin S, NEW N, \A y \in S \cup {x} : N[y] \in Nat,
         IsFiniteSet(Units(N, S))
  PROVE  /\ IsFiniteSet(Units(N, S \cup {x}))
         /\ Cardinality(Units(N, S \cup {x})) = Cardinality(Units(N, S)) + N[x]
<1> DEFINE B == {x} \X (0..(N[x] - 1))
<1>1. N[x] \in Nat OBVIOUS
<1>2. IsFiniteSet(0..(N[x] - 1)) /\ Cardinality(0..(N[x] - 1)) = N[x]
  <2> DEFINE m == N[x] - 1
  <2>1. m \in Int /\ 0 \in Int /\ m - 0 + 1 = N[x] /\ (0 > m <=> N[x] = 0) BY <1>1
  <2> HIDE DEF m
  <2>2. IsFiniteSet(0..m) /\ Cardinality(0..m) = IF 0 > m THEN 0 ELSE m - 0 + 1 BY <2>1, FS_Interval
  <2>3. IsFiniteSet(0..m) /\ Cardinality(0..m) = N[x] BY <2>1, <2>2
  <2> QED BY <2>3 DEF m
<1>3. IsFiniteSet({x}) /\ Cardinality({x}) = 1
  BY FS_Singleton
<1>4. IsFiniteSet(B) /\ Cardinality(B) = N[x]
  BY <1>1, <1>2, <1>3, FS_Product
<1>5. Units(N, S \cup {x}) = Units(N, S) \cup B
  BY <1>1 DEF Units
<1>6. Units(N, S) \cap B = {}
  BY DEF Units
<1>7. Cardinality(Units(N, S)) \in Nat
  BY FS_CardinalityType
<1> HIDE DEF B
<1>8. /\ IsFiniteSet(Units(N, S) \cup B)
      /\ Cardinality(Units(N, S) \cup B) =
           Cardinality(Units(N, S)) + Cardinality(B) - Cardinality(Units(N, S) \cap B)
  BY <1>4, FS_Union
<1>9. Cardinality({}) = 0
  BY FS_EmptySet
<1>10. Cardinality(Units(N, S) \cap B) = 0
  BY <1>6, <1>9
<1>11. Cardinality(Units(N, S) \cup B) = Cardinality(Units(N, S)) + N[x]
  BY <1>1, <1>4, <1>7, <1>8, <1>10
<1> QED BY <1>5, <1>8, <1>11

\* The units of a finite set are finitely many; a set of none has none.
LEMMA UnitsFinite ==
  ASSUME NEW S, IsFiniteSet(S), NEW N, \A y \in S : N[y] \in Nat
  PROVE  IsFiniteSet(Units(N, S))
<1> DEFINE Bad == {n \in Nat : \E s \in SUBSET S : Cardinality(s) = n /\ ~IsFiniteSet(Units(N, s))}
<1> SUFFICES ASSUME Bad # {} PROVE FALSE
  <2>1. Cardinality(S) \in Nat BY FS_CardinalityType
  <2> QED BY <2>1
<1>1. PICK n \in Bad : \A m \in Bad : n <= m BY Least
<1>2. PICK s \in SUBSET S : Cardinality(s) = n /\ ~IsFiniteSet(Units(N, s)) BY <1>1
<1>3. IsFiniteSet(s) BY FS_Subset
<1>4. s # {}
  <2>1. Units(N, {}) = {} BY DEF Units
  <2> QED BY <2>1, <1>2, FS_EmptySet
<1>5. PICK x : x \in s BY <1>4
<1>6. IsFiniteSet(s \ {x}) /\ Cardinality(s \ {x}) = n - 1 /\ n \in Nat
  BY <1>2, <1>3, <1>5, FS_RemoveElement
<1>7. n - 1 \in Nat BY <1>3, <1>6, FS_CardinalityType
<1>8. IsFiniteSet(Units(N, s \ {x})) BY <1>1, <1>6, <1>7
<1>9. (s \ {x}) \cup {x} = s BY <1>5
<1> QED BY <1>2, <1>5, <1>6, <1>8, <1>9, UnitsAdded

\* A walk over S adds up to the number of its units.
LEMMA SumCounts ==
  ASSUME NEW S, IsFiniteSet(S), NEW N, \A y \in S : N[y] \in Nat, NEW iter, Sums(iter, N, S)
  PROVE  iter[S] = Cardinality(Units(N, S))
<1> DEFINE Bad == {n \in Nat : \E s \in SUBSET S : Cardinality(s) = n /\ iter[s] # Cardinality(Units(N, s))}
<1> SUFFICES ASSUME Bad # {} PROVE FALSE
  <2>1. Cardinality(S) \in Nat BY FS_CardinalityType
  <2> QED BY <2>1
<1>1. PICK n \in Bad : \A m \in Bad : n <= m BY Least
<1>2. PICK s \in SUBSET S : Cardinality(s) = n /\ iter[s] # Cardinality(Units(N, s)) BY <1>1
<1>3. IsFiniteSet(s) BY FS_Subset
<1>4. iter[s] = IF s = {} THEN 0 ELSE N[Pick(s)] + iter[s \ {Pick(s)}] BY DEF Sums
<1>5. s # {}
  <2>1. Units(N, {}) = {} BY DEF Units
  <2> QED BY <2>1, <1>2, <1>4, FS_EmptySet
<1>6. Pick(s) \in s BY <1>5 DEF Pick
<1>7. IsFiniteSet(s \ {Pick(s)}) /\ Cardinality(s \ {Pick(s)}) = n - 1 /\ n \in Nat
  BY <1>2, <1>3, <1>6, FS_RemoveElement
<1>8. n - 1 \in Nat BY <1>3, <1>7, FS_CardinalityType
<1>9. iter[s \ {Pick(s)}] = Cardinality(Units(N, s \ {Pick(s)})) BY <1>1, <1>7, <1>8
<1>10. IsFiniteSet(Units(N, s \ {Pick(s)})) BY <1>7, UnitsFinite
<1>11. (s \ {Pick(s)}) \cup {Pick(s)} = s BY <1>6
<1>12. Cardinality(Units(N, s)) = Cardinality(Units(N, s \ {Pick(s)})) + N[Pick(s)]
  BY <1>6, <1>7, <1>10, <1>11, UnitsAdded
<1>13. Cardinality(Units(N, s \ {Pick(s)})) \in Nat /\ N[Pick(s)] \in Nat
  BY <1>6, <1>10, FS_CardinalityType
<1> QED BY <1>2, <1>4, <1>5, <1>9, <1>12, <1>13

\* There is a walk.
LEMMA SumExists ==
  ASSUME NEW S, IsFiniteSet(S), NEW N, \A y \in S : N[y] \in Nat
  PROVE  \E iter : Sums(iter, N, S)
<1> DEFINE h == [s \in SUBSET S |-> Cardinality(Units(N, s))]
<1>1. ASSUME NEW s \in SUBSET S
      PROVE  h[s] = IF s = {} THEN 0 ELSE N[Pick(s)] + h[s \ {Pick(s)}]
  <2>1. CASE s = {}
    <3>1. Units(N, {}) = {} BY DEF Units
    <3> QED BY <2>1, <3>1, FS_EmptySet
  <2>2. CASE s # {}
    <3>1. Pick(s) \in s BY <2>2 DEF Pick
    <3>2. IsFiniteSet(s \ {Pick(s)}) BY FS_Subset
    <3>3. IsFiniteSet(Units(N, s \ {Pick(s)})) BY <3>2, UnitsFinite
    <3>4. (s \ {Pick(s)}) \cup {Pick(s)} = s BY <3>1
    <3>5. Cardinality(Units(N, s)) = Cardinality(Units(N, s \ {Pick(s)})) + N[Pick(s)]
      BY <3>1, <3>2, <3>3, <3>4, UnitsAdded
    <3>6. Cardinality(Units(N, s \ {Pick(s)})) \in Nat /\ N[Pick(s)] \in Nat
      BY <3>1, <3>3, FS_CardinalityType
    <3> QED BY <2>2, <3>5, <3>6
  <2> QED BY <2>1, <2>2
<1> QED BY <1>1 DEF Sums

\* The gross notional of a set of positions, before and after a step.
LEMMA GrossCounts ==
  ASSUME NEW K, NEW E, IsFiniteSet(E), NEW N, \A e \in E : N[e] \in Nat /\ N[e] = Book(K)!Notional(e)
  PROVE  Book(K)!Gross(E) = Cardinality(Units(N, E))
<1> DEFINE Walk(iter) == iter = [s \in SUBSET E |->
             IF s = {} THEN 0 ELSE Book(K)!Notional(CHOOSE x \in s : TRUE) + iter[s \ {CHOOSE x \in s : TRUE}]]
<1>1. \A s \in SUBSET E : s # {} => N[Pick(s)] = Book(K)!Notional(Pick(s))
  BY DEF Pick
<1>2. ASSUME NEW iter PROVE Walk(iter) <=> Sums(iter, N, E)
  <2>1. [s \in SUBSET E |-> IF s = {} THEN 0 ELSE Book(K)!Notional(Pick(s)) + iter[s \ {Pick(s)}]]
          = [s \in SUBSET E |-> IF s = {} THEN 0 ELSE N[Pick(s)] + iter[s \ {Pick(s)}]]
    BY <1>1
  <2> QED BY <2>1, Zenon DEF Sums, Pick
<1>3. \E iter : Walk(iter)
  <2> HIDE DEF Walk
  <2>1. \E iter : Sums(iter, N, E) BY SumExists
  <2> QED BY <1>2, <2>1
<1>4. Walk(CHOOSE iter : Walk(iter))
  <2> HIDE DEF Walk
  <2> QED BY <1>3
<1>5. Book(K)!Gross(E) = (CHOOSE iter : Walk(iter))[E]
  BY Zenon DEF Book!Gross, Book!MapThenSumSet, Book!MapThenFoldSet
<1> HIDE DEF Walk
<1> QED BY <1>2, <1>4, <1>5, SumCounts

LEMMA NextGrossCounts ==
  ASSUME NEW K, NEW E, IsFiniteSet(E), NEW N, \A e \in E : N[e] \in Nat /\ N[e] = Book(K)!Notional(e)'
  PROVE  Book(K)!Gross(E)' = Cardinality(Units(N, E))
<1> DEFINE Walk(iter) == iter = [s \in SUBSET E |->
             IF s = {} THEN 0 ELSE Book(K)!Notional(CHOOSE x \in s : TRUE)' + iter[s \ {CHOOSE x \in s : TRUE}]]
<1>1. \A s \in SUBSET E : s # {} => N[Pick(s)] = Book(K)!Notional(Pick(s))'
  BY DEF Pick
<1>2. ASSUME NEW iter PROVE Walk(iter) <=> Sums(iter, N, E)
  <2>1. [s \in SUBSET E |-> IF s = {} THEN 0 ELSE Book(K)!Notional(Pick(s))' + iter[s \ {Pick(s)}]]
          = [s \in SUBSET E |-> IF s = {} THEN 0 ELSE N[Pick(s)] + iter[s \ {Pick(s)}]]
    BY <1>1
  <2> QED BY <2>1, Zenon DEF Sums, Pick
<1>3. \E iter : Walk(iter)
  <2> HIDE DEF Walk
  <2>1. \E iter : Sums(iter, N, E) BY SumExists
  <2> QED BY <1>2, <2>1
<1>4. Walk(CHOOSE iter : Walk(iter))
  <2> HIDE DEF Walk
  <2> QED BY <1>3
<1>5. Book(K)!Gross(E)' = (CHOOSE iter : Walk(iter))[E]
  BY Zenon DEF Book!Gross, Book!MapThenSumSet, Book!MapThenFoldSet
<1> HIDE DEF Walk
<1> QED BY <1>2, <1>4, <1>5, SumCounts

\* Only OpenPosition opens a position, and it looks at the limits first.
LEMMA OnlyOneOpens ==
  ASSUME NEW K, Book(K)!BookAssumption, BookInv(K), Book(K)!Next, NEW e \in Book(K)!Expr,
         position[e].status = "none", position'[e].status = "open"
  PROVE  e = Book(K)!Current /\ \E ask \in K.prices : Book(K)!OpenPosition(ask)
<1>t. position \in [Book(K)!Expr -> Positions] BY DEF BookInv, BookType
<1>1. position' # position OBVIOUS
<1>2. \A f \in Book(K)!Expr : position' = [position EXCEPT ![f].due = TRUE] => position'[e].status = position[e].status
  BY <1>t
<1>3. \A f \in Book(K)!Expr, ask \in K.prices : Book(K)!Monitored(f, ask) => position'[e].status = position[e].status
  BY <1>t DEF Book!Monitored
<1>4. ~Book(K)!CloseFilled BY <1>t DEF Book!CloseFilled, Book!NoPosition
<1>5. ~Book(K)!RecordResult
  <2> SUFFICES ASSUME position' = [position EXCEPT ![closing].status = "measured"] PROVE FALSE
    BY DEF Book!RecordResult
  <2>1. CASE closing = e
    <3>1. position'[e] = [position[e] EXCEPT !.status = "measured"] BY <1>t, <2>1
    <3>2. position[e] \in Positions BY <1>t
    <3> QED BY <3>1, <3>2 DEF Positions
  <2>2. CASE closing # e
    BY <1>t, <2>2
  <2> QED BY <2>1, <2>2
<1>6. todoBook \subseteq Book(K)!Expr \/ ~Book(K)!Watch
  BY DEF Book!Watch, BookInv, StepInv, Book!Unquoted, Book!Hold, Book!ExitFalsified, Book!ExitDue, Book!Exit,
         Rotating, Book!Open
<1>7. ~Book(K)!Watch
  BY <1>1, <1>3, <1>6 DEF Book!Watch, Book!Unquoted, Book!Hold, Book!ExitFalsified, Book!ExitDue, Book!Exit, Book!durable
<1>8. ~Book(K)!Gate
  BY <1>1, <1>3 DEF Book!Gate, Book!AlreadyOpened, Book!RefuseEntry, Book!Admit, Book!Rotate, Book!durable, Book!Open
<1>9. ~Book(K)!Express
  BY <1>1 DEF Book!Express, Book!Existing, Book!PersistWait, Book!Persist, Book!durable
<1>10. ~Book(K)!Start /\ ~Book(K)!CloseUnfilled /\ ~Book(K)!Complete /\ ~Book(K)!GiveUp /\ ~Book(K)!Fail
       /\ ~(\E b \in Book(K)!Books : Book(K)!Rank(b)) /\ ~(\E f \in Book(K)!Open : Book(K)!TimePasses(f))
  BY <1>1, <1>2 DEF Book!Start, Book!CloseUnfilled, Book!Complete, Book!GiveUp, Book!Fail, Book!Rank,
     Book!TimePasses, Book!NextCycle, Book!durable, Book!Open
<1>11. Book(K)!Enter
  BY <1>4, <1>5, <1>7, <1>8, <1>9, <1>10 DEF Book!Next, Book!Proceed
<1>12. PICK ask \in K.prices : Book(K)!OpenPosition(ask)
  BY <1>1, <1>11 DEF Book!Enter, Book!RefuseOpen, Book!OpenRaises, Book!durable
<1>13. e = Book(K)!Current
  BY <1>t, <1>12 DEF Book!OpenPosition
<1> QED BY <1>12, <1>13

\* What is open weighs what it weighed, and the new position at most what the
\* plan was revalidated for.
LEMMA EntersWithin ==
  ASSUME NEW K, Book(K)!BookAssumption, BookInv(K), Book(K)!Next
  PROVE  Book(K)!EntersWithinLimits
<1> SUFFICES ASSUME NEW e \in Book(K)!Expr, position[e].status = "none", position'[e].status = "open"
             PROVE  /\ Book(K)!Limit(e) < plan[e[2]].ask + K.cent
                    /\ Book(K)!Gross(Book(K)!Open)' <= K.gross + Book(K)!Rounding(e)
                    /\ Book(K)!Gross(Book(K)!SameSource(e))' <= K.perSource + Book(K)!Rounding(e)
  BY DEF Book!EntersWithinLimits, Book!Entered
<1>1. e = Book(K)!Current BY OnlyOneOpens
<1>2. PICK ask \in K.prices : Book(K)!OpenPosition(ask) BY OnlyOneOpens
<1>3. position \in [Book(K)!Expr -> Positions] /\ ask \in Nat BY DEF BookInv, BookType, Book!BookAssumption
<1> DEFINE size == plan[e[2]].size
           planned == plan[e[2]].ask
           limit == Book(K)!Limit(e)
<1>p. PICK price \in ask..limit : position' = [position EXCEPT ![e] =
        [status |-> "open", size |-> size, entry |-> price, ask |-> 0, due |-> FALSE]]
  BY <1>1, <1>2 DEF Book!OpenPosition, Book!Fills
<1>l. /\ size \in Nat /\ planned \in Nat /\ limit \in Nat
      /\ planned <= limit /\ limit < planned + K.cent
  <2>1. size \in Nat /\ planned \in Nat /\ K.cent \in Nat \ {0}
    BY DEF BookInv, BookType, Book!Expr, Book!BookAssumption
  <2> HIDE DEF size, planned
  <2>2. limit = K.cent * ((planned + K.cent - 1) \div K.cent)
    BY DEF Book!Limit, Book!RoundedUp, planned
  <2> HIDE DEF limit
  <2> QED BY <2>1, <2>2, RoundsUp
<1>4. price \in Nat /\ price <= limit
  <2> HIDE DEF limit
  <2> QED BY <1>l, <1>p, <1>3
<1>r. /\ Book(K)!Target(e) = size * planned /\ Book(K)!Target(e) \in Nat
      /\ Book(K)!Rounding(e) = size * (limit - planned) /\ Book(K)!Rounding(e) \in Nat
      /\ size * price \in Nat /\ size * price <= Book(K)!Target(e) + Book(K)!Rounding(e)
  <2>1. Book(K)!Target(e) = size * planned /\ Book(K)!Rounding(e) = size * (limit - planned)
    BY DEF Book!Target, Book!Rounding
  <2> HIDE DEF size, planned, limit
  <2>2. /\ size * planned \in Nat /\ size * limit = size * planned + size * (limit - planned)
        /\ size * (limit - planned) \in Nat
    BY <1>l, Grows
  <2>3. /\ size * price \in Nat /\ size * limit = size * price + size * (limit - price)
        /\ size * (limit - price) \in Nat
    BY <1>l, <1>4, Grows
  <2>4. size * price <= size * limit
    <3>1. PICK u \in Nat : u = size * (limit - price) BY <2>3
    <3>2. PICK v \in Nat : v = size * price BY <2>3
    <3> QED BY <2>3, <3>1, <3>2
  <2> QED BY <2>1, <2>2, <2>3, <2>4
<1>5. /\ position'[e] = [status |-> "open", size |-> size, entry |-> price, ask |-> 0, due |-> FALSE]
      /\ \A f \in Book(K)!Expr \ {e} : position'[f] = position[f]
  BY <1>3, <1>p
<1>6. Book(K)!Open' = Book(K)!Open \cup {e} /\ e \notin Book(K)!Open
  BY <1>5 DEF Book!Open, Book!Expr, Book!Cycles
<1> DEFINE N == [f \in Book(K)!Expr |-> IF f = e THEN size * price ELSE Book(K)!Notional(f)]
<1>7. \A f \in Book(K)!Expr : Book(K)!Notional(f) \in Nat
  BY <1>3 DEF Book!Notional, Positions
<1>8. \A f \in Book(K)!Expr : N[f] \in Nat
  BY <1>7, <1>r
<1>9. Book(K)!Notional(e)' = size * price
  BY <1>4, <1>5 DEF Book!Notional
<1>10. \A f \in Book(K)!Expr \ {e} : Book(K)!Notional(f)' = Book(K)!Notional(f)
  BY <1>5 DEF Book!Notional
<1> DEFINE cost == Book(K)!Target(e) + Book(K)!Rounding(e)
<1>11. size * price <= cost /\ size * price \in Nat /\ cost \in Nat
  BY <1>r
<1> HIDE DEF N, size, limit, planned, cost
\* The sum over what is open and the new position is at most the one the limit
\* was compared with.
<1>o. IsFiniteSet(Book(K)!Open) /\ Book(K)!Open \subseteq Book(K)!Expr
  BY OpenFinite DEF Book!Open
<1>13. ASSUME NEW E \in SUBSET Book(K)!Open, NEW bound, bound \in Nat,
              Book(K)!Gross(E) + cost <= bound
       PROVE  /\ IsFiniteSet(E \cup {e})
              /\ \A f \in E \cup {e} : N[f] \in Nat /\ N[f] = Book(K)!Notional(f)'
              /\ Cardinality(Units(N, E \cup {e})) <= bound
  <2>1. IsFiniteSet(E) /\ E \subseteq Book(K)!Expr /\ e \notin E
    BY <1>6, <1>o, FS_Subset
  <2>2. \A f \in E : N[f] \in Nat /\ N[f] = Book(K)!Notional(f)
    BY <2>1, <1>7 DEF N
  <2>3. Book(K)!Gross(E) = Cardinality(Units(N, E))
    BY <2>1, <2>2, GrossCounts
  <2>4. IsFiniteSet(Units(N, E))
    BY <2>1, <2>2, UnitsFinite
  <2>5. N[e] = size * price /\ N[e] \in Nat
    BY <1>8 DEF N
  <2>6. Cardinality(Units(N, E \cup {e})) = Cardinality(Units(N, E)) + N[e]
    <3>1. \A f \in E \cup {e} : N[f] \in Nat BY <2>2, <2>5
    <3> QED BY <2>1, <2>4, <3>1, UnitsAdded
  <2>7. Cardinality(Units(N, E)) \in Nat
    BY <2>4, FS_CardinalityType
  <2>8. \A f \in E \cup {e} : N[f] \in Nat /\ N[f] = Book(K)!Notional(f)'
    BY <2>1, <2>2, <2>5, <1>9, <1>10
  <2>9. IsFiniteSet(E \cup {e})
    BY <2>1, FS_AddElement
  <2>10. Cardinality(Units(N, E \cup {e})) <= bound
    BY <2>3, <2>5, <2>6, <2>7, <1>11, <1>13
  <2> QED BY <2>8, <2>9, <2>10
<1>14. /\ Book(K)!Gross(Book(K)!Open) + cost <= K.gross + Book(K)!Rounding(e)
       /\ Book(K)!Gross(Book(K)!SameSource(e)) + cost <= K.perSource + Book(K)!Rounding(e)
       /\ K.gross + Book(K)!Rounding(e) \in Nat /\ K.perSource + Book(K)!Rounding(e) \in Nat
  <2>1. /\ Book(K)!Gross(Book(K)!Open) + Book(K)!Target(e) <= K.gross
        /\ Book(K)!Gross(Book(K)!SameSource(e)) + Book(K)!Target(e) <= K.perSource
        /\ K.gross \in Nat /\ K.perSource \in Nat
    BY <1>1, <1>2 DEF Book!OpenPosition, Book!Revalidated, Book!BookLimits, Book!Concentration, Book!BookAssumption
  <2>2. Book(K)!Gross(Book(K)!Open) \in Nat /\ Book(K)!Gross(Book(K)!SameSource(e)) \in Nat
    <3>1. \A E \in SUBSET Book(K)!Open : Book(K)!Gross(E) \in Nat
      <4> SUFFICES ASSUME NEW E \in SUBSET Book(K)!Open PROVE Book(K)!Gross(E) \in Nat OBVIOUS
      <4>1. IsFiniteSet(E) /\ E \subseteq Book(K)!Expr
        BY <1>o, FS_Subset
      <4>2. \A f \in E : N[f] \in Nat /\ N[f] = Book(K)!Notional(f)
        BY <4>1, <1>6, <1>7 DEF N
      <4>3. Book(K)!Gross(E) = Cardinality(Units(N, E))
        BY <4>1, <4>2, GrossCounts
      <4> QED BY <4>1, <4>2, <4>3, UnitsFinite, FS_CardinalityType
    <3>2. Book(K)!SameSource(e) \in SUBSET Book(K)!Open BY DEF Book!SameSource
    <3> QED BY <3>1, <3>2
  <2> QED BY <2>1, <2>2, <1>r DEF cost
<1>15. Book(K)!Gross(Book(K)!Open)' <= K.gross + Book(K)!Rounding(e)
  <2>1. PICK F : F = Book(K)!Open \cup {e} OBVIOUS
  <2>2. IsFiniteSet(F) /\ (\A f \in F : N[f] \in Nat /\ N[f] = Book(K)!Notional(f)')
        /\ Cardinality(Units(N, F)) <= K.gross + Book(K)!Rounding(e)
    BY <2>1, <1>13, <1>14
  <2>3. Book(K)!Gross(F)' = Cardinality(Units(N, F)) BY <2>2, NextGrossCounts
  <2>4. F = Book(K)!Open' BY <2>1, <1>6
  <2>5. Book(K)!Gross(Book(K)!Open)' = Book(K)!Gross(F)' BY <2>4
  <2> QED BY <2>2, <2>3, <2>5
<1>16. Book(K)!Gross(Book(K)!SameSource(e))' <= K.perSource + Book(K)!Rounding(e)
  <2>1. Book(K)!SameSource(e) \in SUBSET Book(K)!Open BY DEF Book!SameSource
  <2>2. PICK F : F = Book(K)!SameSource(e) \cup {e} OBVIOUS
  <2>3. IsFiniteSet(F) /\ (\A f \in F : N[f] \in Nat /\ N[f] = Book(K)!Notional(f)')
        /\ Cardinality(Units(N, F)) <= K.perSource + Book(K)!Rounding(e)
    BY <2>1, <2>2, <1>13, <1>14
  <2>4. Book(K)!Gross(F)' = Cardinality(Units(N, F)) BY <2>3, NextGrossCounts
  <2>5. F = Book(K)!SameSource(e)' BY <2>2, <1>6 DEF Book!SameSource
  <2>6. Book(K)!Gross(Book(K)!SameSource(e))' = Book(K)!Gross(F)' BY <2>5
  <2> QED BY <2>3, <2>4, <2>6
<1>17. Book(K)!Limit(e) < plan[e[2]].ask + K.cent
  BY <1>l DEF limit, planned
<1> QED BY <1>15, <1>16, <1>17

-----------------------------------------------------------------------------
(***************************************************************************)
(* The process: one instance runs, the others stay as they began.          *)
(***************************************************************************)
CyclesInv ==
  /\ InBatch => CycleInv(TwoScouts)
  /\ InLasting => CycleInv(Lasting)
  /\ InAlone => CycleInv(Alone)
  /\ InSeries => CycleInv(TwoCycles)
BooksInv ==
  /\ InTwo => BookInv(TwoPlaces)
  /\ InSmall => BookInv(OnePlace)

LEMMA CyclesInit ==
  ASSUME Init
  PROVE  CyclesInv
<1>1. /\ InBatch => ~InLasting /\ ~InAlone /\ ~InSeries
      /\ InSeries => ~InLasting /\ ~InAlone
      /\ InAlone => ~InLasting
  BY DEF InBatch, InLasting, InAlone, InSeries
<1>2. InBatch => Cycle(TwoScouts)!Init BY <1>1 DEF Init
<1>3. InLasting => Cycle(Lasting)!Init BY DEF Init
<1>4. InAlone => Cycle(Alone)!Init BY <1>1 DEF Init
<1>5. InSeries => Cycle(TwoCycles)!Init BY <1>1 DEF Init
<1> QED BY <1>2, <1>3, <1>4, <1>5, CycleBounds, CycleInitInv DEF CyclesInv

\* A step of a batch is one of its instance; nothing else touches what the
\* batches keep.
LEMMA CycleSteps ==
  ASSUME Next
  PROVE  /\ InBatch => Cycle(TwoScouts)!Next
         /\ InLasting => Cycle(Lasting)!Next
         /\ InAlone => Cycle(Alone)!Next
         /\ InSeries => Cycle(TwoCycles)!Next
         /\ InTwo => Book(TwoPlaces)!Next
         /\ InSmall => Book(OnePlace)!Next
         /\ UNCHANGED system
BY DEF Next, InBatch, InLasting, InAlone, InSeries, InTwo, InSmall, InMerging, InAsking, InAgenda

LEMMA CyclesStutter ==
  ASSUME NEW K, UNCHANGED vars
  PROVE  UNCHANGED Cycle(K)!vars
BY DEF vars, cycleVars, Cycle!vars, Cycle!durable, Cycle!process, Cycle!batch, Cycle!shutdown,
       Cycle!history

LEMMA CyclesNext ==
  ASSUME CyclesInv, [Next]_vars
  PROVE  CyclesInv'
<1>1. CASE Next
  <2>1. InBatch' => CycleInv(TwoScouts)'
    BY <1>1, CycleSteps, CycleBounds, CycleNextInv DEF CyclesInv, InBatch
  <2>2. InLasting' => CycleInv(Lasting)'
    BY <1>1, CycleSteps, CycleBounds, CycleNextInv DEF CyclesInv, InLasting
  <2>3. InAlone' => CycleInv(Alone)'
    BY <1>1, CycleSteps, CycleBounds, CycleNextInv DEF CyclesInv, InAlone
  <2>4. InSeries' => CycleInv(TwoCycles)'
    BY <1>1, CycleSteps, CycleBounds, CycleNextInv DEF CyclesInv, InSeries
  <2> QED BY <2>1, <2>2, <2>3, <2>4 DEF CyclesInv
<1>2. CASE UNCHANGED vars
  <2>1. system' = system BY <1>2 DEF vars
  <2>2. InBatch' => CycleInv(TwoScouts)'
    BY <1>2, <2>1, CyclesStutter, CycleBounds, StutterInv DEF CyclesInv, InBatch
  <2>3. InLasting' => CycleInv(Lasting)'
    BY <1>2, <2>1, CyclesStutter, CycleBounds, StutterInv DEF CyclesInv, InLasting
  <2>4. InAlone' => CycleInv(Alone)'
    BY <1>2, <2>1, CyclesStutter, CycleBounds, StutterInv DEF CyclesInv, InAlone
  <2>5. InSeries' => CycleInv(TwoCycles)'
    BY <1>2, <2>1, CyclesStutter, CycleBounds, StutterInv DEF CyclesInv, InSeries
  <2> QED BY <2>2, <2>3, <2>4, <2>5 DEF CyclesInv
<1> QED BY <1>1, <1>2

\* The invariant of the batches holds whatever the other instances do.
THEOREM CyclesInvariant == Safety => []CyclesInv
<1>1. Init => CyclesInv BY CyclesInit
<1>2. CyclesInv /\ [Next]_vars => CyclesInv' BY CyclesNext
<1> QED BY <1>1, <1>2, PTL DEF Safety

\* What the database says happened, happened, once, for any batch of Scouts,
\* attempts, cycles and starts, and whatever fails or dies (scout_repository.py,
\* autonomous.py, cycle_recovery.py): a role that succeeded is not asked again,
\* a mind counts exactly its succeeded runs, each failure leaves an artifact,
\* roles work on the input frozen for their cycle, a sound cycle is never
\* quarantined and no second cycle is begun while one can be resumed.
THEOREM CyclesStayTruthful == Spec => []CycleTruthful
<1>1. CyclesInv => CycleTruthful
  BY CycleBounds, InvCycle DEF CyclesInv, CycleTruthful
<1> QED BY <1>1, CyclesInvariant, PTL DEF Spec

\* A settled cycle keeps its verdict and its succeeded runs, whatever the
\* process that settled it and those after it go through (bind_cycle, fail).
THEOREM VerdictStays == Spec => VerdictKept
<1>1. CyclesInv /\ Next =>
        /\ InBatch => Cycle(TwoScouts)!Settled
        /\ InLasting => Cycle(Lasting)!Settled
        /\ InAlone => Cycle(Alone)!Settled
        /\ InSeries => Cycle(TwoCycles)!Settled
  BY CycleSteps, CycleBounds, NextSettled DEF CyclesInv
<1> QED BY <1>1, CyclesInvariant, PTL DEF Spec, Safety, VerdictKept

LEMMA BooksInit ==
  ASSUME Init
  PROVE  BooksInv
<1>1. InTwo => ~InSmall BY DEF InTwo, InSmall
<1>2. InTwo => Book(TwoPlaces)!Init BY <1>1 DEF Init
<1>3. InSmall => Book(OnePlace)!Init BY DEF Init
<1> QED BY <1>2, <1>3, BookBounds, BookInitInv DEF BooksInv

LEMMA BooksStutter ==
  ASSUME NEW K, UNCHANGED vars
  PROVE  UNCHANGED Book(K)!vars
BY DEF vars, bookVars, Book!vars, Book!durable, Book!attempt, Book!history

LEMMA BooksNext ==
  ASSUME BooksInv, [Next]_vars
  PROVE  BooksInv'
<1>1. system' = system BY CycleSteps DEF vars
<1>2. InTwo => Book(TwoPlaces)!Next \/ UNCHANGED Book(TwoPlaces)!vars BY CycleSteps, BooksStutter
<1>3. InSmall => Book(OnePlace)!Next \/ UNCHANGED Book(OnePlace)!vars BY CycleSteps, BooksStutter
<1>4. InTwo' => BookInv(TwoPlaces)' BY <1>1, <1>2, BookBounds, BookNextInv DEF BooksInv, InTwo
<1>5. InSmall' => BookInv(OnePlace)' BY <1>1, <1>3, BookBounds, BookNextInv DEF BooksInv, InSmall
<1> QED BY <1>4, <1>5 DEF BooksInv

\* The invariant of the book holds whatever the other instances do.
THEOREM BooksInvariant == Safety => []BooksInv
<1>1. Init => BooksInv BY BooksInit
<1>2. BooksInv /\ [Next]_vars => BooksInv' BY BooksNext
<1> QED BY <1>1, <1>2, PTL DEF Safety

\* The Shadow book is what the cycles made of it, for any number of places,
\* opportunities, cycles and attempts, wherever the attempts broke off: never
\* more positions than places, no two on one underlying or of one cycle, each of
\* an expression that says so, and no candidate that cost two incumbents
\* (agentic_position.py, shadow.py, b5_runtime.py).
THEOREM BooksStayTruthful == Spec => []BookTruthful
<1>1. BooksInv => BookTruthful
  BY BookBounds, InvBook DEF BooksInv, BookTruthful
<1> QED BY <1>1, BooksInvariant, PTL DEF Spec

\* An entry leaves the book within its limits at the marks of that moment, but
\* for less than a cent a share by which its own limit is rounded up, for any
\* limits, prices, cent, sizes and places, however the marks moved since its plan
\* was made and whoever was rotated out for it (portfolio_construction.py
\* revalidate, execution_planning.py:140, shadow.py evaluate_shadow_fill).
THEOREM EntriesStayWithin == Spec => EntryWithinLimits
<1>1. BooksInv /\ Next => (InTwo => Book(TwoPlaces)!EntersWithinLimits)
  BY CycleSteps, BookBounds, EntersWithin DEF BooksInv
<1> QED BY <1>1, BooksInvariant, PTL DEF Spec, Safety, EntryWithinLimits

=============================================================================
