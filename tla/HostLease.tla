-------------------------------- MODULE HostLease --------------------------------
(***************************************************************************)
(* The host lease of alta-src/storage.mjs: a file that is created          *)
(* exclusively, names its creator, and is removed by whoever finds its     *)
(* creator dead or its boot over.  The console's operation lock, the       *)
(* supervisor, the runtime and the build all serialize themselves with it. *)
(*                                                                         *)
(* Every file-system call is a step.  A pid stands for one process per     *)
(* boot; after a reboot the same pid can be another process.               *)
(***************************************************************************)
EXTENDS Naturals

CONSTANTS
  Pids,      \* process ids
  NoFile,    \* nothing at the lease's path
  MaxBoot    \* bound: reboots

HostAssumption ==
  /\ MaxBoot \in Nat
  /\ NoFile \notin [pid : Pids, boot : 0..MaxBoot, whole : BOOLEAN, aged : BOOLEAN]

VARIABLES
  boot,      \* boots of this host so far
  file,      \* what is at the lease's path
  status,    \* of each pid in this boot
  call,      \* each process's use of the lease
  stolen     \* history: a takeover removed a lease whose process lived

vars == <<boot, file, status, call, stolen>>

\* whole: pid and time are written.  aged: unmodified for more than staleMs.
Files == [pid : Pids, boot : 0..MaxBoot, whole : BOOLEAN, aged : BOOLEAN]
Opened(p) == [pid |-> p, boot |-> boot, whole |-> FALSE, aged |-> FALSE]

\* Between two calls a process is "idle".  "held" is the time until release().
Steps == {"idle", "open", "write", "sync", "held", "read", "judge", "stat", "unlink"}
\* pid, boot: the creator a lease was read to name, until it is judged.
Calls == [step : Steps, attempt : 0..1, pid : Pids, boot : 0..MaxBoot]
Locals(p, step, attempt) == [step |-> step, attempt |-> attempt, pid |-> p, boot |-> 0]
Idle(p) == Locals(p, "idle", 0)

Init ==
  /\ boot = 0
  /\ file = NoFile
  /\ status = [p \in Pids |-> "fresh"]
  /\ call = [p \in Pids |-> Idle(p)]
  /\ stolen = FALSE

Alive(q) == status[q] = "running"
At(p, step) == Alive(p) /\ call[p].step = step
Go(p, step) == call' = [call EXCEPT ![p] = Locals(p, step, call[p].attempt)]
Return(p) == call' = [call EXCEPT ![p] = Idle(p)]

\* The next round of the loop, of which there are two.
Again(p) ==
  IF call[p].attempt = 0 THEN call' = [call EXCEPT ![p] = Locals(p, "open", 1)]
                         ELSE Return(p)

--------------------------------------------------------------------------------
Acquire(p) ==
  /\ At(p, "idle")
  /\ Go(p, "open")
  /\ UNCHANGED <<boot, file, status, stolen>>

\* Mutant: openSync(file, "w").
Truncate == TRUE

\* openSync(file, "wx")
MayCreate == file = NoFile

Create(p) ==
  /\ At(p, "open")
  /\ MayCreate
  /\ file' = Opened(p)
  /\ Go(p, "write")
  /\ UNCHANGED <<boot, status, stolen>>

Exists(p) ==
  /\ At(p, "open")
  /\ file # NoFile
  /\ Go(p, "read")
  /\ UNCHANGED <<boot, file, status, stolen>>

\* The write goes to the file that was opened, wherever its name is now.
Write(p) ==
  /\ At(p, "write")
  /\ file' = IF file = Opened(p) THEN [file EXCEPT !.whole = TRUE] ELSE file
  /\ Go(p, "sync")
  /\ UNCHANGED <<boot, status, stolen>>

\* A failed write or sync removes the half-written lease, by name, and throws.
WriteFails(p) ==
  /\ At(p, "write")
  /\ file' = NoFile
  /\ Return(p)
  /\ UNCHANGED <<boot, status, stolen>>

Synced(p) ==
  /\ At(p, "sync")
  /\ call' = [call EXCEPT ![p] = Locals(p, "held", 0)]
  /\ UNCHANGED <<boot, file, status, stolen>>

\* The directory does not sync: acquireLease throws, the lease stays behind.
SyncFails(p) ==
  /\ At(p, "sync")
  /\ Return(p)
  /\ UNCHANGED <<boot, file, status, stolen>>

\* The first release() of a lease; an absent file is no error.
Release(p) ==
  /\ At(p, "held")
  /\ file' = NoFile
  /\ Return(p)
  /\ UNCHANGED <<boot, status, stolen>>

--------------------------------------------------------------------------------
\* The lease exists: is it stale?

\* A missing or half-written file does not parse.
Readable == file # NoFile /\ file.whole

Read(p) ==
  /\ At(p, "read")
  /\ IF Readable
     THEN call' = [call EXCEPT ![p] = [step |-> "judge", attempt |-> call[p].attempt,
                                       pid |-> file.pid, boot |-> file.boot]]
     ELSE Go(p, "stat")
  /\ UNCHANGED <<boot, file, status, stolen>>

\* Mutant: a pid that is in use is taken for the creator's.
PidUnused(p) == ~Alive(call[p].pid)

Stale(p) == ~Alive(call[p].pid) \/ call[p].boot < boot

Judge(p) ==
  /\ At(p, "judge")
  /\ IF Stale(p) THEN Go(p, "unlink") ELSE Return(p)
  /\ UNCHANGED <<boot, file, status, stolen>>

\* An unreadable lease is stale by its modification time.
Outdated == file.boot < boot \/ file.aged

Stat(p) ==
  /\ At(p, "stat")
  /\ IF file = NoFile THEN Again(p) ELSE IF Outdated THEN Go(p, "unlink") ELSE Return(p)
  /\ UNCHANGED <<boot, file, status, stolen>>

\* The lease of a process that is about to hold it or holds it.
Using(p) == At(p, "write") \/ At(p, "sync") \/ At(p, "held")
Valid == file # NoFile /\ file.boot = boot /\ Using(file.pid)

\* Removed by name: whatever is there by now.  A failed sync throws.
Unlink(p) ==
  /\ At(p, "unlink")
  /\ file' = NoFile
  /\ stolen' = (stolen \/ Valid)
  /\ Again(p) \/ Return(p)
  /\ UNCHANGED <<boot, status>>

--------------------------------------------------------------------------------
\* The host

Start(p) ==
  /\ status[p] = "fresh"
  /\ status' = [status EXCEPT ![p] = "running"]
  /\ UNCHANGED <<boot, file, call, stolen>>

\* A process ends, on its own or killed, at any point.
Die(p) ==
  /\ Alive(p)
  /\ status' = [status EXCEPT ![p] = "dead"]
  /\ Return(p)
  /\ UNCHANGED <<boot, file, stolen>>

Reboot ==
  /\ boot < MaxBoot
  /\ boot' = boot + 1
  /\ status' = [p \in Pids |-> "fresh"]
  /\ call' = [p \in Pids |-> Idle(p)]
  /\ UNCHANGED <<file, stolen>>

\* staleMs pass over a half-written lease that nobody is going to complete.
Age ==
  /\ file # NoFile /\ ~file.whole /\ ~file.aged
  /\ ~Valid
  /\ file' = [file EXCEPT !.aged = TRUE]
  /\ UNCHANGED <<boot, status, call, stolen>>

\* What a call does by itself; how long a lease is held is its holder's affair.
Work(p) ==
  \/ Create(p) \/ Exists(p) \/ Write(p) \/ Synced(p)
  \/ Read(p) \/ Judge(p) \/ Stat(p) \/ Unlink(p)

Next ==
  \/ \E p \in Pids :
       \/ Acquire(p) \/ Create(p) \/ Exists(p) \/ Write(p) \/ WriteFails(p)
       \/ Synced(p) \/ SyncFails(p) \/ Release(p)
       \/ Read(p) \/ Judge(p) \/ Stat(p) \/ Unlink(p)
       \/ Start(p) \/ Die(p)
  \/ Reboot
  \/ Age

Spec == Init /\ [][Next]_vars

\* Processes call again and again, calls are carried through, time passes.
LiveSpec ==
  /\ Spec
  /\ \A p \in Pids : WF_vars(Acquire(p)) /\ WF_vars(Work(p))
  /\ WF_vars(Age)

--------------------------------------------------------------------------------
\* The lease's state keeps its types (storage.mjs acquireLease).
TypeOK ==
  /\ boot \in 0..MaxBoot
  /\ file \in Files \cup {NoFile}
  /\ status \in [Pids -> {"fresh", "running", "dead"}]
  /\ call \in [Pids -> Calls]
  /\ stolen \in BOOLEAN

Mine(p) == file # NoFile /\ file.pid = p /\ file.boot = boot

\* As long as no takeover removed a living process's lease, whoever holds or is
\* writing the lease still has it at the path, whatever failed writes, deaths
\* and reboots there were: hence nobody else can hold it (acquireLease).
HolderKeepsLease == ~stolen => \A p \in Pids : Using(p) => Mine(p)

\* A lease is for one holder (docs/operations/operator-console.md:253).
OneHolder == \A p, q \in Pids : At(p, "held") /\ At(q, "held") => p = q

\* A lease that was left by a dead process, by an earlier boot or half-written.
Orphan ==
  /\ file # NoFile
  /\ \/ file.boot < boot
     \/ ~Alive(file.pid)
     \/ ~file.whole /\ ~Valid

Callers == \E p \in Pids : Alive(p) /\ ~Using(p)

\* What a crash, a power loss or a failed write leaves behind does not block
\* the lease for good while somebody asks for it (acquireLease).
OrphanCleared == []<>(~Orphan \/ ~Callers)
================================================================================
