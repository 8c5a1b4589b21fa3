---------------------------- MODULE MutationLease ----------------------------
(***************************************************************************)
(* The account-global lease of Paper mutations: the host                   *)
(* (acquirePaperMutationLease, capital-control.mjs) and the research       *)
(* process (_PaperMutationLease, paper_execution.py) publish the same file *)
(* with a hard link, judge its owner by process identity, and take a stale *)
(* one over when a second reading finds it unchanged.                      *)
(*                                                                         *)
(* Every file-system call is a step.  A lease is its owner's incarnation   *)
(* and a token; the file is complete when it appears.                      *)
(***************************************************************************)
EXTENDS Naturals

CONSTANTS
  Hosts,       \* processes that acquire as the host does
  Runtimes,    \* and as the research process does
  MaxTokens,   \* bound: acquisitions
  NoLease      \* nothing at the lease's path

Procs == Hosts \cup Runtimes
Leases == [pid : Procs, token : 1..MaxTokens]

MutationAssumption == MaxTokens \in Nat /\ NoLease \notin Leases

VARIABLES
  path,      \* what is at the lease's path
  tokens,    \* tokens drawn so far
  call,      \* each process's use of the lease
  stolen     \* history: a takeover removed a lease whose owner lived

vars == <<path, tokens, call, stolen>>

\* mine: the lease a call publishes.  raw: the lease it has read.
Steps == {"idle", "link", "read", "compare", "unlink", "held", "check", "remove"}
Calls == [step : Steps, again : BOOLEAN, mine : Leases \cup {NoLease}, raw : Leases \cup {NoLease}]
Idle == [step |-> "idle", again |-> FALSE, mine |-> NoLease, raw |-> NoLease]

Init ==
  /\ path = NoLease
  /\ tokens = 0
  /\ call = [p \in Procs |-> Idle]
  /\ stolen = FALSE

At(p, step) == call[p].step = step
Go(p, step) == call' = [call EXCEPT ![p].step = step]
Return(p) == call' = [call EXCEPT ![p] = Idle]

\* The owner of a lease is the process that drew its token, until it dies.
Using(p) == call[p].mine # NoLease
Stale(lease) == ~(Using(lease.pid) /\ call[lease.pid].mine = lease)

--------------------------------------------------------------------------------
Acquire(p) ==
  /\ At(p, "idle")
  /\ tokens < MaxTokens
  /\ tokens' = tokens + 1
  /\ call' = [call EXCEPT ![p] = [Idle EXCEPT !.step = "link", !.mine = [pid |-> p, token |-> tokens']]]
  /\ UNCHANGED <<path, stolen>>

\* linkSync, os.link
Vacant == path = NoLease

Link(p) ==
  /\ At(p, "link")
  /\ Vacant
  /\ path' = call[p].mine
  /\ Go(p, "held")
  /\ UNCHANGED <<tokens, stolen>>

\* The lease exists: the research process gives up on the second attempt.
Exists(p) ==
  /\ At(p, "link")
  /\ path # NoLease
  /\ IF call[p].again /\ p \in Runtimes THEN Return(p) ELSE Go(p, "read")
  /\ UNCHANGED <<path, tokens, stolen>>

\* A living owner's lease is busy, an absent one unreadable.
Read(p) ==
  /\ At(p, "read")
  /\ IF path # NoLease /\ Stale(path)
     THEN call' = [call EXCEPT ![p].step = "compare", ![p].raw = path]
     ELSE Return(p)
  /\ UNCHANGED <<path, tokens, stolen>>

Compare(p) ==
  /\ At(p, "compare")
  /\ IF path = call[p].raw THEN Go(p, "unlink") ELSE Return(p)
  /\ UNCHANGED <<path, tokens, stolen>>

\* Removed by name.  A missing file is an error; the second attempt is the last.
Unlink(p) ==
  /\ At(p, "unlink")
  /\ path' = NoLease
  /\ stolen' = (stolen \/ (path # NoLease /\ ~Stale(path)))
  /\ IF path = NoLease \/ call[p].again
     THEN Return(p)
     ELSE call' = [call EXCEPT ![p].step = "link", ![p].again = TRUE, ![p].raw = NoLease]
  /\ UNCHANGED tokens

\* release(): the lease must still be the caller's.
Check(p) ==
  /\ At(p, "held")
  /\ IF path = call[p].mine THEN Go(p, "remove") ELSE Return(p)
  /\ UNCHANGED <<path, tokens, stolen>>

Remove(p) ==
  /\ At(p, "remove")
  /\ path' = NoLease
  /\ Return(p)
  /\ UNCHANGED <<tokens, stolen>>

\* A process is killed at any point; its successor is a process of its own.
Die(p) ==
  /\ ~At(p, "idle")
  /\ Return(p)
  /\ UNCHANGED <<path, tokens, stolen>>

Work(p) == Link(p) \/ Exists(p) \/ Read(p) \/ Compare(p) \/ Unlink(p) \/ Check(p) \/ Remove(p)
Next == \E p \in Procs : Acquire(p) \/ Work(p) \/ Die(p)
Spec == Init /\ [][Next]_vars

--------------------------------------------------------------------------------
\* Every variable has its type.
TypeOK ==
  /\ path \in Leases \cup {NoLease}
  /\ tokens \in 0..MaxTokens
  /\ call \in [Procs -> Calls]
  /\ stolen \in BOOLEAN

Holding(p) == At(p, "held") \/ At(p, "remove")

\* docs/operations/operator-console.md:354: a mutation runs "while holding the
\* account-global lease": one process holds it at a time.
OneHolder == \A p, q \in Procs : Holding(p) /\ Holding(q) => p = q

\* Unless a takeover removed a living owner's lease, whoever holds the lease, or is
\* about to remove it, has it at the path: release() removes no other's.
HolderKeepsLease == ~stolen => \A p \in Procs : Holding(p) => path = call[p].mine
=============================================================================
