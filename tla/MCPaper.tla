------------------------------- MODULE MCPaper -------------------------------
(***************************************************************************)
(* The Paper lane and the two file leases of the host for TLC, in one run. *)
(* Their modules share no state (the lane takes a stale lease over in one  *)
(* step), so one of them runs in each behaviour and the others stay as     *)
(* they began.                                                             *)
(***************************************************************************)
EXTENDS PaperCapital

CONSTANTS
  Pids, NoFile, MaxBoot,                  \* of HostLease
  Hosts, Runtimes, MaxTokens, NoLease     \* of MutationLease

VARIABLES
  boot, file, status, call, stolen,
  path, tokens, use, robbed,
  system     \* what runs

\* The host's lease, and the account-global one.
Local == INSTANCE HostLease
Global == INSTANCE MutationLease WITH call <- use, stolen <- robbed

ASSUME PaperBounds == PaperAssumption
ASSUME LocalBounds == Local!HostAssumption
ASSUME GlobalBounds == Global!MutationAssumption

localVars == <<boot, file, status, call, stolen>>
globalVars == <<path, tokens, use, robbed>>
allVars == <<vars, localVars, globalVars, system>>

InLocal == system = "host lease"
InPaper == system = "paper lane"
InGlobal == system = "mutation lease"

PaperInit ==
  /\ Init /\ Local!Init /\ Global!Init
  /\ system \in {"host lease", "paper lane", "mutation lease"}

PaperNext ==
  /\ UNCHANGED system
  /\ \/ InPaper /\ Next /\ UNCHANGED <<localVars, globalVars>>
     \/ InLocal /\ Local!Next /\ UNCHANGED <<vars, globalVars>>
     \/ InGlobal /\ Global!Next /\ UNCHANGED <<vars, localVars>>

PaperSafety == PaperInit /\ [][PaperNext]_allVars

\* The fairness of PaperCapital and HostLease.
PaperFairness ==
  /\ \A p \in Pids : WF_localVars(InLocal /\ Local!Acquire(p))
                     /\ WF_localVars(InLocal /\ Local!Work(p))
  /\ WF_localVars(InLocal /\ Local!Age)
  /\ WF_vars(InPaper /\ Start)
  /\ SF_vars(InPaper /\ RecoverDispatched)
  /\ SF_vars(InPaper /\ RecoverFilled)
  /\ WF_vars(InPaper /\ Answered)
  /\ WF_vars(InPaper /\ Judged)
  /\ WF_vars(InPaper /\ Entered)
  /\ WF_vars(InPaper /\ Capitald)
  /\ WF_vars(InPaper /\ Decided)
  /\ <>[](host # "revoke")

PaperSpec == PaperSafety /\ PaperFairness

--------------------------------------------------------------------------------
\* One mutation at a time: an intent is never ordered again while an earlier
\* order may still fill, and only a takeover can cost the living holder of the
\* mutation lease its file, whatever process dies and whoever releases
\* (paper_execution.py, capital-control.mjs).
OneMutation == OneExposure /\ Global!HolderKeepsLease

\* The same of the host's lease: whoever holds or is writing it has it at the
\* path, unless a takeover removed it, whatever failed writes, deaths and reboots
\* there were (storage.mjs, acquireLease).
HolderKeepsLease == Local!HolderKeepsLease

\* What a crash, a power loss or a failed write leaves of the host's lease does
\* not block it for good while somebody asks for it (acquireLease).
OrphanCleared == Local!OrphanCleared
=============================================================================
