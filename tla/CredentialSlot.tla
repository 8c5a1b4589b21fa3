------------------------------ MODULE CredentialSlot ------------------------------
(***************************************************************************)
(* Who may use one Massive key: the host lease of its credential slot       *)
(* (HostLeaseStore), the decision and the admission of the coordinator, the *)
(* cooldowns after a 429 and the request budgets of the two adapters of a   *)
(* process, the research cycle's and the broker monitor's.                  *)
(*                                                                         *)
(* In "dedicated" mode the operator says that one process alone has the     *)
(* key, and no lease is taken; in "host" mode every process needs the lease.*)
(* One thread of a process acquires, renews and releases its lease, and it  *)
(* releases when no request is out; each adapter is used by one thread.     *)
(* A lease's file and its process's memory of it are compared by owner:     *)
(* lease ids are random, and a process that restarted is another owner.     *)
(***************************************************************************)
EXTENDS Naturals

CONSTANTS
  Processes,  \* processes that may use the key
  Adapters,   \* adapters of a process that share its coordinator
  Nobody,     \* no lease
  Budget,     \* requests an adapter may send per cycle
  MaxCycle    \* bound: cycles an adapter's budget is reset for

SlotAssumption ==
  /\ Nobody \notin Processes
  /\ Budget \in Nat \ {0} /\ MaxCycle \in Nat

VARIABLES
  mode,      \* the configured way to use the key
  slot,      \* the slot's directory
  cooldown,  \* <slot>.cooldown.json is in force
  owner,     \* what each process does with the lease
  decision,  \* of each process's coordinator
  wait,      \* processes whose own cooldown runs
  call,      \* what each adapter does
  budget,    \* of each adapter: its cycle, the requests it has used
  cooling    \* history: the upstream asked for a pause, and a live process heard it

vars == <<mode, slot, cooldown, owner, decision, wait, call, budget, cooling>>

--------------------------------------------------------------------------------
\* file: whose lease.json it is; fresh: its heartbeat is younger than its ttl;
\* litter: a temporary file of a write that failed lies beside it.
NoSlot == [made |-> FALSE, file |-> Nobody, fresh |-> FALSE, litter |-> FALSE]

\* assert_owned.  A process without a lease has none to assert.
Owned(p) == owner[p] \in {"held", "listed"} /\ slot.file = p /\ slot.fresh

\* decide_access, when the coordinator is made.
Decided(p) ==
  CASE mode = "dedicated" -> "dedicated"
    [] mode = "host" /\ Owned(p) -> "host"
    [] OTHER -> "disabled"

NoBudget == [a \in Adapters |-> [cycle |-> 0, used |-> 0]]
AtRest == [a \in Adapters |-> "idle"]

TypeOK ==
  /\ mode \in {"dedicated", "host"}
  /\ slot \in [made : BOOLEAN, file : Processes \cup {Nobody}, fresh : BOOLEAN, litter : BOOLEAN]
  /\ cooldown \in BOOLEAN /\ cooling \in BOOLEAN
  /\ owner \in [Processes -> {"down", "up", "made", "held", "listed", "unlinked", "refused"}]
  /\ decision \in [Processes -> {"none", "disabled", "dedicated", "host"}]
  /\ wait \subseteq Processes
  /\ call \in [Processes -> [Adapters -> {"idle", "inside", "clear", "sent", "limited"}]]
  /\ budget \in [Processes -> [Adapters -> [cycle : 0 .. MaxCycle, used : 0 .. Budget]]]

Init ==
  /\ mode \in {"dedicated", "host"}
  /\ slot = NoSlot
  /\ cooldown = FALSE /\ cooling = FALSE
  /\ owner = [p \in Processes |-> "down"]
  /\ decision = [p \in Processes |-> "none"]
  /\ wait = {}
  /\ call = [p \in Processes |-> AtRest]
  /\ budget = [p \in Processes |-> NoBudget]

Becomes(p, step) == owner' = [owner EXCEPT ![p] = step]
Lease == UNCHANGED <<mode, cooldown, decision, wait, call, budget, cooling>>

--------------------------------------------------------------------------------
\* HostLeaseStore

\* The dedicated key has one process.
Start(p) ==
  /\ owner[p] = "down"
  /\ mode = "dedicated" => \A q \in Processes : owner[q] = "down"
  /\ Becomes(p, "up")
  /\ UNCHANGED slot /\ Lease

\* Mutant: a lease whose heartbeat is too old is taken over.
OrExpired == ~slot.made \/ (slot.file # Nobody /\ ~slot.fresh)

\* mkdir creates the directory, or finds it there.
Free == ~slot.made

MakeDirectory(p) ==
  /\ mode = "host" /\ owner[p] = "up" /\ decision[p] = "none"
  /\ IF Free THEN slot' = [NoSlot EXCEPT !.made = TRUE] /\ Becomes(p, "made")
             ELSE UNCHANGED slot /\ Becomes(p, "refused")
  /\ Lease

WriteLease(p) ==
  /\ owner[p] = "made"
  /\ slot' = [slot EXCEPT !.file = p, !.fresh = TRUE]
  /\ Becomes(p, "held")
  /\ Lease

\* The temporary file could not be opened: the directory is removed.  If it could
\* not be filled it stays, and rmdir fails.
WriteFails(p) ==
  /\ owner[p] = "made"
  /\ \/ slot' = NoSlot
     \/ slot' = [slot EXCEPT !.litter = TRUE]
  /\ Becomes(p, "refused")
  /\ Lease

\* heartbeat: the read and the replacement are the owner's alone.
Heartbeat(p) ==
  /\ owner[p] = "held" /\ Owned(p)
  /\ slot' \in {[slot EXCEPT !.fresh = TRUE], [slot EXCEPT !.litter = TRUE]}
  /\ UNCHANGED owner /\ Lease

\* release: the lease must be its own, in time and alone in its directory ...
List(p) ==
  /\ owner[p] = "held" /\ Owned(p) /\ ~slot.litter
  /\ call[p] = AtRest
  /\ Becomes(p, "listed")
  /\ UNCHANGED slot /\ Lease

Unlink(p) ==
  /\ owner[p] = "listed"
  /\ slot' = [slot EXCEPT !.file = Nobody]
  /\ Becomes(p, "unlinked")
  /\ Lease

\* ... and then the directory goes.
RemoveDirectory(p) ==
  /\ owner[p] = "unlinked"
  /\ slot' = NoSlot
  /\ Becomes(p, "refused")
  /\ Lease

\* ttl_ms pass without a heartbeat.
Expire ==
  /\ slot.file # Nobody /\ slot.fresh
  /\ slot' = [slot EXCEPT !.fresh = FALSE]
  /\ UNCHANGED owner /\ Lease

\* The process ends, or dies.  A dedicated key's pause was in its memory alone.
End(p) ==
  /\ owner[p] # "down"
  /\ Becomes(p, "down")
  /\ decision' = [decision EXCEPT ![p] = "none"]
  /\ wait' = wait \ {p}
  /\ call' = [call EXCEPT ![p] = AtRest]
  /\ budget' = [budget EXCEPT ![p] = NoBudget]
  /\ cooling' = (cooling /\ mode = "host")
  /\ UNCHANGED <<mode, slot, cooldown>>

--------------------------------------------------------------------------------
\* MassiveAccessCoordinator and MassiveRestAdapter

Requests == UNCHANGED <<mode, slot, owner>>

Connect(p) ==
  /\ owner[p] \in {"up", "held", "refused"} /\ decision[p] = "none"
  /\ decision' = [decision EXCEPT ![p] = Decided(p)]
  /\ UNCHANGED <<cooldown, wait, call, budget, cooling>> /\ Requests

\* reset_budget: a cycle that is run again goes on with what it has left.
Reset(b, cycle) == IF b.cycle = cycle THEN b ELSE [cycle |-> cycle, used |-> 0]

StartCycle(p, a) ==
  /\ decision[p] # "none" /\ call[p][a] = "idle"
  /\ \E cycle \in {budget[p][a].cycle, budget[p][a].cycle + 1} \cap 1 .. MaxCycle :
       budget' = [budget EXCEPT ![p][a] = Reset(@, cycle)]
  /\ UNCHANGED <<cooldown, decision, wait, call, cooling>> /\ Requests

Goes(p, a, step) == call' = [call EXCEPT ![p][a] = step]

\* One request of the slot at a time in a process.
Enter(p, a) ==
  /\ owner[p] # "listed"
  /\ decision[p] \in {"dedicated", "host"} /\ call[p][a] = "idle"
  /\ \A b \in Adapters : call[p][b] = "idle"
  /\ Goes(p, a, "inside")
  /\ UNCHANGED <<cooldown, decision, wait, budget, cooling>> /\ Requests

\* Mutant: only the process's own cooldown is respected.
OwnPause(p) == p \in wait

Paused(p) == p \in wait \/ (decision[p] = "host" /\ cooldown)

\* admission: refused without the lease or in a cooldown.
Admitted(p) == (decision[p] = "host" => Owned(p)) /\ ~Paused(p)

Admit(p, a) ==
  /\ call[p][a] = "inside"
  /\ Goes(p, a, IF Admitted(p) THEN "clear" ELSE "idle")
  /\ UNCHANGED <<cooldown, decision, wait, budget, cooling>> /\ Requests

\* consume, and the request.
Send(p, a) ==
  /\ call[p][a] = "clear"
  /\ LET b == budget[p][a] IN
       IF b.cycle # 0 /\ b.used < Budget
         THEN /\ budget' = [budget EXCEPT ![p][a].used = @ + 1]
              /\ Goes(p, a, "sent")
         ELSE UNCHANGED budget /\ Goes(p, a, "idle")
  /\ UNCHANGED <<cooldown, decision, wait, cooling>> /\ Requests

Answer(p, a) ==
  /\ call[p][a] = "sent"
  /\ Goes(p, a, "idle")
  /\ UNCHANGED <<cooldown, decision, wait, budget, cooling>> /\ Requests

\* 429: first the process's own cooldown ...
Limited(p, a) ==
  /\ call[p][a] = "sent"
  /\ wait' = wait \cup {p}
  /\ cooling' = TRUE
  /\ Goes(p, a, IF decision[p] = "host" THEN "limited" ELSE "idle")
  /\ UNCHANGED <<cooldown, decision, budget>> /\ Requests

\* ... then, while the lease is its own, the slot's.
RecordCooldown(p, a) ==
  /\ call[p][a] = "limited"
  /\ cooldown' = (cooldown \/ Owned(p))
  /\ Goes(p, a, "idle")
  /\ UNCHANGED <<decision, wait, budget, cooling>> /\ Requests

\* The pause is over.
Elapse ==
  /\ cooling \/ cooldown \/ wait # {}
  /\ cooling' = FALSE /\ cooldown' = FALSE /\ wait' = {}
  /\ UNCHANGED <<decision, call, budget>> /\ Requests

Next ==
  \/ \E p \in Processes :
       \/ Start(p) \/ MakeDirectory(p) \/ WriteLease(p) \/ WriteFails(p) \/ Heartbeat(p)
       \/ List(p) \/ Unlink(p) \/ RemoveDirectory(p) \/ End(p)
       \/ Connect(p)
       \/ \E a \in Adapters :
            \/ StartCycle(p, a) \/ Enter(p, a) \/ Admit(p, a) \/ Send(p, a)
            \/ Answer(p, a) \/ Limited(p, a) \/ RecordCooldown(p, a)
  \/ Expire \/ Elapse

Spec == Init /\ [][Next]_vars

--------------------------------------------------------------------------------
\* Properties

Busy(p) == \E a \in Adapters : call[p][a] \in {"clear", "sent", "limited"}

\* The slot is its owner's until the owner itself has given it up: nobody finds it
\* free while the owner lives, late heartbeats or not, and requests of two
\* processes are never out together.
OneOwner ==
  /\ \A p \in Processes : owner[p] \in {"made", "held", "listed", "unlinked"} => slot.made
  /\ \A p \in Processes : owner[p] \in {"held", "listed"} => slot.file = p
  /\ \A p, q \in Processes : Busy(p) /\ Busy(q) => p = q

\* Whoever has the key next keeps to a pause the upstream asked of the last one;
\* a request that is out passed its cooldowns before the pause began.
PauseKept ==
  cooling => \A p \in Processes : \A a \in Adapters : call[p][a] \notin {"clear", "sent"}

SlotTruthful == OneOwner /\ PauseKept
================================================================================
