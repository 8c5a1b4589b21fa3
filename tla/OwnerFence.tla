-------------------------------- MODULE OwnerFence --------------------------------
(***************************************************************************)
(* The autonomous writer's ownership of the research database:             *)
(* acquire/release in alta_asterism/autonomous_owner.py and the fence that *)
(* Database.connect puts around every transaction (database.py).           *)
(*                                                                         *)
(* An owner holds a PostgreSQL session with an advisory lock and publishes *)
(* an epoch in ops.autonomous_owner.  Its Database instance then checks,   *)
(* in every transaction, the session before the row, the row under a row   *)
(* lock, and the session again before the commit.  Sessions break, the     *)
(* server notices late, processes are killed and come back.                *)
(*                                                                         *)
(* The row's token is drawn anew whenever its epoch changes, so epochs     *)
(* stand for (epoch, token) pairs and 0 for "no row" and "no fence".       *)
(***************************************************************************)
EXTENDS Integers, FiniteSets

CONSTANTS
  Procs,     \* processes, each with one Database instance
  Workers,   \* threads of a process that open transactions
  Nobody,    \* no session holds the advisory lock
  MaxEpoch   \* bound: nobody acquires once this epoch is reached

ASSUME FenceAssumption ==
  /\ IsFiniteSet(Workers)
  /\ Nobody \notin Procs
  /\ MaxEpoch \in Nat

VARIABLES
  epoch,     \* epoch in the durable row
  advisory,  \* process whose session the server has the advisory lock for
  session,   \* the owner connection, as its client will find it
  main,      \* how far a process is with acquiring or releasing
  lease,     \* epoch of its AutonomousOwnerLease
  fence,     \* Database._autonomous_fence
  closing,   \* Database._fence_closing
  count,     \* Database._fenced_transactions
  tx,        \* the transaction of each worker
  lost       \* history: epochs whose owner lost its session or was killed

owner == <<advisory, session, main, lease>>
gate == <<fence, closing, count>>
vars == <<epoch, advisory, session, main, lease, fence, closing, count, tx, lost>>

Txs == Procs \X Workers
Proc(t) == t[1]

--------------------------------------------------------------------------------
MainSteps == {"idle", "maintaining", "locked", "published", "owning",
              "draining", "revoking", "unlocking", "clearing"}

\* snap: external operation, fence looked at; entered: counted; live: session
\* found alive; body: row found current, statements run; final: session found
\* alive once more, commit to come.
TxSteps == {"out", "snap", "entered", "live", "checked", "body", "final"}

\* external: an autonomous_external_operation; snap: the fence it first saw;
\* fence: the fence this transaction entered under.
TxRecords == [step : TxSteps, external : BOOLEAN, snap : Nat, fence : Nat]
Out == [step |-> "out", external |-> FALSE, snap |-> 0, fence |-> 0]

TypeOK ==
  /\ epoch \in Nat
  /\ advisory \in Procs \cup {Nobody}
  /\ session \in [Procs -> {"none", "open", "broken"}]
  /\ main \in [Procs -> MainSteps]
  /\ lease \in [Procs -> Nat]
  /\ fence \in [Procs -> Nat]
  /\ closing \in [Procs -> BOOLEAN]
  /\ count \in [Procs -> Nat]
  /\ tx \in [Txs -> TxRecords]
  /\ lost \subseteq Nat

Init ==
  /\ epoch = 0
  /\ advisory = Nobody
  /\ session = [p \in Procs |-> "none"]
  /\ main = [p \in Procs |-> "idle"]
  /\ lease = [p \in Procs |-> 0]
  /\ fence = [p \in Procs |-> 0]
  /\ closing = [p \in Procs |-> FALSE]
  /\ count = [p \in Procs |-> 0]
  /\ tx = [t \in Txs |-> Out]
  /\ lost = {}

Goto(p, step) == main' = [main EXCEPT ![p] = step]
Freed(p) == IF advisory = p THEN Nobody ELSE advisory

--------------------------------------------------------------------------------
\* Acquiring and releasing

\* pg_try_advisory_lock succeeds, for acquire_autonomous_owner or for
\* acquire_maintenance_owner; when it does not, nothing happens.
TryLock(p) ==
  /\ main[p] = "idle"
  /\ advisory = Nobody
  /\ epoch < MaxEpoch
  /\ advisory' = p
  /\ session' = [session EXCEPT ![p] = "open"]
  /\ \E step \in {"locked", "maintaining"} : Goto(p, step)
  /\ UNCHANGED <<epoch, lease, gate, tx, lost>>

\* The upsert of ops.autonomous_owner.  The UPDATE changes no key column, so
\* the row locks that open transactions took FOR KEY SHARE do not block it.
Publish(p) ==
  /\ main[p] = "locked"
  /\ session[p] = "open"
  /\ epoch' = epoch + 1
  /\ lease' = [lease EXCEPT ![p] = epoch']
  /\ Goto(p, "published")
  /\ UNCHANGED <<advisory, session, gate, tx, lost>>

\* The session breaks before the upsert, or after it and before its answer.
AcquireFails(p) ==
  /\ main[p] = "locked"
  /\ \/ session[p] = "broken" /\ UNCHANGED epoch
     \/ session[p] = "open" /\ epoch' = epoch + 1
  /\ session' = [session EXCEPT ![p] = "none"]
  /\ Goto(p, "idle")
  /\ UNCHANGED <<advisory, lease, gate, tx, lost>>

Activate(p) ==
  /\ main[p] = "published"
  /\ fence' = [fence EXCEPT ![p] = lease[p]]
  /\ closing' = [closing EXCEPT ![p] = FALSE]
  /\ count' = [count EXCEPT ![p] = 0]
  /\ Goto(p, "owning")
  /\ UNCHANGED <<epoch, advisory, session, lease, tx, lost>>

\* release: drain_autonomous_fence closes the gate ...
BeginRelease(p) ==
  /\ main[p] = "owning"
  /\ closing' = [closing EXCEPT ![p] = TRUE]
  /\ Goto(p, "draining")
  /\ UNCHANGED <<epoch, advisory, session, lease, fence, count, tx, lost>>

\* Mutant: the gate is closed and nobody is waited for.
NoWait(p) == TRUE

NoneInside(p) == count[p] = 0

\* ... and waits for the transactions inside it.
Drained(p) ==
  /\ main[p] = "draining"
  /\ NoneInside(p)
  /\ Goto(p, "revoking")
  /\ UNCHANGED <<epoch, advisory, session, lease, gate, tx, lost>>

Revoke(p) ==
  /\ main[p] = "revoking"
  /\ session[p] = "open"
  /\ epoch' = IF epoch = lease[p] THEN epoch + 1 ELSE epoch
  /\ Goto(p, "unlocking")
  /\ UNCHANGED <<advisory, session, lease, gate, tx, lost>>

\* A disconnected owner revokes and unlocks nothing.
ReleaseFails(p) ==
  /\ main[p] \in {"revoking", "unlocking"}
  /\ session[p] = "broken"
  /\ session' = [session EXCEPT ![p] = "none"]
  /\ Goto(p, "clearing")
  /\ UNCHANGED <<epoch, advisory, lease, gate, tx, lost>>

Unlock(p) ==
  /\ main[p] = "unlocking"
  /\ session[p] = "open"
  /\ advisory' = Freed(p)
  /\ session' = [session EXCEPT ![p] = "none"]
  /\ Goto(p, "clearing")
  /\ UNCHANGED <<epoch, lease, gate, tx, lost>>

Clear(p) ==
  /\ main[p] = "clearing"
  /\ count[p] = 0
  /\ fence' = [fence EXCEPT ![p] = 0]
  /\ closing' = [closing EXCEPT ![p] = FALSE]
  /\ lease' = [lease EXCEPT ![p] = 0]
  /\ Goto(p, "idle")
  /\ UNCHANGED <<epoch, advisory, session, count, tx, lost>>

EndMaintenance(p) ==
  /\ main[p] = "maintaining"
  /\ advisory' = IF session[p] = "open" THEN Freed(p) ELSE advisory
  /\ session' = [session EXCEPT ![p] = "none"]
  /\ Goto(p, "idle")
  /\ UNCHANGED <<epoch, lease, gate, tx, lost>>

--------------------------------------------------------------------------------
\* Transactions

\* autonomous_external_operation looks at the fence before it connects.
Snapshot(t) ==
  /\ tx[t] = Out
  /\ tx' = [tx EXCEPT ![t] = [Out EXCEPT !.step = "snap", !.external = TRUE,
                                         !.snap = fence[Proc(t)]]]
  /\ UNCHANGED <<epoch, owner, gate, lost>>

\* Mutant: transactions are admitted while the fence drains.
AlwaysAdmit(p) == fence[p] # 0

Admits(p) == fence[p] # 0 /\ ~closing[p]

\* _enter_fenced_transaction, counted.
Enter(t) ==
  /\ tx[t].step \in {"out", "snap"}
  /\ Admits(Proc(t))
  /\ count' = [count EXCEPT ![Proc(t)] = @ + 1]
  /\ tx' = [tx EXCEPT ![t].step = "entered", ![t].fence = fence[Proc(t)]]
  /\ UNCHANGED <<epoch, owner, fence, closing, lost>>

\* Without a fence there is nothing to validate (no-owner mode).
EnterUnfenced(t) ==
  /\ tx[t].step \in {"out", "snap"}
  /\ fence[Proc(t)] = 0
  /\ tx' = [tx EXCEPT ![t].step = "checked", ![t].fence = 0]
  /\ UNCHANGED <<epoch, owner, gate, lost>>

\* Mutant: the connection object is looked at, the server is not asked.
NotClosed(p) == session[p] # "none"

\* AutonomousOwnerLease.assert_session
SessionHolds(p) == session[p] = "open" /\ advisory = p

ValidateSession(t) ==
  /\ tx[t].step = "entered"
  /\ SessionHolds(Proc(t))
  /\ tx' = [tx EXCEPT ![t].step = "live"]
  /\ UNCHANGED <<epoch, owner, gate, lost>>

CheckRow(t) ==
  /\ tx[t].step = "live"
  /\ epoch = tx[t].fence
  /\ tx' = [tx EXCEPT ![t].step = "checked"]
  /\ UNCHANGED <<epoch, owner, gate, lost>>

\* Mutant: an external operation only needs to have seen a fence at first.
SeenFence(t) == tx[t].snap # 0

SameFence(t) == tx[t].snap # 0 /\ fence[Proc(t)] = tx[t].snap

\* connect yields; an external operation goes on only under the fence it saw.
Begin(t) ==
  /\ tx[t].step = "checked"
  /\ tx[t].external => SameFence(t)
  /\ tx' = [tx EXCEPT ![t].step = "body"]
  /\ UNCHANGED <<epoch, owner, gate, lost>>

\* The session is validated again before the transaction may commit.
Finish(t) ==
  /\ tx[t].step = "body"
  /\ tx[t].fence # 0 => SessionHolds(Proc(t))
  /\ tx' = [tx EXCEPT ![t].step = "final"]
  /\ UNCHANGED <<epoch, owner, gate, lost>>

Counted(t) == IF tx[t].fence # 0 THEN 1 ELSE 0

Leave(t) ==
  /\ tx' = [tx EXCEPT ![t] = Out]
  /\ count' = [count EXCEPT ![Proc(t)] = @ - Counted(t)]
  /\ UNCHANGED <<epoch, owner, fence, closing, lost>>

Commit(t) == tx[t].step = "final" /\ Leave(t)

\* A validation, a statement or the pool fails: the transaction rolls back.
Rollback(t) == tx[t].step # "out" /\ Leave(t)

--------------------------------------------------------------------------------
\* Failures

InForce(p) == main[p] \in {"published", "owning", "draining", "revoking"}
Lose(p) == lost' = IF InForce(p) THEN lost \cup {lease[p]} ELSE lost

\* The server ends the session or the network does.
Break(p) ==
  /\ session[p] = "open"
  /\ session' = [session EXCEPT ![p] = "broken"]
  /\ Lose(p)
  /\ UNCHANGED <<epoch, advisory, main, lease, gate, tx>>

\* The server notices that the lock's session is gone.
Reap(p) ==
  /\ advisory = p
  /\ session[p] # "open"
  /\ advisory' = Nobody
  /\ UNCHANGED <<epoch, session, main, lease, gate, tx, lost>>

\* The process dies with all it has in memory; it may be started again.
Kill(p) ==
  /\ main[p] # "idle"
  /\ session' = [session EXCEPT ![p] = "none"]
  /\ Goto(p, "idle")
  /\ lease' = [lease EXCEPT ![p] = 0]
  /\ fence' = [fence EXCEPT ![p] = 0]
  /\ closing' = [closing EXCEPT ![p] = FALSE]
  /\ count' = [count EXCEPT ![p] = 0]
  /\ tx' = [t \in Txs |-> IF Proc(t) = p THEN Out ELSE tx[t]]
  /\ Lose(p)
  /\ UNCHANGED <<epoch, advisory>>

--------------------------------------------------------------------------------
Owner(p) ==
  \/ TryLock(p) \/ Publish(p) \/ AcquireFails(p) \/ Activate(p)
  \/ BeginRelease(p) \/ Drained(p) \/ Revoke(p) \/ ReleaseFails(p)
  \/ Unlock(p) \/ Clear(p) \/ EndMaintenance(p)

Transaction(t) ==
  \/ Snapshot(t) \/ Enter(t) \/ EnterUnfenced(t) \/ ValidateSession(t)
  \/ CheckRow(t) \/ Begin(t) \/ Finish(t) \/ Commit(t) \/ Rollback(t)

Failure(p) == Break(p) \/ Reap(p) \/ Kill(p)

Next ==
  \/ \E p \in Procs : Owner(p) \/ Failure(p)
  \/ \E t \in Txs : Transaction(t)

Spec == Init /\ [][Next]_vars

\* Transactions end (every statement and broker call has a time limit), and a
\* release that has begun is carried on.
CarryOn(p) == Drained(p) \/ Revoke(p) \/ ReleaseFails(p) \/ Unlock(p) \/ Clear(p)
Fairness ==
  /\ \A t \in Txs : WF_vars(Rollback(t))
  /\ \A p \in Procs : WF_vars(CarryOn(p))

LiveSpec == Spec /\ Fairness

--------------------------------------------------------------------------------
\* Correctness

\* Inside a fenced transaction, its row check passed.
Open(t) == tx[t].fence # 0 /\ tx[t].step \in {"checked", "body", "final"}

\* Ownership is handed over only between transactions: while one is open under
\* an owner that was not cut off, nobody else holds the advisory lock (another
\* runner or a migration) and the durable epoch is still the one it checked.
HandedOverIdle ==
  \A t \in Txs :
    Open(t) =>
      \/ tx[t].fence \in lost
      \/ advisory = Proc(t) /\ epoch = tx[t].fence

\* What passes the last validation was written under the current epoch, even
\* if the session was lost and a successor has come since the row was checked.
FinishedCurrent ==
  [][\A t \in Txs :
       tx[t].fence # 0 /\ tx[t].step = "body" /\ tx'[t].step = "final" =>
         advisory = Proc(t) /\ epoch = tx[t].fence]_vars

\* A broker operation runs only inside the gate of the fence it first saw, and
\* release does not get past draining before it has ended, whatever releases
\* and new acquisitions fall between its two looks at the fence.
ExternalInsideGate ==
  \A t \in Txs :
    tx[t].external /\ tx[t].step \in {"body", "final"} =>
      /\ tx[t].fence # 0
      /\ fence[Proc(t)] = tx[t].fence
      /\ main[Proc(t)] \in {"owning", "draining"}

\* A release that has begun completes: the drain cannot be kept waiting by new
\* transactions, nor by the count of ones that have failed.
ReleaseCompletes ==
  \A p \in Procs : main[p] = "draining" ~> main[p] = "idle"

--------------------------------------------------------------------------------
\* What the source promises and its steps do not keep (see the README)

\* "A successor therefore cannot publish a new epoch in the middle of a
\* transaction that began under the previous owner."
\* (Database.activate_autonomous_fence)
EpochFixedInTransaction == \A t \in Txs : Open(t) => epoch = tx[t].fence
================================================================================
