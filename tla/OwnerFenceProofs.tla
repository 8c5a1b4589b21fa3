---------------------------- MODULE OwnerFenceProofs ----------------------------
(***************************************************************************)
(* Proofs about OwnerFence, for any number of processes and threads and    *)
(* any bound on epochs.  The inductive invariant relates the owner's steps *)
(* to its session and epoch (OwnerInv), every transaction to the gate it   *)
(* is inside (TxInv, SnapInv), and the gate's counter to the transactions  *)
(* it counts (CountInv).                                                   *)
(***************************************************************************)
EXTENDS OwnerFence, FiniteSetTheorems, TLAPS

Fenced == {"owning", "draining", "revoking", "unlocking", "clearing"}

OwnerInv ==
  \A p \in Procs :
    /\ session[p] = "open" => advisory = p /\ main[p] \notin {"idle", "clearing"}
    /\ fence[p] = IF main[p] \in Fenced THEN lease[p] ELSE 0
    /\ closing[p] <=> main[p] \in Fenced \ {"owning"}
    /\ main[p] \in Fenced \cup {"published"} => lease[p] > 0 /\ lease[p] <= epoch
    /\ main[p] \notin Fenced \cup {"published"} => lease[p] = 0
    /\ InForce(p) => IF session[p] = "open" THEN epoch = lease[p] ELSE lease[p] \in lost

\* Who is inside the gate is inside while the fence is up.
TxInv ==
  \A t \in Txs :
    /\ tx[t].step = "out" => tx[t] = Out
    /\ tx[t].step \in {"entered", "live"} => tx[t].fence # 0
    /\ tx[t].step = "snap" => tx[t].fence = 0
    /\ tx[t].fence # 0 =>
         tx[t].fence = fence[Proc(t)] /\ main[Proc(t)] \in {"owning", "draining"}

\* A fence that was seen and is gone does not come back.
SnapInv ==
  \A t \in Txs :
    /\ tx[t].snap <= epoch
    /\ tx[t].snap # 0 /\ tx[t].snap = lease[Proc(t)] => fence[Proc(t)] = lease[Proc(t)]
    /\ tx[t].external /\ tx[t].fence = 0 /\ tx[t].step \in {"checked", "body", "final"} =>
         /\ tx[t].step = "checked"
         /\ tx[t].snap = 0 \/ tx[t].snap # lease[Proc(t)]

Inside(p) == {w \in Workers : tx[<<p, w>>].fence # 0}
CountInv == \A p \in Procs : count[p] = Cardinality(Inside(p))

IInv == TypeOK /\ OwnerInv /\ TxInv /\ SnapInv /\ CountInv

--------------------------------------------------------------------------------
LEMMA TxFacts ==
  /\ \A t \in Txs : Proc(t) \in Procs
  /\ \A p \in Procs, w \in Workers : <<p, w>> \in Txs /\ Proc(<<p, w>>) = p
  /\ \A t \in Txs : \E w \in Workers : t = <<Proc(t), w>>
BY DEF Txs, Proc

LEMMA OutFacts ==
  /\ Out \in TxRecords /\ Out.step = "out" /\ Out.fence = 0 /\ Out.snap = 0
  /\ ~Out.external
BY DEF Out, TxRecords, TxSteps

LEMMA InsideFinite == \A p \in Procs : IsFiniteSet(Inside(p)) /\ Cardinality(Inside(p)) \in Nat
BY FS_Subset, FS_CardinalityType, FenceAssumption DEF Inside

\* Everything holds at the start.
LEMMA InitIInv == Init => IInv
<1>. SUFFICES ASSUME Init PROVE IInv
  OBVIOUS
<1>1. TypeOK
  BY FenceAssumption, OutFacts DEF Init, TypeOK, MainSteps
<1>2. OwnerInv
  BY FenceAssumption DEF Init, OwnerInv, Fenced, InForce
<1>3. TxInv /\ SnapInv
  BY TxFacts, OutFacts DEF Init, TxInv, SnapInv
<1>4. \A p \in Procs : Inside(p) = {}
  BY TxFacts, OutFacts DEF Init, Inside
<1>5. CountInv
  BY <1>4, FS_EmptySet DEF Init, CountInv
<1>. QED
  BY <1>1, <1>2, <1>3, <1>5 DEF IInv

--------------------------------------------------------------------------------
\* The counter across the gate

\* One worker gets in, or out; the transactions of other processes stay put.
LEMMA CountStep ==
  ASSUME TypeOK, CountInv, NEW t \in Txs, NEW r \in TxRecords,
         tx' = [tx EXCEPT ![t] = r],
         \/ tx[t].fence = 0 /\ r.fence # 0
              /\ count' = [count EXCEPT ![Proc(t)] = @ + 1]
         \/ tx[t].fence # 0 /\ r.fence = 0
              /\ count' = [count EXCEPT ![Proc(t)] = @ - 1]
         \/ (tx[t].fence = 0 <=> r.fence = 0) /\ count' = count
  PROVE  CountInv' /\ count' \in [Procs -> Nat]
<1>. DEFINE p == Proc(t)
<1>1. PICK w \in Workers : t = <<p, w>>
  BY TxFacts
<1>2. p \in Procs
  BY TxFacts
<1>3. tx'[t] = r /\ \A u \in Txs \ {t} : tx'[u] = tx[u]
  BY DEF TypeOK
<1>4. \A q \in Procs \ {p}, x \in Workers : <<q, x>> \in Txs \ {t}
  BY <1>1, TxFacts
<1>5. \A x \in Workers \ {w} : <<p, x>> \in Txs \ {t}
  BY <1>1, <1>2, TxFacts
<1>6. \A q \in Procs \ {p} : Inside(q)' = Inside(q)
  BY <1>3, <1>4 DEF Inside
<1>7. \A x \in Workers \ {w} : x \in Inside(p)' <=> x \in Inside(p)
  BY <1>3, <1>5 DEF Inside
<1>8. (w \in Inside(p) <=> tx[t].fence # 0) /\ (w \in Inside(p)' <=> r.fence # 0)
  BY <1>1, <1>3 DEF Inside
<1>9. Inside(p) \subseteq Workers /\ Inside(p)' \subseteq Workers
  BY DEF Inside
<1>10. IsFiniteSet(Inside(p)) /\ count[p] = Cardinality(Inside(p)) /\ count[p] \in Nat
  BY <1>2, InsideFinite DEF CountInv, TypeOK
<1>11. \A q \in Procs \ {p} : count'[q] = count[q]
  BY DEF TypeOK
<1>. HIDE DEF p
<1>12. CASE tx[t].fence = 0 /\ r.fence # 0
  <2>1. count'[p] = count[p] + 1
    BY <1>2, <1>12 DEF TypeOK, p
  <2>2. Inside(p)' = Inside(p) \cup {w} /\ w \notin Inside(p)
    BY <1>7, <1>8, <1>9, <1>12
  <2>3. Cardinality(Inside(p)') = Cardinality(Inside(p)) + 1
    BY <2>2, <1>10, FS_AddElement
  <2>. QED
    BY <1>2, <1>6, <1>10, <1>11, <1>12, <2>1, <2>3 DEF CountInv, TypeOK
<1>13. CASE tx[t].fence # 0 /\ r.fence = 0
  <2>1. count'[p] = count[p] - 1
    BY <1>2, <1>13 DEF TypeOK, p
  <2>2. Inside(p)' = Inside(p) \ {w} /\ w \in Inside(p)
    BY <1>7, <1>8, <1>9, <1>13
  <2>3. Cardinality(Inside(p)') = Cardinality(Inside(p)) - 1
    BY <2>2, <1>10, FS_RemoveElement
  <2>4. Inside(p) # {}
    BY <2>2
  <2>5. count'[p] \in Nat
    BY <1>10, <2>1, <2>4, FS_EmptySet
  <2>. QED
    BY <1>2, <1>6, <1>10, <1>11, <1>13, <2>1, <2>3, <2>5 DEF CountInv, TypeOK
<1>14. CASE tx[t].fence = 0 <=> r.fence = 0
  <2>1. count' = count
    BY <1>14
  <2>2. Inside(p)' = Inside(p)
    BY <1>7, <1>8, <1>9, <1>14
  <2>. QED
    BY <1>2, <1>6, <2>1, <2>2 DEF CountInv, TypeOK
<1>. QED
  BY <1>12, <1>13, <1>14

\* The gate is empty: no transaction of this process is fenced.
LEMMA EmptyGate ==
  ASSUME CountInv, NEW p \in Procs, count[p] = 0
  PROVE  \A t \in Txs : Proc(t) = p => tx[t].fence = 0
<1>1. Inside(p) = {}
  BY InsideFinite, FS_EmptySet DEF CountInv
<1>. QED
  BY <1>1, TxFacts DEF Inside

--------------------------------------------------------------------------------
\* Transactions

\* Only transactions and counters change; how each invariant fares is said of
\* the changed transaction alone.
LEMMA TransactionMoves ==
  ASSUME IInv, NEW t \in Txs, NEW r \in TxRecords,
         tx' = [tx EXCEPT ![t] = r],
         UNCHANGED <<epoch, owner, fence, closing, lost>>,
         r.step = "out" => r = Out,
         r.step \in {"entered", "live"} => r.fence # 0,
         r.step = "snap" => r.fence = 0,
         r.fence # 0 => r.fence = fence[Proc(t)] /\ main[Proc(t)] \in {"owning", "draining"},
         r.snap <= epoch,
         r.snap # 0 /\ r.snap = lease[Proc(t)] => fence[Proc(t)] = lease[Proc(t)],
         r.external /\ r.fence = 0 /\ r.step \in {"checked", "body", "final"} =>
           /\ r.step = "checked"
           /\ r.snap = 0 \/ r.snap # lease[Proc(t)],
         \/ tx[t].fence = 0 /\ r.fence # 0
              /\ count' = [count EXCEPT ![Proc(t)] = @ + 1]
         \/ tx[t].fence # 0 /\ r.fence = 0
              /\ count' = [count EXCEPT ![Proc(t)] = @ - 1]
         \/ (tx[t].fence = 0 <=> r.fence = 0) /\ count' = count
  PROVE  IInv'
<1>1. /\ TypeOK /\ OwnerInv /\ TxInv /\ SnapInv /\ CountInv
      /\ UNCHANGED <<epoch, advisory, session, main, lease, fence, closing, lost>>
      /\ tx'[t] = r /\ \A u \in Txs \ {t} : tx'[u] = tx[u]
  BY DEF IInv, owner, TypeOK
<1>2. CountInv' /\ count' \in [Procs -> Nat]
  BY <1>1, CountStep
<1>3. TypeOK'
  BY <1>1, <1>2 DEF TypeOK
<1>4. OwnerInv'
  BY <1>1 DEF OwnerInv, InForce
<1>5. TxInv'
  BY <1>1 DEF TxInv
<1>6. SnapInv'
  BY <1>1 DEF SnapInv
<1>. QED
  BY <1>2, <1>3, <1>4, <1>5, <1>6 DEF IInv

LEMMA TransactionStep == ASSUME IInv, NEW t \in Txs, Transaction(t) PROVE IInv'
<1>. DEFINE p == Proc(t)
<1>1. /\ TypeOK /\ OwnerInv /\ TxInv /\ SnapInv /\ CountInv /\ p \in Procs
      /\ tx[t] \in TxRecords /\ fence[p] \in Nat /\ lease[p] \in Nat /\ epoch \in Nat
  BY TxFacts DEF IInv, TypeOK
<1>2. fence[p] <= epoch /\ (fence[p] # 0 => fence[p] = lease[p])
  BY <1>1 DEF OwnerInv, TypeOK
<1>3. CASE Snapshot(t)
  <2>. DEFINE r == [Out EXCEPT !.step = "snap", !.external = TRUE, !.snap = fence[Proc(t)]]
  <2>1. /\ r \in TxRecords /\ r.step = "snap" /\ r.fence = 0 /\ r.snap = fence[p]
        /\ r.external
    BY <1>1 DEF Out, TxRecords, TxSteps
  <2>2. /\ tx' = [tx EXCEPT ![t] = r] /\ tx[t].fence = 0 /\ count' = count
        /\ UNCHANGED <<epoch, owner, fence, closing, lost>>
    BY <1>3, OutFacts DEF Snapshot, gate
  <2>. HIDE DEF r
  <2>. QED
    BY <1>1, <1>2, <2>1, <2>2, TransactionMoves
<1>4. CASE Enter(t)
  <2>. DEFINE r == [tx[t] EXCEPT !.step = "entered", !.fence = fence[Proc(t)]]
  <2>1. /\ r \in TxRecords /\ r.step = "entered" /\ r.fence = fence[p] /\ r.snap = tx[t].snap
    BY <1>1 DEF TxRecords, TxSteps
  <2>2. /\ tx' = [tx EXCEPT ![t] = r] /\ count' = [count EXCEPT ![Proc(t)] = @ + 1]
        /\ UNCHANGED <<epoch, owner, fence, closing, lost>>
        /\ fence[p] # 0 /\ ~closing[p] /\ tx[t].step \in {"out", "snap"}
    BY <1>1, <1>4 DEF Enter, Admits, TypeOK
  <2>3. tx[t].fence = 0
    BY <1>1, <2>2, OutFacts DEF TxInv
  <2>4. main[p] \in {"owning", "draining"}
    BY <1>1, <2>2 DEF OwnerInv, Fenced
  <2>. HIDE DEF r
  <2>. QED
    BY <1>1, <1>2, <2>1, <2>2, <2>3, <2>4, TransactionMoves DEF SnapInv
<1>5. CASE EnterUnfenced(t)
  <2>. DEFINE r == [tx[t] EXCEPT !.step = "checked", !.fence = 0]
  <2>1. /\ r \in TxRecords /\ r.step = "checked" /\ r.fence = 0 /\ r.snap = tx[t].snap
    BY <1>1 DEF TxRecords, TxSteps
  <2>2. /\ tx' = [tx EXCEPT ![t] = r] /\ count' = count /\ fence[p] = 0
        /\ UNCHANGED <<epoch, owner, fence, closing, lost>>
        /\ tx[t].step \in {"out", "snap"}
    BY <1>1, <1>5 DEF EnterUnfenced, gate, TypeOK
  <2>3. tx[t].fence = 0
    BY <1>1, <2>2, OutFacts DEF TxInv
  <2>4. tx[t].snap = 0 \/ tx[t].snap # lease[p]
    BY <1>1, <2>2 DEF SnapInv
  <2>. HIDE DEF r
  <2>. QED
    BY <1>1, <2>1, <2>2, <2>3, <2>4, TransactionMoves DEF SnapInv
<1>6. CASE ValidateSession(t) \/ CheckRow(t) \/ Begin(t) \/ Finish(t)
  <2>1. PICK s \in {"live", "checked", "body", "final"} :
          /\ tx' = [tx EXCEPT ![t].step = s]
          /\ s = "live" => tx[t].step = "entered"
    BY <1>6 DEF ValidateSession, CheckRow, Begin, Finish
  <2>. DEFINE r == [tx[t] EXCEPT !.step = s]
  <2>2. /\ r \in TxRecords /\ r.step = s /\ r.fence = tx[t].fence /\ r.snap = tx[t].snap
        /\ r.external = tx[t].external
    BY <1>1, <2>1 DEF TxRecords, TxSteps
  <2>3. /\ tx' = [tx EXCEPT ![t] = r] /\ count' = count
        /\ UNCHANGED <<epoch, owner, fence, closing, lost>>
    BY <1>6, <2>1 DEF ValidateSession, CheckRow, Begin, Finish, gate
  <2>4. s = "live" => tx[t].fence # 0
    BY <1>1, <2>1 DEF TxInv
  <2>5. tx[t].external /\ tx[t].fence = 0 => s \in {"live", "body"} /\ s # "body"
    <3>1. CASE ValidateSession(t)
      BY <1>1, <3>1 DEF ValidateSession, TxInv
    <3>2. CASE CheckRow(t)
      BY <1>1, <3>2 DEF CheckRow, TxInv
    <3>3. CASE Begin(t)
      BY <1>1, <1>2, <3>3 DEF Begin, SameFence, SnapInv
    <3>4. CASE Finish(t)
      BY <1>1, <3>4 DEF Finish, SnapInv
    <3>. QED
      BY <1>6, <3>1, <3>2, <3>3, <3>4
  <2>. HIDE DEF r
  <2>6. ~(r.external /\ r.fence = 0 /\ r.step \in {"checked", "body", "final"})
    BY <2>1, <2>2, <2>4, <2>5
  <2>7. r.fence # 0 => r.fence = fence[Proc(t)] /\ main[Proc(t)] \in {"owning", "draining"}
    BY <1>1, <2>2 DEF TxInv
  <2>8. /\ r.snap <= epoch
        /\ r.snap # 0 /\ r.snap = lease[Proc(t)] => fence[Proc(t)] = lease[Proc(t)]
    BY <1>1, <2>2 DEF SnapInv
  <2>9. r.step \notin {"out", "entered", "snap"} /\ (r.step = "live" => r.fence # 0)
    BY <2>1, <2>2, <2>4
  <2>. QED
    BY <2>2, <2>3, <2>6, <2>7, <2>8, <2>9, TransactionMoves
<1>7. CASE Commit(t) \/ Rollback(t)
  <2>1. /\ tx' = [tx EXCEPT ![t] = Out]
        /\ count' = [count EXCEPT ![Proc(t)] = @ - Counted(t)]
        /\ UNCHANGED <<epoch, owner, fence, closing, lost>>
    BY <1>7 DEF Commit, Rollback, Leave
  <2>. DEFINE r == Out
  <2>2. /\ r \in TxRecords /\ r = Out /\ r.step = "out" /\ r.fence = 0 /\ r.snap = 0
        /\ tx' = [tx EXCEPT ![t] = r] /\ r.snap <= epoch
    BY <1>1, <2>1, OutFacts
  <2>3. \/ tx[t].fence # 0 /\ count' = [count EXCEPT ![Proc(t)] = @ - 1]
        \/ tx[t].fence = 0 /\ count' = count
    <3>1. CASE tx[t].fence # 0
      BY <2>1, <3>1 DEF Counted
    <3>2. CASE tx[t].fence = 0
      <4>1. count' = [count EXCEPT ![p] = @ - 0] /\ count \in [Procs -> Nat]
        BY <1>1, <2>1, <3>2 DEF Counted, TypeOK
      <4>2. count' = count
        BY <1>1, <4>1
      <4>. QED
        BY <3>2, <4>2
    <3>. QED
      BY <3>1, <3>2
  <2>4. UNCHANGED <<epoch, owner, fence, closing, lost>>
    BY <2>1
  <2>. HIDE DEF r
  <2>5. /\ ~(r.step \in {"entered", "live"}) /\ r.step # "snap"
        /\ ~(r.external /\ r.fence = 0 /\ r.step \in {"checked", "body", "final"})
    BY <2>2
  <2>. QED
    BY <2>2, <2>3, <2>4, <2>5, TransactionMoves
<1>. QED
  BY <1>3, <1>4, <1>5, <1>6, <1>7 DEF Transaction

--------------------------------------------------------------------------------
\* Owners

\* Transactions and their counter stay put, and so do their fence and lease.
LEMMA OwnerMoves ==
  ASSUME IInv, TypeOK', OwnerInv', UNCHANGED <<lease, fence, count, tx>>,
         epoch' >= epoch,
         \A t \in Txs : tx[t].fence # 0 => main'[Proc(t)] \in {"owning", "draining"}
  PROVE  IInv'
<1>1. CountInv'
  BY DEF IInv, CountInv, Inside
<1>2. TxInv'
  BY DEF IInv, TxInv
<1>3. SnapInv'
  BY DEF IInv, SnapInv, TypeOK, TxRecords
<1>. QED
  BY <1>1, <1>2, <1>3 DEF IInv

LEMMA AcquireStep ==
  ASSUME IInv, NEW p \in Procs, TryLock(p) \/ AcquireFails(p) \/ EndMaintenance(p)
  PROVE  IInv'
<1>1. TypeOK /\ OwnerInv /\ TxInv
  BY DEF IInv
<1>2. UNCHANGED <<lease, fence, closing, count, tx, lost>>
  BY DEF TryLock, AcquireFails, EndMaintenance, gate
<1>3. epoch' >= epoch
  BY <1>1 DEF TryLock, AcquireFails, EndMaintenance, TypeOK
<1>4. TypeOK'
  BY <1>1, <1>2 DEF TryLock, AcquireFails, EndMaintenance, TypeOK, Goto, MainSteps, Freed
<1>5. main[p] \in {"idle", "locked", "maintaining"} /\ main'[p] \in {"idle", "locked", "maintaining"}
  BY <1>1 DEF TryLock, AcquireFails, EndMaintenance, TypeOK, Goto
<1>6. \A q \in Procs \ {p} : main'[q] = main[q] /\ session'[q] = session[q]
  BY <1>1 DEF TryLock, AcquireFails, EndMaintenance, TypeOK, Goto
<1>7. \A t \in Txs : tx[t].fence # 0 => main'[Proc(t)] \in {"owning", "draining"}
  BY <1>1, <1>5, <1>6, TxFacts DEF TxInv
<1>8. OwnerInv'
  <2>1. CASE TryLock(p)
    <3>1. \A q \in Procs \ {p} : session[q] # "open"
      BY <1>1, <2>1, FenceAssumption DEF TryLock, OwnerInv
    <3>2. /\ session'[p] = "open" /\ advisory' = p /\ main'[p] \in {"locked", "maintaining"}
          /\ epoch' = epoch
      BY <1>1, <2>1 DEF TryLock, TypeOK, Goto
    <3>. QED
      BY <1>1, <1>2, <1>5, <1>6, <3>1, <3>2 DEF OwnerInv, Fenced, InForce
  <2>2. CASE AcquireFails(p) \/ EndMaintenance(p)
    <3>1. session'[p] = "none" /\ main'[p] = "idle"
      BY <1>1, <2>2 DEF AcquireFails, EndMaintenance, TypeOK, Goto
    <3>2. \A q \in Procs \ {p} : session[q] = "open" => advisory' = advisory /\ epoch' = epoch
      BY <1>1, <2>2 DEF AcquireFails, EndMaintenance, OwnerInv, Freed
    <3>3. \A q \in Procs : lease[q] <= epoch => lease[q] <= epoch'
      BY <1>1, <1>3, <1>4 DEF TypeOK
    <3>. QED
      BY <1>1, <1>2, <1>5, <1>6, <3>1, <3>2, <3>3 DEF OwnerInv, Fenced, InForce
  <2>. QED
    BY <2>1, <2>2
<1>. QED
  BY <1>2, <1>3, <1>4, <1>7, <1>8, OwnerMoves

\* While p's session is open no other owner's is, so p alone moves the epoch.
LEMMA PublishStep == ASSUME IInv, NEW p \in Procs, Publish(p) PROVE IInv'
<1>1. /\ TypeOK /\ OwnerInv /\ TxInv /\ SnapInv /\ CountInv
      /\ main[p] = "locked" /\ session[p] = "open" /\ advisory = p
      /\ epoch' = epoch + 1 /\ lease' = [lease EXCEPT ![p] = epoch + 1]
      /\ main' = [main EXCEPT ![p] = "published"]
      /\ UNCHANGED <<advisory, session, fence, closing, count, tx, lost>>
  BY DEF IInv, Publish, Goto, gate, OwnerInv
<1>2. \A q \in Procs \ {p} : /\ session[q] # "open"
                             /\ main'[q] = main[q] /\ lease'[q] = lease[q]
  BY <1>1 DEF OwnerInv, TypeOK
<1>3. main'[p] = "published" /\ lease'[p] = epoch + 1 /\ fence[p] = 0
  BY <1>1 DEF OwnerInv, TypeOK, Fenced
<1>4. TypeOK'
  BY <1>1 DEF TypeOK, MainSteps
<1>5. OwnerInv'
  <2>1. ASSUME NEW q \in Procs \ {p} PROVE lease[q] <= epoch => lease[q] <= epoch'
    BY <1>1 DEF TypeOK
  <2>2. lease'[p] > 0 /\ lease'[p] <= epoch' /\ lease'[p] = epoch'
    BY <1>1, <1>3 DEF TypeOK
  <2>. QED
    BY <1>1, <1>2, <1>3, <2>1, <2>2 DEF OwnerInv, Fenced, InForce
<1>6. TxInv'
  BY <1>1, <1>2, <1>3, TxFacts DEF TxInv
<1>7. SnapInv'
  <2>1. ASSUME NEW t \in Txs PROVE tx[t].snap \in Nat /\ tx[t].snap <= epoch' /\ tx[t].snap # epoch + 1
    BY <1>1 DEF SnapInv, TypeOK, TxRecords
  <2>. QED
    BY <1>1, <1>2, <1>3, <2>1, TxFacts DEF SnapInv
<1>8. CountInv'
  BY <1>1 DEF CountInv, Inside
<1>. QED
  BY <1>4, <1>5, <1>6, <1>7, <1>8 DEF IInv

\* The gate goes up, and comes down, with nobody inside.
LEMMA GateStep ==
  ASSUME IInv, NEW p \in Procs, Activate(p) \/ Clear(p)
  PROVE  IInv'
<1>1. /\ TypeOK /\ OwnerInv /\ TxInv /\ SnapInv /\ CountInv
      /\ UNCHANGED <<epoch, advisory, session, tx, lost>>
  BY DEF IInv, Activate, Clear
<1>2. \A t \in Txs : Proc(t) = p => tx[t].fence = 0
  BY <1>1 DEF Activate, Clear, TxInv
<1>3. count[p] = 0 /\ count' = count
  <2>1. Inside(p) = {}
    BY <1>2, TxFacts DEF Inside
  <2>2. count[p] = 0
    BY <1>1, <2>1, FS_EmptySet DEF CountInv
  <2>. QED
    BY <1>1, <2>2 DEF Activate, Clear, TypeOK
<1>4. \A q \in Procs \ {p} : /\ main'[q] = main[q] /\ lease'[q] = lease[q]
                             /\ fence'[q] = fence[q] /\ closing'[q] = closing[q]
  BY <1>1 DEF Activate, Clear, Goto, TypeOK
<1>5. TypeOK'
  <2>1. main' \in [Procs -> MainSteps] /\ lease' \in [Procs -> Nat]
    BY <1>1 DEF Activate, Clear, Goto, TypeOK, MainSteps
  <2>2. fence' \in [Procs -> Nat] /\ closing' \in [Procs -> BOOLEAN]
    BY <1>1 DEF Activate, Clear, TypeOK
  <2>. QED
    BY <1>1, <1>3, <2>1, <2>2 DEF TypeOK
<1>6. \/ /\ main[p] = "published" /\ main'[p] = "owning"
         /\ fence'[p] = lease[p] /\ lease'[p] = lease[p] /\ ~closing'[p]
      \/ /\ main[p] = "clearing" /\ main'[p] = "idle"
         /\ fence'[p] = 0 /\ lease'[p] = 0 /\ ~closing'[p]
  BY <1>1 DEF Activate, Clear, Goto, TypeOK
<1>7. OwnerInv'
  BY <1>1, <1>4, <1>6 DEF OwnerInv, Fenced, InForce
<1>8. TxInv'
  BY <1>1, <1>2, <1>4, TxFacts DEF TxInv
<1>9. SnapInv'
  BY <1>1, <1>4, <1>6, TxFacts DEF SnapInv
<1>10. CountInv'
  BY <1>1, <1>3 DEF CountInv, Inside
<1>. QED
  BY <1>5, <1>7, <1>8, <1>9, <1>10 DEF IInv

LEMMA ReleaseStep ==
  ASSUME IInv, NEW p \in Procs,
         BeginRelease(p) \/ Drained(p) \/ Revoke(p) \/ ReleaseFails(p) \/ Unlock(p)
  PROVE  IInv'
<1>1. /\ TypeOK /\ OwnerInv /\ TxInv /\ CountInv
      /\ UNCHANGED <<lease, fence, count, tx, lost>>
  BY DEF IInv, BeginRelease, Drained, Revoke, ReleaseFails, Unlock, gate
<1>2. epoch' >= epoch /\ epoch' \in Nat
  BY <1>1 DEF BeginRelease, Drained, Revoke, ReleaseFails, Unlock, TypeOK
<1>3. TypeOK'
  BY <1>1, <1>2 DEF BeginRelease, Drained, Revoke, ReleaseFails, Unlock, Goto, Freed, gate,
                    TypeOK, MainSteps
<1>4. \A q \in Procs \ {p} : /\ main'[q] = main[q] /\ session'[q] = session[q]
                             /\ closing'[q] = closing[q]
  BY <1>1 DEF BeginRelease, Drained, Revoke, ReleaseFails, Unlock, Goto, gate, TypeOK
<1>5. main'[p] \in {"owning", "draining"} \/ \A t \in Txs : Proc(t) = p => tx[t].fence = 0
  <2>1. CASE BeginRelease(p)
    BY <1>1, <2>1 DEF BeginRelease, Goto, TypeOK
  <2>2. CASE Drained(p)
    BY <1>1, <2>2, EmptyGate DEF Drained, NoneInside
  <2>3. CASE Revoke(p) \/ ReleaseFails(p) \/ Unlock(p)
    BY <1>1, <2>3 DEF Revoke, ReleaseFails, Unlock, TxInv
  <2>. QED
    BY <2>1, <2>2, <2>3
<1>6. \A t \in Txs : tx[t].fence # 0 => main'[Proc(t)] \in {"owning", "draining"}
  BY <1>1, <1>4, <1>5, TxFacts DEF TxInv
<1>7. OwnerInv'
  <2>1. CASE BeginRelease(p) \/ Drained(p)
    <3>1. /\ UNCHANGED <<epoch, advisory, session>>
          /\ main[p] \in {"owning", "draining"} /\ main'[p] \in {"draining", "revoking"}
          /\ closing'[p]
      BY <1>1, <2>1 DEF BeginRelease, Drained, Goto, gate, TypeOK, OwnerInv, Fenced
    <3>. QED
      BY <1>1, <1>4, <3>1 DEF OwnerInv, Fenced, InForce
  <2>2. CASE Revoke(p)
    <3>1. /\ UNCHANGED <<advisory, session, closing>> /\ session[p] = "open"
          /\ main[p] = "revoking" /\ main'[p] = "unlocking"
      BY <1>1, <2>2 DEF Revoke, Goto, gate, TypeOK
    <3>2. \A q \in Procs \ {p} : session[q] # "open"
      BY <1>1, <3>1 DEF OwnerInv
    <3>3. \A q \in Procs : lease[q] <= epoch => lease[q] <= epoch'
      BY <1>1, <1>2 DEF TypeOK
    <3>. QED
      BY <1>1, <1>4, <3>1, <3>2, <3>3 DEF OwnerInv, Fenced, InForce
  <2>3. CASE ReleaseFails(p) \/ Unlock(p)
    <3>1. /\ UNCHANGED <<epoch, closing>> /\ session'[p] = "none"
          /\ main[p] \in {"revoking", "unlocking"} /\ main'[p] = "clearing"
      BY <1>1, <2>3 DEF ReleaseFails, Unlock, Goto, gate, TypeOK
    <3>2. \A q \in Procs \ {p} : session[q] = "open" => advisory' = advisory
      BY <1>1, <2>3 DEF ReleaseFails, Unlock, OwnerInv, Freed
    <3>. QED
      BY <1>1, <1>4, <3>1, <3>2 DEF OwnerInv, Fenced, InForce
  <2>. QED
    BY <2>1, <2>2, <2>3
<1>. QED
  BY <1>1, <1>2, <1>3, <1>6, <1>7, OwnerMoves

--------------------------------------------------------------------------------
\* Failures

LEMMA CutOffStep == ASSUME IInv, NEW p \in Procs, Break(p) \/ Reap(p) PROVE IInv'
<1>1. /\ TypeOK /\ OwnerInv /\ TxInv
      /\ UNCHANGED <<epoch, main, lease, fence, closing, count, tx>>
  BY DEF IInv, Break, Reap, gate
<1>2. lost \subseteq lost' /\ (Break(p) /\ InForce(p) => lease[p] \in lost')
  BY DEF Break, Reap, Lose
<1>3. TypeOK'
  BY <1>1 DEF Break, Reap, Lose, TypeOK
<1>4. OwnerInv'
  <2>1. CASE Break(p)
    <3>1. /\ advisory' = advisory /\ session'[p] = "broken"
          /\ \A q \in Procs \ {p} : session'[q] = session[q]
      BY <1>1, <2>1 DEF Break, TypeOK
    <3>. QED
      BY <1>1, <1>2, <2>1, <3>1 DEF OwnerInv, Fenced, InForce
  <2>2. CASE Reap(p)
    <3>1. /\ session' = session /\ lost' = lost
          /\ \A q \in Procs : session[q] # "open"
      BY <1>1, <2>2 DEF Reap, OwnerInv
    <3>. QED
      BY <1>1, <3>1 DEF OwnerInv, Fenced, InForce
  <2>. QED
    BY <2>1, <2>2
<1>5. epoch' >= epoch
  BY <1>1 DEF TypeOK
<1>. QED
  BY <1>1, <1>3, <1>4, <1>5, OwnerMoves DEF TxInv

LEMMA KillStep == ASSUME IInv, NEW p \in Procs, Kill(p) PROVE IInv'
<1>1. /\ TypeOK /\ OwnerInv /\ TxInv /\ SnapInv /\ CountInv
      /\ UNCHANGED <<epoch, advisory>> /\ lost \subseteq lost'
      /\ tx' = [t \in Txs |-> IF Proc(t) = p THEN Out ELSE tx[t]]
  BY DEF IInv, Kill, Lose
<1>2. /\ session'[p] = "none" /\ main'[p] = "idle" /\ lease'[p] = 0 /\ fence'[p] = 0
      /\ ~closing'[p] /\ count'[p] = 0
  BY <1>1 DEF Kill, Goto, TypeOK
<1>3. \A q \in Procs \ {p} :
        /\ session'[q] = session[q] /\ main'[q] = main[q] /\ lease'[q] = lease[q]
        /\ fence'[q] = fence[q] /\ closing'[q] = closing[q] /\ count'[q] = count[q]
  BY <1>1 DEF Kill, Goto, TypeOK
<1>4. \A t \in Txs : \/ Proc(t) = p /\ tx'[t] = Out
                     \/ Proc(t) \in Procs \ {p} /\ tx'[t] = tx[t]
  BY <1>1, TxFacts
<1>5. TypeOK'
  <2>1. tx' \in [Txs -> TxRecords]
    BY <1>1, <1>4, OutFacts DEF TypeOK
  <2>2. lost' \subseteq Nat
    BY <1>1 DEF Kill, Lose, TypeOK
  <2>. QED
    BY <1>1, <2>1, <2>2 DEF Kill, Goto, TypeOK, MainSteps
<1>6. OwnerInv'
  BY <1>1, <1>2, <1>3 DEF OwnerInv, Fenced, InForce
<1>7. TxInv'
  BY <1>1, <1>3, <1>4, OutFacts DEF TxInv
<1>8. SnapInv'
  <2>1. 0 <= epoch'
    BY <1>1 DEF TypeOK
  <2>. QED
    BY <1>1, <1>3, <1>4, <2>1, OutFacts DEF SnapInv
<1>9. CountInv'
  <2>1. Inside(p)' = {}
    BY <1>4, TxFacts, OutFacts DEF Inside
  <2>2. \A q \in Procs \ {p} : Inside(q)' = Inside(q)
    BY <1>4, TxFacts DEF Inside
  <2>. QED
    BY <1>1, <1>2, <1>3, <2>1, <2>2, FS_EmptySet DEF CountInv
<1>. QED
  BY <1>5, <1>6, <1>7, <1>8, <1>9 DEF IInv

--------------------------------------------------------------------------------
\* The inductive invariant across every step.
LEMMA NextStep == IInv /\ [Next]_vars => IInv'
<1>1. IInv /\ UNCHANGED vars => IInv'
  BY DEF vars, IInv, TypeOK, OwnerInv, InForce, TxInv, SnapInv, CountInv, Inside
<1>. QED
  BY <1>1, AcquireStep, PublishStep, GateStep, ReleaseStep, CutOffStep, KillStep,
     TransactionStep DEF Next, Owner, Failure

\* The inductive invariant holds throughout every behaviour.
THEOREM FenceInvariance == Spec => []IInv
BY InitIInv, NextStep, PTL DEF Spec

LEMMA FenceSafety == IInv => TypeOK /\ HandedOverIdle /\ ExternalInsideGate
<1>. SUFFICES ASSUME IInv PROVE TypeOK /\ HandedOverIdle /\ ExternalInsideGate
  OBVIOUS
<1>1. HandedOverIdle
  <2>. SUFFICES ASSUME NEW t \in Txs, Open(t)
                PROVE  \/ tx[t].fence \in lost
                       \/ advisory = Proc(t) /\ epoch = tx[t].fence
    BY DEF HandedOverIdle
  <2>1. /\ Proc(t) \in Procs /\ tx[t].fence = fence[Proc(t)]
        /\ main[Proc(t)] \in {"owning", "draining"}
    BY TxFacts DEF IInv, TxInv, Open
  <2>2. fence[Proc(t)] = lease[Proc(t)] /\ InForce(Proc(t))
    BY <2>1 DEF IInv, OwnerInv, Fenced, InForce
  <2>. QED
    BY <2>1, <2>2 DEF IInv, OwnerInv
<1>2. ExternalInsideGate
  BY DEF IInv, TxInv, SnapInv, ExternalInsideGate
<1>. QED
  BY <1>1, <1>2 DEF IInv

\* Types are preserved (autonomous_owner.py, database.py).
THEOREM FenceTypes == Spec => []TypeOK
BY FenceInvariance, FenceSafety, PTL

\* Ownership changes hands only when no transaction is open under an owner
\* that was not cut off (Database.drain_autonomous_fence).
THEOREM HandOver == Spec => []HandedOverIdle
BY FenceInvariance, FenceSafety, PTL

\* A broker operation stays inside the gate it entered by
\* (Database.autonomous_external_operation).
THEOREM ExternalOperations == Spec => []ExternalInsideGate
BY FenceInvariance, FenceSafety, PTL

LEMMA FinishStep ==
  IInv /\ [Next]_vars =>
    \A t \in Txs :
      tx[t].fence # 0 /\ tx[t].step = "body" /\ tx'[t].step = "final" =>
        advisory = Proc(t) /\ epoch = tx[t].fence
<1>. SUFFICES ASSUME IInv, [Next]_vars, NEW t \in Txs,
                     tx[t].fence # 0, tx[t].step = "body", tx'[t].step = "final"
              PROVE  advisory = Proc(t) /\ epoch = tx[t].fence
  OBVIOUS
<1>1. tx \in [Txs -> TxRecords]
  BY DEF IInv, TypeOK
<1>2. Finish(t)
  <2>1. CASE \E p \in Procs : Kill(p)
    BY <2>1, OutFacts DEF Kill
  <2>2. CASE UNCHANGED tx
    BY <2>2
  <2>3. ASSUME NEW u \in Txs, Transaction(u) PROVE Finish(t)
    <3>1. CASE u # t
      <4>1. tx'[t] = tx[t]
        BY <1>1, <2>3, <3>1 DEF Transaction, Snapshot, Enter, EnterUnfenced,
               ValidateSession, CheckRow, Begin, Finish, Commit, Rollback, Leave
      <4>. QED
        BY <4>1
    <3>2. CASE u = t
      BY <1>1, <2>3, <3>2, OutFacts DEF Transaction, Snapshot, Enter, EnterUnfenced,
             ValidateSession, CheckRow, Begin, Commit, Rollback, Leave
    <3>. QED
      BY <3>1, <3>2
  <2>4. ASSUME NEW p \in Procs, Owner(p) \/ Break(p) \/ Reap(p) PROVE UNCHANGED tx
    BY <2>4 DEF Owner, TryLock, Publish, AcquireFails, Activate, BeginRelease, Drained,
           Revoke, ReleaseFails, Unlock, Clear, EndMaintenance, Break, Reap
  <2>. QED
    BY <2>1, <2>2, <2>3, <2>4 DEF Next, Failure, vars
<1>3. session[Proc(t)] = "open" /\ advisory = Proc(t)
  BY <1>2 DEF Finish, SessionHolds
<1>4. /\ Proc(t) \in Procs /\ tx[t].fence = fence[Proc(t)]
      /\ main[Proc(t)] \in {"owning", "draining"}
  BY TxFacts DEF IInv, TxInv
<1>5. fence[Proc(t)] = lease[Proc(t)] /\ InForce(Proc(t))
  BY <1>4 DEF IInv, OwnerInv, Fenced, InForce
<1>. QED
  BY <1>3, <1>4, <1>5 DEF IInv, OwnerInv

\* What passes the validation before its commit was written under the epoch in
\* force (Database.connect).
THEOREM FinishedIsCurrent == Spec => FinishedCurrent
BY FenceInvariance, FinishStep, PTL DEF Spec, FinishedCurrent

================================================================================
