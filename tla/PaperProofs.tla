----------------------------- MODULE PaperProofs -----------------------------
(***************************************************************************)
(* Proofs about MCPaper.  The Paper lane, for any number of intents and    *)
(* generations and any lot, at a broker that fills orders in full, in part *)
(* or not at all: one order can be live, settled intents say what the      *)
(* broker did, the books agree and a completed drain stays true while no   *)
(* partial fill was misjudged, and an order is placed under the            *)
(* authorization that permitted it.  The host's lease, for any number of   *)
(* processes and reboots.  The mutation lease, for any hosts, research     *)
(* processes and tokens.  Last, what the run of all three checks.          *)
(***************************************************************************)
EXTENDS MCPaper, FiniteSetTheorems, TLAPS

--------------------------------------------------------------------------------
\* The Paper lane

Mutating == {"prepared", "waiting", "failed", "committing"}
Running == {"starting", "admitted", "placed"}
Sent == {"dispatching", "manual_review"}

\* Whoever changes the account or its authorization has the mutation lease; an
\* authorization that is about to be enabled permits nothing.
LeaseInv ==
  /\ research.step \in Mutating => lease = "research"
  /\ host \in {"revoke", "withdraw", "restrict"} =>
       lease = "host" /\ auth.gen \in 1..(MaxGeneration - 1)
  /\ host = "enable" => ~auth.enabled /\ auth.gen \in 0..(MaxGeneration - 1)

\* No order was placed for the intent, and no child is left that could.
Unsent(i) == order[i] = "none" /\ child = NoChild

\* What each step of the research process knows of its intent: no other one is
\* unresolved, and outside a mutation none has a child or an order.
WorkInv ==
  /\ research.step \in Mutating =>
       Current \in Intents /\ \A i \in Intents : Active(i) => i = Current
  /\ research.step = "prepared" => row[Current].state = "prepared"
  /\ research.step = "waiting" => row[Current].state = "dispatching"
  /\ research.step = "failed" =>
       row[Current].state \in {"dispatching", "broker_filled", "broker_not_filled"}
  /\ research.step = "committing" => row[Current].state = "broker_filled"
  /\ research.step \in {"idle", "monitoring"} =>
       \A i \in Intents : Active(i) => Unsent(i)
  /\ research.step \in {"prepared", "waiting"} => Authorized(row[Current].op, research.gen)

\* A child works on an intent nobody has settled, an orphan included; until it
\* places the order there is none, and the answer of a child is true.
ChildInv ==
  /\ child.step = "none" => child = NoChild
  /\ child.step = "ended" => Waiting
  /\ Waiting => child.step # "none" /\ child.intent = Current /\ child.gen = research.gen
  /\ child.step \in Running => child.intent \in Intents /\ row[child.intent].state \in Sent
  /\ child.step \in {"starting", "admitted"} => order[child.intent] = "none"
  /\ child.step = "ended" =>
       /\ child.result # "none"
       /\ child.result = "filled" => order[child.intent] = "filled"
       /\ child.result = "not_filled" => order[child.intent] \in {"cancelled", "partial"}

\* One intent is unresolved at a time, and only a dispatched one has an order.
RowInv ==
  /\ \A i, j \in Intents : Active(i) /\ Active(j) => i = j
  /\ \A i \in Intents :
       /\ row[i].op = "none" <=> row[i].state = "none"
       /\ row[i].state \in {"none", "prepared"} => order[i] = "none"
       /\ order[i] = "live" => row[i].state \in Sent

\* Only the order of an unresolved intent sets the two positions apart, and a partial
\* fill that was misjudged.
PositionInv ==
  /\ \A i \in Intents : Active(i) => local = Before(row[i].op)
  /\ WellJudged =>
       /\ Quiet => held = local
       /\ \A i \in Intents : Active(i) /\ order[i] # "partial" =>
            held = IF order[i] = "filled" THEN After(row[i].op) ELSE Before(row[i].op)

\* After a completed drain nothing is held and nothing can be dispatched while its
\* generation lasts.
Drained == auth.closeOnly /\ auth.gen # 0 /\ drain[auth.gen] = "completed"
DrainInv ==
  /\ \A g \in Generations : g > auth.gen => drain[g] # "completed"
  /\ research.drain <= auth.gen
  /\ Drained =>
       /\ local = 0
       /\ research.step # "prepared"
       /\ \A i \in Intents : Active(i) => Unsent(i)

IInv ==
  /\ TypeOK /\ LeaseInv /\ WorkInv /\ ChildInv
  /\ RowInv /\ IntentsTruthful /\ PositionInv /\ DrainInv

--------------------------------------------------------------------------------

\* The types of the records.
Steps == {"down", "recovering", "idle", "monitoring", "prepared", "waiting", "failed",
          "committing"}
Authorizations == [gen : 0..MaxGeneration, enabled : BOOLEAN, closeOnly : BOOLEAN]
Researches == [step : Steps, gen : 0..MaxGeneration, intent : {0} \cup Intents,
               drain : 0..MaxGeneration]
Children == [step : {"none", "starting", "admitted", "placed", "ended"},
             intent : {0} \cup Intents, gen : 0..MaxGeneration,
             result : {"none", "filled", "not_filled", "error"}]
Rows == [op : {"none", "open", "close"},
         state : {"none", "broker_not_filled", "local_committed", "abandoned"} \cup Unresolved]

LEMMA AuthType == IInv => auth \in Authorizations
BY DEF IInv, TypeOK, Authorizations

LEMMA ResearchType ==
  ASSUME PaperAssumption, IInv
  PROVE  research \in Researches /\ 0 \in 0..MaxGeneration
BY DEF PaperAssumption, IInv, TypeOK, Researches, Steps

LEMMA ChildType ==
  ASSUME PaperAssumption, IInv
  PROVE  child \in Children /\ 0 \in 0..MaxGeneration
BY DEF PaperAssumption, IInv, TypeOK, Children

LEMMA RowType == IInv => row \in [Intents -> Rows]
BY DEF IInv, TypeOK, Rows

\* What each part of the invariant depends on.
LEMMA Frames ==
  ASSUME IInv
  PROVE  /\ UNCHANGED <<lease, research, host, auth>> => LeaseInv'
         /\ UNCHANGED <<research, row, auth, order, child>> => WorkInv'
         /\ UNCHANGED <<child, research, row, order>> => ChildInv'
         /\ UNCHANGED <<row, order>> => RowInv'
         /\ UNCHANGED <<row, order, child>> => IntentsTruthful'
         /\ UNCHANGED <<row, order, held, local>> => PositionInv'
         /\ UNCHANGED <<auth, drain, research, row, local, order, child>> => DrainInv'
BY DEF IInv, LeaseInv, WorkInv, ChildInv, RowInv, IntentsTruthful, PositionInv, DrainInv,
   Drained, Waiting, Current, Active, Quiet, Authorized, Unsent, WellJudged, Misjudged

\* While a child works or an order is open nothing was drained and the research process
\* is in a mutation or gone, so neither part depends on the child or its order.
LEMMA BusyFrames ==
  ASSUME IInv, child.step \in Running \/ \E i \in Intents : order[i] = "live"
  PROVE  /\ UNCHANGED <<research, row, auth>> => WorkInv'
         /\ UNCHANGED <<auth, drain, research, row, local>> => DrainInv'
<1>1. \E i \in Intents : Active(i) /\ ~Unsent(i)
  BY DEF IInv, ChildInv, RowInv, Running, Sent, Active, Unresolved, Unsent, NoChild
<1>2. research.step \notin {"idle", "monitoring"} /\ ~Drained
  BY <1>1 DEF IInv, WorkInv, DrainInv
<1>. QED
  BY <1>2 DEF IInv, WorkInv, DrainInv, Drained, Current, Active, Authorized

--------------------------------------------------------------------------------
LEMMA BeginRevokeStep ==
  ASSUME PaperAssumption, IInv, BeginRevoke
  PROVE  IInv'
<1>1. TypeOK'
  BY DEF BeginRevoke, broker, books, IInv, TypeOK
<1>2. LeaseInv'
  BY DEF BeginRevoke, Takeable, IInv, LeaseInv
<1>. QED
  BY <1>1, <1>2, Frames DEF BeginRevoke, IInv, broker, books

LEMMA SurveyForRevokeStep ==
  ASSUME PaperAssumption, IInv, SurveyForRevoke
  PROVE  IInv'
<1>1. TypeOK'
  BY DEF SurveyForRevoke, broker, books, IInv, TypeOK
<1>2. LeaseInv'
  BY DEF SurveyForRevoke, IInv, LeaseInv
<1>. QED
  BY <1>1, <1>2, Frames DEF SurveyForRevoke, IInv, broker, books

LEMMA WriteRevokeStep ==
  ASSUME PaperAssumption, IInv, WriteRevoke
  PROVE  IInv'
<1>1. auth' \in Authorizations
  <2>1. auth.gen + 1 \in 0..MaxGeneration
    BY AuthType DEF WriteRevoke, IInv, LeaseInv, PaperAssumption
  <2>2. (host = "restrict") \in BOOLEAN
    OBVIOUS
  <2>. QED
    BY <2>1, <2>2 DEF WriteRevoke, Authorizations
<1>2. TypeOK'
  BY <1>1 DEF WriteRevoke, broker, books, IInv, TypeOK, Authorizations
<1>3. LeaseInv'
  BY DEF WriteRevoke, IInv, LeaseInv
<1>4. WorkInv'
  BY DEF WriteRevoke, books, IInv, WorkInv, Mutating, Active, LeaseInv, Unsent, broker
<1>5. DrainInv'
  <2>1. auth.gen \in 0..MaxGeneration /\ auth'.gen = auth.gen + 1
    BY AuthType DEF WriteRevoke, Authorizations, Unsent, broker
  <2>2. auth'.gen \in Generations
    BY <2>1, AuthType DEF WriteRevoke, IInv, LeaseInv, Generations, PaperAssumption,
       Unsent, broker
  <2>3. \A g \in Generations : g > auth.gen => drain[g] # "completed"
    BY DEF IInv, DrainInv, Unsent, broker
  <2>4. \A g \in Generations : g > auth'.gen => drain[g] # "completed"
    BY <2>1, <2>3 DEF Generations, Unsent, broker
  <2>5. ~Drained'
    BY <2>1, <2>2, <2>3 DEF Drained, WriteRevoke, books, Unsent, broker
  <2>6. research.drain <= auth'.gen
    BY <2>1, ResearchType DEF IInv, DrainInv, Researches, Unsent, broker
  <2>. QED
    BY <2>4, <2>5, <2>6 DEF DrainInv, WriteRevoke, books, Unsent, broker
<1>. QED
  BY <1>1, <1>2, <1>3, <1>4, <1>5, Frames DEF WriteRevoke, IInv, broker, books

LEMMA RevokeFailsStep ==
  ASSUME PaperAssumption, IInv, RevokeFails
  PROVE  IInv'
<1>1. TypeOK'
  BY DEF RevokeFails, broker, books, IInv, TypeOK
<1>2. LeaseInv'
  BY DEF RevokeFails, IInv, LeaseInv
<1>. QED
  BY <1>1, <1>2, Frames DEF RevokeFails, IInv, broker, books

LEMMA BeginEnableStep ==
  ASSUME PaperAssumption, IInv, BeginEnable
  PROVE  IInv'
<1>1. TypeOK'
  BY DEF BeginEnable, broker, books, IInv, TypeOK
<1>2. LeaseInv'
  BY DEF BeginEnable, PaperAssumption, IInv, LeaseInv, TypeOK
<1>. QED
  BY <1>1, <1>2, Frames DEF BeginEnable, IInv, broker, books

LEMMA WriteEnableStep ==
  ASSUME PaperAssumption, IInv, WriteEnable
  PROVE  IInv'
<1>1. auth' \in Authorizations
  <2>1. auth.gen + 1 \in 0..MaxGeneration
    BY AuthType DEF WriteEnable, IInv, LeaseInv, PaperAssumption
  <2>. QED
    BY <2>1 DEF WriteEnable, Authorizations
<1>2. TypeOK'
  BY <1>1 DEF WriteEnable, broker, books, IInv, TypeOK, Authorizations
<1>3. LeaseInv'
  BY DEF WriteEnable, IInv, LeaseInv
<1>4. WorkInv'
  BY DEF WriteEnable, books, IInv, WorkInv, Current, Active, Authorized, LeaseInv,
     Unsent, broker
<1>5. DrainInv'
  BY DEF WriteEnable, books, IInv, DrainInv, Drained, Generations, TypeOK, Unsent,
     broker
<1>. QED
  BY <1>1, <1>2, <1>3, <1>4, <1>5, Frames DEF WriteEnable, IInv, broker, books

LEMMA HostDiesStep ==
  ASSUME PaperAssumption, IInv, HostDies
  PROVE  IInv'
<1>1. TypeOK'
  BY DEF HostDies, broker, books, IInv, TypeOK
<1>2. LeaseInv'
  BY DEF HostDies, IInv, LeaseInv
<1>. QED
  BY <1>1, <1>2, Frames DEF HostDies, IInv, broker, books

LEMMA StartStep ==
  ASSUME PaperAssumption, IInv, Start
  PROVE  IInv'
<1>1. research' \in Researches
  <2>1. PICK gen \in 0..MaxGeneration :
                research' = [Down EXCEPT !.step = "recovering", !.gen = gen]
    BY AuthType, ResearchType DEF Start, Authorizations, Researches
  <2>. QED
    BY <2>1, ResearchType DEF Down, Researches, Steps
<1>2. TypeOK'
  BY <1>1 DEF Start, broker, books, IInv, TypeOK, Researches, Steps
<1>3. LeaseInv'
  BY DEF Start, IInv, LeaseInv, Mutating
<1>4. WorkInv'
  BY DEF Start, WorkInv, Mutating, Unsent, broker
<1>5. ChildInv'
  BY DEF Start, broker, books, IInv, ChildInv, Waiting
<1>6. DrainInv'
  BY DEF Start, Down, books, IInv, DrainInv, Drained, Active, TypeOK, Unsent, broker
<1>. QED
  BY <1>1, <1>2, <1>3, <1>4, <1>5, <1>6, Frames DEF Start, IInv, broker, books

LEMMA RecoverPreparedStep ==
  ASSUME PaperAssumption, IInv, RecoverPrepared
  PROVE  IInv'
<1>1. row' \in [Intents -> Rows]
  BY RowType DEF RecoverPrepared, Moved, Rows
<1>2. TypeOK'
  BY <1>1 DEF RecoverPrepared, broker, IInv, TypeOK, Rows
<1>3. LeaseInv'
  BY DEF RecoverPrepared, Takeable, IInv, LeaseInv
<1>4. WorkInv'
  BY DEF RecoverPrepared, WorkInv, Mutating, Unsent, broker
<1>5. ChildInv'
  BY DEF RecoverPrepared, Moved, broker, IInv, ChildInv, Sent, Waiting
<1>6. RowInv'
  BY DEF RecoverPrepared, Moved, broker, IInv, RowInv, Active, Unresolved
<1>7. IntentsTruthful'
  BY DEF RecoverPrepared, Moved, broker, IInv, IntentsTruthful, NoChild, TypeOK,
     Intents, ChildInv, Running, Sent, RowInv
<1>8. PositionInv'
  BY DEF RecoverPrepared, Moved, broker, IInv, PositionInv, Active, Unresolved, RowInv,
     WellJudged, Misjudged
<1>9. DrainInv'
  BY DEF RecoverPrepared, Moved, IInv, DrainInv, Drained, Active, Unresolved, Unsent,
     broker
<1>. QED
  BY <1>1, <1>2, <1>3, <1>4, <1>5, <1>6, <1>7, <1>8, <1>9, Frames DEF RecoverPrepared,
     IInv

LEMMA RecoverDispatchedStep ==
  ASSUME PaperAssumption, IInv, RecoverDispatched
  PROVE  IInv'
<1>1. row' \in [Intents -> Rows]
  BY RowType DEF RecoverDispatched, Moved, Settled, ResultState, Rows, Unresolved
<1>2. TypeOK'
  BY <1>1 DEF RecoverDispatched, broker, IInv, TypeOK, Rows
<1>3. LeaseInv'
  BY DEF RecoverDispatched, Takeable, IInv, LeaseInv
<1>4. WorkInv'
  BY DEF RecoverDispatched, WorkInv, Mutating, Unsent, broker
<1>5. ChildInv'
  BY DEF RecoverDispatched, Owned, Moved, Settled, Proven, broker, IInv, ChildInv,
     Running, Sent, Waiting
<1>6. RowInv'
  BY DEF RecoverDispatched, Moved, Settled, Proven, ResultState, broker, IInv, RowInv,
     Active, Unresolved, Sent
<1>7. IntentsTruthful'
  BY DEF RecoverDispatched, Owned, Moved, Settled, Proven, ResultState, broker, IInv,
     IntentsTruthful, NoChild, TypeOK, Intents, ChildInv
<1>8. PositionInv'
  <2>1. PICK i \in Intents : row[i].state = "dispatching" /\ row' = Settled(i)
    BY DEF RecoverDispatched
  <2>2. Active(i) /\ \A j \in Intents : Active(j) => j = i
    BY <2>1 DEF IInv, RowInv, Active, Unresolved
  <2>3. /\ \A j \in Intents : row'[j].op = row[j].op /\ (j # i => row'[j] = row[j])
        /\ row'[i].state = IF Proven(i) = "unresolved" THEN "manual_review"
                           ELSE ResultState(Proven(i))
    BY <2>1, RowType DEF Settled, Moved, Rows
  <2>4. /\ Proven(i) = "filled" => order[i] = "filled"
        /\ Proven(i) = "not_filled" => order[i] = "cancelled"
        /\ Proven(i) \in {"filled", "not_filled", "unresolved"}
    BY DEF Proven
  <2>5. WellJudged' => WellJudged
    BY <2>1, <2>3 DEF RecoverDispatched, broker, WellJudged, Misjudged
  <2>6. \A j \in Intents : Active(j)' => j = i
    BY <2>2, <2>3 DEF Active
  <2>7. CASE Proven(i) = "not_filled"
    <3>1. ~Active(i)'
      BY <2>3, <2>7 DEF Active, Unresolved, ResultState
    <3>. QED
      BY <2>2, <2>4, <2>5, <2>6, <2>7, <3>1 DEF RecoverDispatched, broker, IInv,
         PositionInv, Quiet
  <2>8. CASE Proven(i) # "not_filled"
    <3>1. Active(i)'
      BY <2>3, <2>4, <2>8 DEF Active, Unresolved, ResultState
    <3>. QED
      BY <2>2, <2>3, <2>5, <2>6, <3>1 DEF RecoverDispatched, broker, IInv, PositionInv,
         Quiet
  <2>. QED
    BY <2>7, <2>8
<1>9. DrainInv'
  <2>1. \A i \in Intents : Active(i)' => Active(i)
    BY RowType DEF RecoverDispatched, Settled, Moved, Active, Unresolved, Rows
  <2>. QED
    BY <2>1 DEF RecoverDispatched, broker, IInv, DrainInv, Drained, Unsent
<1>. QED
  BY <1>1, <1>2, <1>3, <1>4, <1>5, <1>6, <1>7, <1>8, <1>9, Frames DEF
     RecoverDispatched, IInv

LEMMA RecoverFilledStep ==
  ASSUME PaperAssumption, IInv, RecoverFilled
  PROVE  IInv'
<1>1. row' \in [Intents -> Rows]
  BY RowType DEF RecoverFilled, Moved, Committed, Rows
<1>2. TypeOK'
  BY <1>1 DEF RecoverFilled, Committed, broker, PaperAssumption, IInv, TypeOK, Before,
     After, Rows
<1>3. LeaseInv'
  BY DEF RecoverFilled, Takeable, IInv, LeaseInv
<1>4. WorkInv'
  BY DEF RecoverFilled, WorkInv, Mutating, Unsent, broker
<1>5. ChildInv'
  BY DEF RecoverFilled, Moved, Committed, broker, IInv, ChildInv, Sent, Waiting
<1>6. RowInv'
  BY DEF RecoverFilled, Moved, Committed, broker, IInv, RowInv, Active, Unresolved,
     Sent
<1>7. IntentsTruthful'
  BY DEF RecoverFilled, Moved, Committed, broker, IInv, IntentsTruthful
<1>8. PositionInv'
  <2>1. PICK i \in Intents : row[i].state = "broker_filled" /\ Committed(i)
    BY DEF RecoverFilled
  <2>2. order[i] = "filled" /\ Active(i) /\ \A j \in Intents : Active(j) => j = i
    BY <2>1 DEF IInv, IntentsTruthful, RowInv, Active, Unresolved
  <2>3. \A j \in Intents : ~Active(j)'
    BY <2>1, <2>2, RowType DEF Committed, Moved, Active, Unresolved, Rows
  <2>4. WellJudged' => WellJudged
    BY <2>1, <2>2, RowType DEF RecoverFilled, Committed, Moved, broker, WellJudged, Misjudged,
       Rows
  <2>5. WellJudged => held = After(row[i].op)
    BY <2>2 DEF IInv, PositionInv
  <2>. QED
    BY <2>1, <2>3, <2>4, <2>5 DEF RecoverFilled, Committed, broker, PositionInv, Quiet
<1>9. DrainInv'
  <2>1. \E i \in Intents : Active(i) /\ ~Unsent(i)
    BY DEF RecoverFilled, IInv, IntentsTruthful, Active, Unresolved, Unsent
  <2>2. ~Drained
    BY <2>1 DEF IInv, DrainInv
  <2>. QED
    BY <2>2 DEF RecoverFilled, IInv, DrainInv, Drained
<1>. QED
  BY <1>1, <1>2, <1>3, <1>4, <1>5, <1>6, <1>7, <1>8, <1>9, Frames DEF RecoverFilled,
     IInv

LEMMA ReadyStep ==
  ASSUME PaperAssumption, IInv, Ready
  PROVE  IInv'
<1>1. research' \in Researches
  BY ResearchType DEF Ready, Researches, Steps
<1>2. TypeOK'
  BY <1>1 DEF Ready, broker, books, IInv, TypeOK
<1>3. LeaseInv'
  BY DEF Ready, IInv, LeaseInv, Mutating
<1>4. WorkInv'
  BY DEF Ready, Quiet, books, WorkInv, Mutating, Active, Unsent, broker
<1>5. ChildInv'
  BY DEF Ready, broker, books, IInv, ChildInv, Waiting
<1>6. DrainInv'
  BY DEF Ready, books, IInv, DrainInv, Drained, Active, Unsent, broker
<1>. QED
  BY <1>1, <1>2, <1>3, <1>4, <1>5, <1>6, Frames DEF Ready, IInv, broker, books

LEMMA StartFailsStep ==
  ASSUME PaperAssumption, IInv, StartFails
  PROVE  IInv'
<1>1. research' \in Researches
  BY ResearchType DEF StartFails, Down, Researches, Steps
<1>2. TypeOK'
  BY <1>1 DEF StartFails, broker, books, IInv, TypeOK, Researches, Steps
<1>3. LeaseInv'
  BY DEF StartFails, Down, IInv, LeaseInv, Mutating
<1>4. WorkInv'
  BY DEF StartFails, Down, WorkInv, Mutating, Unsent, broker
<1>5. ChildInv'
  BY DEF StartFails, Down, broker, books, IInv, ChildInv, Waiting
<1>6. DrainInv'
  BY DEF StartFails, Down, books, IInv, DrainInv, Drained, Active, TypeOK, Unsent,
     broker
<1>. QED
  BY <1>1, <1>2, <1>3, <1>4, <1>5, <1>6, Frames DEF StartFails, IInv, broker, books

LEMMA PrepareStep ==
  ASSUME PaperAssumption, NEW op \in {"open", "close"}, IInv, Prepare(op)
  PROVE  IInv'
<1>1. research' \in Researches
  BY ResearchType DEF Prepare, Researches, Steps
<1>2. row' \in [Intents -> Rows]
  BY RowType DEF Prepare, Rows, Unresolved
<1>3. TypeOK'
  BY <1>1, <1>2, ZenonT(40) DEF Prepare, broker, IInv, TypeOK, Rows
<1>4. LeaseInv'
  BY DEF Prepare, Takeable, IInv, LeaseInv
<1>5. WorkInv'
  BY DEF Prepare, Quiet, IInv, WorkInv, Current, Active, Authorized, TypeOK, Unsent,
     broker
<1>6. ChildInv'
  BY DEF Prepare, broker, IInv, ChildInv, Sent, Waiting, NoRow
<1>7. RowInv'
  BY DEF Prepare, Quiet, broker, IInv, RowInv, Active, NoRow
<1>8. IntentsTruthful'
  BY DEF Prepare, broker, IInv, IntentsTruthful
<1>9. PositionInv'
  BY DEF Prepare, broker, IInv, PositionInv, Active, NoRow, RowInv, WellJudged,
     Misjudged
<1>10. DrainInv'
  BY DEF Prepare, PaperAssumption, IInv, DrainInv, Drained, Authorized, Before, Unsent,
     broker
<1>. QED
  BY <1>1, <1>2, <1>3, <1>4, <1>5, <1>6, <1>7, <1>8, <1>9, <1>10, Frames DEF Prepare,
     IInv

LEMMA DispatchStep ==
  ASSUME PaperAssumption, IInv, Dispatch
  PROVE  IInv'
<1>1. research' \in Researches
  BY ResearchType DEF Dispatch, Researches, Steps
<1>2. child' \in Children
  <2>1. Current \in {0} \cup Intents /\ research.gen \in 0..MaxGeneration
    BY ResearchType DEF Researches, Current
  <2>. QED
    BY <2>1 DEF Dispatch, Children
<1>3. row' \in [Intents -> Rows]
  BY RowType DEF Dispatch, Moved, Rows, Unresolved
<1>4. TypeOK'
  BY <1>1, <1>2, <1>3 DEF Dispatch, broker, IInv, TypeOK, Children, Rows
<1>5. LeaseInv'
  BY DEF Dispatch, IInv, LeaseInv, Mutating
<1>6. WorkInv'
  BY DEF Dispatch, Moved, IInv, WorkInv, Mutating, Current, Active, Authorized, TypeOK,
     Unsent, broker
<1>7. ChildInv'
  BY DEF Dispatch, Moved, broker, IInv, ChildInv, Sent, Current, TypeOK, Mutating,
     WorkInv, RowInv
<1>8. RowInv'
  BY DEF Dispatch, Moved, broker, IInv, RowInv, Active, Mutating, WorkInv
<1>9. IntentsTruthful'
  BY DEF Dispatch, Moved, broker, IInv, IntentsTruthful, TypeOK
<1>10. PositionInv'
  BY DEF Dispatch, Moved, broker, IInv, PositionInv, Active, Unresolved, Mutating,
     WorkInv, RowInv, WellJudged, Misjudged
<1>11. DrainInv'
  BY DEF Dispatch, IInv, DrainInv, Drained, Unsent, broker
<1>. QED
  BY <1>1, <1>2, <1>3, <1>4, <1>5, <1>6, <1>7, <1>8, <1>9, <1>10, <1>11, Frames DEF
     Dispatch, IInv

\* When an intent is prepared no child is left, and only it is unresolved.
LEMMA PreparedAlone ==
  ASSUME IInv, research.step = "prepared"
  PROVE  /\ child = NoChild
         /\ Current \in Intents /\ row[Current].state = "prepared" /\ order[Current] = "none"
         /\ \A i \in Intents : Active(i) => i = Current
<1>1. /\ Current \in Intents /\ row[Current].state = "prepared" /\ order[Current] = "none"
      /\ \A i \in Intents : Active(i) => i = Current
  BY DEF IInv, WorkInv, RowInv, Mutating
<1>2. child.step \in {"none", "ended"} \cup Running
  BY DEF IInv, TypeOK, Running
<1>3. child.step # "ended"
  BY DEF IInv, ChildInv, Waiting
<1>4. child.step \notin Running
  BY <1>1 DEF IInv, ChildInv, Active, Unresolved, Sent
<1>. QED
  BY <1>1, <1>2, <1>3, <1>4 DEF IInv, ChildInv

LEMMA DispatchFailsStep ==
  ASSUME PaperAssumption, IInv, DispatchFails
  PROVE  IInv'
<1>1. research' \in Researches
  BY ResearchType DEF DispatchFails, Resumed, Researches, Steps
<1>2. row' \in [Intents -> Rows]
  BY RowType DEF DispatchFails, Moved, Rows, Unresolved
<1>3. /\ child = NoChild /\ order[Current] = "none" /\ row[Current].state = "prepared"
      /\ Current \in Intents /\ \A i \in Intents : Active(i) => i = Current
  BY PreparedAlone DEF DispatchFails
<1>4. \A i \in Intents : /\ Active(i)' <=> Active(i)
                         /\ row'[i].op = row[i].op
                         /\ i # Current => row'[i] = row[i]
  BY <1>3, RowType DEF DispatchFails, Moved, Active, Unresolved, Rows
<1>5. row'[Current].state \in {"prepared", "dispatching"}
  BY <1>3, RowType DEF DispatchFails, Moved, Rows
<1>6. TypeOK'
  BY <1>1, <1>2 DEF DispatchFails, broker, IInv, TypeOK, Rows, Researches, Steps
<1>7. LeaseInv'
  BY DEF DispatchFails, Resumed, IInv, LeaseInv, Mutating
<1>8. WorkInv'
  BY <1>3, <1>4 DEF DispatchFails, Resumed, broker, WorkInv, Mutating, Unsent
<1>9. ChildInv'
  BY <1>3 DEF DispatchFails, Resumed, IInv, ChildInv, Waiting, NoChild, Running
<1>10. RowInv'
  BY <1>3, <1>4, <1>5 DEF DispatchFails, broker, IInv, RowInv, Sent
<1>11. IntentsTruthful'
  BY <1>3, <1>4, <1>5 DEF DispatchFails, broker, IInv, IntentsTruthful
<1>12. PositionInv'
  BY <1>3, <1>4, <1>5 DEF DispatchFails, broker, IInv, PositionInv, WellJudged, Misjudged,
     Quiet
<1>13. DrainInv'
  BY DEF DispatchFails, IInv, DrainInv, Drained
<1>. QED
  BY <1>6, <1>7, <1>8, <1>9, <1>10, <1>11, <1>12, <1>13 DEF IInv

LEMMA TakeResultStep ==
  ASSUME PaperAssumption, IInv, TakeResult
  PROVE  IInv'
<1>1. research' \in Researches
  BY ResearchType DEF TakeResult, Recorded, Resumed, Researches, Steps
<1>2. child' \in Children
  BY ChildType DEF TakeResult, NoChild, Children
<1>3. row' \in [Intents -> Rows]
  BY RowType, ZenonT(40) DEF TakeResult, Recorded, Moved, ResultState, Rows, Unresolved
<1>4. TypeOK'
  BY <1>1, <1>2, <1>3 DEF TakeResult, Recorded, Resumed, broker, IInv, TypeOK,
     Children, Rows
<1>5. LeaseInv'
  BY DEF TakeResult, Recorded, Resumed, IInv, LeaseInv, Mutating, Waiting
<1>6. WorkInv'
  BY DEF TakeResult, Recorded, Moved, ResultState, Resumed, IInv, WorkInv, Mutating,
     Current, Active, Unresolved, TypeOK, ChildInv, Waiting, Unsent, broker
<1>7. ChildInv'
  BY DEF TakeResult, Recorded, Resumed, NoChild, ChildInv, Running, Waiting
<1>8. RowInv'
  BY DEF TakeResult, Recorded, Moved, ResultState, broker, IInv, RowInv, Active,
     TypeOK, WorkInv, ChildInv, Waiting
<1>9. IntentsTruthful'
  BY DEF TakeResult, Recorded, Moved, ResultState, NoChild, broker, IInv,
     IntentsTruthful, TypeOK, Intents, ChildInv
<1>10. PositionInv'
  BY DEF TakeResult, Recorded, Moved, ResultState, broker, IInv, PositionInv, Quiet,
     Active, Unresolved, TypeOK, WorkInv, ChildInv, Waiting, WellJudged, Misjudged
<1>11. DrainInv'
  BY DEF TakeResult, Recorded, Moved, Resumed, IInv, DrainInv, Drained, Active,
     Unresolved, WorkInv, ChildInv, Waiting, Unsent, broker
<1>. QED
  BY <1>1, <1>2, <1>3, <1>4, <1>5, <1>6, <1>7, <1>8, <1>9, <1>10, <1>11, Frames DEF
     TakeResult, IInv

LEMMA DispatchFailedStep ==
  ASSUME PaperAssumption, IInv, DispatchFailed
  PROVE  IInv'
<1>1. research' \in Researches
  BY ResearchType DEF DispatchFailed, Researches, Steps
<1>2. child' \in Children
  BY ChildType DEF DispatchFailed, NoChild, Children
<1>3. row' \in [Intents -> Rows]
  BY RowType DEF DispatchFailed, Moved, ResultState, Rows, Unresolved
<1>4. TypeOK'
  BY <1>1, <1>2, <1>3 DEF DispatchFailed, broker, IInv, TypeOK, Children, Rows
<1>5. LeaseInv'
  BY DEF DispatchFailed, IInv, LeaseInv, Mutating, Waiting
<1>6. WorkInv'
  BY DEF DispatchFailed, Moved, ResultState, IInv, WorkInv, Mutating, Current, Active,
     TypeOK, ChildInv, Waiting, Unsent, broker
<1>7. ChildInv'
  BY DEF DispatchFailed, NoChild, ChildInv, Running, Waiting
<1>8. RowInv'
  <2>1. CASE row' = row
    BY <2>1 DEF DispatchFailed, IInv, RowInv, Active, broker
  <2>2. CASE child.result # "error" /\ row' = Moved(child.intent, ResultState(child.result))
    BY <2>2 DEF DispatchFailed, Moved, ResultState, Waiting, IInv, TypeOK, WorkInv,
       ChildInv, RowInv, Active, broker
  <2>. QED
    BY <2>1, <2>2 DEF DispatchFailed
<1>9. IntentsTruthful'
  <2>1. CASE row' = row
    BY <2>1 DEF DispatchFailed, IInv, IntentsTruthful, NoChild, Intents, broker
  <2>2. CASE child.result # "error" /\ row' = Moved(child.intent, ResultState(child.result))
    BY <2>2 DEF DispatchFailed, Moved, ResultState, IInv, TypeOK, ChildInv,
       IntentsTruthful, NoChild, Intents, broker
  <2>. QED
    BY <2>1, <2>2 DEF DispatchFailed
<1>10. PositionInv'
  <2>1. CASE row' = row
    BY <2>1 DEF DispatchFailed, IInv, PositionInv, Quiet, Active, broker, WellJudged,
       Misjudged
  <2>2. CASE child.result # "error" /\ row' = Moved(child.intent, ResultState(child.result))
    BY <2>2 DEF DispatchFailed, Moved, ResultState, Waiting, IInv, TypeOK, WorkInv,
       ChildInv, PositionInv, Quiet, Active, Unresolved, broker, WellJudged, Misjudged
  <2>. QED
    BY <2>1, <2>2 DEF DispatchFailed, WellJudged, Misjudged
<1>11. DrainInv'
  <2>1. Active(Current) /\ Current \in Intents /\ ~Unsent(Current)
    BY DEF DispatchFailed, IInv, WorkInv, ChildInv, Waiting, Mutating, Active, Unresolved,
       Unsent, NoChild
  <2>2. ~Drained
    BY <2>1 DEF IInv, DrainInv
  <2>. QED
    BY <2>2 DEF DispatchFailed, IInv, DrainInv, Drained
<1>. QED
  BY <1>1, <1>2, <1>3, <1>4, <1>5, <1>6, <1>7, <1>8, <1>9, <1>10, <1>11, Frames DEF
     DispatchFailed, IInv

LEMMA DispatchTimesOutStep ==
  ASSUME PaperAssumption, IInv, DispatchTimesOut
  PROVE  IInv'
<1>1. research' \in Researches
  BY ResearchType DEF DispatchTimesOut, Researches, Steps
<1>2. child' \in Children
  BY ChildType DEF DispatchTimesOut, NoChild, Children
<1>3. TypeOK'
  BY <1>1, <1>2 DEF DispatchTimesOut, broker, books, IInv, TypeOK, Children
<1>4. LeaseInv'
  BY DEF DispatchTimesOut, IInv, LeaseInv, Mutating, Waiting
<1>5. WorkInv'
  BY DEF DispatchTimesOut, books, IInv, WorkInv, Mutating, Current, Active, Waiting,
     Unsent, broker
<1>6. ChildInv'
  BY DEF DispatchTimesOut, NoChild, broker, books, IInv, ChildInv, Running, Waiting
<1>7. IntentsTruthful'
  BY DEF DispatchTimesOut, NoChild, broker, books, IInv, IntentsTruthful, Intents
<1>8. DrainInv'
  BY DEF DispatchTimesOut, books, IInv, DrainInv, Drained, Active, Unsent, broker
<1>. QED
  BY <1>1, <1>2, <1>3, <1>4, <1>5, <1>6, <1>7, <1>8, Frames DEF DispatchTimesOut,
     IInv, broker, books

LEMMA ReconcileStep ==
  ASSUME PaperAssumption, IInv, Reconcile
  PROVE  IInv'
<1>1. research' \in Researches
  BY ResearchType DEF Reconcile, Recorded, Resumed, Researches, Steps
<1>2. row' \in [Intents -> Rows]
  BY RowType, ZenonT(40) DEF Reconcile, Recorded, Moved, ResultState, Rows, Unresolved
<1>3. TypeOK'
  BY <1>1, <1>2, SMTT(30) DEF Reconcile, Recorded, Resumed, broker, IInv, TypeOK, Rows
<1>4. LeaseInv'
  BY DEF Reconcile, Recorded, Resumed, IInv, LeaseInv, Mutating
<1>5. WorkInv'
  BY DEF Reconcile, Recorded, Moved, ResultState, Resumed, IInv, WorkInv, Mutating,
     Current, Active, Unresolved, TypeOK, Unsent, broker
<1>6. ChildInv'
  BY DEF Reconcile, Owned, Proven, Recorded, Moved, Resumed, broker, IInv, ChildInv,
     Running, Waiting
<1>7. RowInv'
  BY DEF Reconcile, Proven, Recorded, Moved, ResultState, broker, IInv, RowInv,
     Active, Unresolved
<1>8. IntentsTruthful'
  BY DEF Reconcile, Owned, Proven, Recorded, Moved, ResultState, broker, IInv,
     IntentsTruthful, NoChild, TypeOK, Intents, ChildInv
<1>9. PositionInv'
  BY DEF Reconcile, Proven, Recorded, Moved, ResultState, broker, IInv, PositionInv,
     Quiet, Active, Unresolved, WellJudged, Misjudged
<1>10. DrainInv'
  BY DEF Reconcile, Recorded, Moved, Resumed, IInv, DrainInv, Drained, Active,
     Unresolved, Unsent, broker
<1>. QED
  BY <1>1, <1>2, <1>3, <1>4, <1>5, <1>6, <1>7, <1>8, <1>9, <1>10, Frames DEF
     Reconcile, IInv

LEMMA GoToReviewStep ==
  ASSUME PaperAssumption, IInv, GoToReview
  PROVE  IInv'
<1>1. research' \in Researches
  BY ResearchType DEF GoToReview, CircuitOpens, Down, Researches, Steps
<1>2. row' \in [Intents -> Rows]
  BY RowType DEF GoToReview, Moved, Rows, Unresolved
<1>3. TypeOK'
  BY <1>1, <1>2 DEF GoToReview, CircuitOpens, broker, IInv, TypeOK, Researches, Steps,
     Rows
<1>4. LeaseInv'
  BY DEF GoToReview, CircuitOpens, Down, IInv, LeaseInv, Mutating
<1>5. WorkInv'
  BY DEF GoToReview, CircuitOpens, Down, WorkInv, Mutating, Unsent, broker
<1>6. ChildInv'
  BY DEF GoToReview, Moved, CircuitOpens, Down, broker, IInv, ChildInv, Sent, Waiting,
     TypeOK
<1>7. RowInv'
  <2>1. CASE row' = row
    BY <2>1 DEF GoToReview, IInv, RowInv, Active, broker
  <2>2. CASE row[Current].state = "dispatching" /\ row' = Moved(Current, "manual_review")
    BY <2>2 DEF GoToReview, Moved, IInv, RowInv, Active, Unresolved, Sent, broker
  <2>. QED
    BY <2>1, <2>2 DEF GoToReview
<1>8. IntentsTruthful'
  <2>1. CASE row' = row
    BY <2>1 DEF GoToReview, IInv, IntentsTruthful, broker
  <2>2. CASE row[Current].state = "dispatching" /\ row' = Moved(Current, "manual_review")
    BY <2>2 DEF GoToReview, Moved, IInv, IntentsTruthful, broker
  <2>. QED
    BY <2>1, <2>2 DEF GoToReview
<1>9. PositionInv'
  <2>1. CASE row' = row
    BY <2>1 DEF GoToReview, IInv, PositionInv, Quiet, Active, broker, WellJudged,
       Misjudged
  <2>2. CASE row[Current].state = "dispatching" /\ row' = Moved(Current, "manual_review")
    BY <2>2 DEF GoToReview, Moved, IInv, Active, Unresolved, PositionInv, Quiet, broker,
       WellJudged, Misjudged
  <2>. QED
    BY <2>1, <2>2 DEF GoToReview, WellJudged, Misjudged
<1>10. DrainInv'
  BY DEF GoToReview, Moved, CircuitOpens, Down, IInv, DrainInv, Drained, Active, TypeOK,
     Unsent, broker
<1>. QED
  BY <1>1, <1>2, <1>3, <1>4, <1>5, <1>6, <1>7, <1>8, <1>9, <1>10, Frames DEF
     GoToReview, IInv

LEMMA CommitStep ==
  ASSUME PaperAssumption, IInv, Commit
  PROVE  IInv'
<1>1. research' \in Researches
  BY ResearchType DEF Commit, Resumed, Researches, Steps
<1>2. row' \in [Intents -> Rows]
  BY RowType DEF Commit, Committed, Moved, Rows
<1>3. TypeOK'
  BY <1>1, <1>2 DEF Commit, Committed, Resumed, broker, PaperAssumption, IInv, TypeOK,
     Before, After, Rows
<1>4. LeaseInv'
  BY DEF Commit, Resumed, IInv, LeaseInv, Mutating
<1>5. WorkInv'
  BY DEF Commit, Committed, Moved, Resumed, IInv, WorkInv, Mutating, Active, Unresolved,
     TypeOK, Unsent, broker
<1>6. ChildInv'
  BY DEF Commit, Resumed, IInv, ChildInv, Running, Sent, Waiting, Unresolved,
     Mutating, WorkInv, Active
<1>7. RowInv'
  BY DEF Commit, Committed, Moved, broker, IInv, RowInv, Active, Sent, Mutating,
     WorkInv
<1>8. IntentsTruthful'
  BY DEF Commit, Committed, Moved, broker, IInv, IntentsTruthful, WorkInv
<1>9. PositionInv'
  <2>1. /\ Current \in Intents /\ row[Current].state = "broker_filled"
        /\ \A i \in Intents : Active(i) => i = Current
    BY DEF Commit, IInv, WorkInv, Mutating
  <2>2. order[Current] = "filled" /\ Active(Current)
    BY <2>1 DEF IInv, IntentsTruthful, Active, Unresolved
  <2>3. \A i \in Intents : ~Active(i)'
    BY <2>1, RowType DEF Commit, Committed, Moved, Active, Unresolved, Rows
  <2>4. WellJudged' => WellJudged
    BY <2>2, RowType DEF Commit, Committed, Moved, broker, WellJudged, Misjudged, Rows
  <2>5. WellJudged => held = After(row[Current].op)
    BY <2>1, <2>2 DEF IInv, PositionInv
  <2>. QED
    BY <2>3, <2>4, <2>5 DEF Commit, Committed, broker, PositionInv, Quiet
<1>10. DrainInv'
  <2>1. Current \in Intents /\ Active(Current) /\ ~Unsent(Current)
    BY DEF Commit, IInv, WorkInv, Mutating, IntentsTruthful, Active, Unresolved, Unsent
  <2>2. ~Drained
    BY <2>1 DEF IInv, DrainInv
  <2>. QED
    BY <2>2 DEF Commit, IInv, DrainInv, Drained
<1>. QED
  BY <1>1, <1>2, <1>3, <1>4, <1>5, <1>6, <1>7, <1>8, <1>9, <1>10, Frames DEF Commit,
     IInv

LEMMA CommitFailsStep ==
  ASSUME PaperAssumption, IInv, CommitFails
  PROVE  IInv'
<1>1. research' \in Researches
  BY ResearchType DEF CommitFails, CircuitOpens, Down, Researches, Steps
<1>2. TypeOK'
  BY <1>1 DEF CommitFails, CircuitOpens, broker, books, IInv, TypeOK, Researches,
     Steps
<1>3. LeaseInv'
  BY DEF CommitFails, CircuitOpens, Down, IInv, LeaseInv, Mutating
<1>4. WorkInv'
  BY DEF CommitFails, CircuitOpens, Down, WorkInv, Mutating, Unsent, broker
<1>5. ChildInv'
  BY DEF CommitFails, CircuitOpens, Down, broker, books, IInv, ChildInv, Waiting
<1>6. DrainInv'
  BY DEF CommitFails, CircuitOpens, Down, books, IInv, DrainInv, Drained, Active,
     TypeOK, Unsent, broker
<1>. QED
  BY <1>1, <1>2, <1>3, <1>4, <1>5, <1>6, Frames DEF CommitFails, IInv, broker, books

LEMMA CrashStep ==
  ASSUME PaperAssumption, IInv, Crash
  PROVE  IInv'
<1>1. research' \in Researches
  BY ResearchType DEF Crash, Down, Researches, Steps
<1>2. child' \in Children
  BY ChildType DEF Crash, NoChild, Children
<1>3. TypeOK'
  BY <1>1, <1>2 DEF Crash, broker, books, IInv, TypeOK, Researches, Steps, Children
<1>4. LeaseInv'
  BY DEF Crash, Down, IInv, LeaseInv, Mutating
<1>5. WorkInv'
  BY DEF Crash, Down, WorkInv, Mutating, Unsent, broker
<1>6. ChildInv'
  BY DEF Crash, Down, NoChild, broker, books, IInv, ChildInv, Running, Waiting
<1>7. IntentsTruthful'
  BY DEF Crash, NoChild, broker, books, IInv, IntentsTruthful, Intents
<1>8. DrainInv'
  BY DEF Crash, Down, books, IInv, DrainInv, Drained, Active, TypeOK, Unsent, broker
<1>. QED
  BY <1>1, <1>2, <1>3, <1>4, <1>5, <1>6, <1>7, <1>8, Frames DEF Crash, IInv, broker,
     books

LEMMA MonitorStep ==
  ASSUME PaperAssumption, IInv, Monitor
  PROVE  IInv'
<1>1. research' \in Researches
  <2>1. PICK g \in 0..MaxGeneration :
                research' = [research EXCEPT !.step = "monitoring", !.drain = g]
    BY AuthType, ResearchType DEF Monitor, Authorizations
  <2>. QED
    BY <2>1, ResearchType DEF Researches, Steps
<1>2. TypeOK'
  BY <1>1, ZenonT(40) DEF Monitor, broker, IInv, TypeOK, Researches, Steps
<1>3. LeaseInv'
  BY DEF Monitor, IInv, LeaseInv, Mutating
<1>4. WorkInv'
  BY DEF Monitor, IInv, WorkInv, Mutating, Active, Unsent, broker
<1>5. ChildInv'
  BY DEF Monitor, broker, IInv, ChildInv, Waiting
<1>6. DrainInv'
  BY DEF Monitor, IInv, DrainInv, Drained, Active, TypeOK, Unsent, broker
<1>. QED
  BY <1>1, <1>2, <1>3, <1>4, <1>5, <1>6, Frames DEF Monitor, IInv, broker

LEMMA CompleteDrainStep ==
  ASSUME PaperAssumption, IInv, CompleteDrain
  PROVE  IInv'
<1>1. research' \in Researches
  BY ResearchType DEF CompleteDrain, Researches, Steps
<1>2. TypeOK'
  BY <1>1 DEF CompleteDrain, broker, IInv, TypeOK, Researches, Steps
<1>3. LeaseInv'
  BY DEF CompleteDrain, Takeable, IInv, LeaseInv, Mutating
<1>4. WorkInv'
  BY DEF CompleteDrain, IInv, WorkInv, Mutating, Active, Unsent, broker
<1>5. ChildInv'
  BY DEF CompleteDrain, broker, IInv, ChildInv, Waiting
<1>6. DrainInv'
  BY DEF CompleteDrain, Flat, IInv, DrainInv, Active, TypeOK, WorkInv, Unsent, broker
<1>. QED
  BY <1>1, <1>2, <1>3, <1>4, <1>5, <1>6, Frames DEF CompleteDrain, IInv, broker

LEMMA EndMonitorStep ==
  ASSUME PaperAssumption, IInv, EndMonitor
  PROVE  IInv'
<1>1. research' \in Researches
  BY ResearchType DEF EndMonitor, Researches, Steps
<1>2. TypeOK'
  BY <1>1 DEF EndMonitor, broker, books, IInv, TypeOK, Researches, Steps
<1>3. LeaseInv'
  BY DEF EndMonitor, IInv, LeaseInv, Mutating
<1>4. WorkInv'
  BY DEF EndMonitor, books, IInv, WorkInv, Mutating, Active, Unsent, broker
<1>5. ChildInv'
  BY DEF EndMonitor, broker, books, IInv, ChildInv, Waiting
<1>6. DrainInv'
  BY DEF EndMonitor, books, IInv, DrainInv, Drained, Active, TypeOK, Unsent, broker
<1>. QED
  BY <1>1, <1>2, <1>3, <1>4, <1>5, <1>6, Frames DEF EndMonitor, IInv, broker, books

LEMMA AdmitStep ==
  ASSUME PaperAssumption, IInv, Admit
  PROVE  IInv'
<1>1. child' \in Children
  BY ChildType DEF Admit, Children
<1>2. TypeOK'
  BY <1>1 DEF Admit, broker, books, IInv, TypeOK
<1>3. ChildInv'
  BY DEF Admit, broker, books, IInv, ChildInv, Running, Waiting, Current
<1>4. IntentsTruthful'
  BY DEF Admit, broker, books, IInv, IntentsTruthful
<1>5. WorkInv' /\ DrainInv'
  BY BusyFrames DEF Admit, broker, books, Running
<1>. QED
  BY <1>1, <1>2, <1>3, <1>4, <1>5, Frames DEF Admit, IInv, broker, books

LEMMA PlaceStep ==
  ASSUME PaperAssumption, IInv, Place
  PROVE  IInv'
<1>1. child' \in Children
  BY ChildType DEF Place, Children
<1>2. TypeOK'
  BY <1>1, ZenonT(40) DEF Place, books, IInv, TypeOK
<1>3. ChildInv'
  BY DEF Place, books, IInv, ChildInv, Running, Waiting, Current
<1>4. RowInv'
  BY DEF Place, books, IInv, RowInv, Active, Sent, Running, ChildInv
<1>5. IntentsTruthful'
  BY DEF Place, books, IInv, IntentsTruthful, ChildInv
<1>6. PositionInv'
  BY DEF Place, books, IInv, PositionInv, Active, Unresolved, ChildInv, Running, Sent,
     WellJudged, Misjudged
<1>7. WorkInv' /\ DrainInv'
  BY BusyFrames DEF Place, books, Running
<1>. QED
  BY <1>1, <1>2, <1>3, <1>4, <1>5, <1>6, <1>7, Frames DEF Place, IInv, books

LEMMA ChildFailsStep ==
  ASSUME PaperAssumption, IInv, ChildFails
  PROVE  IInv'
<1>1. child' \in Children
  BY ChildType DEF ChildFails, Ended, NoChild, Children
<1>2. TypeOK'
  BY <1>1 DEF ChildFails, broker, books, IInv, TypeOK, Children
<1>3. ChildInv'
  BY DEF ChildFails, Ended, NoChild, IInv, ChildInv, Running, Waiting, Current
<1>4. IntentsTruthful'
  BY DEF ChildFails, Ended, NoChild, broker, books, IInv, IntentsTruthful, Intents
<1>5. WorkInv' /\ DrainInv'
  BY BusyFrames DEF ChildFails, broker, books, Running
<1>. QED
  BY <1>1, <1>2, <1>3, <1>4, <1>5, Frames DEF ChildFails, IInv, broker, books

LEMMA ReportFilledStep ==
  ASSUME PaperAssumption, IInv, ReportFilled
  PROVE  IInv'
<1>1. child' \in Children
  BY ChildType DEF ReportFilled, Ended, NoChild, Children
<1>2. TypeOK'
  BY <1>1 DEF ReportFilled, broker, books, IInv, TypeOK, Children
<1>3. ChildInv'
  BY DEF ReportFilled, Ended, NoChild, broker, IInv, ChildInv, Running, Waiting,
     Current
<1>4. IntentsTruthful'
  BY DEF ReportFilled, Ended, NoChild, broker, books, IInv, IntentsTruthful, Intents
<1>5. WorkInv' /\ DrainInv'
  BY BusyFrames DEF ReportFilled, broker, books, Running
<1>. QED
  BY <1>1, <1>2, <1>3, <1>4, <1>5, Frames DEF ReportFilled, IInv, broker, books

LEMMA ReportNotFilledStep ==
  ASSUME PaperAssumption, IInv, ReportNotFilled
  PROVE  IInv'
<1>1. child' \in Children
  BY ChildType DEF ReportNotFilled, Ended, NoChild, Children
<1>2. TypeOK'
  BY <1>1 DEF ReportNotFilled, broker, books, IInv, TypeOK, Children
<1>3. ChildInv'
  BY DEF ReportNotFilled, Ended, NoChild, broker, IInv, ChildInv, Running, Waiting,
     Current, RowInv
<1>4. IntentsTruthful'
  BY DEF ReportNotFilled, Ended, NoChild, broker, books, IInv, IntentsTruthful,
     Intents
<1>5. WorkInv' /\ DrainInv'
  BY BusyFrames DEF ReportNotFilled, broker, books, Running
<1>. QED
  BY <1>1, <1>2, <1>3, <1>4, <1>5, Frames DEF ReportNotFilled, IInv, broker, books

LEMMA FillStep ==
  ASSUME PaperAssumption, IInv, Fill
  PROVE  IInv'
<1>1. TypeOK'
  BY DEF Fill, Direction, books, PaperAssumption, IInv, TypeOK, PositionInv, Active,
     Before, Sent, RowInv
<1>2. ChildInv'
  BY DEF Fill, books, IInv, ChildInv, Running, Waiting, Current, TypeOK, Mutating,
     WorkInv
<1>3. RowInv'
  BY DEF Fill, books, IInv, RowInv, Active, TypeOK
<1>4. IntentsTruthful'
  BY DEF Fill, books, IInv, IntentsTruthful, TypeOK
<1>5. PositionInv'
  BY DEF Fill, Direction, books, PaperAssumption, IInv, PositionInv, Quiet, Active,
     Before, After, TypeOK, RowInv, IntentsTruthful, WellJudged, Misjudged
<1>6. WorkInv' /\ DrainInv'
  BY BusyFrames DEF Fill, books, Running
<1>. QED
  BY <1>1, <1>2, <1>3, <1>4, <1>5, <1>6, Frames DEF Fill, IInv, books

LEMMA CatchUpStep ==
  ASSUME PaperAssumption, IInv, CatchUp
  PROVE  IInv'
<1>1. TypeOK'
  BY DEF CatchUp, books, IInv, TypeOK
<1>. QED
  BY <1>1, Frames DEF CatchUp, IInv, books
--------------------------------------------------------------------------------
LEMMA InitInv == PaperAssumption /\ Init => IInv
<1> SUFFICES ASSUME PaperAssumption, Init PROVE IInv
  OBVIOUS
<1>1. \A i \in Intents : row[i].state = "none" /\ row[i].op = "none" /\ order[i] = "none"
  BY DEF Init, NoRow
<1>2. TypeOK
  <2>1. auth \in [gen : 0..MaxGeneration, enabled : BOOLEAN, closeOnly : BOOLEAN]
    BY DEF Init, PaperAssumption
  <2>2. research \in Researches
    BY DEF Init, Researches, Steps, PaperAssumption
  <2>3. child \in Children
    BY DEF Init, NoChild, Children, PaperAssumption
  <2>. QED BY <2>1, <2>2, <2>3
           DEF TypeOK, Researches, Steps, Children, Init, NoRow, Unresolved, PaperAssumption
<1>3. LeaseInv /\ WorkInv /\ ChildInv
  BY DEF Init, LeaseInv, WorkInv, ChildInv, NoChild, Mutating, Running, Waiting
<1>4. RowInv /\ IntentsTruthful /\ PositionInv
  BY <1>1 DEF Init, RowInv, IntentsTruthful, PositionInv, Active, Unresolved
<1>5. DrainInv
  BY DEF Init, DrainInv, Drained, PaperAssumption
<1>. QED BY <1>2, <1>3, <1>4, <1>5 DEF IInv

LEMMA NextInv ==
  ASSUME PaperAssumption, IInv, [Next]_vars
  PROVE  IInv'
<1>1. CASE Host
  BY <1>1, BeginRevokeStep, SurveyForRevokeStep, WriteRevokeStep, RevokeFailsStep,
     BeginEnableStep, WriteEnableStep, HostDiesStep DEF Host
<1>2. CASE Start \/ Recovery
  BY <1>2, StartStep, RecoverPreparedStep, RecoverDispatchedStep, RecoverFilledStep,
     ReadyStep, StartFailsStep DEF Recovery
<1>3. CASE Mutation
  BY <1>3, PrepareStep, DispatchStep, DispatchFailsStep, TakeResultStep, DispatchFailedStep,
     DispatchTimesOutStep, ReconcileStep, GoToReviewStep, CommitStep, CommitFailsStep
     DEF Mutation
<1>4. CASE Crash \/ Monitor \/ CompleteDrain \/ EndMonitor
  BY <1>4, CrashStep, MonitorStep, CompleteDrainStep, EndMonitorStep
<1>5. CASE Capitald
  BY <1>5, AdmitStep, PlaceStep, ChildFailsStep, ReportFilledStep, ReportNotFilledStep
     DEF Capitald
<1>6. CASE Fill \/ CatchUp
  BY <1>6, FillStep, CatchUpStep
<1>7. CASE UNCHANGED vars
  BY <1>7, Frames DEF vars, IInv, TypeOK
<1>. QED BY <1>1, <1>2, <1>3, <1>4, <1>5, <1>6, <1>7 DEF Next

\* The inductive invariant holds throughout.
THEOREM PaperInvariant ==
  ASSUME PaperAssumption
  PROVE  Spec => []IInv
<1>1. Init => IInv
  BY InitInv
<1>2. IInv /\ [Next]_vars => IInv'
  BY NextInv
<1>. QED BY <1>1, <1>2, PTL DEF Spec

--------------------------------------------------------------------------------
\* Every variable keeps its type; the research database has no position or one of a lot
\* at most, whatever the broker filled.
THEOREM PaperTypes ==
  ASSUME PaperAssumption
  PROVE  Spec => []TypeOK
<1>1. IInv => TypeOK
  BY DEF IInv
<1>. QED BY <1>1, PaperInvariant, PTL

\* One order can be live, and no child is left when the next one is prepared.
LEMMA InvExposure == IInv => OneExposure
<1> SUFFICES ASSUME IInv PROVE OneExposure
  OBVIOUS
<1>1. \A i \in Live : i \in Intents /\ Active(i) /\ order[i] = "live"
  BY DEF Live, IInv, RowInv, Sent, Active, Unresolved
<1>2. Cardinality(Live) <= 1
  <2>1. CASE Live = {}
    BY <2>1, FS_EmptySet
  <2>2. CASE Live # {}
    <3>1. PICK i \in Live : TRUE
      BY <2>2
    <3>2. Live = {i}
      BY <3>1, <1>1 DEF IInv, RowInv
    <3>. QED BY <3>2, FS_Singleton
  <2>. QED BY <2>1, <2>2
<1>3. WellJudged => \A i \in Live : held = Before(row[i].op)
  BY <1>1 DEF IInv, PositionInv
<1>4. research.step = "prepared" => child = NoChild
  BY PreparedAlone
<1>. QED BY <1>2, <1>3, <1>4 DEF OneExposure

\* However the processes die, an intent is never ordered again while an earlier
\* order may still fill (paper_intent.py, paper_execution.py).
THEOREM OneOrderLive ==
  ASSUME PaperAssumption
  PROVE  Spec => []OneExposure
BY InvExposure, PaperInvariant, PTL

\* A completed drain is true, and stays true while its generation lasts
\* (_complete_paper_drain_if_flat).
LEMMA InvDrained == IInv => DrainTruthful
<1> SUFFICES ASSUME IInv, Drained
             PROVE  local = 0 /\ Live = {} /\ (WellJudged => held = 0)
  BY DEF DrainTruthful, Drained
<1>1. local = 0 /\ \A i \in Intents : Active(i) => order[i] = "none"
  BY DEF IInv, DrainInv, Unsent
<1>2. Live = {}
  BY <1>1 DEF Live, IInv, RowInv, Sent, Active, Unresolved
<1>3. WellJudged => held = local
  <2>1. CASE Quiet
    BY <2>1 DEF IInv, PositionInv
  <2>2. CASE ~Quiet
    BY <2>2, <1>1 DEF Quiet, IInv, PositionInv, RowInv
  <2>. QED BY <2>1, <2>2
<1>. QED BY <1>1, <1>2, <1>3

\* The books are truthful, however the processes die: settled intents say what the
\* broker did, and while no partial fill was taken for none (paper_trade.py:515-518) both
\* sides have the same position once none is unresolved, and a completed drain stays
\* true (paper_intent.py, agentic_position.py).
THEOREM BooksAreTruthful ==
  ASSUME PaperAssumption
  PROVE  Spec => []BooksTruthful
<1>1. IInv => IntentsTruthful /\ BooksAgree
  BY DEF IInv, PositionInv, Quiet, Active, BooksAgree
<1>2. IInv => BooksTruthful
  BY <1>1, InvDrained DEF BooksTruthful
<1>. QED BY <1>2, PaperInvariant, PTL

\* While the research process waits for its order, the host does not change the
\* authorization: the order is placed in the generation that permitted it
\* (acquirePaperMutationLease, _assert_mutation_authorized).
THEOREM OrdersAreAuthorized ==
  ASSUME PaperAssumption
  PROVE  Spec => PlacedAsAuthorized
<1>1. IInv => Permitted
  BY DEF IInv, WorkInv, ChildInv, Waiting, Permitted
<1>2. IInv /\ [Next]_vars => [Permitted]_vars
  BY <1>1
<1>. QED BY <1>2, PaperInvariant, PTL DEF PlacedAsAuthorized, Spec

--------------------------------------------------------------------------------
\* The host's lease
\* A process that does not run is in no call.
GoneIdle == \A p \in Pids : ~Local!Alive(p) => call[p].step = "idle"

LocalInv == Local!TypeOK /\ Local!HolderKeepsLease /\ GoneIdle

--------------------------------------------------------------------------------
\* What the operators on calls do to the type and to who uses the lease.
LEMMA LocalCallFacts ==
  ASSUME NEW p \in Pids
  PROVE  /\ Local!Idle(p) \in Local!Calls /\ Local!Idle(p).step = "idle"
         /\ \A step \in Local!Steps, n \in 0..1 :
              Local!Locals(p, step, n) \in Local!Calls /\ Local!Locals(p, step, n).step = step
BY LocalBounds DEF Local!HostAssumption, Local!Idle, Local!Locals, Local!Calls,
   Local!Steps

\* A call that goes on to a step outside the lease's use.
LEMMA LocalCallStep ==
  ASSUME Local!TypeOK, NEW p \in Pids
  PROVE  /\ Local!Return(p) \/ Local!Again(p) \/ (\E step \in Local!Steps : Local!Go(p, step)) =>
              /\ call' \in [Pids -> Local!Calls]
              /\ \A q \in Pids \ {p} : call'[q] = call[q]
         /\ Local!Return(p) => call'[p].step = "idle"
         /\ Local!Again(p) => call'[p].step \in {"open", "idle"}
         /\ \A step \in Local!Steps : Local!Go(p, step) => call'[p].step = step
<1>1. call \in [Pids -> Local!Calls] /\ call[p].attempt \in 0..1
  BY DEF Local!TypeOK, Local!Calls
<1>2. Local!Return(p) => /\ call' \in [Pids -> Local!Calls]
                         /\ \A q \in Pids \ {p} : call'[q] = call[q]
                         /\ call'[p].step = "idle"
  BY <1>1, LocalCallFacts DEF Local!Return
<1>3. "open" \in Local!Steps /\ 1 \in 0..1
  BY DEF Local!Steps
<1>4. Local!Again(p) => /\ call' \in [Pids -> Local!Calls]
                        /\ \A q \in Pids \ {p} : call'[q] = call[q]
                        /\ call'[p].step \in {"open", "idle"}
  BY <1>1, <1>2, <1>3, LocalCallFacts DEF Local!Again
<1>5. \A step \in Local!Steps : Local!Go(p, step) => /\ call' \in [Pids -> Local!Calls]
                                                     /\ \A q \in Pids \ {p} : call'[q] = call[q]
                                                     /\ call'[p].step = step
  BY <1>1, LocalCallFacts DEF Local!Go
<1>. QED
  BY <1>2, <1>4, <1>5

InUse == {"write", "sync", "held"}

\* A step of one process that leaves the file and the pids alone and does not
\* begin a use keeps every holder's lease.
LEMMA KeepsFile ==
  ASSUME LocalInv, NEW p \in Pids, UNCHANGED <<boot, file, status, stolen>>,
         \A q \in Pids \ {p} : call'[q] = call[q],
         call'[p].step \in InUse => call[p].step \in InUse
  PROVE  Local!HolderKeepsLease'
BY DEF LocalInv, Local!HolderKeepsLease, Local!Using, Local!At, Local!Alive, Local!Mine,
   InUse

\* A step that removes the lease is its holder's, or nobody holds it.
LEMMA RemovesFile ==
  ASSUME LocalInv, NEW p \in Pids, UNCHANGED <<boot, status>>, file' = NoFile,
         Local!Using(p) \/ ~Local!Valid \/ stolen', stolen => stolen',
         \A q \in Pids \ {p} : call'[q] = call[q],
         call'[p].step \notin InUse
  PROVE  Local!HolderKeepsLease'
<1>. SUFFICES ASSUME ~stolen', NEW q \in Pids, Local!Using(q)' PROVE FALSE
  BY DEF Local!HolderKeepsLease
<1>1. q # p /\ Local!Using(q)
  BY DEF Local!Using, Local!At, Local!Alive, InUse
<1>2. Local!Mine(q)
  BY <1>1 DEF LocalInv, Local!HolderKeepsLease
<1>3. Local!Valid
  BY <1>1, <1>2 DEF Local!Valid, Local!Mine
<1>4. Local!Using(p)
  BY <1>3
<1>5. Local!Mine(p)
  BY <1>4 DEF LocalInv, Local!HolderKeepsLease
<1>. QED
  BY <1>1, <1>2, <1>5 DEF Local!Mine

--------------------------------------------------------------------------------
LEMMA LocalInit == Local!Init => LocalInv
<1>. SUFFICES ASSUME Local!Init PROVE LocalInv
  OBVIOUS
<1>1. Local!TypeOK
  <2>1. call \in [Pids -> Local!Calls]
    BY LocalCallFacts DEF Local!Init
  <2>2. boot \in 0..MaxBoot
    BY LocalBounds DEF Local!HostAssumption, Local!Init
  <2>. QED
    BY <2>1, <2>2 DEF Local!Init, Local!TypeOK
<1>2. Local!HolderKeepsLease
  BY DEF Local!Init, Local!HolderKeepsLease, Local!Using, Local!At, Local!Alive
<1>3. GoneIdle
  BY LocalCallFacts DEF Local!Init, GoneIdle
<1>. QED
  BY <1>1, <1>2, <1>3 DEF LocalInv

LEMMA OpenedType == Local!TypeOK => \A p \in Pids : Local!Opened(p) \in Local!Files
BY DEF Local!TypeOK, Local!Opened, Local!Files

LEMMA LocalNextTypes == Local!TypeOK /\ [Local!Next]_Local!vars => Local!TypeOK'
<1>. SUFFICES ASSUME Local!TypeOK, [Local!Next]_Local!vars PROVE Local!TypeOK'
  OBVIOUS
<1>. USE DEF Local!TypeOK
<1>1. ASSUME NEW p \in Pids, Local!Acquire(p) PROVE Local!TypeOK'
  BY <1>1, LocalCallStep DEF Local!Acquire, Local!Steps
<1>2. ASSUME NEW p \in Pids, Local!Create(p) PROVE Local!TypeOK'
  BY <1>2, LocalCallStep, OpenedType DEF Local!Create, Local!Steps
<1>3. ASSUME NEW p \in Pids, Local!Exists(p) PROVE Local!TypeOK'
  BY <1>3, LocalCallStep DEF Local!Exists, Local!Steps
<1>4. ASSUME NEW p \in Pids, Local!Write(p) PROVE Local!TypeOK'
  <2>1. CASE file = Local!Opened(p)
    <3>1. Local!Opened(p) \in Local!Files
      BY OpenedType
    <3>2. [Local!Opened(p) EXCEPT !.whole = TRUE] \in Local!Files
      BY <3>1 DEF Local!Files
    <3>. QED
      BY <1>4, <2>1, <3>2, LocalCallStep DEF Local!Write, Local!Steps
  <2>2. CASE file # Local!Opened(p)
    BY <1>4, <2>2, LocalCallStep DEF Local!Write, Local!Steps
  <2>. QED
    BY <2>1, <2>2
<1>5. ASSUME NEW p \in Pids, Local!WriteFails(p) PROVE Local!TypeOK'
  BY <1>5, LocalCallStep DEF Local!WriteFails
<1>6. ASSUME NEW p \in Pids, Local!Synced(p) PROVE Local!TypeOK'
  <2>1. Local!Locals(p, "held", 0) \in Local!Calls
    BY LocalCallFacts DEF Local!Steps
  <2>. QED
    BY <1>6, <2>1 DEF Local!Synced
<1>7. ASSUME NEW p \in Pids, Local!SyncFails(p) PROVE Local!TypeOK'
  BY <1>7, LocalCallStep DEF Local!SyncFails
<1>8. ASSUME NEW p \in Pids, Local!Release(p) PROVE Local!TypeOK'
  BY <1>8, LocalCallStep DEF Local!Release
<1>9. ASSUME NEW p \in Pids, Local!Read(p) PROVE Local!TypeOK'
  <2>1. CASE Local!Readable
    <3>1. file.pid \in Pids /\ file.boot \in 0..MaxBoot /\ call[p].attempt \in 0..1
      BY <2>1 DEF Local!Readable, Local!Files, Local!Calls
    <3>2. [step |-> "judge", attempt |-> call[p].attempt,
           pid |-> file.pid, boot |-> file.boot] \in Local!Calls
      BY <3>1 DEF Local!Calls, Local!Steps
    <3>. QED
      BY <1>9, <2>1, <3>2 DEF Local!Read
  <2>2. CASE ~Local!Readable
    BY <1>9, <2>2, LocalCallStep DEF Local!Read, Local!Steps
  <2>. QED
    BY <2>1, <2>2
<1>10. ASSUME NEW p \in Pids, Local!Judge(p) PROVE Local!TypeOK'
  BY <1>10, LocalCallStep DEF Local!Judge, Local!Steps
<1>11. ASSUME NEW p \in Pids, Local!Stat(p) PROVE Local!TypeOK'
  <2>1. Local!Again(p) \/ Local!Go(p, "unlink") \/ Local!Return(p)
    BY <1>11 DEF Local!Stat
  <2>. QED
    BY <1>11, <2>1, LocalCallStep DEF Local!Stat, Local!Steps
<1>12. ASSUME NEW p \in Pids, Local!Unlink(p) PROVE Local!TypeOK'
  <2>1. stolen' \in BOOLEAN
    BY <1>12 DEF Local!Unlink, Local!Valid
  <2>. QED
    BY <1>12, <2>1, LocalCallStep DEF Local!Unlink
<1>13. ASSUME NEW p \in Pids, Local!Start(p) PROVE Local!TypeOK'
  BY <1>13 DEF Local!Start
<1>14. ASSUME NEW p \in Pids, Local!Die(p) PROVE Local!TypeOK'
  BY <1>14, LocalCallStep DEF Local!Die
<1>15. CASE Local!Reboot
  BY <1>15, LocalCallFacts, LocalBounds DEF Local!HostAssumption, Local!Reboot
<1>16. CASE Local!Age
  <2>1. file' \in Local!Files
    BY <1>16 DEF Local!Age, Local!Files
  <2>. QED
    BY <1>16, <2>1 DEF Local!Age
<1>17. CASE UNCHANGED Local!vars
  BY <1>17 DEF Local!vars
<1>. QED
  BY <1>1, <1>2, <1>3, <1>4, <1>5, <1>6, <1>7, <1>8, <1>9, <1>10, <1>11, <1>12, <1>13,
     <1>14, <1>15, <1>16, <1>17 DEF Local!Next

LEMMA LocalNextKeeps == LocalInv /\ [Local!Next]_Local!vars => Local!HolderKeepsLease'
<1>. SUFFICES ASSUME LocalInv, [Local!Next]_Local!vars PROVE Local!HolderKeepsLease'
  OBVIOUS
<1>0. Local!TypeOK /\ Local!HolderKeepsLease
  BY DEF LocalInv
<1>1. ASSUME NEW p \in Pids, Local!Acquire(p) PROVE Local!HolderKeepsLease'
  BY <1>0, <1>1, LocalCallStep, KeepsFile DEF Local!Acquire, Local!Steps, InUse
<1>2. ASSUME NEW p \in Pids, Local!Create(p) PROVE Local!HolderKeepsLease'
  <2>1. \A q \in Pids \ {p} : call'[q] = call[q]
    BY <1>0, <1>2, LocalCallStep DEF Local!Create, Local!Steps
  <2>2. ASSUME NEW q \in Pids \ {p}, ~stolen, Local!Using(q)' PROVE FALSE
    BY <1>0, <1>2, <2>1, <2>2 DEF Local!Create, Local!MayCreate, Local!HolderKeepsLease,
       Local!Using, Local!At, Local!Alive, Local!Mine
  <2>3. Local!Mine(p)'
    <3>1. Local!Opened(p) # NoFile
      BY <1>0, OpenedType, LocalBounds DEF Local!HostAssumption, Local!Files
    <3>. QED
      BY <1>2, <3>1 DEF Local!Create, Local!Mine, Local!Opened
  <2>. QED
    BY <1>2, <2>2, <2>3 DEF Local!Create, Local!HolderKeepsLease
<1>3. ASSUME NEW p \in Pids, Local!Exists(p) PROVE Local!HolderKeepsLease'
  BY <1>0, <1>3, LocalCallStep, KeepsFile DEF Local!Exists, Local!Steps, InUse
<1>4. ASSUME NEW p \in Pids, Local!Write(p) PROVE Local!HolderKeepsLease'
  <2>1. \A q \in Pids : Local!Mine(q) => Local!Mine(q)'
    <3>1. Local!Opened(p) \in Local!Files
      BY <1>0, OpenedType
    <3>2. [Local!Opened(p) EXCEPT !.whole = TRUE] \in Local!Files
      BY <3>1 DEF Local!Files
    <3>. QED
      BY <1>4, <3>2, LocalBounds DEF Local!HostAssumption, Local!Write, Local!Mine,
         Local!Opened, Local!Files
  <2>2. \A q \in Pids : Local!Using(q)' => Local!Using(q)
    BY <1>0, <1>4, LocalCallStep DEF Local!Write, Local!Using, Local!At, Local!Alive,
       Local!Steps
  <2>. QED
    BY <1>0, <1>4, <2>1, <2>2 DEF Local!Write, Local!HolderKeepsLease
<1>5. ASSUME NEW p \in Pids, Local!WriteFails(p) PROVE Local!HolderKeepsLease'
  BY <1>0, <1>5, LocalCallStep, RemovesFile DEF Local!WriteFails, Local!Using, InUse
<1>6. ASSUME NEW p \in Pids, Local!Synced(p) PROVE Local!HolderKeepsLease'
  <2>1. \A q \in Pids \ {p} : call'[q] = call[q]
    BY <1>0, <1>6 DEF Local!Synced, Local!TypeOK
  <2>2. call[p].step \in InUse
    BY <1>6 DEF Local!Synced, Local!At, InUse
  <2>. QED
    BY <1>6, <2>1, <2>2, KeepsFile DEF Local!Synced
<1>7. ASSUME NEW p \in Pids, Local!SyncFails(p) PROVE Local!HolderKeepsLease'
  BY <1>0, <1>7, LocalCallStep, KeepsFile DEF Local!SyncFails, InUse
<1>8. ASSUME NEW p \in Pids, Local!Release(p) PROVE Local!HolderKeepsLease'
  BY <1>0, <1>8, LocalCallStep, RemovesFile DEF Local!Release, Local!Using, InUse
<1>9. ASSUME NEW p \in Pids, Local!Read(p) PROVE Local!HolderKeepsLease'
  <2>1. CASE Local!Readable
    BY <1>0, <1>9, <2>1, KeepsFile DEF Local!Read, InUse, Local!TypeOK
  <2>2. CASE ~Local!Readable
    BY <1>0, <1>9, <2>2, LocalCallStep, KeepsFile DEF Local!Read, InUse, Local!Steps
  <2>. QED
    BY <2>1, <2>2
<1>10. ASSUME NEW p \in Pids, Local!Judge(p) PROVE Local!HolderKeepsLease'
  BY <1>0, <1>10, LocalCallStep, KeepsFile DEF Local!Judge, Local!Steps, InUse
<1>11. ASSUME NEW p \in Pids, Local!Stat(p) PROVE Local!HolderKeepsLease'
  <2>1. Local!Again(p) \/ Local!Go(p, "unlink") \/ Local!Return(p)
    BY <1>11 DEF Local!Stat
  <2>. QED
    BY <1>0, <1>11, <2>1, LocalCallStep, KeepsFile DEF Local!Stat, Local!Steps, InUse
<1>12. ASSUME NEW p \in Pids, Local!Unlink(p) PROVE Local!HolderKeepsLease'
  BY <1>0, <1>12, LocalCallStep, RemovesFile DEF Local!Unlink, InUse
<1>13. ASSUME NEW p \in Pids, Local!Start(p) PROVE Local!HolderKeepsLease'
  <2>1. call[p].step = "idle"
    BY <1>13 DEF Local!Start, LocalInv, GoneIdle, Local!Alive
  <2>. QED
    BY <1>0, <1>13, <2>1 DEF Local!Start, Local!HolderKeepsLease, Local!Using, Local!At,
       Local!Alive, Local!Mine, Local!TypeOK
<1>14. ASSUME NEW p \in Pids, Local!Die(p) PROVE Local!HolderKeepsLease'
  BY <1>0, <1>14, LocalCallStep DEF Local!Die, Local!HolderKeepsLease, Local!Using,
     Local!At, Local!Alive, Local!Mine, Local!TypeOK
<1>15. CASE Local!Reboot
  BY <1>15 DEF Local!Reboot, Local!HolderKeepsLease, Local!Using, Local!At, Local!Alive
<1>16. CASE Local!Age
  <2>1. file' \in Local!Files /\ file'.pid = file.pid /\ file'.boot = file.boot
    BY <1>0, <1>16 DEF Local!Age, Local!Files, Local!TypeOK
  <2>. QED
    BY <1>0, <1>16, <2>1, LocalBounds DEF Local!HostAssumption, Local!Age,
       Local!HolderKeepsLease, Local!Using, Local!At, Local!Alive, Local!Mine, Local!Files
<1>17. CASE UNCHANGED Local!vars
  BY <1>0, <1>17 DEF Local!vars, Local!HolderKeepsLease, Local!Using, Local!At,
     Local!Alive, Local!Mine
<1>. QED
  BY <1>1, <1>2, <1>3, <1>4, <1>5, <1>6, <1>7, <1>8, <1>9, <1>10, <1>11, <1>12, <1>13,
     <1>14, <1>15, <1>16, <1>17 DEF Local!Next

\* A pid's call moves only while it runs; dying and rebooting end it.
LEMMA LocalNextGoneIdle == Local!TypeOK /\ GoneIdle /\ [Local!Next]_Local!vars => GoneIdle'
<1>. SUFFICES ASSUME Local!TypeOK, GoneIdle, [Local!Next]_Local!vars PROVE GoneIdle'
  OBVIOUS
<1>1. ASSUME NEW p \in Pids, Local!Alive(p), UNCHANGED status,
             \A q \in Pids \ {p} : call'[q] = call[q]
      PROVE  GoneIdle'
  BY <1>1 DEF GoneIdle, Local!Alive
<1>2. ASSUME NEW p \in Pids,
             \/ Local!Acquire(p) \/ Local!Create(p) \/ Local!Exists(p)
             \/ Local!Write(p) \/ Local!WriteFails(p)
             \/ Local!Synced(p) \/ Local!SyncFails(p) \/ Local!Release(p)
             \/ Local!Read(p) \/ Local!Judge(p) \/ Local!Stat(p) \/ Local!Unlink(p)
      PROVE  GoneIdle'
  <2>1. Local!Alive(p) /\ UNCHANGED status
    BY <1>2 DEF Local!Acquire, Local!Create, Local!Exists, Local!Write, Local!WriteFails,
       Local!Synced, Local!SyncFails, Local!Release, Local!Read, Local!Judge, Local!Stat,
       Local!Unlink, Local!At
  <2>2. \E c : call' = [call EXCEPT ![p] = c]
    BY <1>2 DEF Local!Acquire, Local!Create, Local!Exists, Local!Write, Local!WriteFails,
       Local!Synced, Local!SyncFails, Local!Release, Local!Read, Local!Judge, Local!Stat,
       Local!Unlink, Local!Go, Local!Return, Local!Again
  <2>3. \A q \in Pids \ {p} : call'[q] = call[q]
    BY <2>2 DEF Local!TypeOK
  <2>. QED
    BY <1>1, <2>1, <2>3
<1>3. ASSUME NEW p \in Pids, Local!Start(p) PROVE GoneIdle'
  BY <1>3 DEF Local!Start, GoneIdle, Local!Alive, Local!TypeOK
<1>4. ASSUME NEW p \in Pids, Local!Die(p) PROVE GoneIdle'
  <2>1. call'[p].step = "idle" /\ \A q \in Pids \ {p} : call'[q] = call[q]
    BY <1>4, LocalCallStep DEF Local!Die
  <2>2. \A q \in Pids \ {p} : status'[q] = status[q]
    BY <1>4 DEF Local!Die, Local!TypeOK
  <2>. QED
    BY <2>1, <2>2 DEF GoneIdle, Local!Alive
<1>5. CASE Local!Reboot
  BY <1>5, LocalCallFacts DEF Local!Reboot, GoneIdle
<1>6. CASE Local!Age \/ UNCHANGED Local!vars
  BY <1>6 DEF Local!Age, Local!vars, GoneIdle, Local!Alive
<1>. QED
  BY <1>2, <1>3, <1>4, <1>5, <1>6 DEF Local!Next

\* The inductive invariant.
LEMMA LocalInductive == Local!Spec => []LocalInv
<1>1. Local!Init => LocalInv
  BY LocalInit
<1>2. LocalInv /\ [Local!Next]_Local!vars => LocalInv'
  BY LocalNextTypes, LocalNextKeeps, LocalNextGoneIdle DEF LocalInv
<1>. QED
  BY <1>1, <1>2, PTL DEF Local!Spec

--------------------------------------------------------------------------------
\* The lease's state keeps its types, whatever the number of processes and boots.
THEOREM LeaseTypes == Local!Spec => []Local!TypeOK
<1>1. LocalInv => Local!TypeOK
  BY DEF LocalInv
<1>. QED
  BY <1>1, LocalInductive, PTL

\* A holder's lease stays at its path unless a takeover removes it while the
\* holder lives (acquireLease): failed writes, deaths and reboots do not.
THEOREM HolderSafe == Local!Spec => []Local!HolderKeepsLease
<1>1. LocalInv => Local!HolderKeepsLease
  BY DEF LocalInv
<1>. QED
  BY <1>1, LocalInductive, PTL

\* Without such a takeover the lease is a lock: one holder at a time.
THEOREM ExclusiveUnlessStolen == Local!Spec => [](~stolen => Local!OneHolder)
<1>1. LocalInv => (~stolen => Local!OneHolder)
  BY DEF LocalInv, Local!HolderKeepsLease, Local!OneHolder, Local!Using, Local!At,
     Local!Mine
<1>. QED
  BY <1>1, LocalInductive, PTL

--------------------------------------------------------------------------------
\* The mutation lease
\* A process that is in no call has no lease, any other has one of its own.
OwnLease ==
  \A p \in Global!Procs : IF Global!At(p, "idle") THEN use[p].mine = NoLease
                   ELSE use[p].mine # NoLease /\ use[p].mine.pid = p

GlobalInv == Global!TypeOK /\ OwnLease /\ Global!HolderKeepsLease

--------------------------------------------------------------------------------
\* What the operators on calls do to them.
LEMMA GlobalCallFacts ==
  ASSUME Global!MutationAssumption, Global!TypeOK, NEW p \in Global!Procs
  PROVE  /\ Global!Idle \in Global!Calls /\ Global!Idle.step = "idle" /\ Global!Idle.mine = NoLease
         /\ Global!Return(p) => use' \in [Global!Procs -> Global!Calls] /\ use'[p] = Global!Idle
         /\ \A step \in Global!Steps : Global!Go(p, step) =>
              /\ use' \in [Global!Procs -> Global!Calls]
              /\ use'[p].step = step /\ use'[p].mine = use[p].mine
         /\ \A step \in Global!Steps : Global!Return(p) \/ Global!Go(p, step) =>
              \A q \in Global!Procs \ {p} : use'[q] = use[q]
<1>1. Global!Idle \in Global!Calls
  BY DEF Global!Idle, Global!Calls, Global!Steps
<1>2. use \in [Global!Procs -> Global!Calls]
  BY DEF Global!TypeOK
<1>3. ASSUME NEW step \in Global!Steps, Global!Go(p, step)
      PROVE  /\ use' \in [Global!Procs -> Global!Calls]
             /\ use'[p].step = step /\ use'[p].mine = use[p].mine
             /\ \A q \in Global!Procs \ {p} : use'[q] = use[q]
  <2>1. [use[p] EXCEPT !.step = step] \in Global!Calls
    BY <1>2 DEF Global!Calls
  <2>. QED
    BY <1>2, <1>3, <2>1 DEF Global!Go, Global!Calls
<1>4. Global!Idle.step = "idle" /\ Global!Idle.mine = NoLease
  BY DEF Global!Idle
<1>5. ASSUME Global!Return(p)
      PROVE  /\ use' \in [Global!Procs -> Global!Calls] /\ use'[p] = Global!Idle
             /\ \A q \in Global!Procs \ {p} : use'[q] = use[q]
  BY <1>1, <1>2, <1>5 DEF Global!Return
<1>. QED
  BY <1>1, <1>3, <1>4, <1>5

\* A step of p that leaves the path alone and holds only what was held.
LEMMA KeepsPath ==
  ASSUME GlobalInv, NEW p \in Global!Procs, UNCHANGED <<path, robbed>>,
         \A q \in Global!Procs \ {p} : use'[q] = use[q],
         Global!Holding(p)' => Global!Holding(p) /\ use'[p].mine = use[p].mine
  PROVE  Global!HolderKeepsLease'
BY DEF GlobalInv, Global!HolderKeepsLease, Global!Holding, Global!At

\* A step of p that empties the path, which was p's own, or stale, or is stolen.
LEMMA EmptiesPath ==
  ASSUME Global!MutationAssumption, GlobalInv, NEW p \in Global!Procs, path' = NoLease,
         robbed => robbed', ~Global!Holding(p)',
         Global!Holding(p) \/ path = NoLease \/ Global!Stale(path) \/ robbed',
         \A q \in Global!Procs \ {p} : use'[q] = use[q]
  PROVE  Global!HolderKeepsLease'
<1>. SUFFICES ASSUME ~robbed', NEW q \in Global!Procs, Global!Holding(q)' PROVE FALSE
  BY DEF Global!HolderKeepsLease
<1>1. q # p /\ Global!Holding(q)
  BY DEF Global!Holding, Global!At
<1>2. path = use[q].mine
  BY <1>1 DEF GlobalInv, Global!HolderKeepsLease
<1>3. use[q].mine # NoLease /\ use[q].mine.pid = q
  BY <1>1 DEF GlobalInv, OwnLease, Global!Holding, Global!At
<1>4. path # NoLease /\ ~Global!Stale(path)
  BY <1>2, <1>3 DEF Global!Stale, Global!Using
<1>5. Global!Holding(p)
  BY <1>4
<1>6. path = use[p].mine /\ use[p].mine.pid = p
  BY <1>5 DEF GlobalInv, Global!HolderKeepsLease, OwnLease, Global!Holding, Global!At
<1>. QED
  BY <1>1, <1>2, <1>3, <1>6

--------------------------------------------------------------------------------
LEMMA GlobalInit == Global!MutationAssumption /\ Global!Init => GlobalInv
<1>. SUFFICES ASSUME Global!MutationAssumption, Global!Init PROVE GlobalInv
  OBVIOUS
<1>1. Global!Idle \in Global!Calls /\ Global!Idle.step = "idle" /\ Global!Idle.mine = NoLease
  BY DEF Global!Idle, Global!Calls, Global!Steps
<1>2. Global!TypeOK
  <2>1. use \in [Global!Procs -> Global!Calls]
    BY <1>1 DEF Global!Init
  <2>2. tokens \in 0..MaxTokens
    BY DEF Global!Init, Global!MutationAssumption
  <2>. QED
    BY <2>1, <2>2 DEF Global!Init, Global!TypeOK
<1>3. OwnLease /\ Global!HolderKeepsLease
  BY <1>1 DEF Global!Init, OwnLease, Global!HolderKeepsLease, Global!Holding, Global!At
<1>. QED
  BY <1>2, <1>3 DEF GlobalInv

\* The lease and the call that an acquisition begins with.
LEMMA Begins ==
  ASSUME Global!MutationAssumption, Global!TypeOK, NEW p \in Global!Procs, Global!Acquire(p)
  PROVE  /\ tokens' \in 0..MaxTokens /\ use' \in [Global!Procs -> Global!Calls]
         /\ use'[p].step = "link" /\ use'[p].mine # NoLease /\ use'[p].mine.pid = p
         /\ \A q \in Global!Procs \ {p} : use'[q] = use[q]
<1>. DEFINE drawn == [pid |-> p, token |-> tokens']
            begun == [Global!Idle EXCEPT !.step = "link", !.mine = drawn]
<1>1. tokens' \in 1..MaxTokens
  BY DEF Global!Acquire, Global!TypeOK, Global!MutationAssumption
<1>2. drawn \in Global!Leases
  BY <1>1 DEF Global!Leases
<1>3. begun \in Global!Calls /\ begun.step = "link" /\ begun.mine = drawn
  BY <1>2 DEF Global!Idle, Global!Calls, Global!Steps
<1>4. use' = [use EXCEPT ![p] = begun]
  BY DEF Global!Acquire
<1>5. drawn # NoLease
  BY <1>2 DEF Global!MutationAssumption
<1>. HIDE DEF begun
<1>. QED
  BY <1>1, <1>3, <1>4, <1>5 DEF Global!TypeOK

\* A takeover that goes on tries again with the lease it has.
LEMMA TakesOver ==
  ASSUME Global!MutationAssumption, Global!TypeOK, NEW p \in Global!Procs, Global!Unlink(p)
  PROVE  /\ use' \in [Global!Procs -> Global!Calls] /\ robbed' \in BOOLEAN
         /\ \/ use'[p] = Global!Idle
            \/ use'[p].step = "link" /\ use'[p].mine = use[p].mine
         /\ \A q \in Global!Procs \ {p} : use'[q] = use[q]
<1>1. CASE path = NoLease \/ use[p].again
  <2>1. Global!Return(p)
    BY <1>1 DEF Global!Unlink
  <2>2. robbed' \in BOOLEAN
    BY DEF Global!Unlink, Global!TypeOK, Global!Stale
  <2>. QED
    BY <2>1, <2>2, GlobalCallFacts DEF Global!Steps
<1>2. CASE ~(path = NoLease \/ use[p].again)
  <2>1. use' = [use EXCEPT ![p].step = "link", ![p].again = TRUE, ![p].raw = NoLease]
    BY <1>2 DEF Global!Unlink
  <2>2. [use[p] EXCEPT !.step = "link", !.again = TRUE, !.raw = NoLease] \in Global!Calls
    BY DEF Global!TypeOK, Global!Calls, Global!Steps
  <2>3. robbed' \in BOOLEAN
    BY DEF Global!Unlink, Global!TypeOK, Global!Stale
  <2>. QED
    BY <2>1, <2>2, <2>3 DEF Global!TypeOK, Global!Calls
<1>. QED
  BY <1>1, <1>2

\* A reading goes on with what it read.
LEMMA ReadsOn ==
  ASSUME Global!MutationAssumption, Global!TypeOK, NEW p \in Global!Procs, Global!Read(p)
  PROVE  /\ use' \in [Global!Procs -> Global!Calls]
         /\ \/ use'[p] = Global!Idle
            \/ use'[p].step = "compare" /\ use'[p].mine = use[p].mine
         /\ \A q \in Global!Procs \ {p} : use'[q] = use[q]
<1>1. CASE path # NoLease /\ Global!Stale(path)
  <2>1. use' = [use EXCEPT ![p].step = "compare", ![p].raw = path]
    BY <1>1 DEF Global!Read
  <2>2. [use[p] EXCEPT !.step = "compare", !.raw = path] \in Global!Calls
    BY DEF Global!TypeOK, Global!Calls, Global!Steps
  <2>. QED
    BY <2>1, <2>2 DEF Global!TypeOK, Global!Calls
<1>2. CASE ~(path # NoLease /\ Global!Stale(path))
  <2>1. Global!Return(p)
    BY <1>2 DEF Global!Read
  <2>. QED
    BY <2>1, GlobalCallFacts DEF Global!Steps
<1>. QED
  BY <1>1, <1>2

\* The steps that only move a call on, or end it.
Moves(p) ==
  \/ Global!Return(p)
  \/ \E step \in Global!Steps \ {"idle"} : Global!Go(p, step)

LEMMA WorkMoves ==
  ASSUME NEW p \in Global!Procs,
         Global!Link(p) \/ Global!Exists(p) \/ Global!Compare(p) \/ Global!Check(p)
         \/ Global!Remove(p) \/ Global!Die(p)
  PROVE  Moves(p) /\ ~Global!At(p, "idle") /\ UNCHANGED tokens
BY DEF Global!Link, Global!Exists, Global!Compare, Global!Check, Global!Remove,
   Global!Die, Moves, Global!Steps, Global!At

LEMMA GlobalNextTypes ==
  Global!MutationAssumption /\ Global!TypeOK /\ [Global!Next]_Global!vars => Global!TypeOK'
<1>. SUFFICES ASSUME Global!MutationAssumption, Global!TypeOK, [Global!Next]_Global!vars
             PROVE  Global!TypeOK'
  OBVIOUS
<1>1. ASSUME NEW p \in Global!Procs, Global!Acquire(p) PROVE Global!TypeOK'
  BY <1>1, Begins DEF Global!Acquire, Global!TypeOK
<1>2. ASSUME NEW p \in Global!Procs, Global!Read(p) PROVE Global!TypeOK'
  BY <1>2, ReadsOn DEF Global!Read, Global!TypeOK
<1>3. ASSUME NEW p \in Global!Procs, Global!Unlink(p) PROVE Global!TypeOK'
  BY <1>3, TakesOver DEF Global!Unlink, Global!TypeOK
<1>4. ASSUME NEW p \in Global!Procs,
             Global!Link(p) \/ Global!Exists(p) \/ Global!Compare(p) \/ Global!Check(p)
             \/ Global!Remove(p) \/ Global!Die(p)
      PROVE  Global!TypeOK'
  <2>1. use' \in [Global!Procs -> Global!Calls] /\ UNCHANGED tokens
    BY <1>4, WorkMoves, GlobalCallFacts DEF Moves
  <2>2. path' \in Global!Leases \cup {NoLease}
    BY <1>4 DEF Global!Link, Global!Exists, Global!Compare, Global!Check, Global!Remove,
       Global!Die, Global!TypeOK, Global!Calls
  <2>3. UNCHANGED robbed
    BY <1>4 DEF Global!Link, Global!Exists, Global!Compare, Global!Check, Global!Remove,
       Global!Die
  <2>. QED
    BY <2>1, <2>2, <2>3 DEF Global!TypeOK
<1>5. CASE UNCHANGED Global!vars
  BY <1>5 DEF Global!vars, Global!TypeOK
<1>. QED
  BY <1>1, <1>2, <1>3, <1>4, <1>5 DEF Global!Next, Global!Work

LEMMA GlobalNextOwn ==
  Global!MutationAssumption /\ GlobalInv /\ [Global!Next]_Global!vars => OwnLease'
<1>. SUFFICES ASSUME Global!MutationAssumption, GlobalInv, [Global!Next]_Global!vars
             PROVE  OwnLease'
  OBVIOUS
<1>0. Global!TypeOK /\ OwnLease
  BY DEF GlobalInv
<1>1. ASSUME NEW p \in Global!Procs, \A q \in Global!Procs \ {p} : use'[q] = use[q],
             IF use'[p].step = "idle" THEN use'[p].mine = NoLease
             ELSE use'[p].mine # NoLease /\ use'[p].mine.pid = p
      PROVE  OwnLease'
  BY <1>0, <1>1 DEF OwnLease, Global!At
<1>2. ASSUME NEW p \in Global!Procs, Global!Acquire(p) PROVE OwnLease'
  BY <1>0, <1>1, <1>2, Begins
<1>3. ASSUME NEW p \in Global!Procs, Global!Read(p) \/ Global!Unlink(p) PROVE OwnLease'
  <2>1. use[p].mine # NoLease /\ use[p].mine.pid = p
    BY <1>0, <1>3 DEF Global!Read, Global!Unlink, OwnLease, Global!At
  <2>. QED
    BY <1>0, <1>1, <1>3, <2>1, ReadsOn, TakesOver, GlobalCallFacts
<1>4. ASSUME NEW p \in Global!Procs,
             Global!Link(p) \/ Global!Exists(p) \/ Global!Compare(p) \/ Global!Check(p)
             \/ Global!Remove(p) \/ Global!Die(p)
      PROVE  OwnLease'
  <2>1. use[p].mine # NoLease /\ use[p].mine.pid = p
    BY <1>0, <1>4, WorkMoves DEF OwnLease
  <2>. QED
    BY <1>0, <1>1, <1>4, <2>1, WorkMoves, GlobalCallFacts DEF Moves, Global!Steps
<1>5. CASE UNCHANGED Global!vars
  BY <1>0, <1>5 DEF Global!vars, OwnLease, Global!At
<1>. QED
  BY <1>2, <1>3, <1>4, <1>5 DEF Global!Next, Global!Work

LEMMA GlobalNextKeeps ==
  Global!MutationAssumption /\ GlobalInv /\ [Global!Next]_Global!vars => Global!HolderKeepsLease'
<1>. SUFFICES ASSUME Global!MutationAssumption, GlobalInv, [Global!Next]_Global!vars
             PROVE  Global!HolderKeepsLease'
  OBVIOUS
<1>0. Global!TypeOK /\ OwnLease /\ Global!HolderKeepsLease
  BY DEF GlobalInv
<1>1. ASSUME NEW p \in Global!Procs, Global!Acquire(p) PROVE Global!HolderKeepsLease'
  BY <1>0, <1>1, Begins, KeepsPath DEF Global!Acquire, Global!Holding, Global!At
<1>2. ASSUME NEW p \in Global!Procs, Global!Link(p) PROVE Global!HolderKeepsLease'
  <2>1. use'[p].mine = use[p].mine /\ \A q \in Global!Procs \ {p} : use'[q] = use[q]
    BY <1>0, <1>2, GlobalCallFacts DEF Global!Link, Global!Steps
  <2>2. ASSUME NEW q \in Global!Procs, Global!Holding(q), ~robbed PROVE FALSE
    BY <1>0, <1>2, <2>2 DEF Global!Link, Global!Vacant, Global!HolderKeepsLease, OwnLease,
       Global!Holding, Global!At
  <2>. QED
    BY <1>2, <2>1, <2>2 DEF Global!Link, Global!HolderKeepsLease, Global!Holding,
       Global!At
<1>3. ASSUME NEW p \in Global!Procs, Global!Exists(p) PROVE Global!HolderKeepsLease'
  BY <1>0, <1>3, GlobalCallFacts, KeepsPath DEF Global!Exists, Global!Holding, Global!At,
     Global!Steps
<1>4. ASSUME NEW p \in Global!Procs, Global!Read(p) PROVE Global!HolderKeepsLease'
  BY <1>0, <1>4, ReadsOn, GlobalCallFacts, KeepsPath DEF Global!Read, Global!Holding,
     Global!At
<1>5. ASSUME NEW p \in Global!Procs, Global!Compare(p) PROVE Global!HolderKeepsLease'
  BY <1>0, <1>5, GlobalCallFacts, KeepsPath DEF Global!Compare, Global!Holding, Global!At,
     Global!Steps
<1>6. ASSUME NEW p \in Global!Procs, Global!Unlink(p) PROVE Global!HolderKeepsLease'
  <2>1. ~Global!Holding(p)' /\ \A q \in Global!Procs \ {p} : use'[q] = use[q]
    BY <1>0, <1>6, TakesOver, GlobalCallFacts DEF Global!Holding, Global!At
  <2>. QED
    BY <1>6, <2>1, EmptiesPath DEF Global!Unlink
<1>7. ASSUME NEW p \in Global!Procs, Global!Check(p) PROVE Global!HolderKeepsLease'
  BY <1>0, <1>7, GlobalCallFacts, KeepsPath DEF Global!Check, Global!Holding, Global!At,
     Global!Steps
<1>8. ASSUME NEW p \in Global!Procs, Global!Remove(p) PROVE Global!HolderKeepsLease'
  <2>1. ~Global!Holding(p)' /\ \A q \in Global!Procs \ {p} : use'[q] = use[q]
    BY <1>0, <1>8, GlobalCallFacts DEF Global!Remove, Global!Holding, Global!At,
       Global!Steps
  <2>. QED
    BY <1>8, <2>1, EmptiesPath DEF Global!Remove, Global!Holding
<1>9. ASSUME NEW p \in Global!Procs, Global!Die(p) PROVE Global!HolderKeepsLease'
  BY <1>0, <1>9, GlobalCallFacts, KeepsPath DEF Global!Die, Global!Holding, Global!At,
     Global!Steps
<1>10. CASE UNCHANGED Global!vars
  BY <1>0, <1>10 DEF Global!vars, Global!HolderKeepsLease, Global!Holding, Global!At
<1>. QED
  BY <1>1, <1>2, <1>3, <1>4, <1>5, <1>6, <1>7, <1>8, <1>9, <1>10 DEF Global!Next,
     Global!Work

\* The inductive invariant.
LEMMA GlobalInductive ==
  ASSUME Global!MutationAssumption
  PROVE  Global!Spec => []GlobalInv
<1>1. Global!Init => GlobalInv
  BY GlobalInit
<1>2. GlobalInv /\ [Global!Next]_Global!vars => GlobalInv'
  BY GlobalNextTypes, GlobalNextOwn, GlobalNextKeeps DEF GlobalInv
<1>. QED
  BY <1>1, <1>2, PTL DEF Global!Spec

--------------------------------------------------------------------------------
\* The types of the lease's state, whatever the number of processes.
THEOREM MutationTypes ==
  ASSUME Global!MutationAssumption
  PROVE  Global!Spec => []Global!TypeOK
<1>1. GlobalInv => Global!TypeOK
  BY DEF GlobalInv
<1>. QED
  BY <1>1, GlobalInductive, PTL

\* A living holder's lease stays at its path, and its release removes no other's,
\* unless a takeover removed a living owner's lease (capital-control.mjs,
\* paper_execution.py).
THEOREM MutationHolderSafe ==
  ASSUME Global!MutationAssumption
  PROVE  Global!Spec => []Global!HolderKeepsLease
<1>1. GlobalInv => Global!HolderKeepsLease
  BY DEF GlobalInv
<1>. QED
  BY <1>1, GlobalInductive, PTL

\* Without such a takeover the lease is a lock: one mutation at a time.
THEOREM MutationExclusive ==
  ASSUME Global!MutationAssumption
  PROVE  Global!Spec => [](~robbed => Global!OneHolder)
<1>1. GlobalInv => (~robbed => Global!OneHolder)
  BY DEF GlobalInv, Global!HolderKeepsLease, OwnLease, Global!OneHolder, Global!Holding,
     Global!At
<1>. QED
  BY <1>1, GlobalInductive, PTL
--------------------------------------------------------------------------------
\* Each of the three does its own steps or none.
LEMMA PaperParts ==
  PaperSpec =>
    /\ Init /\ [][Next]_vars
    /\ Local!Init /\ [][Local!Next]_Local!vars
    /\ Global!Init /\ [][Global!Next]_Global!vars
<1>1. PaperSpec => PaperInit /\ [][PaperNext]_allVars
  BY PTL DEF PaperSpec, PaperSafety
<1>2. PaperInit => Init /\ Local!Init /\ Global!Init
  BY DEF PaperInit
<1>3. [PaperNext]_allVars => [Next]_vars /\ [Local!Next]_Local!vars /\ [Global!Next]_Global!vars
  BY DEF PaperNext, allVars, localVars, globalVars, Local!vars, Global!vars
<1>. QED BY <1>1, <1>2, <1>3, PTL

\* Whatever process dies and whoever releases, the living holder of the host's
\* lease has it at the path, unless a takeover removed it (storage.mjs).
THEOREM LeaseKept == PaperSpec => []HolderKeepsLease
<1>1. Local!Init => LocalInv
  BY LocalInit
<1>2. LocalInv /\ [Local!Next]_Local!vars => LocalInv'
  BY LocalNextTypes, LocalNextKeeps, LocalNextGoneIdle DEF LocalInv
<1>3. LocalInv => HolderKeepsLease
  BY DEF LocalInv, HolderKeepsLease
<1>. QED BY <1>1, <1>2, <1>3, PaperParts, PTL

\* One mutation at a time: no intent is ordered again while an earlier order may
\* fill, and the mutation lease is its holder's until a takeover (paper_execution.py,
\* capital-control.mjs).
THEOREM OneMutationAtATime == PaperSpec => []OneMutation
<1>1. Global!Init => GlobalInv
  BY GlobalInit, GlobalBounds
<1>2. GlobalInv /\ [Global!Next]_Global!vars => GlobalInv'
  BY GlobalNextTypes, GlobalNextOwn, GlobalNextKeeps, GlobalBounds DEF GlobalInv
<1>3. GlobalInv => Global!HolderKeepsLease
  BY DEF GlobalInv
<1>4. Init => IInv
  BY InitInv, PaperBounds
<1>5. IInv /\ [Next]_vars => IInv'
  BY NextInv, PaperBounds
<1>6. IInv => OneExposure
  BY InvExposure
<1>7. OneExposure /\ Global!HolderKeepsLease <=> OneMutation
  BY DEF OneMutation
<1>. QED BY <1>1, <1>2, <1>3, <1>4, <1>5, <1>6, <1>7, PaperParts, PTL
=============================================================================
