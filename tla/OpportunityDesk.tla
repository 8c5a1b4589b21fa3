-------------------------- MODULE OpportunityDesk --------------------------
(* From candidates to a ranking book: the Foundry makes one opportunity of   *)
(* the candidates of a cycle that tell the same story, the registry refreshes*)
(* or suppresses what earlier cycles already hold, two assessors and a       *)
(* moderator review each, and the ranking keeps what passed its gates.       *)
(* foundry.py, b4_runtime.py, opportunity_registry.py, agentic_roles.py,     *)
(* agentic_deliberation.py, deliberation.py, ranking.py, ranking_store.py    *)
(* and mvp_research_flow.py, with the effect on an opportunity of a position *)
(* that opens and closes (b5_runtime.py).  One thread runs the cycles; an    *)
(* attempt may fail between two transactions, and then the cycle runs again, *)
(* perhaps with candidates of Scouts that had failed before.  An identity    *)
(* and a piece of content are names, a snapshot is the sequence of candidate *)
(* sets it was made from; what the models answer and what the gates make of  *)
(* it are choices.                                                           *)
EXTENDS Naturals, Sequences, FiniteSets, Functions

CONSTANTS
  MaxCycles,        \* bound: cycles with candidates
  Slots,            \* bound: candidates of each cycle, numbered in the order of their ids
  Drafts,           \* what a Scout may hand in: [exact, structural, follow, evidence]
  MaxEvidence,      \* MAX_REGISTRY_EVIDENCE
  MaxRoleAttempts,  \* MAX_ROLE_ATTEMPTS
  MaxFaults         \* bound: attempts that fail or die

DeskAssumption ==
  /\ {MaxCycles, MaxEvidence, MaxRoleAttempts} \subseteq Nat \ {0} /\ Slots \in [1..MaxCycles -> Nat]
  /\ MaxFaults \in Nat
  /\ \A d \in Drafts : DOMAIN d = {"exact", "structural", "follow", "evidence"}

VARIABLES
  \* durable: candidates, opportunities and what the registry made of each, the
  \* role runs of the cycle (no later one reads them), locked assessments, shared
  \* and discussed snapshots, ranking rows, the position of each opportunity
  candidate, opp, event, run, assessment, shared, discussed, book, position, cycle,
  \* volatile: where the attempt is, the drafts it reviews, which one, the role
  \* whose turn it is, whether its model was asked, the snapshot each private
  \* view is of, and what was reviewed and then ranked
  step, drafts, turn, seat, asked, pair, reviewed,
  \* history: the last resolution of the cycle; failed attempts
  last, faults

registry == <<candidate, opp, event>>
reviews == <<run, assessment, shared, discussed>>
durable == <<registry, reviews, book, position, cycle>>
review == <<turn, seat, asked, pair, reviewed>>
attempt == <<step, drafts, review>>
vars == <<durable, attempt, last, faults>>

Cand == UNION {{k} \X (1..Slots[k]) : k \in 1..MaxCycles}
Nobody == <<0, 0>>
Nothing == [exact |-> "none", structural |-> "none", follow |-> FALSE, evidence |-> <<>>]
NoRow == [state |-> "none", status |-> "none", parent |-> Nobody, exact |-> "none",
          structural |-> "none", evidence |-> <<>>, snap |-> <<>>, known |-> 0]
Private == 1..2         \* the thesis assessor and the disconfirming one
Moderator == 3
NoRun == [status |-> "none", attempts |-> 0, input |-> <<>>]
NoPair == [s \in Private |-> <<>>]
Unresolved == [batch |-> {}, drafts |-> <<>>]
Steps == {"start", "scouts", "foundry", "resolve", "review", "lock", "share", "record",
          "rank", "open", "complete"}

Init ==
  /\ candidate = [c \in Cand |-> Nothing] /\ opp = [c \in Cand |-> NoRow]
  /\ event = [c \in Cand |-> "none"]
  /\ run = [c \in Cand |-> [s \in Private \cup {Moderator} |-> NoRun]]
  /\ assessment = {} /\ shared = {} /\ discussed = {} /\ book = {}
  /\ position = [c \in Cand |-> [cycle |-> 0, open |-> FALSE]] /\ cycle = 1
  /\ step = "start" /\ drafts = <<>>
  /\ turn = 1 /\ seat = 1 /\ asked = FALSE /\ pair = NoPair /\ reviewed = {}
  /\ last = Unresolved /\ faults = 0

-----------------------------------------------------------------------------
\* The Foundry: what the candidates of the cycle say together.

Batch == {c \in Cand : c[1] = cycle /\ candidate[c] # Nothing}

Alike(c, d) == \/ candidate[c].exact = candidate[d].exact
               \/ candidate[c].structural = candidate[d].structural

\* Candidates are one group when a chain of alike ones links them.
Group(c) ==
  {d \in Batch : \A S \in SUBSET Batch :
     c \in S /\ (\A x \in S, y \in Batch : Alike(x, y) => y \in S) => d \in S}

\* The first of a group lends it its identity, the latest follow-up its claim.
Anchors == {c \in Batch : \A d \in Group(c) : c[2] <= d[2]}
Claim(c) ==
  LET followUps == {d \in Group(c) : candidate[d].follow}
  IN IF followUps = {} THEN c ELSE CHOOSE d \in followUps : \A e \in followUps : e[2] <= d[2]

Own(c) ==
  [id |-> c, exact |-> candidate[c].exact, structural |-> candidate[c].structural,
   evidence |-> candidate[Claim(c)].evidence, snap |-> <<Group(c)>>]

-----------------------------------------------------------------------------
\* The registry, on rows as the transaction sees them.

Live == {"forming", "ranked", "shadow"}

Parents(rows, d) ==
  {p \in Cand \ Anchors : /\ rows[p].state = "active" /\ rows[p].status \in Live
                          /\ rows[p].exact = d.exact \/ rows[p].structural = d.structural}

\* An exact match first, then what was known latest, then the id.
Before(rows, d, p, q) ==
  LET exact(r) == IF rows[r].exact = d.exact THEN 0 ELSE 1
  IN \/ exact(p) < exact(q)
     \/ exact(p) = exact(q) /\ rows[p].known > rows[q].known
     \/ exact(p) = exact(q) /\ rows[p].known = rows[q].known
        /\ (p[1] < q[1] \/ (p[1] = q[1] /\ p[2] < q[2]))
Parent(rows, d) ==
  CHOOSE p \in Parents(rows, d) : \A q \in Parents(rows, d) \ {p} : Before(rows, d, p, q)

\* Content of the opportunity as it stands and of all that was merged into it.
SeenContent(rows, p) ==
  UNION {Range(rows[q].evidence) : q \in {r \in Cand : r = p \/ rows[r].parent = p}}

BoundedByContent(s) ==
  LET kept[n \in 0..Len(s)] ==
        IF n = 0 THEN <<>>
        ELSE IF s[n] \in Range(kept[n - 1]) \/ Len(kept[n - 1]) = MaxEvidence THEN kept[n - 1]
        ELSE Append(kept[n - 1], s[n])
  IN kept[Len(s)]

CanonicalDraft(d, p, row) == [d EXCEPT !.id = p, !.evidence = row.evidence, !.snap = row.snap]

Refreshed(row, d) ==
  [row EXCEPT !.status = IF row.status = "shadow" THEN "shadow" ELSE "forming",
              !.exact = d.exact, !.structural = d.structural, !.known = cycle,
              !.evidence = BoundedByContent(d.evidence \o row.evidence),
              !.snap = row.snap \o d.snap]

Merge(acc, d, p) ==
  LET row == acc.rows[p]
      news == ~(Range(d.evidence) \subseteq SeenContent(acc.rows, p))
      action == IF ~news THEN "suppressed"
                ELSE IF row.status = "shadow" THEN "position_updated" ELSE "refreshed"
      merged == [acc.rows EXCEPT ![d.id].state = "merged", ![d.id].parent = p,
                                 ![d.id].status = "rejected"]
      rows == IF news THEN [merged EXCEPT ![p] = Refreshed(@, d)] ELSE merged
  IN [rows |-> rows,
      events |-> [acc.events EXCEPT ![d.id] = action],
      drafts |-> IF action = "refreshed" THEN Append(acc.drafts, CanonicalDraft(d, p, rows[p]))
                                         ELSE acc.drafts]

\* Mutant: whatever was merged before is reviewed again.
ResolveEveryMerged(acc, d) ==
  LET row == acc.rows[d.id]
  IN IF row.state = "merged"
     THEN [acc EXCEPT !.drafts = Append(@, CanonicalDraft(d, row.parent, acc.rows[row.parent]))]
     ELSE IF Parents(acc.rows, d) = {} THEN [acc EXCEPT !.drafts = Append(@, d)]
                                       ELSE Merge(acc, d, Parent(acc.rows, d))
\* What an earlier attempt merged is not merged again; it counts as it did then.
ResolveOne(acc, d) ==
  LET row == acc.rows[d.id]
  IN CASE row.state = "merged" /\ acc.events[d.id] = "refreshed" ->
            [acc EXCEPT !.drafts = Append(@, CanonicalDraft(d, row.parent, acc.rows[row.parent]))]
       [] row.state = "merged" /\ acc.events[d.id] # "refreshed" -> acc
       [] row.state # "merged" /\ Parents(acc.rows, d) = {} ->
            [acc EXCEPT !.drafts = Append(@, d)]
       [] OTHER -> Merge(acc, d, Parent(acc.rows, d))

\* The opportunities of the batch in the order of their ids, one after the
\* other; each sees what became of those before it.
Resolution ==
  LET walk[n \in 0..Slots[cycle]] ==
        IF n = 0 THEN [rows |-> opp, events |-> event, drafts |-> <<>>]
        ELSE IF <<cycle, n>> \in Anchors THEN ResolveOne(walk[n - 1], Own(<<cycle, n>>))
        ELSE walk[n - 1]
  IN walk[Slots[cycle]]

-----------------------------------------------------------------------------
\* Steps of the attempt up to the review.

NoReview == turn' = 1 /\ seat' = 1 /\ asked' = FALSE /\ pair' = NoPair /\ reviewed' = {}
Goes(s) == step' = s /\ NoReview

\* The attempt ends with an exception and the cycle is run again.
Raise == Goes("start") /\ drafts' = <<>>

\* Every attempt watches the open positions first; a close closes the opportunity.
Exit(o) ==
  /\ step = "start" /\ position[o].open
  /\ position' = [position EXCEPT ![o].open = FALSE]
  /\ opp' = [opp EXCEPT ![o].status = "closed"]
  /\ UNCHANGED <<candidate, event, reviews, book, cycle, attempt, last, faults>>

Start ==
  /\ step = "start" /\ Goes("scouts")
  /\ UNCHANGED <<durable, drafts, last, faults>>

\* Scouts that succeeded stay succeeded; those that failed may succeed now.
Scouts(found) ==
  /\ step = "scouts"
  /\ \A c \in DOMAIN found : c[1] = cycle /\ candidate[c] = Nothing
  /\ candidate' = [c \in Cand |-> IF c \in DOMAIN found THEN found[c] ELSE candidate[c]]
  /\ UNCHANGED <<opp, event, reviews, book, position, cycle, drafts, last, faults>>
  /\ Goes(IF Batch' = {} THEN "complete" ELSE "foundry")

Materialize ==
  /\ step = "foundry"
  /\ opp' = [c \in Cand |->
       IF c \in Anchors /\ opp[c].state = "none"
       THEN [state |-> "active", status |-> "forming", parent |-> Nobody, exact |-> Own(c).exact,
             structural |-> Own(c).structural, evidence |-> Own(c).evidence,
             snap |-> Own(c).snap, known |-> cycle]
       ELSE opp[c]]
  /\ Goes("resolve")
  /\ UNCHANGED <<candidate, event, reviews, book, position, cycle, drafts, last, faults>>

Resolve ==
  /\ step = "resolve"
  /\ opp' = Resolution.rows /\ event' = Resolution.events /\ drafts' = Resolution.drafts
  /\ last' = [batch |-> Batch, drafts |-> Resolution.drafts]
  /\ Goes(IF Resolution.drafts = <<>> THEN "complete" ELSE "review")
  /\ UNCHANGED <<candidate, reviews, book, position, cycle, faults>>

-----------------------------------------------------------------------------
\* Review: two private views, locked and shared, then a moderated discussion.

Draft == drafts[turn]
Role == run[Draft.id][seat]
\* What a role is given; the moderator also the place of the draft.
Input == <<Draft.snap, IF seat = Moderator THEN turn ELSE 0>>
Locked(o, s) == {a \in assessment : a.cycle = cycle /\ a.opp = o /\ a.seat = s}

NextDraft ==
  IF turn < Len(drafts)
  THEN step' = "review" /\ turn' = turn + 1 /\ seat' = 1 /\ asked' = FALSE /\ pair' = NoPair
  ELSE step' = "rank" /\ turn' = 1 /\ seat' = 1 /\ asked' = FALSE /\ pair' = NoPair

\* The opportunity is left out of the ranking.
Skip == NextDraft /\ UNCHANGED <<drafts, reviewed>>

Moves(s, to) == step' = s /\ seat' = to /\ asked' = FALSE /\ UNCHANGED <<drafts, turn, reviewed>>

\* The role has spoken on the snapshot.
Onward(snap) ==
  /\ pair' = IF seat = Moderator THEN pair ELSE [pair EXCEPT ![seat] = snap]
  /\ CASE seat = 1 -> Moves("review", 2)
       [] seat = 2 -> Moves("lock", 1)
       [] OTHER -> Moves("record", seat)

\* Mutant: a discussion nobody moderated counts as one without rounds.
SkipPrivate ==
  IF seat = Moderator THEN NextDraft /\ reviewed' = reviewed \cup {Draft.id} /\ UNCHANGED drafts ELSE Skip
Unavailable == Skip

\* A blocker is known before any model is asked, or the prompt is too large.
PreRejected ==
  /\ step = "review" /\ seat = 1 /\ ~asked
  /\ Skip
  /\ UNCHANGED <<durable, last, faults>>

\* An assessment that was locked in this cycle stands as it is.
LoadAssessment ==
  /\ step = "review" /\ ~asked
  /\ \E a \in Locked(Draft.id, seat) : Onward(a.snap)
  /\ UNCHANGED <<durable, last, faults>>

MayAsk == step = "review" /\ ~asked /\ Locked(Draft.id, seat) = {}

\* The output of a run that succeeded is found again, and filed under the
\* snapshot of the draft of this attempt.
RecoverOutput ==
  /\ MayAsk /\ Role.status \in {"succeeded", "spoiled"}
  /\ IF Role.status = "succeeded" THEN Onward(Draft.snap) ELSE Raise
  /\ UNCHANGED <<durable, last, faults>>

\* A run is started at most so many times, always with the same input.
StartRun ==
  /\ MayAsk /\ Role.status \in {"none", "failed", "running"}
  /\ IF Role.status = "none" \/ (Role.input = Input /\ Role.attempts < MaxRoleAttempts)
     THEN /\ run' = [run EXCEPT ![Draft.id][seat] =
               [status |-> "running", attempts |-> Role.attempts + 1, input |-> Input]]
          /\ asked' = TRUE /\ UNCHANGED <<step, drafts, turn, seat, pair, reviewed>>
     ELSE Raise /\ UNCHANGED run
  /\ UNCHANGED <<registry, assessment, shared, discussed, book, position, cycle, last, faults>>

Answered(status) == step = "review" /\ asked /\ run' = [run EXCEPT ![Draft.id][seat].status = status]
Unheard == <<registry, assessment, shared, discussed, book, position, cycle, last, faults>>

Complete == Answered("succeeded") /\ Onward(Draft.snap) /\ UNCHANGED Unheard

\* The output is durable before it is looked at: a view that cites what the
\* snapshot does not hold, a discussion whose updates hang in the air.
CitesOutside == seat \in Private /\ Answered("spoiled") /\ Raise /\ UNCHANGED Unheard
Unanchored == seat = Moderator /\ Answered("spoiled") /\ Raise /\ UNCHANGED Unheard

\* An invalid output or a missed deadline is asked for again while it may be.
Retryable ==
  /\ Answered("failed")
  /\ IF Role.attempts < MaxRoleAttempts
     THEN asked' = FALSE /\ UNCHANGED <<step, drafts, turn, seat, pair, reviewed>>
     ELSE Unavailable
  /\ UNCHANGED Unheard

OverBudget == Answered("failed") /\ Unavailable /\ UNCHANGED Unheard
Broken == Answered("failed") /\ Raise /\ UNCHANGED Unheard

LockPrivateAssessment ==
  /\ step = "lock"
  /\ IF pair[seat] # Draft.snap THEN Raise /\ UNCHANGED assessment
     ELSE /\ assessment' = IF Locked(Draft.id, seat) # {} THEN assessment
               ELSE assessment \cup {[cycle |-> cycle, opp |-> Draft.id, seat |-> seat,
                                      snap |-> pair[seat], input |-> Role.input[1]]}
          /\ UNCHANGED pair
          /\ IF seat = 1 THEN Moves("lock", 2) ELSE Moves("share", seat)
  /\ UNCHANGED <<registry, run, shared, discussed, book, position, cycle, last, faults>>

\* The private views of the opportunity, of every cycle, are two and of this snapshot.
BothLocked ==
  LET rows == {a \in assessment : a.opp = Draft.id}
  IN /\ Cardinality(rows) = 2 /\ {a.seat : a \in rows} = Private
     /\ \A a \in rows : a.snap = Draft.snap

SharePrivateAssessments ==
  /\ step = "share"
  /\ IF BothLocked
     THEN shared' = shared \cup {<<Draft.id, Draft.snap>>} /\ UNCHANGED pair /\ Moves("review", Moderator)
     ELSE Raise /\ UNCHANGED shared
  /\ UNCHANGED <<registry, run, assessment, discussed, book, position, cycle, last, faults>>

RecordDiscussion ==
  /\ step = "record"
  /\ discussed' = discussed \cup {<<Draft.id, Draft.snap>>}
  /\ reviewed' = reviewed \cup {Draft.id}
  /\ NextDraft /\ UNCHANGED drafts
  /\ UNCHANGED <<registry, run, assessment, shared, book, position, cycle, last, faults>>

-----------------------------------------------------------------------------
\* Ranking, and what becomes of the first of the book.

\* The gates let through some of what has two private views and a discussion.
MayPass(passed) == passed \subseteq reviewed
RankedItems(passed) ==
  {[cycle |-> cycle, opp |-> d.id, snap |-> d.snap] : d \in {e \in Range(drafts) : e.id \in passed}}

\* A row of the cycle that exists stays; the status of the opportunity is
\* written in any case.
Rank(passed) ==
  /\ step = "rank" /\ MayPass(passed)
  /\ book' = book \cup
       {i \in RankedItems(passed) : ~\E b \in book : b.cycle = cycle /\ b.opp = i.opp}
  /\ opp' = [c \in Cand |-> IF c \in passed THEN [opp[c] EXCEPT !.status = "ranked"] ELSE opp[c]]
  /\ step' = (IF passed = {} THEN "complete" ELSE "open")
  /\ reviewed' = passed /\ UNCHANGED <<drafts, turn, seat, asked, pair>>
  /\ UNCHANGED <<candidate, event, reviews, position, cycle, last, faults>>

\* One position at a time, one opening a cycle; one that was opened stands.
OpenShadow(o) ==
  /\ step = "open" /\ o \in reviewed /\ ~position[o].open /\ position[o].cycle # cycle
  /\ position' = [position EXCEPT ![o] = [cycle |-> cycle, open |-> TRUE]]
  /\ opp' = [opp EXCEPT ![o].status = "shadow"]
  /\ Goes("complete")
  /\ UNCHANGED <<candidate, event, reviews, book, cycle, drafts, last, faults>>

NotOpened ==
  /\ step = "open" /\ Goes("complete")
  /\ UNCHANGED <<durable, drafts, last, faults>>

Later == MaxCycles + 1      \* bound: stands for every later cycle, without candidates
NextCycle ==
  /\ cycle' = (IF cycle < Later THEN cycle + 1 ELSE Later)
  /\ run' = [c \in Cand |-> [s \in Private \cup {Moderator} |-> NoRun]]
  /\ last' = Unresolved
  /\ Raise
  /\ UNCHANGED <<registry, assessment, shared, discussed, book, position, faults>>

Finish == step = "complete" /\ NextCycle

\* Recovery gives up a cycle that has not completed.
GiveUp == step = "start" /\ cycle < Later /\ NextCycle

\* The attempt fails or the process dies.
Fail ==
  /\ step # "start" /\ faults < MaxFaults /\ faults' = faults + 1
  /\ Raise
  /\ UNCHANGED <<durable, last>>

Found ==
  UNION {[S -> Drafts] : S \in SUBSET {c \in Cand : c[1] = cycle /\ candidate[c] = Nothing}}
Review ==
  \/ PreRejected \/ LoadAssessment \/ RecoverOutput \/ StartRun
  \/ Complete \/ CitesOutside \/ Unanchored \/ Retryable \/ OverBudget \/ Broken
  \/ LockPrivateAssessment \/ SharePrivateAssessments \/ RecordDiscussion

Next ==
  \/ Start \/ Materialize \/ Resolve \/ Review \/ NotOpened \/ Finish \/ GiveUp \/ Fail
  \/ step = "scouts" /\ \E found \in Found : Scouts(found)
  \/ \E passed \in SUBSET reviewed : Rank(passed)
  \/ \E o \in Cand : Exit(o) \/ OpenShadow(o)

Spec == Init /\ [][Next]_vars

-----------------------------------------------------------------------------
\* What is merged away is rejected, says why, and belongs to one active
\* opportunity: lineages are flat, however often the cycle was run.
RegistryTruthful ==
  \A c \in Cand : opp[c].state = "merged" =>
    /\ opp[c].status = "rejected" /\ event[c] # "none"
    /\ opp[opp[c].parent].state = "active"

\* What is ranked was assessed by both seats on the ranked snapshot in that
\* cycle, shared and discussed; no role is asked more often than it may.
ReviewsTruthful ==
  /\ \A b \in book :
       /\ \A s \in Private : \E a \in assessment :
            a.cycle = b.cycle /\ a.opp = b.opp /\ a.seat = s /\ a.snap = b.snap
       /\ <<b.opp, b.snap>> \in shared \cap discussed
  /\ \A c \in Cand : \A s \in DOMAIN run[c] : run[c][s].attempts <= MaxRoleAttempts

\* A cycle that is run again with the same candidates reviews the same drafts.
ResolvesAgain == step = "resolve" /\ step' \in {"review", "complete"} /\ last.batch = Batch
RetryResolvesSame == [][ResolvesAgain => drafts' = last.drafts]_vars

\* Violated: the private views that a refreshed opportunity got in this cycle
\* are never shared, since those of earlier cycles count too.
LockedIsShared == step = "share" => BothLocked
=============================================================================
