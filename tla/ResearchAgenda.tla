--------------------------- MODULE ResearchAgenda ---------------------------
(* What a wake asks its Scouts besides finding something new: which questions *)
(* of the active opportunities are due, which are put off because they were   *)
(* just looked into, who follows which up, and what of the input is given up  *)
(* when it does not fit.  research_agenda.py, opportunity_continuity.py, the  *)
(* registry memory of live_source_flow.py and the checks of FrozenScoutInput. *)
(* Cycles follow each other; between them opportunities move on, are assessed *)
(* and get new content.  Time is small numbers, scaled by Within and Wait;    *)
(* sizes are counted in parts.                                                *)
EXTENDS Naturals, Sequences, FiniteSets, FiniteSetsExt, SequencesExt

CONSTANTS
  Opps,             \* opportunities, in the order of their ids
  Prompts,          \* the questions their candidates bring: a function on Opps
  Horizon,          \* how far from now the deadlines are: a function on Opps
  Later,            \* bound: how far new content puts them
  Scouts,           \* the Scouts, in their order
  Within, Wait,     \* thresholds of the time that remains, cadence in each class
  MaxOpen, MaxPriority, MaxQueue, MaxFollowUp, MaxFrozen,   \* MAX_... of the code
  Offered,          \* bound: evidence a wake finds
  Rooms,            \* bound: how many parts of an input may fit
  MaxTime, MaxChanges   \* bounds: the clock, what happens between cycles

\* What candidates bring, what assessors ask, in the order of the agenda.
Origins == <<"next_test", "disconfirming", "pillar", "thesis", "rejection">>
Views == {"disconfirming", "thesis"}

AgendaAssumption ==
  /\ Opps \subseteq Nat /\ IsFiniteSet(Opps)
  /\ Prompts \in [Opps -> SUBSET (Range(Origins) \ Views)]
  /\ Horizon \in [Opps -> Nat] /\ Later \cup Rooms \subseteq Nat
  /\ Scouts \in Seq(Range(Scouts))
  /\ \A j, k \in 1..Len(Scouts) : Scouts[j] = Scouts[k] => j = k
  /\ Within \in Seq(Nat) /\ Wait \in Seq(Nat \ {0}) /\ Len(Wait) = Len(Within) + 1
  /\ \A k \in 2..Len(Within) : Within[k - 1] <= Within[k] /\ Wait[k - 1] <= Wait[k]
  /\ {MaxOpen, MaxPriority, MaxQueue, MaxFollowUp, MaxFrozen, Offered, MaxTime, MaxChanges}
       \subseteq Nat
  /\ MaxPriority <= MaxQueue /\ MaxPriority <= MaxFrozen

VARIABLES
  clock, changes,
  \* durable: the registry, the views of each current snapshot that ask
  \* something, and the last follow-up of each question that succeeded
  registry, views, attempt,
  \* the wake: when, what is queued, who follows what up
  waking, at, queue, assigned,
  \* the input while it is made to fit: what fits, prior opportunities, process
  \* context, evidence
  room, prior, context, evidenceLeft

memory == <<registry, views, attempt>>
agenda == <<at, queue, assigned>>
input == <<room, prior, context, evidenceLeft>>
vars == <<clock, changes, memory, waking, agenda, input>>

Questions == Opps \X Range(Origins)
ContextParts == <<"memories", "feedback", "mandate", "attention", "agenda">>
Never == [at |-> 0, snapshot |-> 0]

Init ==
  /\ clock = 1 /\ changes = 0
  /\ registry = [o \in Opps |->
       [status |-> "forming", snapshot |-> 1, known |-> 0, deadline |-> 1 + Horizon[o]]]
  /\ views = [o \in Opps |-> {}] /\ attempt = [q \in Questions |-> Never]
  /\ waking = "idle" /\ at = 0 /\ queue = <<>> /\ assigned = <<>>
  /\ room = 0 /\ prior = <<>> /\ context = {} /\ evidenceLeft = 0

-----------------------------------------------------------------------------
\* What is open, due and put off.

Active(t) ==
  {o \in Opps : /\ registry[o].status \in {"forming", "ranked", "shadow"}
                /\ registry[o].known < t}
Expired(o, t) == registry[o].deadline <= t

\* Sorting: keys of four numbers are compared where they first differ.  Of a set S
\* in the order R, a set of pairs, the first n and all of them.
Less(x, y) == \E k \in 1..4 : x[k] < y[k] /\ \A j \in 1..(k - 1) : x[j] = y[j]
Place(S, R, q) == Cardinality({p \in S : <<p, q>> \in R})
FirstOf(S, n, R) == {q \in S : Place(S, R, q) < n}
InOrder(S, R) == [k \in 1..Cardinality(S) |-> CHOOSE q \in S : Place(S, R, q) = k - 1]

\* Expired opportunities come last, then what is decided first, then the newest.
ScanKey(t, o) ==
  <<IF Expired(o, t) THEN 1 ELSE 0, registry[o].deadline, MaxTime - registry[o].known, o>>
ScanOrder(t) == {x \in Opps \X Opps : Less(ScanKey(t, x[1]), ScanKey(t, x[2]))}

\* The first questions in the order of the agenda.
Asked(o) == {k \in 1..Len(Origins) : Origins[k] \in Prompts[o] \cup views[o]}
OpenQuestions(o) ==
  {<<o, Origins[k]>> : k \in {j \in Asked(o) : Cardinality(Asked(o) \cap 1..(j - 1)) < MaxOpen}}

\* The class of the time that remains, the most urgent first.
Class(remaining) == Cardinality({k \in 1..Len(Within) : remaining > Within[k]}) + 1
\* Mutant: the cadence of what is most urgent.
FollowUpSoon(attempted, deadline) == Min({deadline, attempted + Wait[1]})
NextFollowUp(attempted, deadline) ==
  Min({deadline, attempted + Wait[Class(deadline - attempted)]})

\* A question is put off while its last follow-up looked at this very snapshot.
Eligible(q) == NextFollowUp(attempt[q].at, registry[q[1]].deadline)
Deferred(q, t) ==
  /\ attempt[q] # Never /\ attempt[q].at < t
  /\ attempt[q].snapshot = registry[q[1]].snapshot /\ Eligible(q) > t
Due(o, t) == {q \in OpenQuestions(o) : ~Deferred(q, t)}

-----------------------------------------------------------------------------
\* The queue: by status, kind of question and urgency, then the nearest deadline.

StatusWeight == [forming |-> 25, ranked |-> 20, shadow |-> 30]
OriginWeight ==
  [disconfirming |-> 40, pillar |-> 34, thesis |-> 32, rejection |-> 30, next_test |-> 26]
UrgencyWeight(remaining) ==
  CASE Class(remaining) = 1 -> 30 [] Class(remaining) = 2 -> 22 [] OTHER -> 10

Remaining(q, t) == registry[q[1]].deadline - t
Score(q, t) ==
  Min({100, StatusWeight[registry[q[1]].status] + OriginWeight[q[2]]
              + UrgencyWeight(Remaining(q, t))})
Number(q) == CHOOSE k \in 1..Len(Origins) : Origins[k] = q[2]
Key(t, q) == <<100 - Score(q, t), Remaining(q, t), q[1], Number(q)>>
QueueOrder(t) == {x \in Questions \X Questions : Less(Key(t, x[1]), Key(t, x[2]))}

\* The due questions of the opportunities O, and the best of each.
Waiting(O, t) == UNION {Due(o, t) : o \in {p \in O : ~Expired(p, t)}}
Best(O, t) ==
  {q \in Waiting(O, t) :
     \A p \in Waiting(O, t) : p[1] = q[1] => <<p, q>> \notin QueueOrder(t)}

\* Mutant: the best questions, whosoever they are.
BestOnly(O, t) == InOrder(FirstOf(Waiting(O, t), MaxQueue, QueueOrder(t)), QueueOrder(t))
\* The best question of each of the first opportunities; what room is left goes
\* to further questions of the same.
Leads(O, t) == FirstOf(Best(O, t), MaxPriority, QueueOrder(t))
Further(O, t) ==
  LET more == {q \in Waiting(O, t) \ Leads(O, t) : \E l \in Leads(O, t) : l[1] = q[1]}
  IN FirstOf(more, MaxQueue - Cardinality(Leads(O, t)), QueueOrder(t))
Queue(O, t) == InOrder(Leads(O, t), QueueOrder(t)) \o InOrder(Further(O, t), QueueOrder(t))

Priority(items) == {q[1] : q \in Range(items)}

\* Two Scouts at least are left to explore.  Which ones follow up depends on the
\* cycle's id.
FollowUps(items) ==
  Min({MaxFollowUp, Len(items), IF Len(Scouts) > 2 THEN Len(Scouts) - 2 ELSE 0})
Assignments(items, offset) ==
  [k \in 1..FollowUps(items) |->
     [scout |-> Scouts[((offset + k - 1) % Len(Scouts)) + 1], question |-> items[k]]]

\* The opportunities that are frozen: those with priority, whose best questions are
\* the first of the queue, and then the others as they are scanned.
Selected(t, items) ==
  LET first == Priority(items)
      lead == [k \in 1..Cardinality(first) |-> items[k][1]]
      rest == InOrder(Active(t) \ first, ScanOrder(t))
  IN SubSeq(lead \o rest, 1, Min({MaxFrozen, Len(lead) + Len(rest)}))

-----------------------------------------------------------------------------
\* The wake.

Wake ==
  LET items == Queue(Active(clock), clock)
  IN /\ waking = "idle" /\ clock > at
     /\ at' = clock /\ queue' = items /\ assigned' = Assignments(items, clock)
     /\ room' \in Rooms /\ prior' = Selected(clock, items)
     /\ context' = Range(ContextParts) /\ evidenceLeft' = Offered
     /\ waking' = "fit"
     /\ UNCHANGED <<clock, changes, memory>>

Size == Len(prior) + Cardinality(context) + evidenceLeft
Removable == {k \in 1..Len(prior) : prior[k] \notin Priority(queue)}
Dropped == CHOOSE k \in 1..Len(ContextParts) :
  ContextParts[k] \in context /\ \A j \in 1..(k - 1) : ContextParts[j] \notin context

\* Too large: opportunities nobody follows up go first, from the end, then the
\* context part by part, then evidence.
Shed ==
  /\ waking = "fit" /\ Size > room
  /\ \/ /\ Removable # {} /\ prior' = RemoveAt(prior, Max(Removable))
        /\ UNCHANGED <<context, evidenceLeft>>
     \/ /\ Removable = {} /\ context # {} /\ context' = context \ {ContextParts[Dropped]}
        /\ UNCHANGED <<prior, evidenceLeft>>
     \/ /\ Removable = {} /\ context = {} /\ evidenceLeft > 0
        /\ evidenceLeft' = evidenceLeft - 1
        /\ UNCHANGED <<prior, context>>
  /\ UNCHANGED <<clock, changes, memory, waking, agenda, room>>
\* What is followed up is never given up: the attempt fails, to be made again.
CannotFit ==
  /\ waking = "fit" /\ Size > room /\ Removable = {} /\ context = {} /\ evidenceLeft = 0
  /\ waking' = "idle"
  /\ UNCHANGED <<clock, changes, memory, agenda, input>>
Anchor ==
  /\ waking = "fit" /\ Size <= room /\ waking' = "scouts"
  /\ UNCHANGED <<clock, changes, memory, agenda, input>>

\* A Scout that succeeds in following its question up has looked at the snapshot
\* frozen for it; one that fails or explores instead leaves no mark.
FollowedUp(k) ==
  LET q == assigned[k].question
  IN /\ waking = "scouts" /\ k \in 1..Len(assigned)
     /\ attempt[q].at # at
     /\ attempt' = [attempt EXCEPT ![q] = [at |-> at, snapshot |-> registry[q[1]].snapshot]]
     /\ UNCHANGED <<clock, changes, registry, views, waking, agenda, input>>
EndCycle ==
  /\ waking = "scouts" /\ waking' = "idle"
  /\ UNCHANGED <<clock, changes, memory, agenda, input>>

-----------------------------------------------------------------------------
\* What happens to the opportunities between wakes.

Changes == waking = "idle" /\ changes < MaxChanges /\ changes' = changes + 1
Refresh(o) ==
  /\ Changes /\ registry[o].status # "closed"
  /\ \E h \in Later :
       registry' = [registry EXCEPT ![o].snapshot = @ + 1, ![o].known = clock,
                                    ![o].status = "forming", ![o].deadline = clock + h]
  /\ views' = [views EXCEPT ![o] = {}]
  /\ UNCHANGED <<clock, attempt, waking, agenda, input>>
Moves(o) ==
  /\ Changes /\ registry[o].status # "closed"
  /\ registry' = [registry EXCEPT ![o].status =
       CASE @ = "forming" -> "ranked" [] @ = "ranked" -> "shadow" [] OTHER -> "closed"]
  /\ UNCHANGED <<clock, views, attempt, waking, agenda, input>>
Assess(o) ==
  /\ Changes /\ views[o] # Views
  /\ \E v \in Views \ views[o] : views' = [views EXCEPT ![o] = @ \cup {v}]
  /\ UNCHANGED <<clock, registry, attempt, waking, agenda, input>>
Tick ==
  /\ waking = "idle" /\ clock < MaxTime /\ clock' = clock + 1
  /\ UNCHANGED <<changes, memory, waking, agenda, input>>

\* The bound of the clock is reached.
BoundReached == waking = "idle" /\ clock = MaxTime /\ at = clock /\ UNCHANGED vars

Next ==
  \/ Wake \/ Shed \/ CannotFit \/ Anchor \/ EndCycle \/ Tick \/ BoundReached
  \/ \E k \in 1..MaxFollowUp : FollowedUp(k)
  \/ \E o \in Opps : Refresh(o) \/ Moves(o) \/ Assess(o)
Spec == Init /\ [][Next]_vars

TypeOK ==
  /\ clock \in 1..MaxTime /\ changes \in 0..MaxChanges /\ at \in 0..MaxTime
  /\ \A o \in Opps : registry[o].status \in {"forming", "ranked", "shadow", "closed"}
  /\ views \in [Opps -> SUBSET Views] /\ waking \in {"idle", "fit", "scouts"}
  /\ Range(queue) \subseteq Questions
  /\ Range(prior) \subseteq Opps /\ context \subseteq Range(ContextParts)
  /\ evidenceLeft \in 0..Offered

-----------------------------------------------------------------------------
\* What is assigned is worth it: open and undecided, each question to one Scout,
\* as many opportunities as have a due question and a place, and Scouts enough
\* left to explore (build_research_queue, build_opportunity_drive).
AssignedSound ==
  waking \in {"fit", "scouts"} =>
    LET due == {o \in Active(at) : ~Expired(o, at) /\ Due(o, at) # {}}
    IN /\ \A j, k \in 1..Len(assigned) : j # k =>
            /\ assigned[j].scout # assigned[k].scout
            /\ assigned[j].question # assigned[k].question
       /\ Len(Scouts) >= 2 => Len(Scouts) - Len(assigned) >= 2
       /\ waking = "fit" =>
            /\ Priority(queue) \subseteq due
            /\ Cardinality(Priority(queue)) = Min({MaxPriority, Cardinality(due)})

\* An input that is frozen is the one its checks accept: the queue is that of the
\* opportunities that are left, whatever had to be given up, and evidence is
\* given up last, and only as much as must be (FrozenScoutInput).
FrozenSound ==
  /\ waking = "scouts" => Size <= room
  /\ waking \in {"fit", "scouts"} =>
       /\ Priority(queue) \subseteq Range(prior)
       /\ evidenceLeft < Offered => context = {} /\ Range(prior) = Priority(queue)
  /\ waking = "fit" => Queue(Range(prior), at) = queue

AgendaTruthful == AssignedSound /\ FrozenSound

\* No question is looked into twice on one snapshot within its cadence, as it was
\* when it was looked into first, however the wakes fall.
Apart ==
  \A q \in Questions :
    attempt'[q] # attempt[q] /\ attempt[q].snapshot = attempt'[q].snapshot =>
      attempt'[q].at >= attempt[q].at + Wait[Class(registry[q[1]].deadline - attempt[q].at)]
AskedApart == [][Apart]_vars
=============================================================================
