--------------------------------- MODULE Gateway ---------------------------------
(***************************************************************************)
(* The path of a model request through the local gateway of alta-src:      *)
(* the body is read against a byte budget, then every attempt takes one    *)
(* place in each of its limiters, media first, then the provider, then the *)
(* whole gateway, and gives them back before it is answered or backs off.  *)
(* Provider limits shrink on overload and grow back on success; close()    *)
(* drains the limiters and, after a grace period, aborts what is left.     *)
(*                                                                         *)
(* JavaScript runs one handler at a time, so an action is what happens     *)
(* between two awaits.  Time is nondeterminism: a delay, a timeout or a    *)
(* cool-down may be over or not.                                           *)
(***************************************************************************)
EXTENDS Naturals, Sequences, FiniteSets

CONSTANTS
  Requests,    \* connections that carry one request after the other
  Media,       \* those whose body has images, audio or files
  Providers,   \* model providers
  Provider,    \* of each request
  Configured,  \* limit of each limiter
  QueueLimit,  \* places in the queue of each limiter
  MaxRetries,  \* maxRetries
  Recovery,    \* recoverySuccesses
  Budget,      \* bound: requestMemoryBytes, in chunks
  MaxChunks    \* bound: chunks of one body, extra media reservation included

Limiters == {"media", "global"} \cup Providers

GatewayAssumption ==
  /\ IsFiniteSet(Requests)
  /\ Media \subseteq Requests
  /\ {"media", "global"} \cap Providers = {}
  /\ Provider \in [Requests -> Providers]
  /\ Configured \in [Limiters -> Nat \ {0}]
  /\ QueueLimit \in [Limiters -> Nat]
  /\ {MaxRetries, Recovery, Budget, MaxChunks} \subseteq Nat

VARIABLES
  closing,     \* close() was called
  limit,       \* of each limiter, now
  active,      \* places taken
  queue,       \* requests that wait for a place, first come first
  successes,   \* of a provider since its last change of limit
  used,        \* bytes of the budget
  req          \* the handler of each request

vars == <<closing, limit, active, queue, successes, used, req>>

\* "body": being read.  "wait": RetryCoordinator.wait.  "admit": about to ask
\* for the next limiter.  "unwind": a rejection that is not handled yet.
\* "finish": the answer, or the failure, is being written.
Steps == {"idle", "body", "wait", "admit", "queued", "fetch", "unwind", "finish"}
\* held: limiters taken, in the order of the path.
Handlers == [step : Steps, held : 0..3, attempt : 0..MaxRetries, bytes : 0..MaxChunks]
Idle == [step |-> "idle", held |-> 0, attempt |-> 0, bytes |-> 0]

Init ==
  /\ closing = FALSE
  /\ limit = Configured
  /\ active = [l \in Limiters |-> 0]
  /\ queue = [l \in Limiters |-> <<>>]
  /\ successes = [p \in Providers |-> 0]
  /\ used = 0
  /\ req = [r \in Requests |-> Idle]

\* Mutant: text requests ask for the whole gateway first.
GlobalFirst(r) ==
  IF r \in Media THEN <<"media", Provider[r], "global">>
                 ELSE <<"global", Provider[r]>>

\* The limiters an attempt takes, in order.
Path(r) ==
  IF r \in Media THEN <<"media", Provider[r], "global">>
                 ELSE <<Provider[r], "global">>

At(r, step) == req[r].step = step
Go(r, step) == req' = [req EXCEPT ![r].step = step]
Wanted(r) == Path(r)[req[r].held + 1]

\* The limiters whose place r has.
Held(r) == {Path(r)[i] : i \in 1..req[r].held}

\* A handler that has just been given one more place.
Granted(h, r) ==
  [h EXCEPT !.held = h.held + 1,
            !.step = IF h.held + 1 = Len(Path(r)) THEN "fetch" ELSE "admit"]

--------------------------------------------------------------------------------
\* #drainQueue: how many of the queue's first entries get a place.
Served(l, taken, lim) ==
  IF closing \/ taken >= lim THEN 0
  ELSE IF lim - taken < Len(queue[l]) THEN lim - taken ELSE Len(queue[l])

\* The first n of a queue.
First(l, n) == {queue[l][i] : i \in 1..n}

\* Request r gives back the places in freed, the limits become lim, and every
\* limiter serves its queue; r goes on as h.
Settle(r, freed, lim, h) ==
  LET Taken(l) == IF l \in freed THEN active[l] - 1 ELSE active[l]
      Count(l) == Served(l, Taken(l), lim[l])
      Lucky(q) == \E l \in Limiters : q \in First(l, Count(l))
  IN  /\ active' = [l \in Limiters |-> Taken(l) + Count(l)]
      /\ queue' = [l \in Limiters |->
            SubSeq(queue[l], Count(l) + 1, Len(queue[l]))]
      /\ req' = [q \in Requests |->
            IF q = r THEN h ELSE IF Lucky(q) THEN Granted(req[q], q) ELSE req[q]]
      /\ limit' = lim

--------------------------------------------------------------------------------
\* handleResponses: a draining, full or overloaded gateway refuses at once.
Arrive(r) ==
  /\ At(r, "idle")
  /\ \/ ~closing /\ Go(r, "body")
     \/ Go(r, "finish")
  /\ UNCHANGED <<closing, limit, active, queue, successes, used>>

\* ByteBudget.reserve
Fits(n) == used + n <= Budget

\* readJsonBody and prepareResponseRequest: bytes are reserved chunk by chunk,
\* media reserve more once the body is known.
Reserve(r) ==
  /\ At(r, "body")
  /\ \E n \in 1..(MaxChunks - req[r].bytes) :
        /\ Fits(n)
        /\ used' = used + n
        /\ req' = [req EXCEPT ![r].bytes = req[r].bytes + n]
  /\ UNCHANGED <<closing, limit, active, queue, successes>>

\* Mutant: the bytes of a refused body stay reserved.
KeepBytes(r) == 0

\* bodyLease.release, or the catch of readJsonBody.
Returned(r) == req[r].bytes

\* A body that is too large, broken off, over budget or not JSON gives its
\* bytes back at once; one that asks for what is not configured, at the end.
Refuse(r) ==
  /\ At(r, "body")
  /\ \/ /\ used' = used - Returned(r)
        /\ req' = [req EXCEPT ![r].step = "finish", ![r].bytes = 0]
     \/ Go(r, "finish") /\ UNCHANGED used
  /\ UNCHANGED <<closing, limit, active, queue, successes>>

BodyRead(r) ==
  /\ At(r, "body")
  /\ Go(r, "wait")
  /\ UNCHANGED <<closing, limit, active, queue, successes, used>>

\* The shared back-off of the provider is over, or was not in force.
Waited(r) ==
  /\ At(r, "wait")
  /\ Go(r, "admit")
  /\ UNCHANGED <<closing, limit, active, queue, successes, used>>

\* The back-off is longer than what is left of the retry budget.
BudgetExhausted(r) ==
  /\ At(r, "wait")
  /\ Go(r, "unwind")
  /\ UNCHANGED <<closing, limit, active, queue, successes, used>>

--------------------------------------------------------------------------------
\* A closed limiter refuses.
Draining == closing

\* CapacityLimiter.acquire: a place, a place in the queue, or a refusal.
Acquire(r) ==
  LET l == Wanted(r) IN
  /\ At(r, "admit")
  /\ \/ /\ Draining
        /\ Go(r, "unwind")
        /\ UNCHANGED <<active, queue>>
     \/ /\ ~Draining
        /\ active[l] < limit[l]
        /\ active' = [active EXCEPT ![l] = active[l] + 1]
        /\ req' = [req EXCEPT ![r] = Granted(req[r], r)]
        /\ UNCHANGED queue
     \/ /\ ~Draining
        /\ active[l] >= limit[l]
        /\ Len(queue[l]) >= QueueLimit[l]
        /\ Go(r, "unwind")
        /\ UNCHANGED <<active, queue>>
     \/ /\ ~Draining
        /\ active[l] >= limit[l]
        /\ Len(queue[l]) < QueueLimit[l]
        /\ queue' = [queue EXCEPT ![l] = Append(queue[l], r)]
        /\ Go(r, "queued")
        /\ UNCHANGED active
  /\ UNCHANGED <<closing, limit, successes, used>>

\* remove(): indexOf and splice.
Without(q, r) ==
  IF \E i \in 1..Len(q) : q[i] = r
  THEN LET n == CHOOSE i \in 1..Len(q) : q[i] = r
       IN  SubSeq(q, 1, n - 1) \o SubSeq(q, n + 1, Len(q))
  ELSE q

\* A queued entry times out, or its request is aborted: it leaves the queue.
LeaveQueue(r) ==
  /\ At(r, "queued")
  /\ queue' = [l \in Limiters |-> Without(queue[l], r)]
  /\ Go(r, "unwind")
  /\ UNCHANGED <<closing, limit, active, successes, used>>

\* acquireCapacityLease and resilientJson let go of what they hold.
Unwind(r) ==
  /\ At(r, "unwind")
  /\ Settle(r, Held(r), limit, [req[r] EXCEPT !.step = "finish", !.held = 0])
  /\ UNCHANGED <<closing, successes, used>>

--------------------------------------------------------------------------------
\* ProviderConcurrencyController.success
Reduced(p) == limit[p] < Configured[p]

AttemptSucceeds(r) ==
  LET p == Provider[r]
      grown == Reduced(p) /\ successes[p] + 1 >= Recovery * limit[p]
  IN
  /\ At(r, "fetch")
  /\ successes' = [successes EXCEPT ![p] =
        IF ~Reduced(p) THEN successes[p] ELSE IF grown THEN 0 ELSE successes[p] + 1]
  /\ Settle(r, Held(r),
            IF grown THEN [limit EXCEPT ![p] = limit[p] + 1] ELSE limit,
            [req[r] EXCEPT !.step = "finish", !.held = 0])
  /\ UNCHANGED <<closing, used>>

\* The attempt fails in a way that allows another: the places go back before
\* the back-off begins.
Retry(r) ==
  /\ At(r, "fetch")
  /\ req[r].attempt < MaxRetries
  /\ Settle(r, Held(r), limit,
            [req[r] EXCEPT !.step = "wait", !.held = 0, !.attempt = req[r].attempt + 1])
  /\ UNCHANGED <<closing, successes, used>>

\* ProviderConcurrencyController.overload
Half(n) == (n + 1) \div 2

\* HTTP 429: outside the cool-down the provider's limit is halved first.
Overloaded(r) ==
  LET p == Provider[r] IN
  /\ At(r, "fetch")
  /\ \E lim \in {limit, [limit EXCEPT ![p] = Half(limit[p])]} :
        \E h \in {[req[r] EXCEPT !.step = "finish", !.held = 0]}
                 \cup (IF req[r].attempt = MaxRetries THEN {}
                       ELSE {[req[r] EXCEPT !.step = "wait", !.held = 0,
                                            !.attempt = req[r].attempt + 1]}) :
           Settle(r, Held(r), lim, h)
  /\ successes' = [successes EXCEPT ![p] = 0]
  /\ UNCHANGED <<closing, used>>

\* The last attempt fails, cannot be retried, or times out with the request.
GiveUp(r) ==
  /\ At(r, "fetch")
  /\ Go(r, "unwind")
  /\ UNCHANGED <<closing, limit, active, queue, successes, used>>

\* The handler's finally.
Finish(r) ==
  /\ At(r, "finish")
  /\ used' = used - Returned(r)
  /\ req' = [req EXCEPT ![r] = Idle]
  /\ UNCHANGED <<closing, limit, active, queue, successes>>

\* The client disconnects: each await of the handler rejects.
Abort(r) ==
  \/ LeaveQueue(r)
  \/ Refuse(r)
  \/ Finish(r)
  \/ /\ req[r].step \in {"wait", "admit", "fetch"}
     /\ Go(r, "unwind")
     /\ UNCHANGED <<closing, limit, active, queue, successes, used>>

\* close(): no new work, and nobody waits in a queue any more.
Close ==
  /\ ~closing
  /\ closing' = TRUE
  /\ queue' = [l \in Limiters |-> <<>>]
  /\ req' = [r \in Requests |->
        IF At(r, "queued") THEN [req[r] EXCEPT !.step = "unwind"] ELSE req[r]]
  /\ UNCHANGED <<limit, active, successes, used>>

\* The grace period is over: every controller is aborted and every connection
\* closed.
Deadline(r) == closing /\ Abort(r)

--------------------------------------------------------------------------------
Handle(r) ==
  \/ Arrive(r) \/ Reserve(r) \/ Refuse(r) \/ BodyRead(r)
  \/ Waited(r) \/ BudgetExhausted(r) \/ Acquire(r) \/ LeaveQueue(r) \/ Unwind(r)
  \/ AttemptSucceeds(r) \/ Retry(r) \/ Overloaded(r) \/ GiveUp(r)
  \/ Finish(r) \/ Abort(r)

Next == Close \/ \E r \in Requests : Handle(r)

Spec == Init /\ [][Next]_vars

\* The event loop runs what can run; a back-off and an attempt are over by
\* their timers, and the deadline comes.  Clients owe nothing: bodies may stay
\* incomplete and answers unread until the gateway closes, queue timeouts are
\* not counted on.
GoOn(r) ==
  \/ Waited(r) \/ BudgetExhausted(r) \/ Acquire(r) \/ Unwind(r)
  \/ AttemptSucceeds(r) \/ Retry(r) \/ Overloaded(r) \/ GiveUp(r)
  \/ Deadline(r)
Fairness == \A r \in Requests : WF_vars(GoOn(r))

LiveSpec == Spec /\ Fairness

--------------------------------------------------------------------------------
TypeOK ==
  /\ closing \in BOOLEAN
  /\ limit \in [Limiters -> Nat]
  /\ \A l \in Limiters : limit[l] \in 1..Configured[l]
  /\ active \in [Limiters -> Nat]
  /\ queue \in [Limiters -> Seq(Requests)]
  /\ successes \in [Providers -> Nat]
  /\ used \in 0..Budget
  /\ req \in [Requests -> Handlers]

Holders(l) == {r \in Requests : \E i \in 1..req[r].held : Path(r)[i] = l}

\* A limiter counts exactly the requests that hold one of its places: no
\* failure, abort, retry or shutdown between two limiters leaks a place or
\* gives one back twice (acquireCapacityLease, #grant).
PlacesAccounted == \A l \in Limiters : active[l] = Cardinality(Holders(l))

\* The budget counts exactly the bytes of the bodies in memory, whichever way
\* a request ended (readJsonBody, bodyLease.release).
Reserved == {b \in Requests \X (1..MaxChunks) : b[2] <= req[b[1]].bytes}
BytesAccounted == used = Cardinality(Reserved)

\* Whoever sleeps through a provider's back-off holds no place meanwhile
\* (resilientJson releases in the finally of each attempt).
BackoffHoldsNothing ==
  \A r \in Requests : At(r, "wait") => \A l \in Limiters : r \notin Holders(l)

\* While the gateway is open nobody waits at a limiter with a free place,
\* whatever released it or changed its limit (#drainQueue).
NoIdlePlace ==
  \A l \in Limiters : ~closing /\ queue[l] # <<>> => active[l] >= limit[l]

\* A place is only given below the limit that holds now, although a reduced
\* limit may be less than what was given before; a draining gateway gives none.
WithinLimit ==
  \A l \in Limiters : active'[l] > active[l] => ~closing /\ active'[l] <= limit'[l]
GrantedBelowLimit == [][WithinLimit]_vars

\* Whoever begins its attempts is done with them, served or refused: no
\* request starves in a queue and no two wait for each other's places.
Trying(r) == req[r].step \in {"wait", "admit", "queued", "fetch", "unwind"}
AttemptsEnd == \A r \in Requests : Trying(r) ~> ~Trying(r)

\* After close() every place and every byte comes back for good, even from
\* clients that never finish their body or read their answer.
Drained == used = 0 /\ \A l \in Limiters : active[l] = 0 /\ queue[l] = <<>>
DrainCompletes == closing ~> []Drained
================================================================================
