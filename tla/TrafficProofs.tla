--------------------------- MODULE TrafficProofs ---------------------------
(***************************************************************************)
(* Proofs about what bounds and shares the requests of the host and what   *)
(* they bring: the model gateway, the access to one public source, the     *)
(* shared fetches, and the sources with the wakes that read them, each for *)
(* any of its constants. Every part has an inductive invariant of its own; *)
(* the sources' is WakeInv, of every record K of parameters that           *)
(* WakeAssumption admits.                                                  *)
(***************************************************************************)
EXTENDS MCTraffic, FiniteSetTheorems, SequenceTheorems, WellFoundedInduction, TLAPS

\* Gateway.

\* How far each handler is: what it holds is a part of its path.
HandlerInv ==
  \A r \in Requests :
    /\ req[r].held <= Len(Path(r))
    /\ req[r].step \in {"idle", "body", "wait", "finish"} => req[r].held = 0
    /\ req[r].step \in {"admit", "queued"} => req[r].held < Len(Path(r))

\* Whoever is in a queue waits there for its next limiter, once.
QueueInv ==
  \A l \in Limiters :
    /\ \A i \in 1..Len(queue[l]) :
          At(queue[l][i], "queued") /\ Wanted(queue[l][i]) = l
    /\ \A i, j \in 1..Len(queue[l]) : queue[l][i] = queue[l][j] => i = j

\* The inductive invariant of the gateway.
GateInv ==
  /\ TypeOK /\ HandlerInv /\ QueueInv
  /\ PlacesAccounted /\ BytesAccounted /\ NoIdlePlace

--------------------------------------------------------------------------------
LEMMA PathFacts ==
  ASSUME GatewayAssumption, NEW r \in Requests
  PROVE  /\ Len(Path(r)) \in {2, 3}
         /\ \A i \in 1..Len(Path(r)) : Path(r)[i] \in Limiters
         /\ \A i, j \in 1..Len(Path(r)) : Path(r)[i] = Path(r)[j] => i = j
<1>1. Provider[r] \in Providers /\ Provider[r] \notin {"media", "global"}
  BY DEF GatewayAssumption
<1>. QED
  BY <1>1 DEF Path, Limiters

LEMMA WithoutFacts ==
  ASSUME NEW S, NEW q \in Seq(S), NEW r,
         \A i, j \in 1..Len(q) : q[i] = q[j] => i = j
  PROVE  /\ Without(q, r) \in Seq(S)
         /\ \A i \in 1..Len(Without(q, r)) :
               \E k \in 1..Len(q) : q[k] # r /\ Without(q, r)[i] = q[k]
         /\ \A i, j \in 1..Len(Without(q, r)) : Without(q, r)[i] = Without(q, r)[j] => i = j
<1>1. CASE ~\E i \in 1..Len(q) : q[i] = r
  BY <1>1 DEF Without
<1>2. CASE \E i \in 1..Len(q) : q[i] = r
  <2>. DEFINE n == CHOOSE i \in 1..Len(q) : q[i] = r
              a == SubSeq(q, 1, n - 1)
              b == SubSeq(q, n + 1, Len(q))
  <2>1. n \in 1..Len(q) /\ q[n] = r
    BY <1>2
  <2>. HIDE DEF n
  <2>2. a \in Seq(S) /\ Len(a) = n - 1 /\ \A i \in 1..(n - 1) : a[i] = q[i]
    <3>1. \A i \in 1..(n - 1) : q[i] \in S
      BY <2>1
    <3>. QED
      BY <2>1, <3>1, SubSeqProperties
  <2>3. b \in Seq(S) /\ Len(b) = Len(q) - n /\ \A i \in 1..(Len(q) - n) : b[i] = q[n + i]
    <3>1. \A i \in (n + 1)..Len(q) : q[i] \in S
      BY <2>1
    <3>2. \A i \in 1..(Len(q) - (n + 1) + 1) : b[i] = q[(n + 1) + i - 1]
      BY <2>1, <3>1, SubSeqProperties
    <3>3. b \in Seq(S) /\ Len(b) = Len(q) - n
      BY <2>1, <3>1, SubSeqProperties
    <3>. QED
      BY <2>1, <3>2, <3>3, SMTT(30)
  <2>4. Without(q, r) = a \o b
    BY <1>2 DEF Without, n
  <2>. HIDE DEF a, b
  <2>5. /\ a \o b \in Seq(S) /\ Len(a \o b) = Len(q) - 1
        /\ \A i \in 1..(Len(q) - 1) : (a \o b)[i] = IF i < n THEN q[i] ELSE q[i + 1]
    <3>1. /\ a \o b \in Seq(S) /\ Len(a \o b) = Len(a) + Len(b)
          /\ \A i \in 1..(Len(a) + Len(b)) :
                (a \o b)[i] = IF i <= Len(a) THEN a[i] ELSE b[i - Len(a)]
      BY <2>2, <2>3, ConcatProperties, ZenonT(40)
    <3>. QED
      BY <2>1, <2>2, <2>3, <3>1
  <2>6. \A i, j \in 1..Len(q) : q[i] = q[j] => i = j
    OBVIOUS
  <2>7. ASSUME NEW i \in 1..(Len(q) - 1)
        PROVE  \E k \in 1..Len(q) : k # n /\ q[k] # r /\ (a \o b)[i] = q[k]
    <3>1. CASE i < n
      <4>1. i \in 1..Len(q) /\ i # n /\ (a \o b)[i] = q[i]
        BY <2>1, <2>5, <3>1
      <4>2. q[i] # r
        BY <2>1, <2>6, <4>1
      <4>. QED
        BY <4>1, <4>2
    <3>2. CASE ~(i < n)
      <4>1. i + 1 \in 1..Len(q) /\ i + 1 # n /\ (a \o b)[i] = q[i + 1]
        BY <2>1, <2>5, <3>2
      <4>2. q[i + 1] # r
        BY <2>1, <2>6, <4>1
      <4>. QED
        BY <4>1, <4>2
    <3>. QED
      BY <3>1, <3>2
  <2>8. ASSUME NEW i \in 1..(Len(q) - 1), NEW j \in 1..(Len(q) - 1), (a \o b)[i] = (a \o b)[j]
        PROVE  i = j
    BY <2>1, <2>5, <2>6, <2>8, SMTT(30)
  <2>. QED
    BY <2>4, <2>5, <2>7, <2>8
<1>. QED
  BY <1>1, <1>2

\* The first n entries of a queue that holds nobody twice are n requests.
LEMMA FirstCounts ==
  ASSUME NEW l \in Limiters, queue[l] \in Seq(Requests), QueueInv, NEW n \in 0..Len(queue[l])
  PROVE  IsFiniteSet(First(l, n)) /\ Cardinality(First(l, n)) = n
<1>. DEFINE f == [i \in 1..n |-> queue[l][i]]
<1>1. f \in Bijection(1..n, First(l, n))
  BY DEF First, Bijection, Injection, Surjection, IsInjective, QueueInv
<1>2. ExistsBijection(1..n, First(l, n))
  BY <1>1 DEF ExistsBijection
<1>3. IsFiniteSet(1..n)
  BY FS_Interval
<1>. QED
  BY <1>2, <1>3, FS_Bijection, FS_CountingElements

LEMMA HoldersFinite ==
  ASSUME GatewayAssumption, NEW l
  PROVE  IsFiniteSet(Holders(l)) /\ Holders(l) \subseteq Requests
BY FS_Subset DEF GatewayAssumption, Holders

\* A handler that takes its next place becomes a holder of what it wanted, and
\* was not one before.
LEMMA GrantedFacts ==
  ASSUME GatewayAssumption, TypeOK, HandlerInv, NEW q \in Requests,
         req[q].held < Len(Path(q))
  PROVE  /\ Wanted(q) \in Limiters
         /\ Granted(req[q], q) \in Handlers
         /\ Granted(req[q], q).held = req[q].held + 1
         /\ Granted(req[q], q).bytes = req[q].bytes
         /\ Granted(req[q], q).step = IF req[q].held + 1 = Len(Path(q)) THEN "fetch" ELSE "admit"
         /\ \A i \in 1..req[q].held : Path(q)[i] # Wanted(q)
<1>1. req[q] \in Handlers
  BY DEF TypeOK
<1>2. req[q].held \in 0..2 /\ req[q].held + 1 \in 1..Len(Path(q)) /\ Len(Path(q)) \in {2, 3}
  BY <1>1, PathFacts DEF Handlers
<1>3. Wanted(q) \in Limiters /\ \A i \in 1..req[q].held : Path(q)[i] # Wanted(q)
  BY <1>2, PathFacts DEF Wanted
<1>4. PICK n \in 0..3, step \in Steps :
        /\ n = req[q].held + 1
        /\ step = IF req[q].held + 1 = Len(Path(q)) THEN "fetch" ELSE "admit"
  BY <1>2 DEF Steps
<1>5. Granted(req[q], q) = [req[q] EXCEPT !.held = n, !.step = step]
  BY <1>4 DEF Granted
<1>6. /\ Granted(req[q], q) \in Handlers
      /\ Granted(req[q], q).held = n /\ Granted(req[q], q).step = step
      /\ Granted(req[q], q).bytes = req[q].bytes
  BY <1>1, <1>5 DEF Handlers
<1>. QED
  BY <1>3, <1>4, <1>6

\* #drainQueue serves whom it can.
LEMMA ServedFacts ==
  ASSUME closing \in BOOLEAN, NEW l, Len(queue[l]) \in Nat, NEW taken \in Nat, NEW lim \in Nat
  PROVE  /\ Served(l, taken, lim) \in 0..Len(queue[l])
         /\ closing => Served(l, taken, lim) = 0
         /\ Served(l, taken, lim) > 0 => taken + Served(l, taken, lim) <= lim
         /\ ~closing /\ Served(l, taken, lim) < Len(queue[l]) =>
              taken + Served(l, taken, lim) >= lim
BY DEF Served

\* Giving back the places of a request and serving the queues: what Settle does
\* to every part of the invariant.
LEMMA SettleStep ==
  ASSUME GatewayAssumption, GateInv,
         NEW r \in Requests, req[r].step \in {"fetch", "unwind"},
         NEW lim \in [Limiters -> Nat], \A l \in Limiters : lim[l] \in 1..Configured[l],
         NEW h \in Handlers, h.held = 0, h.step \in {"finish", "wait"}, h.bytes = req[r].bytes,
         Settle(r, Held(r), lim, h), UNCHANGED <<closing, used>>
  PROVE  /\ limit' = lim /\ active' \in [Limiters -> Nat]
         /\ queue' \in [Limiters -> Seq(Requests)] /\ req' \in [Requests -> Handlers]
         /\ HandlerInv' /\ QueueInv' /\ PlacesAccounted' /\ BytesAccounted'
         /\ NoIdlePlace' /\ WithinLimit
<1>. DEFINE T(l) == IF l \in Held(r) THEN active[l] - 1 ELSE active[l]
            C(l) == Served(l, T(l), lim[l])
            Lucky(q) == \E l \in Limiters : q \in First(l, C(l))
<1>0. /\ active' = [l \in Limiters |-> T(l) + C(l)]
      /\ queue' = [l \in Limiters |-> SubSeq(queue[l], C(l) + 1, Len(queue[l]))]
      /\ req' = [q \in Requests |->
            IF q = r THEN h ELSE IF Lucky(q) THEN Granted(req[q], q) ELSE req[q]]
      /\ limit' = lim
  BY DEF Settle
<1>t. /\ active \in [Limiters -> Nat] /\ queue \in [Limiters -> Seq(Requests)]
      /\ req \in [Requests -> Handlers] /\ closing \in BOOLEAN
      /\ \A q \in Requests : req[q].held \in 0..3 /\ req[q].step \in Steps
  BY DEF GateInv, TypeOK, Handlers
<1>q. \A l \in Limiters : queue[l] \in Seq(Requests) /\ Len(queue[l]) \in Nat
  BY <1>t, LenProperties
<1>1. ASSUME NEW l \in Limiters
      PROVE  T(l) \in Nat /\ T(l) = Cardinality(Holders(l) \ {r}) /\ T(l) <= active[l]
  <2>1. r \in Holders(l) <=> l \in Held(r)
    BY DEF Holders, Held
  <2>2. active[l] = Cardinality(Holders(l))
    BY DEF GateInv, PlacesAccounted
  <2>3. IsFiniteSet(Holders(l)) /\ IsFiniteSet(Holders(l) \ {r})
    BY HoldersFinite, FS_RemoveElement
  <2>4. Cardinality(Holders(l) \ {r}) \in Nat
    BY <2>3, FS_CardinalityType
  <2>5. Cardinality(Holders(l) \ {r}) =
          IF r \in Holders(l) THEN Cardinality(Holders(l)) - 1 ELSE Cardinality(Holders(l))
    BY <2>3, FS_RemoveElement
  <2>6. CASE l \in Held(r)
    BY <1>t, <2>1, <2>2, <2>4, <2>5, <2>6
  <2>7. CASE l \notin Held(r)
    BY <1>t, <2>1, <2>2, <2>4, <2>5, <2>7
  <2>. QED
    BY <2>6, <2>7
<1>. HIDE DEF T
<1>2. ASSUME NEW l \in Limiters
      PROVE  /\ C(l) \in 0..Len(queue[l])
             /\ closing => C(l) = 0
             /\ C(l) > 0 => T(l) + C(l) <= lim[l]
             /\ ~closing /\ C(l) < Len(queue[l]) => T(l) + C(l) >= lim[l]
  <2>1. T(l) \in Nat /\ lim[l] \in Nat /\ Len(queue[l]) \in Nat
    BY <1>1, <1>q
  <2>. QED
    BY <1>t, <2>1, ServedFacts
<1>. HIDE DEF C
<1>3. ASSUME NEW l \in Limiters, NEW q \in First(l, C(l))
      PROVE  q \in Requests \ {r} /\ At(q, "queued") /\ Wanted(q) = l /\ req[q].held < Len(Path(q))
  <2>1. PICK i \in 1..C(l) : q = queue[l][i]
    BY DEF First
  <2>2. i \in 1..Len(queue[l]) /\ q \in Requests
    BY <1>2, <1>t, <2>1
  <2>3. At(q, "queued") /\ Wanted(q) = l
    BY <2>1, <2>2 DEF GateInv, QueueInv
  <2>. QED
    BY <2>2, <2>3 DEF At, GateInv, HandlerInv
<1>4. ASSUME NEW q \in Requests
      PROVE  /\ q = r => req'[q] = h
             /\ q # r /\ Lucky(q) => req'[q] = Granted(req[q], q)
             /\ q # r /\ ~Lucky(q) => req'[q] = req[q]
  BY <1>0
<1>5. ASSUME NEW q \in Requests, q # r, Lucky(q)
      PROVE  /\ req'[q] \in Handlers /\ req'[q].held = req[q].held + 1
             /\ req'[q].bytes = req[q].bytes
             /\ req'[q].step = IF req[q].held + 1 = Len(Path(q)) THEN "fetch" ELSE "admit"
             /\ req[q].held < Len(Path(q)) /\ At(q, "queued")
             /\ \A i \in 1..req[q].held : Path(q)[i] # Wanted(q)
  BY <1>3, <1>4, <1>5, GrantedFacts DEF GateInv
<1>. HIDE DEF Lucky
<1>6. ASSUME NEW l \in Limiters
      PROVE  /\ queue'[l] \in Seq(Requests)
             /\ Len(queue'[l]) = Len(queue[l]) - C(l)
             /\ \A i \in 1..Len(queue'[l]) : queue'[l][i] = queue[l][C(l) + i]
             /\ C(l) \in Nat
  <2>1. queue'[l] = SubSeq(queue[l], C(l) + 1, Len(queue[l]))
    BY <1>0
  <2>2. C(l) \in 0..Len(queue[l]) /\ queue[l] \in Seq(Requests) /\ Len(queue[l]) \in Nat
    BY <1>2, <1>q
  <2>3. \A i \in (C(l) + 1)..Len(queue[l]) : queue[l][i] \in Requests
    BY <2>2
  <2>4. PICK a \in Int, b \in Int : a = C(l) + 1 /\ b = Len(queue[l])
    <3>1. C(l) + 1 \in Int
      BY <2>2
    <3>2. Len(queue[l]) \in Int
      BY <2>2
    <3>. QED
      BY <3>1, <3>2, Zenon
  <2>5. \A i \in a..b : queue[l][i] \in Requests
    BY <2>3, <2>4
  <2>6. /\ SubSeq(queue[l], a, b) \in Seq(Requests)
        /\ Len(SubSeq(queue[l], a, b)) = IF a <= b THEN b - a + 1 ELSE 0
        /\ \A i \in 1..(b - a + 1) : SubSeq(queue[l], a, b)[i] = queue[l][a + i - 1]
    BY <2>5, SubSeqProperties
  <2>7. queue'[l] = SubSeq(queue[l], a, b)
    BY <2>1, <2>4
  <2>8. Len(queue'[l]) = Len(queue[l]) - C(l)
    BY <2>2, <2>4, <2>6, <2>7
  <2>9. ASSUME NEW i \in 1..Len(queue'[l]) PROVE queue'[l][i] = queue[l][C(l) + i]
    <3>1. i \in 1..(b - a + 1) /\ a + i - 1 = C(l) + i
      <4>1. C(l) \in Nat /\ Len(queue[l]) \in Nat
        BY <2>2
      <4>2. b - a + 1 = Len(queue'[l])
        BY <2>4, <2>8, <4>1, SMTT(30)
      <4>3. i \in 1..(b - a + 1)
        BY <4>2
      <4>4. a + i - 1 = C(l) + i
        BY <2>4, <4>1
      <4>. QED
        BY <4>3, <4>4
    <3>. QED
      BY <2>6, <2>7, <3>1
  <2>. QED
    BY <2>2, <2>6, <2>7, <2>8, <2>9
\* Nobody who stays in a queue was served, and r is in none.
<1>7. ASSUME NEW l \in Limiters, NEW i \in 1..Len(queue'[l])
      PROVE  /\ queue'[l][i] \in Requests \ {r} /\ ~Lucky(queue'[l][i])
             /\ At(queue'[l][i], "queued") /\ Wanted(queue'[l][i]) = l
  <2>. DEFINE q == queue'[l][i]
  <2>1. C(l) + i \in 1..Len(queue[l]) /\ q = queue[l][C(l) + i]
    BY <1>6, <1>t
  <2>2. q \in Requests /\ At(q, "queued") /\ Wanted(q) = l
    BY <1>t, <2>1 DEF GateInv, QueueInv
  <2>3. ASSUME NEW m \in Limiters, q \in First(m, C(m)) PROVE FALSE
    <3>1. m = l
      BY <1>3, <2>2, <2>3
    <3>2. PICK k \in 1..C(l) : queue[l][k] = q
      BY <2>3, <3>1 DEF First
    <3>3. k \in 1..Len(queue[l]) /\ k # C(l) + i
      BY <1>2, <1>6, <3>2
    <3>. QED
      BY <2>1, <3>2, <3>3 DEF GateInv, QueueInv
  <2>4. ~Lucky(q)
    BY <2>3 DEF Lucky
  <2>. QED
    BY <2>2, <2>4 DEF At
<1>8. ASSUME NEW q \in Requests
      PROVE  /\ req'[q] \in Handlers /\ req'[q].bytes = req[q].bytes
             /\ req'[q].held <= Len(Path(q))
             /\ req'[q].step \in {"idle", "body", "wait", "finish"} => req'[q].held = 0
             /\ req'[q].step \in {"admit", "queued"} => req'[q].held < Len(Path(q))
  <2>1. CASE q = r
    BY <1>4, <2>1, PathFacts
  <2>2. CASE q # r /\ Lucky(q)
    <3>1. Len(Path(q)) \in {2, 3} /\ req[q].held \in 0..3
      BY <1>t, PathFacts
    <3>. QED
      BY <1>5, <2>2, <3>1
  <2>3. CASE q # r /\ ~Lucky(q)
    BY <1>4, <1>t, <2>3 DEF GateInv, HandlerInv
  <2>. QED
    BY <2>1, <2>2, <2>3
<1>9. ASSUME NEW l \in Limiters
      PROVE  Holders(l)' = (Holders(l) \ {r}) \cup First(l, C(l))
  <2>1. ASSUME NEW q \in Requests
        PROVE  (\E i \in 1..req'[q].held : Path(q)[i] = l) <=>
                  (q # r /\ \E i \in 1..req[q].held : Path(q)[i] = l) \/ q \in First(l, C(l))
    <3>1. CASE q = r
      BY <1>3, <1>4, <3>1
    <3>2. CASE q # r /\ Lucky(q)
      <4>1. req'[q].held = req[q].held + 1 /\ req[q].held \in Nat
        <5>1. req[q].held \in 0..3
          BY <1>t
        <5>. QED
          BY <1>5, <3>2, <5>1
      <4>2. Path(q)[req[q].held + 1] = l <=> q \in First(l, C(l))
        <5>1. PICK m \in Limiters : q \in First(m, C(m)) /\ Wanted(q) = m
          BY <1>3, <3>2 DEF Lucky
        <5>. QED
          BY <1>3, <5>1 DEF Wanted
      <4>. QED
        BY <3>2, <4>1, <4>2
    <3>3. CASE q # r /\ ~Lucky(q)
      BY <1>4, <3>3 DEF Lucky
    <3>. QED
      BY <3>1, <3>2, <3>3
  <2>2. First(l, C(l)) \subseteq Requests
    BY <1>3
  <2>. QED
    BY <2>1, <2>2 DEF Holders
<1>10. PlacesAccounted'
  <2>. SUFFICES ASSUME NEW l \in Limiters PROVE active'[l] = Cardinality(Holders(l)')
    BY DEF PlacesAccounted, Limiters
  <2>1. IsFiniteSet(Holders(l) \ {r})
    BY HoldersFinite, FS_RemoveElement
  <2>2. IsFiniteSet(First(l, C(l))) /\ Cardinality(First(l, C(l))) = C(l)
    BY <1>t, <1>2, FirstCounts DEF GateInv
  <2>3. (Holders(l) \ {r}) \cap First(l, C(l)) = {}
    <3>1. ASSUME NEW q \in Holders(l), q \in First(l, C(l)), q # r PROVE FALSE
      <4>1. q \in Requests /\ Lucky(q) /\ Wanted(q) = l
        BY <1>3, <3>1 DEF Lucky
      <4>2. \A i \in 1..req[q].held : Path(q)[i] # l
        BY <1>5, <3>1, <4>1
      <4>. QED
        BY <3>1, <4>2 DEF Holders
    <3>. QED
      BY <3>1
  <2>4. Cardinality(Holders(l)') = Cardinality(Holders(l) \ {r}) + C(l) - 0
    <3>1. Cardinality({}) = 0
      BY FS_EmptySet
    <3>2. Cardinality((Holders(l) \ {r}) \cup First(l, C(l))) =
            Cardinality(Holders(l) \ {r}) + Cardinality(First(l, C(l)))
              - Cardinality((Holders(l) \ {r}) \cap First(l, C(l)))
      BY <2>1, <2>2, FS_Union
    <3>. QED
      BY <1>9, <2>2, <2>3, <3>1, <3>2
  <2>5. active'[l] = T(l) + C(l) /\ T(l) \in Nat /\ C(l) \in Nat /\ T(l) = Cardinality(Holders(l) \ {r})
    BY <1>0, <1>1, <1>6
  <2>. QED
    BY <2>4, <2>5
<1>11. BytesAccounted'
  <2>1. Reserved' = Reserved
    BY <1>8 DEF Reserved
  <2>. QED
    BY <2>1 DEF BytesAccounted, GateInv
<1>12. NoIdlePlace'
  <2>. SUFFICES ASSUME NEW l \in Limiters, ~closing, queue'[l] # <<>> PROVE active'[l] >= lim[l]
    BY <1>0 DEF NoIdlePlace, Limiters
  <2>1. Len(queue'[l]) # 0
    BY <1>6, EmptySeq
  <2>2. C(l) < Len(queue[l])
    BY <1>2, <1>6, <1>t, <2>1
  <2>. QED
    BY <1>0, <1>2, <2>2
<1>13. WithinLimit
  <2>. SUFFICES ASSUME NEW l \in Limiters, active'[l] > active[l]
                PROVE  ~closing /\ active'[l] <= lim[l]
    BY <1>0 DEF WithinLimit
  <2>1. active'[l] = T(l) + C(l) /\ T(l) \in Nat /\ C(l) \in Nat /\ T(l) <= active[l]
    BY <1>0, <1>1, <1>6
  <2>. QED
    BY <1>2, <1>t, <2>1
<1>14. QueueInv'
  <2>. SUFFICES ASSUME NEW l \in Limiters
                PROVE  /\ \A i \in 1..Len(queue'[l]) :
                             /\ req'[queue'[l][i]].step = "queued"
                             /\ Path(queue'[l][i])[req'[queue'[l][i]].held + 1] = l
                       /\ \A i, j \in 1..Len(queue'[l]) : queue'[l][i] = queue'[l][j] => i = j
    BY DEF QueueInv, Limiters, At, Wanted
  <2>1. \A i \in 1..Len(queue'[l]) : req'[queue'[l][i]] = req[queue'[l][i]]
    BY <1>4, <1>7
  <2>2. ASSUME NEW i \in 1..Len(queue'[l])
        PROVE  /\ req'[queue'[l][i]].step = "queued"
               /\ Path(queue'[l][i])[req'[queue'[l][i]].held + 1] = l
    BY <1>7, <2>1 DEF At, Wanted
  <2>3. ASSUME NEW i \in 1..Len(queue'[l]),
               NEW j \in 1..Len(queue'[l]), queue'[l][i] = queue'[l][j]
        PROVE  i = j
    <3>1. C(l) + i \in 1..Len(queue[l]) /\ C(l) + j \in 1..Len(queue[l])
      BY <1>6, <1>t, SMTT(30)
    <3>2. queue[l][C(l) + i] = queue[l][C(l) + j]
      BY <1>6, <2>3
    <3>3. C(l) + i = C(l) + j
      BY <3>1, <3>2 DEF GateInv, QueueInv
    <3>. QED
      BY <1>6, <3>3
  <2>. QED
    BY <2>2, <2>3
<1>15. HandlerInv'
  BY <1>8 DEF HandlerInv
<1>16. active' \in [Limiters -> Nat]
  <2>1. ASSUME NEW l \in Limiters PROVE T(l) + C(l) \in Nat
    <3>1. T(l) \in Nat
      BY <1>1
    <3>2. C(l) \in Nat
      BY <1>6
    <3>. QED
      BY <3>1, <3>2
  <2>. QED
    BY <1>0, <2>1
<1>17. queue' \in [Limiters -> Seq(Requests)]
  BY <1>0, <1>6
<1>18. req' \in [Requests -> Handlers]
  BY <1>0, <1>8
<1>. QED
  BY <1>0, <1>10, <1>11, <1>12, <1>13, <1>14, <1>15, <1>16, <1>17, <1>18

\* Bytes in memory, given those of each request.
Rows(bytes) == {b \in Requests \X (1..MaxChunks) : b[2] <= bytes[b[1]]}

LEMMA RowsCount ==
  ASSUME GatewayAssumption, NEW bytes \in [Requests -> 0..MaxChunks], NEW r \in Requests
  PROVE  /\ Cardinality(Rows(bytes)) = Cardinality(Rows([bytes EXCEPT ![r] = 0])) + bytes[r]
         /\ Cardinality(Rows([bytes EXCEPT ![r] = 0])) \in Nat
<1>. DEFINE Rest == Rows([bytes EXCEPT ![r] = 0])
            Own == {r} \X (1..bytes[r])
<1>1. MaxChunks \in Nat /\ bytes[r] \in 0..MaxChunks
  BY DEF GatewayAssumption
<1>2. IsFiniteSet(Requests \X (1..MaxChunks))
  <2>1. IsFiniteSet(1..MaxChunks)
    BY <1>1, FS_Interval
  <2>. QED
    BY <2>1, FS_Product DEF GatewayAssumption
<1>3. IsFiniteSet(Rest) /\ Cardinality(Rest) \in Nat
  <2>1. Rest \in SUBSET (Requests \X (1..MaxChunks))
    BY DEF Rows
  <2>. QED
    BY <1>2, <2>1, FS_Subset, FS_CardinalityType
<1>4. IsFiniteSet(Own) /\ Cardinality(Own) = bytes[r]
  <2>1. IsFiniteSet(1..bytes[r]) /\ Cardinality(1..bytes[r]) = bytes[r]
    BY <1>1, FS_Interval
  <2>2. IsFiniteSet({r}) /\ Cardinality({r}) = 1
    BY FS_Singleton
  <2>3. Cardinality(Own) = Cardinality({r}) * Cardinality(1..bytes[r]) /\ IsFiniteSet(Own)
    BY <2>1, <2>2, FS_Product
  <2>. QED
    BY <1>1, <2>1, <2>2, <2>3
<1>5. Rows(bytes) = Rest \cup Own
  <2>1. ASSUME NEW q \in Requests, NEW n \in 1..MaxChunks
        PROVE  <<q, n>> \in Rows(bytes) <=> <<q, n>> \in Rest \/ <<q, n>> \in Own
    <3>1. CASE q = r
      BY <1>1, <3>1 DEF Rows
    <3>2. CASE q # r
      BY <3>2 DEF Rows
    <3>. QED
      BY <3>1, <3>2
  <2>2. Own \subseteq Requests \X (1..MaxChunks)
    BY <1>1
  <2>. QED
    BY <2>1, <2>2 DEF Rows
<1>6. Rest \cap Own = {}
  BY <1>1 DEF Rows
<1>. HIDE DEF Rest, Own
<1>7. Cardinality(Rest \cup Own) = Cardinality(Rest) + Cardinality(Own) - Cardinality(Rest \cap Own)
  BY <1>3, <1>4, FS_Union
<1>8. Cardinality({}) = 0
  BY FS_EmptySet
<1>9. Cardinality(Rows(bytes)) = Cardinality(Rest) + bytes[r] - 0
  BY <1>4, <1>5, <1>6, <1>7, <1>8
<1>. QED
  BY <1>1, <1>3, <1>9 DEF Rest

\* What a change of one request's bytes does to the account.
LEMMA BytesStep ==
  ASSUME GatewayAssumption, GateInv, NEW r \in Requests, req' \in [Requests -> Handlers],
         \A q \in Requests \ {r} : req'[q].bytes = req[q].bytes,
         used' = used + req'[r].bytes - req[r].bytes
  PROVE  BytesAccounted' /\ used \in Nat /\ req[r].bytes \in Nat /\ used - req[r].bytes \in Nat
<1>. DEFINE old == [q \in Requests |-> req[q].bytes]
            new == [q \in Requests |-> req'[q].bytes]
            Rest == Rows([old EXCEPT ![r] = 0])
<1>1. old \in [Requests -> 0..MaxChunks] /\ new \in [Requests -> 0..MaxChunks]
  BY DEF GateInv, TypeOK, Handlers
<1>2. [new EXCEPT ![r] = 0] = [old EXCEPT ![r] = 0]
  OBVIOUS
<1>3. Reserved = Rows(old) /\ Reserved' = Rows(new)
  BY DEF Reserved, Rows
<1>4. used = Cardinality(Rows(old)) /\ used \in 0..Budget
  BY <1>3 DEF GateInv, BytesAccounted, TypeOK
<1>5. old[r] = req[r].bytes /\ new[r] = req'[r].bytes /\ old[r] \in 0..MaxChunks
      /\ new[r] \in 0..MaxChunks
  BY <1>1
<1>. HIDE DEF old, new
<1>6. Cardinality(Rows(old)) = Cardinality(Rest) + old[r] /\ Cardinality(Rest) \in Nat
  BY <1>1, RowsCount
<1>7. Cardinality(Rows(new)) = Cardinality(Rest) + new[r]
  BY <1>1, <1>2, RowsCount
<1>. HIDE DEF Rest
<1>8. used' = Cardinality(Rows(new))
  BY <1>4, <1>5, <1>6, <1>7
<1>9. BytesAccounted'
  BY <1>3, <1>8 DEF BytesAccounted
<1>. QED
  BY <1>4, <1>5, <1>6, <1>9

\* Requests that change nothing but their step, and are in no queue.
LEMMA QuietStep ==
  ASSUME GatewayAssumption, GateInv, req' \in [Requests -> Handlers],
         \A q \in Requests :
           /\ req'[q].held = req[q].held
           /\ At(q, "queued") => req'[q].step = "queued"
           /\ req'[q].step \in {"idle", "body", "wait", "finish"} => req[q].held = 0
           /\ req'[q].step \in {"admit", "queued"} => req[q].held < Len(Path(q)),
         UNCHANGED <<closing, limit, active, queue>>
  PROVE  HandlerInv' /\ QueueInv' /\ PlacesAccounted' /\ NoIdlePlace' /\ WithinLimit
<1>1. HandlerInv'
  BY DEF GateInv, HandlerInv
<1>2. QueueInv'
  <2>1. ASSUME NEW l \in Limiters, NEW i \in 1..Len(queue[l])
        PROVE  req'[queue[l][i]].step = "queued" /\ req'[queue[l][i]].held = req[queue[l][i]].held
               /\ Wanted(queue[l][i]) = l
    <3>1. queue[l][i] \in Requests
      BY DEF GateInv, TypeOK
    <3>. QED
      BY <3>1 DEF GateInv, QueueInv
  <2>. QED
    BY <2>1 DEF GateInv, QueueInv, At, Wanted, Limiters
<1>3. \A l : Holders(l)' = Holders(l)
  BY DEF Holders
<1>4. PlacesAccounted'
  BY <1>3 DEF GateInv, PlacesAccounted, Limiters
<1>5. NoIdlePlace' /\ WithinLimit
  BY DEF GateInv, NoIdlePlace, WithinLimit, TypeOK, Limiters
<1>. QED
  BY <1>1, <1>2, <1>4, <1>5

\* A handler that only goes to another step.
LEMMA GoStep ==
  ASSUME GatewayAssumption, GateInv, NEW r \in Requests, NEW step \in Steps, Go(r, step),
         ~At(r, "queued"), step # "queued",
         step \in {"idle", "body", "wait", "finish"} => req[r].held = 0,
         step = "admit" => req[r].held < Len(Path(r)),
         UNCHANGED <<closing, limit, active, queue, successes, used>>
  PROVE  GateInv' /\ WithinLimit
<1>1. /\ req' \in [Requests -> Handlers]
      /\ req'[r].step = step /\ req'[r].held = req[r].held /\ req'[r].bytes = req[r].bytes
      /\ \A q \in Requests \ {r} : req'[q] = req[q]
  BY DEF Go, GateInv, TypeOK, Handlers
<1>2. \A q \in Requests :
        /\ req'[q].held = req[q].held
        /\ At(q, "queued") => req'[q].step = "queued"
        /\ req'[q].step \in {"idle", "body", "wait", "finish"} => req[q].held = 0
        /\ req'[q].step \in {"admit", "queued"} => req[q].held < Len(Path(q))
  BY <1>1 DEF GateInv, HandlerInv, At
<1>3. HandlerInv' /\ QueueInv' /\ PlacesAccounted' /\ NoIdlePlace' /\ WithinLimit
  BY <1>1, <1>2, QuietStep
<1>4. BytesAccounted'
  <2>1. used \in Nat /\ req[r].bytes \in Nat
    BY DEF GateInv, TypeOK, Handlers
  <2>2. used' = used + req'[r].bytes - req[r].bytes
    BY <1>1, <2>1
  <2>. QED
    BY <1>1, <2>2, BytesStep
<1>5. TypeOK'
  BY <1>1 DEF GateInv, TypeOK
<1>. QED
  BY <1>3, <1>4, <1>5 DEF GateInv

\* A request that changes its bytes, outside every limiter.
LEMMA BytesMove ==
  ASSUME GatewayAssumption, GateInv, NEW r \in Requests, NEW h \in Handlers,
         req' = [req EXCEPT ![r] = h], h.held = 0, req[r].held = 0,
         ~At(r, "queued"), h.step \notin {"queued", "admit"},
         used' = used + h.bytes - req[r].bytes, used' <= Budget,
         UNCHANGED <<closing, limit, active, queue, successes>>
  PROVE  GateInv' /\ WithinLimit
<1>1. /\ req' \in [Requests -> Handlers] /\ req'[r] = h
      /\ \A q \in Requests \ {r} : req'[q] = req[q]
  BY DEF GateInv, TypeOK
<1>2. \A q \in Requests :
        /\ req'[q].held = req[q].held
        /\ At(q, "queued") => req'[q].step = "queued"
        /\ req'[q].step \in {"idle", "body", "wait", "finish"} => req[q].held = 0
        /\ req'[q].step \in {"admit", "queued"} => req[q].held < Len(Path(q))
  BY <1>1 DEF GateInv, HandlerInv, At
<1>3. HandlerInv' /\ QueueInv' /\ PlacesAccounted' /\ NoIdlePlace' /\ WithinLimit
  BY <1>1, <1>2, QuietStep
<1>4. BytesAccounted' /\ used - req[r].bytes \in Nat /\ used \in Nat /\ req[r].bytes \in Nat
  BY <1>1, BytesStep
<1>5. used' \in 0..Budget
  <2>1. h.bytes \in Nat /\ Budget \in Nat
    BY DEF Handlers, GatewayAssumption
  <2>. QED
    BY <1>4, <2>1
<1>6. TypeOK'
  BY <1>1, <1>5 DEF GateInv, TypeOK
<1>. QED
  BY <1>3, <1>4, <1>6 DEF GateInv

--------------------------------------------------------------------------------
LEMMA HandlerFacts ==
  ASSUME GateInv, NEW r \in Requests
  PROVE  /\ req[r] \in Handlers /\ req[r].held \in 0..3 /\ req[r].bytes \in 0..MaxChunks
         /\ req[r].step \in Steps /\ req[r].held <= Len(Path(r))
         /\ req[r].step \in {"idle", "body", "wait", "finish"} => req[r].held = 0
         /\ req[r].step \in {"admit", "queued"} => req[r].held < Len(Path(r))
BY DEF GateInv, TypeOK, Handlers, HandlerInv

LEMMA GateInit == ASSUME GatewayAssumption, Init PROVE GateInv
<1>1. \A r \in Requests : req[r] = Idle /\ req[r].held = 0 /\ req[r].bytes = 0 /\ req[r].step = "idle"
  BY DEF Init, Idle
<1>2. TypeOK
  <2>1. Idle \in Handlers
    BY DEF Idle, Handlers, Steps, GatewayAssumption
  <2>2. <<>> \in Seq(Requests)
    BY EmptySeq
  <2>3. \A l \in Limiters : Configured[l] \in Nat /\ limit[l] \in 1..Configured[l]
    BY DEF Init, GatewayAssumption
  <2>4. limit \in [Limiters -> Nat]
    BY DEF Init, GatewayAssumption
  <2>5. queue \in [Limiters -> Seq(Requests)] /\ req \in [Requests -> Handlers]
    BY <2>1, <2>2 DEF Init
  <2>6. active \in [Limiters -> Nat] /\ successes \in [Providers -> Nat] /\ closing \in BOOLEAN
    BY DEF Init
  <2>7. used \in 0..Budget
    BY DEF Init, GatewayAssumption
  <2>. QED
    BY <2>3, <2>4, <2>5, <2>6, <2>7 DEF TypeOK
<1>3. HandlerInv
  <2>1. \A r \in Requests : Len(Path(r)) \in {2, 3}
    BY PathFacts
  <2>. QED
    BY <1>1, <2>1 DEF HandlerInv
<1>4. QueueInv /\ NoIdlePlace
  BY DEF Init, QueueInv, NoIdlePlace
<1>5. PlacesAccounted
  <2>1. \A l \in Limiters : Holders(l) = {}
    BY <1>1 DEF Holders
  <2>. QED
    BY <2>1, FS_EmptySet DEF Init, PlacesAccounted
<1>6. BytesAccounted
  <2>1. Reserved = {}
    BY <1>1 DEF Reserved
  <2>. QED
    BY <2>1, FS_EmptySet DEF Init, BytesAccounted
<1>. QED
  BY <1>2, <1>3, <1>4, <1>5, <1>6 DEF GateInv

LEMMA ArriveStep ==
  ASSUME GatewayAssumption, GateInv, NEW r \in Requests, Arrive(r)
  PROVE  GateInv' /\ WithinLimit
<1>1. PICK step \in {"body", "finish"} : Go(r, step)
  BY DEF Arrive
<1>. QED
  BY <1>1, GoStep, HandlerFacts DEF Arrive, At, Steps

LEMMA ReserveStep ==
  ASSUME GatewayAssumption, GateInv, NEW r \in Requests, Reserve(r)
  PROVE  GateInv' /\ WithinLimit
<1>1. PICK n \in 1..(MaxChunks - req[r].bytes) :
        /\ Fits(n)
        /\ used' = used + n
        /\ req' = [req EXCEPT ![r].bytes = req[r].bytes + n]
  BY DEF Reserve
<1>. DEFINE h == [req[r] EXCEPT !.bytes = req[r].bytes + n]
<1>2. /\ h \in Handlers /\ h.held = 0 /\ req[r].held = 0 /\ h.step = "body"
      /\ h.bytes = req[r].bytes + n /\ req[r].bytes \in Nat
  <2>1. MaxChunks \in Nat
    BY DEF GatewayAssumption
  <2>. QED
    BY <1>1, <2>1, HandlerFacts DEF Reserve, At, Handlers
<1>3. req' = [req EXCEPT ![r] = h]
  BY <1>1
<1>4. used' = used + h.bytes - req[r].bytes /\ used' <= Budget
  <2>1. used \in Nat
    BY DEF GateInv, TypeOK
  <2>. QED
    BY <1>1, <1>2, <2>1 DEF Fits
<1>. HIDE DEF h
<1>. QED
  BY <1>2, <1>3, <1>4, BytesMove DEF Reserve, At

LEMMA RefuseStep ==
  ASSUME GatewayAssumption, GateInv, NEW r \in Requests, Refuse(r)
  PROVE  GateInv' /\ WithinLimit
<1>1. CASE Go(r, "finish") /\ UNCHANGED used
  BY <1>1, GoStep, HandlerFacts DEF Refuse, At, Steps
<1>2. CASE /\ used' = used - Returned(r)
           /\ req' = [req EXCEPT ![r].step = "finish", ![r].bytes = 0]
  <2>. DEFINE h == [req[r] EXCEPT !.step = "finish", !.bytes = 0]
  <2>1. h \in Handlers /\ h.held = 0 /\ req[r].held = 0 /\ h.step = "finish" /\ h.bytes = 0
    <3>1. 0 \in 0..MaxChunks /\ "finish" \in Steps
      BY DEF GatewayAssumption, Steps
    <3>2. req[r] \in Handlers /\ req[r].held = 0
      BY HandlerFacts DEF Refuse, At
    <3>. QED
      BY <3>1, <3>2 DEF Handlers
  <2>2. req' = [req EXCEPT ![r] = h]
    BY <1>2
  <2>3. used' = used + h.bytes - req[r].bytes /\ used' <= Budget
    <3>1. used \in 0..Budget /\ req[r].bytes \in Nat
      BY HandlerFacts DEF GateInv, TypeOK
    <3>. QED
      BY <1>2, <2>1, <3>1 DEF Returned, GatewayAssumption
  <2>. HIDE DEF h
  <2>. QED
    BY <2>1, <2>2, <2>3, BytesMove DEF Refuse, At
<1>. QED
  BY <1>1, <1>2 DEF Refuse

LEMMA FinishStep ==
  ASSUME GatewayAssumption, GateInv, NEW r \in Requests, Finish(r)
  PROVE  GateInv' /\ WithinLimit
<1>1. /\ Idle \in Handlers /\ Idle.held = 0 /\ req[r].held = 0 /\ Idle.step = "idle"
      /\ Idle.bytes = 0
  BY HandlerFacts DEF Finish, At, Idle, Handlers, Steps, GatewayAssumption
<1>2. used' = used + Idle.bytes - req[r].bytes /\ used' <= Budget
  <2>1. used \in 0..Budget /\ req[r].bytes \in Nat
    BY HandlerFacts DEF GateInv, TypeOK
  <2>. QED
    BY <1>1, <2>1 DEF Finish, Returned, GatewayAssumption
<1>. QED
  BY <1>1, <1>2, BytesMove DEF Finish, At

LEMMA WaitSteps ==
  ASSUME GatewayAssumption, GateInv, NEW r \in Requests,
         BodyRead(r) \/ Waited(r) \/ BudgetExhausted(r) \/ GiveUp(r)
  PROVE  GateInv' /\ WithinLimit
<1>1. CASE BodyRead(r)
  BY <1>1, GoStep, HandlerFacts DEF BodyRead, At, Steps
<1>2. CASE Waited(r)
  <2>1. req[r].held = 0 /\ Len(Path(r)) \in {2, 3}
    BY <1>2, HandlerFacts, PathFacts DEF Waited, At
  <2>. QED
    BY <1>2, <2>1, GoStep, SMTT(30) DEF Waited, At, Steps
<1>3. CASE BudgetExhausted(r)
  BY <1>3, GoStep DEF BudgetExhausted, At, Steps
<1>4. CASE GiveUp(r)
  BY <1>4, GoStep DEF GiveUp, At, Steps
<1>. QED
  BY <1>1, <1>2, <1>3, <1>4

--------------------------------------------------------------------------------
\* A request that gets a free place.
LEMMA PlaceStep ==
  ASSUME GatewayAssumption, GateInv, NEW r \in Requests, At(r, "admit"), ~Draining,
         active[Wanted(r)] < limit[Wanted(r)],
         active' = [active EXCEPT ![Wanted(r)] = active[Wanted(r)] + 1],
         req' = [req EXCEPT ![r] = Granted(req[r], r)],
         UNCHANGED <<closing, limit, queue, successes, used>>
  PROVE  GateInv' /\ WithinLimit
<1>. DEFINE l == Wanted(r)
            h == Granted(req[r], r)
<1>1. /\ l \in Limiters /\ h \in Handlers /\ h.held = req[r].held + 1
      /\ h.bytes = req[r].bytes /\ h.step \in {"fetch", "admit"}
      /\ h.step = "admit" => h.held < Len(Path(r))
      /\ h.held <= Len(Path(r)) /\ req[r].held \in Nat
      /\ \A i \in 1..req[r].held : Path(r)[i] # l
  <2>1. req[r].held < Len(Path(r)) /\ req[r].held \in 0..3 /\ Len(Path(r)) \in {2, 3}
    BY HandlerFacts, PathFacts DEF At
  <2>2. TypeOK /\ HandlerInv
    BY DEF GateInv
  <2>3. /\ l \in Limiters /\ h \in Handlers /\ h.held = req[r].held + 1
        /\ h.bytes = req[r].bytes
        /\ h.step = IF req[r].held + 1 = Len(Path(r)) THEN "fetch" ELSE "admit"
        /\ \A i \in 1..req[r].held : Path(r)[i] # l
    BY <2>1, <2>2, GrantedFacts
  <2>. QED
    BY <2>1, <2>3
<1>l. Path(r)[req[r].held + 1] = l
  BY DEF Wanted
<1>. HIDE DEF l, h
<1>2. /\ req' \in [Requests -> Handlers] /\ req'[r] = h
      /\ \A q \in Requests \ {r} : req'[q] = req[q]
  BY <1>1 DEF GateInv, TypeOK, h
<1>3. /\ active \in [Limiters -> Nat] /\ active' \in [Limiters -> Nat]
      /\ active'[l] = active[l] + 1 /\ \A m \in Limiters \ {l} : active'[m] = active[m]
      /\ active[l] < limit[l] /\ limit \in [Limiters -> Nat]
  BY <1>1 DEF GateInv, TypeOK, l
<1>4. TypeOK'
  BY <1>2, <1>3 DEF GateInv, TypeOK
<1>5. HandlerInv'
  BY <1>1, <1>2 DEF GateInv, HandlerInv
<1>6. QueueInv'
  <2>1. ASSUME NEW m \in Limiters, NEW i \in 1..Len(queue[m])
        PROVE  req'[queue[m][i]] = req[queue[m][i]] /\ At(queue[m][i], "queued")
               /\ Wanted(queue[m][i]) = m
    <3>1. queue[m][i] \in Requests
      BY DEF GateInv, TypeOK
    <3>2. At(queue[m][i], "queued") /\ Wanted(queue[m][i]) = m
      BY DEF GateInv, QueueInv
    <3>. QED
      BY <1>2, <3>1, <3>2 DEF At
  <2>. QED
    BY <2>1 DEF GateInv, QueueInv, At, Wanted, Limiters
<1>7. ASSUME NEW m \in Limiters
      PROVE  /\ Holders(m)' = IF m = l THEN Holders(m) \cup {r} ELSE Holders(m)
             /\ m = l => r \notin Holders(m)
  <2>1. ASSUME NEW q \in Requests
        PROVE  (\E i \in 1..req'[q].held : Path(q)[i] = m) <=>
                  (\E i \in 1..req[q].held : Path(q)[i] = m) \/ (q = r /\ m = l)
    <3>1. CASE q = r
      BY <1>1, <1>2, <1>l, <3>1
    <3>2. CASE q # r
      BY <1>2, <3>2
    <3>. QED
      BY <3>1, <3>2
  <2>2. CASE m = l
    <3>1. ~\E i \in 1..req[r].held : Path(r)[i] = m
      BY <1>1, <2>2
    <3>2. r \notin Holders(m)
      BY <3>1 DEF Holders
    <3>3. Holders(m)' = Holders(m) \cup {r}
      BY <2>1, <2>2 DEF Holders
    <3>. QED
      BY <2>2, <3>2, <3>3
  <2>3. CASE m # l
    <3>1. Holders(m)' = Holders(m)
      BY <2>1, <2>3 DEF Holders
    <3>. QED
      BY <2>3, <3>1
  <2>. QED
    BY <2>2, <2>3
<1>8. PlacesAccounted'
  <2>. SUFFICES ASSUME NEW m \in Limiters PROVE active'[m] = Cardinality(Holders(m)')
    BY DEF PlacesAccounted, Limiters
  <2>1. active[m] = Cardinality(Holders(m)) /\ IsFiniteSet(Holders(m))
    BY HoldersFinite DEF GateInv, PlacesAccounted
  <2>2. CASE m = l
    <3>1. Cardinality(Holders(m) \cup {r}) = Cardinality(Holders(m)) + 1
      BY <1>7, <2>1, <2>2, FS_AddElement
    <3>2. active'[m] = active[m] + 1
      BY <1>3, <2>2
    <3>. QED
      BY <1>7, <2>1, <2>2, <3>1, <3>2
  <2>3. CASE m # l
    <3>1. active'[m] = active[m]
      BY <1>3, <2>3
    <3>. QED
      BY <1>7, <2>1, <2>3, <3>1
  <2>. QED
    BY <2>2, <2>3
<1>9. BytesAccounted'
  <2>1. \A q \in Requests : req'[q].bytes = req[q].bytes
    BY <1>1, <1>2
  <2>2. Reserved' = Reserved
    BY <2>1 DEF Reserved
  <2>. QED
    BY <2>2 DEF BytesAccounted, GateInv
<1>10. NoIdlePlace'
  <2>. SUFFICES ASSUME NEW m \in Limiters, ~closing, queue[m] # <<>> PROVE active'[m] >= limit[m]
    BY DEF NoIdlePlace, Limiters
  <2>1. active[m] >= limit[m]
    BY DEF GateInv, NoIdlePlace
  <2>. QED
    BY <1>3, <2>1
<1>11. WithinLimit
  BY <1>3 DEF WithinLimit, Draining
<1>. QED
  BY <1>4, <1>5, <1>6, <1>8, <1>9, <1>10, <1>11 DEF GateInv

\* A request that enters a full limiter's queue.
LEMMA EnqueueStep ==
  ASSUME GatewayAssumption, GateInv, NEW r \in Requests, At(r, "admit"),
         active[Wanted(r)] >= limit[Wanted(r)],
         queue' = [queue EXCEPT ![Wanted(r)] = Append(queue[Wanted(r)], r)],
         Go(r, "queued"), UNCHANGED <<closing, limit, active, successes, used>>
  PROVE  GateInv' /\ WithinLimit
<1>. DEFINE l == Wanted(r)
<1>1. /\ l \in Limiters /\ req[r].held < Len(Path(r))
  <2>1. req[r].held < Len(Path(r)) /\ TypeOK /\ HandlerInv
    BY HandlerFacts DEF At, GateInv
  <2>. QED
    BY <2>1, GrantedFacts
<1>2. /\ req' \in [Requests -> Handlers]
      /\ req'[r].step = "queued" /\ req'[r].held = req[r].held /\ req'[r].bytes = req[r].bytes
      /\ \A q \in Requests \ {r} : req'[q] = req[q]
  BY DEF Go, GateInv, TypeOK, Handlers, Steps
<1>l. Path(r)[req[r].held + 1] = l /\ active[l] >= limit[l]
  BY DEF Wanted
<1>3. /\ queue \in [Limiters -> Seq(Requests)]
      /\ queue' = [queue EXCEPT ![l] = Append(queue[l], r)]
  BY DEF GateInv, TypeOK
<1>. HIDE DEF l
<1>4. /\ queue' \in [Limiters -> Seq(Requests)] /\ Len(queue[l]) \in Nat
      /\ queue'[l] = Append(queue[l], r) /\ Len(queue'[l]) = Len(queue[l]) + 1
      /\ \A i \in 1..Len(queue[l]) : queue'[l][i] = queue[l][i]
      /\ queue'[l][Len(queue[l]) + 1] = r
      /\ \A m \in Limiters \ {l} : queue'[m] = queue[m]
  <2>1. queue[l] \in Seq(Requests)
    BY <1>1, <1>3
  <2>2. queue'[l] = Append(queue[l], r) /\ Append(queue[l], r) \in Seq(Requests)
    BY <1>1, <1>3, <2>1
  <2>3. \A m \in Limiters \ {l} : queue'[m] = queue[m]
    BY <1>3
  <2>4. queue' \in [Limiters -> Seq(Requests)]
    BY <1>3, <2>2
  <2>5. /\ Len(Append(queue[l], r)) = Len(queue[l]) + 1 /\ Len(queue[l]) \in Nat
        /\ \A i \in 1..Len(queue[l]) : Append(queue[l], r)[i] = queue[l][i]
        /\ Append(queue[l], r)[Len(queue[l]) + 1] = r
    BY <2>1, AppendProperties, LenProperties
  <2>. QED
    BY <2>2, <2>3, <2>4, <2>5
<1>5. TypeOK'
  BY <1>2, <1>4 DEF GateInv, TypeOK
<1>6. HandlerInv'
  BY <1>1, <1>2 DEF GateInv, HandlerInv
<1>7. ASSUME NEW m \in Limiters, NEW i \in 1..Len(queue[m])
      PROVE  /\ queue[m][i] # r
             /\ req'[queue[m][i]].step = "queued" /\ req'[queue[m][i]].held = req[queue[m][i]].held
             /\ Path(queue[m][i])[req[queue[m][i]].held + 1] = m
  <2>1. queue[m][i] \in Requests
    BY DEF GateInv, TypeOK
  <2>2. At(queue[m][i], "queued") /\ Wanted(queue[m][i]) = m
    BY DEF GateInv, QueueInv
  <2>. QED
    BY <1>2, <2>1, <2>2 DEF At, Wanted
<1>8. QueueInv'
  <2>. SUFFICES ASSUME NEW m \in Limiters
                PROVE  /\ \A i \in 1..Len(queue'[m]) :
                             /\ req'[queue'[m][i]].step = "queued"
                             /\ Path(queue'[m][i])[req'[queue'[m][i]].held + 1] = m
                       /\ \A i, j \in 1..Len(queue'[m]) : queue'[m][i] = queue'[m][j] => i = j
    BY DEF QueueInv, Limiters, At, Wanted
  <2>1. \A i, j \in 1..Len(queue[m]) : queue[m][i] = queue[m][j] => i = j
    BY DEF GateInv, QueueInv
  <2>2. CASE m = l
    <3>1. ASSUME NEW i \in 1..Len(queue'[l])
          PROVE  /\ req'[queue'[l][i]].step = "queued"
                 /\ Path(queue'[l][i])[req'[queue'[l][i]].held + 1] = l
      BY <1>1, <1>2, <1>4, <1>7, <1>l, <3>1
    <3>2. ASSUME NEW i \in 1..Len(queue'[l]), NEW j \in 1..Len(queue'[l]),
                 queue'[l][i] = queue'[l][j]
          PROVE  i = j
      BY <1>1, <1>4, <1>7, <2>1, <2>2, <3>2
    <3>. QED
      BY <2>2, <3>1, <3>2
  <2>3. CASE m # l
    BY <1>4, <1>7, <2>1, <2>3, SMTT(30)
  <2>. QED
    BY <2>2, <2>3
<1>9. PlacesAccounted' /\ BytesAccounted'
  <2>1. \A q \in Requests : req'[q].bytes = req[q].bytes /\ req'[q].held = req[q].held
    BY <1>2
  <2>2. Reserved' = Reserved /\ \A m : Holders(m)' = Holders(m)
    BY <2>1 DEF Reserved, Holders
  <2>. QED
    BY <2>2 DEF BytesAccounted, PlacesAccounted, GateInv, Limiters
<1>10. NoIdlePlace'
  <2>. SUFFICES ASSUME NEW m \in Limiters, ~closing, queue'[m] # <<>> PROVE active[m] >= limit[m]
    BY DEF NoIdlePlace, Limiters
  <2>. QED
    BY <1>4, <1>l DEF GateInv, NoIdlePlace
<1>11. WithinLimit
  BY DEF GateInv, TypeOK, WithinLimit
<1>. QED
  BY <1>5, <1>6, <1>8, <1>9, <1>10, <1>11 DEF GateInv

LEMMA AcquireStep ==
  ASSUME GatewayAssumption, GateInv, NEW r \in Requests, Acquire(r)
  PROVE  GateInv' /\ WithinLimit
<1>1. CASE Go(r, "unwind") /\ UNCHANGED <<active, queue>>
  BY <1>1, GoStep DEF Acquire, At, Steps
<1>2. CASE /\ ~Draining /\ active[Wanted(r)] < limit[Wanted(r)]
           /\ active' = [active EXCEPT ![Wanted(r)] = active[Wanted(r)] + 1]
           /\ req' = [req EXCEPT ![r] = Granted(req[r], r)]
           /\ UNCHANGED queue
  BY <1>2, PlaceStep DEF Acquire
<1>3. CASE /\ active[Wanted(r)] >= limit[Wanted(r)]
           /\ queue' = [queue EXCEPT ![Wanted(r)] = Append(queue[Wanted(r)], r)]
           /\ Go(r, "queued")
           /\ UNCHANGED active
  BY <1>3, EnqueueStep DEF Acquire
<1>. QED
  BY <1>1, <1>2, <1>3 DEF Acquire

LEMMA LeaveQueueStep ==
  ASSUME GatewayAssumption, GateInv, NEW r \in Requests, LeaveQueue(r)
  PROVE  GateInv' /\ WithinLimit
<1>1. /\ req' \in [Requests -> Handlers] /\ At(r, "queued")
      /\ req'[r].step = "unwind" /\ req'[r].held = req[r].held /\ req'[r].bytes = req[r].bytes
      /\ \A q \in Requests \ {r} : req'[q] = req[q]
      /\ UNCHANGED <<closing, limit, active, successes, used>>
  BY DEF LeaveQueue, Go, GateInv, TypeOK, Handlers, Steps
<1>2. ASSUME NEW l \in Limiters
      PROVE  /\ queue'[l] \in Seq(Requests) /\ Len(queue'[l]) \in Nat
             /\ \A i \in 1..Len(queue'[l]) :
                   \E k \in 1..Len(queue[l]) : queue[l][k] # r /\ queue'[l][i] = queue[l][k]
             /\ \A i, j \in 1..Len(queue'[l]) : queue'[l][i] = queue'[l][j] => i = j
  <2>1. queue'[l] = Without(queue[l], r) /\ queue[l] \in Seq(Requests)
    BY DEF LeaveQueue, GateInv, TypeOK
  <2>2. \A i, j \in 1..Len(queue[l]) : queue[l][i] = queue[l][j] => i = j
    BY DEF GateInv, QueueInv
  <2>3. /\ Without(queue[l], r) \in Seq(Requests)
        /\ \A i \in 1..Len(Without(queue[l], r)) :
              \E k \in 1..Len(queue[l]) : queue[l][k] # r /\ Without(queue[l], r)[i] = queue[l][k]
        /\ \A i, j \in 1..Len(Without(queue[l], r)) :
              Without(queue[l], r)[i] = Without(queue[l], r)[j] => i = j
    BY <2>1, <2>2, WithoutFacts
  <2>. QED
    BY <2>1, <2>3, LenProperties
<1>3. TypeOK'
  <2>1. queue' \in [Limiters -> Seq(Requests)]
    BY <1>2 DEF LeaveQueue
  <2>. QED
    BY <1>1, <2>1 DEF GateInv, TypeOK
<1>4. HandlerInv'
  BY <1>1 DEF GateInv, HandlerInv
<1>5. QueueInv'
  <2>1. ASSUME NEW l \in Limiters, NEW i \in 1..Len(queue'[l])
        PROVE  /\ req'[queue'[l][i]].step = "queued"
               /\ Path(queue'[l][i])[req'[queue'[l][i]].held + 1] = l
    <3>1. PICK k \in 1..Len(queue[l]) : queue[l][k] # r /\ queue'[l][i] = queue[l][k]
      BY <1>2
    <3>2. queue[l][k] \in Requests /\ At(queue[l][k], "queued") /\ Wanted(queue[l][k]) = l
      BY DEF GateInv, TypeOK, QueueInv
    <3>. QED
      BY <1>1, <3>1, <3>2 DEF At, Wanted
  <2>. QED
    BY <1>2, <2>1 DEF QueueInv, At, Wanted, Limiters
<1>6. PlacesAccounted' /\ BytesAccounted'
  <2>1. \A q \in Requests : req'[q].bytes = req[q].bytes /\ req'[q].held = req[q].held
    BY <1>1
  <2>2. Reserved' = Reserved /\ \A m : Holders(m)' = Holders(m)
    BY <2>1 DEF Reserved, Holders
  <2>. QED
    BY <1>1, <2>2 DEF BytesAccounted, PlacesAccounted, GateInv, Limiters
<1>7. NoIdlePlace'
  <2>. SUFFICES ASSUME NEW m \in Limiters, ~closing, queue'[m] # <<>> PROVE active[m] >= limit[m]
    BY <1>1 DEF NoIdlePlace, Limiters
  <2>1. Len(queue'[m]) # 0
    BY <1>2, EmptySeq
  <2>2. PICK k \in 1..Len(queue[m]) : TRUE
    BY <1>2, <2>1
  <2>3. queue[m] # <<>>
    BY <2>2
  <2>. QED
    BY <2>3 DEF GateInv, NoIdlePlace
<1>8. WithinLimit
  BY <1>1 DEF GateInv, TypeOK, WithinLimit
<1>. QED
  BY <1>3, <1>4, <1>5, <1>6, <1>7, <1>8 DEF GateInv

LEMMA UnwindStep ==
  ASSUME GatewayAssumption, GateInv, NEW r \in Requests, Unwind(r)
  PROVE  GateInv' /\ WithinLimit
<1>. DEFINE h == [req[r] EXCEPT !.step = "finish", !.held = 0]
<1>1. h \in Handlers /\ h.held = 0 /\ h.step = "finish" /\ h.bytes = req[r].bytes
  <2>1. 0 \in 0..3 /\ "finish" \in Steps /\ req[r] \in Handlers
    BY HandlerFacts DEF Steps
  <2>. QED
    BY <2>1 DEF Handlers
<1>2. limit \in [Limiters -> Nat] /\ \A l \in Limiters : limit[l] \in 1..Configured[l]
  BY DEF GateInv, TypeOK
<1>3. Settle(r, Held(r), limit, h) /\ UNCHANGED <<closing, successes, used>> /\ At(r, "unwind")
  BY DEF Unwind
<1>. HIDE DEF h
<1>4. /\ limit' = limit /\ active' \in [Limiters -> Nat]
      /\ queue' \in [Limiters -> Seq(Requests)] /\ req' \in [Requests -> Handlers]
      /\ HandlerInv' /\ QueueInv' /\ PlacesAccounted' /\ BytesAccounted'
      /\ NoIdlePlace' /\ WithinLimit
  BY <1>1, <1>2, <1>3, SettleStep DEF At
<1>. QED
  BY <1>2, <1>3, <1>4 DEF GateInv, TypeOK

\* An attempt that is over, whatever comes next and whatever becomes of the
\* provider's limit.
LEMMA AttemptStep ==
  ASSUME GatewayAssumption, GateInv, NEW r \in Requests, At(r, "fetch"),
         NEW step \in {"finish", "wait"}, NEW attempt \in 0..MaxRetries,
         NEW new \in Nat, new \in 1..Configured[Provider[r]],
         NEW lim, lim = [limit EXCEPT ![Provider[r]] = new],
         NEW h, h = [req[r] EXCEPT !.step = step, !.held = 0, !.attempt = attempt],
         Settle(r, Held(r), lim, h), successes' \in [Providers -> Nat],
         UNCHANGED <<closing, used>>
  PROVE  GateInv' /\ WithinLimit
<1>1. h \in Handlers /\ h.held = 0 /\ h.step \in {"finish", "wait"} /\ h.bytes = req[r].bytes
  <2>1. 0 \in 0..3 /\ step \in Steps /\ req[r] \in Handlers
    BY HandlerFacts DEF Steps
  <2>. QED
    BY <2>1 DEF Handlers
<1>2. lim \in [Limiters -> Nat] /\ \A l \in Limiters : lim[l] \in 1..Configured[l]
  BY DEF GateInv, TypeOK
<1>3. /\ limit' = lim /\ active' \in [Limiters -> Nat]
      /\ queue' \in [Limiters -> Seq(Requests)] /\ req' \in [Requests -> Handlers]
      /\ HandlerInv' /\ QueueInv' /\ PlacesAccounted' /\ BytesAccounted'
      /\ NoIdlePlace' /\ WithinLimit
  BY <1>1, <1>2, SettleStep DEF At
<1>4. TypeOK'
  BY <1>2, <1>3 DEF GateInv, TypeOK
<1>. QED
  BY <1>3, <1>4 DEF GateInv

\* A provider's limiter, and its counts.
LEMMA ProviderFacts ==
  ASSUME GatewayAssumption, GateInv, NEW r \in Requests
  PROVE  /\ Provider[r] \in Providers /\ Provider[r] \in Limiters
         /\ limit[Provider[r]] \in 1..Configured[Provider[r]] /\ limit[Provider[r]] \in Nat
         /\ Configured[Provider[r]] \in Nat /\ successes \in [Providers -> Nat]
         /\ limit = [limit EXCEPT ![Provider[r]] = limit[Provider[r]]]
<1>1. Provider[r] \in Providers /\ Provider[r] \in Limiters
  BY DEF GatewayAssumption, Limiters
<1>2. Configured[Provider[r]] \in Nat
  BY <1>1 DEF GatewayAssumption
<1>3. /\ limit \in [Limiters -> Nat] /\ limit[Provider[r]] \in 1..Configured[Provider[r]]
      /\ successes \in [Providers -> Nat]
  BY <1>1 DEF GateInv, TypeOK
<1>. QED
  BY <1>1, <1>2, <1>3

LEMMA AttemptSucceedsStep ==
  ASSUME GatewayAssumption, GateInv, NEW r \in Requests, AttemptSucceeds(r)
  PROVE  GateInv' /\ WithinLimit
<1>. DEFINE p == Provider[r]
            grown == Reduced(p) /\ successes[p] + 1 >= Recovery * limit[p]
            new == IF grown THEN limit[p] + 1 ELSE limit[p]
            lim == IF grown THEN [limit EXCEPT ![p] = limit[p] + 1] ELSE limit
            h == [req[r] EXCEPT !.step = "finish", !.held = 0]
<1>1. /\ p \in Providers /\ limit[p] \in 1..Configured[p] /\ Configured[p] \in Nat
      /\ successes \in [Providers -> Nat] /\ limit = [limit EXCEPT ![p] = limit[p]]
      /\ limit[p] \in Nat
  BY ProviderFacts
<1>2. new \in Nat /\ new \in 1..Configured[p]
  <2>1. grown => limit[p] < Configured[p]
    BY DEF Reduced
  <2>. HIDE DEF grown
  <2>. QED
    BY <1>1, <2>1
<1>3. lim = [limit EXCEPT ![p] = new]
  BY <1>1
<1>4. h = [req[r] EXCEPT !.step = "finish", !.held = 0, !.attempt = req[r].attempt]
  BY HandlerFacts DEF Handlers
<1>5. req[r].attempt \in 0..MaxRetries
  BY HandlerFacts DEF Handlers
<1>6. successes' \in [Providers -> Nat]
  <2>1. successes' = [successes EXCEPT ![p] =
          IF ~Reduced(p) THEN successes[p] ELSE IF grown THEN 0 ELSE successes[p] + 1]
    BY DEF AttemptSucceeds
  <2>2. successes[p] \in Nat
    BY <1>1
  <2>. HIDE DEF grown
  <2>3. (IF ~Reduced(p) THEN successes[p] ELSE IF grown THEN 0 ELSE successes[p] + 1) \in Nat
    BY <2>2
  <2>. QED
    BY <1>1, <2>1, <2>3
<1>7. At(r, "fetch") /\ Settle(r, Held(r), lim, h) /\ UNCHANGED <<closing, used>>
  BY DEF AttemptSucceeds
<1>. HIDE DEF lim, h, new
<1>. QED
  BY <1>2, <1>3, <1>4, <1>5, <1>6, <1>7, AttemptStep

LEMMA RetryStep ==
  ASSUME GatewayAssumption, GateInv, NEW r \in Requests, Retry(r)
  PROVE  GateInv' /\ WithinLimit
<1>. DEFINE h == [req[r] EXCEPT !.step = "wait", !.held = 0, !.attempt = req[r].attempt + 1]
<1>1. req[r].attempt + 1 \in 0..MaxRetries
  <2>1. req[r].attempt \in 0..MaxRetries /\ MaxRetries \in Nat
    BY HandlerFacts DEF Handlers, GatewayAssumption
  <2>. QED
    BY <2>1 DEF Retry
<1>2. /\ At(r, "fetch") /\ Settle(r, Held(r), limit, h) /\ UNCHANGED <<closing, used, successes>>
  BY DEF Retry
<1>. HIDE DEF h
<1>. QED
  BY <1>1, <1>2, ProviderFacts, AttemptStep DEF h

LEMMA OverloadedStep ==
  ASSUME GatewayAssumption, GateInv, NEW r \in Requests, Overloaded(r)
  PROVE  GateInv' /\ WithinLimit
<1>. DEFINE p == Provider[r]
            ended == [req[r] EXCEPT !.step = "finish", !.held = 0]
            again == [req[r] EXCEPT !.step = "wait", !.held = 0, !.attempt = req[r].attempt + 1]
<1>1. PICK lim \in {limit, [limit EXCEPT ![p] = Half(limit[p])]} :
        \E h \in {ended} \cup (IF req[r].attempt = MaxRetries THEN {} ELSE {again}) :
           Settle(r, Held(r), lim, h)
  BY DEF Overloaded
<1>2. PICK h \in {ended} \cup (IF req[r].attempt = MaxRetries THEN {} ELSE {again}) :
           Settle(r, Held(r), lim, h)
  BY <1>1
<1>3. PICK new \in Nat : new \in 1..Configured[p] /\ lim = [limit EXCEPT ![p] = new]
  <2>1. limit[p] \in 1..Configured[p] /\ Configured[p] \in Nat /\ limit[p] \in Nat
    BY ProviderFacts
  <2>2. Half(limit[p]) \in 1..Configured[p] /\ Half(limit[p]) \in Nat
    BY <2>1 DEF Half
  <2>. QED
    BY <2>1, <2>2, ProviderFacts
<1>4. PICK step \in {"finish", "wait"}, attempt \in 0..MaxRetries :
        h = [req[r] EXCEPT !.step = step, !.held = 0, !.attempt = attempt]
  <2>1. req[r].attempt \in 0..MaxRetries /\ MaxRetries \in Nat
    BY HandlerFacts DEF Handlers, GatewayAssumption
  <2>2. CASE h = ended
    <3>1. ended = [req[r] EXCEPT !.step = "finish", !.held = 0, !.attempt = req[r].attempt]
      BY HandlerFacts DEF Handlers
    <3>. QED
      BY <2>1, <2>2, <3>1
  <2>3. CASE h = again /\ req[r].attempt # MaxRetries
    <3>1. req[r].attempt + 1 \in 0..MaxRetries
      BY <2>1, <2>3
    <3>. QED
      BY <2>3, <3>1
  <2>. QED
    BY <1>2, <2>2, <2>3
<1>5. successes' \in [Providers -> Nat]
  BY ProviderFacts DEF Overloaded
<1>6. At(r, "fetch") /\ UNCHANGED <<closing, used>>
  BY DEF Overloaded
<1>. HIDE DEF ended, again
<1>. QED
  BY <1>2, <1>3, <1>4, <1>5, <1>6, AttemptStep

LEMMA AbortStep ==
  ASSUME GatewayAssumption, GateInv, NEW r \in Requests, Abort(r)
  PROVE  GateInv' /\ WithinLimit
<1>1. CASE /\ req[r].step \in {"wait", "admit", "fetch"}
           /\ Go(r, "unwind")
           /\ UNCHANGED <<closing, limit, active, queue, successes, used>>
  BY <1>1, GoStep DEF At, Steps
<1>. QED
  BY <1>1, LeaveQueueStep, RefuseStep, FinishStep DEF Abort

LEMMA CloseStep ==
  ASSUME GatewayAssumption, GateInv, Close
  PROVE  GateInv' /\ WithinLimit
<1>1. ASSUME NEW q \in Requests
      PROVE  /\ req'[q] \in Handlers /\ req'[q].held = req[q].held /\ req'[q].bytes = req[q].bytes
             /\ req'[q].step = IF At(q, "queued") THEN "unwind" ELSE req[q].step
  BY HandlerFacts DEF Close, Handlers, Steps
<1>2. req' \in [Requests -> Handlers]
  BY <1>1 DEF Close
<1>3. queue' \in [Limiters -> Seq(Requests)]
  BY EmptySeq DEF Close
<1>4. TypeOK'
  BY <1>2, <1>3 DEF Close, GateInv, TypeOK
<1>5. HandlerInv'
  BY <1>1 DEF GateInv, HandlerInv
<1>6. QueueInv' /\ NoIdlePlace'
  <2>1. \A l \in Limiters : queue'[l] = <<>>
    BY DEF Close
  <2>2. QueueInv'
    <3>1. \A l \in Limiters : 1..Len(queue'[l]) = {}
      BY <2>1
    <3>. QED
      BY <3>1 DEF QueueInv, Limiters
  <2>3. NoIdlePlace'
    BY <2>1 DEF NoIdlePlace, Limiters
  <2>. QED
    BY <2>2, <2>3
<1>7. PlacesAccounted' /\ BytesAccounted'
  <2>1. Reserved' = Reserved /\ \A m : Holders(m)' = Holders(m)
    BY <1>1 DEF Reserved, Holders
  <2>. QED
    BY <2>1 DEF Close, BytesAccounted, PlacesAccounted, GateInv, Limiters
<1>8. WithinLimit
  BY DEF Close, GateInv, TypeOK, WithinLimit
<1>. QED
  BY <1>4, <1>5, <1>6, <1>7, <1>8 DEF GateInv

LEMMA GateNext == ASSUME GatewayAssumption, GateInv, [Next]_vars PROVE GateInv' /\ WithinLimit
<1>1. CASE Close
  BY <1>1, CloseStep
<1>2. CASE \E r \in Requests : Handle(r)
  <2>1. PICK r \in Requests : Handle(r)
    BY <1>2
  <2>. QED
    BY <2>1, ArriveStep, ReserveStep, RefuseStep, WaitSteps, AcquireStep, LeaveQueueStep,
       UnwindStep, AttemptSucceedsStep, RetryStep, OverloadedStep, FinishStep, AbortStep
       DEF Handle
<1>3. CASE UNCHANGED vars
  <2>1. TypeOK' /\ HandlerInv' /\ BytesAccounted'
    BY <1>3 DEF vars, GateInv, TypeOK, HandlerInv, BytesAccounted, Reserved
  <2>2. QueueInv' /\ PlacesAccounted' /\ NoIdlePlace'
    <3>1. QueueInv'
      BY <1>3 DEF vars, GateInv, QueueInv, At, Wanted, Limiters
    <3>2. \A l : Holders(l)' = Holders(l)
      BY <1>3 DEF vars, Holders
    <3>3. PlacesAccounted'
      BY <1>3, <3>2 DEF vars, GateInv, PlacesAccounted, Limiters
    <3>4. NoIdlePlace'
      BY <1>3 DEF vars, GateInv, NoIdlePlace, Limiters
    <3>. QED
      BY <3>1, <3>3, <3>4
  <2>3. GateInv'
    BY <2>1, <2>2 DEF GateInv
  <2>4. WithinLimit
    BY <1>3 DEF vars, WithinLimit, GateInv, TypeOK
  <2>. QED
    BY <2>3, <2>4
<1>. QED
  BY <1>1, <1>2, <1>3 DEF Next

LEMMA GateAccounts ==
  ASSUME GatewayAssumption, GateInv
  PROVE  PlacesAccounted /\ BytesAccounted /\ BackoffHoldsNothing
<1>1. BackoffHoldsNothing
  BY HandlerFacts DEF BackoffHoldsNothing, At, Holders
<1>. QED
  BY <1>1 DEF GateInv

--------------------------------------------------------------------------------
\* SourceAccess.

\* The inductive invariant of the access to a source.
AccessInv == Source!TypeOK /\ Source!QueueServed /\ Source!ProbeOwned

\* A queue as QueueServed asks for, of the calls as they stand.
Queues(q, calls) ==
  /\ q \in Seq(Clients)
  /\ \A i, j \in 1..Len(q) : q[i] = q[j] => i = j
  /\ {c \in Clients : calls[c].step = "queued"} = {q[i] : i \in 1..Len(q)}

\* The calls whose answer counts, and ProbeOwned of them.
Counting(calls) == {c \in Clients : calls[c].step \in {"running", "direct"} /\ calls[c].current}
ProbeOf(p, calls) ==
  /\ p => open /\ \E c \in Clients : Counting(calls) = {c}
  /\ open /\ ~p => Counting(calls) = {}

--------------------------------------------------------------------------------
LEMMA RecordFacts ==
  /\ Source!Idle \in Source!Records /\ Source!Idle.step = "idle" /\ ~Source!Idle.current
  /\ Source!Queued \in Source!Records /\ Source!Queued.step = "queued" /\ ~Source!Queued.current
BY DEF Source!Idle, Source!Queued, Source!Records

LEMMA BehindFacts ==
  ASSUME NEW q \in Seq(Clients), NEW n \in 0..Len(q)
  PROVE  /\ Source!Behind(q, n) \in Seq(Clients) /\ Len(Source!Behind(q, n)) = Len(q) - n
         /\ \A i \in 1..(Len(q) - n) : Source!Behind(q, n)[i] = q[n + i]
<1>1. PICK a \in Int, b \in Int : a = n + 1 /\ b = Len(q)
  <2>1. n + 1 \in Int /\ Len(q) \in Int
    OBVIOUS
  <2>. QED
    BY <2>1, Zenon
<1>2. \A i \in a..b : q[i] \in Clients
  BY <1>1
<1>3. /\ SubSeq(q, a, b) \in Seq(Clients)
      /\ Len(SubSeq(q, a, b)) = IF a <= b THEN b - a + 1 ELSE 0
      /\ \A i \in 1..(b - a + 1) : SubSeq(q, a, b)[i] = q[a + i - 1]
  BY <1>2, SubSeqProperties
<1>4. Source!Behind(q, n) = SubSeq(q, a, b)
  BY <1>1 DEF Source!Behind
<1>5. Len(Source!Behind(q, n)) = Len(q) - n
  BY <1>1, <1>3, <1>4
<1>6. ASSUME NEW i \in 1..(Len(q) - n) PROVE Source!Behind(q, n)[i] = q[n + i]
  <2>1. i \in 1..(b - a + 1) /\ a + i - 1 = n + i
    BY <1>1
  <2>. QED
    BY <1>3, <1>4, <2>1
<1>. QED
  BY <1>3, <1>4, <1>5, <1>6

\* Rejecting the first n entries of a queue leaves the others queued.
LEMMA RejectedFacts ==
  ASSUME NEW q, NEW calls \in [Clients -> Source!Records], Queues(q, calls), NEW n \in 0..Len(q)
  PROVE  /\ Source!Rejected(q, n, calls) \in [Clients -> Source!Records]
         /\ Queues(Source!Behind(q, n), Source!Rejected(q, n, calls))
         /\ Counting(Source!Rejected(q, n, calls)) = Counting(calls)
         /\ \A c \in Clients :
              \/ Source!Rejected(q, n, calls)[c] = calls[c]
              \/ calls[c].step = "queued" /\ Source!Rejected(q, n, calls)[c] = Source!Idle
<1>. DEFINE R == Source!Rejected(q, n, calls)
            rest == Source!Behind(q, n)
<1>1. q \in Seq(Clients) /\ Len(q) \in Nat /\ \A i \in 1..Len(q) : q[i] \in Clients
  BY LenProperties DEF Queues
<1>2. rest \in Seq(Clients) /\ Len(rest) = Len(q) - n /\ \A i \in 1..(Len(q) - n) : rest[i] = q[n + i]
  BY <1>1, BehindFacts
<1>3. \A c \in Clients : R[c] = IF \E i \in 1..n : q[i] = c THEN Source!Idle ELSE calls[c]
  BY DEF Source!Rejected
<1>4. R \in [Clients -> Source!Records]
  BY RecordFacts DEF Source!Rejected
<1>. HIDE DEF R, rest
<1>5. ASSUME NEW c \in Clients, \E i \in 1..n : q[i] = c PROVE calls[c].step = "queued"
  BY <1>1, <1>5 DEF Queues
<1>6. ASSUME NEW c \in Clients
      PROVE  R[c] = calls[c] \/ (calls[c].step = "queued" /\ R[c] = Source!Idle)
  BY <1>3, <1>5
<1>7. Counting(R) = Counting(calls)
  BY <1>6, RecordFacts DEF Counting
<1>8. ASSUME NEW c \in Clients PROVE R[c].step = "queued" <=> \E i \in 1..Len(rest) : rest[i] = c
  <2>1. ASSUME NEW i \in 1..Len(rest), rest[i] = c PROVE R[c].step = "queued"
    <3>1. n + i \in 1..Len(q) /\ q[n + i] = c
      BY <1>1, <1>2, <2>1
    <3>2. ~\E k \in 1..n : q[k] = c
      BY <1>1, <3>1 DEF Queues
    <3>3. calls[c].step = "queued"
      BY <3>1 DEF Queues
    <3>. QED
      BY <1>3, <3>2, <3>3
  <2>2. ASSUME R[c].step = "queued" PROVE \E i \in 1..Len(rest) : rest[i] = c
    <3>1. ~(\E i \in 1..n : q[i] = c) /\ calls[c].step = "queued"
      BY <1>3, <2>2, RecordFacts
    <3>2. PICK k \in 1..Len(q) : q[k] = c
      BY <3>1 DEF Queues
    <3>3. k - n \in 1..Len(rest) /\ n + (k - n) = k
      BY <1>1, <1>2, <3>1, <3>2
    <3>. QED
      BY <1>2, <3>2, <3>3
  <2>. QED
    BY <2>1, <2>2
<1>9. \A i, j \in 1..Len(rest) : rest[i] = rest[j] => i = j
  <2>. SUFFICES ASSUME NEW i \in 1..Len(rest),
  NEW j \in 1..Len(rest), rest[i] = rest[j] PROVE i = j
    OBVIOUS
  <2>1. n + i \in 1..Len(q) /\ n + j \in 1..Len(q) /\ q[n + i] = q[n + j]
    BY <1>1, <1>2
  <2>2. n + i = n + j
    BY <2>1 DEF Queues
  <2>. QED
    BY <2>2
<1>10. Queues(rest, R)
  <2>1. \A i \in 1..Len(rest) : rest[i] \in Clients
    BY <1>2
  <2>. QED
    BY <1>2, <1>8, <1>9, <2>1 DEF Queues
<1>. QED
  BY <1>4, <1>6, <1>7, <1>10 DEF R, rest

\* What a step that only drains does to a call.
DrainedTo(c, calls) ==
  \/ access'[c].step = calls[c].step
  \/ calls[c].step = "queued" /\ access'[c].step = "idle"
  \/ calls[c].step = "queued" /\ access'[c].step = "running" /\ ~paced /\ paced'

\* The queue, its timer and the leases are in order again.
InOrder ==
  /\ waiting' \in Seq(Clients) /\ access' \in [Clients -> Source!Records]
  /\ {paced', timer', probe'} \subseteq BOOLEAN
  /\ Source!QueueServed' /\ Source!ProbeOwned'

LEMMA InOrderFacts ==
  ASSUME NEW qq, NEW cc \in [Clients -> Source!Records], waiting' = qq, access' = cc,
         Queues(qq, cc), ProbeOf(probe', cc), open' = open,
         timer' = (qq # <<>>), {paced', probe'} \subseteq BOOLEAN
  PROVE  InOrder
<1>1. Source!CurrentCalls' = Counting(cc)
  BY DEF Source!CurrentCalls, Counting, Source!UnderWay
<1>2. Source!ProbeOwned'
  BY <1>1 DEF ProbeOf, Source!ProbeOwned
<1>3. Source!QueueServed'
  <2>1. timer' <=> waiting' # <<>>
    BY Zenon
  <2>. QED
    BY <2>1 DEF Queues, Source!QueueServed
<1>. QED
  BY <1>2, <1>3 DEF InOrder, Queues

LEMMA RejectStep ==
  ASSUME {paced, probe} \subseteq BOOLEAN,
         NEW q,
         NEW calls \in [Clients -> Source!Records], Queues(q, calls), ProbeOf(probe, calls),
         NEW n \in 0..Len(q), waiting' = Source!Behind(q, n), access' = Source!Rejected(q, n, calls),
         timer' = (Source!Behind(q, n) # <<>>), UNCHANGED <<paced, probe, open>>
  PROVE  /\ InOrder /\ Len(waiting') <= Len(q)
         /\ \A c \in Clients : access'[c].step # "running" \/ calls[c].step = "running"
         /\ \A c \in Clients : DrainedTo(c, calls)
<1>1. /\ access' \in [Clients -> Source!Records] /\ Queues(waiting', access')
      /\ Counting(access') = Counting(calls)
      /\ \A c \in Clients :
           access'[c] = calls[c] \/ (calls[c].step = "queued" /\ access'[c] = Source!Idle)
  BY RejectedFacts
<1>2. Len(waiting') <= Len(q)
  BY BehindFacts DEF Queues
<1>3. ProbeOf(probe', access')
  BY <1>1 DEF ProbeOf
<1>4. InOrder
  BY <1>1, <1>3, InOrderFacts
<1>. QED
  BY <1>1, <1>2, <1>4, RecordFacts DEF DrainedTo

\* A call that is admitted, of those in calls.
LEMMA AdmitStep ==
  ASSUME {open, probe} \subseteq BOOLEAN,
         NEW calls \in [Clients -> Source!Records],
         NEW c \in Clients, ProbeOf(probe, calls), ~(open /\ probe),
         calls[c].step \in {"idle", "queued"} , NEW step \in {"running", "direct"},
         Source!Admit(c, calls, step), open' = open
  PROVE  /\ access' \in [Clients -> Source!Records] /\ probe' \in BOOLEAN /\ ProbeOf(probe', access')
         /\ access'[c].step = step /\ \A d \in Clients \ {c} : access'[d].step = calls[d].step
<1>. DEFINE new == [Source!Idle EXCEPT !.step = step, !.current = TRUE]
            base == IF open THEN Source!OutOfDate(calls) ELSE calls
<1>1. new \in Source!Records /\ new.step = step /\ new.current
  BY DEF Source!Idle, Source!Records
<1>2. /\ base \in [Clients -> Source!Records]
      /\ \A d \in Clients : base[d].step = calls[d].step
      /\ \A d \in Clients : IF open THEN ~base[d].current ELSE base[d] = calls[d]
  BY DEF Source!OutOfDate, Source!Records
<1>3. access' = [base EXCEPT ![c] = new] /\ probe' = open
  BY DEF Source!Admit
<1>. HIDE DEF new, base
<1>4. access' \in [Clients -> Source!Records] /\ access'[c] = new /\ \A d \in Clients \ {c} : access'[d] = base[d]
  BY <1>1, <1>2, <1>3
<1>5. open => Counting(access') = {c}
  BY <1>1, <1>2, <1>4 DEF Counting
<1>. QED
  BY <1>1, <1>2, <1>3, <1>4, <1>5 DEF ProbeOf

\* What a drain leaves, from a queue and calls that are in order.
LEMMA DrainStep ==
  ASSUME {paced, open, probe} \subseteq BOOLEAN,
         NEW q,
         NEW calls \in [Clients -> Source!Records], Queues(q, calls), ProbeOf(probe, calls),
         Source!Drain(q, calls), open' = open
  PROVE  /\ InOrder /\ Len(waiting') <= Len(q)
         /\ \A c \in Clients : DrainedTo(c, calls)
         /\ \A c, d \in Clients :
              /\ access'[c].step = "running" /\ calls[c].step # "running"
              /\ access'[d].step = "running" /\ calls[d].step # "running"
              => c = d
<1>0. Len(q) \in Nat /\ q \in Seq(Clients)
  BY LenProperties DEF Queues
<1>1. PICK n \in 0..Len(q) :
    \/ /\ waiting' = Source!Behind(q, n)
       /\ timer' = Source!Armed(Source!Behind(q, n), FALSE)
       /\ access' = Source!Rejected(q, n, calls)
       /\ UNCHANGED <<paced, probe>>
    \/ /\ waiting' = <<>>
       /\ timer' = FALSE
       /\ access' = Source!Rejected(q, Len(q), calls)
       /\ UNCHANGED <<paced, probe>>
    \/ /\ ~paced /\ n < Len(q) /\ Source!Admits(FALSE)
       /\ \E m \in (n + 1)..Len(q) :
             /\ waiting' = Source!Behind(q, m)
             /\ timer' = Source!Armed(Source!Behind(q, m), TRUE)
             /\ Source!Admit(q[n + 1], Source!Rejected(q, m, calls), "running")
       /\ paced' = Source!Spaced
  BY DEF Source!Drain
<1>2. CASE /\ waiting' = Source!Behind(q, n)
           /\ timer' = Source!Armed(Source!Behind(q, n), FALSE)
           /\ access' = Source!Rejected(q, n, calls)
           /\ UNCHANGED <<paced, probe>>
  BY <1>2, RejectStep DEF Source!Armed
<1>3. CASE /\ waiting' = <<>>
           /\ timer' = FALSE
           /\ access' = Source!Rejected(q, Len(q), calls)
           /\ UNCHANGED <<paced, probe>>
  <2>1. Source!Behind(q, Len(q)) = <<>> /\ Len(q) \in 0..Len(q)
    <3>1. Source!Behind(q, Len(q)) \in Seq(Clients) /\ Len(Source!Behind(q, Len(q))) = Len(q) - Len(q)
      BY <1>0, BehindFacts
    <3>. QED
      BY <1>0, <3>1, EmptySeq
  <2>. QED
    BY <1>3, <2>1, RejectStep
<1>4. CASE /\ ~paced /\ n < Len(q) /\ Source!Admits(FALSE)
           /\ \E m \in (n + 1)..Len(q) :
                 /\ waiting' = Source!Behind(q, m)
                 /\ timer' = Source!Armed(Source!Behind(q, m), TRUE)
                 /\ Source!Admit(q[n + 1], Source!Rejected(q, m, calls), "running")
           /\ paced' = Source!Spaced
  <2>1. PICK m \in (n + 1)..Len(q) :
                 /\ waiting' = Source!Behind(q, m)
                 /\ timer' = Source!Armed(Source!Behind(q, m), TRUE)
                 /\ Source!Admit(q[n + 1], Source!Rejected(q, m, calls), "running")
    BY <1>4
  <2>. DEFINE R == Source!Rejected(q, m, calls)
              c == q[n + 1]
  <2>2. /\ m \in 0..Len(q) /\ n + 1 \in 1..m /\ n + 1 \in 1..Len(q)
    BY <1>0, <2>1
  <2>3. c \in Clients /\ calls[c].step = "queued" /\ R[c] = Source!Idle
    <3>1. c \in Clients /\ calls[c].step = "queued"
      BY <2>2 DEF Queues
    <3>. QED
      BY <2>2, <3>1 DEF Source!Rejected
  <2>4. /\ R \in [Clients -> Source!Records] /\ Queues(Source!Behind(q, m), R)
        /\ Counting(R) = Counting(calls)
        /\ \A d \in Clients : R[d] = calls[d] \/ (calls[d].step = "queued" /\ R[d] = Source!Idle)
    BY <2>2, RejectedFacts
  <2>5. Source!Admit(c, R, "running")
    BY <2>1
  <2>. HIDE DEF R, c
  <2>6. ProbeOf(probe, R) /\ ~(open /\ probe)
    BY <1>4, <2>4 DEF ProbeOf, Source!Admits
  <2>7. /\ access' \in [Clients -> Source!Records] /\ probe' \in BOOLEAN /\ ProbeOf(probe', access')
        /\ access'[c].step = "running" /\ \A d \in Clients \ {c} : access'[d].step = R[d].step
    BY <2>3, <2>4, <2>5, <2>6, AdmitStep, RecordFacts
  <2>8. Queues(waiting', access')
    <3>1. waiting' = Source!Behind(q, m)
      BY <2>1
    <3>2. \A d \in Clients : access'[d].step = "queued" <=> R[d].step = "queued"
      BY <2>3, <2>7, RecordFacts
    <3>. QED
      BY <2>4, <3>1, <3>2 DEF Queues
  <2>9. InOrder
    <3>1. timer' = (waiting' # <<>>) /\ paced'
      BY <1>4, <2>1 DEF Source!Armed, Source!Spaced
    <3>. QED
      BY <1>4, <2>7, <2>8, <3>1, InOrderFacts DEF Source!Spaced
  <2>10. Len(waiting') <= Len(q)
    BY <1>0, <2>1, <2>2, BehindFacts
  <2>11. ASSUME NEW d \in Clients
         PROVE  /\ DrainedTo(d, calls)
                /\ access'[d].step = "running" /\ calls[d].step # "running" => d = c
    <3>1. CASE d = c
      BY <1>4, <2>3, <2>7, <3>1 DEF DrainedTo, Source!Spaced
    <3>2. CASE d # c
      BY <2>4, <2>7, <3>2, RecordFacts DEF DrainedTo
    <3>. QED
      BY <3>1, <3>2
  <2>. QED
    BY <2>9, <2>10, <2>11
<1>. QED
  BY <1>1, <1>2, <1>3, <1>4

--------------------------------------------------------------------------------
\* What each step shows: the invariant, and the two action properties.
SourceKept == AccessInv' /\ Source!OverdueHarmless /\ Source!Apart

LEMMA SourceFacts ==
  ASSUME AccessInv
  PROVE  /\ {paced, timer, open, cooling, probe} \subseteq BOOLEAN
         /\ waiting \in Seq(Clients) /\ access \in [Clients -> Source!Records]
         /\ Queues(waiting, access) /\ ProbeOf(probe, access)
<1>1. Source!CurrentCalls = Counting(access)
  BY DEF Source!CurrentCalls, Counting, Source!UnderWay
<1>. QED
  BY <1>1 DEF AccessInv, Source!TypeOK, Source!QueueServed, Source!ProbeOwned, Queues, ProbeOf

LEMMA SourceInit == ASSUME Source!SourceAssumption, Source!Init PROVE AccessInv
<1>1. Source!TypeOK
  <2>1. waiting \in Seq(Clients) /\ Len(waiting) = 0
    BY EmptySeq DEF Source!Init
  <2>2. Len(waiting) <= MaxQueue /\ failures \in 0..(Threshold - 1)
    BY <2>1 DEF Source!Init, Source!SourceAssumption
  <2>3. access \in [Clients -> Source!Records] /\ {paced, timer, open, cooling, probe} \subseteq BOOLEAN
    BY RecordFacts DEF Source!Init
  <2>. QED
    BY <2>1, <2>2, <2>3 DEF Source!TypeOK
<1>2. \A c \in Clients : access[c].step = "idle" /\ access[c] = Source!Idle
  BY RecordFacts DEF Source!Init
<1>3. Source!QueueServed
  BY <1>2 DEF Source!Init, Source!QueueServed
<1>4. Source!ProbeOwned
  BY DEF Source!Init, Source!ProbeOwned
<1>. QED
  BY <1>1, <1>3, <1>4 DEF AccessInv

\* A drain with calls whose steps are those of before, but for c's, which was
\* waiting or did nothing.
LEMMA DrainKeeps ==
  ASSUME Source!SourceAssumption, AccessInv, NEW c \in Clients, NEW q,
         NEW calls \in [Clients -> Source!Records],
         access[c].step \in {"idle", "queued"}, calls[c].step \in {"idle", "queued"},
         \A d \in Clients \ {c} : calls[d] = access[d],
         Queues(q, calls), Len(q) <= MaxQueue, Source!Drain(q, calls),
         UNCHANGED <<failures, open, cooling>>
  PROVE  SourceKept
<1>1. /\ {paced, timer, open, cooling, probe} \subseteq BOOLEAN
      /\ access \in [Clients -> Source!Records] /\ ProbeOf(probe, access)
  BY SourceFacts
<1>2. Counting(calls) = Counting(access)
  <2>1. \A d \in Clients : d \in Counting(calls) <=> d \in Counting(access)
    BY DEF Counting
  <2>. QED
    BY <2>1 DEF Counting
<1>3. ProbeOf(probe, calls)
  BY <1>1, <1>2 DEF ProbeOf
<1>4. /\ InOrder /\ Len(waiting') <= Len(q)
      /\ \A d \in Clients : DrainedTo(d, calls)
      /\ \A d, e \in Clients :
           /\ access'[d].step = "running" /\ calls[d].step # "running"
           /\ access'[e].step = "running" /\ calls[e].step # "running"
           => d = e
  BY <1>1, <1>3, DrainStep
<1>5. Source!TypeOK'
  <2>1. Len(waiting') <= MaxQueue
    <3>1. Len(waiting') \in Nat /\ Len(q) \in Nat /\ MaxQueue \in Nat
      BY <1>4, LenProperties DEF InOrder, Queues, Source!SourceAssumption
    <3>. QED
      BY <1>4, <3>1
  <2>. QED
    BY <1>1, <1>4, <2>1 DEF InOrder, Source!TypeOK, AccessInv
<1>6. AccessInv'
  BY <1>4, <1>5 DEF InOrder, AccessInv
<1>7. ASSUME NEW d \in Clients, Source!UnderWay(d) PROVE access'[d].step # "idle"
  BY <1>4, <1>7 DEF Source!UnderWay, DrainedTo
<1>8. Source!OverdueHarmless
  BY <1>7 DEF Source!OverdueHarmless
<1>9. Source!Apart
  <2>1. ASSUME NEW d \in Source!Dispatched
        PROVE  d \in Clients /\ access'[d].step = "running" /\ calls[d].step # "running"
    BY DEF Source!Dispatched
  <2>2. \A d \in Source!Dispatched : ~paced /\ paced'
    BY <1>4, <2>1 DEF DrainedTo
  <2>3. \A d, e \in Source!Dispatched : d = e
    BY <1>4, <2>1
  <2>. QED
    BY <2>2, <2>3 DEF Source!Apart
<1>. QED
  BY <1>6, <1>8, <1>9 DEF SourceKept

LEMMA ScheduleStep ==
  ASSUME Source!SourceAssumption, AccessInv, NEW c \in Clients, Source!Schedule(c)
  PROVE  SourceKept
<1>. DEFINE q == Append(waiting, c)
            calls == [access EXCEPT ![c] = Source!Queued]
<1>1. Queues(waiting, access) /\ access \in [Clients -> Source!Records] /\ waiting \in Seq(Clients)
  BY SourceFacts
<1>2. /\ q \in Seq(Clients) /\ Len(q) = Len(waiting) + 1 /\ Len(waiting) \in Nat
      /\ \A i \in 1..Len(waiting) : q[i] = waiting[i]
      /\ q[Len(waiting) + 1] = c
  BY <1>1, AppendProperties, LenProperties
<1>3. calls \in [Clients -> Source!Records] /\ calls[c] = Source!Queued /\ \A d \in Clients \ {c} : calls[d] = access[d]
  BY <1>1, RecordFacts
<1>4. Source!Drain(q, calls) /\ access[c].step = "idle" /\ UNCHANGED <<failures, open, cooling>>
  BY DEF Source!Schedule
<1>. HIDE DEF q, calls
<1>5. Len(q) <= MaxQueue
  BY <1>2 DEF Source!Schedule, Source!SourceAssumption
<1>6. \A i \in 1..Len(waiting) : waiting[i] # c
  BY <1>1, <1>4 DEF Queues
<1>7. Queues(q, calls)
  <2>1. \A i, j \in 1..Len(q) : q[i] = q[j] => i = j
    BY <1>1, <1>2, <1>6 DEF Queues
  <2>2. ASSUME NEW d \in Clients PROVE calls[d].step = "queued" <=> \E i \in 1..Len(q) : q[i] = d
    <3>1. CASE d = c
      BY <1>2, <1>3, <3>1, RecordFacts
    <3>2. CASE d # c
      <4>1. (\E i \in 1..Len(q) : q[i] = d) <=> (\E i \in 1..Len(waiting) : waiting[i] = d)
        BY <1>2, <3>2
      <4>. QED
        BY <1>1, <1>3, <3>2, <4>1 DEF Queues
    <3>. QED
      BY <3>1, <3>2
  <2>3. \A i \in 1..Len(q) : q[i] \in Clients
    BY <1>2
  <2>. QED
    BY <1>2, <2>1, <2>2, <2>3 DEF Queues
<1>. QED
  BY <1>3, <1>4, <1>5, <1>7, RecordFacts, DrainKeeps

LEMMA LeaveStep ==
  ASSUME Source!SourceAssumption, AccessInv, NEW c \in Clients, Source!Leave(c)
  PROVE  SourceKept
<1>1. Queues(waiting, access) /\ access \in [Clients -> Source!Records] /\ waiting \in Seq(Clients)
  BY SourceFacts
<1>2. PICK n \in 1..Len(waiting) :
        /\ waiting[n] = c
        /\ Source!Drain(SubSeq(waiting, 1, n - 1) \o Source!Behind(waiting, n), [access EXCEPT ![c] = Source!Idle])
  BY DEF Source!Leave
<1>. DEFINE a == SubSeq(waiting, 1, n - 1)
            b == Source!Behind(waiting, n)
            q == a \o b
            calls == [access EXCEPT ![c] = Source!Idle]
<1>3. calls \in [Clients -> Source!Records] /\ calls[c] = Source!Idle /\ \A d \in Clients \ {c} : calls[d] = access[d]
  BY <1>1, RecordFacts
<1>4. Source!Drain(q, calls) /\ access[c].step = "queued" /\ UNCHANGED <<failures, open, cooling>>
  BY <1>2 DEF Source!Leave
<1>5. a \in Seq(Clients) /\ Len(a) = n - 1 /\ \A i \in 1..(n - 1) : a[i] = waiting[i]
  <2>1. n \in 1..Len(waiting) /\ waiting \in Seq(Clients)
    BY <1>1
  <2>2. \A i \in 1..(n - 1) : waiting[i] \in Clients
    BY <2>1
  <2>. QED
    BY <2>1, <2>2, SubSeqProperties
<1>6. b \in Seq(Clients) /\ Len(b) = Len(waiting) - n /\ \A i \in 1..(Len(waiting) - n) : b[i] = waiting[n + i]
  <2>1. n \in 0..Len(waiting) /\ waiting \in Seq(Clients)
    BY <1>1
  <2>. QED
    BY <2>1, BehindFacts
<1>. HIDE DEF a, b, calls
<1>7. /\ q \in Seq(Clients) /\ Len(q) = Len(waiting) - 1 /\ Len(waiting) \in Nat
      /\ \A i \in 1..(Len(waiting) - 1) : q[i] = IF i < n THEN waiting[i] ELSE waiting[i + 1]
  <2>1. /\ q \in Seq(Clients) /\ Len(q) = Len(a) + Len(b)
        /\ \A i \in 1..(Len(a) + Len(b)) :
              q[i] = IF i <= Len(a) THEN a[i] ELSE b[i - Len(a)]
    BY <1>5, <1>6, ConcatProperties
  <2>. QED
    BY <1>1, <1>2, <1>5, <1>6, <2>1
<1>. HIDE DEF q
<1>8. Len(q) <= MaxQueue
  BY <1>7 DEF AccessInv, Source!TypeOK, Source!SourceAssumption
<1>9. Queues(q, calls)
  <2>1. \A i, j \in 1..Len(q) : q[i] = q[j] => i = j
    BY <1>1, <1>2, <1>7, SMTT(30) DEF Queues
  <2>2. ASSUME NEW d \in Clients, d # c
        PROVE  (\E i \in 1..Len(q) : q[i] = d) <=> (\E i \in 1..Len(waiting) : waiting[i] = d)
    <3>1. ASSUME NEW i \in 1..Len(q), q[i] = d PROVE \E k \in 1..Len(waiting) : waiting[k] = d
      BY <1>2, <1>7, <3>1, SMTT(30)
    <3>2. ASSUME NEW k \in 1..Len(waiting), waiting[k] = d PROVE \E i \in 1..Len(q) : q[i] = d
      <4>1. CASE k < n
        BY <1>2, <1>7, <3>2, <4>1
      <4>2. CASE k > n
        <5>1. k - 1 \in 1..Len(q) /\ ~(k - 1 < n) /\ (k - 1) + 1 = k
          BY <1>2, <1>7, <4>2
        <5>. QED
          BY <1>7, <3>2, <5>1
      <4>3. k # n
        BY <1>2, <2>2, <3>2
      <4>. QED
        BY <1>2, <4>1, <4>2, <4>3
    <3>. QED
      BY <3>1, <3>2
  <2>3. ~\E i \in 1..Len(q) : q[i] = c
    BY <1>1, <1>2, <1>7, SMTT(30) DEF Queues
  <2>4. ASSUME NEW d \in Clients PROVE calls[d].step = "queued" <=> \E i \in 1..Len(q) : q[i] = d
    <3>1. CASE d = c
      BY <1>3, <2>3, <3>1, RecordFacts
    <3>2. CASE d # c
      <4>1. access[d].step = "queued" <=> \E i \in 1..Len(waiting) : waiting[i] = d
        BY <1>1 DEF Queues
      <4>2. calls[d] = access[d]
        BY <1>3, <3>2
      <4>. QED
        BY <2>2, <3>2, <4>1, <4>2
    <3>. QED
      BY <3>1, <3>2
  <2>5. \A i \in 1..Len(q) : q[i] \in Clients
    BY <1>7
  <2>6. {d \in Clients : calls[d].step = "queued"} = {q[i] : i \in 1..Len(q)}
    BY <2>4, <2>5
  <2>. QED
    BY <1>7, <2>1, <2>6 DEF Queues
<1>. QED
  BY <1>3, <1>4, <1>8, <1>9, RecordFacts, DrainKeeps

LEMMA TimerFiresStep ==
  ASSUME Source!SourceAssumption, AccessInv, Source!TimerFires
  PROVE  SourceKept
<1>1. Queues(waiting, access) /\ access \in [Clients -> Source!Records] /\ waiting \in Seq(Clients)
  BY SourceFacts
<1>2. waiting # <<>>
  BY DEF Source!TimerFires, AccessInv, Source!QueueServed
<1>3. waiting[1] \in Clients /\ access[waiting[1]].step = "queued"
  <2>1. 1 \in 1..Len(waiting)
    BY <1>1, <1>2, EmptySeq, LenProperties
  <2>2. waiting[1] \in {waiting[i] : i \in 1..Len(waiting)}
    BY <2>1
  <2>3. waiting[1] \in {c \in Clients : access[c].step = "queued"}
    BY <1>1, <2>2 DEF Queues
  <2>. QED
    BY <2>3
<1>4. Source!Drain(waiting, access) /\ UNCHANGED <<failures, open, cooling>> /\ Len(waiting) <= MaxQueue
  BY DEF Source!TimerFires, AccessInv, Source!TypeOK
<1>. QED
  BY <1>1, <1>3, <1>4, DrainKeeps

\* Calls that go straight to the breaker.
LEMMA DirectStep ==
  ASSUME AccessInv, NEW c \in Clients, Source!Direct(c)
  PROVE  SourceKept
<1>1. /\ {paced, timer, open, cooling, probe} \subseteq BOOLEAN
      /\ waiting \in Seq(Clients) /\ access \in [Clients -> Source!Records]
      /\ Queues(waiting, access) /\ ProbeOf(probe, access)
  BY SourceFacts
<1>2. ~(open /\ probe)
  BY DEF Source!Direct, Source!Admits
<1>3. /\ access[c].step = "idle" /\ Source!Admit(c, access, "direct")
      /\ UNCHANGED <<waiting, paced, timer, failures, open, cooling>>
  BY DEF Source!Direct
<1>4. /\ access' \in [Clients -> Source!Records] /\ probe' \in BOOLEAN /\ ProbeOf(probe', access')
      /\ access'[c].step = "direct" /\ \A d \in Clients \ {c} : access'[d].step = access[d].step
  BY <1>1, <1>2, <1>3, AdmitStep
<1>5. Queues(waiting, access')
  <2>1. \A d \in Clients : access'[d].step = "queued" <=> access[d].step = "queued"
    BY <1>3, <1>4
  <2>. QED
    BY <1>1, <2>1 DEF Queues
<1>6. InOrder
  <2>1. timer' = (waiting # <<>>) /\ open' = open /\ {paced', probe'} \subseteq BOOLEAN
    <3>1. timer <=> waiting # <<>>
      BY DEF AccessInv, Source!QueueServed
    <3>2. timer = (waiting # <<>>)
      BY <1>1, <3>1
    <3>. QED
      BY <1>1, <1>3, <1>4, <3>2
  <2>2. waiting' = waiting
    BY <1>3
  <2>. QED
    BY <1>4, <1>5, <2>1, <2>2, InOrderFacts
<1>7. AccessInv'
  BY <1>1, <1>3, <1>6 DEF InOrder, AccessInv, Source!TypeOK
<1>8. Source!OverdueHarmless /\ Source!Apart
  BY <1>3, <1>4 DEF Source!OverdueHarmless, Source!Apart, Source!UnderWay, Source!Dispatched
<1>. QED
  BY <1>7, <1>8 DEF SourceKept

\* Time.
LEMMA TimeSteps ==
  ASSUME AccessInv, Source!IntervalEnds \/ Source!CooldownEnds \/ (\E c \in Clients : Source!WaitExpires(c))
         \/ UNCHANGED Source!vars
  PROVE  SourceKept
<1>1. /\ {paced, timer, open, cooling, probe} \subseteq BOOLEAN
      /\ waiting \in Seq(Clients) /\ access \in [Clients -> Source!Records]
  BY SourceFacts
<1>2. /\ UNCHANGED <<waiting, timer, failures, open, probe>> /\ {paced', cooling'} \subseteq BOOLEAN
      /\ access' \in [Clients -> Source!Records]
      /\ \A c \in Clients : access'[c].step = access[c].step /\ access'[c].current = access[c].current
  <2>1. CASE \E c \in Clients : Source!WaitExpires(c)
    BY <1>1, <2>1, ZenonT(40) DEF Source!WaitExpires, Source!Records
  <2>2. CASE Source!IntervalEnds
    BY <1>1, <2>2 DEF Source!IntervalEnds
  <2>3. CASE Source!CooldownEnds
    BY <1>1, <2>3 DEF Source!CooldownEnds
  <2>4. CASE UNCHANGED Source!vars
    BY <1>1, <2>4 DEF Source!vars
  <2>. QED
    BY <2>1, <2>2, <2>3, <2>4
<1>3. Source!TypeOK'
  BY <1>1, <1>2 DEF AccessInv, Source!TypeOK
<1>4. Source!QueueServed'
  BY <1>2 DEF AccessInv, Source!QueueServed
<1>5. Source!ProbeOwned'
  <2>1. Source!CurrentCalls' = Source!CurrentCalls
    BY <1>2 DEF Source!CurrentCalls, Source!UnderWay
  <2>. QED
    BY <1>2, <2>1 DEF AccessInv, Source!ProbeOwned
<1>6. Source!OverdueHarmless /\ Source!Apart
  BY <1>2 DEF Source!OverdueHarmless, Source!Apart, Source!UnderWay, Source!Dispatched
<1>. QED
  BY <1>3, <1>4, <1>5, <1>6 DEF SourceKept, AccessInv

\* What the end of a call leaves: its own lease is gone, and with renew all are.
LEMMA EndedFacts ==
  ASSUME NEW c \in Clients, access \in [Clients -> Source!Records],
         NEW renew \in BOOLEAN, Source!Ended(c, renew)
  PROVE  /\ access' \in [Clients -> Source!Records] /\ access'[c] = Source!Idle
         /\ \A d \in Clients \ {c} :
              /\ access'[d].step = access[d].step
              /\ IF renew THEN ~access'[d].current ELSE access'[d] = access[d]
<1>. DEFINE base == IF renew THEN Source!OutOfDate(access) ELSE access
<1>1. /\ base \in [Clients -> Source!Records]
      /\ \A d \in Clients : /\ base[d].step = access[d].step
                            /\ IF renew THEN ~base[d].current ELSE base[d] = access[d]
  BY DEF Source!OutOfDate, Source!Records
<1>2. access' = [base EXCEPT ![c] = Source!Idle]
  BY DEF Source!Ended
<1>. HIDE DEF base
<1>. QED
  BY <1>1, <1>2, RecordFacts

\* An answer, given what it does to the breaker: an old lease's does nothing,
\* and an owner's leaves no probe.
LEMMA AnswerStep ==
  ASSUME Source!SourceAssumption, AccessInv, NEW c \in Clients, Source!UnderWay(c),
         NEW renew \in BOOLEAN,
         Source!Ended(c, renew), UNCHANGED Source!pacer,
         {open', cooling', probe'} \subseteq BOOLEAN, failures' \in 0..(Threshold - 1),
         \/ ~Source!Owns(c) /\ ~renew /\ UNCHANGED <<failures, open, cooling, probe>>
         \/ Source!Owns(c) /\ ~probe' /\ (open' => renew \/ (open /\ ~probe))
  PROVE  SourceKept
<1>1. /\ {paced, timer, open, cooling, probe} \subseteq BOOLEAN
      /\ waiting \in Seq(Clients) /\ access \in [Clients -> Source!Records]
  BY SourceFacts
<1>2. /\ access' \in [Clients -> Source!Records] /\ access'[c] = Source!Idle
      /\ \A d \in Clients \ {c} :
           /\ access'[d].step = access[d].step
           /\ IF renew THEN ~access'[d].current ELSE access'[d] = access[d]
  BY <1>1, EndedFacts
<1>3. Source!TypeOK'
  BY <1>1, <1>2 DEF AccessInv, Source!TypeOK, Source!pacer
<1>4. Source!QueueServed'
  <2>1. \A d \in Clients : access'[d].step = "queued" <=> access[d].step = "queued"
    BY <1>2, RecordFacts DEF Source!UnderWay
  <2>. QED
    BY <2>1 DEF AccessInv, Source!QueueServed, Source!pacer
<1>5. Source!ProbeOwned'
  <2>1. CASE ~Source!Owns(c) /\ ~renew /\ UNCHANGED <<failures, open, cooling, probe>>
    <3>1. Source!CurrentCalls' = Source!CurrentCalls
      BY <1>2, <2>1, RecordFacts DEF Source!CurrentCalls, Source!UnderWay, Source!Owns
    <3>. QED
      BY <2>1, <3>1 DEF AccessInv, Source!ProbeOwned
  <2>2. CASE Source!Owns(c) /\ ~probe' /\ (open' => renew \/ (open /\ ~probe))
    <3>1. renew => Source!CurrentCalls' = {}
      BY <1>2, RecordFacts DEF Source!CurrentCalls, Source!UnderWay
    <3>2. ~(open /\ ~probe)
      BY <2>2 DEF AccessInv, Source!ProbeOwned, Source!CurrentCalls, Source!Owns
    <3>. QED
      BY <2>2, <3>1, <3>2 DEF Source!ProbeOwned
  <2>. QED
    BY <2>1, <2>2
<1>6. Source!OverdueHarmless
  <2>. SUFFICES ASSUME NEW d \in Clients, Source!UnderWay(d), ~access[d].current, access'[d].step = "idle"
                PROVE  UNCHANGED <<failures, open, cooling, probe>>
    BY DEF Source!OverdueHarmless
  <2>1. d = c
    BY <1>2 DEF Source!UnderWay
  <2>. QED
    BY <2>1 DEF Source!Owns
<1>7. Source!Apart
  <2>1. Source!Dispatched = {}
    BY <1>2, RecordFacts DEF Source!Dispatched
  <2>. QED
    BY <2>1 DEF Source!Apart
<1>. QED
  BY <1>3, <1>4, <1>5, <1>6, <1>7 DEF SourceKept, AccessInv

LEMMA AnswerSteps ==
  ASSUME Source!SourceAssumption, AccessInv, NEW c \in Clients,
         Source!Succeeded(c) \/ Source!Cancelled(c) \/ (\E transient \in BOOLEAN : Source!Failed(c, transient))
  PROVE  SourceKept
<1>1. /\ {open, cooling, probe} \subseteq BOOLEAN /\ failures \in 0..(Threshold - 1)
      /\ Threshold \in Nat \ {0}
  BY DEF AccessInv, Source!TypeOK, Source!SourceAssumption
<1>2. CASE Source!Succeeded(c)
  <2>1. CASE Source!Owns(c)
    <3>1. /\ Source!UnderWay(c) /\ UNCHANGED Source!pacer /\ Source!Ended(c, probe) /\ failures' = 0
          /\ open' = FALSE /\ cooling' = FALSE /\ probe' = FALSE
      BY <1>2, <2>1 DEF Source!Succeeded
    <3>2. probe \in BOOLEAN /\ failures' \in 0..(Threshold - 1)
      BY <1>1, <3>1
    <3>. QED
      BY <2>1, <3>1, <3>2, AnswerStep
  <2>2. CASE ~Source!Owns(c)
    BY <1>1, <1>2, <2>2, AnswerStep DEF Source!Succeeded
  <2>. QED
    BY <2>1, <2>2
<1>3. CASE Source!Cancelled(c)
  <2>1. CASE Source!Owns(c) /\ probe
    <3>1. /\ Source!UnderWay(c) /\ UNCHANGED Source!pacer /\ Source!Ended(c, TRUE) /\ probe' = FALSE
          /\ UNCHANGED <<failures, open, cooling>>
      BY <1>3, <2>1 DEF Source!Cancelled, Source!KeepsProbe, Source!pacer
    <3>2. {open', cooling', probe'} \subseteq BOOLEAN
      BY <1>1, <3>1
    <3>3. failures' \in 0..(Threshold - 1)
      BY <1>1, <3>1
    <3>. QED
      BY <2>1, <3>1, <3>2, <3>3, AnswerStep
  <2>2. CASE Source!Owns(c) /\ ~probe
    <3>1. /\ Source!UnderWay(c) /\ UNCHANGED Source!pacer /\ Source!Ended(c, FALSE)
          /\ UNCHANGED <<failures, open, cooling, probe>>
      BY <1>3, <2>2 DEF Source!Cancelled, Source!KeepsProbe, Source!pacer
    <3>2. {open', cooling', probe'} \subseteq BOOLEAN
      BY <1>1, <3>1
    <3>3. failures' \in 0..(Threshold - 1)
      BY <1>1, <3>1
    <3>. QED
      BY <2>2, <3>1, <3>2, <3>3, AnswerStep
  <2>3. CASE ~Source!Owns(c)
    BY <1>1, <1>3, <2>3, AnswerStep DEF Source!Cancelled, Source!pacer
  <2>. QED
    BY <2>1, <2>2, <2>3
<1>4. CASE \E transient \in BOOLEAN : Source!Failed(c, transient)
  <2>1. PICK transient \in BOOLEAN : Source!Failed(c, transient)
    BY <1>4
  <2>. DEFINE opens == transient /\ Source!Reaches(failures + 1)
  <2>2. CASE Source!Owns(c)
    <3>1. /\ Source!UnderWay(c) /\ UNCHANGED Source!pacer
          /\ failures' = IF ~transient THEN failures ELSE IF opens THEN 0 ELSE failures + 1
          /\ open' = (open \/ opens)
          /\ cooling' = (cooling \/ opens)
          /\ probe' = FALSE
          /\ Source!Ended(c, probe \/ opens)
      BY <2>1, <2>2 DEF Source!Failed
    <3>2. transient /\ ~opens => failures + 1 < Threshold
      BY <1>1 DEF Source!Reaches
    <3>3. opens \in BOOLEAN /\ (probe \/ opens) \in BOOLEAN
      BY <1>1
    <3>. HIDE DEF opens
    <3>4. failures' \in 0..(Threshold - 1)
      BY <1>1, <3>1, <3>2, <3>3
    <3>5. {open', cooling', probe'} \subseteq BOOLEAN
      BY <1>1, <3>1, <3>3
    <3>6. ~probe' /\ (open' => (probe \/ opens) \/ (open /\ ~probe))
      BY <1>1, <3>1, <3>3
    <3>. QED
      BY <2>2, <3>1, <3>3, <3>4, <3>5, <3>6, AnswerStep
  <2>3. CASE ~Source!Owns(c)
    BY <1>1, <2>1, <2>3, AnswerStep DEF Source!Failed
  <2>. QED
    BY <2>2, <2>3
<1>. QED
  BY <1>2, <1>3, <1>4

LEMMA SourceNext == ASSUME Source!SourceAssumption, AccessInv, [Source!Next]_Source!vars PROVE SourceKept
BY TimerFiresStep, ScheduleStep, LeaveStep, DirectStep, TimeSteps, AnswerSteps DEF Source!Next

--------------------------------------------------------------------------------
\* Inflight.

\* A fetch that is aborted has not settled, and a subscriber's runs.
FetchInv ==
  /\ \A k \in Keys : entry[k].aborted => entry[k].running
  /\ \A c \in Callers : call[c].step # "idle" => call[c].key \in Keys
  /\ \A c \in Callers : call[c].step = "share" => entry[call[c].key].running

FetchesInv == Fetches!TypeOK /\ Fetches!ClosedKeepsNothing /\ FetchInv

--------------------------------------------------------------------------------
LEMMA AnsweredFacts ==
  \A result \in Fetches!Results :
    /\ Fetches!Answered(result) \in Fetches!Calls
    /\ Fetches!Answered(result).step = "idle" /\ Fetches!Answered(result).result = result
BY DEF Fetches!Answered, Fetches!Calls, Fetches!Results

LEMMA NoEntryFacts == Fetches!NoEntry \in Fetches!Entries /\ ~Fetches!NoEntry.aborted /\ ~Fetches!NoEntry.running
BY DEF Fetches!NoEntry, Fetches!Entries

\* A fetch comes to a value only if it is not aborted and the service is open.
LEMMA OutcomeFacts ==
  ASSUME NEW aborted \in BOOLEAN, NEW stale \in BOOLEAN,
         NEW result \in Fetches!Outcomes(aborted, stale)
  PROVE  /\ result \in Fetches!Results \ {"abandoned", "cancelled"}
         /\ result = "value" => ~aborted /\ ~closed
         /\ result = "stale" => ~aborted
BY DEF Fetches!Outcomes, Fetches!Delivers, Fetches!Results

LEMMA StoreFacts ==
  ASSUME Fetches!TypeOK, NEW k \in Keys, NEW result, Fetches!Store(k, result)
  PROVE  /\ cache' \in [Keys -> {"none", "fresh", "stale"}]
         /\ result # "value" => cache' = cache
BY DEF Fetches!Store, Fetches!TypeOK

LEMMA FetchesInit == Fetches!Init => FetchesInv
<1>. SUFFICES ASSUME Fetches!Init PROVE FetchesInv
  OBVIOUS
<1>1. Fetches!TypeOK
  <2>1. call \in [Callers -> Fetches!Calls]
    BY AnsweredFacts DEF Fetches!Init, Fetches!Results
  <2>2. entry \in [Keys -> Fetches!Entries]
    BY NoEntryFacts DEF Fetches!Init
  <2>. QED
    BY <2>1, <2>2 DEF Fetches!Init, Fetches!TypeOK
<1>2. Fetches!ClosedKeepsNothing
  BY DEF Fetches!Init, Fetches!ClosedKeepsNothing
<1>3. FetchInv
  <2>1. \A c \in Callers : call[c].step = "idle"
    BY AnsweredFacts DEF Fetches!Init, Fetches!Results
  <2>. QED
    BY <2>1, NoEntryFacts DEF Fetches!Init, FetchInv
<1>. QED
  BY <1>1, <1>2, <1>3 DEF FetchesInv

\* What a request makes of the caller and of the fetch.
LEMMA Requested ==
  ASSUME Fetches!TypeOK, NEW c \in Callers, NEW k \in Keys, Fetches!Request(c, k)
  PROVE  /\ call' \in [Callers -> Fetches!Calls] /\ entry' \in [Keys -> Fetches!Entries]
         /\ \A d \in Callers \ {c} : call'[d] = call[d]
         /\ \A j \in Keys \ {k} : entry'[j] = entry[j]
         /\ entry'[k] = entry[k] \/ (entry'[k].running /\ ~entry'[k].aborted)
         /\ \/ call'[c].step = "idle"
            \/ call'[c].step \in {"share", "own"} /\ call'[c].key = k
         /\ call'[c].step = "share" => entry'[k].running
<1>. DEFINE asked(step) ==
       [Fetches!Answered("none") EXCEPT !.step = step, !.key = k, !.stale = cache[k] = "stale"]
<1>1. \A step \in {"share", "own"} :
        asked(step) \in Fetches!Calls /\ asked(step).step = step /\ asked(step).key = k
  BY DEF Fetches!Answered, Fetches!Calls, Fetches!Results
<1>. HIDE DEF asked
<1>2. CASE closed /\ call' = [call EXCEPT ![c] = Fetches!Answered("closed")] /\ UNCHANGED entry
  BY <1>2, AnsweredFacts DEF Fetches!TypeOK, Fetches!Results
<1>3. CASE call' = [call EXCEPT ![c] = Fetches!Answered("value")] /\ UNCHANGED entry
  BY <1>3, AnsweredFacts DEF Fetches!TypeOK, Fetches!Results
<1>4. CASE k \in Fetches!Shared /\ call' = [call EXCEPT ![c] = asked("share")] /\ UNCHANGED entry
  BY <1>1, <1>4 DEF Fetches!TypeOK, Fetches!Shared
<1>5. CASE /\ entry' = [entry EXCEPT ![k] =
                [running |-> TRUE, aborted |-> FALSE, stale |-> cache[k] = "stale"]]
           /\ call' = [call EXCEPT ![c] = asked("share")]
  <2>1. [running |-> TRUE, aborted |-> FALSE, stale |-> cache[k] = "stale"] \in Fetches!Entries
    BY DEF Fetches!Entries
  <2>. QED
    BY <1>1, <1>5, <2>1 DEF Fetches!TypeOK
<1>6. CASE call' = [call EXCEPT ![c] = asked("own")] /\ UNCHANGED entry
  BY <1>1, <1>6 DEF Fetches!TypeOK
<1>. QED
  BY <1>2, <1>3, <1>4, <1>5, <1>6 DEF Fetches!Request, asked

\* What a cancellation makes of the caller and of its fetch.
LEMMA CancelledFacts ==
  ASSUME Fetches!TypeOK, FetchInv, NEW c \in Callers, Fetches!Cancel(c)
  PROVE  /\ call' \in [Callers -> Fetches!Calls] /\ entry' \in [Keys -> Fetches!Entries]
         /\ \A d \in Callers \ {c} : call'[d] = call[d]
         /\ \/ call'[c].step = "idle"
            \/ call'[c].step = "own" /\ call[c].step = "own" /\ call'[c].key = call[c].key
         /\ \A k \in Keys : entry'[k].running = entry[k].running
         /\ \A k \in Keys : entry'[k].aborted = entry[k].aborted
              \/ (entry[k].running /\ Fetches!Last(c) /\ call[c].step = "share" /\ call[c].key = k)
<1>1. CASE /\ call[c].step = "share"
           /\ call' = [call EXCEPT ![c] = Fetches!Answered("cancelled")]
           /\ entry' = IF Fetches!Last(c) THEN [entry EXCEPT ![call[c].key].aborted = TRUE] ELSE entry
  <2>1. call[c].key \in Keys /\ entry[call[c].key].running
    BY <1>1 DEF FetchInv
  <2>2. [entry[call[c].key] EXCEPT !.aborted = TRUE] \in Fetches!Entries
    BY <2>1 DEF Fetches!TypeOK, Fetches!Entries
  <2>3. /\ entry' \in [Keys -> Fetches!Entries]
        /\ \A k \in Keys : entry'[k].running = entry[k].running
        /\ \A k \in Keys : entry'[k].aborted = entry[k].aborted
              \/ (entry[k].running /\ Fetches!Last(c) /\ call[c].step = "share" /\ call[c].key = k)
    BY <1>1, <2>1, <2>2 DEF Fetches!TypeOK, Fetches!Entries
  <2>4. /\ call' \in [Callers -> Fetches!Calls] /\ call'[c].step = "idle"
        /\ \A d \in Callers \ {c} : call'[d] = call[d]
    BY <1>1, AnsweredFacts DEF Fetches!TypeOK, Fetches!Results
  <2>. QED
    BY <2>3, <2>4
<1>2. CASE /\ call[c].step = "own"
           /\ call' = [call EXCEPT ![c].cancelled = TRUE]
           /\ UNCHANGED entry
  <2>1. [call[c] EXCEPT !.cancelled = TRUE] \in Fetches!Calls
    BY DEF Fetches!TypeOK, Fetches!Calls
  <2>. QED
    BY <1>2, <2>1 DEF Fetches!TypeOK, Fetches!Calls
<1>. QED
  BY <1>1, <1>2 DEF Fetches!Cancel

\* What a fetch that settles leaves.
LEMMA SettledFetch ==
  ASSUME Fetches!TypeOK, FetchInv, NEW k \in Keys, Fetches!Settle(k)
  PROVE  /\ call' \in [Callers -> Fetches!Calls] /\ entry' \in [Keys -> Fetches!Entries]
         /\ cache' \in [Keys -> {"none", "fresh", "stale"}]
         /\ closed => cache' = cache
         /\ entry[k].aborted => cache' = cache
         /\ \A j \in Keys \ {k} : entry'[j] = entry[j]
         /\ ~entry'[k].running /\ ~entry'[k].aborted
         /\ \A c \in Callers \ Fetches!Subscribers(k) : call'[c] = call[c]
         /\ \A c \in Fetches!Subscribers(k) :
              /\ call'[c].step = "idle"
              /\ entry[k].aborted => call'[c].result \notin {"value", "stale"}
<1>1. PICK result \in Fetches!Outcomes(entry[k].aborted, entry[k].stale)
                   \cup (IF entry[k].aborted THEN {"abandoned"} ELSE {}) :
        /\ Fetches!Store(k, result)
        /\ call' = [c \in Callers |-> IF c \in Fetches!Subscribers(k) THEN Fetches!Answered(result) ELSE call[c]]
  BY DEF Fetches!Settle
<1>2. entry[k].aborted \in BOOLEAN /\ entry[k].stale \in BOOLEAN
  BY DEF Fetches!TypeOK, Fetches!Entries
<1>3. /\ result \in Fetches!Results
      /\ result = "value" => ~entry[k].aborted /\ ~closed
      /\ result = "stale" => ~entry[k].aborted
  BY <1>1, <1>2, OutcomeFacts DEF Fetches!Results
<1>4. Fetches!Answered(result) \in Fetches!Calls /\ Fetches!Answered(result).step = "idle" /\ Fetches!Answered(result).result = result
  BY <1>3, AnsweredFacts
<1>5. /\ call' \in [Callers -> Fetches!Calls]
      /\ \A c \in Callers \ Fetches!Subscribers(k) : call'[c] = call[c]
      /\ \A c \in Fetches!Subscribers(k) : call'[c] = Fetches!Answered(result)
  BY <1>1, <1>4 DEF Fetches!TypeOK, Fetches!Subscribers
<1>6. /\ entry' \in [Keys -> Fetches!Entries]
      /\ \A j \in Keys \ {k} : entry'[j] = entry[j]
      /\ ~entry'[k].running /\ ~entry'[k].aborted
  BY NoEntryFacts DEF Fetches!Settle, Fetches!TypeOK
<1>7. /\ cache' \in [Keys -> {"none", "fresh", "stale"}]
      /\ result # "value" => cache' = cache
  BY <1>1, StoreFacts
<1>. QED
  BY <1>3, <1>4, <1>5, <1>6, <1>7

\* The same of a fetch of one's own.
LEMMA SettledOwn ==
  ASSUME Fetches!TypeOK, FetchInv, NEW c \in Callers, Fetches!SettleOwn(c)
  PROVE  /\ call' \in [Callers -> Fetches!Calls]
         /\ cache' \in [Keys -> {"none", "fresh", "stale"}]
         /\ closed => cache' = cache
         /\ call'[c].step = "idle" /\ \A d \in Callers \ {c} : call'[d] = call[d]
<1>1. PICK result \in Fetches!Outcomes(call[c].cancelled, call[c].stale)
                   \cup (IF call[c].cancelled THEN {"cancelled"} ELSE {}) :
        Fetches!Store(call[c].key, result) /\ call' = [call EXCEPT ![c] = Fetches!Answered(result)]
  BY DEF Fetches!SettleOwn
<1>2. call[c].cancelled \in BOOLEAN /\ call[c].stale \in BOOLEAN
  BY DEF Fetches!TypeOK, Fetches!Calls
<1>3. result \in Fetches!Results /\ (result = "value" => ~closed)
  BY <1>1, <1>2, OutcomeFacts DEF Fetches!Results
<1>4. call[c].key \in Keys
  BY DEF Fetches!SettleOwn, FetchInv
<1>5. /\ cache' \in [Keys -> {"none", "fresh", "stale"}]
      /\ result # "value" => cache' = cache
  BY <1>1, <1>4, StoreFacts
<1>. QED
  BY <1>1, <1>3, <1>5, AnsweredFacts DEF Fetches!TypeOK

--------------------------------------------------------------------------------
LEMMA FetchesNext == FetchesInv /\ [Fetches!Next]_Fetches!vars => FetchesInv'
<1>. SUFFICES ASSUME FetchesInv, [Fetches!Next]_Fetches!vars PROVE FetchesInv'
  OBVIOUS
<1>0. Fetches!TypeOK /\ Fetches!ClosedKeepsNothing /\ FetchInv
  BY DEF FetchesInv
<1>1. ASSUME NEW c \in Callers, NEW k \in Keys, Fetches!Request(c, k) PROVE FetchesInv'
  <2>1. Fetches!TypeOK' /\ Fetches!ClosedKeepsNothing'
    BY <1>0, <1>1, Requested DEF Fetches!Request, Fetches!TypeOK, Fetches!ClosedKeepsNothing
  <2>2. FetchInv'
    BY <1>0, <1>1, Requested DEF FetchInv
  <2>. QED
    BY <2>1, <2>2 DEF FetchesInv
<1>2. ASSUME NEW c \in Callers, Fetches!Cancel(c) PROVE FetchesInv'
  <2>1. Fetches!TypeOK' /\ Fetches!ClosedKeepsNothing'
    BY <1>0, <1>2, CancelledFacts DEF Fetches!Cancel, Fetches!TypeOK, Fetches!ClosedKeepsNothing
  <2>2. FetchInv'
    BY <1>0, <1>2, CancelledFacts DEF FetchInv
  <2>. QED
    BY <2>1, <2>2 DEF FetchesInv
<1>3. ASSUME NEW c \in Callers, Fetches!SettleOwn(c) PROVE FetchesInv'
  <2>1. Fetches!TypeOK' /\ Fetches!ClosedKeepsNothing'
    BY <1>0, <1>3, SettledOwn DEF Fetches!SettleOwn, Fetches!TypeOK, Fetches!ClosedKeepsNothing
  <2>2. FetchInv'
    BY <1>0, <1>3, SettledOwn DEF Fetches!SettleOwn, FetchInv
  <2>. QED
    BY <2>1, <2>2 DEF FetchesInv
<1>4. ASSUME NEW k \in Keys, Fetches!Settle(k) PROVE FetchesInv'
  <2>1. Fetches!TypeOK' /\ Fetches!ClosedKeepsNothing'
    BY <1>0, <1>4, SettledFetch DEF Fetches!Settle, Fetches!TypeOK, Fetches!ClosedKeepsNothing
  <2>2. FetchInv'
    <3>1. ASSUME NEW c \in Callers, call'[c].step = "share"
          PROVE  call[c].step = "share" /\ call'[c].key = call[c].key /\ call[c].key # k
      BY <1>0, <1>4, <3>1, SettledFetch DEF Fetches!Subscribers
    <3>2. ASSUME NEW c \in Callers, call'[c].step # "idle" PROVE call'[c].key \in Keys
      BY <1>0, <1>4, <3>2, SettledFetch DEF FetchInv
    <3>3. \A c \in Callers : call'[c].step = "share" => entry'[call'[c].key].running
      BY <1>0, <1>4, <3>1, <3>2, SettledFetch DEF FetchInv
    <3>4. \A j \in Keys : entry'[j].aborted => entry'[j].running
      BY <1>0, <1>4, SettledFetch DEF FetchInv
    <3>. QED
      BY <3>2, <3>3, <3>4 DEF FetchInv
  <2>. QED
    BY <2>1, <2>2 DEF FetchesInv
<1>5. ASSUME NEW k \in Keys, Fetches!Age(k) PROVE FetchesInv'
  BY <1>0, <1>5 DEF Fetches!Age, FetchesInv, Fetches!TypeOK, Fetches!ClosedKeepsNothing, FetchInv
<1>6. CASE Fetches!Close
  BY <1>0, <1>6 DEF Fetches!Close, FetchesInv, Fetches!TypeOK, Fetches!ClosedKeepsNothing, FetchInv
<1>7. CASE UNCHANGED Fetches!vars
  BY <1>0, <1>7 DEF Fetches!vars, FetchesInv, Fetches!TypeOK, Fetches!ClosedKeepsNothing, FetchInv
<1>. QED
  BY <1>1, <1>2, <1>3, <1>4, <1>5, <1>6, <1>7 DEF Fetches!Next

LEMMA FetchesLastOne == ASSUME FetchesInv, Fetches!Next PROVE Fetches!LastOneAborts
<1>0. Fetches!TypeOK /\ FetchInv
  BY DEF FetchesInv
<1>. SUFFICES ASSUME NEW k \in Keys
     PROVE /\ entry'[k].aborted /\ ~entry[k].aborted => Fetches!Subscribers(k)' = {}
           /\ entry[k].aborted /\ ~entry'[k].running =>
                /\ cache'[k] = "fresh" => cache[k] = "fresh"
                /\ \A c \in Fetches!Subscribers(k) : call'[c].result \notin {"value", "stale"}
  BY DEF Fetches!LastOneAborts
<1>1. entry[k].aborted => entry[k].running
  BY <1>0 DEF FetchInv
<1>2. ASSUME NEW c \in Callers, NEW j \in Keys, Fetches!Request(c, j)
      PROVE  ~(entry'[k].aborted /\ ~entry[k].aborted) /\ ~(entry[k].aborted /\ ~entry'[k].running)
  BY <1>0, <1>1, <1>2, Requested
<1>3. ASSUME NEW c \in Callers, Fetches!Cancel(c)
      PROVE  /\ entry'[k].aborted /\ ~entry[k].aborted => Fetches!Subscribers(k)' = {}
             /\ ~(entry[k].aborted /\ ~entry'[k].running)
  <2>1. ~(entry[k].aborted /\ ~entry'[k].running)
    BY <1>0, <1>1, <1>3, CancelledFacts
  <2>2. ASSUME entry'[k].aborted, ~entry[k].aborted PROVE Fetches!Subscribers(k)' = {}
    <3>1. Fetches!Subscribers(k) = {c} /\ call[c].step = "share"
      BY <1>0, <1>3, <2>2, CancelledFacts DEF Fetches!Last
    <3>2. call'[c].step # "share" /\ \A d \in Callers \ {c} : call'[d] = call[d]
      BY <1>0, <1>3, CancelledFacts
    <3>. QED
      BY <3>1, <3>2 DEF Fetches!Subscribers
  <2>. QED
    BY <2>1, <2>2
<1>4. ASSUME NEW j \in Keys, Fetches!Settle(j)
      PROVE  /\ ~(entry'[k].aborted /\ ~entry[k].aborted)
             /\ entry[k].aborted /\ ~entry'[k].running =>
                  /\ cache'[k] = "fresh" => cache[k] = "fresh"
                  /\ \A c \in Fetches!Subscribers(k) : call'[c].result \notin {"value", "stale"}
  <2>1. CASE j = k
    BY <1>0, <1>4, <2>1, SettledFetch
  <2>2. CASE j # k
    <3>1. entry'[k] = entry[k]
      BY <1>0, <1>4, <2>2, SettledFetch
    <3>. QED
      BY <1>1, <3>1
  <2>. QED
    BY <2>1, <2>2
<1>5. CASE UNCHANGED entry
  BY <1>1, <1>5
<1>. QED
  BY <1>2, <1>3, <1>4, <1>5 DEF Fetches!Next, Fetches!SettleOwn, Fetches!Age, Fetches!Close

--------------------------------------------------------------------------------
\* All three.  One of them runs in a behaviour, and keeps its own invariant.

TrafficInv ==
  /\ InGate => GateInv
  /\ InSource => AccessInv
  /\ InFetches => FetchesInv

LEMMA TrafficInitInv == ASSUME TrafficInit PROVE TrafficInv
<1>1. Source!Init /\ Fetches!Init /\ (InGate => Init)
  BY DEF TrafficInit, InGate
<1>. QED
  BY <1>1, GateBounds, AccessBounds, GateInit, SourceInit, FetchesInit DEF TrafficInv

\* Each step is one of the system that runs, or leaves it as it is.
LEMMA TrafficParts ==
  ASSUME TrafficNext
  PROVE  /\ system' = system
         /\ InGate => Next
         /\ InSource => Source!Next
         /\ InFetches => Fetches!Next
BY DEF TrafficNext, InGate, InLoad, InSource, InFetches, InOneWake, InTwoWakes

LEMMA TrafficStep ==
  ASSUME TrafficInv, TrafficNext
  PROVE  /\ TrafficInv'
         /\ InGate => WithinLimit
         /\ InSource => Source!OverdueHarmless /\ Source!Apart
         /\ InFetches => Fetches!LastOneAborts
<1>1. /\ InGate' <=> InGate
      /\ InSource' <=> InSource
      /\ InFetches' <=> InFetches
  BY TrafficParts DEF InGate, InSource, InFetches
<1>2. ASSUME InGate PROVE GateInv' /\ WithinLimit
  BY <1>2, TrafficParts, GateBounds, GateNext DEF TrafficInv
<1>3. ASSUME InSource PROVE SourceKept
  BY <1>3, TrafficParts, AccessBounds, SourceNext DEF TrafficInv
<1>4. ASSUME InFetches PROVE FetchesInv' /\ Fetches!LastOneAborts
  BY <1>4, TrafficParts, FetchesNext, FetchesLastOne DEF TrafficInv
<1>. QED
  BY <1>1, <1>2, <1>3, <1>4 DEF TrafficInv, SourceKept

LEMMA TrafficStutter ==
  ASSUME TrafficInv, UNCHANGED trafficVars
  PROVE  TrafficInv'
<1>1. /\ UNCHANGED vars /\ UNCHANGED Source!vars /\ UNCHANGED Fetches!vars
      /\ system' = system
  BY DEF trafficVars, vars, fetchVars, sourceVars, Source!vars, Fetches!vars
<1>2. /\ InGate' <=> InGate
      /\ InSource' <=> InSource
      /\ InFetches' <=> InFetches
  BY <1>1 DEF InGate, InSource, InFetches
<1>3. ASSUME InGate PROVE GateInv'
  BY <1>1, <1>3, GateBounds, GateNext DEF TrafficInv
<1>4. ASSUME InSource PROVE AccessInv'
  BY <1>1, <1>4, AccessBounds, SourceNext DEF TrafficInv, SourceKept
<1>5. ASSUME InFetches PROVE FetchesInv'
  BY <1>1, <1>5, FetchesNext DEF TrafficInv
<1>. QED
  BY <1>2, <1>3, <1>4, <1>5 DEF TrafficInv

LEMMA TrafficInvariant == TrafficSpec => []TrafficInv
<1>1. TrafficInit => TrafficInv
  BY TrafficInitInv
<1>2. TrafficInv /\ [TrafficNext]_trafficVars => TrafficInv'
  BY TrafficStep, TrafficStutter
<1>. QED
  BY <1>1, <1>2, PTL DEF TrafficSpec, TrafficSafety

--------------------------------------------------------------------------------
\* The handlers, limiters and queues of the gateway keep their types.
THEOREM GatewayTypes == Spec => []TypeOK
<1>1. Init => GateInv
  BY GateBounds, GateInit
<1>2. GateInv /\ [Next]_vars => GateInv'
  BY GateBounds, GateNext
<1>3. GateInv => TypeOK
  BY DEF GateInv
<1>. QED
  BY <1>1, <1>2, <1>3, PTL DEF Spec

\* So do the calls of a source.
THEOREM SourceTypes == Source!Spec => []Source!TypeOK
<1>1. Source!Init => AccessInv
  BY AccessBounds, SourceInit
<1>2. AccessInv /\ [Source!Next]_Source!vars => AccessInv'
  BY AccessBounds, SourceNext DEF SourceKept
<1>3. AccessInv => Source!TypeOK
  BY DEF AccessInv
<1>. QED
  BY <1>1, <1>2, <1>3, PTL DEF Source!Spec

\* And the shared fetches.
THEOREM FetchTypes == Fetches!Spec => []Fetches!TypeOK
<1>1. FetchesInv => Fetches!TypeOK
  BY DEF FetchesInv
<1>. QED
  BY <1>1, FetchesInit, FetchesNext, PTL DEF Fetches!Spec

\* Places, bytes and probes have their owners, whichever way requests and calls
\* end, and a closed service keeps nothing (acquireCapacityLease,
\* readJsonBody, resilientJson, BackendHealth, #cached).
THEOREM AllAccounted == TrafficSpec => []Accounted
<1>1. TrafficInv => Accounted
  BY GateAccounts, GateBounds DEF TrafficInv, Accounted, AccessInv, FetchesInv
<1>. QED
  BY <1>1, TrafficInvariant, PTL

\* No limiter of an open gateway has a free place while somebody waits at it,
\* and every call in a source's queue is there once and has a timer
\* (#drainQueue, SourcePacer).
THEOREM NobodyIsForgotten == TrafficSpec => []NobodyForgotten
<1>1. TrafficInv => NobodyForgotten
  BY DEF TrafficInv, NobodyForgotten, GateInv, AccessInv
<1>. QED
  BY <1>1, TrafficInvariant, PTL

\* Places are only given below the limit that holds by then, overtaken calls do
\* not move the breaker, dispatches keep their interval, and only the last
\* subscriber aborts a fetch.
THEOREM NothingComesOverdue == TrafficSpec => NothingOverdue
<1>1. TrafficInv /\ TrafficNext =>
        /\ InGate => WithinLimit
        /\ InSource => Source!OverdueHarmless /\ Source!Apart
        /\ InFetches => Fetches!LastOneAborts
  BY TrafficStep
<1>. QED
  BY <1>1, TrafficInvariant, PTL DEF TrafficSpec, TrafficSafety, NothingOverdue

-----------------------------------------------------------------------------
(***************************************************************************)
(* The sources and what a wake takes from them.                            *)
(***************************************************************************)
\* The types that the proof needs.
Phases == {"idle", "finlight", "massive", "daily", "freeze", "context", "postures",
           "anchor", "failed", "down"}
Readers(K) ==
  [step : {"off", "loaded", "owner", "reading", "saved"}, at : 0..K.news,
   page : Seq(1..K.news), mode : {"none", "stream", "rest", "gap"}]
WakeType(K) ==
  /\ published \in 1..K.news /\ now \in 1..K.time
  /\ raw \in [Wake(K)!Items -> 0..K.time] /\ evidence \subseteq Wake(K)!Items
  /\ cursor \in 0..published
  /\ wakeEvent \in [Wake(K)!Cycles -> 0..K.time]
  /\ counted \in [Wake(K)!Cycles -> [Wake(K)!Connectors -> Nat]]
  /\ DOMAIN transport = Wake(K)!Cycles /\ DOMAIN anchor = Wake(K)!Cycles
  /\ reader \in [Wake(K)!Processes -> Readers(K)]
  /\ phase \in Phases /\ cycle \in 0..K.cycles /\ wakeAt \in 0..K.time /\ cut \in 0..K.time
  /\ phase # "idle" => cycle \in Wake(K)!Cycles

\* A page continues what its reader has seen stored, in order.
Known(n) == raw[<<"finlight", n>>] # 0
ReaderOK(r) ==
  /\ r.at \in 0..published
  /\ \A n \in 1..r.at : Known(n)
  /\ \A k \in 1..Len(r.page) : r.page[k] = r.page[1] + k - 1 /\ r.page[k] \in 1..published
  /\ r.page # <<>> => r.page[1] <= r.at + 1
  /\ r.step = "saved" => r.page # <<>> /\ Known(r.page[1])
ReaderInv(K) ==
  /\ \A n \in 1..cursor : Known(n)
  /\ \A p \in Wake(K)!Processes : ReaderOK(reader[p])
  /\ reader["wake"].step # "off" => phase = "finlight"

\* What a wake has frozen is in its events, and what it has still to do.
Working == {"finlight", "massive", "daily", "freeze", "context", "postures", "anchor", "failed"}
Holds(K, c, E) ==
  /\ E \subseteq evidence \cap Wake(K)!KnownBy(wakeEvent[c])
  /\ \A s \in Wake(K)!Connectors : Wake(K)!Counts(E)[s] \in {0, counted[c][s]}
FrozenInv(K) ==
  /\ \A i \in evidence : raw[i] # 0
  /\ phase \in {"context", "postures", "anchor"} => cut = wakeEvent[cycle] /\ Holds(K, cycle, chosen)
  /\ phase \in {"finlight", "massive", "daily"} => transport[cycle] = <<>>
  /\ phase \in {"freeze", "context"} => transport[cycle] \in {<<>>, posture}
  /\ phase = "postures" => transport[cycle] = <<>>
  /\ phase = "anchor" => transport[cycle] = posture
AnchorInv(K) ==
  /\ \A c \in Wake(K)!Cycles : c > cycle => anchor[c] = Wake(K)!NoAnchor
  /\ phase \in Working => anchor[cycle] = Wake(K)!NoAnchor
  /\ Wake(K)!AnchorTruthful
\* The rows that were looked at are the evidence of their time.
Seen(K) == Wake(K)!KnownBy(cut) \cap evidence
FairInv(K) ==
  phase = "context" =>
    /\ cut # 0
    /\ \E S, W \in SUBSET Wake(K)!Items :
         S = Seen(K) /\ W = Wake(K)!Window(S) /\ chosen = Wake(K)!Balanced(W)

WakeInv(K) == WakeType(K) /\ ReaderInv(K) /\ FrozenInv(K) /\ AnchorInv(K) /\ FairInv(K)

-----------------------------------------------------------------------------
LEMMA SameCard ==
  ASSUME NEW K, NEW T
  PROVE  Wake(K)!Cardinality(T) = Cardinality(T)
BY DEF Wake!Cardinality, Cardinality

LEMMA ItemsFinite ==
  ASSUME NEW K, Wake(K)!WakeAssumption
  PROVE  IsFiniteSet(Wake(K)!Items)
<1>1. K.news \in Int /\ K.time \in Int
  BY DEF Wake!WakeAssumption
<1>a. IsFiniteSet(1..K.news)
  BY <1>1, FS_Interval
<1>b. IsFiniteSet(0..K.time)
  BY <1>1, FS_Interval
<1>c. IsFiniteSet({"finlight"}) /\ IsFiniteSet({"massive"})
  BY FS_Singleton
<1>2. IsFiniteSet(1..K.news) /\ IsFiniteSet(0..K.time) /\ IsFiniteSet({"finlight"})
      /\ IsFiniteSet({"massive"})
  BY <1>a, <1>b, <1>c
<1>3. IsFiniteSet({"finlight"} \X (1..K.news)) /\ IsFiniteSet({"massive"} \X (0..K.time))
  BY <1>2, FS_Product
<1> QED BY <1>3, FS_Union DEF Wake!Items, Wake!News, Wake!Market

LEMMA ItemShape ==
  ASSUME NEW K, Wake(K)!WakeAssumption, NEW i \in Wake(K)!Items
  PROVE  i = <<i[1], i[2]>> /\ i[1] \in Wake(K)!Connectors /\ i[2] \in Nat
BY DEF Wake!Items, Wake!News, Wake!Market, Wake!Connectors, Wake!WakeAssumption

\* Every nonempty set of naturals has a least element.
LEMMA Least ==
  ASSUME NEW T, T \subseteq Nat, T # {}
  PROVE  \E x \in T : \A y \in T : x <= y
<1> DEFINE R == OpToRel(<, Nat)
<1>1. IsWellFoundedOn(R, Nat)
  BY NatLessThanWellFounded
<1>2. PICK x \in T : \A y \in T : ~(<<y, x>> \in R)
  BY <1>1, WFMin
<1>3. \A y \in T : ~(y < x)
  BY <1>2 DEF OpToRel
<1> QED BY <1>3

-----------------------------------------------------------------------------
\* The balanced choice, of any finite set of rows.
LEMMA BeforeOrder ==
  ASSUME NEW K, Wake(K)!WakeAssumption, raw \in [Wake(K)!Items -> 0..K.time],
         NEW i \in Wake(K)!Items, NEW j \in Wake(K)!Items, NEW k \in Wake(K)!Items
  PROVE  /\ Wake(K)!Before(i, j) /\ Wake(K)!Before(j, k) => Wake(K)!Before(i, k)
         /\ ~Wake(K)!Before(i, i)
         /\ i # j /\ i[1] = j[1] => Wake(K)!Before(i, j) \/ Wake(K)!Before(j, i)
<1>1. raw[i] \in Nat /\ raw[j] \in Nat /\ raw[k] \in Nat
  BY DEF Wake!WakeAssumption
<1>2. /\ i = <<i[1], i[2]>> /\ i[1] \in Wake(K)!Connectors /\ i[2] \in Nat
      /\ j = <<j[1], j[2]>> /\ j[1] \in Wake(K)!Connectors /\ j[2] \in Nat
      /\ k = <<k[1], k[2]>> /\ k[1] \in Wake(K)!Connectors /\ k[2] \in Nat
  BY ItemShape
<1>3. i # j /\ i[1] = j[1] => i[2] # j[2]
  BY <1>2
<1> QED BY <1>1, <1>2, <1>3 DEF Wake!Before, Wake!Fresher, Wake!Connectors

LEMMA RoundOrder ==
  ASSUME NEW K, Wake(K)!WakeAssumption, raw \in [Wake(K)!Items -> 0..K.time], NEW rows,
         rows \subseteq Wake(K)!Items, NEW i \in rows, NEW j \in rows,
         i[1] = j[1], Wake(K)!Before(i, j)
  PROVE  Wake(K)!Round(rows, i) \in Nat /\ Wake(K)!Round(rows, j) \in Nat
         /\ Wake(K)!Round(rows, i) < Wake(K)!Round(rows, j)
<1> DEFINE P(x) == {y \in rows : y[1] = x[1] /\ Wake(K)!Before(y, x)}
<1>1. IsFiniteSet(P(j)) /\ IsFiniteSet(P(i))
  BY ItemsFinite, FS_Subset
<1>2. P(i) \subseteq P(j) /\ i \in P(j) /\ i \notin P(i)
  BY BeforeOrder
<1>3. Cardinality(P(i)) < Cardinality(P(j)) /\ Cardinality(P(i)) \in Nat /\ Cardinality(P(j)) \in Nat
  BY <1>1, <1>2, FS_Subset, FS_CardinalityType
<1> QED BY <1>3, SameCard DEF Wake!Round

LEMMA FairChoice ==
  ASSUME NEW K, Wake(K)!WakeAssumption, raw \in [Wake(K)!Items -> 0..K.time], NEW rows,
         rows \subseteq Wake(K)!Items,
         NEW i \in rows \ Wake(K)!Balanced(rows), NEW j \in Wake(K)!Balanced(rows)
  PROVE  Wake(K)!Counts(Wake(K)!Balanced(rows))[j[1]] <= Wake(K)!Counts(Wake(K)!Balanced(rows))[i[1]] + 1
<1> DEFINE Best == Wake(K)!Balanced(rows)
           Of(s) == {x \in Best : x[1] = s}
           Out == {x \in rows \ Best : x[1] = i[1]}
           P(x) == {y \in rows : y[1] = x[1] /\ Wake(K)!Before(y, x)}
           Q(x) == {y \in rows : Wake(K)!Served(rows, y, x)}
<1>0. IsFiniteSet(rows) /\ Best \subseteq rows /\ IsFiniteSet(Best)
  BY ItemsFinite, FS_Subset, SameCard DEF Wake!Balanced
<1>a. \A x \in rows : Wake(K)!Round(rows, x) \in Nat /\ IsFiniteSet(P(x)) /\ IsFiniteSet(Q(x))
      /\ Cardinality(Q(x)) \in Nat
                      /\ Wake(K)!Round(rows, x) = Cardinality(P(x))
  BY <1>0, FS_Subset, FS_CardinalityType, SameCard DEF Wake!Round
<1>b. \A s : IsFiniteSet(Of(s)) /\ Cardinality(Of(s)) \in Nat
  BY <1>0, FS_Subset, FS_CardinalityType
<1>c. i[1] \in Wake(K)!Connectors /\ j[1] \in Wake(K)!Connectors /\ i \in rows /\ j \in rows
      /\ i \in Out
  BY <1>0, ItemShape
<1>d. Wake(K)!Counts(Best)[i[1]] = Cardinality(Of(i[1]))
      /\ Wake(K)!Counts(Best)[j[1]] = Cardinality(Of(j[1]))
  BY <1>c, SameCard DEF Wake!Counts
\* The first row of its source that is left out is behind chosen ones only.
<1>1. PICK x \in Out : \A y \in Out : Wake(K)!Round(rows, x) <= Wake(K)!Round(rows, y)
  <2> DEFINE T == {Wake(K)!Round(rows, y) : y \in Out}
  <2>1. T \subseteq Nat /\ T # {}
    BY <1>a, <1>c
  <2>2. PICK r \in T : \A q \in T : r <= q
    BY <2>1, Least
  <2> QED BY <2>2
<1>2. Wake(K)!Round(rows, x) <= Cardinality(Of(i[1]))
  <2>1. P(x) \subseteq Of(i[1])
    <3> SUFFICES ASSUME NEW y \in P(x) PROVE y \in Best
      OBVIOUS
    <3>1. Wake(K)!Round(rows, y) < Wake(K)!Round(rows, x) /\ Wake(K)!Round(rows, y) \in Nat
          /\ Wake(K)!Round(rows, x) \in Nat
      BY RoundOrder
    <3>2. y \notin Out
      BY <1>1, <3>1
    <3> QED BY <3>2
  <2>2. Cardinality(P(x)) <= Cardinality(Of(i[1]))
    BY <2>1, <1>b, FS_Subset
  <2>3. Wake(K)!Round(rows, x) = Cardinality(P(x))
    BY <1>0, <1>a
  <2> QED BY <2>2, <2>3
\* The last row that was chosen of the other source has the others before it.
<1>3. PICK z \in Of(j[1]) : \A y \in Of(j[1]) : Wake(K)!Round(rows, y) <= Wake(K)!Round(rows, z)
  <2> DEFINE N == Cardinality(rows)
             T == {N - Wake(K)!Round(rows, y) : y \in Of(j[1])}
  <2>0. N \in Nat
    BY <1>0, FS_CardinalityType
  <2>1. \A y \in Of(j[1]) : Wake(K)!Round(rows, y) \in Nat /\ N - Wake(K)!Round(rows, y) \in Nat
    <3> SUFFICES ASSUME NEW y \in Of(j[1]) PROVE Wake(K)!Round(rows, y) \in Nat
    /\ Wake(K)!Round(rows, y) <= N
      BY <2>0
    <3>1. P(y) \subseteq rows /\ y \in rows
      BY <1>0
    <3>2. Cardinality(P(y)) <= N
      BY <3>1, <1>0, FS_Subset
    <3>3. Wake(K)!Round(rows, y) \in Nat /\ Wake(K)!Round(rows, y) = Cardinality(P(y))
      BY <3>1, <1>a
    <3> QED BY <3>2, <3>3
  <2>2. T \subseteq Nat /\ T # {}
    BY <2>1, <1>c
  <2>3. PICK r \in T : \A q \in T : r <= q
    BY <2>2, Least
  <2>4. PICK w \in Of(j[1]) : r = N - Wake(K)!Round(rows, w)
    BY <2>3
  <2>5. \A y \in Of(j[1]) : N - Wake(K)!Round(rows, w) <= N - Wake(K)!Round(rows, y)
    BY <2>3, <2>4
  <2> QED BY <2>0, <2>1, <2>5
<1>4. Cardinality(Of(j[1])) <= Wake(K)!Round(rows, z) + 1
  <2>1. Of(j[1]) \ {z} \subseteq P(z)
    <3> SUFFICES ASSUME NEW y \in Of(j[1]), y # z PROVE Wake(K)!Before(y, z)
      BY <1>0, <1>3
    <3>1. y \in rows /\ z \in rows /\ y[1] = z[1]
      BY <1>0, <1>3
    <3>2. Wake(K)!Before(z, y) => Wake(K)!Round(rows, z) < Wake(K)!Round(rows, y)
          /\ Wake(K)!Round(rows, z) \in Nat /\ Wake(K)!Round(rows, y) \in Nat
      BY <3>1, RoundOrder
    <3> QED BY <3>1, <3>2, <1>3, BeforeOrder
  <2>2. Cardinality(Of(j[1]) \ {z}) <= Cardinality(P(z))
    BY <2>1, <1>0, <1>a, <1>3, FS_Subset
  <2>3. Cardinality(Of(j[1]) \ {z}) = Cardinality(Of(j[1])) - 1
    <3>1. z \in Of(j[1]) /\ IsFiniteSet(Of(j[1]))
      BY <1>b, <1>3
    <3> HIDE DEF Of
    <3> QED BY <3>1, FS_RemoveElement
  <2>4. Wake(K)!Round(rows, z) = Cardinality(P(z)) /\ Wake(K)!Round(rows, z) \in Nat
    BY <1>0, <1>a, <1>3
  <2>5. Cardinality(Of(j[1])) \in Nat
    BY <1>b
  <2> HIDE DEF Of, P
  <2> QED BY <2>2, <2>3, <2>4, <2>5
\* The former is not served before the latter, for it would have been chosen.
<1>5. Wake(K)!Round(rows, z) <= Wake(K)!Round(rows, x)
  <2>1. x \in rows /\ z \in rows /\ x \notin Best /\ z \in Best
    BY <1>0, <1>1, <1>3
  <2>2. ASSUME Wake(K)!Round(rows, x) < Wake(K)!Round(rows, z) PROVE FALSE
    <3>1. Q(x) \subseteq Q(z)
      <4> SUFFICES ASSUME NEW y \in Q(x) PROVE Wake(K)!Served(rows, y, z)
        OBVIOUS
      <4>1. Wake(K)!Round(rows, y) \in Nat /\ Wake(K)!Round(rows, x) \in Nat
            /\ Wake(K)!Round(rows, z) \in Nat
        BY <1>a, <2>1
      <4> QED BY <4>1, <2>2 DEF Wake!Served
    <3>2. IsFiniteSet(Q(z)) /\ Cardinality(Q(x)) \in Nat /\ Cardinality(Q(z)) \in Nat
      BY <1>a, <2>1
    <3>3. Cardinality(Q(x)) <= Cardinality(Q(z))
      BY <3>1, <3>2, FS_Subset
    <3>4. Cardinality(Q(z)) < K.evidence /\ ~(Cardinality(Q(x)) < K.evidence)
      BY <2>1, SameCard DEF Wake!Balanced
    <3>5. K.evidence \in Nat
      BY DEF Wake!WakeAssumption
    <3> HIDE DEF Q
    <3> QED BY <3>2, <3>3, <3>4, <3>5
  <2>3. Wake(K)!Round(rows, x) \in Nat /\ Wake(K)!Round(rows, z) \in Nat
    BY <2>1, <1>a
  <2> QED BY <2>2, <2>3
<1>6. /\ Wake(K)!Round(rows, x) \in Nat /\ Wake(K)!Round(rows, z) \in Nat
      /\ Cardinality(Of(i[1])) \in Nat /\ Cardinality(Of(j[1])) \in Nat
  BY <1>0, <1>1, <1>3, <1>a, <1>b
<1> HIDE DEF Of
<1>7. Cardinality(Of(j[1])) <= Cardinality(Of(i[1])) + 1
  BY <1>2, <1>4, <1>5, <1>6
<1> QED BY <1>7, <1>d

-----------------------------------------------------------------------------
\* What is known stays known, since when and with whatever comes.
Grows(K) ==
  /\ raw' \in [Wake(K)!Items -> 0..K.time]
  /\ \A i \in Wake(K)!Items : raw[i] # 0 => raw'[i] = raw[i]

LEMMA StoredGrows ==
  ASSUME NEW K, Wake(K)!WakeAssumption, WakeType(K), NEW i \in Wake(K)!Items, Wake(K)!Stored(i)
  PROVE  Grows(K) /\ raw'[i] # 0
<1>1. now \in 1..K.time /\ raw \in [Wake(K)!Items -> 0..K.time] /\ K.time \in Nat
  BY DEF WakeType, Wake!WakeAssumption
<1> QED BY <1>1 DEF Wake!Stored, Grows

LEMMA SameGrows ==
  ASSUME NEW K, Wake(K)!WakeAssumption, WakeType(K), raw' = raw
  PROVE  Grows(K)
BY DEF Grows, WakeType

LEMMA SameOrder ==
  ASSUME NEW K, Wake(K)!WakeAssumption, NEW S, S \subseteq Wake(K)!Items, \A i \in S : raw'[i] = raw[i]
  PROVE  /\ \A i, j \in S : Wake(K)!Before(i, j)' <=> Wake(K)!Before(i, j)
         /\ Wake(K)!Window(S)' = Wake(K)!Window(S) /\ Wake(K)!Window(S) \subseteq S
         /\ Wake(K)!Balanced(S)' = Wake(K)!Balanced(S) /\ Wake(K)!Balanced(S) \subseteq S
<1>1. \A i, j \in S : Wake(K)!Before(i, j)' <=> Wake(K)!Before(i, j)
  BY DEF Wake!Before, Wake!Fresher
<1>2. \A i \in S : {j \in S : Wake(K)!Before(j, i)}' = {j \in S : Wake(K)!Before(j, i)}
  BY <1>1
<1>3. Wake(K)!Window(S)' = Wake(K)!Window(S)
  BY <1>2 DEF Wake!Window
<1>4. \A i \in S : {j \in S : j[1] = i[1] /\ Wake(K)!Before(j, i)}' = {j \in S : j[1] = i[1] /\ Wake(K)!Before(j, i)}
  BY <1>1
<1>5. \A i \in S : Wake(K)!Round(S, i)' = Wake(K)!Round(S, i)
  BY <1>4, SameCard DEF Wake!Round
<1>6. \A i, j \in S : Wake(K)!Served(S, i, j)' <=> Wake(K)!Served(S, i, j)
  BY <1>5 DEF Wake!Served
<1>7. \A i \in S : {j \in S : Wake(K)!Served(S, j, i)}' = {j \in S : Wake(K)!Served(S, j, i)}
  BY <1>6
<1>8. Wake(K)!Balanced(S)' = Wake(K)!Balanced(S)
  BY <1>7, SameCard DEF Wake!Balanced
<1> QED BY <1>1, <1>3, <1>8, SameCard DEF Wake!Window, Wake!Balanced

LEMMA AnchorsKept ==
  ASSUME NEW K, Wake(K)!WakeAssumption, WakeInv(K), Grows(K), evidence \subseteq evidence',
         NEW c \in Wake(K)!Cycles,
         UNCHANGED <<wakeEvent[c], counted[c], transport[c], anchor[c]>>, anchor[c] # Wake(K)!NoAnchor
  PROVE  /\ anchor'[c].cutoff = wakeEvent'[c]
         /\ anchor'[c].evidence \subseteq evidence' \cap Wake(K)!KnownBy(wakeEvent[c])'
         /\ anchor'[c].transport = transport'[c]
         /\ \A s \in Wake(K)!Connectors : Wake(K)!Counts(anchor[c].evidence)'[s] \in {0, counted'[c][s]}
<1>1. /\ anchor[c].cutoff = wakeEvent[c] /\ anchor[c].transport = transport[c]
      /\ anchor[c].evidence \subseteq evidence \cap Wake(K)!KnownBy(wakeEvent[c])
      /\ \A s \in Wake(K)!Connectors : Wake(K)!Counts(anchor[c].evidence)[s] \in {0, counted[c][s]}
  BY DEF WakeInv, AnchorInv, Wake!AnchorTruthful
<1>2. wakeEvent[c] \in 0..K.time /\ K.time \in Nat
  BY DEF WakeInv, WakeType, Wake!WakeAssumption
<1>3. Wake(K)!KnownBy(wakeEvent[c]) \subseteq Wake(K)!KnownBy(wakeEvent[c])'
  BY <1>2 DEF Wake!KnownBy, Grows
<1>4. Wake(K)!Counts(anchor[c].evidence)' = Wake(K)!Counts(anchor[c].evidence)
  BY SameCard DEF Wake!Counts
<1> QED BY <1>1, <1>3, <1>4

\* Steps of readers and of the world leave what was frozen as it is.
LEMMA FrozenKept ==
  ASSUME NEW K, Wake(K)!WakeAssumption, WakeInv(K), Grows(K),
         UNCHANGED <<evidence, wakeEvent, counted, transport, anchor, phase, cycle, posture, cut,
         chosen>>
  PROVE  FrozenInv(K)' /\ AnchorInv(K)' /\ FairInv(K)'
<1>1. \A i \in evidence : i \in Wake(K)!Items /\ raw[i] # 0 /\ raw'[i] = raw[i]
  BY DEF WakeInv, FrozenInv, WakeType, Grows
<1>2. AnchorInv(K)'
  BY AnchorsKept DEF WakeInv, AnchorInv, Wake!AnchorTruthful
<1>3. FrozenInv(K)'
  <2>1. Wake(K)!KnownBy(wakeEvent[cycle]) \cap evidence = Wake(K)!KnownBy(wakeEvent[cycle])' \cap evidence
    BY <1>1 DEF Wake!KnownBy
  <2> QED BY <1>1, <2>1, SameCard DEF WakeInv, FrozenInv, Holds, Wake!Counts
<1>4. FairInv(K)'
  <2> SUFFICES ASSUME phase = "context" PROVE FairInv(K)'
    BY DEF FairInv
  <2>1. PICK S \in SUBSET Wake(K)!Items, W \in SUBSET Wake(K)!Items : S = Seen(K)
        /\ W = Wake(K)!Window(S) /\ chosen = Wake(K)!Balanced(W) /\ cut # 0
    BY DEF WakeInv, FairInv
  <2>2. Seen(K)' = Seen(K)
    BY <1>1 DEF Seen, Wake!KnownBy
  <2>3. \A i \in S : raw'[i] = raw[i]
    BY <1>1, <2>1 DEF Seen
  <2>4. W = Wake(K)!Window(S)' /\ W \subseteq S
    BY <2>1, <2>3, SameOrder
  <2>5. chosen = Wake(K)!Balanced(W)'
    BY <2>1, <2>3, <2>4, SameOrder
  <2> QED BY <2>1, <2>2, <2>4, <2>5 DEF FairInv
<1> QED BY <1>2, <1>3, <1>4

\* So do steps of the wake that come before it freezes.
LEMMA PollKept ==
  ASSUME NEW K, Wake(K)!WakeAssumption, WakeInv(K), Grows(K), UNCHANGED <<evidence, wakeEvent,
         counted, transport, anchor, cycle>>,
         phase \in {"finlight", "massive", "daily"},
         phase' \in {"finlight", "massive", "daily", "freeze"}
  PROVE  FrozenInv(K)' /\ AnchorInv(K)' /\ FairInv(K)'
<1>1. \A i \in evidence : i \in Wake(K)!Items /\ raw'[i] # 0
  BY DEF WakeInv, FrozenInv, WakeType, Grows
<1>2. AnchorInv(K)'
  BY AnchorsKept DEF WakeInv, AnchorInv, Wake!AnchorTruthful, Working
<1>3. FrozenInv(K)'
  BY <1>1 DEF WakeInv, FrozenInv
<1> QED BY <1>2, <1>3 DEF FairInv

-----------------------------------------------------------------------------
\* A page, from any cursor.
LEMMA PageOf ==
  ASSUME NEW K, Wake(K)!WakeAssumption, WakeType(K), NEW from \in 0..published
  PROVE  /\ Wake(K)!Page(from) \in Seq(1..K.news) /\ Wake(K)!Page(from)[1] <= from + 1
         /\ \A k \in 1..Len(Wake(K)!Page(from)) :
              Wake(K)!Page(from)[k] = Wake(K)!Page(from)[1] + k - 1
              /\ Wake(K)!Page(from)[k] \in 1..published
<1> DEFINE lo == IF from = 0 THEN 1 ELSE from
           n == IF K.page <= published - lo + 1 THEN K.page ELSE published - lo + 1
<1>0. /\ published \in Nat /\ K.news \in Nat /\ K.page \in Nat
      /\ 1 <= published /\ published <= K.news /\ 2 <= K.page /\ from \in Nat /\ from <= published
  BY DEF WakeType, Wake!WakeAssumption
<1>1. Wake(K)!Max({1, from}) = lo
  BY <1>0 DEF Wake!Max
<1>2. lo \in Nat /\ 1 <= lo /\ lo <= published /\ lo <= from + 1
  BY <1>0
<1>3. Wake(K)!Min({K.page, published - lo + 1}) = n
  BY <1>0, <1>2 DEF Wake!Min
<1>4. n \in Nat /\ 1 <= n /\ lo + n - 1 <= published
  BY <1>0, <1>2
<1> HIDE DEF lo, n
<1>5. Wake(K)!Page(from) = [k \in 1..n |-> lo + k - 1]
  BY <1>1, <1>3 DEF Wake!Page
<1>6. \A k \in 1..n : lo + k - 1 \in 1..published /\ lo + k - 1 \in 1..K.news
  BY <1>0, <1>2, <1>4
<1>7. Wake(K)!Page(from) \in Seq(1..K.news) /\ Len(Wake(K)!Page(from)) = n
  BY <1>4, <1>5, <1>6
<1>8. Wake(K)!Page(from)[1] = lo
  BY <1>2, <1>4, <1>5
<1> QED BY <1>2, <1>4, <1>5, <1>6, <1>7, <1>8

LEMMA FirstOf ==
  ASSUME NEW T, NEW q \in Seq(T), q # <<>>
  PROVE  q[1] \in T /\ Head(q) = q[1] /\ Len(q) \in Nat /\ 1 <= Len(q)
<1>1. Len(q) \in Nat /\ Len(q) # 0
  BY EmptySeq
<1>2. q \in [1..Len(q) -> T]
  BY LenProperties
<1> QED BY <1>1, <1>2

LEMMA ReaderStays ==
  ASSUME NEW K, Wake(K)!WakeAssumption, WakeType(K), Grows(K), published' \in Nat,
         published <= published', NEW r \in Readers(K), ReaderOK(r)
  PROVE  ReaderOK(r)'
<1>1. published \in Nat /\ published <= K.news /\ K.news \in Nat
  BY DEF WakeType, Wake!WakeAssumption
<1>2. \A n \in 1..K.news : <<"finlight", n>> \in Wake(K)!Items
  BY DEF Wake!Items, Wake!News
<1>3. \A n \in 1..K.news : Known(n) => Known(n)'
  BY <1>2 DEF Known, Grows
<1>4. r.at \in Nat /\ r.page \in Seq(1..K.news)
  BY <1>1 DEF Readers
<1>6. r.page # <<>> => r.page[1] \in 1..K.news
  BY <1>4, FirstOf
<1>5. \A n \in 1..r.at : n \in 1..K.news
  BY <1>1, <1>4 DEF ReaderOK
<1>7. r.at \in 0..published' /\ \A n \in 1..r.at : Known(n)'
  BY <1>1, <1>3, <1>4, <1>5 DEF ReaderOK
<1>8. \A k \in 1..Len(r.page) : r.page[k] = r.page[1] + k - 1 /\ r.page[k] \in 1..published'
  BY <1>1 DEF ReaderOK
<1>9. r.step = "saved" => r.page # <<>> /\ Known(r.page[1])'
  BY <1>3, <1>6 DEF ReaderOK
<1> QED BY <1>7, <1>8, <1>9 DEF ReaderOK

\* A run goes on.
LEMMA ReadStep ==
  ASSUME NEW K, Wake(K)!WakeAssumption, WakeInv(K), NEW p \in Wake(K)!Processes,
         NEW r \in Readers(K), reader' = [reader EXCEPT ![p] = r],
         ReaderOK(r)', p = "wake" => phase = "finlight", Grows(K),
         cursor' \in 0..published, \A n \in 1..cursor' : Known(n)',
         UNCHANGED <<Wake(K)!world, evidence, Wake(K)!events, Wake(K)!wake>>
  PROVE  WakeInv(K)'
<1>1. FrozenInv(K)' /\ AnchorInv(K)' /\ FairInv(K)'
  BY FrozenKept DEF Wake!world, Wake!events, Wake!wake, Wake!attempt
<1>2. WakeType(K)'
  BY DEF WakeInv, WakeType, Grows, Wake!world, Wake!events, Wake!wake, Wake!attempt
<1>3. \A q \in Wake(K)!Processes : ReaderOK(reader[q])'
  <2> SUFFICES ASSUME NEW q \in Wake(K)!Processes PROVE ReaderOK(reader[q])'
    OBVIOUS
  <2>1. CASE q = p
    <3>1. reader'[q] = r
      BY <2>1 DEF WakeInv, WakeType
    <3> QED BY <3>1 DEF ReaderOK, Known
  <2>2. CASE q # p
    <3>1. reader'[q] = reader[q] /\ reader[q] \in Readers(K) /\ ReaderOK(reader[q])
      BY <2>2 DEF WakeInv, WakeType, ReaderInv
    <3>2. published' \in Nat /\ published <= published'
      BY DEF WakeInv, WakeType, Wake!world, Wake!WakeAssumption
    <3>3. PICK w \in Readers(K) : w = reader[q] /\ ReaderOK(w)
      BY <3>1
    <3>4. ReaderOK(w)'
      BY <3>2, <3>3, ReaderStays DEF WakeInv
    <3> QED BY <3>1, <3>3, <3>4 DEF ReaderOK, Known
  <2> QED BY <2>1, <2>2
<1>4. reader'["wake"].step # "off" => phase' = "finlight"
  BY DEF WakeInv, WakeType, ReaderInv, Wake!wake
<1> QED BY <1>1, <1>2, <1>3, <1>4 DEF WakeInv, ReaderInv

\* A run ends.
LEMMA ReturnStep ==
  ASSUME NEW K, Wake(K)!WakeAssumption, WakeInv(K), NEW p \in Wake(K)!Processes, NEW result,
         reader[p].step # "off", Wake(K)!Returns(p, result),
         UNCHANGED <<Wake(K)!world, Wake(K)!records, Wake(K)!cursors, Wake(K)!events>>
  PROVE  WakeInv(K)'
<1>0. phase = "finlight" \/ p # "wake"
  BY DEF WakeInv, ReaderInv
<1>1. Grows(K)
  BY SameGrows DEF WakeInv, Wake!records
<1>2. FrozenInv(K)' /\ AnchorInv(K)' /\ FairInv(K)'
  <2>1. CASE p = "wake"
    BY <2>1, <1>0, <1>1, PollKept DEF Wake!Returns, Wake!events, Wake!records
  <2>2. CASE p # "wake"
    BY <2>2, <1>1, FrozenKept DEF Wake!Returns, Wake!events, Wake!records
  <2> QED BY <2>1, <2>2
<1>3. Wake(K)!Off \in Readers(K)
  BY DEF Readers, Wake!Off, Wake!WakeAssumption
<1>4. WakeType(K)'
  <2>1. reader' \in [Wake(K)!Processes -> Readers(K)]
    BY <1>3 DEF Wake!Returns, WakeInv, WakeType
  <2>2. phase' \in Phases /\ cycle' = cycle /\ wakeAt' = wakeAt /\ cut' = cut
        /\ (phase' # "idle" => phase # "idle")
    BY <1>0 DEF Wake!Returns, Phases, WakeInv, WakeType
  <2> QED BY <2>1, <2>2 DEF WakeInv, WakeType, Wake!world, Wake!records, Wake!cursors, Wake!events
<1>5. \A n \in 1..cursor' : Known(n)'
  BY DEF WakeInv, ReaderInv, Known, Wake!cursors, Wake!records
<1>6. \A q \in Wake(K)!Processes : ReaderOK(reader[q])'
  <2> SUFFICES ASSUME NEW q \in Wake(K)!Processes PROVE ReaderOK(reader[q])'
    OBVIOUS
  <2>1. CASE q = p
    <3>1. reader'[q] = Wake(K)!Off /\ published' \in Nat
      BY <2>1 DEF WakeInv, WakeType, Wake!Returns, Wake!world, Wake!WakeAssumption
    <3> QED BY <3>1 DEF ReaderOK, Wake!Off
  <2>2. CASE q # p
    <3>1. reader'[q] = reader[q] /\ ReaderOK(reader[q])
      BY <2>2 DEF WakeInv, WakeType, ReaderInv, Wake!Returns
    <3> QED BY <3>1 DEF ReaderOK, Known, Wake!world, Wake!records
  <2> QED BY <2>1, <2>2
<1>7. reader'["wake"].step # "off" => phase' = "finlight"
  BY DEF WakeInv, WakeType, ReaderInv, Wake!Returns, Wake!Off
<1> QED BY <1>2, <1>4, <1>5, <1>6, <1>7 DEF WakeInv, ReaderInv

\* A step of the wake, or of the world, that leaves the runs as they are.
LEMMA ReaderKept ==
  ASSUME NEW K, Wake(K)!WakeAssumption, WakeInv(K), Grows(K), reader' = reader, cursor' = cursor,
         published' \in Nat, published <= published',
         reader["wake"].step # "off" => phase' = "finlight"
  PROVE  ReaderInv(K)'
<1>1. \A n \in 1..K.news : <<"finlight", n>> \in Wake(K)!Items
  BY DEF Wake!Items, Wake!News
<1>2. \A n \in 1..K.news : Known(n) => Known(n)'
  BY <1>1 DEF Known, Grows
<1>3. published \in Nat /\ published <= K.news /\ K.news \in Nat /\ cursor \in Nat
      /\ cursor <= published
  BY DEF WakeInv, WakeType, Wake!WakeAssumption
<1>4. \A n \in 1..cursor' : Known(n)'
  BY <1>2, <1>3 DEF WakeInv, ReaderInv
<1>5. \A q \in Wake(K)!Processes : ReaderOK(reader[q])'
  <2> SUFFICES ASSUME NEW q \in Wake(K)!Processes PROVE ReaderOK(reader[q])'
    OBVIOUS
  <2>1. reader'[q] = reader[q] /\ reader[q] \in Readers(K) /\ ReaderOK(reader[q])
    BY DEF WakeInv, WakeType, ReaderInv
  <2>2. PICK w \in Readers(K) : w = reader[q] /\ ReaderOK(w)
    BY <2>1
  <2>3. ReaderOK(w)'
    BY <2>2, ReaderStays DEF WakeInv
  <2> QED BY <2>1, <2>2, <2>3 DEF ReaderOK, Known
<1> QED BY <1>4, <1>5 DEF ReaderInv
-----------------------------------------------------------------------------
\* The steps of the runs.
LEMMA StartKeeps ==
  ASSUME NEW K, Wake(K)!WakeAssumption, WakeInv(K), NEW p \in Wake(K)!Processes, Wake(K)!Start(p),
         p = "wake" => phase = "finlight",
         UNCHANGED <<Wake(K)!world, Wake(K)!records, Wake(K)!cursors, Wake(K)!events, Wake(K)!wake>>
  PROVE  WakeInv(K)'
<1>0. /\ published \in Nat /\ K.news \in Nat /\ cursor \in Nat /\ cursor <= published
      /\ published <= K.news
  BY DEF WakeInv, WakeType, Wake!WakeAssumption
<1>a. [Wake(K)!Off EXCEPT !.step = "loaded", !.at = cursor] \in Readers(K)
  <2>a. Wake(K)!Off \in Readers(K)
    BY DEF Readers, Wake!Off, Wake!WakeAssumption
  <2>1. PICK o \in Readers(K) : o = Wake(K)!Off
    BY <2>a
  <2>2. cursor \in 0..K.news
    BY <1>0
  <2>3. [o EXCEPT !.step = "loaded", !.at = cursor] \in Readers(K)
    BY <2>2 DEF Readers
  <2> QED BY <2>1, <2>3
<1>1. PICK r \in Readers(K) : r = [Wake(K)!Off EXCEPT !.step = "loaded", !.at = cursor]
  BY <1>a
<1>2. reader' = [reader EXCEPT ![p] = r]
  BY <1>1 DEF Wake!Start
<1>b. \A n \in 1..cursor : Known(n)
  BY DEF WakeInv, ReaderInv
<1>c. r.at = cursor /\ r.page = <<>> /\ r.step = "loaded"
  BY <1>1 DEF Wake!Off
<1>d. ReaderOK(r)
  BY <1>0, <1>b, <1>c DEF ReaderOK
<1>3. ReaderOK(r)'
  BY <1>d DEF ReaderOK, Known, Wake!world, Wake!records
<1>4. Grows(K)
  BY SameGrows DEF WakeInv, Wake!records
<1>5. \A n \in 1..cursor' : Known(n)'
  BY DEF WakeInv, ReaderInv, Known, Wake!records, Wake!cursors
<1>6. cursor' \in 0..published
  BY DEF WakeInv, WakeType, Wake!cursors
<1> QED BY <1>2, <1>3, <1>4, <1>5, <1>6, ReadStep DEF Wake!records

\* A run takes another step, or a page.
LEMMA TurnKeeps ==
  ASSUME NEW K, Wake(K)!WakeAssumption, WakeInv(K), NEW p \in Wake(K)!Processes,
         NEW r \in Readers(K), reader' = [reader EXCEPT ![p] = r],
         ReaderOK(r), p = "wake" => phase = "finlight",
         UNCHANGED <<Wake(K)!world, Wake(K)!records, Wake(K)!cursors, Wake(K)!events, Wake(K)!wake>>
  PROVE  WakeInv(K)'
<1>1. ReaderOK(r)'
  BY DEF ReaderOK, Known, Wake!world, Wake!records
<1>2. Grows(K)
  BY SameGrows DEF WakeInv, Wake!records
<1>3. \A n \in 1..cursor' : Known(n)'
  BY DEF WakeInv, ReaderInv, Known, Wake!records, Wake!cursors
<1>4. cursor' \in 0..published
  BY DEF WakeInv, WakeType, Wake!cursors
<1> QED BY <1>1, <1>2, <1>3, <1>4, ReadStep DEF Wake!records

LEMMA RunOf ==
  ASSUME NEW K, Wake(K)!WakeAssumption, WakeInv(K), NEW p \in Wake(K)!Processes
  PROVE  /\ reader[p] \in Readers(K) /\ ReaderOK(reader[p])
         /\ reader[p].step # "off" => (p = "wake" => phase = "finlight")
         /\ published \in Nat /\ published <= K.news /\ K.news \in Nat
         /\ reader[p].at \in 0..published /\ reader[p].at \in 0..K.news
         /\ reader[p].page \in Seq(1..K.news)
<1>1. reader[p] \in Readers(K) /\ ReaderOK(reader[p])
  BY DEF WakeInv, WakeType, ReaderInv
<1>2. published \in Nat /\ published <= K.news /\ K.news \in Nat
  BY DEF WakeInv, WakeType, Wake!WakeAssumption
<1> QED BY <1>1, <1>2 DEF WakeInv, ReaderInv, ReaderOK, Readers

LEMMA AcquireKeeps ==
  ASSUME NEW K, Wake(K)!WakeAssumption, WakeInv(K), NEW p \in Wake(K)!Processes, Wake(K)!Acquire(p)
  PROVE  WakeInv(K)'
<1> DEFINE r == [reader[p] EXCEPT !.step = "owner"]
<1>1. reader' = [reader EXCEPT ![p] = r] /\ r \in Readers(K) /\ (p = "wake" => phase = "finlight")
  BY RunOf DEF Wake!Acquire, Wake!Step, Readers
<1>2. ReaderOK(r)
  BY RunOf DEF ReaderOK, Readers
<1> QED BY <1>1, <1>2, TurnKeeps DEF Wake!Acquire

LEMMA PageKeeps ==
  ASSUME NEW K, Wake(K)!WakeAssumption, WakeInv(K), NEW p \in Wake(K)!Processes,
         NEW mode \in {"stream", "rest", "gap"}, NEW page,
         page \in {<<>>, Wake(K)!Page(reader[p].at)}
  PROVE  LET r == [reader[p] EXCEPT !.step = "reading", !.mode = mode, !.page = page]
         IN r \in Readers(K) /\ ReaderOK(r)
<1> DEFINE r == [reader[p] EXCEPT !.step = "reading", !.mode = mode, !.page = page]
<1>1. reader[p] \in Readers(K) /\ ReaderOK(reader[p]) /\ reader[p].at \in 0..published
  BY RunOf
<1>2. WakeType(K)
  BY DEF WakeInv
<1>3. /\ page \in Seq(1..K.news)
      /\ page # <<>> => page[1] <= reader[p].at + 1
      /\ \A k \in 1..Len(page) : page[k] = page[1] + k - 1 /\ page[k] \in 1..published
  <2>1. CASE page = <<>>
    BY <2>1
  <2>2. CASE page = Wake(K)!Page(reader[p].at)
    BY <2>2, <1>1, <1>2, PageOf
  <2> QED BY <2>1, <2>2
<1>4. r \in Readers(K) /\ r.at = reader[p].at /\ r.page = page /\ r.step = "reading"
  BY <1>1, <1>3 DEF Readers
<1> HIDE DEF r
<1>5. ReaderOK(r)
  BY <1>1, <1>3, <1>4 DEF ReaderOK
<1> QED BY <1>4, <1>5 DEF r

LEMMA ConnectKeeps ==
  ASSUME NEW K, Wake(K)!WakeAssumption, WakeInv(K), NEW p \in Wake(K)!Processes, Wake(K)!Connect(p)
  PROVE  WakeInv(K)'
<1>0. reader[p].step # "off" /\ (p = "wake" => phase = "finlight")
  BY RunOf DEF Wake!Connect
<1>1. PICK mode \in {"stream", "rest"} :
        reader' = [reader EXCEPT ![p].step = "reading", ![p].mode = mode,
                                 ![p].page = IF mode = "rest" THEN Wake(K)!Page(reader[p].at) ELSE <<>>]
  BY DEF Wake!Connect
<1> DEFINE page == IF mode = "rest" THEN Wake(K)!Page(reader[p].at) ELSE <<>>
           r == [reader[p] EXCEPT !.step = "reading", !.mode = mode, !.page = page]
<1>2. reader' = [reader EXCEPT ![p] = r]
  BY <1>1
<1>3. r \in Readers(K) /\ ReaderOK(r)
  BY PageKeeps
<1> HIDE DEF r
<1> QED BY <1>0, <1>2, <1>3, TurnKeeps DEF Wake!Connect

LEMMA DisconnectKeeps ==
  ASSUME NEW K, Wake(K)!WakeAssumption, WakeInv(K), NEW p \in Wake(K)!Processes, Wake(K)!Disconnect(p)
  PROVE  WakeInv(K)'
<1> DEFINE r == [reader[p] EXCEPT !.step = "reading", !.mode = "gap", !.page = Wake(K)!Page(reader[p].at)]
<1>0. reader[p].step # "off" /\ (p = "wake" => phase = "finlight")
  BY RunOf DEF Wake!Disconnect
<1>1. reader' = [reader EXCEPT ![p] = r]
  <2>1. reader[p].step = "reading" /\ reader[p] \in Readers(K)
    BY RunOf DEF Wake!Disconnect
  <2>2. r = [reader[p] EXCEPT !.mode = "gap", !.page = Wake(K)!Page(reader[p].at)]
    BY <2>1 DEF Readers
  <2>3. reader' = [reader EXCEPT ![p] = [reader[p] EXCEPT !.mode = "gap", !.page = Wake(K)!Page(reader[p].at)]]
    BY DEF Wake!Disconnect
  <2> QED BY <2>2, <2>3
<1>2. r \in Readers(K) /\ ReaderOK(r)
  BY PageKeeps
<1> HIDE DEF r
<1> QED BY <1>0, <1>1, <1>2, TurnKeeps DEF Wake!Disconnect

LEMMA StreamedKeeps ==
  ASSUME NEW K, Wake(K)!WakeAssumption, WakeInv(K), NEW p \in Wake(K)!Processes, Wake(K)!Streamed(p)
  PROVE  WakeInv(K)'
<1> DEFINE r == [reader[p] EXCEPT !.page = <<reader[p].at + 1>>]
<1>0. reader[p].step = "reading" /\ (p = "wake" => phase = "finlight") /\ reader[p].at < published
  BY RunOf DEF Wake!Streamed
<1>1. reader' = [reader EXCEPT ![p] = r]
  BY DEF Wake!Streamed
<1>2. reader[p].at + 1 \in 1..published /\ reader[p].at + 1 \in 1..K.news
  BY <1>0, RunOf
<1>3. <<reader[p].at + 1>> \in Seq(1..K.news) /\ Len(<<reader[p].at + 1>>) = 1
      /\ <<reader[p].at + 1>>[1] = reader[p].at + 1
  BY <1>2
<1>4. r \in Readers(K) /\ r.at = reader[p].at /\ r.page = <<reader[p].at + 1>> /\ r.step = "reading"
  BY <1>0, <1>3, RunOf DEF Readers
<1>5. ReaderOK(r)
  <2>1. r.at \in 0..published /\ \A n \in 1..r.at : Known(n)
    BY <1>4, RunOf DEF ReaderOK
  <2>2. Len(r.page) = 1 /\ r.page[1] = reader[p].at + 1 /\ reader[p].at \in Nat
    BY <1>3, <1>4, RunOf
  <2> HIDE DEF r
  <2> QED BY <1>2, <1>4, <2>1, <2>2 DEF ReaderOK
<1> HIDE DEF r
<1> QED BY <1>0, <1>1, <1>4, <1>5, TurnKeeps DEF Wake!Streamed

LEMMA SaveKeeps ==
  ASSUME NEW K, Wake(K)!WakeAssumption, WakeInv(K), NEW p \in Wake(K)!Processes, Wake(K)!Save(p)
  PROVE  WakeInv(K)'
<1>0. reader[p].step = "reading" /\ (p = "wake" => phase = "finlight") /\ reader[p].page # <<>>
  BY RunOf DEF Wake!Save
<1>a. Head(reader[p].page) = reader[p].page[1] /\ reader[p].page[1] \in 1..K.news
  BY <1>0, RunOf, FirstOf
<1>b. PICK h \in 1..K.news : h = reader[p].page[1]
  BY <1>a
<1>c. PICK w \in Readers(K) : w = reader[p] /\ ReaderOK(w)
  BY RunOf
<1>d. [w EXCEPT !.step = "saved"] \in Readers(K)
  BY DEF Readers
<1>1. PICK r \in Readers(K) : r = [w EXCEPT !.step = "saved"]
  BY <1>d
<1>2. reader' = [reader EXCEPT ![p] = r]
  BY <1>1, <1>c DEF Wake!Save, Wake!Step
<1>3. <<"finlight", h>> \in Wake(K)!Items /\ Wake(K)!Stored(<<"finlight", h>>)
  BY <1>a, <1>b DEF Wake!Items, Wake!News, Wake!Save
<1>4. Grows(K) /\ Known(h)'
  BY <1>3, StoredGrows DEF WakeInv, Known
<1>5. published' = published /\ cursor' = cursor
  BY DEF Wake!Save, Wake!world, Wake!cursors
<1>6. ReaderOK(r)'
  <2>1. ReaderOK(w)'
    BY <1>4, <1>5, <1>c, RunOf, ReaderStays DEF WakeInv
  <2>2. w.page # <<>> /\ w.page[1] = h /\ r.at = w.at /\ r.page = w.page
    BY <1>0, <1>1, <1>b, <1>c DEF Readers
  <2> QED BY <1>4, <2>1, <2>2 DEF ReaderOK
<1>7. \A n \in 1..cursor' : Known(n)'
  <2>1. cursor \in 0..published /\ \A n \in 1..cursor : Known(n)
    BY DEF WakeInv, WakeType, ReaderInv
  <2>2. \A n \in 1..K.news : <<"finlight", n>> \in Wake(K)!Items
    BY DEF Wake!Items, Wake!News
  <2>3. \A n \in 1..cursor : n \in 1..K.news
    BY <2>1, RunOf
  <2> QED BY <1>4, <1>5, <2>1, <2>2, <2>3 DEF Known, Grows
<1>8. cursor' \in 0..published
  BY <1>5 DEF WakeInv, WakeType
<1> QED BY <1>0, <1>2, <1>4, <1>6, <1>7, <1>8, ReadStep DEF Wake!Save

LEMMA PersistKeeps ==
  ASSUME NEW K, Wake(K)!WakeAssumption, WakeInv(K), NEW p \in Wake(K)!Processes,
         Wake(K)!PersistCursor(p)
  PROVE  WakeInv(K)'
<1>a. PICK q \in Seq(1..K.news) : q = reader[p].page
  BY RunOf
<1>0. reader[p].step = "saved" /\ (p = "wake" => phase = "finlight")
  BY RunOf DEF Wake!PersistCursor
<1>1. /\ q # <<>> /\ Known(q[1])
      /\ q[1] <= reader[p].at + 1 /\ \A n \in 1..reader[p].at : Known(n)
      /\ \A k \in 1..Len(q) : q[k] = q[1] + k - 1 /\ q[k] \in 1..published
  BY <1>0, <1>a, RunOf DEF ReaderOK
<1>3. q[1] \in 1..K.news /\ Head(q) = q[1] /\ Len(q) \in Nat /\ 1 <= Len(q)
  BY <1>1, FirstOf
<1>4. Tail(q) \in Seq(1..K.news) /\ Len(Tail(q)) = Len(q) - 1
      /\ \A k \in 1..Len(Tail(q)) : Tail(q)[k] = q[k + 1]
  BY <1>1, HeadTailProperties
<1>b. PICK w \in Readers(K) : w = reader[p]
  BY RunOf
<1>c. [w EXCEPT !.step = "reading", !.at = q[1], !.page = Tail(q)] \in Readers(K)
  <2>1. q[1] \in 0..K.news
    BY <1>3, RunOf
  <2> QED BY <1>4, <2>1 DEF Readers
<1>d. PICK r \in Readers(K) : r = [w EXCEPT !.step = "reading", !.at = q[1], !.page = Tail(q)]
  BY <1>c
<1>5. r.at = q[1] /\ r.page = Tail(q) /\ r.step = "reading"
  BY <1>d DEF Readers
<1>2. reader' = [reader EXCEPT ![p] = r] /\ cursor' = q[1]
  BY <1>3, <1>a, <1>b, <1>d DEF Wake!PersistCursor
<1>6. q[1] \in 1..published
  BY <1>1, <1>3
<1>7. \A n \in 1..q[1] : Known(n)
  <2>1. reader[p].at \in Nat
    BY RunOf
  <2>2. \A n \in 1..q[1] : n = q[1] \/ n \in 1..reader[p].at
    BY <1>1, <1>3, <2>1
  <2> QED BY <1>1, <2>2
<1>8. ReaderOK(r)
  <2>1. \A k \in 1..Len(Tail(q)) : k + 1 \in 1..Len(q) /\ Tail(q)[k] = q[k + 1]
    BY <1>3, <1>4
  <2>2. \A k \in 1..Len(Tail(q)) : Tail(q)[k] = q[1] + k /\ Tail(q)[k] \in 1..published
    BY <1>1, <1>3, <2>1
  <2>3. Tail(q) # <<>> => Tail(q)[1] = q[1] + 1
    <3> SUFFICES ASSUME Tail(q) # <<>> PROVE Tail(q)[1] = q[1] + 1
      OBVIOUS
    <3>1. 1 \in 1..Len(Tail(q))
      BY <1>4, FirstOf
    <3> QED BY <3>1, <2>2
  <2>4. \A k \in 1..Len(Tail(q)) : Tail(q) # <<>>
    <3>1. Tail(q) = <<>> => Len(Tail(q)) = 0
      BY <1>4, EmptySeq
    <3> QED BY <1>4, <3>1
  <2>5. \A k \in 1..Len(Tail(q)) : Tail(q)[k] = Tail(q)[1] + k - 1 /\ Tail(q)[k] \in 1..published
    <3> SUFFICES ASSUME NEW k \in 1..Len(Tail(q))
                 PROVE  Tail(q)[k] = Tail(q)[1] + k - 1 /\ Tail(q)[k] \in 1..published
      OBVIOUS
    <3>1. Tail(q)[1] = q[1] + 1 /\ Tail(q)[k] = q[1] + k /\ Tail(q)[k] \in 1..published
      BY <2>2, <2>3, <2>4
    <3> QED BY <1>3, <1>4, <3>1
  <2>6. q[1] \in 0..published /\ q[1] <= q[1] + 1 /\ (Tail(q) # <<>> => Tail(q)[1] <= q[1] + 1)
    BY <1>6, <1>3, <2>3
  <2> QED BY <1>5, <1>7, <2>5, <2>6 DEF ReaderOK
<1>9. Grows(K)
  BY SameGrows DEF WakeInv, Wake!PersistCursor, Wake!records
<1>10. ReaderOK(r)'
  BY <1>8 DEF ReaderOK, Known, Wake!PersistCursor, Wake!world, Wake!records
<1>11. cursor' \in 0..published /\ \A n \in 1..cursor' : Known(n)'
  BY <1>2, <1>3, <1>6, <1>7 DEF Known, Wake!PersistCursor, Wake!records
<1> QED BY <1>0, <1>2, <1>9, <1>10, <1>11, ReadStep DEF Wake!PersistCursor, Wake!records

LEMMA ReadsKeep ==
  ASSUME NEW K, Wake(K)!WakeAssumption, WakeInv(K), NEW p \in Wake(K)!Processes, Wake(K)!Reads(p)
  PROVE  WakeInv(K)'
<1>1. CASE Wake(K)!Cooled(p)
  BY <1>1, ReturnStep DEF Wake!Cooled
<1>2. CASE Wake(K)!Busy(p)
  BY <1>2, ReturnStep DEF Wake!Busy
<1>3. CASE Wake(K)!Complete(p)
  BY <1>3, ReturnStep DEF Wake!Complete
<1>4. CASE Wake(K)!Limited(p)
  BY <1>4, ReturnStep DEF Wake!Limited
<1>5. CASE Wake(K)!Broken(p)
  BY <1>5, ReturnStep DEF Wake!Broken
<1> QED BY <1>1, <1>2, <1>3, <1>4, <1>5, AcquireKeeps, ConnectKeeps, DisconnectKeeps, StreamedKeeps,
           SaveKeeps, PersistKeeps DEF Wake!Reads
-----------------------------------------------------------------------------
\* The steps of the market source, and of a news source that is spared.
LEMMA PollStep ==
  ASSUME NEW K, Wake(K)!WakeAssumption, WakeInv(K), Grows(K),
         phase \in {"finlight", "massive", "daily"}, phase' \in {"massive", "daily", "freeze"},
         reader["wake"].step = "off",
         UNCHANGED <<Wake(K)!world, evidence, cursor, Wake(K)!events, reader, cycle, wakeAt, cut,
         chosen>>
  PROVE  WakeInv(K)'
<1>1. FrozenInv(K)' /\ AnchorInv(K)' /\ FairInv(K)'
  BY PollKept DEF Wake!events
<1>2. WakeType(K)'
  BY DEF WakeInv, WakeType, Grows, Wake!world, Wake!events, Phases
<1>3. published' \in Nat /\ published <= published'
  BY DEF WakeInv, WakeType, Wake!WakeAssumption, Wake!world
<1>4. ReaderInv(K)'
  BY <1>3, ReaderKept
<1> QED BY <1>1, <1>2, <1>4 DEF WakeInv

LEMMA PollsKeep ==
  ASSUME NEW K, Wake(K)!WakeAssumption, WakeInv(K), Wake(K)!Polls
  PROVE  WakeInv(K)'
<1>1. CASE Wake(K)!LoadCursor
  BY <1>1, StartKeeps DEF Wake!LoadCursor, Wake!Processes, Wake!source
<1>2. CASE Wake(K)!SparedNews
  <2>1. reader["wake"].step = "off" /\ Grows(K)
    BY <1>2, SameGrows DEF Wake!SparedNews, Wake!Off, WakeInv, Wake!records
  <2> QED BY <1>2, <2>1, PollStep DEF Wake!SparedNews, Wake!records, Wake!cursors, Wake!source
<1>3. CASE Wake(K)!SparedMarket
  <2>1. reader["wake"].step = "off" /\ Grows(K)
    BY <1>3, SameGrows DEF Wake!SparedMarket, WakeInv, ReaderInv, Wake!records
  <2> QED BY <1>3, <2>1, PollStep DEF Wake!SparedMarket, Wake!records, Wake!cursors, Wake!source
<1>4. CASE Wake(K)!Refused
  <2>1. reader["wake"].step = "off" /\ Grows(K)
    BY <1>4, SameGrows DEF Wake!Refused, Wake!Fetching, WakeInv, ReaderInv, Wake!records
  <2>2. phase \in {"massive", "daily"} /\ phase' = "freeze" /\ UNCHANGED <<cycle, wakeAt, cut, chosen>>
    BY <1>4 DEF Wake!Refused, Wake!Fetching, Wake!ToFreeze
  <2> QED BY <1>4, <2>1, <2>2, PollStep DEF Wake!Refused, Wake!records, Wake!cursors, Wake!source
<1> DEFINE item == <<"massive", IF phase = "daily" THEN 0 ELSE now>>
<1>a. item \in Wake(K)!Items
  <2>1. now \in 0..K.time /\ 0 \in 0..K.time
    BY DEF WakeInv, WakeType, Wake!WakeAssumption
  <2> QED BY <2>1 DEF Wake!Items, Wake!Market
<1>b. Wake(K)!Stored(item) \/ UNCHANGED raw => Grows(K)
  BY <1>a, StoredGrows, SameGrows DEF WakeInv
<1>c. Wake(K)!Fetching => reader["wake"].step = "off" /\ phase \in {"massive", "daily"}
  BY DEF Wake!Fetching, WakeInv, ReaderInv
<1> HIDE DEF item
<1>5. CASE Wake(K)!Fetched
  <2>1. Wake(K)!Stored(item) /\ Wake(K)!Fetching
    BY <1>5 DEF Wake!Fetched, item, Wake!Request, Wake!Admitted
  <2>2. phase' \in {"daily", "freeze"} /\ UNCHANGED <<cycle, wakeAt, cut, chosen>>
    BY <1>5 DEF Wake!Fetched, Wake!ToFreeze
  <2> QED BY <1>5, <1>b, <1>c, <2>1, <2>2, PollStep DEF Wake!Fetched, Wake!source
<1>6. CASE Wake(K)!MarketLimited
  <2>1. (Wake(K)!Stored(item) \/ UNCHANGED raw) /\ Wake(K)!Fetching
    BY <1>6 DEF Wake!MarketLimited, item, Wake!Request, Wake!Admitted
  <2>2. phase' = "freeze" /\ UNCHANGED <<cycle, wakeAt, cut, chosen>>
    BY <1>6 DEF Wake!MarketLimited, Wake!ToFreeze
  <2> QED BY <1>6, <1>b, <1>c, <2>1, <2>2, PollStep DEF Wake!MarketLimited, Wake!source, Wake!cursors
<1>7. CASE Wake(K)!MarketBroken
  <2>1. (Wake(K)!Stored(item) \/ UNCHANGED raw) /\ Wake(K)!Fetching
    BY <1>7 DEF Wake!MarketBroken, item, Wake!Request, Wake!Admitted
  <2>2. phase' = "freeze" /\ UNCHANGED <<cycle, wakeAt, cut, chosen>>
    BY <1>7 DEF Wake!MarketBroken, Wake!ToFreeze
  <2> QED BY <1>7, <1>b, <1>c, <2>1, <2>2, PollStep DEF Wake!MarketBroken, Wake!source, Wake!cursors
<1> QED BY <1>1, <1>2, <1>3, <1>4, <1>5, <1>6, <1>7 DEF Wake!Polls

-----------------------------------------------------------------------------
\* The steps of the wake.
LEMMA AttemptKeeps ==
  ASSUME NEW K, Wake(K)!WakeAssumption, WakeInv(K), NEW c \in Wake(K)!Cycles, NEW at \in 0..K.time,
         Wake(K)!Attempt(c, at),
         phase \in {"idle", "failed", "down"}, c >= cycle, anchor[c] = Wake(K)!NoAnchor
  PROVE  WakeInv(K)'
<1>0. Grows(K) /\ reader["wake"].step = "off"
  BY SameGrows DEF Wake!Attempt, WakeInv, ReaderInv, Wake!records
<1>1. /\ cycle' = c /\ wakeAt' = at /\ phase' \in {"freeze", "finlight"} /\ cut' \in 0..K.time
      /\ phase' = "finlight" => transport[c] = <<>>
      /\ phase' = "freeze" => posture' = transport[c]
  BY DEF Wake!Attempt, Wake!WakeAssumption
<1>2. UNCHANGED <<published, now, raw, evidence, cursor, wakeEvent, counted, transport, anchor, reader>>
  BY DEF Wake!Attempt, Wake!world, Wake!records, Wake!cursors, Wake!events, Wake!source
<1>3. WakeType(K)'
  <2>1. cycle' \in 0..K.cycles /\ cycle' \in Wake(K)!Cycles
    BY <1>1 DEF Wake!Cycles, Wake!WakeAssumption
  <2> QED BY <1>1, <1>2, <2>1 DEF WakeInv, WakeType, Phases
<1>4. ReaderInv(K)'
  <2>1. published' \in Nat /\ published <= published'
    BY <1>2 DEF WakeInv, WakeType, Wake!WakeAssumption
  <2> QED BY <1>0, <1>2, <2>1, ReaderKept
<1>5. FrozenInv(K)'
  BY <1>1, <1>2 DEF WakeInv, FrozenInv
<1>6. AnchorInv(K)'
  <2>1. Wake(K)!AnchorTruthful'
    BY <1>0, <1>2, AnchorsKept DEF Wake!AnchorTruthful
  <2>2. \A d \in Wake(K)!Cycles : d > cycle' => anchor'[d] = Wake(K)!NoAnchor
    <3>1. cycle \in Nat /\ c \in Nat /\ \A d \in Wake(K)!Cycles : d \in Nat
      BY DEF WakeInv, WakeType, Wake!WakeAssumption, Wake!Cycles
    <3>2. \A d \in Wake(K)!Cycles : d > c => d > cycle
      BY <3>1
    <3> QED BY <1>1, <1>2, <3>2 DEF WakeInv, AnchorInv
  <2> QED BY <1>1, <1>2, <2>1, <2>2 DEF AnchorInv
<1>7. FairInv(K)'
  BY <1>1 DEF FairInv
<1> QED BY <1>3, <1>4, <1>5, <1>6, <1>7 DEF WakeInv

LEMMA BeginKeeps ==
  ASSUME NEW K, Wake(K)!WakeAssumption, WakeInv(K), Wake(K)!Begin
  PROVE  WakeInv(K)'
<1>1. cycle \in Nat /\ cycle < K.cycles /\ K.cycles \in Nat
  BY DEF WakeInv, WakeType, Wake!WakeAssumption, Wake!Begin
<1>2. cycle + 1 \in Wake(K)!Cycles /\ cycle + 1 > cycle /\ cycle + 1 >= cycle
  BY <1>1 DEF Wake!Cycles
<1>3. now \in 0..K.time
  BY DEF WakeInv, WakeType, Wake!WakeAssumption
<1>4. anchor[cycle + 1] = Wake(K)!NoAnchor
  BY <1>2 DEF WakeInv, AnchorInv
<1> QED BY <1>2, <1>3, <1>4, AttemptKeeps DEF Wake!Begin

LEMMA RetryKeeps ==
  ASSUME NEW K, Wake(K)!WakeAssumption, WakeInv(K), Wake(K)!Retry
  PROVE  WakeInv(K)'
<1>1. cycle \in Wake(K)!Cycles /\ wakeAt \in 0..K.time /\ cycle >= cycle
  BY DEF WakeInv, WakeType, Wake!WakeAssumption, Wake!Cycles, Wake!Retry
<1> QED BY <1>1, AttemptKeeps DEF Wake!Retry

\* A step within an attempt, or out of it, that freezes and anchors nothing.
LEMMA PhaseKeeps ==
  ASSUME NEW K, Wake(K)!WakeAssumption, WakeInv(K), phase # "finlight", phase' \in Phases,
         phase' # "idle" => phase # "idle",
         UNCHANGED <<Wake(K)!world, Wake(K)!records, cursor, wakeEvent, counted, anchor, reader,
         cycle, wakeAt,
                     posture, cut, chosen>>,
         phase' \in {"context", "postures", "anchor"} => phase \in {"context", "postures", "anchor"},
         phase' \in Working => phase \in Working,
         phase' \notin {"finlight", "massive", "daily", "freeze", "context"},
         transport' = transport \/ (phase = "postures" /\ transport' = [transport EXCEPT ![cycle] = posture]),
         phase' = "postures" => transport'[cycle] = <<>>,
         phase' = "anchor" => transport'[cycle] = posture
  PROVE  WakeInv(K)'
<1>0. Grows(K) /\ reader["wake"].step = "off"
  BY SameGrows DEF WakeInv, ReaderInv, Wake!records
<1>1. WakeType(K)'
  BY DEF WakeInv, WakeType, Wake!world, Wake!records
<1>2. ReaderInv(K)'
  <2>1. published' \in Nat /\ published <= published'
    BY DEF WakeInv, WakeType, Wake!WakeAssumption, Wake!world
  <2> QED BY <1>0, <2>1, ReaderKept
<1>3. FrozenInv(K)'
  BY SameCard DEF WakeInv, FrozenInv, Holds, Wake!Counts, Wake!KnownBy, Wake!records
<1>4. AnchorInv(K)'
  <2>1. \A c \in Wake(K)!Cycles : anchor[c] # Wake(K)!NoAnchor => transport'[c] = transport[c]
    BY DEF WakeInv, AnchorInv, Working, WakeType
  <2>2. Wake(K)!AnchorTruthful'
    BY <1>0, <2>1, AnchorsKept DEF Wake!AnchorTruthful, Wake!records
  <2> QED BY <2>2 DEF WakeInv, AnchorInv
<1>5. FairInv(K)'
  BY DEF FairInv
<1> QED BY <1>1, <1>2, <1>3, <1>4, <1>5 DEF WakeInv

LEMMA QuietKeeps ==
  ASSUME NEW K, Wake(K)!WakeAssumption, WakeInv(K),
         Wake(K)!Leave \/ Wake(K)!Conflict \/ Wake(K)!Context \/ Wake(K)!Postures \/ Wake(K)!Fail
  PROVE  WakeInv(K)'
<1>1. CASE Wake(K)!Leave
  BY <1>1, PhaseKeeps DEF Wake!Leave, Phases, Working, Wake!cursors, Wake!events, Wake!source,
     Wake!attempt
<1>2. CASE Wake(K)!Conflict
  BY <1>2, PhaseKeeps DEF Wake!Conflict, Phases, Working, Wake!cursors, Wake!events, Wake!source,
     Wake!attempt
<1>3. CASE Wake(K)!Fail
  BY <1>3, PhaseKeeps DEF Wake!Fail, Phases, Working, Wake!cursors, Wake!events, Wake!source,
     Wake!attempt
<1>4. CASE Wake(K)!Context
  <2>1. transport[cycle] \in {<<>>, posture}
    BY <1>4 DEF Wake!Context, WakeInv, FrozenInv
  <2> QED
    BY <1>4, <2>1, PhaseKeeps DEF Wake!Context, Phases, Working, Wake!cursors, Wake!events,
       Wake!source, Wake!attempt
<1>5. CASE Wake(K)!Postures
  <2>1. transport'[cycle] = posture
    BY <1>5 DEF Wake!Postures, WakeInv, WakeType
  <2> QED
    BY <1>5, <2>1, PhaseKeeps DEF Wake!Postures, Phases, Working, Wake!cursors, Wake!events,
       Wake!source, Wake!attempt
<1> QED BY <1>1, <1>2, <1>3, <1>4, <1>5
LEMMA CountsType ==
  ASSUME NEW K, Wake(K)!WakeAssumption, NEW E, E \subseteq Wake(K)!Items
  PROVE  Wake(K)!Counts(E) \in [Wake(K)!Connectors -> Nat]
<1>1. \A s \in Wake(K)!Connectors : Cardinality({i \in E : i[1] = s}) \in Nat
  BY ItemsFinite, FS_Subset, FS_CardinalityType
<1> QED BY <1>1, SameCard DEF Wake!Counts

LEMMA FrozenKeeps ==
  ASSUME NEW K, Wake(K)!WakeAssumption, WakeInv(K), Wake(K)!Frozen
  PROVE  WakeInv(K)'
<1>0. phase = "freeze" /\ cycle \in Wake(K)!Cycles /\ reader["wake"].step = "off"
      /\ anchor[cycle] = Wake(K)!NoAnchor
      /\ transport[cycle] \in {<<>>, posture}
  BY DEF Wake!Frozen, WakeInv, WakeType, ReaderInv, FrozenInv, AnchorInv, Working
<1>1. Wake(K)!FreezeAt \in 1..K.time
  <2>1. /\ wakeAt \in Nat /\ wakeAt <= K.time /\ now \in Nat /\ 1 <= now /\ now <= K.time
        /\ cut \in Nat /\ cut <= K.time /\ K.time \in Nat
    BY DEF WakeInv, WakeType, Wake!WakeAssumption
  <2>2. Wake(K)!Max({wakeAt, now}) \in {wakeAt, now} /\ Wake(K)!Max({wakeAt, now}) >= now
    <3>1. CASE wakeAt >= now
      <4>1. Wake(K)!Max({wakeAt, now}) = wakeAt
        BY <2>1, <3>1 DEF Wake!Max
      <4> QED BY <2>1, <3>1, <4>1
    <3>2. CASE now > wakeAt
      <4>1. Wake(K)!Max({wakeAt, now}) = now
        BY <2>1, <3>2 DEF Wake!Max
      <4> QED BY <2>1, <4>1
    <3> QED BY <2>1, <3>1, <3>2
  <2> QED BY <2>1, <2>2 DEF Wake!FreezeAt
<1>2. PICK at \in 1..K.time : at = Wake(K)!FreezeAt
  BY <1>1
<1>3. PICK known \in SUBSET Wake(K)!Items : known = Wake(K)!KnownBy(at)
  BY DEF Wake!KnownBy
<1>4. PICK W \in SUBSET Wake(K)!Items : W = Wake(K)!Window(known) /\ W \subseteq known
  BY DEF Wake!Window
<1>5. PICK rows \in SUBSET Wake(K)!Items : rows = Wake(K)!Balanced(W) /\ rows \subseteq W
  BY SameCard DEF Wake!Balanced
<1>6. /\ Wake(K)!Agrees(counted[cycle], Wake(K)!Counts(rows))
      /\ wakeEvent' = [wakeEvent EXCEPT ![cycle] = at]
      /\ counted' = [counted EXCEPT ![cycle] = [s \in Wake(K)!Connectors |->
                                     IF @[s] = 0 THEN Wake(K)!Counts(rows)[s] ELSE @[s]]]
      /\ evidence' = evidence \cup known /\ cut' = at /\ chosen' = rows /\ phase' = "context"
      /\ UNCHANGED <<published, now, raw, cursor, transport, anchor, reader, cycle, wakeAt, posture>>
  BY <1>2, <1>3, <1>4, <1>5 DEF Wake!Frozen, Wake!world, Wake!cursors, Wake!source
<1>7. Grows(K)
  BY <1>6, SameGrows DEF WakeInv
<1>8. Wake(K)!Counts(rows) \in [Wake(K)!Connectors -> Nat]
      /\ counted[cycle] \in [Wake(K)!Connectors -> Nat]
  BY <1>0, CountsType DEF WakeInv, WakeType
<1>a. K.time \in Nat
  BY DEF Wake!WakeAssumption
<1>9. WakeType(K)'
  <2>1. wakeEvent' \in [Wake(K)!Cycles -> 0..K.time] /\ cut' \in 0..K.time
    <3>1. at \in 0..K.time
      BY <1>a
    <3> QED BY <1>6, <3>1 DEF WakeInv, WakeType
  <2>2. [s \in Wake(K)!Connectors |-> IF counted[cycle][s] = 0 THEN Wake(K)!Counts(rows)[s] ELSE counted[cycle][s]]
          \in [Wake(K)!Connectors -> Nat]
    BY <1>8
  <2>3. counted' \in [Wake(K)!Cycles -> [Wake(K)!Connectors -> Nat]]
    BY <1>6, <2>2 DEF WakeInv, WakeType
  <2> QED BY <1>6, <2>1, <2>3 DEF WakeInv, WakeType, Phases
<1>10. ReaderInv(K)'
  <2>1. published' \in Nat /\ published <= published'
    BY <1>6 DEF WakeInv, WakeType, Wake!WakeAssumption
  <2> QED BY <1>0, <1>6, <1>7, <2>1, ReaderKept
<1>11. FrozenInv(K)'
  <2>1. \A i \in evidence' : raw'[i] # 0
    BY <1>3, <1>6 DEF WakeInv, FrozenInv, Wake!KnownBy
  <2>2. cut' = wakeEvent'[cycle'] /\ wakeEvent'[cycle] = at
    BY <1>0, <1>6 DEF WakeInv, WakeType
  <2>3. Wake(K)!KnownBy(at)' = known
    BY <1>3, <1>6 DEF Wake!KnownBy
  <2>4. Wake(K)!Counts(chosen)' = Wake(K)!Counts(rows)
    BY <1>6, SameCard DEF Wake!Counts
  <2>5. \A s \in Wake(K)!Connectors : Wake(K)!Counts(rows)[s] \in {0, counted'[cycle][s]}
    <3>1. \A s \in Wake(K)!Connectors : counted'[cycle][s] =
            IF counted[cycle][s] = 0 THEN Wake(K)!Counts(rows)[s] ELSE counted[cycle][s]
      BY <1>0, <1>6 DEF WakeInv, WakeType
    <3> QED BY <1>6, <3>1 DEF Wake!Agrees
  <2>6. Holds(K, cycle, chosen)'
    <3>1. (evidence \cap Wake(K)!KnownBy(wakeEvent[cycle]))' = evidence' \cap known
      BY <1>6, <2>2, <2>3
    <3> QED BY <1>4, <1>5, <1>6, <2>4, <2>5, <3>1 DEF Holds
  <2> QED BY <1>0, <1>6, <2>1, <2>2, <2>6 DEF FrozenInv
<1>12. AnchorInv(K)'
  <2>1. \A c \in Wake(K)!Cycles : anchor[c] # Wake(K)!NoAnchor => UNCHANGED <<wakeEvent[c],
          counted[c], transport[c], anchor[c]>>
    BY <1>0, <1>6 DEF WakeInv, WakeType
  <2>2. evidence \subseteq evidence'
    BY <1>6
  <2>4. Wake(K)!AnchorTruthful'
    <3> SUFFICES ASSUME NEW c \in Wake(K)!Cycles, anchor'[c] # Wake(K)!NoAnchor
                 PROVE  /\ anchor'[c].cutoff = wakeEvent'[c]
                        /\ anchor'[c].evidence \subseteq evidence' \cap Wake(K)!KnownBy(wakeEvent[c])'
                        /\ anchor'[c].transport = transport'[c]
                        /\ \A s \in Wake(K)!Connectors :
                               Wake(K)!Counts(anchor[c].evidence)'[s] \in {0, counted'[c][s]}
      BY DEF Wake!AnchorTruthful
    <3>1. anchor[c] # Wake(K)!NoAnchor
      BY <1>6
    <3>2. UNCHANGED <<wakeEvent[c], counted[c], transport[c], anchor[c]>>
      BY <2>1, <3>1
    <3> QED BY <1>7, <2>2, <3>1, <3>2, AnchorsKept
  <2> QED BY <1>0, <1>6, <2>4 DEF WakeInv, AnchorInv, Working
<1>13. FairInv(K)'
  <2>1. Seen(K)' = known
    BY <1>3, <1>6 DEF Seen, Wake!KnownBy
  <2>2. Wake(K)!Window(known)' = W
    BY <1>4, <1>6, SameOrder
  <2>3. Wake(K)!Balanced(W)' = rows
    BY <1>5, <1>6, SameOrder
  <2> QED BY <1>6, <2>1, <2>2, <2>3 DEF FairInv
<1> QED BY <1>9, <1>10, <1>11, <1>12, <1>13 DEF WakeInv

LEMMA StartBatchKeeps ==
  ASSUME NEW K, Wake(K)!WakeAssumption, WakeInv(K), Wake(K)!StartBatch
  PROVE  WakeInv(K)'
<1>0. phase = "anchor" /\ cycle \in Wake(K)!Cycles /\ reader["wake"].step = "off"
  BY DEF Wake!StartBatch, WakeInv, WakeType, ReaderInv
<1>1. /\ anchor' = [anchor EXCEPT ![cycle] = [cutoff |-> cut, evidence |-> chosen, transport |-> posture]]
      /\ phase' = "idle"
      /\ UNCHANGED <<published, now, raw, evidence, cursor, wakeEvent, counted, transport, reader,
                     cycle, wakeAt, posture, cut, chosen>>
  BY DEF Wake!StartBatch, Wake!world, Wake!records, Wake!cursors, Wake!source, Wake!attempt
<1>2. Grows(K)
  BY <1>1, SameGrows DEF WakeInv
<1>3. WakeType(K)'
  BY <1>1 DEF WakeInv, WakeType, Phases
<1>4. ReaderInv(K)'
  <2>1. published' \in Nat /\ published <= published'
    BY <1>1 DEF WakeInv, WakeType, Wake!WakeAssumption
  <2> QED BY <1>0, <1>1, <1>2, <2>1, ReaderKept
<1>5. FrozenInv(K)'
  BY <1>1 DEF WakeInv, FrozenInv
<1>6. AnchorInv(K)'
  <2>1. ASSUME NEW c \in Wake(K)!Cycles, anchor'[c] # Wake(K)!NoAnchor
        PROVE  /\ anchor'[c].cutoff = wakeEvent'[c]
               /\ anchor'[c].evidence \subseteq evidence' \cap Wake(K)!KnownBy(wakeEvent[c])'
               /\ anchor'[c].transport = transport'[c]
               /\ \A s \in Wake(K)!Connectors :
                      Wake(K)!Counts(anchor[c].evidence)'[s] \in {0, counted'[c][s]}
    <3>1. CASE c = cycle
      <4>1. anchor'[c].cutoff = cut /\ anchor'[c].evidence = chosen /\ anchor'[c].transport = posture
        BY <1>0, <1>1, <3>1 DEF WakeInv, WakeType
      <4>2. cut = wakeEvent[c] /\ Holds(K, c, chosen) /\ transport[c] = posture
        BY <1>0, <3>1 DEF WakeInv, FrozenInv
      <4>3. Wake(K)!KnownBy(wakeEvent[c])' = Wake(K)!KnownBy(wakeEvent[c])
        BY <1>1 DEF Wake!KnownBy
      <4>4. Wake(K)!Counts(anchor[c].evidence)' = Wake(K)!Counts(chosen)
        BY <4>1, SameCard DEF Wake!Counts
      <4> QED BY <1>1, <4>1, <4>2, <4>3, <4>4 DEF Holds
    <3>2. CASE c # cycle
      <4>1. UNCHANGED <<wakeEvent[c], counted[c], transport[c], anchor[c]>>
        BY <1>1, <3>2 DEF WakeInv, WakeType
      <4>2. evidence \subseteq evidence' /\ anchor[c] # Wake(K)!NoAnchor
        BY <1>1, <2>1, <4>1
      <4> QED BY <1>2, <4>1, <4>2, AnchorsKept
    <3> QED BY <3>1, <3>2
  <2>2. \A c \in Wake(K)!Cycles : c > cycle' => anchor'[c] = Wake(K)!NoAnchor
    <3>1. cycle \in Nat
      BY DEF WakeInv, WakeType, Wake!WakeAssumption
    <3>2. \A c \in Wake(K)!Cycles : c > cycle => c # cycle
      BY <3>1
    <3> QED BY <1>1, <3>2 DEF WakeInv, AnchorInv, WakeType
  <2> QED BY <1>1, <2>1, <2>2 DEF AnchorInv, Wake!AnchorTruthful, Working
<1>7. FairInv(K)'
  BY <1>1 DEF FairInv
<1> QED BY <1>3, <1>4, <1>5, <1>6, <1>7 DEF WakeInv

LEMMA CrashKeeps ==
  ASSUME NEW K, Wake(K)!WakeAssumption, WakeInv(K), Wake(K)!Crash
  PROVE  WakeInv(K)'
<1>0. Wake(K)!Off \in Readers(K)
  BY DEF Readers, Wake!Off, Wake!WakeAssumption
<1>1. /\ phase' = "down" /\ phase # "idle" /\ cut' = 0
      /\ reader' = [reader EXCEPT !["wake"] = Wake(K)!Off]
      /\ UNCHANGED <<published, now, raw, evidence, cursor, wakeEvent, counted, transport, anchor,
                     cycle, wakeAt>>
  BY DEF Wake!Crash, Wake!world, Wake!records, Wake!cursors, Wake!events
<1>2. Grows(K)
  BY <1>1, SameGrows DEF WakeInv
<1>3. WakeType(K)'
  <2>1. reader' \in [Wake(K)!Processes -> Readers(K)] /\ phase' \in Phases
    BY <1>0, <1>1 DEF WakeInv, WakeType, Phases
  <2>2. cut' \in 0..K.time
    BY <1>1 DEF Wake!WakeAssumption
  <2> QED BY <1>1, <2>1, <2>2 DEF WakeInv, WakeType
<1>4. ReaderInv(K)'
  <2>1. \A n \in 1..cursor' : Known(n)'
    BY <1>1 DEF WakeInv, ReaderInv, Known
  <2>2. \A q \in Wake(K)!Processes : ReaderOK(reader[q])'
    <3> SUFFICES ASSUME NEW q \in Wake(K)!Processes PROVE ReaderOK(reader[q])'
      OBVIOUS
    <3>1. CASE q = "wake"
      <4>1. reader'[q] = Wake(K)!Off /\ published' \in Nat
        BY <3>1, <1>1 DEF WakeInv, WakeType, Wake!WakeAssumption
      <4> QED BY <4>1 DEF ReaderOK, Wake!Off
    <3>2. CASE q # "wake"
      <4>1. reader'[q] = reader[q] /\ ReaderOK(reader[q])
        BY <1>1, <3>2 DEF WakeInv, WakeType, ReaderInv
      <4> QED BY <1>1, <4>1 DEF ReaderOK, Known
    <3> QED BY <3>1, <3>2
  <2>3. reader'["wake"].step = "off"
    BY <1>1 DEF WakeInv, WakeType, Wake!Processes, Wake!Off
  <2> QED BY <2>1, <2>2, <2>3 DEF ReaderInv
<1>5. FrozenInv(K)'
  BY <1>1 DEF WakeInv, FrozenInv
<1>6. AnchorInv(K)'
  <2>1. Wake(K)!AnchorTruthful'
    BY <1>1, <1>2, AnchorsKept DEF Wake!AnchorTruthful
  <2> QED BY <1>1, <2>1 DEF WakeInv, AnchorInv, Working
<1>7. FairInv(K)'
  BY <1>1 DEF FairInv
<1> QED BY <1>3, <1>4, <1>5, <1>6, <1>7 DEF WakeInv

\* The world goes on: more is published, time passes, a lock is lost.
LEMMA WorldKeeps ==
  ASSUME NEW K, Wake(K)!WakeAssumption, WakeInv(K), published' \in published..K.news,
         now' \in 1..K.time,
         UNCHANGED <<Wake(K)!records, Wake(K)!cursors, Wake(K)!events, reader, Wake(K)!wake>>
  PROVE  WakeInv(K)'
<1>0. published \in Nat /\ 1 <= published /\ K.news \in Nat
  BY DEF WakeInv, WakeType, Wake!WakeAssumption
<1>1. Grows(K)
  BY SameGrows DEF WakeInv, Wake!records
<1>2. FrozenInv(K)' /\ AnchorInv(K)' /\ FairInv(K)'
  BY <1>1, FrozenKept DEF Wake!records, Wake!events, Wake!wake, Wake!attempt
<1>3. WakeType(K)'
  <2>1. published' \in 1..K.news /\ cursor' \in 0..published'
    BY <1>0 DEF WakeInv, WakeType, Wake!cursors
  <2> QED BY <2>1 DEF WakeInv, WakeType, Wake!records, Wake!events, Wake!wake, Wake!attempt
<1>4. ReaderInv(K)'
  <2>1. published' \in Nat /\ published <= published'
    BY <1>0
  <2>2. reader["wake"].step # "off" => phase' = "finlight"
    BY DEF WakeInv, ReaderInv, Wake!wake
  <2> QED BY <1>1, <2>1, <2>2, ReaderKept DEF Wake!cursors
<1> QED BY <1>2, <1>3, <1>4 DEF WakeInv

LEMMA NextKeeps ==
  ASSUME NEW K, Wake(K)!WakeAssumption, WakeInv(K), Wake(K)!Next \/ UNCHANGED Wake(K)!vars
  PROVE  WakeInv(K)'
<1>0. published \in published..K.news /\ now \in 1..K.time /\ published \in Nat /\ now \in Nat
      /\ K.news \in Nat /\ K.time \in Nat
  BY DEF WakeInv, WakeType, Wake!WakeAssumption
<1>1. CASE \E p \in Wake(K)!Processes : Wake(K)!Reads(p)
  BY <1>1, ReadsKeep
<1>2. CASE Wake(K)!Polls
  BY <1>2, PollsKeep
<1>3. CASE Wake(K)!Wakes
  BY <1>3, BeginKeeps, RetryKeeps, QuietKeeps, FrozenKeeps, StartBatchKeeps DEF Wake!Wakes
<1>4. CASE Wake(K)!RivalLoads
  BY <1>4, StartKeeps DEF Wake!RivalLoads, Wake!Processes
<1>5. CASE Wake(K)!LockLost
  BY <1>0, <1>5, WorldKeeps DEF Wake!LockLost, Wake!world
<1>6. CASE Wake(K)!Publish
  <2>1. published' \in published..K.news
    BY <1>0, <1>6 DEF Wake!Publish
  <2> QED BY <1>0, <1>6, <2>1, WorldKeeps DEF Wake!Publish, Wake!source
<1>7. CASE Wake(K)!Tick
  <2>1. now' \in 1..K.time
    BY <1>0, <1>7 DEF Wake!Tick
  <2> QED BY <1>0, <1>7, <2>1, WorldKeeps DEF Wake!Tick, Wake!source
<1>8. CASE \E s \in Wake(K)!Connectors : Wake(K)!CooldownEnds(s)
  BY <1>0, <1>8, WorldKeeps DEF Wake!CooldownEnds, Wake!world, Wake!source
<1>9. CASE UNCHANGED Wake(K)!vars
  BY <1>0, <1>9, WorldKeeps DEF Wake!vars, Wake!world, Wake!source
<1> QED BY <1>1, <1>2, <1>3, <1>4, <1>5, <1>6, <1>7, <1>8, <1>9, QuietKeeps, CrashKeeps
           DEF Wake!Next, Wake!BoundReached

LEMMA InitHolds ==
  ASSUME NEW K, Wake(K)!WakeAssumption, Wake(K)!Init
  PROVE  WakeInv(K)
<1>0. Wake(K)!Off \in Readers(K) /\ K.news \in Nat /\ K.news >= 1 /\ K.time \in Nat
      /\ K.time >= 1 /\ K.cycles \in Nat
  BY DEF Readers, Wake!Off, Wake!WakeAssumption
<1>1. WakeType(K)
  BY <1>0 DEF Wake!Init, WakeType, Phases
<1>2. ReaderInv(K)
  <2>1. \A p \in Wake(K)!Processes : reader[p] = Wake(K)!Off
    BY DEF Wake!Init
  <2>2. ReaderOK(Wake(K)!Off)
    BY <1>0 DEF ReaderOK, Wake!Off, Wake!Init
  <2>3. reader["wake"].step = "off"
    BY <2>1 DEF Wake!Processes, Wake!Off
  <2>4. \A n \in 1..cursor : Known(n)
    BY DEF Wake!Init
  <2> QED BY <2>1, <2>2, <2>3, <2>4 DEF ReaderInv
<1>3. FrozenInv(K)
  BY DEF Wake!Init, FrozenInv
<1>4. \A c \in Wake(K)!Cycles : anchor[c] = Wake(K)!NoAnchor
  BY DEF Wake!Init
<1>5. AnchorInv(K)
  BY <1>4 DEF Wake!Init, AnchorInv, Wake!AnchorTruthful, Working
<1>6. FairInv(K)
  BY DEF Wake!Init, FairInv
<1> QED BY <1>1, <1>2, <1>3, <1>5, <1>6 DEF WakeInv

LEMMA InvTruthful ==
  ASSUME NEW K, Wake(K)!WakeAssumption, WakeInv(K)
  PROVE  Wake(K)!WakeTruthful
<1>1. Wake(K)!NothingSkipped
  BY DEF WakeInv, ReaderInv, Wake!NothingSkipped, Known
<1>2. Wake(K)!FairShare
  <2> SUFFICES ASSUME phase = "context",
                      NEW i \in Wake(K)!Window(Wake(K)!KnownBy(cut) \cap evidence) \ chosen,
         NEW j \in chosen
               PROVE  Wake(K)!Counts(chosen)[j[1]] <= Wake(K)!Counts(chosen)[i[1]] + 1
    BY DEF Wake!FairShare
  <2>1. PICK S \in SUBSET Wake(K)!Items, W \in SUBSET Wake(K)!Items : S = Seen(K)
        /\ W = Wake(K)!Window(S) /\ chosen = Wake(K)!Balanced(W)
    BY DEF WakeInv, FairInv
  <2>2. i \in W \ Wake(K)!Balanced(W) /\ j \in Wake(K)!Balanced(W)
    BY <2>1 DEF Seen
  <2>3. raw \in [Wake(K)!Items -> 0..K.time]
    BY DEF WakeInv, WakeType
  <2> QED BY <2>1, <2>2, <2>3, FairChoice
<1> QED BY <1>1, <1>2 DEF Wake!WakeTruthful, WakeInv, AnchorInv

-----------------------------------------------------------------------------
(***************************************************************************)
(* The run: one of the two instances, or another system beside it.         *)
(***************************************************************************)
WakesInv ==
  /\ InOneWake => WakeInv(OneWake)
  /\ InTwoWakes => WakeInv(TwoWakes)

LEMMA WakesInit ==
  ASSUME TrafficInit
  PROVE  WakesInv
<1>1. InOneWake => Wake(OneWake)!Init
  BY DEF TrafficInit, InOneWake
<1>2. InTwoWakes => Wake(TwoWakes)!Init
  BY DEF TrafficInit, InTwoWakes
<1> QED BY <1>1, <1>2, WakeBounds, InitHolds DEF WakesInv

LEMMA WakesStutter ==
  ASSUME NEW K, UNCHANGED wakeVars
  PROVE  UNCHANGED Wake(K)!vars
BY DEF wakeVars, Wake!vars, Wake!world, Wake!records, Wake!cursors, Wake!events, Wake!source,
       Wake!wake, Wake!attempt, Wake!limits

\* A step is one of the instance that runs, or leaves what the wakes keep.
LEMMA WakesStep ==
  ASSUME TrafficNext \/ UNCHANGED trafficVars
  PROVE  /\ system' = system
         /\ InOneWake => Wake(OneWake)!Next \/ UNCHANGED Wake(OneWake)!vars
         /\ InTwoWakes => Wake(TwoWakes)!Next \/ UNCHANGED Wake(TwoWakes)!vars
<1>1. CASE UNCHANGED trafficVars
  BY <1>1, WakesStutter DEF trafficVars, wakeVars
<1>2. CASE TrafficNext
  <2>1. CASE UNCHANGED wakeVars
    BY <1>2, <2>1, WakesStutter DEF TrafficNext
  <2>2. CASE ~UNCHANGED wakeVars
    BY <1>2, <2>2 DEF TrafficNext, InOneWake, InTwoWakes
  <2> QED BY <2>1, <2>2
<1> QED BY <1>1, <1>2

LEMMA WakesNext ==
  ASSUME WakesInv, [TrafficNext]_trafficVars
  PROVE  WakesInv'
<1>1. InOneWake' => WakeInv(OneWake)'
  BY WakesStep, WakeBounds, NextKeeps DEF WakesInv, InOneWake
<1>2. InTwoWakes' => WakeInv(TwoWakes)'
  BY WakesStep, WakeBounds, NextKeeps DEF WakesInv, InTwoWakes
<1> QED BY <1>1, <1>2 DEF WakesInv

\* The invariant of the wakes holds whatever the other systems do.
THEOREM WakesInvariant == TrafficSafety => []WakesInv
<1>1. TrafficInit => WakesInv
  BY WakesInit
<1>2. WakesInv /\ [TrafficNext]_trafficVars => WakesInv'
  BY WakesNext
<1> QED BY <1>1, <1>2, PTL DEF TrafficSafety

\* A wake is truthful about its sources, for pages of any size, any number of
\* records, cycles and faults, and any limit of rows: whoever polls with
\* a cursor of whatever age, loses its lock or dies, the cursor passes no record
\* that was not stored (finlight.py); an anchor holds what was known at the one
\* cutoff of its cycle and the postures its events record; of two sources whose
\* rows compete, none gets two more than the other while rows of the other are
\* left out (live_source_flow.py).
THEOREM WakesStayTruthful == TrafficSpec => []WakeTruthful
<1>1. WakesInv => WakeTruthful
  BY WakeBounds, InvTruthful DEF WakesInv, WakeTruthful
<1> QED BY <1>1, WakesInvariant, PTL DEF TrafficSpec
===============================================================================
