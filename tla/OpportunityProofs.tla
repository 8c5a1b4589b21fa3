-------------------------- MODULE OpportunityProofs --------------------------
(***************************************************************************)
(* Proofs about the opportunities of the research process: that the desk,  *)
(* which makes them of candidates, refreshes, reviews and ranks them, and  *)
(* the agenda, which has the wakes look into their open questions, stay    *)
(* truthful and do no work twice, for any numbers of cycles, candidates,   *)
(* attempts and pieces of evidence and for any questions and limits.       *)
(* MCResearch names the parameters of a desk in a record K, so each lemma  *)
(* is of every K that DeskAssumption admits.  Two inductive invariants     *)
(* carry the proofs: DeskInv, of the desk, and AgendaInv, of the wakes.    *)
(***************************************************************************)
EXTENDS MCResearch, FiniteSetTheorems, SequenceTheorems, WellFoundedInduction, TLAPS

-----------------------------------------------------------------------------
(***************************************************************************)
(* The desk.                                                               *)
(***************************************************************************)
\* Every nonempty set of naturals has a least element.
LEMMA Least ==
  ASSUME NEW T, T \subseteq Nat, T # {}
  PROVE  \E x \in T : \A y \in T : x <= y
<1> DEFINE R == OpToRel(<, Nat)
<1>1. IsWellFoundedOn(R, Nat) BY NatLessThanWellFounded
<1>2. \A x, y \in Nat : <<y, x>> \in R <=> y < x BY DEF OpToRel
<1> HIDE DEF R
<1>3. PICK x \in T : \A y \in T : ~ (<<y, x>> \in R) BY <1>1, WFMin
<1>4. ASSUME NEW y \in T PROVE x <= y
  <2>1. ~ (<<y, x>> \in R) BY <1>3, Zenon
  <2>2. x \in Nat /\ y \in Nat OBVIOUS
  <2>3. ~ (y < x) BY <1>2, <2>1, <2>2, Zenon
  <2> QED BY <2>2, <2>3
<1> QED BY <1>4

\* So a measure is least somewhere.
LEMMA LeastOf ==
  ASSUME NEW T, T # {}, NEW f, \A x \in T : f[x] \in Nat
  PROVE  \E x \in T : \A y \in T : f[x] <= f[y]
<1>1. \E n \in {f[x] : x \in T} : \A m \in {f[x] : x \in T} : n <= m
  <2>1. {f[x] : x \in T} \subseteq Nat /\ {f[x] : x \in T} # {} OBVIOUS
  <2> QED BY <2>1, Least
<1> QED BY <1>1

\* A candidate is a cycle and a number.
LEMMA CandIs ==
  ASSUME NEW K, Desk(K)!DeskAssumption, NEW c \in Desk(K)!Cand
  PROVE  /\ c = <<c[1], c[2]>> /\ c[1] \in 1..K.cycles /\ c[2] \in 1..K.slots[c[1]]
         /\ c[1] \in Nat /\ c[2] \in Nat /\ K.slots[c[1]] \in Nat
<1>1. PICK k \in 1..K.cycles : c \in {k} \X (1..K.slots[k]) BY DEF Desk!Cand
<1>2. K.cycles \in Nat /\ K.slots[k] \in Nat BY DEF Desk!DeskAssumption
<1> QED BY <1>1, <1>2

-----------------------------------------------------------------------------
\* Groups: a group is closed, and the least closed set that holds its candidate.
LEMMA GroupIs ==
  ASSUME NEW K, NEW c \in Desk(K)!Batch
  PROVE  /\ Desk(K)!Group(c) \subseteq Desk(K)!Batch /\ c \in Desk(K)!Group(c)
         /\ \A x \in Desk(K)!Group(c), y \in Desk(K)!Batch : Desk(K)!Alike(x, y) => y \in Desk(K)!Group(c)
BY DEF Desk!Group

LEMMA GroupLeast ==
  ASSUME NEW K, NEW S \in SUBSET Desk(K)!Batch, NEW c \in S,
         \A x \in S, y \in Desk(K)!Batch : Desk(K)!Alike(x, y) => y \in S
  PROVE  Desk(K)!Group(c) \subseteq S
BY DEF Desk!Group

\* Who is in a group has the same one.
LEMMA GroupBack ==
  ASSUME NEW K, NEW c \in Desk(K)!Batch, NEW d \in Desk(K)!Group(c)
  PROVE  c \in Desk(K)!Group(d)
<1> DEFINE S == {y \in Desk(K)!Batch : c \in Desk(K)!Group(y)}
<1>1. c \in S BY GroupIs
<1>2. ASSUME NEW x \in S, NEW y \in Desk(K)!Batch, Desk(K)!Alike(x, y) PROVE y \in S
  <2>1. x \in Desk(K)!Group(y)
    <3>1. Desk(K)!Alike(y, x) BY <1>2 DEF Desk!Alike
    <3> QED BY <3>1, GroupIs
  <2>2. Desk(K)!Group(x) \subseteq Desk(K)!Group(y)
    <3>1. Desk(K)!Group(y) \in SUBSET Desk(K)!Batch BY GroupIs
    <3> QED BY <2>1, <3>1, GroupIs, GroupLeast
  <2> QED BY <2>2
<1>3. S \in SUBSET Desk(K)!Batch OBVIOUS
<1>4. Desk(K)!Group(c) \subseteq S
  <2> HIDE DEF S
  <2> QED BY <1>1, <1>2, <1>3, GroupLeast
<1> QED BY <1>4

LEMMA GroupChain ==
  ASSUME NEW K, NEW c \in Desk(K)!Batch, NEW d \in Desk(K)!Group(c)
  PROVE  Desk(K)!Group(d) \subseteq Desk(K)!Group(c)
<1>1. Desk(K)!Group(c) \in SUBSET Desk(K)!Batch BY GroupIs
<1> QED BY <1>1, GroupIs, GroupLeast

\* No two anchors tell a common story.
LEMMA OneAnchor ==
  ASSUME NEW K, Desk(K)!DeskAssumption, NEW c \in Desk(K)!Anchors, NEW d \in Desk(K)!Anchors,
         NEW x \in Desk(K)!Group(c), x \in Desk(K)!Group(d) \/ Desk(K)!Alike(x, d)
  PROVE  c = d
<1>1. c \in Desk(K)!Batch /\ d \in Desk(K)!Batch /\ Desk(K)!Batch \subseteq Desk(K)!Cand
  BY DEF Desk!Anchors, Desk!Batch
<1>2. d \in Desk(K)!Group(c)
  <2>1. CASE x \in Desk(K)!Group(d)
    <3>1. d \in Desk(K)!Group(x) BY <1>1, <2>1, GroupBack
    <3> QED BY <1>1, <3>1, GroupChain
  <2>2. CASE Desk(K)!Alike(x, d) BY <1>1, <2>2, GroupIs
  <2> QED BY <2>1, <2>2
<1>3. c \in Desk(K)!Group(d) BY <1>1, <1>2, GroupBack
<1>4. c[2] <= d[2] /\ d[2] <= c[2] BY <1>2, <1>3 DEF Desk!Anchors
<1>5. c[1] = d[1] BY DEF Desk!Anchors, Desk!Batch
<1>6. c = <<c[1], c[2]>> /\ d = <<d[1], d[2]>> /\ c[2] \in Nat /\ d[2] \in Nat BY <1>1, CandIs
<1> QED BY <1>4, <1>5, <1>6

\* What is found later joins stories, and never makes an anchor of who was none.
LEMMA GroupsGrow ==
  ASSUME NEW K, Desk(K)!Batch \subseteq Desk(K)!Batch', \A c \in Desk(K)!Batch : candidate'[c] = candidate[c]
  PROVE  /\ \A c \in Desk(K)!Batch : Desk(K)!Group(c) \subseteq Desk(K)!Group(c)'
         /\ Desk(K)!Anchors' \cap Desk(K)!Batch \subseteq Desk(K)!Anchors
<1>1. ASSUME NEW c \in Desk(K)!Batch, NEW d \in Desk(K)!Group(c) PROVE d \in Desk(K)!Group(c)'
  <2>1. d \in Desk(K)!Batch BY GroupIs
  <2> SUFFICES ASSUME NEW S \in SUBSET Desk(K)!Batch', c \in S,
                      \A x \in S, y \in Desk(K)!Batch' : Desk(K)!Alike(x, y)' => y \in S
               PROVE  d \in S
    BY <2>1 DEF Desk!Group
  <2>2. \A x, y \in Desk(K)!Batch : Desk(K)!Alike(x, y)' <=> Desk(K)!Alike(x, y) BY DEF Desk!Alike
  <2>3. Desk(K)!Group(c) \subseteq S \cap Desk(K)!Batch BY <2>2, GroupLeast
  <2> QED BY <2>3
<1> QED BY <1>1 DEF Desk!Anchors

-----------------------------------------------------------------------------
\* The registry: what is said of rows R, events E and drafts ds, those of the
\* tables and those of a transaction that is under way alike.
Fields == {"state", "status", "parent", "exact", "structural", "evidence", "snap", "known"}
IsRow(r) ==
  /\ r = [f \in Fields |-> r[f]]
  /\ r.state \in {"none", "active", "merged"} /\ r.known \in 0..day
\* Row p tells the story of candidate x.
Says(R, p, x) == R[p].exact = candidate[x].exact /\ R[p].structural = candidate[x].structural
Taken(ds, c) == \E i \in DOMAIN ds : ds[i].id = c
\* Anchor c counts as a refreshed p.
Stands(R, E, c, p) == R[c].state = "merged" /\ E[c] = "refreshed" /\ R[c].parent = p

RowsType(K, R, E) ==
  /\ R = [c \in Desk(K)!Cand |-> R[c]] /\ E = [c \in Desk(K)!Cand |-> E[c]]
  /\ \A c \in Desk(K)!Cand : IsRow(R[c])
MergedInv(K, R, E) ==
  \A c \in Desk(K)!Cand : R[c].state = "merged" =>
    /\ R[c].status = "rejected" /\ E[c] # "none"
    /\ R[c].parent \in Desk(K)!Cand \ Desk(K)!Anchors /\ R[R[c].parent].state = "active"
    /\ c \in Desk(K)!Batch /\ E[c] = "refreshed" => \E x \in Desk(K)!Group(c) : Says(R, R[c].parent, x)
AnchorInv(K, R) == \A c \in Desk(K)!Anchors : R[c].state = "active" => Says(R, c, c)
\* An opportunity that was reviewed by itself, or opened, is never merged away.
Settled(K, ds, c) == c \in Desk(K)!Anchors /\ (held[c].cycle # 0 \/ Taken(ds, c))
SettledInv(K, R, ds) ==
  \A c \in Desk(K)!Cand : Settled(K, ds, c) =>
    R[c].state = "active" /\ Desk(K)!Parents(R, Desk(K)!Own(c)) = {}
RowsInv(K, R, E, ds) == RowsType(K, R, E) /\ MergedInv(K, R, E) /\ AnchorInv(K, R) /\ SettledInv(K, R, ds)
DraftInv(K, R, E, d) ==
  /\ d.id \in Desk(K)!Cand /\ R[d.id].state = "active"
  /\ d.id \in Desk(K)!Anchors => d.snap = Desk(K)!Own(d.id).snap
  /\ d.id \notin Desk(K)!Anchors =>
       d.snap = R[d.id].snap /\ \E c \in Desk(K)!Anchors : Stands(R, E, c, d.id)
DraftsInv(K, R, E, ds) == (\E S : ds \in Seq(S)) /\ \A i \in DOMAIN ds : DraftInv(K, R, E, ds[i])

LEMMA AnchorsIn ==
  ASSUME NEW K
  PROVE  Desk(K)!Anchors \subseteq Desk(K)!Batch /\ Desk(K)!Batch \subseteq Desk(K)!Cand
BY DEF Desk!Anchors, Desk!Batch

LEMMA OwnIs ==
  ASSUME NEW K, NEW c
  PROVE  /\ Desk(K)!Own(c).id = c /\ Desk(K)!Own(c).exact = candidate[c].exact
         /\ Desk(K)!Own(c).structural = candidate[c].structural
         /\ Desk(K)!Own(c).snap = <<Desk(K)!Group(c)>>
BY DEF Desk!Own

\* What may be a parent of an opportunity: who is live and tells its story.
LEMMA ParentsAre ==
  ASSUME NEW K, NEW R, NEW c, NEW p
  PROVE  p \in Desk(K)!Parents(R, Desk(K)!Own(c)) <=>
           /\ p \in Desk(K)!Cand \ Desk(K)!Anchors /\ R[p].state = "active" /\ R[p].status \in Desk(K)!Live
           /\ R[p].exact = candidate[c].exact \/ R[p].structural = candidate[c].structural
BY OwnIs DEF Desk!Parents

\* Among the parents there is a first one.
LEMMA ParentIn ==
  ASSUME NEW K, Desk(K)!DeskAssumption, NEW R, \A p \in Desk(K)!Cand : R[p].known \in 0..day, day \in Nat,
         NEW d, Desk(K)!Parents(R, d) # {}
  PROVE  Desk(K)!Parent(R, d) \in Desk(K)!Parents(R, d)
<1> DEFINE P == Desk(K)!Parents(R, d)
           e == [p \in P |-> IF R[p].exact = d.exact THEN 0 ELSE 1]
           k == [p \in P |-> day - R[p].known]
           a == [p \in P |-> p[1]]
           b == [p \in P |-> p[2]]
<1>1. \A p \in P : p \in Desk(K)!Cand BY DEF Desk!Parents
<1>2. \A p \in P : e[p] \in Nat /\ k[p] \in Nat /\ a[p] \in Nat /\ b[p] \in Nat
  <2>1. \A p \in P : p[1] \in Nat /\ p[2] \in Nat BY <1>1, CandIs
  <2>2. \A p \in P : R[p].known \in 0..day BY <1>1
  <2> QED BY <2>1, <2>2
<1> DEFINE P1 == {p \in P : \A q \in P : e[p] <= e[q]}
           P2 == {p \in P1 : \A q \in P1 : k[p] <= k[q]}
           P3 == {p \in P2 : \A q \in P2 : a[p] <= a[q]}
<1>a. P # {} OBVIOUS
<1>e. \A p \in P : e[p] = (IF R[p].exact = d.exact THEN 0 ELSE 1) /\ k[p] = day - R[p].known
                   /\ a[p] = p[1] /\ b[p] = p[2]
  OBVIOUS
<1> HIDE DEF P, e, k, a, b
<1>3. P1 # {}
  <2>1. \E p \in P : \A q \in P : e[p] <= e[q] BY <1>2, <1>a, LeastOf
  <2> QED BY <2>1
<1>4. P2 # {}
  <2>1. \A p \in P1 : k[p] \in Nat BY <1>2
  <2> HIDE DEF P1
  <2>2. \E p \in P1 : \A q \in P1 : k[p] <= k[q] BY <1>3, <2>1, LeastOf
  <2> QED BY <2>2
<1>5. P3 # {}
  <2>1. \A p \in P2 : a[p] \in Nat BY <1>2
  <2> HIDE DEF P2
  <2>2. \E p \in P2 : \A q \in P2 : a[p] <= a[q] BY <1>4, <2>1, LeastOf
  <2> QED BY <2>2
<1>6. PICK p \in P3 : \A q \in P3 : b[p] <= b[q]
  <2>1. \A p \in P3 : b[p] \in Nat BY <1>2
  <2> HIDE DEF P3
  <2> QED BY <1>5, <2>1, LeastOf
<1>7. p \in P BY <1>6
<1>8. ASSUME NEW q \in P, q # p PROVE Desk(K)!Before(R, d, p, q)
  <2>1. e[p] <= e[q] BY <1>6, <1>8
  <2>2. e[p] = e[q] => k[p] <= k[q]
    <3>1. e[p] = e[q] => q \in P1 BY <1>6, <1>8
    <3> QED BY <1>6, <3>1
  <2>3. e[p] = e[q] /\ k[p] = k[q] => a[p] <= a[q]
    <3>1. e[p] = e[q] /\ k[p] = k[q] => q \in P2 BY <1>6, <1>8
    <3> QED BY <1>6, <3>1
  <2>4. e[p] = e[q] /\ k[p] = k[q] /\ a[p] = a[q] => b[p] <= b[q]
    <3>1. e[p] = e[q] /\ k[p] = k[q] /\ a[p] = a[q] => q \in P3 BY <1>6, <1>8
    <3> QED BY <1>6, <3>1
  <2>5. ~(a[p] = a[q] /\ b[p] = b[q])
    <3>1. p = <<p[1], p[2]>> /\ q = <<q[1], q[2]>> BY <1>1, <1>7, <1>8, CandIs DEF P
    <3> QED BY <1>7, <1>8, <1>e, <3>1
  <2>6. R[p].known \in Nat /\ R[q].known \in Nat BY <1>1, <1>7, <1>8 DEF P
  <2> DEFINE ep == e[p]
             eq == e[q]
             kp == k[p]
             kq == k[q]
             ap == a[p]
             aq == a[q]
             bp == b[p]
             bq == b[q]
  <2>7. \/ ep < eq
        \/ ep = eq /\ kp < kq
        \/ ep = eq /\ kp = kq /\ ap < aq
        \/ ep = eq /\ kp = kq /\ ap = aq /\ bp < bq
    <3>1. {ep, eq, kp, kq, ap, aq, bp, bq} \subseteq Nat BY <1>2, <1>7, <1>8
    <3> HIDE DEF ep, eq, kp, kq, ap, aq, bp, bq
    <3>2. ep <= eq /\ (ep = eq => kp <= kq) /\ (ep = eq /\ kp = kq => ap <= aq)
          /\ (ep = eq /\ kp = kq /\ ap = aq => bp <= bq) /\ ~(ap = aq /\ bp = bq)
      BY <2>1, <2>2, <2>3, <2>4, <2>5 DEF ep, eq, kp, kq, ap, aq, bp, bq
    <3> QED BY <3>1, <3>2
  <2>8. kp < kq <=> R[p].known > R[q].known BY <1>7, <1>8, <1>e, <2>6
  <2>9. kp = kq <=> R[p].known = R[q].known BY <1>7, <1>8, <1>e, <2>6
  <2> QED BY <1>7, <1>8, <1>e, <2>7, <2>8, <2>9 DEF Desk!Before
<1> QED BY <1>7, <1>8 DEF P, Desk!Parent

-----------------------------------------------------------------------------
\* What a merge of c into p makes of the rows and events.
MergesInto(K, R, E, c, p, R2, E2) ==
  /\ R2 = [q \in Desk(K)!Cand |-> R2[q]] /\ E2 = [q \in Desk(K)!Cand |-> E2[q]]
  /\ \A q \in Desk(K)!Cand \ {c} : E2[q] = E[q]
  /\ E2[c] \in {"suppressed", "position_updated", "refreshed"}
  /\ IsRow(R2[c]) /\ R2[c].state = "merged" /\ R2[c].parent = p /\ R2[c].status = "rejected"
  /\ \A q \in Desk(K)!Cand \ {c, p} : R2[q] = R[q]
  /\ IsRow(R2[p]) /\ R2[p].state = R[p].state
  /\ R2[p] = R[p] \/ Says(R2, p, c)
  /\ E2[c] = "refreshed" => Says(R2, p, c)
Acc(acc) == acc = [rows |-> acc.rows, events |-> acc.events, drafts |-> acc.drafts]

LEMMA CanonicalIs ==
  ASSUME NEW K, NEW c, NEW p, NEW row
  PROVE  /\ Desk(K)!CanonicalDraft(Desk(K)!Own(c), p, row).id = p
         /\ Desk(K)!CanonicalDraft(Desk(K)!Own(c), p, row).snap = row.snap
         /\ \A r : r.snap = row.snap /\ r.evidence = row.evidence =>
              Desk(K)!CanonicalDraft(Desk(K)!Own(c), p, r) = Desk(K)!CanonicalDraft(Desk(K)!Own(c), p, row)
BY DEF Desk!CanonicalDraft, Desk!Own

LEMMA MergeIs ==
  ASSUME NEW K, NEW acc, RowsType(K, acc.rows, acc.events), day \in Nat,
         NEW c \in Desk(K)!Cand, NEW p \in Desk(K)!Cand, p # c,
         NEW m, m = Desk(K)!Merge(acc, Desk(K)!Own(c), p)
  PROVE  /\ Acc(m) /\ MergesInto(K, acc.rows, acc.events, c, p, m.rows, m.events)
         /\ m.drafts = IF m.events[c] = "refreshed"
                       THEN Append(acc.drafts, Desk(K)!CanonicalDraft(Desk(K)!Own(c), p, m.rows[p]))
                       ELSE acc.drafts
<1> DEFINE R == acc.rows
           row == R[p]
           d == Desk(K)!Own(c)
           news == ~(Desk(K)!Range(d.evidence) \subseteq Desk(K)!SeenContent(acc.rows, p))
           action == IF ~news THEN "suppressed"
                     ELSE IF row.status = "shadow" THEN "position_updated" ELSE "refreshed"
           gone == [acc.rows EXCEPT ![d.id].state = "merged", ![d.id].parent = p, ![d.id].status = "rejected"]
           rows == IF news THEN [gone EXCEPT ![p] = Desk(K)!Refreshed(@, d)] ELSE gone
           events == [acc.events EXCEPT ![d.id] = action]
<1>1. m = [rows |-> rows, events |-> events,
           drafts |-> IF action = "refreshed" THEN Append(acc.drafts, Desk(K)!CanonicalDraft(d, p, rows[p]))
                                              ELSE acc.drafts]
  BY DEF Desk!Merge
<1>2. d.id = c /\ d.exact = candidate[c].exact /\ d.structural = candidate[c].structural BY OwnIs
<1> HIDE DEF d, news
<1>3. R = [q \in Desk(K)!Cand |-> R[q]] /\ acc.events = [q \in Desk(K)!Cand |-> acc.events[q]]
  BY DEF RowsType
<1>4. IsRow(R[c]) /\ IsRow(R[p]) BY DEF RowsType
<1>5. gone = [q \in Desk(K)!Cand |-> gone[q]] /\ \A q \in Desk(K)!Cand \ {c} : gone[q] = R[q]
  BY <1>2, <1>3
<1>6. gone[c] = [R[c] EXCEPT !.state = "merged", !.parent = p, !.status = "rejected"]
  BY <1>2, <1>3
<1>7. IsRow(gone[c]) /\ gone[c].state = "merged" /\ gone[c].parent = p /\ gone[c].status = "rejected"
  <2> HIDE DEF gone
  <2> QED BY <1>4, <1>6 DEF IsRow, Fields
<1>8. /\ IsRow(Desk(K)!Refreshed(R[p], d)) /\ Desk(K)!Refreshed(R[p], d).state = R[p].state
      /\ Desk(K)!Refreshed(R[p], d).exact = d.exact /\ Desk(K)!Refreshed(R[p], d).structural = d.structural
  <2> DEFINE r == R[p]
             s == IF r.status = "shadow" THEN "shadow" ELSE "forming"
             v == Desk(K)!BoundedByContent(d.evidence \o r.evidence)
             h == r.snap \o d.snap
  <2>1. Desk(K)!Refreshed(r, d) = [r EXCEPT !.status = s, !.exact = d.exact, !.structural = d.structural,
                                            !.known = day, !.evidence = v, !.snap = h]
    BY DEF Desk!Refreshed
  <2>2. IsRow(r) BY <1>4
  <2> HIDE DEF r, s, v, h
  <2>3. /\ IsRow(Desk(K)!Refreshed(r, d)) /\ Desk(K)!Refreshed(r, d).state = r.state
        /\ Desk(K)!Refreshed(r, d).exact = d.exact /\ Desk(K)!Refreshed(r, d).structural = d.structural
    <3> DEFINE e == Desk(K)!Refreshed(r, d)
    <3>1. e = [f \in Fields |-> e[f]] BY <2>1, <2>2 DEF IsRow
    <3>2. e.exact = d.exact /\ e.structural = d.structural /\ e.known = day /\ e.state = r.state
      BY <2>1, <2>2 DEF IsRow, Fields
    <3>3. day \in 0..day OBVIOUS
    <3> QED BY <2>2, <3>1, <3>2, <3>3 DEF IsRow
  <2> QED BY <2>3 DEF r
<1>9. events = [q \in Desk(K)!Cand |-> events[q]] /\ events[c] = action
      /\ \A q \in Desk(K)!Cand \ {c} : events[q] = acc.events[q]
  BY <1>2, <1>3
<1>10. rows = [q \in Desk(K)!Cand |-> rows[q]] /\ \A q \in Desk(K)!Cand \ {p} : rows[q] = gone[q]
  <2> HIDE DEF gone
  <2> QED BY <1>5
<1>11. rows[p] = IF news THEN Desk(K)!Refreshed(R[p], d) ELSE R[p]
  <2> HIDE DEF gone
  <2> QED BY <1>5
<1>12. action \in {"suppressed", "position_updated", "refreshed"} /\ (action = "refreshed" => news)
  OBVIOUS
<1>13. rows[p] = R[p] \/ Says(rows, p, c) BY <1>2, <1>8, <1>11 DEF Says
<1>14. action = "refreshed" => Says(rows, p, c) BY <1>2, <1>8, <1>11, <1>12 DEF Says
<1>15. IsRow(rows[p]) /\ rows[p].state = R[p].state BY <1>4, <1>8, <1>11
<1>16. rows[c] = gone[c] BY <1>10
<1>17. MergesInto(K, R, acc.events, c, p, rows, events)
  <2> HIDE DEF gone, rows, events, action
  <2> QED BY <1>5, <1>7, <1>9, <1>10, <1>12, <1>13, <1>14, <1>15, <1>16 DEF MergesInto
<1> HIDE DEF gone, rows, events, action
<1>18. m.rows = rows /\ m.events = events
       /\ m.drafts = IF action = "refreshed" THEN Append(acc.drafts, Desk(K)!CanonicalDraft(d, p, rows[p]))
                                             ELSE acc.drafts
  BY <1>1
<1>19. Acc(m) BY <1>1, <1>18 DEF Acc
<1> QED BY <1>9, <1>17, <1>18, <1>19 DEF d

\* Whatever is merged leaves the registry as it should be: an anchor with a
\* parent is not settled, and nobody else's story comes near it.
LEMMA MergeKeeps ==
  ASSUME NEW K, Desk(K)!DeskAssumption, NEW R, NEW E, NEW ds, RowsInv(K, R, E, ds), DraftsInv(K, R, E, ds),
         NEW c \in Desk(K)!Anchors, R[c].state = "active",
         NEW p \in Desk(K)!Parents(R, Desk(K)!Own(c)),
         NEW R2, NEW E2, MergesInto(K, R, E, c, p, R2, E2)
  PROVE  /\ RowsInv(K, R2, E2, ds) /\ DraftsInv(K, R2, E2, ds)
         /\ \A x \in Desk(K)!Anchors : \A q : Stands(R, E, x, q) => q # p
<1>c. c \in Desk(K)!Cand /\ c \in Desk(K)!Batch BY AnchorsIn
<1>p. /\ p \in Desk(K)!Cand \ Desk(K)!Anchors /\ R[p].state = "active" /\ p # c
      /\ R[p].exact = candidate[c].exact \/ R[p].structural = candidate[c].structural
  BY ParentsAre
<1>1. ~Settled(K, ds, c) BY <1>c DEF RowsInv, SettledInv
<1>2. RowsType(K, R2, E2)
  <2>1. \A q \in Desk(K)!Cand : IsRow(R2[q]) BY DEF RowsInv, RowsType, MergesInto
  <2> QED BY <2>1 DEF RowsType, MergesInto
<1>3. \A q \in Desk(K)!Cand : q # c => R2[q].state = R[q].state BY DEF MergesInto
<1>4. \A q \in Desk(K)!Anchors : q # c => R2[q] = R[q] /\ E2[q] = E[q]
  BY <1>p, AnchorsIn DEF MergesInto
\* Who tells the story of c belongs to its group.
<1>5. \A q \in Desk(K)!Cand : \A x : Says(R, p, x) => Desk(K)!Alike(x, c)
  BY <1>p DEF Says, Desk!Alike
<1>6. ASSUME NEW x \in Desk(K)!Anchors, Stands(R, E, x, p) PROVE FALSE
  <2>1. x \in Desk(K)!Cand /\ x \in Desk(K)!Batch BY AnchorsIn
  <2>2. PICK y \in Desk(K)!Group(x) : Says(R, p, y)
    BY <1>6, <2>1 DEF RowsInv, MergedInv, Stands
  <2>3. x = c BY <1>5, <1>c, <2>2, OneAnchor
  <2> QED BY <1>6, <2>3 DEF Stands
<1>7. MergedInv(K, R2, E2)
  <2> SUFFICES ASSUME NEW q \in Desk(K)!Cand, R2[q].state = "merged"
               PROVE  /\ R2[q].status = "rejected" /\ E2[q] # "none"
                      /\ R2[q].parent \in Desk(K)!Cand \ Desk(K)!Anchors /\ R2[R2[q].parent].state = "active"
                      /\ q \in Desk(K)!Batch /\ E2[q] = "refreshed" =>
                           \E x \in Desk(K)!Group(q) : Says(R2, R2[q].parent, x)
    BY DEF MergedInv
  <2>1. CASE q = c
    <3>1. c \in Desk(K)!Group(c) BY <1>c, GroupIs
    <3> QED BY <1>p, <1>3, <2>1, <3>1 DEF MergesInto
  <2>2. CASE q # c
    <3>1. q # p /\ R2[q] = R[q] /\ E2[q] = E[q] BY <1>p, <1>3, <2>2 DEF MergesInto
    <3> DEFINE o == R[q].parent
    <3>2. /\ R[q].status = "rejected" /\ E[q] # "none" /\ o \in Desk(K)!Cand \ Desk(K)!Anchors
          /\ R[o].state = "active"
      BY <3>1 DEF RowsInv, MergedInv
    <3>3. R2[o].state = "active" BY <1>3, <3>2
    <3>4. ASSUME q \in Desk(K)!Batch, E[q] = "refreshed" PROVE \E x \in Desk(K)!Group(q) : Says(R2, o, x)
      <4>1. PICK x \in Desk(K)!Group(q) : Says(R, o, x) BY <3>1, <3>4 DEF RowsInv, MergedInv
      <4>2. CASE R2[o] = R[o] BY <4>1, <4>2 DEF Says
      <4>3. CASE R2[o] # R[o]
        <5>1. o = p /\ Says(R2, p, c) BY <3>2, <4>3 DEF MergesInto
        <5>2. c \in Desk(K)!Group(q) BY <1>5, <1>c, <3>4, <4>1, <5>1, GroupIs
        <5> QED BY <5>1, <5>2
      <4> QED BY <4>2, <4>3
    <3> QED BY <3>1, <3>2, <3>3, <3>4
  <2> QED BY <2>1, <2>2
<1>8. AnchorInv(K, R2)
  <2>1. R2[c].state # "active" BY DEF MergesInto
  <2> QED BY <1>4, <2>1 DEF RowsInv, AnchorInv, Says
<1>9. SettledInv(K, R2, ds)
  <2> SUFFICES ASSUME NEW o \in Desk(K)!Cand, Settled(K, ds, o)
               PROVE  R2[o].state = "active" /\ Desk(K)!Parents(R2, Desk(K)!Own(o)) = {}
    BY DEF SettledInv
  <2>1. o # c /\ o \in Desk(K)!Anchors BY <1>1 DEF Settled
  <2>2. R[o].state = "active" /\ Desk(K)!Parents(R, Desk(K)!Own(o)) = {} BY DEF RowsInv, SettledInv
  <2>3. ASSUME NEW q \in Desk(K)!Parents(R2, Desk(K)!Own(o)) PROVE FALSE
    <3>1. q \in Desk(K)!Cand \ Desk(K)!Anchors /\ q # c BY <2>3, ParentsAre DEF MergesInto
    <3>2. R2[q] # R[q]
      <4>1. q \notin Desk(K)!Parents(R, Desk(K)!Own(o)) BY <2>2
      <4> QED BY <2>3, <4>1, ParentsAre
    <3>3. q = p /\ Says(R2, p, c) BY <3>1, <3>2 DEF MergesInto
    <3>4. Desk(K)!Alike(c, o) BY <2>3, <3>3, ParentsAre DEF Says, Desk!Alike
    <3>5. c \in Desk(K)!Group(c) BY <1>c, GroupIs
    <3> QED BY <2>1, <3>4, <3>5, OneAnchor
  <2> QED BY <1>4, <2>1, <2>2, <2>3
<1>10. DraftsInv(K, R2, E2, ds)
  <2>1. ASSUME NEW i \in DOMAIN ds PROVE DraftInv(K, R2, E2, ds[i])
    <3> DEFINE d == ds[i]
    <3>1. DraftInv(K, R, E, d) BY DEF DraftsInv
    <3>2. d.id # c BY <1>1 DEF Settled, Taken
    <3>3. d.id \in Desk(K)!Cand /\ R2[d.id].state = "active" BY <1>3, <3>1, <3>2 DEF DraftInv
    <3>4. ASSUME d.id \notin Desk(K)!Anchors
          PROVE  d.snap = R2[d.id].snap /\ \E x \in Desk(K)!Anchors : Stands(R2, E2, x, d.id)
      <4>1. PICK x \in Desk(K)!Anchors : Stands(R, E, x, d.id) BY <3>1, <3>4 DEF DraftInv
      <4>2. x # c BY <4>1 DEF Stands
      <4>3. Stands(R2, E2, x, d.id) BY <1>4, <4>1, <4>2 DEF Stands
      <4>4. d.id # p BY <1>6, <4>1
      <4>5. R2[d.id] = R[d.id] BY <3>2, <3>3, <4>4 DEF MergesInto
      <4> QED BY <3>1, <3>4, <4>3, <4>5 DEF DraftInv
    <3> QED BY <3>1, <3>3, <3>4 DEF DraftInv
  <2> QED BY <2>1 DEF DraftsInv
<1>11. RowsInv(K, R2, E2, ds) BY <1>2, <1>7, <1>8, <1>9 DEF RowsInv
<1> QED BY <1>6, <1>10, <1>11

-----------------------------------------------------------------------------
\* One more draft.
LEMMA AppendIs ==
  ASSUME NEW S, NEW ds \in Seq(S), NEW d
  PROVE  /\ Append(ds, d) \in Seq(S \cup {d})
         /\ DOMAIN Append(ds, d) = DOMAIN ds \cup {Len(ds) + 1} /\ Append(ds, d)[Len(ds) + 1] = d
         /\ \A i \in DOMAIN ds : Append(ds, d)[i] = ds[i]
<1>1. ds \in Seq(S \cup {d}) OBVIOUS
<1> QED BY <1>1

LEMMA TakenToo ==
  ASSUME NEW S, NEW ds \in Seq(S), NEW d
  PROVE  \A c : Taken(Append(ds, d), c) <=> Taken(ds, c) \/ c = d.id
<1> DEFINE a == Append(ds, d)
<1>1. /\ DOMAIN a = DOMAIN ds \cup {Len(ds) + 1} /\ a[Len(ds) + 1] = d
      /\ \A i \in DOMAIN ds : a[i] = ds[i]
  BY AppendIs
<1> HIDE DEF a
<1>2. \A c : Taken(a, c) <=> Taken(ds, c) \/ c = d.id BY <1>1 DEF Taken
<1> QED BY <1>2 DEF a

LEMMA AppendKeeps ==
  ASSUME NEW K, NEW R, NEW E, NEW ds, RowsInv(K, R, E, ds), DraftsInv(K, R, E, ds),
         NEW d, DraftInv(K, R, E, d),
         d.id \in Desk(K)!Anchors => Desk(K)!Parents(R, Desk(K)!Own(d.id)) = {}
  PROVE  RowsInv(K, R, E, Append(ds, d)) /\ DraftsInv(K, R, E, Append(ds, d))
<1>1. PICK S : ds \in Seq(S) BY DEF DraftsInv
<1>2. SettledInv(K, R, Append(ds, d))
  <2> SUFFICES ASSUME NEW c \in Desk(K)!Cand, Settled(K, Append(ds, d), c)
               PROVE  R[c].state = "active" /\ Desk(K)!Parents(R, Desk(K)!Own(c)) = {}
    BY DEF SettledInv
  <2>1. CASE Settled(K, ds, c) BY <2>1 DEF RowsInv, SettledInv
  <2>2. CASE c = d.id /\ c \in Desk(K)!Anchors BY <2>2 DEF DraftInv
  <2> QED BY <1>1, <2>1, <2>2, TakenToo DEF Settled
<1>3. \A i \in DOMAIN Append(ds, d) : DraftInv(K, R, E, Append(ds, d)[i])
  BY <1>1, AppendIs DEF DraftsInv
<1>4. \E T : Append(ds, d) \in Seq(T) BY <1>1, AppendIs
<1> QED BY <1>2, <1>3, <1>4 DEF RowsInv, DraftsInv

\* The transaction under way.
AccInv(K, acc) ==
  /\ Acc(acc) /\ RowsInv(K, acc.rows, acc.events, acc.drafts) /\ DraftsInv(K, acc.rows, acc.events, acc.drafts)
  /\ \A c \in Desk(K)!Anchors : acc.rows[c].state # "none"
  /\ \A c \in Desk(K)!Cand : /\ acc.rows[c].state = "none" <=> opp[c].state = "none"
                             /\ c \notin Desk(K)!Anchors => acc.rows[c].state = opp[c].state
\* What an anchor adds to the drafts, as R and E have it.
Adds(K, R, E, c, ds) ==
  IF R[c].state # "merged" THEN Append(ds, Desk(K)!Own(c))
  ELSE IF E[c] = "refreshed"
       THEN Append(ds, Desk(K)!CanonicalDraft(Desk(K)!Own(c), R[c].parent, R[R[c].parent]))
       ELSE ds
\* What one step of the transaction leaves alone.
StepKeeps(K, acc, c, a2) ==
  /\ a2.drafts = Adds(K, a2.rows, a2.events, c, acc.drafts)
  /\ a2.rows[c].state = "merged" \/ Taken(a2.drafts, c)
  /\ \A x : Taken(acc.drafts, x) => Taken(a2.drafts, x)
  /\ \A x \in Desk(K)!Anchors \ {c} : a2.rows[x] = acc.rows[x] /\ a2.events[x] = acc.events[x]
  /\ \A x \in Desk(K)!Anchors : \A q : Stands(acc.rows, acc.events, x, q) => a2.rows[q] = acc.rows[q]
  /\ acc.rows[c].state = "merged" \/ Desk(K)!Parents(acc.rows, Desk(K)!Own(c)) = {} =>
       a2.rows = acc.rows /\ a2.events = acc.events

LEMMA ResolveKeeps ==
  ASSUME NEW K, Desk(K)!DeskAssumption, day \in Nat, NEW acc, AccInv(K, acc), NEW c \in Desk(K)!Anchors,
         NEW a2, a2 = Desk(K)!ResolveOne(acc, Desk(K)!Own(c))
  PROVE  AccInv(K, a2) /\ StepKeeps(K, acc, c, a2)
<1> DEFINE R == acc.rows
           E == acc.events
           ds == acc.drafts
           d == Desk(K)!Own(c)
<1>c. c \in Desk(K)!Cand /\ d.id = c BY AnchorsIn, OwnIs
<1>r. RowsInv(K, R, E, ds) /\ DraftsInv(K, R, E, ds) /\ Acc(acc) BY DEF AccInv
<1>s. PICK S : ds \in Seq(S) BY <1>r DEF DraftsInv
<1>e. \A x : LET u == [acc EXCEPT !.drafts = x] IN Acc(u) /\ u.rows = R /\ u.events = E /\ u.drafts = x
  BY <1>r DEF Acc
<1>1. CASE R[c].state = "merged" /\ E[c] = "refreshed"
  <2> DEFINE p == R[c].parent
             f == Desk(K)!CanonicalDraft(d, p, R[p])
  <2>1. a2 = [acc EXCEPT !.drafts = Append(@, f)]
    BY <1>1, <1>c DEF Desk!ResolveOne
  <2>2. Acc(a2) /\ a2.rows = R /\ a2.events = E /\ a2.drafts = Append(ds, f) BY <1>e, <2>1
  <2>3. p \in Desk(K)!Cand \ Desk(K)!Anchors /\ R[p].state = "active" /\ Stands(R, E, c, p)
    BY <1>1, <1>c, <1>r DEF RowsInv, MergedInv, Stands
  <2>4. f.id = p /\ f.snap = R[p].snap BY CanonicalIs
  <2>5. DraftInv(K, R, E, f) BY <2>3, <2>4 DEF DraftInv
  <2> HIDE DEF f
  <2>6. AccInv(K, a2) BY <1>r, <2>2, <2>3, <2>4, <2>5, AppendKeeps DEF AccInv
  <2>7. \A x : Taken(ds, x) => Taken(a2.drafts, x) BY <1>s, <2>2, TakenToo
  <2>8. a2.drafts = Adds(K, R, E, c, ds) BY <1>1, <2>2 DEF Adds, f
  <2> QED BY <1>1, <2>2, <2>6, <2>7, <2>8 DEF StepKeeps
<1>2. CASE R[c].state = "merged" /\ E[c] # "refreshed"
  <2>1. a2 = acc BY <1>2, <1>c DEF Desk!ResolveOne
  <2>2. a2.drafts = Adds(K, R, E, c, ds) BY <1>2, <2>1 DEF Adds
  <2> QED BY <1>2, <2>1, <2>2 DEF StepKeeps
<1>3. CASE R[c].state # "merged" /\ Desk(K)!Parents(R, d) = {}
  <2>1. a2 = [acc EXCEPT !.drafts = Append(@, d)]
    BY <1>3, <1>c DEF Desk!ResolveOne
  <2>2. Acc(a2) /\ a2.rows = R /\ a2.events = E /\ a2.drafts = Append(ds, d) BY <1>e, <2>1
  <2>3. R[c].state = "active" BY <1>3, <1>c, <1>r DEF AccInv, RowsInv, RowsType, IsRow
  <2>4. DraftInv(K, R, E, d) BY <1>c, <2>3 DEF DraftInv
  <2> HIDE DEF d
  <2>5. AccInv(K, a2) BY <1>3, <1>c, <1>r, <2>2, <2>4, AppendKeeps DEF AccInv, d
  <2>6. \A x : Taken(a2.drafts, x) <=> Taken(ds, x) \/ x = c BY <1>c, <1>s, <2>2, TakenToo
  <2>7. a2.drafts = Adds(K, R, E, c, ds) BY <1>3, <2>2 DEF Adds, d
  <2> QED BY <2>2, <2>5, <2>6, <2>7 DEF StepKeeps
<1>4. CASE R[c].state # "merged" /\ Desk(K)!Parents(R, d) # {}
  <2> DEFINE p == Desk(K)!Parent(R, d)
  <2>1. p \in Desk(K)!Parents(R, d)
    <3>1. \A q \in Desk(K)!Cand : R[q].known \in 0..day BY <1>r DEF RowsInv, RowsType, IsRow
    <3> HIDE DEF d, R
    <3> QED BY <1>4, <3>1, ParentIn
  <2>2. a2 = Desk(K)!Merge(acc, d, p) BY <1>4, <1>c DEF Desk!ResolveOne
  <2>3. p \in Desk(K)!Cand \ Desk(K)!Anchors /\ p # c BY <2>1, ParentsAre
  <2> HIDE DEF p
  <2>4. /\ Acc(a2) /\ MergesInto(K, R, E, c, p, a2.rows, a2.events)
        /\ a2.drafts = IF a2.events[c] = "refreshed"
                       THEN Append(ds, Desk(K)!CanonicalDraft(d, p, a2.rows[p])) ELSE ds
    BY <1>c, <1>r, <2>2, <2>3, MergeIs DEF RowsInv
  <2> DEFINE R2 == a2.rows
             E2 == a2.events
             f == Desk(K)!CanonicalDraft(d, p, R2[p])
  <2>5. R[c].state = "active" BY <1>4, <1>c, <1>r DEF AccInv, RowsInv, RowsType, IsRow
  <2>6. /\ RowsInv(K, R2, E2, ds) /\ DraftsInv(K, R2, E2, ds)
        /\ \A x \in Desk(K)!Anchors : \A q : Stands(R, E, x, q) => q # p
    BY <1>r, <2>1, <2>4, <2>5, MergeKeeps
  <2>7. R2[c].state = "merged" /\ R2[c].parent = p /\ \A q \in Desk(K)!Cand \ {c} : R2[q].state = R[q].state
    BY <2>3, <2>4 DEF MergesInto
  <2>8. RowsInv(K, R2, E2, a2.drafts) /\ DraftsInv(K, R2, E2, a2.drafts)
    <3>1. CASE E2[c] = "refreshed"
      <4>1. f.id = p /\ f.snap = R2[p].snap BY CanonicalIs
      <4>2. R2[p].state = "active" BY <1>c, <2>6, <2>7 DEF RowsInv, MergedInv
      <4>3. DraftInv(K, R2, E2, f) BY <2>3, <2>7, <3>1, <4>1, <4>2 DEF DraftInv, Stands
      <4> HIDE DEF f
      <4>4. RowsInv(K, R2, E2, Append(ds, f)) /\ DraftsInv(K, R2, E2, Append(ds, f))
        BY <2>3, <2>6, <4>1, <4>3, AppendKeeps
      <4> QED BY <2>4, <3>1, <4>4 DEF f
    <3>2. CASE E2[c] # "refreshed" BY <2>4, <2>6, <3>2
    <3> QED BY <3>1, <3>2
  <2>9. \A q \in Desk(K)!Cand : /\ R2[q].state = "none" <=> opp[q].state = "none"
                                /\ q \notin Desk(K)!Anchors => R2[q].state = opp[q].state
    <3>1. R[c].state # "none" /\ opp[c].state # "none" BY <1>c, <2>5 DEF AccInv
    <3> QED BY <2>7, <3>1 DEF AccInv
  <2>10. AccInv(K, a2)
    <3>1. \A q \in Desk(K)!Anchors : R2[q].state # "none" BY <2>7, AnchorsIn DEF AccInv
    <3> QED BY <2>4, <2>8, <2>9, <3>1 DEF AccInv
  <2>11. a2.drafts = Adds(K, R2, E2, c, ds) BY <2>4, <2>7 DEF Adds
  <2>12. \A x : Taken(ds, x) => Taken(a2.drafts, x) BY <1>s, <2>4, TakenToo
  <2>13. \A x \in Desk(K)!Anchors \ {c} : R2[x] = R[x] /\ E2[x] = E[x]
    BY <2>3, <2>4, AnchorsIn DEF MergesInto
  <2>14. ASSUME NEW x \in Desk(K)!Anchors, NEW q, Stands(R, E, x, q) PROVE R2[q] = R[q]
    <3>1. q \in Desk(K)!Cand \ Desk(K)!Anchors BY <1>r, <2>14, AnchorsIn DEF Stands, RowsInv, MergedInv
    <3>2. q # p /\ q # c BY <2>6, <2>14, <3>1
    <3> QED BY <2>4, <3>1, <3>2 DEF MergesInto
  <2> QED BY <1>4, <2>7, <2>10, <2>11, <2>12, <2>13, <2>14 DEF StepKeeps
<1> QED BY <1>1, <1>2, <1>3, <1>4

-----------------------------------------------------------------------------
\* The whole transaction: its states one after the other.
Base == [rows |-> opp, events |-> found, drafts |-> <<>>]
Body(K, f, n) ==
  IF n = 0 THEN Base
  ELSE IF <<day, n>> \in Desk(K)!Anchors
       THEN Desk(K)!ResolveOne(f[n - 1], Desk(K)!Own(<<day, n>>)) ELSE f[n - 1]
IsWalk(K, f, n) == f = [m \in 0..n |-> Body(K, f, m)]

LEMMA WalkExists ==
  ASSUME NEW K, NEW n \in Nat
  PROVE  \E f : IsWalk(K, f, n)
<1> DEFINE T == {m \in Nat : ~ \E f : IsWalk(K, f, m)}
<1> SUFFICES ASSUME T # {} PROVE FALSE
  OBVIOUS
<1>1. PICK m \in T : \A k \in T : m <= k
  <2>1. T \subseteq Nat OBVIOUS
  <2> HIDE DEF T
  <2> QED BY <2>1, Least
<1>2. CASE m = 0
  <2> DEFINE g == [k \in 0..0 |-> Base]
  <2>1. IsWalk(K, g, 0)
    <3>1. \A k \in 0..0 : k = 0 /\ Body(K, g, k) = Base BY DEF Body
    <3> QED BY <3>1 DEF IsWalk
  <2> QED BY <1>1, <1>2, <2>1
<1>3. CASE m # 0
  <2>1. m - 1 \in Nat /\ m \in Nat BY <1>1, <1>3
  <2>2. PICK f : IsWalk(K, f, m - 1)
    <3>1. m - 1 \notin T BY <1>1, <2>1
    <3> QED BY <2>1, <3>1
  <2> DEFINE g == [k \in 0..m |-> IF k < m THEN f[k] ELSE Body(K, f, m)]
  <2>3. ASSUME NEW k \in 0..m PROVE g[k] = Body(K, g, k)
    <3>1. k < m => f[k] = Body(K, f, k) BY <2>1, <2>2 DEF IsWalk
    <3>2. k # 0 => g[k - 1] = f[k - 1] BY <2>1
    <3>3. Body(K, g, k) = Body(K, f, k)
      <4> HIDE DEF g
      <4> QED BY <3>2 DEF Body
    <3>4. g[k] = IF k < m THEN f[k] ELSE Body(K, f, m) OBVIOUS
    <3>5. ~(k < m) => k = m BY <2>1
    <3> HIDE DEF g
    <3> QED BY <3>1, <3>3, <3>4, <3>5
  <2>4. g = [k \in 0..m |-> g[k]] OBVIOUS
  <2>5. IsWalk(K, g, m)
    <3> HIDE DEF g
    <3> QED BY <2>3, <2>4 DEF IsWalk
  <2> HIDE DEF g
  <2> QED BY <1>1, <2>5
<1> QED BY <1>2, <1>3

LEMMA ResolutionIs ==
  ASSUME NEW K, K.slots[day] \in Nat
  PROVE  \E f : IsWalk(K, f, K.slots[day]) /\ Desk(K)!Resolution = f[K.slots[day]]
<1> DEFINE N == K.slots[day]
           Walk(f) == f = [n \in 0..N |->
             IF n = 0 THEN [rows |-> opp, events |-> found, drafts |-> <<>>]
             ELSE IF <<day, n>> \in Desk(K)!Anchors THEN Desk(K)!ResolveOne(f[n - 1], Desk(K)!Own(<<day, n>>))
             ELSE f[n - 1]]
<1>1. ASSUME NEW f PROVE Walk(f) <=> IsWalk(K, f, N)
  BY Zenon DEF IsWalk, Body, Base
<1>2. \E f : Walk(f)
  <2> HIDE DEF Walk
  <2>1. \E f : IsWalk(K, f, N) BY WalkExists
  <2> QED BY <1>1, <2>1
<1>3. Walk(CHOOSE f : Walk(f))
  <2> HIDE DEF Walk
  <2> QED BY <1>2
<1>4. Desk(K)!Resolution = (CHOOSE f : Walk(f))[N]
  BY Zenon DEF Desk!Resolution
<1> HIDE DEF Walk
<1> QED BY <1>1, <1>3, <1>4

\* Every state of the transaction is in order, and says what those before it
\* added to the drafts.
Repeats(K, R, E, w, n) ==
  /\ w[0] = <<>>
  /\ \A m \in 1..n : w[m] = IF <<day, m>> \in Desk(K)!Anchors THEN Adds(K, R, E, <<day, m>>, w[m - 1]) ELSE w[m - 1]
Looked(K, acc, n) ==
  \A c \in Desk(K)!Anchors : c[2] <= n => acc.rows[c].state = "merged" \/ Taken(acc.drafts, c)
DraftsOf(f) == [m \in DOMAIN f |-> f[m].drafts]

LEMMA AddsSame ==
  ASSUME NEW K, NEW R, NEW E, NEW R2, NEW E2, NEW c, NEW ds, R2[c] = R[c], E2[c] = E[c],
         \A q : Stands(R, E, c, q) => R2[q].snap = R[q].snap /\ R2[q].evidence = R[q].evidence
  PROVE  Adds(K, R2, E2, c, ds) = Adds(K, R, E, c, ds)
BY CanonicalIs DEF Adds, Stands

LEMMA WalkInv ==
  ASSUME NEW K, Desk(K)!DeskAssumption, day \in Nat, NEW N \in Nat, NEW f, IsWalk(K, f, N), AccInv(K, Base),
         NEW n \in 0..N
  PROVE  AccInv(K, f[n]) /\ Looked(K, f[n], n) /\ Repeats(K, f[n].rows, f[n].events, DraftsOf(f), n)
<1> DEFINE Fine(m) == AccInv(K, f[m]) /\ Looked(K, f[m], m) /\ Repeats(K, f[m].rows, f[m].events, DraftsOf(f), m)
           T == {m \in 0..N : ~ Fine(m)}
<1> SUFFICES ASSUME T # {} PROVE FALSE
  OBVIOUS
<1>f. f = [m \in 0..N |-> f[m]] /\ \A m \in 0..N : f[m] = Body(K, f, m) BY DEF IsWalk
<1>d. DraftsOf(f) = [m \in 0..N |-> f[m].drafts]
  <2>1. DOMAIN f = 0..N BY <1>f
  <2> QED BY <2>1 DEF DraftsOf
<1>1. PICK m \in T : \A k \in T : m <= k
  <2>1. T \subseteq Nat OBVIOUS
  <2> HIDE DEF T
  <2> QED BY <2>1, Least
<1>m. m \in 0..N /\ m \in Nat /\ ~ Fine(m)
  <2> HIDE DEF Fine
  <2>1. m \in T BY <1>1
  <2>2. m \in 0..N /\ ~ Fine(m) BY <2>1, Zenon
  <2> QED BY <2>2
<1>2. CASE m = 0
  <2>1. f[0] = Base BY <1>f, <1>m, <1>2 DEF Body
  <2>2. Looked(K, f[0], 0)
    <3>1. \A c \in Desk(K)!Anchors : ~(c[2] <= 0) BY AnchorsIn, CandIs
    <3> QED BY <3>1 DEF Looked
  <2>3. Repeats(K, f[0].rows, f[0].events, DraftsOf(f), 0)
    <3>1. DraftsOf(f)[0] = <<>> BY <1>d, <2>1 DEF Base
    <3> QED BY <3>1 DEF Repeats
  <2> QED BY <1>m, <1>2, <2>1, <2>2, <2>3
<1>3. CASE m # 0
  <2> DEFINE k == m - 1
             acc == f[k]
             a2 == f[m]
             c == <<day, m>>
  <2>1. k \in 0..N /\ k \in Nat /\ k + 1 = m BY <1>m, <1>3
  <2>2. Fine(k)
    <3>1. k \notin T BY <1>1, <2>1
    <3> QED BY <2>1, <3>1
  <2>3. a2 = IF c \in Desk(K)!Anchors THEN Desk(K)!ResolveOne(acc, Desk(K)!Own(c)) ELSE acc
    BY <1>f, <1>m, <1>3 DEF Body
  <2>4. DraftsOf(f)[m] = a2.drafts /\ DraftsOf(f)[k] = acc.drafts BY <1>d, <1>m, <2>1
  <2>n. \A x \in Desk(K)!Anchors : x[2] <= m => x[2] <= k \/ x = c
    <3>1. ASSUME NEW x \in Desk(K)!Anchors, x[2] <= m PROVE x[2] <= k \/ x = c
      <4>1. x = <<x[1], x[2]>> /\ x[2] \in Nat BY AnchorsIn, CandIs
      <4>2. x[1] = day BY DEF Desk!Anchors, Desk!Batch
      <4> QED BY <1>m, <2>1, <3>1, <4>1, <4>2
    <3> QED BY <3>1
  <2> HIDE DEF k, acc, a2, c
  <2>5. CASE c \notin Desk(K)!Anchors
    <3>1. a2 = acc BY <2>3, <2>5
    <3>2. Looked(K, a2, m) BY <2>2, <2>5, <2>n, <3>1 DEF Looked, acc
    <3>3. Repeats(K, a2.rows, a2.events, DraftsOf(f), m)
      <4>1. \A j \in 1..m : j \in 1..k \/ j = m BY <1>m, <2>1
      <4>2. Repeats(K, acc.rows, acc.events, DraftsOf(f), k) BY <2>2 DEF acc
      <4>3. DraftsOf(f)[m] = DraftsOf(f)[m - 1] BY <2>4, <3>1 DEF k
      <4> QED BY <2>5, <3>1, <4>1, <4>2, <4>3 DEF Repeats, c
    <3> QED BY <1>m, <2>2, <3>1, <3>2, <3>3 DEF a2, acc
  <2>6. CASE c \in Desk(K)!Anchors
    <3>1. AccInv(K, a2) /\ StepKeeps(K, acc, c, a2) BY <2>2, <2>3, <2>6, ResolveKeeps DEF acc
    <3>2. Looked(K, a2, m)
      <4> SUFFICES ASSUME NEW x \in Desk(K)!Anchors, x[2] <= m PROVE a2.rows[x].state = "merged" \/ Taken(a2.drafts, x)
        BY DEF Looked
      <4>1. CASE x = c BY <3>1, <4>1 DEF StepKeeps
      <4>2. CASE x # c
        <5>1. acc.rows[x].state = "merged" \/ Taken(acc.drafts, x) BY <2>2, <2>n, <4>2 DEF Looked, acc
        <5> QED BY <3>1, <4>2, <5>1 DEF StepKeeps
      <4> QED BY <4>1, <4>2
    <3>3. Repeats(K, a2.rows, a2.events, DraftsOf(f), m)
      <4>1. Repeats(K, acc.rows, acc.events, DraftsOf(f), k) BY <2>2 DEF acc
      <4>2. ASSUME NEW j \in 1..m
            PROVE  DraftsOf(f)[j] = IF <<day, j>> \in Desk(K)!Anchors
                     THEN Adds(K, a2.rows, a2.events, <<day, j>>, DraftsOf(f)[j - 1]) ELSE DraftsOf(f)[j - 1]
        <5>1. CASE j = m
          <6>1. j - 1 = k /\ <<day, j>> = c BY <5>1 DEF k, c
          <6>2. a2.drafts = Adds(K, a2.rows, a2.events, c, acc.drafts) BY <3>1 DEF StepKeeps
          <6> QED BY <2>4, <2>6, <5>1, <6>1, <6>2
        <5>2. CASE j # m
          <6>1. j \in 1..k BY <1>m, <2>1, <5>2
          <6>2. DraftsOf(f)[j] = IF <<day, j>> \in Desk(K)!Anchors
                     THEN Adds(K, acc.rows, acc.events, <<day, j>>, DraftsOf(f)[j - 1]) ELSE DraftsOf(f)[j - 1]
            BY <4>1, <6>1 DEF Repeats
          <6>3. <<day, j>> # c BY <5>2 DEF c
          <6>4. ASSUME <<day, j>> \in Desk(K)!Anchors
                PROVE  Adds(K, a2.rows, a2.events, <<day, j>>, DraftsOf(f)[j - 1])
                         = Adds(K, acc.rows, acc.events, <<day, j>>, DraftsOf(f)[j - 1])
            <7>1. \A q : Stands(acc.rows, acc.events, <<day, j>>, q) => a2.rows[q] = acc.rows[q]
              BY <3>1, <6>4 DEF StepKeeps
            <7>2. a2.rows[<<day, j>>] = acc.rows[<<day, j>>] /\ a2.events[<<day, j>>] = acc.events[<<day, j>>]
              BY <3>1, <6>3, <6>4 DEF StepKeeps
            <7> QED BY <7>1, <7>2, AddsSame
          <6> QED BY <6>2, <6>4
        <5> QED BY <5>1, <5>2
      <4> QED BY <4>1, <4>2 DEF Repeats
    <3> QED BY <1>m, <3>1, <3>2, <3>3 DEF a2
  <2> QED BY <2>5, <2>6
<1> QED BY <1>2, <1>3

-----------------------------------------------------------------------------
(***************************************************************************)
(* What the desk keeps between two steps.                                  *)
(***************************************************************************)
Reviewing == {"review", "lock", "share", "record", "rank", "open"}
\* Each anchor adds to the drafts now what it added when they were resolved.
Redone(K, R, E, ds, n) == \E w : Repeats(K, R, E, w, n) /\ w[n] = ds
DeskType(K) ==
  /\ day \in 1..(K.cycles + 1) /\ stage \in Desk(K)!Steps /\ seat \in 1..3
  /\ candidate = [c \in Desk(K)!Cand |-> candidate[c]]
  /\ held = [c \in Desk(K)!Cand |-> [cycle |-> held[c].cycle, open |-> held[c].open]]
  /\ last = [batch |-> last.batch, drafts |-> last.drafts] /\ \E S : last.drafts \in Seq(S)
TablesInv(K) ==
  /\ RowsInv(K, opp, found, last.drafts)
  /\ \A c \in Desk(K)!Cand :
       /\ opp[c].state # "none" => candidate[c] # Desk(K)!Nothing
       /\ candidate[c] # Desk(K)!Nothing => c[1] <= day
       /\ held[c].open => held[c].cycle # 0
       /\ held[c].cycle # 0 => opp[c].state = "active"
  /\ last.batch \subseteq Desk(K)!Batch
  /\ \A i \in DOMAIN last.drafts : last.drafts[i].id \in Desk(K)!Cand /\ opp[last.drafts[i].id].state = "active"
StageInv(K) ==
  /\ stage \in {"foundry", "resolve"} \cup Reviewing => Desk(K)!Batch # {}
  /\ stage = "resolve" => \A c \in Desk(K)!Anchors : opp[c].state # "none"
  /\ stage \in Reviewing => drafts = last.drafts /\ DraftsInv(K, opp, found, drafts)
RedoInv(K) ==
  last.batch = Desk(K)!Batch /\ Desk(K)!Batch # {} =>
    /\ \A c \in Desk(K)!Anchors : opp[c].state = "merged" \/ Taken(last.drafts, c)
    /\ Redone(K, opp, found, last.drafts, K.slots[day])

LEMMA SameStories ==
  ASSUME NEW K, candidate' = candidate, day' = day
  PROVE  /\ Desk(K)!Batch' = Desk(K)!Batch /\ Desk(K)!Anchors' = Desk(K)!Anchors
         /\ \A c : Desk(K)!Group(c)' = Desk(K)!Group(c)
         /\ \A c : Desk(K)!Own(c)' = Desk(K)!Own(c)
<1>1. Desk(K)!Batch' = Desk(K)!Batch BY DEF Desk!Batch
<1>2. \A c, d : Desk(K)!Alike(c, d)' <=> Desk(K)!Alike(c, d) BY DEF Desk!Alike
<1>3. ASSUME NEW c PROVE Desk(K)!Group(c)' = Desk(K)!Group(c)
  BY <1>1, <1>2 DEF Desk!Group
<1>4. Desk(K)!Anchors' = Desk(K)!Anchors BY <1>1, <1>3 DEF Desk!Anchors
<1>5. ASSUME NEW c PROVE Desk(K)!Claim(c)' = Desk(K)!Claim(c)
  <2> DEFINE F == {d \in Desk(K)!Group(c) : candidate[d].follow}
             first(S) == IF S = {} THEN c ELSE CHOOSE d \in S : \A e \in S : e[2] <= d[2]
  <2>1. F' = F BY <1>3
  <2>2. Desk(K)!Claim(c) = first(F) BY Zenon DEF Desk!Claim
  <2>3. Desk(K)!Claim(c)' = first(F') BY Zenon DEF Desk!Claim
  <2> HIDE DEF F, first
  <2>4. first(F') = first(F) BY <2>1
  <2> QED BY <2>2, <2>3, <2>4
<1>6. ASSUME NEW c PROVE Desk(K)!Own(c)' = Desk(K)!Own(c)
  BY <1>3, <1>5 DEF Desk!Own
<1> QED BY <1>1, <1>3, <1>4, <1>6

LEMMA RowsNext ==
  ASSUME NEW K, candidate' = candidate, day' = day,
         RowsType(K, opp', found'), MergedInv(K, opp', found'), AnchorInv(K, opp'),
         \A c \in Desk(K)!Anchors : held'[c].cycle # 0 \/ Taken(last'.drafts, c) =>
           opp'[c].state = "active" /\ Desk(K)!Parents(opp', Desk(K)!Own(c)) = {}
  PROVE  RowsInv(K, opp, found, last.drafts)'
<1>1. RowsType(K, opp, found)' BY DEF RowsType, IsRow, Fields, Desk!Cand
<1>2. MergedInv(K, opp, found)' BY SameStories DEF MergedInv, Says, Desk!Cand
<1>3. AnchorInv(K, opp)' BY SameStories DEF AnchorInv, Says
<1>4. SettledInv(K, opp, last.drafts)'
  BY SameStories DEF SettledInv, Settled, Taken, Desk!Parents
<1> QED BY <1>1, <1>2, <1>3, <1>4 DEF RowsInv
RegInv(K) == DeskType(K) /\ TablesInv(K) /\ StageInv(K) /\ RedoInv(K)

LEMMA DeskConstants ==
  ASSUME NEW K, Desk(K)!DeskAssumption, DeskType(K)
  PROVE  day \in Nat /\ K.cycles \in Nat /\ (Desk(K)!Batch # {} => K.slots[day] \in Nat)
<1>1. K.cycles \in Nat BY DEF Desk!DeskAssumption
<1>2. ASSUME NEW c \in Desk(K)!Batch PROVE K.slots[day] \in Nat
  <2>1. c \in Desk(K)!Cand /\ c[1] = day BY DEF Desk!Batch
  <2> QED BY <2>1, CandIs
<1> QED BY <1>1, <1>2 DEF DeskType

LEMMA DraftsNext ==
  ASSUME NEW K, candidate' = candidate, day' = day, DraftsInv(K, opp', found', drafts')
  PROVE  DraftsInv(K, opp, found, drafts)'
BY SameStories DEF DraftsInv, DraftInv, Stands, Desk!Cand

LEMMA RegInitInv ==
  ASSUME NEW K, Desk(K)!DeskAssumption, Desk(K)!Init
  PROVE  RegInv(K)
<1>1. \A c \in Desk(K)!Cand : candidate[c] = Desk(K)!Nothing BY DEF Desk!Init
<1>2. Desk(K)!Batch = {} /\ Desk(K)!Anchors = {} BY <1>1 DEF Desk!Batch, Desk!Anchors
<1>3. K.cycles \in Nat BY DEF Desk!DeskAssumption
<1>4. last = [batch |-> {}, drafts |-> <<>>] BY DEF Desk!Init, Desk!Unresolved
<1>5. DeskType(K)
  <2>1. last.drafts \in Seq({}) BY <1>4
  <2> QED BY <1>3, <1>4, <2>1 DEF DeskType, Desk!Init, Desk!Steps
<1>6. \A c \in Desk(K)!Cand : opp[c] = Desk(K)!NoRow BY DEF Desk!Init
<1>7. RowsType(K, opp, found)
  <2>1. IsRow(Desk(K)!NoRow) BY DEF IsRow, Fields, Desk!NoRow, Desk!Init
  <2> QED BY <1>6, <2>1 DEF RowsType, Desk!Init
<1>8. \A c \in Desk(K)!Cand : opp[c].state = "none" /\ held[c].cycle = 0 /\ ~held[c].open
  BY <1>6 DEF Desk!Init, Desk!NoRow
<1>9. RowsInv(K, opp, found, last.drafts)
  BY <1>2, <1>7, <1>8 DEF RowsInv, MergedInv, AnchorInv, SettledInv, Settled
<1>10. TablesInv(K) BY <1>1, <1>2, <1>4, <1>8, <1>9 DEF TablesInv
<1>11. stage = "start" BY DEF Desk!Init
<1> QED BY <1>2, <1>5, <1>10, <1>11 DEF RegInv, StageInv, RedoInv, Reviewing

\* Steps that leave the tables of the registry alone.
RegistryKept == UNCHANGED <<candidate, opp, found, held, day, last>>

LEMMA RedoNext ==
  ASSUME NEW K, RedoInv(K), candidate' = candidate, day' = day, last' = last, found' = found,
         MergedInv(K, opp, found),
         last.batch = Desk(K)!Batch => \A c \in Desk(K)!Cand :
           /\ opp'[c].state = opp[c].state /\ opp'[c].parent = opp[c].parent
           /\ opp'[c].snap = opp[c].snap /\ opp'[c].evidence = opp[c].evidence
  PROVE  RedoInv(K)'
<1> SUFFICES ASSUME last.batch = Desk(K)!Batch, Desk(K)!Batch # {}
             PROVE  /\ \A c \in Desk(K)!Anchors : opp'[c].state = "merged" \/ Taken(last.drafts, c)
                    /\ Redone(K, opp, found, last.drafts, K.slots[day])'
  BY SameStories DEF RedoInv, Taken
<1>1. \A c \in Desk(K)!Anchors : opp'[c].state = "merged" \/ Taken(last.drafts, c) BY AnchorsIn DEF RedoInv
<1>2. PICK w : Repeats(K, opp, found, w, K.slots[day]) /\ w[K.slots[day]] = last.drafts BY DEF RedoInv, Redone
<1>3. ASSUME NEW c \in Desk(K)!Anchors, NEW ds PROVE Adds(K, opp, found, c, ds)' = Adds(K, opp, found, c, ds)
  <2>1. Adds(K, opp, found, c, ds)' = Adds(K, opp', found', c, ds)
    BY SameStories DEF Adds, Desk!CanonicalDraft
  <2>2. c \in Desk(K)!Cand /\ (opp[c].state = "merged" => opp[c].parent \in Desk(K)!Cand)
    BY AnchorsIn DEF MergedInv
  <2> QED BY <2>1, <2>2, CanonicalIs DEF Adds
<1>4. Repeats(K, opp, found, w, K.slots[day])' BY <1>2, <1>3, SameStories DEF Repeats
<1>5. w[K.slots[day]]' = last'.drafts BY <1>2
<1> QED BY <1>1, <1>4, <1>5 DEF Redone

LEMMA KeptRegistry ==
  ASSUME NEW K, RegInv(K), RegistryKept
  PROVE  TablesInv(K)' /\ RedoInv(K)'
<1> USE DEF RegistryKept
<1>1. RowsInv(K, opp, found, last.drafts)'
  <2>1. \A c \in Desk(K)!Anchors : c \in Desk(K)!Cand BY AnchorsIn
  <2> QED BY <2>1, RowsNext DEF RegInv, TablesInv, RowsInv, SettledInv, Settled
<1>2. TablesInv(K)' BY <1>1, SameStories DEF RegInv, TablesInv, Desk!Cand, Desk!Nothing
<1>3. RedoInv(K)' BY RedoNext DEF RegInv, TablesInv, RowsInv
<1> QED BY <1>2, <1>3

LEMMA KeptStep ==
  ASSUME NEW K, RegInv(K), RegistryKept, stage' \in Desk(K)!Steps, seat' \in 1..3,
         \/ stage' \in {"start", "scouts", "complete"}
         \/ stage \in Reviewing /\ stage' \in Reviewing /\ drafts' = drafts
         \/ stage' = stage /\ drafts' = drafts
  PROVE  RegInv(K)'
<1>1. TablesInv(K)' /\ RedoInv(K)' BY KeptRegistry
<1>2. DeskType(K)' BY DEF RegInv, DeskType, RegistryKept, Desk!Cand, Desk!Steps
<1>3. StageInv(K)'
  <2>1. CASE stage' \in {"start", "scouts", "complete"} BY <2>1 DEF StageInv, Reviewing
  <2>2. CASE stage \in Reviewing /\ stage' \in Reviewing /\ drafts' = drafts
    <3>1. DraftsInv(K, opp', found', drafts') BY <2>2 DEF RegInv, StageInv, RegistryKept
    <3>2. DraftsInv(K, opp, found, drafts)' BY <3>1, DraftsNext DEF RegistryKept
    <3> QED BY <2>2, <3>2, SameStories DEF RegInv, StageInv, RegistryKept, Reviewing
  <2>3. CASE stage' = stage /\ drafts' = drafts
    <3>1. stage \in Reviewing => DraftsInv(K, opp', found', drafts') BY <2>3 DEF RegInv, StageInv, RegistryKept
    <3>2. stage \in Reviewing => DraftsInv(K, opp, found, drafts)' BY <3>1, DraftsNext DEF RegistryKept
    <3> QED BY <2>3, <3>2, SameStories DEF RegInv, StageInv, RegistryKept
  <2> QED BY <2>1, <2>2, <2>3
<1> QED BY <1>1, <1>2, <1>3 DEF RegInv

-----------------------------------------------------------------------------
\* A status that is written: one that is not live for whoever is active, or a
\* live one for what is being reviewed.
Marks(K, S, v) ==
  /\ UNCHANGED <<candidate, found, day, last>>
  /\ opp' = [c \in Desk(K)!Cand |-> IF c \in S THEN [opp[c] EXCEPT !.status = v] ELSE opp[c]]
  /\ \A c \in S : opp[c].state = "active"
  /\ \/ v \notin Desk(K)!Live
     \/ stage \in Reviewing /\ \A c \in S : Taken(drafts, c)
  /\ held' = [c \in Desk(K)!Cand |-> [cycle |-> held'[c].cycle, open |-> held'[c].open]]
  /\ \A c \in Desk(K)!Cand :
       /\ held'[c].open => held'[c].cycle # 0
       /\ held'[c].cycle # 0 => held[c].cycle # 0 \/ (c \in S /\ Taken(last.drafts, c))

LEMMA StatusStep ==
  ASSUME NEW K, Desk(K)!DeskAssumption, RegInv(K), NEW S \in SUBSET Desk(K)!Cand, NEW v, Marks(K, S, v)
  PROVE  TablesInv(K)' /\ RedoInv(K)' /\ (DraftsInv(K, opp, found, drafts) => DraftsInv(K, opp', found', drafts))
<1> USE DEF Marks
<1>1. RowsType(K, opp, found) /\ MergedInv(K, opp, found) /\ AnchorInv(K, opp)
      /\ SettledInv(K, opp, last.drafts)
  BY DEF RegInv, TablesInv, RowsInv
<1>2. ASSUME NEW c \in Desk(K)!Cand
      PROVE  /\ IsRow(opp'[c]) /\ (c \notin S => opp'[c] = opp[c])
             /\ opp'[c].state = opp[c].state /\ opp'[c].parent = opp[c].parent
             /\ opp'[c].exact = opp[c].exact /\ opp'[c].structural = opp[c].structural
             /\ opp'[c].snap = opp[c].snap /\ opp'[c].evidence = opp[c].evidence
             /\ (c \in S => opp'[c].status = v)
  <2> DEFINE r == opp[c]
  <2>1. IsRow(r) BY <1>1 DEF RowsType
  <2>2. opp'[c] = IF c \in S THEN [r EXCEPT !.status = v] ELSE r OBVIOUS
  <2> HIDE DEF r
  <2>3. LET e == [r EXCEPT !.status = v]
        IN /\ IsRow(e) /\ e.state = r.state /\ e.parent = r.parent /\ e.exact = r.exact
           /\ e.structural = r.structural /\ e.snap = r.snap /\ e.evidence = r.evidence /\ e.status = v
    BY <2>1 DEF IsRow, Fields
  <2>4. c \notin S => opp'[c] = r BY <2>2
  <2> QED BY <2>1, <2>2, <2>3, <2>4 DEF r
<1>3. RowsType(K, opp', found') BY <1>1, <1>2 DEF RowsType
<1>4. MergedInv(K, opp', found')
  <2> SUFFICES ASSUME NEW c \in Desk(K)!Cand, opp'[c].state = "merged"
               PROVE  /\ opp'[c].status = "rejected" /\ found'[c] # "none"
                      /\ opp'[c].parent \in Desk(K)!Cand \ Desk(K)!Anchors /\ opp'[opp'[c].parent].state = "active"
                      /\ c \in Desk(K)!Batch /\ found'[c] = "refreshed" =>
                           \E x \in Desk(K)!Group(c) : Says(opp', opp'[c].parent, x)
    BY DEF MergedInv
  <2>1. c \notin S /\ opp'[c] = opp[c] BY <1>2
  <2>2. opp[c].parent \in Desk(K)!Cand \ Desk(K)!Anchors BY <1>1, <2>1 DEF MergedInv
  <2>3. opp'[opp[c].parent].state = "active" /\ \A x : Says(opp, opp[c].parent, x) => Says(opp', opp[c].parent, x)
    BY <1>1, <1>2, <2>1, <2>2 DEF MergedInv, Says
  <2> QED BY <1>1, <2>1, <2>2, <2>3 DEF MergedInv
<1>5. AnchorInv(K, opp') BY <1>1, <1>2, AnchorsIn DEF AnchorInv, Says
<1>6. ASSUME NEW c \in Desk(K)!Anchors, held'[c].cycle # 0 \/ Taken(last'.drafts, c)
      PROVE  opp'[c].state = "active" /\ Desk(K)!Parents(opp', Desk(K)!Own(c)) = {}
  <2>1. c \in Desk(K)!Cand /\ Settled(K, last.drafts, c) BY <1>6, AnchorsIn DEF Settled
  <2>2. opp[c].state = "active" /\ Desk(K)!Parents(opp, Desk(K)!Own(c)) = {} BY <1>1, <2>1 DEF SettledInv
  <2>3. ASSUME NEW p \in Desk(K)!Parents(opp', Desk(K)!Own(c)) PROVE FALSE
    <3>1. /\ p \in Desk(K)!Cand \ Desk(K)!Anchors /\ opp'[p].status \in Desk(K)!Live
          /\ opp[p].exact = candidate[c].exact \/ opp[p].structural = candidate[c].structural
          /\ opp[p].state = "active"
      <4>1. /\ p \in Desk(K)!Cand \ Desk(K)!Anchors /\ opp'[p].state = "active"
            /\ opp'[p].status \in Desk(K)!Live
            /\ opp'[p].exact = candidate[c].exact \/ opp'[p].structural = candidate[c].structural
        BY <2>3, OwnIs DEF Desk!Parents
      <4> QED BY <1>2, <4>1
    <3>2. p \in S
      <4>1. p \notin Desk(K)!Parents(opp, Desk(K)!Own(c)) BY <2>2
      <4> QED BY <1>2, <3>1, <4>1, ParentsAre
    <3>3. stage \in Reviewing /\ Taken(drafts, p) BY <1>2, <3>1, <3>2
    <3>4. PICK x \in Desk(K)!Anchors : Stands(opp, found, x, p)
      <4>1. DraftsInv(K, opp, found, drafts) BY <3>3 DEF RegInv, StageInv
      <4>2. PICK i \in DOMAIN drafts : drafts[i].id = p BY <3>3 DEF Taken
      <4> QED BY <3>1, <4>1, <4>2 DEF DraftsInv, DraftInv
    <3>5. x \in Desk(K)!Cand /\ x \in Desk(K)!Batch BY AnchorsIn
    <3>6. PICK y \in Desk(K)!Group(x) : Says(opp, p, y) BY <1>1, <3>4, <3>5 DEF MergedInv, Stands
    <3>7. Desk(K)!Alike(y, c) BY <3>1, <3>6 DEF Says, Desk!Alike
    <3>8. x = c BY <3>6, <3>7, OneAnchor
    <3> QED BY <2>2, <3>4, <3>8 DEF Stands
  <2> QED BY <1>2, <2>1, <2>2, <2>3
<1>7. RowsInv(K, opp, found, last.drafts)' BY <1>3, <1>4, <1>5, <1>6, RowsNext
<1>8. TablesInv(K)'
  <2>1. ASSUME NEW c \in Desk(K)!Cand
        PROVE  /\ opp'[c].state # "none" => candidate'[c] # Desk(K)!Nothing
               /\ candidate'[c] # Desk(K)!Nothing => c[1] <= day'
               /\ held'[c].open => held'[c].cycle # 0
               /\ held'[c].cycle # 0 => opp'[c].state = "active"
    BY <1>2 DEF RegInv, TablesInv
  <2>2. \A i \in DOMAIN last'.drafts : last'.drafts[i].id \in Desk(K)!Cand /\ opp'[last'.drafts[i].id].state = "active"
    BY <1>2 DEF RegInv, TablesInv
  <2>3. last'.batch \subseteq Desk(K)!Batch' BY SameStories DEF RegInv, TablesInv
  <2> QED BY <1>7, <2>1, <2>2, <2>3 DEF TablesInv, Desk!Cand, Desk!Nothing
<1>9. RedoInv(K)'
  BY <1>1, <1>2, RedoNext DEF RegInv
<1>10. ASSUME DraftsInv(K, opp, found, drafts) PROVE DraftsInv(K, opp', found', drafts)
  <2>1. ASSUME NEW i \in DOMAIN drafts PROVE DraftInv(K, opp', found', drafts[i])
    <3>1. DraftInv(K, opp, found, drafts[i]) BY <1>10 DEF DraftsInv
    <3>2. \A x \in Desk(K)!Anchors : \A q : Stands(opp, found, x, q) => Stands(opp', found', x, q)
      BY <1>2, AnchorsIn DEF Stands
    <3> QED BY <1>2, <3>1, <3>2 DEF DraftInv
  <2> QED BY <1>10, <2>1 DEF DraftsInv
<1> QED BY <1>8, <1>9, <1>10

LEMMA Closed ==
  ASSUME NEW h, NEW x, NEW y, h = [cycle |-> x, open |-> y], NEW v, v = [h EXCEPT !.open = FALSE]
  PROVE  v = [cycle |-> v.cycle, open |-> v.open] /\ v.cycle = h.cycle /\ ~v.open
OBVIOUS

LEMMA ExitKeeps ==
  ASSUME NEW K, Desk(K)!DeskAssumption, RegInv(K), NEW o \in Desk(K)!Cand, Desk(K)!Exit(o)
  PROVE  RegInv(K)'
<1>1. UNCHANGED <<candidate, found, day, last, stage, seat>> /\ stage = "start" /\ held[o].open
  BY DEF Desk!Exit, Desk!attempt, Desk!review
<1>2. opp' = [opp EXCEPT ![o].status = "closed"] /\ held' = [held EXCEPT ![o].open = FALSE] BY DEF Desk!Exit
<1>3. opp = [c \in Desk(K)!Cand |-> opp[c]] BY DEF RegInv, TablesInv, RowsInv, RowsType
<1>4. held = [c \in Desk(K)!Cand |-> [cycle |-> held[c].cycle, open |-> held[c].open]]
  BY DEF RegInv, DeskType
<1>5. opp' = [c \in Desk(K)!Cand |-> IF c \in {o} THEN [opp[c] EXCEPT !.status = "closed"] ELSE opp[c]]
  BY <1>2, <1>3
<1>6. held' = [c \in Desk(K)!Cand |-> [cycle |-> held'[c].cycle, open |-> held'[c].open]]
      /\ \A c \in Desk(K)!Cand : held'[c].cycle = held[c].cycle /\ (held'[c].open => held[c].open)
  <2> DEFINE h == held[o]
             v == [h EXCEPT !.open = FALSE]
  <2>1. DOMAIN held = Desk(K)!Cand BY <1>4
  <2>2. held' = [held EXCEPT ![o] = v] BY <1>2
  <2>3. h = [cycle |-> h.cycle, open |-> h.open] BY <1>4
  <2> HIDE DEF h
  <2>p. PICK x, y : h = [cycle |-> x, open |-> y] BY <2>3
  <2>5. v.cycle = h.cycle /\ ~v.open /\ v = [cycle |-> v.cycle, open |-> v.open] BY <2>p, Closed
  <2> HIDE DEF v
  <2>4. held' = [c \in Desk(K)!Cand |-> IF c = o THEN v ELSE held[c]] BY <2>1, <2>2
  <2>6. \A c \in Desk(K)!Cand : held[c] = [cycle |-> held[c].cycle, open |-> held[c].open] BY <1>4
  <2>7. ASSUME NEW c \in Desk(K)!Cand
        PROVE  /\ held'[c] = [cycle |-> held'[c].cycle, open |-> held'[c].open]
               /\ held'[c].cycle = held[c].cycle /\ (held'[c].open => held[c].open)
    <3>1. CASE c = o BY <2>4, <2>5, <3>1 DEF h
    <3>2. CASE c # o BY <2>4, <2>6, <3>2
    <3> QED BY <3>1, <3>2
  <2> QED BY <2>4, <2>7
<1>7. opp[o].state = "active" /\ \A c \in Desk(K)!Cand : held[c].open => held[c].cycle # 0
  BY <1>1 DEF RegInv, TablesInv
<1>8. "closed" \notin Desk(K)!Live BY DEF Desk!Live
<1>9. TablesInv(K)' /\ RedoInv(K)'
  <2>1. {o} \in SUBSET Desk(K)!Cand /\ \A c \in {o} : opp[c].state = "active" BY <1>7
  <2>2. \A c \in Desk(K)!Cand :
          /\ held'[c].open => held'[c].cycle # 0
          /\ held'[c].cycle # 0 => held[c].cycle # 0 \/ (c \in {o} /\ Taken(last.drafts, c))
    BY <1>6, <1>7
  <2>3. UNCHANGED <<candidate, found, day, last>> BY <1>1
  <2>4. "closed" \notin Desk(K)!Live \/ (stage \in Reviewing /\ \A c \in {o} : Taken(drafts, c)) BY <1>8
  <2>5. held' = [c \in Desk(K)!Cand |-> [cycle |-> held'[c].cycle, open |-> held'[c].open]] BY <1>6
  <2>6. Marks(K, {o}, "closed") BY <1>5, <2>1, <2>2, <2>3, <2>4, <2>5 DEF Marks
  <2> QED BY <2>1, <2>6, StatusStep
<1>10. DeskType(K)' BY <1>1, <1>6 DEF RegInv, DeskType, Desk!Cand, Desk!Steps
<1>11. StageInv(K)' BY <1>1 DEF StageInv, Reviewing
<1> QED BY <1>9, <1>10, <1>11 DEF RegInv

\* What is reviewed is a draft.
LEMMA RankKeeps ==
  ASSUME NEW K, Desk(K)!DeskAssumption, RegInv(K), \A o \in reviewed : Taken(drafts, o),
         NEW passed \in SUBSET reviewed, Desk(K)!Rank(passed)
  PROVE  RegInv(K)'
<1>1. /\ UNCHANGED <<candidate, found, day, last, seat, held, drafts>>
      /\ stage = "rank" /\ stage' \in {"open", "complete"}
  BY DEF Desk!Rank
<1>2. stage \in Reviewing /\ DraftsInv(K, opp, found, drafts) BY <1>1 DEF RegInv, StageInv, Reviewing
<1>3. \A o \in passed : Taken(drafts, o) /\ o \in Desk(K)!Cand /\ opp[o].state = "active"
  BY <1>2 DEF DraftsInv, DraftInv, Taken
<1>4. opp' = [c \in Desk(K)!Cand |-> IF c \in passed THEN [opp[c] EXCEPT !.status = "ranked"] ELSE opp[c]]
  BY DEF Desk!Rank
<1>5. held' = [c \in Desk(K)!Cand |-> [cycle |-> held'[c].cycle, open |-> held'[c].open]]
      /\ \A c \in Desk(K)!Cand : held[c].open => held[c].cycle # 0
  BY <1>1 DEF RegInv, DeskType, TablesInv
<1>6. passed \in SUBSET Desk(K)!Cand BY <1>3
<1>7. TablesInv(K)' /\ RedoInv(K)' /\ DraftsInv(K, opp', found', drafts)
  <2>1. \A c \in Desk(K)!Cand :
          /\ held'[c].open => held'[c].cycle # 0
          /\ held'[c].cycle # 0 => held[c].cycle # 0 \/ (c \in passed /\ Taken(last.drafts, c))
    BY <1>1, <1>5
  <2>2. UNCHANGED <<candidate, found, day, last>> BY <1>1
  <2>3. "ranked" \notin Desk(K)!Live \/ (stage \in Reviewing /\ \A c \in passed : Taken(drafts, c))
    BY <1>2, <1>3
  <2>4. held' = [c \in Desk(K)!Cand |-> [cycle |-> held'[c].cycle, open |-> held'[c].open]] BY <1>5
  <2>5. \A c \in passed : opp[c].state = "active" BY <1>3
  <2>6. Marks(K, passed, "ranked") BY <1>4, <2>1, <2>2, <2>3, <2>4, <2>5 DEF Marks
  <2> QED BY <1>1, <1>2, <1>6, <2>6, StatusStep
<1>8. DeskType(K)' BY <1>1 DEF RegInv, DeskType, Desk!Cand, Desk!Steps
<1>9. StageInv(K)'
  <2>1. DraftsInv(K, opp, found, drafts)' BY <1>1, <1>7, DraftsNext
  <2> QED BY <1>1, <2>1, SameStories DEF RegInv, StageInv, Reviewing
<1> QED BY <1>7, <1>8, <1>9 DEF RegInv

LEMMA OpenKeeps ==
  ASSUME NEW K, Desk(K)!DeskAssumption, RegInv(K), \A o \in reviewed : Taken(drafts, o),
         NEW o \in Desk(K)!Cand, Desk(K)!OpenShadow(o)
  PROVE  RegInv(K)'
<1>1. /\ UNCHANGED <<candidate, found, day, last>>
      /\ stage = "open" /\ stage' = "complete" /\ seat' = 1 /\ o \in reviewed
  BY DEF Desk!OpenShadow, Desk!Goes, Desk!NoReview
<1>2. stage \in Reviewing /\ drafts = last.drafts /\ DraftsInv(K, opp, found, drafts)
  BY <1>1 DEF RegInv, StageInv, Reviewing
<1>3. Taken(drafts, o) /\ opp[o].state = "active" BY <1>1, <1>2 DEF DraftsInv, DraftInv, Taken
<1>4. opp' = [opp EXCEPT ![o].status = "shadow"] /\ held' = [held EXCEPT ![o] = [cycle |-> day, open |-> TRUE]]
  BY DEF Desk!OpenShadow
<1>5. opp = [c \in Desk(K)!Cand |-> opp[c]] BY DEF RegInv, TablesInv, RowsInv, RowsType
<1>6. held = [c \in Desk(K)!Cand |-> [cycle |-> held[c].cycle, open |-> held[c].open]]
  BY DEF RegInv, DeskType
<1>7. opp' = [c \in Desk(K)!Cand |-> IF c \in {o} THEN [opp[c] EXCEPT !.status = "shadow"] ELSE opp[c]]
  BY <1>4, <1>5
<1>8. day # 0 /\ \A c \in Desk(K)!Cand : held[c].open => held[c].cycle # 0
  BY DeskConstants DEF RegInv, DeskType, TablesInv
<1>9. held' = [c \in Desk(K)!Cand |-> [cycle |-> held'[c].cycle, open |-> held'[c].open]]
      /\ \A c \in Desk(K)!Cand : c # o => held'[c] = held[c]
  BY <1>4, <1>6
<1>10. held'[o].cycle = day BY <1>4, <1>6
<1>11. \A c \in Desk(K)!Cand : /\ held'[c].open => held'[c].cycle # 0
                               /\ held'[c].cycle # 0 => held[c].cycle # 0 \/ (c \in {o} /\ Taken(last.drafts, c))
  <2> SUFFICES ASSUME NEW c \in Desk(K)!Cand
               PROVE  /\ held'[c].open => held'[c].cycle # 0
                      /\ held'[c].cycle # 0 => held[c].cycle # 0 \/ (c \in {o} /\ Taken(last.drafts, c))
    OBVIOUS
  <2>1. CASE c = o BY <1>2, <1>3, <1>8, <1>10, <2>1
  <2>2. CASE c # o BY <1>8, <1>9, <2>2
  <2> QED BY <2>1, <2>2
<1>12. TablesInv(K)' /\ RedoInv(K)'
  <2>1. \A c \in {o} : opp[c].state = "active" /\ Taken(drafts, c) BY <1>3
  <2>2. UNCHANGED <<candidate, found, day, last>> BY <1>1
  <2>3. "shadow" \notin Desk(K)!Live \/ (stage \in Reviewing /\ \A c \in {o} : Taken(drafts, c))
    BY <1>2, <2>1
  <2>4. held' = [c \in Desk(K)!Cand |-> [cycle |-> held'[c].cycle, open |-> held'[c].open]] BY <1>9
  <2>5. {o} \in SUBSET Desk(K)!Cand /\ \A c \in {o} : opp[c].state = "active" BY <2>1
  <2>6. Marks(K, {o}, "shadow") BY <1>7, <1>11, <2>2, <2>3, <2>4, <2>5 DEF Marks
  <2> QED BY <2>5, <2>6, StatusStep
<1>13. DeskType(K)' BY <1>1, <1>9 DEF RegInv, DeskType, Desk!Cand, Desk!Steps
<1>14. StageInv(K)' BY <1>1 DEF StageInv, Reviewing
<1> QED BY <1>12, <1>13, <1>14 DEF RegInv

-----------------------------------------------------------------------------
\* Candidates are found: the stories of the batch grow together.
LEMMA ScoutsKeep ==
  ASSUME NEW K, Desk(K)!DeskAssumption, RegInv(K), NEW F, Desk(K)!Scouts(F), stage = "scouts"
  PROVE  RegInv(K)'
<1>1. UNCHANGED <<opp, found, held, day, last>> /\ stage' \in {"complete", "foundry"} /\ seat' = 1
      /\ (stage' = "foundry" => Desk(K)!Batch' # {})
  BY DEF Desk!Scouts, Desk!Goes, Desk!NoReview
<1>2. candidate' = [c \in Desk(K)!Cand |-> candidate'[c]] BY DEF Desk!Scouts
<1>3. \A c \in Desk(K)!Cand : candidate[c] # Desk(K)!Nothing => candidate'[c] = candidate[c]
  BY DEF Desk!Scouts
<1>4. \A c \in Desk(K)!Cand : c[1] # day => candidate'[c] = candidate[c] BY DEF Desk!Scouts
<1>5. Desk(K)!Batch \subseteq Desk(K)!Batch' /\ \A c \in Desk(K)!Batch : candidate'[c] = candidate[c]
  BY <1>1, <1>3 DEF Desk!Batch, Desk!Cand, Desk!Nothing
<1>6. /\ \A c \in Desk(K)!Batch : Desk(K)!Group(c) \subseteq Desk(K)!Group(c)'
      /\ Desk(K)!Anchors' \cap Desk(K)!Batch \subseteq Desk(K)!Anchors
  BY <1>5, GroupsGrow
<1>7. RowsType(K, opp, found) /\ MergedInv(K, opp, found) /\ AnchorInv(K, opp)
      /\ SettledInv(K, opp, last.drafts)
  BY DEF RegInv, TablesInv, RowsInv
<1>k. day \in Nat BY DeskConstants DEF RegInv
\* Whoever has a row was a candidate before.
<1>8. \A c \in Desk(K)!Cand : opp[c].state # "none" => candidate[c] # Desk(K)!Nothing
  BY DEF RegInv, TablesInv
<1>9. \A c \in Desk(K)!Anchors' : c \in Desk(K)!Cand /\ c[1] = day BY <1>1 DEF Desk!Anchors, Desk!Batch, Desk!Cand
<1>10. \A c \in Desk(K)!Anchors' : opp[c].state # "none" => c \in Desk(K)!Anchors /\ c \in Desk(K)!Batch
  <2>1. \A c \in Desk(K)!Cand : c[1] = day /\ candidate[c] # Desk(K)!Nothing => c \in Desk(K)!Batch
    BY DEF Desk!Batch
  <2> QED BY <1>6, <1>8, <1>9, <2>1
<1>11. RowsType(K, opp, found)' BY <1>1, <1>7 DEF RowsType, IsRow, Fields, Desk!Cand
<1>12. MergedInv(K, opp, found)'
  <2> SUFFICES ASSUME NEW c \in Desk(K)!Cand, opp[c].state = "merged"
               PROVE  /\ opp[c].status = "rejected" /\ found[c] # "none"
                      /\ opp[c].parent \in Desk(K)!Cand \ Desk(K)!Anchors' /\ opp[opp[c].parent].state = "active"
                      /\ c \in Desk(K)!Batch' /\ found[c] = "refreshed" =>
                           \E x \in Desk(K)!Group(c)' : Says(opp, opp[c].parent, x)'
    BY <1>1 DEF MergedInv, Desk!Cand
  <2> DEFINE p == opp[c].parent
  <2>1. /\ opp[c].status = "rejected" /\ found[c] # "none"
        /\ p \in Desk(K)!Cand \ Desk(K)!Anchors /\ opp[p].state = "active"
    BY <1>7 DEF MergedInv
  <2>2. p \notin Desk(K)!Anchors' BY <1>10, <2>1
  <2>3. ASSUME c \in Desk(K)!Batch', found[c] = "refreshed"
        PROVE  \E x \in Desk(K)!Group(c)' : Says(opp, p, x)'
    <3>1. c \in Desk(K)!Batch
      <4>1. c[1] = day BY <1>1, <2>3 DEF Desk!Batch
      <4> QED BY <1>8, <4>1 DEF Desk!Batch
    <3>2. PICK x \in Desk(K)!Group(c) : Says(opp, p, x) BY <1>7, <2>3, <3>1 DEF MergedInv
    <3>3. x \in Desk(K)!Batch BY <3>1, <3>2, GroupIs
    <3>4. candidate'[x] = candidate[x] /\ x \in Desk(K)!Group(c)' BY <1>5, <1>6, <3>1, <3>2, <3>3
    <3>5. Says(opp, p, x)' BY <1>1, <3>2, <3>4 DEF Says
    <3> QED BY <3>4, <3>5
  <2> QED BY <2>1, <2>2, <2>3
<1>13. AnchorInv(K, opp)' BY <1>1, <1>5, <1>7, <1>10 DEF AnchorInv, Says
<1>14. SettledInv(K, opp, last.drafts)'
  <2> SUFFICES ASSUME NEW c \in Desk(K)!Cand, c \in Desk(K)!Anchors', held[c].cycle # 0 \/ Taken(last.drafts, c)
               PROVE  opp[c].state = "active" /\ Desk(K)!Parents(opp, Desk(K)!Own(c))' = {}
    BY <1>1 DEF SettledInv, Settled, Taken, Desk!Cand
  <2>1. opp[c].state = "active" BY DEF RegInv, TablesInv, Taken
  <2>2. c \in Desk(K)!Anchors /\ c \in Desk(K)!Batch BY <1>10, <2>1
  <2>3. Desk(K)!Parents(opp, Desk(K)!Own(c)) = {} BY <1>7, <2>2 DEF SettledInv, Settled
  <2>4. candidate'[c] = candidate[c] BY <1>5, <2>2
  <2>5. ASSUME NEW p \in Desk(K)!Parents(opp, Desk(K)!Own(c))' PROVE FALSE
    <3>1. /\ p \in Desk(K)!Cand \ Desk(K)!Anchors' /\ opp[p].state = "active" /\ opp[p].status \in Desk(K)!Live
          /\ opp[p].exact = candidate[c].exact \/ opp[p].structural = candidate[c].structural
      BY <1>1, <2>4, <2>5 DEF Desk!Parents, Desk!Own, Desk!Cand, Desk!Live
    <3>2. p \in Desk(K)!Anchors
      <4>1. p \notin Desk(K)!Parents(opp, Desk(K)!Own(c)) BY <2>3
      <4> QED BY <3>1, <4>1, ParentsAre
    <3>3. Says(opp, p, p) BY <1>7, <3>1, <3>2 DEF AnchorInv
    <3>4. Desk(K)!Alike(p, c) BY <3>1, <3>3 DEF Says, Desk!Alike
    <3>5. p \in Desk(K)!Group(p) BY <3>2, AnchorsIn, GroupIs
    <3>6. p = c BY <2>2, <3>2, <3>4, <3>5, OneAnchor
    <3> QED BY <3>1, <3>6
  <2> QED BY <2>1, <2>5
<1>15. RowsInv(K, opp, found, last.drafts)' BY <1>11, <1>12, <1>13, <1>14 DEF RowsInv
<1>16. TablesInv(K)'
  <2>1. ASSUME NEW c \in Desk(K)!Cand
        PROVE  /\ opp[c].state # "none" => candidate'[c] # Desk(K)!Nothing
               /\ candidate'[c] # Desk(K)!Nothing => c[1] <= day
               /\ held[c].open => held[c].cycle # 0
               /\ held[c].cycle # 0 => opp[c].state = "active"
    <3>1. c[1] = day => c[1] <= day BY <1>k
    <3> QED BY <1>3, <1>4, <3>1 DEF RegInv, TablesInv
  <2>2. last.batch \subseteq Desk(K)!Batch' BY <1>5 DEF RegInv, TablesInv
  <2>3. \A i \in DOMAIN last.drafts : last.drafts[i].id \in Desk(K)!Cand /\ opp[last.drafts[i].id].state = "active"
    BY DEF RegInv, TablesInv
  <2> QED BY <1>1, <1>15, <2>1, <2>2, <2>3 DEF TablesInv, Desk!Cand, Desk!Nothing
<1>17. DeskType(K)' BY <1>1, <1>2 DEF RegInv, DeskType, Desk!Cand, Desk!Steps
<1>18. StageInv(K)' BY <1>1 DEF StageInv, Reviewing
\* The same batch as was resolved: nothing was found.
<1>19. RedoInv(K)'
  <2>1. CASE last.batch = Desk(K)!Batch'
    <3>1. Desk(K)!Batch' = Desk(K)!Batch BY <1>5, <2>1 DEF RegInv, TablesInv
    <3>2. \A c \in Desk(K)!Cand : candidate'[c] = candidate[c]
      <4> SUFFICES ASSUME NEW c \in Desk(K)!Cand, candidate'[c] # candidate[c] PROVE FALSE
        OBVIOUS
      <4>1. candidate[c] = Desk(K)!Nothing /\ c[1] = day BY <1>3, <1>4
      <4>2. c \in Desk(K)!Batch' BY <1>1, <4>1 DEF Desk!Batch, Desk!Cand, Desk!Nothing
      <4> QED BY <3>1, <4>1, <4>2 DEF Desk!Batch
    <3>3. candidate' = candidate
      <4>1. candidate = [c \in Desk(K)!Cand |-> candidate[c]] BY DEF RegInv, DeskType
      <4> QED BY <1>2, <3>2, <4>1
    <3> QED BY <1>1, <1>7, <3>3, RedoNext DEF RegInv
  <2>2. CASE last.batch # Desk(K)!Batch' BY <1>1, <2>2 DEF RedoInv
  <2> QED BY <2>1, <2>2
<1> QED BY <1>16, <1>17, <1>18, <1>19 DEF RegInv

-----------------------------------------------------------------------------
\* The Foundry writes a row for each anchor that has none.
LEMMA MaterializeKeeps ==
  ASSUME NEW K, Desk(K)!DeskAssumption, RegInv(K), Desk(K)!Materialize
  PROVE  RegInv(K)'
<1>1. UNCHANGED <<candidate, found, held, day, last>> /\ stage = "foundry" /\ stage' = "resolve" /\ seat' = 1
  BY DEF Desk!Materialize, Desk!Goes, Desk!NoReview
<1>2. RowsType(K, opp, found) /\ MergedInv(K, opp, found) /\ AnchorInv(K, opp)
      /\ SettledInv(K, opp, last.drafts)
  BY DEF RegInv, TablesInv, RowsInv
<1>k. day \in Nat BY DeskConstants DEF RegInv
<1> DEFINE New(c) == [state |-> "active", status |-> "forming", parent |-> Desk(K)!Nobody,
                      exact |-> Desk(K)!Own(c).exact, structural |-> Desk(K)!Own(c).structural,
                      evidence |-> Desk(K)!Own(c).evidence, snap |-> Desk(K)!Own(c).snap, known |-> day]
<1>3. opp' = [c \in Desk(K)!Cand |-> IF c \in Desk(K)!Anchors /\ opp[c].state = "none" THEN New(c) ELSE opp[c]]
  BY DEF Desk!Materialize
<1>4. ASSUME NEW c
      PROVE  /\ IsRow(New(c)) /\ New(c).state = "active"
             /\ New(c).exact = candidate[c].exact /\ New(c).structural = candidate[c].structural
  BY <1>k, OwnIs DEF IsRow, Fields
<1> HIDE DEF New
<1>5. \A c \in Desk(K)!Cand : opp[c].state # "none" \/ c \notin Desk(K)!Anchors => opp'[c] = opp[c] BY <1>3
<1>6. \A c \in Desk(K)!Anchors : opp[c].state = "none" =>
        opp'[c].state = "active" /\ IsRow(opp'[c]) /\ Says(opp', c, c)
  BY <1>3, <1>4, AnchorsIn DEF Says
<1>7. RowsType(K, opp', found')
  <2>1. \A c \in Desk(K)!Cand : IsRow(opp'[c]) BY <1>2, <1>5, <1>6 DEF RowsType
  <2>2. opp' = [c \in Desk(K)!Cand |-> opp'[c]] BY <1>3
  <2> QED BY <1>1, <1>2, <2>1, <2>2 DEF RowsType
<1>8. MergedInv(K, opp', found')
  <2> SUFFICES ASSUME NEW c \in Desk(K)!Cand, opp'[c].state = "merged"
               PROVE  /\ opp'[c].status = "rejected" /\ found[c] # "none"
                      /\ opp'[c].parent \in Desk(K)!Cand \ Desk(K)!Anchors /\ opp'[opp'[c].parent].state = "active"
                      /\ c \in Desk(K)!Batch /\ found[c] = "refreshed" =>
                           \E x \in Desk(K)!Group(c) : Says(opp', opp'[c].parent, x)
    BY <1>1 DEF MergedInv
  <2>1. opp'[c] = opp[c] BY <1>5, <1>6
  <2>2. opp[c].parent \in Desk(K)!Cand \ Desk(K)!Anchors /\ opp'[opp[c].parent] = opp[opp[c].parent]
    BY <1>2, <1>5, <2>1 DEF MergedInv
  <2> QED BY <1>2, <2>1, <2>2 DEF MergedInv, Says
<1>9. AnchorInv(K, opp') BY <1>2, <1>5, <1>6, AnchorsIn DEF AnchorInv, Says
<1>10. ASSUME NEW c \in Desk(K)!Anchors, held'[c].cycle # 0 \/ Taken(last'.drafts, c)
       PROVE  opp'[c].state = "active" /\ Desk(K)!Parents(opp', Desk(K)!Own(c)) = {}
  <2>1. c \in Desk(K)!Cand /\ Settled(K, last.drafts, c) BY <1>1, <1>10, AnchorsIn DEF Settled
  <2>2. opp[c].state = "active" /\ Desk(K)!Parents(opp, Desk(K)!Own(c)) = {} BY <1>2, <2>1 DEF SettledInv
  <2>3. opp'[c].state = "active" BY <1>5, <2>1, <2>2
  <2>4. ASSUME NEW p \in Desk(K)!Parents(opp', Desk(K)!Own(c)) PROVE FALSE
    <3>1. p \in Desk(K)!Cand \ Desk(K)!Anchors BY <2>4 DEF Desk!Parents
    <3>2. opp'[p] = opp[p] BY <1>5, <3>1
    <3>3. p \in Desk(K)!Parents(opp, Desk(K)!Own(c)) BY <2>4, <3>2 DEF Desk!Parents
    <3> QED BY <2>2, <3>3
  <2> QED BY <2>3, <2>4
<1>11. RowsInv(K, opp, found, last.drafts)' BY <1>1, <1>7, <1>8, <1>9, <1>10, RowsNext
<1>12. TablesInv(K)'
  <2>1. ASSUME NEW c \in Desk(K)!Cand
        PROVE  /\ opp'[c].state # "none" => candidate[c] # Desk(K)!Nothing
               /\ candidate[c] # Desk(K)!Nothing => c[1] <= day
               /\ held[c].open => held[c].cycle # 0
               /\ held[c].cycle # 0 => opp'[c].state = "active"
    <3>1. c \in Desk(K)!Anchors => candidate[c] # Desk(K)!Nothing BY AnchorsIn DEF Desk!Batch
    <3>2. opp[c].state = "active" => opp'[c].state = "active" BY <1>5
    <3> QED BY <1>5, <3>1, <3>2 DEF RegInv, TablesInv
  <2>2. \A i \in DOMAIN last.drafts : last.drafts[i].id \in Desk(K)!Cand /\ opp'[last.drafts[i].id].state = "active"
    BY <1>5 DEF RegInv, TablesInv
  <2>3. last.batch \subseteq Desk(K)!Batch' BY <1>1, SameStories DEF RegInv, TablesInv
  <2> QED BY <1>1, <1>11, <2>1, <2>2, <2>3 DEF TablesInv, Desk!Cand, Desk!Nothing
\* If the batch was resolved before, every anchor has its row.
<1>13. RedoInv(K)'
  <2>1. ASSUME last.batch = Desk(K)!Batch, NEW c \in Desk(K)!Anchors PROVE opp[c].state # "none"
    <3>1. Desk(K)!Batch # {} BY AnchorsIn
    <3>2. opp[c].state = "merged" \/ Taken(last.drafts, c) BY <2>1, <3>1 DEF RegInv, RedoInv
    <3> QED BY <3>2 DEF RegInv, TablesInv, Taken
  <2>2. last.batch = Desk(K)!Batch => \A c \in Desk(K)!Cand : opp'[c] = opp[c] BY <1>5, <2>1
  <2> QED BY <1>1, <1>2, <2>2, RedoNext DEF RegInv
<1>14. DeskType(K)' BY <1>1 DEF RegInv, DeskType, Desk!Cand, Desk!Steps
<1>15. StageInv(K)'
  <2>1. Desk(K)!Batch # {} BY <1>1 DEF RegInv, StageInv
  <2>2. \A c \in Desk(K)!Anchors : opp'[c].state # "none" BY <1>5, <1>6, AnchorsIn
  <2> QED BY <1>1, <2>1, <2>2, SameStories DEF StageInv, Reviewing
<1> QED BY <1>12, <1>13, <1>14, <1>15 DEF RegInv

-----------------------------------------------------------------------------
\* A transaction that finds every anchor merged or without parents changes no
\* row, and says again what was said before.
LEMMA WalkAgain ==
  ASSUME NEW K, Desk(K)!DeskAssumption, day \in Nat, NEW N \in Nat, NEW f, IsWalk(K, f, N), AccInv(K, Base),
         \A c \in Desk(K)!Anchors : opp[c].state = "merged" \/ Desk(K)!Parents(opp, Desk(K)!Own(c)) = {},
         NEW w, Repeats(K, opp, found, w, N), NEW n \in 0..N
  PROVE  f[n].rows = opp /\ f[n].events = found /\ f[n].drafts = w[n]
<1> DEFINE Same(m) == f[m].rows = opp /\ f[m].events = found /\ f[m].drafts = w[m]
           T == {m \in 0..N : ~ Same(m)}
<1> SUFFICES ASSUME T # {} PROVE FALSE
  OBVIOUS
<1>1. PICK m \in T : \A k \in T : m <= k
  <2>1. T \subseteq Nat OBVIOUS
  <2> HIDE DEF T
  <2> QED BY <2>1, Least
<1>m. m \in 0..N /\ m \in Nat /\ ~ Same(m)
  <2> HIDE DEF Same
  <2>1. m \in T BY <1>1
  <2>2. m \in 0..N /\ ~ Same(m) BY <2>1, Zenon
  <2> QED BY <2>2
<1>2. f[m] = Body(K, f, m) BY <1>m DEF IsWalk
<1>3. CASE m = 0
  <2>1. f[0] = Base /\ w[0] = <<>> BY <1>2, <1>3 DEF Body, Repeats
  <2> QED BY <1>m, <1>3, <2>1 DEF Base
<1>4. CASE m # 0
  <2> DEFINE k == m - 1
             c == <<day, m>>
  <2>1. k \in 0..N /\ m \in 1..N BY <1>m, <1>4
  <2>2. Same(k)
    <3>1. k \notin T BY <1>1, <1>m, <1>4
    <3> QED BY <2>1, <3>1
  <2>3. f[m] = IF c \in Desk(K)!Anchors THEN Desk(K)!ResolveOne(f[k], Desk(K)!Own(c)) ELSE f[k]
    BY <1>2, <1>4 DEF Body
  <2>4. w[m] = IF c \in Desk(K)!Anchors THEN Adds(K, opp, found, c, w[k]) ELSE w[k] BY <2>1 DEF Repeats
  <2> HIDE DEF k, c
  <2>5. CASE c \notin Desk(K)!Anchors BY <1>m, <2>2, <2>3, <2>4, <2>5
  <2>6. CASE c \in Desk(K)!Anchors
    <3>1. AccInv(K, f[k]) BY <2>1, WalkInv
    <3>2. StepKeeps(K, f[k], c, f[m]) BY <2>3, <2>6, <3>1, ResolveKeeps
    <3>3. f[k].rows[c].state = "merged" \/ Desk(K)!Parents(f[k].rows, Desk(K)!Own(c)) = {} BY <2>2, <2>6
    <3>4. f[m].rows = opp /\ f[m].events = found BY <2>2, <3>2, <3>3 DEF StepKeeps
    <3>5. f[m].drafts = Adds(K, opp, found, c, w[k]) BY <2>2, <3>2, <3>4 DEF StepKeeps
    <3> QED BY <1>m, <2>4, <2>6, <3>4, <3>5
  <2> QED BY <2>5, <2>6
<1> QED BY <1>3, <1>4

\* The transaction as a whole keeps what the desk keeps; run again on the same
\* batch it hands out the same drafts.
LEMMA ResolveStep ==
  ASSUME NEW K, Desk(K)!DeskAssumption, RegInv(K), Desk(K)!Resolve
  PROVE  RegInv(K)' /\ (last.batch = Desk(K)!Batch => drafts' = last.drafts)
<1> DEFINE A == Desk(K)!Resolution
           N == K.slots[day]
<1>1. /\ UNCHANGED <<candidate, held, day>> /\ stage = "resolve" /\ stage' \in {"review", "complete"}
      /\ seat' = 1 /\ opp' = A.rows /\ found' = A.events /\ drafts' = A.drafts
      /\ last' = [batch |-> Desk(K)!Batch, drafts |-> A.drafts]
  BY DEF Desk!Resolve, Desk!Goes, Desk!NoReview
<1>2. Desk(K)!Batch # {} /\ \A c \in Desk(K)!Anchors : opp[c].state # "none" BY <1>1 DEF RegInv, StageInv
<1>3. day \in Nat /\ N \in Nat BY <1>2, DeskConstants DEF RegInv
<1>4. RowsInv(K, opp, found, last.drafts) BY DEF RegInv, TablesInv
<1>5. AccInv(K, Base)
  <2>1. Acc(Base) /\ Base.rows = opp /\ Base.events = found /\ Base.drafts = <<>> BY DEF Base, Acc
  <2>2. ~ \E i \in DOMAIN <<>> : TRUE OBVIOUS
  <2>3. SettledInv(K, opp, <<>>) BY <1>4, <2>2 DEF RowsInv, SettledInv, Settled, Taken
  <2>4. DraftsInv(K, opp, found, <<>>)
    <3>1. <<>> \in Seq({}) OBVIOUS
    <3> QED BY <2>2, <3>1 DEF DraftsInv
  <2>5. RowsInv(K, opp, found, <<>>) BY <1>4, <2>3 DEF RowsInv
  <2> QED BY <1>2, <2>1, <2>4, <2>5 DEF AccInv
<1>6. PICK f : IsWalk(K, f, N) /\ A = f[N]
  <2> HIDE DEF A
  <2> QED BY <1>3, ResolutionIs DEF A
<1> HIDE DEF A
<1>7. AccInv(K, A) /\ Looked(K, A, N) /\ Repeats(K, A.rows, A.events, DraftsOf(f), N)
  <2>1. N \in 0..N BY <1>3
  <2> HIDE DEF N
  <2> QED BY <1>3, <1>5, <1>6, <2>1, WalkInv
<1>8. DraftsOf(f)[N] = A.drafts
  <2>1. DOMAIN f = 0..N BY <1>6 DEF IsWalk
  <2> QED BY <1>3, <1>6, <2>1 DEF DraftsOf
<1>9. RowsInv(K, opp', found', drafts') /\ DraftsInv(K, opp', found', drafts') BY <1>1, <1>7 DEF AccInv
<1>10. RowsInv(K, opp, found, last.drafts)'
  <2>1. \A c \in Desk(K)!Anchors : held'[c].cycle # 0 \/ Taken(last'.drafts, c) =>
           opp'[c].state = "active" /\ Desk(K)!Parents(opp', Desk(K)!Own(c)) = {}
    BY <1>1, <1>9, AnchorsIn DEF RowsInv, SettledInv, Settled
  <2> QED BY <1>1, <1>9, <2>1, RowsNext DEF RowsInv
<1>11. TablesInv(K)'
  <2>1. ASSUME NEW c \in Desk(K)!Cand
        PROVE  /\ opp'[c].state # "none" => candidate[c] # Desk(K)!Nothing
               /\ candidate[c] # Desk(K)!Nothing => c[1] <= day
               /\ held[c].open => held[c].cycle # 0
               /\ held[c].cycle # 0 => opp'[c].state = "active"
    <3>1. opp'[c].state # "none" => opp[c].state # "none" BY <1>1, <1>7 DEF AccInv
    <3>2. ASSUME held[c].cycle # 0 PROVE opp'[c].state = "active"
      <4>1. CASE c \in Desk(K)!Anchors BY <1>9, <3>2, <4>1 DEF RowsInv, SettledInv, Settled
      <4>2. CASE c \notin Desk(K)!Anchors
        <5>1. opp'[c].state = opp[c].state BY <1>1, <1>7, <4>2 DEF AccInv
        <5> QED BY <3>2, <5>1 DEF RegInv, TablesInv
      <4> QED BY <4>1, <4>2
    <3> QED BY <3>1, <3>2 DEF RegInv, TablesInv
  <2>2. \A i \in DOMAIN last'.drafts : last'.drafts[i].id \in Desk(K)!Cand /\ opp'[last'.drafts[i].id].state = "active"
    BY <1>1, <1>9 DEF DraftsInv, DraftInv
  <2>3. last'.batch \subseteq Desk(K)!Batch' BY <1>1, SameStories
  <2> QED BY <1>1, <1>10, <2>1, <2>2, <2>3 DEF TablesInv, Desk!Cand, Desk!Nothing
<1>12. DeskType(K)'
  <2>1. \E S : last'.drafts \in Seq(S) BY <1>1, <1>9 DEF DraftsInv
  <2>2. last' = [batch |-> last'.batch, drafts |-> last'.drafts] BY <1>1
  <2> QED BY <1>1, <2>1, <2>2 DEF RegInv, DeskType, Desk!Cand, Desk!Steps
<1>13. StageInv(K)'
  <2>1. DraftsInv(K, opp, found, drafts)' BY <1>1, <1>9, DraftsNext
  <2> QED BY <1>1, <1>2, <2>1, SameStories DEF StageInv, Reviewing
<1>14. RedoInv(K)'
  <2>1. ASSUME NEW c \in Desk(K)!Anchors PROVE opp'[c].state = "merged" \/ Taken(last'.drafts, c)
    <3>1. c \in Desk(K)!Cand /\ c[1] = day BY AnchorsIn DEF Desk!Batch
    <3>2. c[2] <= N BY <1>3, <3>1, CandIs
    <3> QED BY <1>1, <1>7, <3>2 DEF Looked
  <2>2. PICK w : Repeats(K, opp', found', w, N) /\ w[N] = last'.drafts BY <1>1, <1>7, <1>8
  <2>3. ASSUME NEW c, NEW ds PROVE Adds(K, opp, found, c, ds)' = Adds(K, opp', found', c, ds)
    BY <1>1, SameStories DEF Adds, Desk!CanonicalDraft
  <2>4. Repeats(K, opp, found, w, K.slots[day])' BY <1>1, <2>2, <2>3, SameStories DEF Repeats
  <2>5. w[K.slots[day]]' = last'.drafts BY <1>1, <2>2
  <2>6. Redone(K, opp, found, last.drafts, K.slots[day])' BY <2>4, <2>5 DEF Redone
  <2> QED BY <1>1, <2>1, <2>6, SameStories DEF RedoInv, Taken
<1>15. ASSUME last.batch = Desk(K)!Batch PROVE drafts' = last.drafts
  <2>1. PICK w : Repeats(K, opp, found, w, N) /\ w[N] = last.drafts BY <1>2, <1>15 DEF RegInv, RedoInv, Redone
  <2>2. \A c \in Desk(K)!Anchors : opp[c].state = "merged" \/ Desk(K)!Parents(opp, Desk(K)!Own(c)) = {}
    <3>1. \A c \in Desk(K)!Anchors : opp[c].state = "merged" \/ Taken(last.drafts, c)
      BY <1>2, <1>15 DEF RegInv, RedoInv
    <3> QED BY <1>4, <3>1, AnchorsIn DEF RowsInv, SettledInv, Settled
  <2>3. N \in 0..N BY <1>3
  <2>4. f[N].drafts = w[N]
    <3> HIDE DEF N
    <3> QED BY <1>3, <1>5, <1>6, <2>1, <2>2, <2>3, WalkAgain
  <2> QED BY <1>1, <1>6, <2>1, <2>4
<1>16. RegInv(K)' BY <1>11, <1>12, <1>13, <1>14 DEF RegInv
<1> QED BY <1>15, <1>16

-----------------------------------------------------------------------------
\* The next cycle begins without candidates.
LEMMA NextCycleKeeps ==
  ASSUME NEW K, Desk(K)!DeskAssumption, RegInv(K), Desk(K)!NextCycle
  PROVE  RegInv(K)'
<1>1. UNCHANGED <<candidate, opp, found, held>> /\ stage' = "start" /\ seat' = 1
      /\ last' = [batch |-> {}, drafts |-> <<>>]
      /\ day' = IF day < K.cycles + 1 THEN day + 1 ELSE K.cycles + 1
  BY DEF Desk!NextCycle, Desk!Raise, Desk!Goes, Desk!NoReview, Desk!Unresolved, Desk!Later, Desk!registry
<1>2. day \in 1..(K.cycles + 1) /\ K.cycles \in Nat BY DeskConstants DEF RegInv, DeskType
<1>3. day' \in 1..(K.cycles + 1) /\ day <= day' BY <1>1, <1>2
<1>4. Desk(K)!Batch' = {}
  <2> SUFFICES ASSUME NEW c \in Desk(K)!Cand, c[1] = day', candidate[c] # Desk(K)!Nothing PROVE FALSE
    BY <1>1 DEF Desk!Batch, Desk!Cand, Desk!Nothing
  <2>1. c[1] <= day BY DEF RegInv, TablesInv
  <2>2. c[1] \in 1..K.cycles BY CandIs
  <2> QED BY <1>1, <1>2, <2>1, <2>2
<1>5. Desk(K)!Anchors' = {} BY <1>4 DEF Desk!Anchors
<1>6. RowsType(K, opp, found) /\ MergedInv(K, opp, found) BY DEF RegInv, TablesInv, RowsInv
<1>7. RowsType(K, opp, found)'
  <2>1. ASSUME NEW c \in Desk(K)!Cand PROVE IsRow(opp[c])'
    <3>1. IsRow(opp[c]) BY <1>6 DEF RowsType
    <3>2. opp[c].known \in 0..day' BY <1>2, <1>3, <3>1 DEF IsRow
    <3> QED BY <1>1, <3>1, <3>2 DEF IsRow, Fields
  <2> QED BY <1>1, <1>6, <2>1 DEF RowsType, Desk!Cand
<1>8. RowsInv(K, opp, found, last.drafts)'
  <2>1. MergedInv(K, opp, found)' BY <1>1, <1>4, <1>5, <1>6 DEF MergedInv, Desk!Cand
  <2>2. AnchorInv(K, opp)' BY <1>5 DEF AnchorInv
  <2>3. SettledInv(K, opp, last.drafts)' BY <1>5 DEF SettledInv, Settled
  <2> QED BY <1>7, <2>1, <2>2, <2>3 DEF RowsInv
<1>9. TablesInv(K)'
  <2>1. ASSUME NEW c \in Desk(K)!Cand
        PROVE  /\ opp[c].state # "none" => candidate[c] # Desk(K)!Nothing
               /\ candidate[c] # Desk(K)!Nothing => c[1] <= day'
               /\ held[c].open => held[c].cycle # 0
               /\ held[c].cycle # 0 => opp[c].state = "active"
    <3>1. c[1] \in Nat BY CandIs
    <3>2. c[1] <= day => c[1] <= day' BY <1>2, <1>3, <3>1
    <3> QED BY <3>2 DEF RegInv, TablesInv
  <2>2. last'.batch = {} /\ DOMAIN last'.drafts = {} BY <1>1
  <2> QED BY <1>1, <1>8, <2>1, <2>2 DEF TablesInv, Desk!Cand, Desk!Nothing
<1>10. DeskType(K)'
  <2>1. last'.drafts \in Seq({}) BY <1>1
  <2> QED BY <1>1, <1>3, <2>1 DEF RegInv, DeskType, Desk!Cand, Desk!Steps
<1>11. StageInv(K)' BY <1>1 DEF StageInv, Reviewing
<1>12. RedoInv(K)' BY <1>4 DEF RedoInv
<1> QED BY <1>9, <1>10, <1>11, <1>12 DEF RegInv

-----------------------------------------------------------------------------
(***************************************************************************)
(* Where a review is: which draft, and what has been locked and shared.    *)
(***************************************************************************)
AssessedBoth(d) ==
  \A s \in {1, 2} : \E a \in assessment : a.cycle = day /\ a.opp = d.id /\ a.seat = s /\ a.snap = d.snap
SharedOf(d) == AssessedBoth(d) /\ <<d.id, d.snap>> \in shared
TurnInv(K) ==
  /\ stage \in {"review", "lock", "share", "record"} => draft \in 1..Len(drafts)
  /\ stage = "lock" => seat \in 1..2
  /\ (stage = "lock" /\ seat = 2) \/ stage = "share" => Desk(K)!Locked(drafts[draft].id, 1) # {}
  /\ stage = "share" => Desk(K)!Locked(drafts[draft].id, 2) # {}
  /\ (stage = "review" /\ seat = 3) \/ stage = "record" => SharedOf(drafts[draft])
ReviewedInv(K) ==
  /\ reviewed # {} => stage \in Reviewing
  /\ \A o \in reviewed : Taken(drafts, o)
  /\ \A i \in DOMAIN drafts : drafts[i].id \in reviewed =>
       SharedOf(drafts[i]) /\ <<drafts[i].id, drafts[i].snap>> \in discussed
BookInv(K) ==
  \A b \in book :
    /\ \A s \in {1, 2} : \E a \in assessment : a.cycle = b.cycle /\ a.opp = b.opp /\ a.seat = s /\ a.snap = b.snap
    /\ <<b.opp, b.snap>> \in shared /\ <<b.opp, b.snap>> \in discussed
RoleInv(K) ==
  /\ role = [c \in Desk(K)!Cand |-> [s \in {1, 2, 3} |-> role[c][s]]]
  /\ \A c \in Desk(K)!Cand, s \in {1, 2, 3} :
       /\ role[c][s] = [status |-> role[c][s].status, attempts |-> role[c][s].attempts, input |-> role[c][s].input]
       /\ role[c][s].attempts \in 0..K.attempts
       /\ role[c][s].status = "none" => role[c][s].attempts = 0
ReviewInv(K) == TurnInv(K) /\ ReviewedInv(K) /\ BookInv(K) /\ RoleInv(K)
DeskInv(K) == RegInv(K) /\ ReviewInv(K)

LEMMA InReview ==
  ASSUME NEW K, DeskInv(K), stage \in {"review", "lock", "share", "record"}
  PROVE  /\ stage \in Reviewing /\ DraftsInv(K, opp, found, drafts) /\ Len(drafts) \in Nat
         /\ draft \in 1..Len(drafts) /\ draft \in DOMAIN drafts /\ seat \in 1..3
         /\ Desk(K)!Draft = drafts[draft] /\ Desk(K)!Draft.id \in Desk(K)!Cand
         /\ \A i \in DOMAIN drafts : drafts[i].id = Desk(K)!Draft.id => drafts[i].snap = Desk(K)!Draft.snap
<1>1. stage \in Reviewing /\ DraftsInv(K, opp, found, drafts) BY DEF DeskInv, RegInv, StageInv, Reviewing
<1>2. Len(drafts) \in Nat /\ DOMAIN drafts = 1..Len(drafts) BY <1>1 DEF DraftsInv
<1>3. draft \in 1..Len(drafts) /\ seat \in 1..3 BY DEF DeskInv, ReviewInv, TurnInv, RegInv, DeskType
<1>4. Desk(K)!Draft = drafts[draft] BY DEF Desk!Draft
<1>5. \A i \in DOMAIN drafts : DraftInv(K, opp, found, drafts[i]) BY <1>1 DEF DraftsInv
<1>6. \A i \in DOMAIN drafts : drafts[i].id = drafts[draft].id => drafts[i].snap = drafts[draft].snap
  BY <1>2, <1>3, <1>5 DEF DraftInv
<1> QED BY <1>1, <1>2, <1>3, <1>4, <1>5, <1>6 DEF DraftInv

LEMMA GoesLeave ==
  ASSUME NEW K, NEW s \in {"start", "scouts", "foundry", "resolve", "complete"}, Desk(K)!Goes(s)
  PROVE  TurnInv(K)' /\ ReviewedInv(K)' /\ stage' = s /\ seat' = 1
BY DEF Desk!Goes, Desk!NoReview, TurnInv, ReviewedInv, Reviewing

\* Tables that only grow.
Grows == /\ UNCHANGED <<day, drafts>> /\ assessment \subseteq assessment' /\ shared \subseteq shared'
         /\ discussed \subseteq discussed'

LEMMA BookKept ==
  ASSUME NEW K, BookInv(K), book' = book, assessment \subseteq assessment', shared \subseteq shared',
         discussed \subseteq discussed'
  PROVE  BookInv(K)'
<1> SUFFICES ASSUME NEW b \in book
             PROVE  /\ \A s \in {1, 2} : \E a \in assessment' :
                         a.cycle = b.cycle /\ a.opp = b.opp /\ a.seat = s /\ a.snap = b.snap
                    /\ <<b.opp, b.snap>> \in shared' /\ <<b.opp, b.snap>> \in discussed'
  BY DEF BookInv
<1>1. ASSUME NEW s \in {1, 2}
      PROVE  \E a \in assessment' : a.cycle = b.cycle /\ a.opp = b.opp /\ a.seat = s /\ a.snap = b.snap
  <2>1. PICK a \in assessment : a.cycle = b.cycle /\ a.opp = b.opp /\ a.seat = s /\ a.snap = b.snap
    BY DEF BookInv
  <2>2. a \in assessment' OBVIOUS
  <2> QED BY <2>1, <2>2
<1>2. <<b.opp, b.snap>> \in shared /\ <<b.opp, b.snap>> \in discussed BY DEF BookInv
<1> QED BY <1>1, <1>2

LEMMA SharedKept ==
  ASSUME NEW d, SharedOf(d), Grows
  PROVE  SharedOf(d)'
BY DEF SharedOf, AssessedBoth, Grows

LEMMA ReviewedKept ==
  ASSUME NEW K, ReviewedInv(K), Grows, reviewed' = reviewed, stage' \in Reviewing \/ reviewed = {}
  PROVE  ReviewedInv(K)'
<1>1. \A i \in DOMAIN drafts : SharedOf(drafts[i]) => SharedOf(drafts[i])'
  <2> SUFFICES ASSUME NEW i \in DOMAIN drafts, SharedOf(drafts[i]) PROVE SharedOf(drafts[i])'
    OBVIOUS
  <2> QED BY DEF SharedOf, AssessedBoth, Grows
<1> QED BY <1>1 DEF ReviewedInv, Grows, Taken, Reviewing

\* The ways a role's turn ends.
Turns(K) ==
  \/ Desk(K)!Raise
  \/ Desk(K)!NextDraft /\ UNCHANGED <<drafts, reviewed>>
  \/ \E snap : Desk(K)!Onward(snap)
  \/ UNCHANGED <<stage, drafts, draft, seat, reviewed>>

LEMMA NextDraftTurns ==
  ASSUME NEW K, draft \in 1..Len(drafts), Len(drafts) \in Nat, Desk(K)!NextDraft, drafts' = drafts
  PROVE  TurnInv(K)' /\ stage' \in {"review", "rank"} /\ seat' = 1
<1>1. CASE draft < Len(drafts)
  <2>1. stage' = "review" /\ draft' = draft + 1 /\ seat' = 1 BY <1>1 DEF Desk!NextDraft
  <2>2. draft' \in 1..Len(drafts') BY <1>1, <2>1
  <2> QED BY <2>1, <2>2 DEF TurnInv
<1>2. CASE ~(draft < Len(drafts)) BY <1>2 DEF Desk!NextDraft, TurnInv
<1> QED BY <1>1, <1>2

LEMMA OnwardTurns ==
  ASSUME NEW K, DeskInv(K), stage = "review", NEW snap, Desk(K)!Onward(snap), UNCHANGED <<day, assessment, shared>>
  PROVE  /\ TurnInv(K)' /\ stage' \in {"review", "lock", "record"} /\ seat' \in 1..3
         /\ UNCHANGED <<drafts, reviewed>>
<1>1. draft \in 1..Len(drafts) /\ seat \in 1..3 BY InReview
<1>2. CASE seat = 1
  <2>1. stage' = "review" /\ seat' = 2 /\ UNCHANGED <<drafts, draft, reviewed>> BY <1>2 DEF Desk!Onward, Desk!Moves
  <2> QED BY <1>1, <2>1 DEF TurnInv
<1>3. CASE seat = 2
  <2>1. stage' = "lock" /\ seat' = 1 /\ UNCHANGED <<drafts, draft, reviewed>> BY <1>3 DEF Desk!Onward, Desk!Moves
  <2> QED BY <1>1, <2>1 DEF TurnInv
<1>4. CASE seat = 3
  <2>1. stage' = "record" /\ seat' = 3 /\ UNCHANGED <<drafts, draft, reviewed>> BY <1>4 DEF Desk!Onward, Desk!Moves
  <2>2. SharedOf(drafts[draft]) BY <1>4 DEF DeskInv, ReviewInv, TurnInv
  <2>3. SharedOf(drafts[draft])' BY <2>1, <2>2 DEF SharedOf, AssessedBoth
  <2> QED BY <1>1, <2>1, <2>3 DEF TurnInv
<1> QED BY <1>1, <1>2, <1>3, <1>4

LEMMA TurnsKeep ==
  ASSUME NEW K, DeskInv(K), stage = "review", Turns(K), RegistryKept,
         UNCHANGED <<assessment, shared, discussed, book>>
  PROVE  RegInv(K)' /\ TurnInv(K)' /\ ReviewedInv(K)' /\ BookInv(K)'
<1>r. draft \in 1..Len(drafts) /\ Len(drafts) \in Nat /\ seat \in 1..3 /\ stage \in Reviewing BY InReview
<1>i. RegInv(K) /\ TurnInv(K) /\ ReviewedInv(K) /\ BookInv(K) BY DEF DeskInv, ReviewInv
<1>d. day' = day BY DEF RegistryKept
<1>b. BookInv(K)' BY <1>i, BookKept
<1>1. CASE Desk(K)!Raise
  <2>1. Desk(K)!Goes("start") BY <1>1 DEF Desk!Raise
  <2>2. TurnInv(K)' /\ ReviewedInv(K)' /\ stage' = "start" /\ seat' = 1 BY <2>1, GoesLeave
  <2>3. RegInv(K)' BY <1>i, <2>2, KeptStep DEF Desk!Steps
  <2> QED BY <1>b, <2>2, <2>3
<1>2. CASE Desk(K)!NextDraft /\ UNCHANGED <<drafts, reviewed>>
  <2>1. TurnInv(K)' /\ stage' \in {"review", "rank"} /\ seat' = 1 BY <1>2, <1>r, NextDraftTurns
  <2>2. ReviewedInv(K)' BY <1>2, <1>d, <1>i, <2>1, ReviewedKept DEF Grows, Reviewing
  <2>3. stage' \in Reviewing /\ stage' \in Desk(K)!Steps /\ seat' \in 1..3 BY <2>1 DEF Reviewing, Desk!Steps
  <2>4. RegInv(K)' BY <1>2, <1>i, <1>r, <2>3, KeptStep
  <2> QED BY <1>b, <2>1, <2>2, <2>4
<1>3. CASE \E snap : Desk(K)!Onward(snap)
  <2>1. TurnInv(K)' /\ stage' \in {"review", "lock", "record"} /\ seat' \in 1..3 /\ UNCHANGED <<drafts, reviewed>>
    BY <1>3, <1>d, OnwardTurns
  <2>2. ReviewedInv(K)' BY <1>d, <1>i, <2>1, ReviewedKept DEF Grows, Reviewing
  <2>3. stage' \in Reviewing /\ stage' \in Desk(K)!Steps BY <2>1 DEF Reviewing, Desk!Steps
  <2>4. RegInv(K)' BY <1>i, <1>r, <2>1, <2>3, KeptStep
  <2> QED BY <1>b, <2>1, <2>2, <2>4
<1>4. CASE UNCHANGED <<stage, drafts, draft, seat, reviewed>>
  <2>1. TurnInv(K)' BY <1>4, <1>d, <1>i DEF TurnInv, SharedOf, AssessedBoth, Desk!Locked
  <2>2. ReviewedInv(K)' BY <1>4, <1>d, <1>i, <1>r, ReviewedKept DEF Grows
  <2>3. stage' \in Desk(K)!Steps BY <1>4 DEF Desk!Steps
  <2>4. RegInv(K)' BY <1>4, <1>i, <1>r, <2>3, KeptStep
  <2> QED BY <1>b, <2>1, <2>2, <2>4
<1> QED BY <1>1, <1>2, <1>3, <1>4 DEF Turns

-----------------------------------------------------------------------------
\* What the steps do to the role runs.
LEMMA RoleKept ==
  ASSUME NEW K, RoleInv(K), role' = role
  PROVE  RoleInv(K)'
BY DEF RoleInv, Desk!Cand

IsRun(K, r) ==
  /\ \E a, b, c : r = [status |-> a, attempts |-> b, input |-> c]
  /\ r.attempts \in 0..K.attempts /\ (r.status = "none" => r.attempts = 0)

LEMMA RoleIsRun ==
  ASSUME NEW K, RoleInv(K), NEW o \in Desk(K)!Cand, NEW s \in {1, 2, 3}
  PROVE  IsRun(K, role[o][s])
<1>1. role[o][s] = [status |-> role[o][s].status, attempts |-> role[o][s].attempts, input |-> role[o][s].input]
  BY DEF RoleInv
<1>2. role[o][s].attempts \in 0..K.attempts /\ (role[o][s].status = "none" => role[o][s].attempts = 0)
  BY DEF RoleInv
<1> QED BY <1>1, <1>2 DEF IsRun

LEMMA RoleWrites ==
  ASSUME NEW K, RoleInv(K), NEW o \in Desk(K)!Cand, NEW s \in {1, 2, 3}, NEW r, IsRun(K, r),
         role' = [role EXCEPT ![o][s] = r]
  PROVE  RoleInv(K)'
<1>1. DOMAIN role = Desk(K)!Cand /\ \A c \in Desk(K)!Cand : role[c] = [t \in {1, 2, 3} |-> role[c][t]]
  BY DEF RoleInv
<1> DEFINE row == [role[o] EXCEPT ![s] = r]
<1>2. row = [t \in {1, 2, 3} |-> IF t = s THEN r ELSE role[o][t]]
  <2>1. DOMAIN role[o] = {1, 2, 3} BY <1>1
  <2> QED BY <2>1
<1>3. role' = [role EXCEPT ![o] = row] OBVIOUS
<1> HIDE DEF row
<1>4. role' = [c \in Desk(K)!Cand |-> IF c = o THEN row ELSE role[c]] BY <1>1, <1>3
<1>5. \A c \in Desk(K)!Cand, t \in {1, 2, 3} : role'[c][t] = IF c = o /\ t = s THEN r ELSE role[c][t]
  BY <1>2, <1>4
<1>6. \A c \in Desk(K)!Cand : role'[c] = [t \in {1, 2, 3} |-> role'[c][t]]
  <2> SUFFICES ASSUME NEW c \in Desk(K)!Cand PROVE role'[c] = [t \in {1, 2, 3} |-> role'[c][t]]
    OBVIOUS
  <2>1. CASE c = o BY <1>2, <1>4, <2>1
  <2>2. CASE c # o BY <1>1, <1>4, <2>2
  <2> QED BY <2>1, <2>2
<1>7. role' = [c \in Desk(K)!Cand |-> [t \in {1, 2, 3} |-> role'[c][t]]] BY <1>4, <1>6
<1>8. r = [status |-> r.status, attempts |-> r.attempts, input |-> r.input] BY DEF IsRun
<1>9. ASSUME NEW c \in Desk(K)!Cand, NEW t \in {1, 2, 3}
      PROVE  /\ role'[c][t] = [status |-> role'[c][t].status, attempts |-> role'[c][t].attempts,
                               input |-> role'[c][t].input]
             /\ role'[c][t].attempts \in 0..K.attempts
             /\ role'[c][t].status = "none" => role'[c][t].attempts = 0
  <2>1. CASE c = o /\ t = s
    <3>1. role'[c][t] = r BY <1>5, <2>1
    <3> QED BY <1>8, <3>1 DEF IsRun
  <2>2. CASE ~(c = o /\ t = s)
    <3>1. role'[c][t] = role[c][t] BY <1>5, <2>2
    <3>2. /\ role[c][t] = [status |-> role[c][t].status, attempts |-> role[c][t].attempts,
                            input |-> role[c][t].input]
          /\ role[c][t].attempts \in 0..K.attempts
          /\ role[c][t].status = "none" => role[c][t].attempts = 0
      BY DEF RoleInv
    <3> DEFINE q == role[c][t]
               q2 == role'[c][t]
    <3>3. q2 = q BY <3>1
    <3> HIDE DEF q, q2
    <3>4. /\ q2 = [status |-> q2.status, attempts |-> q2.attempts, input |-> q2.input]
          /\ q2.attempts \in 0..K.attempts /\ (q2.status = "none" => q2.attempts = 0)
      BY <3>2, <3>3, Zenon DEF q
    <3> QED BY <3>4 DEF q2
  <2> QED BY <2>1, <2>2
<1> QED BY <1>7, <1>9 DEF RoleInv, Desk!Cand

LEMMA Rerun ==
  ASSUME NEW K, NEW r, IsRun(K, r), NEW st, st # "none", NEW r2, r2 = [r EXCEPT !.status = st]
  PROVE  IsRun(K, r2)
<1>1. PICK a, b, c : r = [status |-> a, attempts |-> b, input |-> c] BY DEF IsRun
<1>2. r2 = [status |-> st, attempts |-> b, input |-> c] BY <1>1
<1>3. b \in 0..K.attempts BY <1>1 DEF IsRun
<1> QED BY <1>2, <1>3 DEF IsRun

LEMMA AnsweredRole ==
  ASSUME NEW K, DeskInv(K), NEW st, st # "none", Desk(K)!Answered(st)
  PROVE  RoleInv(K)'
<1>1. stage = "review" /\ role' = [role EXCEPT ![Desk(K)!Draft.id][seat].status = st] BY DEF Desk!Answered
<1>2. Desk(K)!Draft.id \in Desk(K)!Cand /\ seat \in {1, 2, 3} BY <1>1, InReview
<1> DEFINE o == Desk(K)!Draft.id
           r == role[o][seat]
           r2 == [r EXCEPT !.status = st]
<1>3. IsRun(K, r) BY <1>2, RoleIsRun DEF DeskInv, ReviewInv
<1>4. role' = [role EXCEPT ![o][seat] = r2] BY <1>1
<1> HIDE DEF r, o
<1>5. IsRun(K, r2) BY <1>3, Rerun
<1> HIDE DEF r2
<1>6. o \in Desk(K)!Cand BY <1>2 DEF o
<1> QED BY <1>2, <1>4, <1>5, <1>6, RoleWrites DEF DeskInv, ReviewInv

LEMMA StartedRole ==
  ASSUME NEW K, Desk(K)!DeskAssumption, DeskInv(K), Desk(K)!StartRun
  PROVE  RoleInv(K)'
<1>1. stage = "review" BY DEF Desk!StartRun, Desk!MayAsk
<1>2. Desk(K)!Draft.id \in Desk(K)!Cand /\ seat \in {1, 2, 3} BY <1>1, InReview
<1>i. RoleInv(K) BY DEF DeskInv, ReviewInv
<1> DEFINE o == Desk(K)!Draft.id
           r == role[o][seat]
           r2 == [status |-> "running", attempts |-> r.attempts + 1, input |-> Desk(K)!Input]
<1>3. IsRun(K, r) BY <1>2, <1>i, RoleIsRun
<1>4. \/ role' = role
      \/ role' = [role EXCEPT ![o][seat] = r2] /\ (r.status = "none" \/ r.attempts < K.attempts)
  BY DEF Desk!StartRun, Desk!Role
<1>5. K.attempts \in Nat \ {0} BY DEF Desk!DeskAssumption
<1>6. o \in Desk(K)!Cand BY <1>2
<1> HIDE DEF r, o
<1>7. r.attempts \in 0..K.attempts /\ (r.status = "none" => r.attempts = 0) BY <1>3 DEF IsRun
<1>8. r.status = "none" \/ r.attempts < K.attempts => IsRun(K, r2)
  <2>1. ASSUME r.status = "none" \/ r.attempts < K.attempts PROVE r.attempts + 1 \in 0..K.attempts
    BY <1>5, <1>7, <2>1
  <2> QED BY <2>1 DEF IsRun
<1> HIDE DEF r2
<1> QED BY <1>2, <1>4, <1>6, <1>8, <1>i, RoleKept, RoleWrites

-----------------------------------------------------------------------------
\* The steps of a review.
LEMMA ReviewSteps ==
  ASSUME NEW K, Desk(K)!DeskAssumption, DeskInv(K),
         \/ Desk(K)!PreRejected \/ Desk(K)!LoadAssessment \/ Desk(K)!RecoverOutput \/ Desk(K)!StartRun
         \/ Desk(K)!Complete \/ Desk(K)!CitesOutside \/ Desk(K)!Unanchored \/ Desk(K)!Retryable
         \/ Desk(K)!OverBudget \/ Desk(K)!Broken
  PROVE  DeskInv(K)'
<1> DEFINE Fine == RegistryKept /\ UNCHANGED <<assessment, shared, discussed, book>>
<1>i. RoleInv(K) BY DEF DeskInv, ReviewInv
<1>f. ASSUME stage = "review", Fine, Turns(K), RoleInv(K)' PROVE DeskInv(K)'
  BY <1>f, TurnsKeep DEF DeskInv, ReviewInv
<1> USE DEF RegistryKept
<1>1. CASE Desk(K)!PreRejected
  <2>1. stage = "review" /\ Fine /\ role' = role
    BY <1>1 DEF Desk!PreRejected, Desk!durable, Desk!registry, Desk!reviews
  <2>2. Turns(K) BY <1>1 DEF Turns, Desk!PreRejected, Desk!Skip
  <2> QED BY <1>f, <1>i, <2>1, <2>2, RoleKept
<1>2. CASE Desk(K)!LoadAssessment
  <2>1. stage = "review" /\ Fine /\ role' = role
    BY <1>2 DEF Desk!LoadAssessment, Desk!durable, Desk!registry, Desk!reviews
  <2>2. Turns(K) BY <1>2 DEF Turns, Desk!LoadAssessment
  <2> QED BY <1>f, <1>i, <2>1, <2>2, RoleKept
<1>3. CASE Desk(K)!RecoverOutput
  <2>1. stage = "review" /\ Fine /\ role' = role
    BY <1>3 DEF Desk!RecoverOutput, Desk!MayAsk, Desk!durable, Desk!registry, Desk!reviews
  <2>2. Turns(K) BY <1>3 DEF Turns, Desk!RecoverOutput
  <2> QED BY <1>f, <1>i, <2>1, <2>2, RoleKept
<1>4. CASE Desk(K)!StartRun
  <2>1. stage = "review" /\ Fine BY <1>4 DEF Desk!StartRun, Desk!MayAsk, Desk!registry
  <2>2. Turns(K) BY <1>4 DEF Turns, Desk!StartRun
  <2>3. RoleInv(K)' BY <1>4, StartedRole
  <2> QED BY <1>f, <2>1, <2>2, <2>3
<1>5. ASSUME NEW st \in {"succeeded", "spoiled", "failed"}, Desk(K)!Answered(st), UNCHANGED Desk(K)!Unheard, Turns(K)
      PROVE  DeskInv(K)'
  <2>1. stage = "review" /\ Fine BY <1>5 DEF Desk!Answered, Desk!Unheard, Desk!registry
  <2>2. RoleInv(K)' BY <1>5, AnsweredRole
  <2> QED BY <1>5, <1>f, <2>1, <2>2
<1>6. CASE Desk(K)!Complete BY <1>5, <1>6 DEF Desk!Complete, Turns
<1>7. CASE Desk(K)!CitesOutside \/ Desk(K)!Unanchored BY <1>5, <1>7 DEF Desk!CitesOutside, Desk!Unanchored, Turns
<1>8. CASE Desk(K)!Retryable \/ Desk(K)!OverBudget
  BY <1>5, <1>8 DEF Desk!Retryable, Desk!OverBudget, Desk!Unavailable, Desk!Skip, Turns
<1>9. CASE Desk(K)!Broken BY <1>5, <1>9 DEF Desk!Broken, Turns
<1> QED BY <1>1, <1>2, <1>3, <1>4, <1>6, <1>7, <1>8, <1>9

LEMMA LockStep ==
  ASSUME NEW K, DeskInv(K), Desk(K)!LockPrivateAssessment
  PROVE  DeskInv(K)'
<1>1. /\ stage = "lock" /\ RegistryKept /\ UNCHANGED <<role, shared, discussed, book>>
  BY DEF Desk!LockPrivateAssessment, Desk!registry, RegistryKept
<1>2. RegInv(K) /\ TurnInv(K) /\ ReviewedInv(K) /\ BookInv(K) /\ RoleInv(K) BY DEF DeskInv, ReviewInv
<1>3. seat \in 1..2 /\ draft \in 1..Len(drafts) /\ stage \in Reviewing BY <1>1, <1>2, InReview DEF TurnInv
<1>r. RoleInv(K)' BY <1>1, <1>2, RoleKept
<1>4. CASE pair[seat] # Desk(K)!Draft.snap
  <2>1. Desk(K)!Goes("start") /\ assessment' = assessment
    BY <1>4 DEF Desk!LockPrivateAssessment, Desk!Raise
  <2>2. TurnInv(K)' /\ ReviewedInv(K)' /\ stage' = "start" /\ seat' = 1 BY <2>1, GoesLeave
  <2>3. RegInv(K)' BY <1>1, <1>2, <2>2, KeptStep DEF Desk!Steps
  <2>4. BookInv(K)' BY <1>1, <1>2, <2>1, BookKept
  <2> QED BY <1>r, <2>2, <2>3, <2>4 DEF DeskInv, ReviewInv
<1>5. CASE pair[seat] = Desk(K)!Draft.snap
  <2> DEFINE a == [cycle |-> day, opp |-> Desk(K)!Draft.id, seat |-> seat,
                   snap |-> pair[seat], input |-> Desk(K)!Role.input[1]]
  <2>1. /\ assessment' = IF Desk(K)!Locked(Desk(K)!Draft.id, seat) # {} THEN assessment ELSE assessment \cup {a}
        /\ stage' = (IF seat = 1 THEN "lock" ELSE "share") /\ seat' = (IF seat = 1 THEN 2 ELSE seat)
        /\ UNCHANGED <<drafts, draft, reviewed>>
    BY <1>5 DEF Desk!LockPrivateAssessment, Desk!Moves
  <2>2. assessment \subseteq assessment' BY <2>1
  <2>3. day' = day /\ Desk(K)!Draft = drafts[draft] BY <1>1 DEF RegistryKept, Desk!Draft
  <2>4. \E b \in assessment' : b.cycle = day /\ b.opp = drafts[draft].id /\ b.seat = seat
    <3>1. CASE Desk(K)!Locked(Desk(K)!Draft.id, seat) # {} BY <2>1, <2>3, <3>1 DEF Desk!Locked
    <3>2. CASE Desk(K)!Locked(Desk(K)!Draft.id, seat) = {}
      <4>1. a \in assessment' BY <2>1, <3>2
      <4> QED BY <2>3, <4>1
    <3> QED BY <3>1, <3>2
  <2>5. seat = 2 => \E b \in assessment' : b.cycle = day /\ b.opp = drafts[draft].id /\ b.seat = 1
    <3>1. seat = 2 => Desk(K)!Locked(drafts[draft].id, 1) # {} BY <1>1, <1>2 DEF TurnInv
    <3> QED BY <2>2, <3>1 DEF Desk!Locked
  <2> HIDE DEF a
  <2>6. TurnInv(K)' BY <1>3, <2>1, <2>3, <2>4, <2>5 DEF TurnInv, Desk!Locked
  <2>7. ReviewedInv(K)' BY <1>1, <1>2, <2>1, <2>2, <2>3, ReviewedKept DEF Grows, Reviewing
  <2>8. BookInv(K)' BY <1>1, <1>2, <2>2, BookKept
  <2>9. stage' \in Reviewing /\ stage' \in Desk(K)!Steps /\ seat' \in 1..3 BY <1>3, <2>1 DEF Reviewing, Desk!Steps
  <2>10. RegInv(K)' BY <1>1, <1>2, <1>3, <2>1, <2>9, KeptStep
  <2> QED BY <1>r, <2>6, <2>7, <2>8, <2>10 DEF DeskInv, ReviewInv
<1> QED BY <1>4, <1>5

\* Who shares looks at the assessments of every cycle: two, of both seats and of
\* this snapshot; those of this cycle are among them.
LEMMA ShareStep ==
  ASSUME NEW K, DeskInv(K), Desk(K)!SharePrivateAssessments
  PROVE  DeskInv(K)'
<1>1. /\ stage = "share" /\ RegistryKept /\ UNCHANGED <<role, assessment, discussed, book>>
  BY DEF Desk!SharePrivateAssessments, Desk!registry, RegistryKept
<1>2. RegInv(K) /\ TurnInv(K) /\ ReviewedInv(K) /\ BookInv(K) /\ RoleInv(K) BY DEF DeskInv, ReviewInv
<1>3. draft \in 1..Len(drafts) /\ stage \in Reviewing BY <1>1, InReview
<1>r. RoleInv(K)' BY <1>1, <1>2, RoleKept
<1>4. CASE ~Desk(K)!BothLocked
  <2>1. Desk(K)!Goes("start") /\ shared' = shared
    BY <1>4 DEF Desk!SharePrivateAssessments, Desk!Raise
  <2>2. TurnInv(K)' /\ ReviewedInv(K)' /\ stage' = "start" /\ seat' = 1 BY <2>1, GoesLeave
  <2>3. RegInv(K)' BY <1>1, <1>2, <2>2, KeptStep DEF Desk!Steps
  <2>4. BookInv(K)' BY <1>1, <1>2, <2>1, BookKept
  <2> QED BY <1>r, <2>2, <2>3, <2>4 DEF DeskInv, ReviewInv
<1>5. CASE Desk(K)!BothLocked
  <2>1. /\ shared' = shared \cup {<<drafts[draft].id, drafts[draft].snap>>}
        /\ stage' = "review" /\ seat' = 3 /\ UNCHANGED <<drafts, draft, reviewed>>
    BY <1>5 DEF Desk!SharePrivateAssessments, Desk!Moves, Desk!Draft, Desk!Moderator
  <2>2. day' = day BY <1>1 DEF RegistryKept
  <2>3. ASSUME NEW s \in {1, 2}
        PROVE  \E a \in assessment : a.cycle = day /\ a.opp = drafts[draft].id /\ a.seat = s /\ a.snap = drafts[draft].snap
    <3>1. Desk(K)!Locked(drafts[draft].id, s) # {} BY <1>1, <1>2 DEF TurnInv
    <3>2. PICK a \in assessment : a.cycle = day /\ a.opp = drafts[draft].id /\ a.seat = s BY <3>1 DEF Desk!Locked
    <3>3. a.snap = drafts[draft].snap BY <1>5, <3>2 DEF Desk!BothLocked, Desk!Draft
    <3> QED BY <3>2, <3>3
  <2>4. SharedOf(drafts[draft])' BY <1>1, <2>1, <2>2, <2>3 DEF SharedOf, AssessedBoth
  <2>5. TurnInv(K)' BY <1>3, <2>1, <2>4 DEF TurnInv
  <2>6. ReviewedInv(K)' BY <1>1, <1>2, <2>1, <2>2, ReviewedKept DEF Grows, Reviewing
  <2>7. BookInv(K)' BY <1>1, <1>2, <2>1, BookKept
  <2>8. RegInv(K)' BY <1>1, <1>2, <1>3, <2>1, KeptStep DEF Reviewing, Desk!Steps
  <2> QED BY <1>r, <2>5, <2>6, <2>7, <2>8 DEF DeskInv, ReviewInv
<1> QED BY <1>4, <1>5

LEMMA RecordStep ==
  ASSUME NEW K, DeskInv(K), Desk(K)!RecordDiscussion
  PROVE  DeskInv(K)'
<1>1. /\ stage = "record" /\ RegistryKept /\ UNCHANGED <<role, assessment, shared, book, drafts>>
      /\ discussed' = discussed \cup {<<drafts[draft].id, drafts[draft].snap>>}
      /\ reviewed' = reviewed \cup {drafts[draft].id} /\ Desk(K)!NextDraft
  BY DEF Desk!RecordDiscussion, Desk!registry, RegistryKept, Desk!Draft
<1>2. RegInv(K) /\ TurnInv(K) /\ ReviewedInv(K) /\ BookInv(K) /\ RoleInv(K) BY DEF DeskInv, ReviewInv
<1>3. /\ draft \in 1..Len(drafts) /\ draft \in DOMAIN drafts /\ Len(drafts) \in Nat /\ stage \in Reviewing
      /\ \A i \in DOMAIN drafts : drafts[i].id = drafts[draft].id => drafts[i].snap = drafts[draft].snap
  BY <1>1, InReview
<1>4. TurnInv(K)' /\ stage' \in {"review", "rank"} /\ seat' = 1 BY <1>1, <1>3, NextDraftTurns
<1>5. RoleInv(K)' BY <1>1, <1>2, RoleKept
<1>6. BookInv(K)' BY <1>1, <1>2, BookKept
<1>7. stage' \in Reviewing /\ stage' \in Desk(K)!Steps /\ seat' \in 1..3 BY <1>4 DEF Reviewing, Desk!Steps
<1>8. RegInv(K)' BY <1>1, <1>2, <1>3, <1>7, KeptStep
<1>9. ReviewedInv(K)'
  <2>1. Taken(drafts, drafts[draft].id) BY <1>3 DEF Taken
  <2>2. \A o \in reviewed' : Taken(drafts, o)' BY <1>1, <1>2, <2>1 DEF ReviewedInv, Taken
  <2>3. ASSUME NEW i \in DOMAIN drafts, drafts[i].id \in reviewed'
        PROVE  SharedOf(drafts[i]) /\ <<drafts[i].id, drafts[i].snap>> \in discussed'
    <3>1. CASE drafts[i].id \in reviewed BY <1>1, <1>2, <3>1 DEF ReviewedInv
    <3>2. CASE drafts[i].id = drafts[draft].id
      <4>1. SharedOf(drafts[draft]) BY <1>1, <1>2 DEF TurnInv
      <4>2. drafts[i].snap = drafts[draft].snap BY <1>3, <3>2
      <4> QED BY <1>1, <3>2, <4>1, <4>2 DEF SharedOf, AssessedBoth
    <3> QED BY <1>1, <2>3, <3>1, <3>2
  <2>4. ASSUME NEW i \in DOMAIN drafts, SharedOf(drafts[i]) PROVE SharedOf(drafts[i])'
    BY <1>1, <2>4 DEF SharedOf, AssessedBoth, RegistryKept
  <2> QED BY <1>1, <1>7, <2>2, <2>3, <2>4 DEF ReviewedInv
<1> QED BY <1>4, <1>5, <1>6, <1>8, <1>9 DEF DeskInv, ReviewInv

-----------------------------------------------------------------------------
\* Steps that leave the reviews' tables alone and end, or do not touch, the attempt.
ReviewsKept == UNCHANGED <<role, assessment, shared, discussed, book>>

LEMMA LeftStep ==
  ASSUME NEW K, DeskInv(K), RegInv(K)', ReviewsKept,
         NEW s \in {"start", "scouts", "foundry", "resolve", "complete"}, Desk(K)!Goes(s)
  PROVE  DeskInv(K)'
<1>1. TurnInv(K)' /\ ReviewedInv(K)' BY GoesLeave
<1>2. BookInv(K)' BY BookKept DEF DeskInv, ReviewInv, ReviewsKept
<1>3. RoleInv(K)' BY RoleKept DEF DeskInv, ReviewInv, ReviewsKept
<1> QED BY <1>1, <1>2, <1>3 DEF DeskInv, ReviewInv

LEMMA PlainSteps ==
  ASSUME NEW K, Desk(K)!DeskAssumption, DeskInv(K),
         Desk(K)!Start \/ Desk(K)!NotOpened \/ Desk(K)!Fail \/ Desk(K)!Materialize
  PROVE  DeskInv(K)'
<1>i. RegInv(K) BY DEF DeskInv
<1>1. CASE Desk(K)!Start
  <2>1. Desk(K)!Goes("scouts") /\ RegistryKept /\ ReviewsKept
    BY <1>1 DEF Desk!Start, Desk!durable, Desk!registry, Desk!reviews, RegistryKept, ReviewsKept
  <2>2. RegInv(K)' BY <1>i, <2>1, GoesLeave, KeptStep DEF Desk!Steps
  <2> QED BY <2>1, <2>2, LeftStep
<1>2. CASE Desk(K)!NotOpened
  <2>1. Desk(K)!Goes("complete") /\ RegistryKept /\ ReviewsKept
    BY <1>2 DEF Desk!NotOpened, Desk!durable, Desk!registry, Desk!reviews, RegistryKept, ReviewsKept
  <2>2. RegInv(K)' BY <1>i, <2>1, GoesLeave, KeptStep DEF Desk!Steps
  <2> QED BY <2>1, <2>2, LeftStep
<1>3. CASE Desk(K)!Fail
  <2>1. Desk(K)!Goes("start") /\ RegistryKept /\ ReviewsKept
    BY <1>3 DEF Desk!Fail, Desk!Raise, Desk!durable, Desk!registry, Desk!reviews, RegistryKept, ReviewsKept
  <2>2. RegInv(K)' BY <1>i, <2>1, GoesLeave, KeptStep DEF Desk!Steps
  <2> QED BY <2>1, <2>2, LeftStep
<1>4. CASE Desk(K)!Materialize
  <2>1. Desk(K)!Goes("resolve") /\ ReviewsKept BY <1>4 DEF Desk!Materialize, Desk!reviews, ReviewsKept
  <2>2. RegInv(K)' BY <1>4, <1>i, MaterializeKeeps
  <2> QED BY <2>1, <2>2, LeftStep
<1> QED BY <1>1, <1>2, <1>3, <1>4

LEMMA ScoutsStep ==
  ASSUME NEW K, Desk(K)!DeskAssumption, DeskInv(K), stage = "scouts", NEW F, Desk(K)!Scouts(F)
  PROVE  DeskInv(K)'
<1>1. RegInv(K)' BY ScoutsKeep DEF DeskInv
<1>2. ReviewsKept BY DEF Desk!Scouts, Desk!reviews, ReviewsKept
<1>3. \E s \in {"foundry", "complete"} : Desk(K)!Goes(s) BY DEF Desk!Scouts
<1> QED BY <1>1, <1>2, <1>3, LeftStep

LEMMA ResolvedStep ==
  ASSUME NEW K, Desk(K)!DeskAssumption, DeskInv(K), Desk(K)!Resolve
  PROVE  DeskInv(K)'
<1>1. RegInv(K)' BY ResolveStep DEF DeskInv
<1>2. ReviewsKept BY DEF Desk!Resolve, Desk!reviews, ReviewsKept
<1>3. CASE drafts' = <<>>
  <2>1. Desk(K)!Goes("complete") BY <1>3 DEF Desk!Resolve
  <2> QED BY <1>1, <1>2, <2>1, LeftStep
<1>4. CASE drafts' # <<>>
  <2>1. stage' = "review" /\ draft' = 1 /\ seat' = 1 /\ reviewed' = {}
    BY <1>4 DEF Desk!Resolve, Desk!Goes, Desk!NoReview
  <2>2. 1 \in 1..Len(drafts')
    <3>1. \E S : drafts' \in Seq(S) BY <1>1, <2>1 DEF RegInv, StageInv, Reviewing, DraftsInv
    <3> QED BY <1>4, <3>1
  <2>3. TurnInv(K)' BY <2>1, <2>2 DEF TurnInv
  <2>4. ReviewedInv(K)' BY <2>1 DEF ReviewedInv
  <2>5. BookInv(K)' BY <1>2, BookKept DEF DeskInv, ReviewInv, ReviewsKept
  <2>6. RoleInv(K)' BY <1>2, RoleKept DEF DeskInv, ReviewInv, ReviewsKept
  <2> QED BY <1>1, <2>3, <2>4, <2>5, <2>6 DEF DeskInv, ReviewInv
<1> QED BY <1>3, <1>4

LEMMA ExitStep ==
  ASSUME NEW K, Desk(K)!DeskAssumption, DeskInv(K), NEW o \in Desk(K)!Cand, Desk(K)!Exit(o)
  PROVE  DeskInv(K)'
<1>1. RegInv(K)' BY ExitKeeps DEF DeskInv
<1>2. /\ UNCHANGED <<role, assessment, shared, discussed, book, day, drafts, reviewed>>
      /\ stage = "start" /\ stage' = "start"
  BY DEF Desk!Exit, Desk!attempt, Desk!review, Desk!reviews
<1>3. TurnInv(K)' BY <1>2 DEF TurnInv
<1>4. reviewed = {} BY <1>2 DEF DeskInv, ReviewInv, ReviewedInv, Reviewing
<1>5. ReviewedInv(K)' BY <1>2, <1>4 DEF ReviewedInv
<1>6. BookInv(K)' BY <1>2, BookKept DEF DeskInv, ReviewInv
<1>7. RoleInv(K)' BY <1>2, RoleKept DEF DeskInv, ReviewInv
<1> QED BY <1>1, <1>3, <1>5, <1>6, <1>7 DEF DeskInv, ReviewInv

\* What is ranked was reviewed.
LEMMA RankStep ==
  ASSUME NEW K, Desk(K)!DeskAssumption, DeskInv(K), NEW passed \in SUBSET reviewed, Desk(K)!Rank(passed)
  PROVE  DeskInv(K)'
<1>i. ReviewedInv(K) /\ BookInv(K) /\ RoleInv(K) BY DEF DeskInv, ReviewInv
<1>1. RegInv(K)' BY <1>i, RankKeeps DEF DeskInv, ReviewedInv
<1>2. /\ UNCHANGED <<role, assessment, shared, discussed, day, drafts>>
      /\ stage' = (IF passed = {} THEN "complete" ELSE "open") /\ reviewed' = passed
      /\ book' = book \cup
           {i \in Desk(K)!RankedItems(passed) : ~\E b \in book : b.cycle = day /\ b.opp = i.opp}
  BY DEF Desk!Rank, Desk!reviews
<1>3. TurnInv(K)' BY <1>2 DEF TurnInv
<1>4. ReviewedInv(K)'
  <2>1. ASSUME NEW i \in DOMAIN drafts, SharedOf(drafts[i]) PROVE SharedOf(drafts[i])'
    BY <1>2, <2>1 DEF SharedOf, AssessedBoth
  <2> QED BY <1>2, <1>i, <2>1 DEF ReviewedInv, Reviewing, Taken
<1>5. ASSUME NEW b \in book' \ book
      PROVE  /\ \A s \in {1, 2} : \E a \in assessment : a.cycle = b.cycle /\ a.opp = b.opp /\ a.seat = s /\ a.snap = b.snap
             /\ <<b.opp, b.snap>> \in shared /\ <<b.opp, b.snap>> \in discussed
  <2>1. b \in Desk(K)!RankedItems(passed) BY <1>2
  <2>2. PICK d \in Desk(K)!Range(drafts) : d.id \in passed /\ b = [cycle |-> day, opp |-> d.id, snap |-> d.snap]
    BY <2>1 DEF Desk!RankedItems
  <2>3. PICK i \in DOMAIN drafts : d = drafts[i] BY <2>2 DEF Desk!Range
  <2>4. SharedOf(drafts[i]) /\ <<drafts[i].id, drafts[i].snap>> \in discussed BY <1>i, <2>2, <2>3 DEF ReviewedInv
  <2> QED BY <2>2, <2>3, <2>4 DEF SharedOf, AssessedBoth
<1>6. BookInv(K)' BY <1>2, <1>5, <1>i DEF BookInv
<1>7. RoleInv(K)' BY <1>2, <1>i, RoleKept
<1> QED BY <1>1, <1>3, <1>4, <1>6, <1>7 DEF DeskInv, ReviewInv

LEMMA OpenStep ==
  ASSUME NEW K, Desk(K)!DeskAssumption, DeskInv(K), NEW o \in Desk(K)!Cand, Desk(K)!OpenShadow(o)
  PROVE  DeskInv(K)'
<1>1. RegInv(K)' BY OpenKeeps DEF DeskInv, ReviewInv, ReviewedInv
<1>2. Desk(K)!Goes("complete") /\ ReviewsKept BY DEF Desk!OpenShadow, Desk!reviews, ReviewsKept
<1> QED BY <1>1, <1>2, LeftStep

LEMMA NextCycleStep ==
  ASSUME NEW K, Desk(K)!DeskAssumption, DeskInv(K), Desk(K)!NextCycle
  PROVE  DeskInv(K)'
<1>1. RegInv(K)' BY NextCycleKeeps DEF DeskInv
<1>2. /\ Desk(K)!Goes("start") /\ UNCHANGED <<assessment, shared, discussed, book>>
      /\ role' = [c \in Desk(K)!Cand |-> [s \in {1, 2, 3} |-> [status |-> "none", attempts |-> 0, input |-> <<>>]]]
  <2>1. Desk(K)!Private \cup {Desk(K)!Moderator} = {1, 2, 3} BY DEF Desk!Private, Desk!Moderator
  <2> QED BY <2>1 DEF Desk!NextCycle, Desk!Raise, Desk!NoRun
<1>3. TurnInv(K)' /\ ReviewedInv(K)' BY <1>2, GoesLeave
<1>4. BookInv(K)' BY <1>2, BookKept DEF DeskInv, ReviewInv
<1>5. K.attempts \in Nat BY DEF Desk!DeskAssumption
<1>6. RoleInv(K)' BY <1>2, <1>5 DEF RoleInv, Desk!Cand
<1> QED BY <1>1, <1>3, <1>4, <1>6 DEF DeskInv, ReviewInv

LEMMA DeskInitInv ==
  ASSUME NEW K, Desk(K)!DeskAssumption, Desk(K)!Init
  PROVE  DeskInv(K)
<1>1. RegInv(K) BY RegInitInv
<1>2. /\ stage = "start" /\ reviewed = {} /\ book = {}
      /\ role = [c \in Desk(K)!Cand |-> [s \in {1, 2, 3} |-> [status |-> "none", attempts |-> 0, input |-> <<>>]]]
  <2>1. Desk(K)!Private \cup {Desk(K)!Moderator} = {1, 2, 3} BY DEF Desk!Private, Desk!Moderator
  <2> QED BY <2>1 DEF Desk!Init, Desk!NoRun
<1>3. K.attempts \in Nat BY DEF Desk!DeskAssumption
<1>4. TurnInv(K) BY <1>2 DEF TurnInv
<1>5. ReviewedInv(K) BY <1>2 DEF ReviewedInv
<1>6. BookInv(K) BY <1>2 DEF BookInv
<1>7. RoleInv(K) BY <1>2, <1>3 DEF RoleInv
<1> QED BY <1>1, <1>4, <1>5, <1>6, <1>7 DEF DeskInv, ReviewInv

LEMMA DeskNextInv ==
  ASSUME NEW K, Desk(K)!DeskAssumption, DeskInv(K), Desk(K)!Next
  PROVE  DeskInv(K)'
<1>1. CASE Desk(K)!Start \/ Desk(K)!Materialize \/ Desk(K)!NotOpened \/ Desk(K)!Fail BY <1>1, PlainSteps
<1>2. CASE Desk(K)!Resolve BY <1>2, ResolvedStep
<1>3. CASE Desk(K)!Review BY <1>3, ReviewSteps, LockStep, ShareStep, RecordStep DEF Desk!Review
<1>4. CASE Desk(K)!Finish \/ Desk(K)!GiveUp BY <1>4, NextCycleStep DEF Desk!Finish, Desk!GiveUp
<1>5. CASE stage = "scouts" /\ \E F \in Desk(K)!Found : Desk(K)!Scouts(F) BY <1>5, ScoutsStep
<1>6. CASE \E passed \in SUBSET reviewed : Desk(K)!Rank(passed) BY <1>6, RankStep
<1>7. CASE \E o \in Desk(K)!Cand : Desk(K)!Exit(o) \/ Desk(K)!OpenShadow(o) BY <1>7, ExitStep, OpenStep
<1> QED BY <1>1, <1>2, <1>3, <1>4, <1>5, <1>6, <1>7 DEF Desk!Next

LEMMA DeskStutters ==
  ASSUME NEW K, DeskInv(K), UNCHANGED deskVars
  PROVE  DeskInv(K)'
<1> USE DEF deskVars
<1>1. RegInv(K)'
  <2>1. RegistryKept /\ stage' = stage /\ drafts' = drafts /\ seat' = seat BY DEF RegistryKept
  <2>2. stage' \in Desk(K)!Steps /\ seat' \in 1..3 BY <2>1 DEF DeskInv, RegInv, DeskType, Desk!Steps
  <2> QED BY <2>1, <2>2, KeptStep DEF DeskInv
<1>2. TurnInv(K)' BY DEF DeskInv, ReviewInv, TurnInv, SharedOf, AssessedBoth, Desk!Locked
<1>3. ReviewedInv(K)'
  <2>1. Grows BY DEF Grows
  <2>2. stage' \in Reviewing \/ reviewed = {} BY DEF DeskInv, ReviewInv, ReviewedInv
  <2> QED BY <2>1, <2>2, ReviewedKept DEF DeskInv, ReviewInv
<1>4. BookInv(K)' BY BookKept DEF DeskInv, ReviewInv
<1>5. RoleInv(K)' BY RoleKept DEF DeskInv, ReviewInv
<1> QED BY <1>1, <1>2, <1>3, <1>4, <1>5 DEF DeskInv, ReviewInv

LEMMA DeskInvTruthful ==
  ASSUME NEW K, DeskInv(K)
  PROVE  Desk(K)!RegistryTruthful /\ Desk(K)!ReviewsTruthful
<1>1. Desk(K)!RegistryTruthful BY DEF DeskInv, RegInv, TablesInv, RowsInv, MergedInv, Desk!RegistryTruthful
<1>2. Desk(K)!ReviewsTruthful
  <2>1. Desk(K)!Private = {1, 2} BY DEF Desk!Private
  <2>2. \A c \in Desk(K)!Cand : \A s \in DOMAIN role[c] : role[c][s].attempts <= K.attempts
    <3>1. \A c \in Desk(K)!Cand : DOMAIN role[c] = {1, 2, 3} BY DEF DeskInv, ReviewInv, RoleInv
    <3>2. \A c \in Desk(K)!Cand, s \in {1, 2, 3} : role[c][s].attempts \in 0..K.attempts
      BY DEF DeskInv, ReviewInv, RoleInv
    <3> QED BY <3>1, <3>2
  <2>3. \A b \in book : <<b.opp, b.snap>> \in shared \cap discussed BY DEF DeskInv, ReviewInv, BookInv
  <2>4. \A b \in book : \A s \in {1, 2} : \E a \in assessment :
          a.cycle = b.cycle /\ a.opp = b.opp /\ a.seat = s /\ a.snap = b.snap
    BY DEF DeskInv, ReviewInv, BookInv
  <2> QED BY <2>1, <2>2, <2>3, <2>4 DEF Desk!ReviewsTruthful
<1> QED BY <1>1, <1>2

-----------------------------------------------------------------------------
(***************************************************************************)
(* The agenda.                                                             *)
(***************************************************************************)
\* Sorting: R is a strict total order of S.
Orders(R, S) ==
  /\ \A x \in S : <<x, x>> \notin R
  /\ \A x, y \in S : x # y => <<x, y>> \in R \/ <<y, x>> \in R
  /\ \A x, y, z \in S : <<x, y>> \in R /\ <<y, z>> \in R => <<x, z>> \in R

Below(S, R, q) == {p \in S : <<p, q>> \in R}

\* The counting and the finite sets of the module's instance are the library's.
LEMMA AgendaCard ==
  ASSUME NEW T
  PROVE  Agenda!Cardinality(T) = Cardinality(T) /\ (Agenda!IsFiniteSet(T) <=> IsFiniteSet(T))
BY DEF Agenda!Cardinality, Cardinality, Agenda!IsFiniteSet, IsFiniteSet

\* A place counts the members below.
LEMMA PlaceIs ==
  ASSUME NEW S, NEW R, NEW q
  PROVE  Agenda!Place(S, R, q) = Cardinality(Below(S, R, q))
BY AgendaCard DEF Agenda!Place, Below

\* There are as many places as members.
LEMMA PlaceRange ==
  ASSUME NEW S, IsFiniteSet(S), NEW R, Orders(R, S), NEW q \in S
  PROVE  Agenda!Place(S, R, q) \in 0 .. (Cardinality(S) - 1)
<1>1. Below(S, R, q) \subseteq S \ {q} BY DEF Below, Orders
<1>2. IsFiniteSet(S \ {q}) /\ Cardinality(S \ {q}) = Cardinality(S) - 1 BY FS_RemoveElement
<1>3. Cardinality(Below(S, R, q)) <= Cardinality(S) - 1 /\ IsFiniteSet(Below(S, R, q))
  BY <1>1, <1>2, FS_Subset
<1>4. Cardinality(S) \in Nat /\ Cardinality(Below(S, R, q)) \in Nat BY <1>3, FS_CardinalityType
<1> QED BY <1>3, <1>4, PlaceIs

\* What precedes has the smaller place.
LEMMA PlaceLess ==
  ASSUME NEW S, IsFiniteSet(S), NEW R, Orders(R, S), NEW p \in S, NEW q \in S, <<p, q>> \in R
  PROVE  Agenda!Place(S, R, p) < Agenda!Place(S, R, q)
<1>1. Below(S, R, p) \cup {p} \subseteq Below(S, R, q) /\ p \notin Below(S, R, p)
  BY DEF Below, Orders
<1>2. IsFiniteSet(Below(S, R, p)) /\ IsFiniteSet(Below(S, R, q)) BY FS_Subset DEF Below
<1>3. Cardinality(Below(S, R, p) \cup {p}) = Cardinality(Below(S, R, p)) + 1
  BY <1>1, <1>2, FS_AddElement
<1>4. Cardinality(Below(S, R, p) \cup {p}) <= Cardinality(Below(S, R, q)) BY <1>1, <1>2, FS_Subset
<1>5. Cardinality(Below(S, R, p)) \in Nat /\ Cardinality(Below(S, R, q)) \in Nat
  BY <1>2, FS_CardinalityType
<1> QED BY <1>3, <1>4, <1>5, PlaceIs

\* Every place is taken, by one.
LEMMA PlaceTaken ==
  ASSUME NEW S, IsFiniteSet(S), NEW R, Orders(R, S)
  PROVE  /\ \A p, q \in S : Agenda!Place(S, R, p) = Agenda!Place(S, R, q) => p = q
         /\ \A k \in 0 .. (Cardinality(S) - 1) : \E q \in S : Agenda!Place(S, R, q) = k
<1> DEFINE n == Cardinality(S)
           T == 0 .. (n - 1)
           f == [q \in S |-> Agenda!Place(S, R, q)]
<1>1. ASSUME NEW p \in S, NEW q \in S, Agenda!Place(S, R, p) = Agenda!Place(S, R, q), p # q
      PROVE  FALSE
  <2>1. <<p, q>> \in R \/ <<q, p>> \in R BY <1>1 DEF Orders
  <2>2. Agenda!Place(S, R, p) \in Int BY PlaceRange
  <2> QED BY <1>1, <2>1, <2>2, PlaceLess
<1>2. f \in [S -> T] BY PlaceRange
<1>3. f \in Injection(S, T) BY <1>1, <1>2 DEF Injection, IsInjective
<1>4. n \in Nat BY FS_CardinalityType
<1>5. IsFiniteSet(T) /\ Cardinality(T) = n BY <1>4, FS_Interval
<1>6. f \in Surjection(S, T) BY <1>3, <1>5, FS_Injection
<1>7. \A k \in T : \E q \in S : f[q] = k BY <1>6 DEF Surjection
<1> QED BY <1>1, <1>7

\* A set in its order: each member at its place.
LEMMA Sorted ==
  ASSUME NEW S, IsFiniteSet(S), NEW R, Orders(R, S)
  PROVE  /\ Agenda!InOrder(S, R) \in Seq(S) /\ Len(Agenda!InOrder(S, R)) = Cardinality(S)
         /\ \A k \in 1 .. Cardinality(S) :
              Agenda!InOrder(S, R)[k] \in S /\ Agenda!Place(S, R, Agenda!InOrder(S, R)[k]) = k - 1
         /\ \A q \in S : \E k \in 1 .. Cardinality(S) : Agenda!InOrder(S, R)[k] = q
<1> DEFINE n == Cardinality(S)
           s == Agenda!InOrder(S, R)
<1>1. n \in Nat BY FS_CardinalityType
<1>6. s = [k \in 1 .. n |-> CHOOSE q \in S : Agenda!Place(S, R, q) = k - 1]
  BY AgendaCard DEF Agenda!InOrder
<1>2. ASSUME NEW k \in 1 .. n PROVE s[k] \in S /\ Agenda!Place(S, R, s[k]) = k - 1
  <2>1. k - 1 \in 0 .. (n - 1)
    <3> HIDE DEF n
    <3>1. k \in 1 .. n BY DEF n
    <3> QED BY <1>1, <3>1
  <2>2. \E q \in S : Agenda!Place(S, R, q) = k - 1 BY <2>1, PlaceTaken
  <2>3. s[k] = CHOOSE q \in S : Agenda!Place(S, R, q) = k - 1 BY <1>6
  <2> QED BY <2>2, <2>3
<1>3. s \in [1 .. n -> S] BY <1>2, <1>6
<1>4. s \in Seq(S) /\ Len(s) = n BY <1>1, <1>3
<1>5. ASSUME NEW q \in S PROVE \E k \in 1 .. n : s[k] = q
  <2>1. Agenda!Place(S, R, q) \in 0 .. (n - 1) BY PlaceRange
  <2>2. PICK k \in 1 .. n : k - 1 = Agenda!Place(S, R, q)
    <3> DEFINE j == Agenda!Place(S, R, q)
    <3> HIDE DEF n, j
    <3>1. j \in 0 .. (n - 1) BY <2>1 DEF n, j
    <3>2. j + 1 \in 1 .. n /\ (j + 1) - 1 = j BY <1>1, <3>1
    <3>3. \E k \in 1 .. n : k - 1 = j BY <3>2
    <3> QED BY <3>3 DEF n, j
  <2>3. s[k] \in S /\ Agenda!Place(S, R, s[k]) = Agenda!Place(S, R, q) BY <1>2, <2>2
  <2>4. s[k] = q BY <2>3, PlaceTaken
  <2> QED BY <2>4
<1> QED BY <1>2, <1>4, <1>5

\* How many the first n are.
LEMMA FirstSize ==
  ASSUME NEW S, IsFiniteSet(S), NEW R, Orders(R, S), NEW n \in Nat
  PROVE  /\ IsFiniteSet(Agenda!FirstOf(S, n, R)) /\ Agenda!FirstOf(S, n, R) \subseteq S
         /\ Cardinality(Agenda!FirstOf(S, n, R))
              = IF n <= Cardinality(S) THEN n ELSE Cardinality(S)
<1> DEFINE m == IF n <= Cardinality(S) THEN n ELSE Cardinality(S)
           F == Agenda!FirstOf(S, n, R)
           f == [q \in F |-> Agenda!Place(S, R, q)]
<1>1. Cardinality(S) \in Nat /\ m \in Nat BY FS_CardinalityType
<1>2. F \subseteq S /\ IsFiniteSet(F) BY FS_Subset DEF Agenda!FirstOf
<1>3. f \in [F -> 0 .. (m - 1)] BY <1>1, <1>2, PlaceRange DEF Agenda!FirstOf
<1>4. ASSUME NEW k \in 0 .. (m - 1) PROVE \E q \in F : f[q] = k
  <2>1. m <= n /\ m <= Cardinality(S) BY <1>1
  <2>2. k < n /\ k \in 0 .. (Cardinality(S) - 1)
    <3>1. k \in 0 .. (m - 1) BY <1>4
    <3> HIDE DEF m
    <3> QED BY <1>1, <2>1, <3>1
  <2>3. PICK q \in S : Agenda!Place(S, R, q) = k BY <2>2, PlaceTaken
  <2>4. q \in F BY <2>2, <2>3 DEF Agenda!FirstOf
  <2> QED BY <2>3, <2>4
<1>5. f \in Surjection(F, 0 .. (m - 1)) BY <1>3, <1>4 DEF Surjection
<1>6. f \in Injection(F, 0 .. (m - 1)) BY <1>2, <1>3, PlaceTaken DEF Injection, IsInjective
<1>7. Cardinality(0 .. (m - 1)) = m
  <2> HIDE DEF m
  <2> QED BY <1>1, FS_Interval
<1> QED BY <1>2, <1>5, <1>6, <1>7, FS_Surjection

\* The first n stay the first n when others are left out.
LEMMA FirstSame ==
  ASSUME NEW S, IsFiniteSet(S), NEW R, Orders(R, S), NEW n \in Nat, NEW T,
         T \subseteq S, Agenda!FirstOf(S, n, R) \subseteq T
  PROVE  Agenda!FirstOf(T, n, R) = Agenda!FirstOf(S, n, R)
<1> DEFINE F == Agenda!FirstOf(S, n, R)
<1>1. IsFiniteSet(T) /\ Orders(R, T) BY FS_Subset DEF Orders
<1>2. ASSUME NEW q \in F PROVE q \in Agenda!FirstOf(T, n, R)
  <2>1. Below(T, R, q) \subseteq Below(S, R, q) /\ IsFiniteSet(Below(S, R, q))
    BY FS_Subset DEF Below
  <2>2. /\ Cardinality(Below(T, R, q)) <= Cardinality(Below(S, R, q))
        /\ Cardinality(Below(T, R, q)) \in Nat /\ Cardinality(Below(S, R, q)) \in Nat
    BY <2>1, FS_Subset, FS_CardinalityType
  <2>3. Agenda!Place(S, R, q) < n /\ q \in T BY DEF Agenda!FirstOf
  <2> QED BY <2>2, <2>3, PlaceIs DEF Agenda!FirstOf
<1>3. ASSUME NEW q \in T, q \notin F, Agenda!Place(T, R, q) < n PROVE FALSE
  <2>1. Agenda!Place(S, R, q) \in 0 .. (Cardinality(S) - 1) /\ ~(Agenda!Place(S, R, q) < n)
    BY <1>3, PlaceRange DEF Agenda!FirstOf
  <2>2. Cardinality(F) = n /\ IsFiniteSet(F)
    <3>1. Cardinality(S) \in Nat BY FS_CardinalityType
    <3> QED BY <2>1, <3>1, FirstSize
  <2>3. ASSUME NEW p \in F PROVE p \in Below(T, R, q)
    <3>1. p \in S /\ Agenda!Place(S, R, p) < n /\ Agenda!Place(S, R, p) \in Int
      BY PlaceRange DEF Agenda!FirstOf
    <3>2. p # q /\ <<q, p>> \notin R
      <4>1. CASE <<q, p>> \in R BY <2>1, <3>1, <4>1, PlaceLess
      <4> QED BY <1>3, <4>1
    <3> QED BY <3>1, <3>2 DEF Orders, Below
  <2>4. IsFiniteSet(Below(T, R, q)) BY <1>1, FS_Subset DEF Below
  <2>5. n <= Cardinality(Below(T, R, q)) BY <2>2, <2>3, <2>4, FS_Subset
  <2>6. Cardinality(Below(T, R, q)) \in Nat BY <2>4, FS_CardinalityType
  <2> QED BY <1>3, <2>5, <2>6, PlaceIs
<1> QED BY <1>2, <1>3 DEF Agenda!FirstOf

-----------------------------------------------------------------------------
\* The bounds of the agenda.
LEMMA AgendaConstants ==
  /\ Asks.opps \subseteq Nat /\ IsFiniteSet(Asks.opps)
  /\ Asks.horizon \in [Asks.opps -> Nat] /\ Asks.later \subseteq Nat
  /\ Asks.within \in Seq(Nat) /\ Asks.wait \in Seq(Nat) /\ Len(Asks.wait) = Len(Asks.within) + 1
  /\ Asks.open \in Nat /\ Asks.priority \in Nat /\ Asks.queue \in Nat /\ Asks.followUp \in Nat
  /\ Asks.frozen \in Nat /\ Asks.offered \in Nat /\ Asks.time \in Nat
  /\ Asks.priority <= Asks.queue /\ Asks.priority <= Asks.frozen
  /\ Asks.scouts \in Seq(Agenda!Range(Asks.scouts))
  /\ \A j, k \in 1..Len(Asks.scouts) : Asks.scouts[j] = Asks.scouts[k] => j = k
<1>1. Agenda!AgendaAssumption BY OtherBounds
<1>2. Asks.wait \in Seq(Nat)
  <2>1. Asks.wait \in Seq(Nat \ {0}) BY <1>1 DEF Agenda!AgendaAssumption
  <2> QED BY <2>1
<1>3. /\ Asks.opps \subseteq Nat /\ Agenda!IsFiniteSet(Asks.opps)
      /\ Asks.horizon \in [Asks.opps -> Nat] /\ Asks.later \subseteq Nat
      /\ Asks.within \in Seq(Nat) /\ Len(Asks.wait) = Len(Asks.within) + 1
  BY <1>1 DEF Agenda!AgendaAssumption
<1>4. /\ Asks.open \in Nat /\ Asks.priority \in Nat /\ Asks.queue \in Nat /\ Asks.followUp \in Nat
      /\ Asks.frozen \in Nat /\ Asks.offered \in Nat /\ Asks.time \in Nat
      /\ Asks.priority <= Asks.queue /\ Asks.priority <= Asks.frozen
  BY <1>1 DEF Agenda!AgendaAssumption
<1>5. /\ Asks.scouts \in Seq(Agenda!Range(Asks.scouts))
      /\ \A j, k \in 1..Len(Asks.scouts) : Asks.scouts[j] = Asks.scouts[k] => j = k
  BY <1>1 DEF Agenda!AgendaAssumption
<1> QED BY <1>2, <1>3, <1>4, <1>5, AgendaCard

\* What the orders need of the registry.
Opportunities ==
  /\ \A o \in Asks.opps :
       /\ registry[o].status \in {"forming", "ranked", "shadow", "closed"}
       /\ registry[o].known \in Nat /\ registry[o].deadline \in Nat

\* The least of two and of three.
LEMMA MinTwo ==
  ASSUME NEW a \in Int, NEW b \in Int
  PROVE  Agenda!Min({a, b}) = IF a <= b THEN a ELSE b
BY DEF Agenda!Min

LEMMA MinThree ==
  ASSUME NEW a \in Nat, NEW b \in Nat, NEW c \in Nat
  PROVE  /\ Agenda!Min({a, b, c}) \in Nat
         /\ Agenda!Min({a, b, c}) <= a /\ Agenda!Min({a, b, c}) <= b /\ Agenda!Min({a, b, c}) <= c
<1>1. \E x \in {a, b, c} : \A y \in {a, b, c} : x <= y
  <2>1. CASE a <= b /\ a <= c BY <2>1
  <2>2. CASE b <= a /\ b <= c BY <2>2
  <2>3. CASE c <= a /\ c <= b BY <2>3
  <2> QED BY <2>1, <2>2, <2>3
<1> QED BY <1>1 DEF Agenda!Min

\* Keys are ordered as words are.
LEMMA LessIs ==
  ASSUME NEW x, NEW y
  PROVE  Agenda!Less(x, y)
           <=> \/ x[1] < y[1]
               \/ x[1] = y[1] /\ x[2] < y[2]
               \/ x[1] = y[1] /\ x[2] = y[2] /\ x[3] < y[3]
               \/ x[1] = y[1] /\ x[2] = y[2] /\ x[3] = y[3] /\ x[4] < y[4]
<1>1. ASSUME Agenda!Less(x, y)
      PROVE  \/ x[1] < y[1]
             \/ x[1] = y[1] /\ x[2] < y[2]
             \/ x[1] = y[1] /\ x[2] = y[2] /\ x[3] < y[3]
             \/ x[1] = y[1] /\ x[2] = y[2] /\ x[3] = y[3] /\ x[4] < y[4]
  <2>1. PICK k \in 1..4 : x[k] < y[k] /\ \A j \in 1..(k - 1) : x[j] = y[j]
    BY <1>1 DEF Agenda!Less
  <2>2. k = 1 \/ k = 2 \/ k = 3 \/ k = 4 OBVIOUS
  <2>3. CASE k = 2
    <3>1. x[1] = y[1] BY <2>1, <2>3
    <3> QED BY <2>1, <2>3, <3>1
  <2>4. CASE k = 3
    <3>1. x[1] = y[1] /\ x[2] = y[2] BY <2>1, <2>4
    <3> QED BY <2>1, <2>4, <3>1
  <2>5. CASE k = 4
    <3>1. x[1] = y[1] /\ x[2] = y[2] /\ x[3] = y[3] BY <2>1, <2>5
    <3> QED BY <2>1, <2>5, <3>1
  <2> QED BY <2>1, <2>2, <2>3, <2>4, <2>5
<1>2. ASSUME NEW k \in 1..4, x[k] < y[k], \A j \in 1..(k - 1) : x[j] = y[j]
      PROVE  Agenda!Less(x, y)
  BY <1>2 DEF Agenda!Less
<1>3. x[1] < y[1] => Agenda!Less(x, y) BY <1>2
<1>4. x[1] = y[1] /\ x[2] < y[2] => Agenda!Less(x, y) 
  <2>1. \A j \in 1..(2 - 1) : j = 1 OBVIOUS
  <2> QED BY <1>2, <2>1
<1>5. x[1] = y[1] /\ x[2] = y[2] /\ x[3] < y[3] => Agenda!Less(x, y) 
  <2>1. \A j \in 1..(3 - 1) : j = 1 \/ j = 2 OBVIOUS
  <2> QED BY <1>2, <2>1
<1>6. x[1] = y[1] /\ x[2] = y[2] /\ x[3] = y[3] /\ x[4] < y[4] => Agenda!Less(x, y) 
  <2>1. \A j \in 1..(4 - 1) : j = 1 \/ j = 2 \/ j = 3 OBVIOUS
  <2> QED BY <1>2, <2>1
<1> QED BY <1>1, <1>3, <1>4, <1>5, <1>6

Numbers(x) == x[1] \in Int /\ x[2] \in Int /\ x[3] \in Int /\ x[4] \in Int

\* So they are totally ordered.
LEMMA LessOrders ==
  ASSUME NEW x, NEW y, NEW z, Numbers(x), Numbers(y), Numbers(z)
  PROVE  /\ ~ Agenda!Less(x, x)
         /\ Agenda!Less(x, y) /\ Agenda!Less(y, z) => Agenda!Less(x, z)
         /\ \/ Agenda!Less(x, y) \/ Agenda!Less(y, x)
            \/ x[1] = y[1] /\ x[2] = y[2] /\ x[3] = y[3] /\ x[4] = y[4]
<1>1. ~ Agenda!Less(x, x) BY LessIs DEF Numbers
<1>2. Agenda!Less(x, y) /\ Agenda!Less(y, z) => Agenda!Less(x, z) BY LessIs DEF Numbers
<1>3. \/ Agenda!Less(x, y) \/ Agenda!Less(y, x)
      \/ x[1] = y[1] /\ x[2] = y[2] /\ x[3] = y[3] /\ x[4] = y[4] BY LessIs DEF Numbers
<1> QED BY <1>1, <1>2, <1>3

-----------------------------------------------------------------------------
\* The orders of the agenda are total orders of what it asks about.
Live(t, q) == q \in Agenda!Questions /\ q[1] \in Agenda!Active(t)

\* A question is known by its opportunity and its number.
LEMMA QuestionIs ==
  ASSUME NEW q \in Agenda!Questions
  PROVE  /\ q[1] \in Asks.opps /\ q = <<q[1], q[2]>>
         /\ Agenda!Number(q) \in 1..5 /\ Agenda!Origins[Agenda!Number(q)] = q[2]
<1>1. q[1] \in Asks.opps /\ q = <<q[1], q[2]>> /\ q[2] \in Agenda!Range(Agenda!Origins)
  BY DEF Agenda!Questions
<1>2. Len(Agenda!Origins) = 5 /\ DOMAIN Agenda!Origins = 1..5 BY DEF Agenda!Origins
<1>3. \E k \in 1..5 : Agenda!Origins[k] = q[2] BY <1>1, <1>2 DEF Agenda!Range
<1> QED BY <1>1, <1>2, <1>3 DEF Agenda!Number

\* What is active has a score, and a key of four numbers.
LEMMA ScoreIs ==
  ASSUME NEW t \in Nat, NEW q, Live(t, q), Opportunities
  PROVE  Agenda!Score(q, t) \in Int
<1>1. q[1] \in Asks.opps /\ registry[q[1]].status \in {"forming", "ranked", "shadow"}
  BY DEF Live, Agenda!Active
<1>2. Agenda!StatusWeight[registry[q[1]].status] \in Nat
  <2>1. CASE registry[q[1]].status = "forming" BY <2>1 DEF Agenda!StatusWeight
  <2>2. CASE registry[q[1]].status = "ranked" BY <2>2 DEF Agenda!StatusWeight
  <2>3. CASE registry[q[1]].status = "shadow" BY <2>3 DEF Agenda!StatusWeight
  <2> QED BY <1>1, <2>1, <2>2, <2>3
<1>3. Agenda!OriginWeight[q[2]] \in Nat
  <2>1. q[2] = Agenda!Origins[Agenda!Number(q)] /\ Agenda!Number(q) \in 1..5
    BY QuestionIs DEF Live
  <2>2. q[2] \in {"next_test", "disconfirming", "pillar", "thesis", "rejection"}
    BY <2>1 DEF Agenda!Origins
  <2>3. CASE q[2] = "next_test" BY <2>3 DEF Agenda!OriginWeight
  <2>4. CASE q[2] = "disconfirming" BY <2>4 DEF Agenda!OriginWeight
  <2>5. CASE q[2] = "pillar" BY <2>5 DEF Agenda!OriginWeight
  <2>6. CASE q[2] = "thesis" BY <2>6 DEF Agenda!OriginWeight
  <2>7. CASE q[2] = "rejection" BY <2>7 DEF Agenda!OriginWeight
  <2> QED BY <2>2, <2>3, <2>4, <2>5, <2>6, <2>7
<1>4. Agenda!UrgencyWeight(Agenda!Remaining(q, t)) \in Nat BY DEF Agenda!UrgencyWeight
<1> DEFINE w == Agenda!StatusWeight[registry[q[1]].status] + Agenda!OriginWeight[q[2]]
                  + Agenda!UrgencyWeight(Agenda!Remaining(q, t))
<1>5. w \in Nat BY <1>2, <1>3, <1>4
<1>6. Agenda!Score(q, t) = Agenda!Min({100, w}) BY DEF Agenda!Score
<1> HIDE DEF w
<1> QED BY <1>5, <1>6, MinTwo

LEMMA KeyIs ==
  ASSUME NEW t \in Nat, NEW q, Live(t, q), Opportunities
  PROVE  /\ Numbers(Agenda!Key(t, q))
         /\ Agenda!Key(t, q)[3] = q[1] /\ Agenda!Key(t, q)[4] = Agenda!Number(q)
<1>0. q[1] \in Asks.opps /\ Agenda!Number(q) \in 1..5 BY QuestionIs DEF Live
<1>1. q[1] \in Asks.opps /\ q[1] \in Nat /\ Agenda!Number(q) \in Nat
  <2>1. Asks.opps \subseteq Nat BY AgendaConstants
  <2> QED BY <1>0, <2>1
<1>2. Agenda!Remaining(q, t) \in Int BY <1>1 DEF Opportunities, Agenda!Remaining
<1> QED BY <1>1, <1>2, ScoreIs DEF Agenda!Key, Numbers

LEMMA QueueOrders ==
  ASSUME NEW t \in Nat, Opportunities, NEW S, \A q \in S : Live(t, q)
  PROVE  Orders(Agenda!QueueOrder(t), S)
<1>1. \A p, q \in S : <<p, q>> \in Agenda!QueueOrder(t)
                        <=> Agenda!Less(Agenda!Key(t, p), Agenda!Key(t, q))
  BY DEF Live, Agenda!QueueOrder
<1>2. \A q \in S : Numbers(Agenda!Key(t, q)) BY KeyIs
<1>3. ASSUME NEW p \in S, NEW q \in S, p # q
      PROVE  <<p, q>> \in Agenda!QueueOrder(t) \/ <<q, p>> \in Agenda!QueueOrder(t)
  <2>1. ~ (Agenda!Key(t, p)[3] = Agenda!Key(t, q)[3] /\ Agenda!Key(t, p)[4] = Agenda!Key(t, q)[4])
    <3>1. ASSUME q[1] = p[1], Agenda!Number(q) = Agenda!Number(p) PROVE FALSE
      BY <1>3, <3>1, QuestionIs DEF Live
    <3> QED BY <3>1, KeyIs
  <2> QED BY <1>1, <1>2, <2>1, LessOrders
<1>4. \A q \in S : <<q, q>> \notin Agenda!QueueOrder(t) BY <1>1, <1>2, LessOrders
<1>5. \A p, q, r \in S : <<p, q>> \in Agenda!QueueOrder(t) /\ <<q, r>> \in Agenda!QueueOrder(t)
                           => <<p, r>> \in Agenda!QueueOrder(t)
  BY <1>1, <1>2, LessOrders
<1> QED BY <1>3, <1>4, <1>5 DEF Orders

LEMMA ScanOrders ==
  ASSUME NEW t \in Nat, Opportunities, NEW S, S \subseteq Asks.opps
  PROVE  Orders(Agenda!ScanOrder(t), S)
<1>1. \A p, q \in S : <<p, q>> \in Agenda!ScanOrder(t)
                        <=> Agenda!Less(Agenda!ScanKey(t, p), Agenda!ScanKey(t, q))
  BY DEF Agenda!ScanOrder
<1>2. ASSUME NEW q \in S
      PROVE  Numbers(Agenda!ScanKey(t, q)) /\ Agenda!ScanKey(t, q)[4] = q
  <2>1. Asks.opps \subseteq Nat /\ Asks.time \in Nat BY AgendaConstants
  <2>2. q \in Nat /\ registry[q].deadline \in Nat /\ registry[q].known \in Nat
    BY <2>1 DEF Opportunities
  <2>3. (IF Agenda!Expired(q, t) THEN 1 ELSE 0) \in Int OBVIOUS
  <2> QED BY <2>1, <2>2, <2>3 DEF Agenda!ScanKey, Numbers
<1>3. \A p, q \in S : p # q => <<p, q>> \in Agenda!ScanOrder(t) \/ <<q, p>> \in Agenda!ScanOrder(t)
  BY <1>1, <1>2, LessOrders
<1>4. \A q \in S : <<q, q>> \notin Agenda!ScanOrder(t) BY <1>1, <1>2, LessOrders
<1>5. \A p, q, r \in S : <<p, q>> \in Agenda!ScanOrder(t) /\ <<q, r>> \in Agenda!ScanOrder(t)
                           => <<p, r>> \in Agenda!ScanOrder(t)
  BY <1>1, <1>2, LessOrders
<1> QED BY <1>3, <1>4, <1>5 DEF Orders

-----------------------------------------------------------------------------
\* What waits: the due questions of opportunities whose deadline has not passed.
LEMMA WaitingIs ==
  ASSUME NEW t \in Nat, NEW O, O \subseteq Agenda!Active(t)
  PROVE  /\ \A q : q \in Agenda!Waiting(O, t)
                     <=> q[1] \in O /\ ~ Agenda!Expired(q[1], t) /\ q \in Agenda!Due(q[1], t)
         /\ \A q \in Agenda!Waiting(O, t) : Live(t, q)
         /\ IsFiniteSet(Agenda!Waiting(O, t))
<1>1. \A o, q : q \in Agenda!Due(o, t) =>
        q[1] = o /\ q[2] \in Agenda!Range(Agenda!Origins) /\ q = <<q[1], q[2]>>
  <2>1. DOMAIN Agenda!Origins = 1..Len(Agenda!Origins) BY DEF Agenda!Origins
  <2>2. \A k \in 1..Len(Agenda!Origins) : Agenda!Origins[k] \in Agenda!Range(Agenda!Origins)
    BY <2>1 DEF Agenda!Range
  <2>3. ASSUME NEW o, NEW q \in Agenda!Due(o, t)
        PROVE  \E k \in 1..Len(Agenda!Origins) : q = <<o, Agenda!Origins[k]>>
    BY DEF Agenda!Due, Agenda!OpenQuestions, Agenda!Asked
  <2> QED BY <2>2, <2>3
<1>2. \A q : q \in Agenda!Waiting(O, t)
               <=> q[1] \in O /\ ~ Agenda!Expired(q[1], t) /\ q \in Agenda!Due(q[1], t)
  BY <1>1 DEF Agenda!Waiting
<1>3. \A q \in Agenda!Waiting(O, t) : Live(t, q)
  BY <1>1, <1>2 DEF Live, Agenda!Questions, Agenda!Active
<1>4. IsFiniteSet(Agenda!Questions)
  <2> DEFINE f == [k \in 1..5 |-> Agenda!Origins[k]]
  <2>1. DOMAIN Agenda!Origins = 1..5 BY DEF Agenda!Origins
  <2>2. Agenda!Range(Agenda!Origins) = {f[k] : k \in 1..5} BY <2>1 DEF Agenda!Range
  <2>3. f \in Surjection(1..5, Agenda!Range(Agenda!Origins)) BY <2>2 DEF Surjection
  <2>4. 1 \in Int /\ 5 \in Int OBVIOUS
  <2>5. IsFiniteSet(1..5) BY <2>4, FS_Interval
  <2>6. IsFiniteSet(Agenda!Range(Agenda!Origins)) BY <2>3, <2>5, FS_Surjection
  <2> QED BY <2>6, AgendaConstants, FS_Product DEF Agenda!Questions
<1>5. Agenda!Waiting(O, t) \subseteq Agenda!Questions BY <1>3 DEF Live
<1> QED BY <1>2, <1>3, <1>4, <1>5, FS_Subset

Opened(S) == {q[1] : q \in S}

\* An opportunity with a question that waits has one best question.
LEMMA BestIs ==
  ASSUME NEW t \in Nat, Opportunities, NEW O, O \subseteq Agenda!Active(t)
  PROVE  /\ Agenda!Best(O, t) \subseteq Agenda!Waiting(O, t) /\ IsFiniteSet(Agenda!Best(O, t))
         /\ Orders(Agenda!QueueOrder(t), Agenda!Waiting(O, t))
         /\ Orders(Agenda!QueueOrder(t), Agenda!Best(O, t))
         /\ \A p, q \in Agenda!Best(O, t) : p[1] = q[1] => p = q
         /\ \A q \in Agenda!Waiting(O, t) : \E p \in Agenda!Best(O, t) : p[1] = q[1]
<1> DEFINE W == Agenda!Waiting(O, t)
           B == Agenda!Best(O, t)
           R == Agenda!QueueOrder(t)
<1>1. IsFiniteSet(W) /\ Orders(R, W) BY WaitingIs, QueueOrders
<1>2. B \subseteq W /\ IsFiniteSet(B) BY <1>1, FS_Subset DEF Agenda!Best
<1>3. Orders(R, B) BY <1>1, <1>2 DEF Orders
<1>4. \A p, q \in B : p[1] = q[1] => p = q BY <1>1 DEF Orders, Agenda!Best
<1>5. ASSUME NEW q \in W PROVE \E p \in B : p[1] = q[1]
  <2> DEFINE S == {p \in W : p[1] = q[1]}
  <2>1. IsFiniteSet(S) /\ Orders(R, S) BY <1>1, FS_Subset DEF Orders
  <2>2. Cardinality(S) \in Nat /\ Cardinality(S) # 0 BY <2>1, FS_CardinalityType, FS_EmptySet
  <2>3. PICK p \in S : Agenda!Place(S, R, p) = 0
    <3> HIDE DEF S
    <3>1. 0 \in 0 .. (Cardinality(S) - 1) BY <2>2
    <3> QED BY <2>1, <3>1, PlaceTaken
  <2>4. Below(S, R, p) = {}
    <3>1. Below(S, R, p) \subseteq S BY DEF Below
    <3>2. IsFiniteSet(Below(S, R, p)) BY <2>1, <3>1, FS_Subset
    <3> QED BY <2>3, <3>2, PlaceIs, FS_EmptySet
  <2>5. p \in B BY <2>4 DEF Agenda!Best, Below
  <2> QED BY <2>5
<1> QED BY <1>1, <1>2, <1>3, <1>4, <1>5

\* The leads are of different opportunities, as many as there are places.
LEMMA LeadsAre ==
  ASSUME NEW t \in Nat, Opportunities, NEW O, O \subseteq Agenda!Active(t)
  PROVE  /\ Agenda!Leads(O, t) \subseteq Agenda!Best(O, t) /\ IsFiniteSet(Agenda!Leads(O, t))
         /\ Cardinality(Agenda!Leads(O, t)) = Cardinality(Opened(Agenda!Leads(O, t)))
         /\ LET due == Cardinality(Opened(Agenda!Waiting(O, t)))
            IN  /\ due \in Nat
                /\ Cardinality(Agenda!Leads(O, t))
                     = IF Asks.priority <= due THEN Asks.priority ELSE due
<1> DEFINE W == Agenda!Waiting(O, t)
           B == Agenda!Best(O, t)
           L == Agenda!Leads(O, t)
           f == [q \in B |-> q[1]]
           g == [q \in L |-> q[1]]
<1>1. Asks.priority \in Nat BY AgendaConstants
<1>2. /\ L \subseteq B /\ IsFiniteSet(L)
      /\ Cardinality(L) = IF Asks.priority <= Cardinality(B) THEN Asks.priority ELSE Cardinality(B)
  BY <1>1, BestIs, FirstSize DEF Agenda!Leads
<1>3. f \in Bijection(B, Opened(W))
  <2>1. f \in [B -> Opened(W)] BY BestIs DEF Opened
  <2>2. \A p, q \in B : f[p] = f[q] => p = q BY BestIs
  <2>3. \A o \in Opened(W) : \E q \in B : f[q] = o BY BestIs DEF Opened
  <2> QED BY <2>1, <2>2, <2>3 DEF Bijection, Injection, Surjection, IsInjective
<1>4. Cardinality(Opened(W)) = Cardinality(B) /\ Cardinality(B) \in Nat
  <2>1. ExistsBijection(B, Opened(W)) BY <1>3 DEF ExistsBijection
  <2> QED BY <2>1, BestIs, FS_Bijection, FS_CardinalityType
<1>5. g \in Bijection(L, Opened(L))
  <2>1. g \in [L -> Opened(L)] BY DEF Opened
  <2>2. \A p, q \in L : g[p] = g[q] => p = q BY <1>2, BestIs
  <2>3. \A o \in Opened(L) : \E q \in L : g[q] = o BY DEF Opened
  <2> QED BY <2>1, <2>2, <2>3 DEF Bijection, Injection, Surjection, IsInjective
<1>6. Cardinality(Opened(L)) = Cardinality(L)
  <2>1. ExistsBijection(L, Opened(L)) BY <1>5 DEF ExistsBijection
  <2> QED BY <1>2, <2>1, FS_Bijection
<1> QED BY <1>2, <1>4, <1>6

\* The rest of the queue is about the same opportunities.
LEMMA FurtherAre ==
  ASSUME NEW t \in Nat, Opportunities, NEW O, O \subseteq Agenda!Active(t)
  PROVE  /\ Agenda!Further(O, t) \subseteq Agenda!Waiting(O, t) \ Agenda!Leads(O, t)
         /\ IsFiniteSet(Agenda!Further(O, t))
         /\ Opened(Agenda!Further(O, t)) \subseteq Opened(Agenda!Leads(O, t))
<1> DEFINE W == Agenda!Waiting(O, t)
           L == Agenda!Leads(O, t)
           more == {q \in W \ L : \E l \in L : l[1] = q[1]}
<1>1. Agenda!Further(O, t) \subseteq more BY DEF Agenda!Further, Agenda!FirstOf
<1>2. IsFiniteSet(W) BY WaitingIs
<1> QED BY <1>1, <1>2, FS_Subset DEF Opened

\* What is queued, in which order: the leads first, each question once.
LEMMA QueueIs ==
  ASSUME NEW t \in Nat, Opportunities, NEW O, O \subseteq Agenda!Active(t)
  PROVE  LET items == Agenda!Queue(O, t)
             L == Agenda!Leads(O, t)
         IN  /\ items \in Seq(Agenda!Waiting(O, t))
             /\ \A j, k \in 1..Len(items) : items[j] = items[k] => j = k
             /\ Cardinality(L) \in Nat /\ Cardinality(L) <= Len(items)
             /\ {items[k] : k \in 1..Cardinality(L)} = L
             /\ Agenda!Range(items) = L \cup Agenda!Further(O, t)
             /\ Agenda!Priority(items) = Opened(L)
<1> DEFINE W == Agenda!Waiting(O, t)
           L == Agenda!Leads(O, t)
           F == Agenda!Further(O, t)
           R == Agenda!QueueOrder(t)
           u == Agenda!InOrder(L, R)
           v == Agenda!InOrder(F, R)
           items == Agenda!Queue(O, t)
           m == Cardinality(L)
           n == Cardinality(F)
<1>1. /\ IsFiniteSet(L) /\ IsFiniteSet(F) /\ L \subseteq W /\ F \subseteq W /\ L \cap F = {}
      /\ Opened(F) \subseteq Opened(L)
  BY LeadsAre, FurtherAre, BestIs
<1>2. Orders(R, L) /\ Orders(R, F) BY <1>1, BestIs DEF Orders
<1>3. m \in Nat /\ n \in Nat BY <1>1, FS_CardinalityType
<1>4. /\ u \in Seq(L) /\ Len(u) = m
      /\ \A k \in 1..m : u[k] \in L /\ Agenda!Place(L, R, u[k]) = k - 1
      /\ \A q \in L : \E k \in 1..m : u[k] = q
  BY <1>1, <1>2, Sorted
<1>5. /\ v \in Seq(F) /\ Len(v) = n
      /\ \A k \in 1..n : v[k] \in F /\ Agenda!Place(F, R, v[k]) = k - 1
      /\ \A q \in F : \E k \in 1..n : v[k] = q
  BY <1>1, <1>2, Sorted
<1>6. items = u \o v BY DEF Agenda!Queue
<1> HIDE DEF L, F, R, u, v, m, n, items
<1>7. u \in Seq(W) /\ v \in Seq(W)
  <2>1. u \in Seq(L) /\ v \in Seq(F) BY <1>4, <1>5
  <2> QED BY <1>1, <2>1
<1>8. /\ items \in Seq(W) /\ Len(items) = m + n
      /\ \A k \in 1..m : items[k] = u[k]
      /\ \A k \in 1..(m + n) : k > m => items[k] = v[k - m]
  <2>1. /\ items \in Seq(W) /\ Len(items) = Len(u) + Len(v)
        /\ \A k \in 1..(Len(u) + Len(v)) :
             items[k] = IF k <= Len(u) THEN u[k] ELSE v[k - Len(u)]
    BY <1>6, <1>7
  <2>2. \A k \in 1..m : k \in 1..(m + n) /\ k <= m BY <1>3
  <2>3. \A k \in 1..(m + n) : k > m => ~ (k <= m) BY <1>3
  <2> QED BY <1>4, <1>5, <2>1, <2>2, <2>3
<1>9. ASSUME NEW j \in 1..(m + n), NEW k \in 1..(m + n), items[j] = items[k] PROVE j = k
  <2>1. CASE j <= m /\ k <= m
    <3>1. u[j] = u[k] /\ j \in 1..m /\ k \in 1..m BY <1>3, <1>8, <1>9, <2>1
    <3>2. j - 1 = k - 1 BY <1>4, <3>1
    <3> QED BY <3>2
  <2>2. CASE j > m /\ k > m
    <3>1. v[j - m] = v[k - m] /\ j - m \in 1..n /\ k - m \in 1..n BY <1>3, <1>8, <1>9, <2>2
    <3>2. j - m - 1 = k - m - 1 BY <1>5, <3>1
    <3> QED BY <1>3, <3>2
  <2>3. CASE j <= m /\ k > m
    <3>1. items[j] \in L /\ items[k] \in F
      <4>1. j \in 1..m /\ k - m \in 1..n BY <1>3, <2>3
      <4> QED BY <1>4, <1>5, <1>8, <2>3, <4>1
    <3> QED BY <1>1, <1>9, <3>1
  <2>4. CASE k <= m /\ j > m
    <3>1. items[k] \in L /\ items[j] \in F
      <4>1. k \in 1..m /\ j - m \in 1..n BY <1>3, <2>4
      <4> QED BY <1>4, <1>5, <1>8, <2>4, <4>1
    <3> QED BY <1>1, <1>9, <3>1
  <2> QED BY <1>3, <2>1, <2>2, <2>3, <2>4
<1>10. {items[k] : k \in 1..m} = L
  <2>1. \A k \in 1..m : items[k] \in L BY <1>4, <1>8
  <2>2. \A q \in L : \E k \in 1..m : items[k] = q BY <1>4, <1>8
  <2> QED BY <2>1, <2>2
<1>11. Agenda!Range(items) = L \cup F
  <2>1. Agenda!Range(items) = {items[k] : k \in 1..(m + n)} BY <1>8 DEF Agenda!Range
  <2>2. ASSUME NEW k \in 1..(m + n) PROVE items[k] \in L \cup F
    <3>1. CASE k <= m
      <4>1. k \in 1..m BY <1>3, <3>1
      <4> QED BY <1>4, <1>8, <4>1
    <3>2. CASE k > m
      <4>1. k - m \in 1..n BY <1>3, <3>2
      <4> QED BY <1>5, <1>8, <3>2, <4>1
    <3> QED BY <1>3, <3>1, <3>2
  <2>3. ASSUME NEW q \in L PROVE \E k \in 1..(m + n) : items[k] = q
    <3>1. PICK k \in 1..m : u[k] = q BY <1>4
    <3>2. k \in 1..(m + n) BY <1>3
    <3> QED BY <1>8, <3>1, <3>2
  <2>4. ASSUME NEW q \in F PROVE \E k \in 1..(m + n) : items[k] = q
    <3>1. PICK k \in 1..n : v[k] = q BY <1>5
    <3>2. k + m \in 1..(m + n) /\ k + m > m /\ (k + m) - m = k BY <1>3
    <3> QED BY <1>8, <3>1, <3>2
  <2> QED BY <2>1, <2>2, <2>3, <2>4
<1>12. Agenda!Priority(items) = Opened(L) BY <1>1, <1>11 DEF Agenda!Priority, Opened
<1>13. m <= Len(items) BY <1>3, <1>8
<1> QED BY <1>3, <1>8, <1>9, <1>10, <1>11, <1>12, <1>13 DEF L, F, m, items

\* Leaving out opportunities without priority leaves the queue as it is.
LEMMA QueueSame ==
  ASSUME NEW t \in Nat, Opportunities, NEW P, P \subseteq Agenda!Active(t), NEW O, O \subseteq P,
         Agenda!Priority(Agenda!Queue(P, t)) \subseteq O
  PROVE  Agenda!Queue(O, t) = Agenda!Queue(P, t)
<1> DEFINE L == Agenda!Leads(P, t)
           R == Agenda!QueueOrder(t)
<1>1. Opened(L) \subseteq O BY QueueIs
<1>2. \A q : q \in Agenda!Waiting(O, t) <=> q \in Agenda!Waiting(P, t) /\ q[1] \in O
  BY WaitingIs
<1>3. \A q : q \in Agenda!Best(O, t) <=> q \in Agenda!Best(P, t) /\ q[1] \in O
  <2>1. ASSUME NEW q \in Agenda!Best(O, t) PROVE q \in Agenda!Best(P, t) /\ q[1] \in O
    BY <1>2 DEF Agenda!Best
  <2>2. ASSUME NEW q \in Agenda!Best(P, t), q[1] \in O PROVE q \in Agenda!Best(O, t)
    BY <1>2, <2>2 DEF Agenda!Best
  <2> QED BY <2>1, <2>2
<1>4. Agenda!Leads(O, t) = L
  <2>1. L \subseteq Agenda!Best(P, t) BY LeadsAre
  <2>2. L \subseteq Agenda!Best(O, t) BY <1>1, <1>3, <2>1 DEF Opened
  <2>3. Agenda!Best(O, t) \subseteq Agenda!Best(P, t) BY <1>3
  <2>4. IsFiniteSet(Agenda!Best(P, t)) /\ Orders(R, Agenda!Best(P, t)) BY BestIs
  <2>5. Asks.priority \in Nat BY AgendaConstants
  <2> QED BY <2>2, <2>3, <2>4, <2>5, FirstSame DEF Agenda!Leads
<1>5. {q \in Agenda!Waiting(O, t) \ L : \E l \in L : l[1] = q[1]}
        = {q \in Agenda!Waiting(P, t) \ L : \E l \in L : l[1] = q[1]}
  BY <1>1, <1>2 DEF Opened
<1>6. Agenda!Further(O, t) = Agenda!Further(P, t) BY <1>4, <1>5 DEF Agenda!Further
<1> QED BY <1>4, <1>6 DEF Agenda!Queue

\* What is frozen is active and has everything with priority.
LEMMA SelectedIs ==
  ASSUME NEW t \in Nat, Opportunities
  PROVE  LET items == Agenda!Queue(Agenda!Active(t), t)
             s == Agenda!Selected(t, items)
         IN  /\ s \in Seq(Agenda!Active(t))
             /\ Agenda!Range(s) \subseteq Agenda!Active(t)
             /\ Agenda!Priority(items) \subseteq Agenda!Range(s)
<1> DEFINE A == Agenda!Active(t)
           items == Agenda!Queue(A, t)
           L == Agenda!Leads(A, t)
           first == Agenda!Priority(items)
           m == Agenda!Cardinality(first)
           lead == [k \in 1..m |-> items[k][1]]
           rest == Agenda!InOrder(A \ first, Agenda!ScanOrder(t))
           n == Agenda!Min({Asks.frozen, Len(lead) + Len(rest)})
           all == lead \o rest
           s == SubSeq(all, 1, n)
<1>1. /\ items \in Seq(Agenda!Waiting(A, t)) /\ first = Opened(L)
      /\ Cardinality(L) \in Nat /\ Cardinality(L) <= Len(items)
      /\ {items[k] : k \in 1..Cardinality(L)} = L
  BY QueueIs
<1>2. m = Cardinality(L) /\ m \in Nat /\ m <= Asks.priority
  <2>1. Asks.priority \in Nat BY AgendaConstants
  <2>2. Cardinality(L) = Cardinality(first) BY <1>1, LeadsAre
  <2>3. Cardinality(L) <= Asks.priority BY <1>1, <2>1, LeadsAre
  <2> QED BY <1>1, <2>2, <2>3, AgendaCard
<1>3. IsFiniteSet(A \ first) /\ A \ first \subseteq Asks.opps
  <2>1. A \ first \subseteq Asks.opps BY DEF Agenda!Active
  <2> QED BY <2>1, AgendaConstants, FS_Subset
<1>4. rest \in Seq(A \ first)
  BY <1>3, ScanOrders, Sorted
<1>5. first \subseteq A BY <1>1, LeadsAre, BestIs, WaitingIs DEF Opened
<1>6. \A k \in 1..m : items[k][1] \in first BY <1>1, <1>2 DEF Opened
<1>7. \A o \in first : \E k \in 1..m : items[k][1] = o BY <1>1, <1>2 DEF Opened
<1>8. Agenda!Selected(t, items) = s BY DEF Agenda!Selected
<1>9. lead \in [1..m -> A] BY <1>5, <1>6
<1> HIDE DEF A, items, L, first, m, rest
<1>10. lead \in Seq(A) /\ Len(lead) = m /\ rest \in Seq(A) /\ Len(rest) \in Nat
  BY <1>2, <1>4, <1>9
<1> HIDE DEF lead
<1>11. all \in Seq(A) /\ Len(all) = m + Len(rest) /\ \A k \in 1..m : all[k] = lead[k]
  BY <1>2, <1>10
<1>12. Asks.frozen \in Nat /\ Asks.priority \in Nat /\ Asks.priority <= Asks.frozen
  BY AgendaConstants
<1>13. n \in m..Len(all)
  BY <1>2, <1>10, <1>11, <1>12, MinTwo
<1> HIDE DEF all, n
<1>14. s \in Seq(A) /\ Len(s) = n /\ \A k \in 1..n : s[k] = all[k]
  <2>1. 1 \in 1..(Len(all) + 1) /\ n \in (1 - 1)..Len(all) BY <1>2, <1>11, <1>13
  <2> QED BY <1>11, <2>1, SubSeqProperties
<1> HIDE DEF s
<1>15. Agenda!Range(s) \subseteq A BY <1>14 DEF Agenda!Range
<1>16. ASSUME NEW o \in first PROVE o \in Agenda!Range(s)
  <2>1. PICK k \in 1..m : items[k][1] = o BY <1>7
  <2>2. k \in 1..n BY <1>2, <1>13
  <2>3. s[k] = o BY <1>11, <1>14, <2>1, <2>2 DEF lead
  <2>4. k \in DOMAIN s BY <1>14, <2>2
  <2> QED BY <2>3, <2>4 DEF Agenda!Range
<1> QED BY <1>8, <1>14, <1>15, <1>16 DEF A, items, first

\* Fewer than n steps apart, no two places of a cycle of n are the same.
LEMMA ModApart ==
  ASSUME NEW n \in Nat, NEW a \in Nat, NEW b \in Nat, a < b, b < a + n
  PROVE  a % n # b % n
<1>1. n > 0 OBVIOUS
<1> SUFFICES ASSUME a % n = b % n PROVE FALSE OBVIOUS
<1>2. a = n * (a \div n) + (a % n) /\ a \div n \in Int /\ a % n \in Int BY <1>1
<1>3. b = n * (b \div n) + (b % n) /\ b \div n \in Int /\ b % n \in Int BY <1>1
<1> DEFINE c == a \div n
           d == b \div n
           r == a % n
<1>4. a = n * c + r /\ b = n * d + r /\ c \in Int /\ d \in Int /\ r \in Int BY <1>2, <1>3
<1> HIDE DEF c, d, r
<1>5. b - a = n * (d - c) BY <1>4
<1>6. d - c >= 1
  <2>1. CASE d - c <= 0
    <3>1. n * (d - c) <= 0 BY <1>1, <1>4, <2>1
    <3> QED BY <1>5, <3>1
  <2> QED BY <1>4, <2>1
<1>7. n * (d - c) >= n BY <1>1, <1>4, <1>6
<1> QED BY <1>4, <1>5, <1>7

-----------------------------------------------------------------------------
\* A step that leaves the registry, the views and the attempts leaves the queue.
LEMMA QueueKept ==
  ASSUME NEW t, NEW O, UNCHANGED Agenda!memory
  PROVE  /\ Agenda!Active(t)' = Agenda!Active(t)
         /\ Agenda!Queue(O, t)' = Agenda!Queue(O, t)
<1> USE DEF Agenda!memory
<1>1. Agenda!Active(t)' = Agenda!Active(t) BY DEF Agenda!Active
<1>2. \A o : Agenda!Expired(o, t)' <=> Agenda!Expired(o, t) BY DEF Agenda!Expired
<1>3. \A q : Agenda!Deferred(q, t)' <=> Agenda!Deferred(q, t)
  <2>1. \A q : Agenda!Eligible(q)' = Agenda!Eligible(q) BY DEF Agenda!Eligible
  <2> QED BY <2>1 DEF Agenda!Deferred
<1>4. \A o : Agenda!OpenQuestions(o)' = Agenda!OpenQuestions(o)
  <2>1. \A o : Agenda!Asked(o)' = Agenda!Asked(o) BY DEF Agenda!Asked
  <2> QED BY <2>1 DEF Agenda!OpenQuestions
<1>5. \A o : Agenda!Due(o, t)' = Agenda!Due(o, t) BY <1>3, <1>4 DEF Agenda!Due
<1>6. Agenda!Waiting(O, t)' = Agenda!Waiting(O, t) BY <1>2, <1>5 DEF Agenda!Waiting
<1>7. \A q : Agenda!Key(t, q)' = Agenda!Key(t, q)
  <2>1. \A q : Agenda!Remaining(q, t)' = Agenda!Remaining(q, t) BY DEF Agenda!Remaining
  <2>2. \A q : Agenda!Score(q, t)' = Agenda!Score(q, t) BY <2>1 DEF Agenda!Score
  <2> QED BY <2>1, <2>2 DEF Agenda!Key
<1>8. Agenda!QueueOrder(t)' = Agenda!QueueOrder(t) BY <1>7 DEF Agenda!QueueOrder
<1>9. Agenda!Best(O, t)' = Agenda!Best(O, t) BY <1>6, <1>8 DEF Agenda!Best
<1>10. Agenda!Leads(O, t)' = Agenda!Leads(O, t) BY <1>8, <1>9 DEF Agenda!Leads
<1>11. Agenda!Further(O, t)' = Agenda!Further(O, t) BY <1>6, <1>8, <1>10 DEF Agenda!Further
<1> QED BY <1>1, <1>8, <1>10, <1>11 DEF Agenda!Queue

\* Each Scout that is assigned gets one question, and two Scouts are left.
LEMMA AssignmentsAre ==
  ASSUME NEW S, NEW items \in Seq(S), NEW offset \in Nat,
         \A j, k \in 1..Len(items) : items[j] = items[k] => j = k
  PROVE  LET a == Agenda!Assignments(items, offset)
         IN  /\ Len(a) \in Nat /\ Len(a) <= Len(items)
             /\ Len(Asks.scouts) >= 2 => Len(Asks.scouts) - Len(a) >= 2
             /\ \A k \in 1..Len(a) : a[k].question = items[k]
             /\ \A j, k \in 1..Len(a) : j # k =>
                  a[j].scout # a[k].scout /\ a[j].question # a[k].question
<1> DEFINE n == Len(Asks.scouts)
           m == Agenda!FollowUps(items)
           a == Agenda!Assignments(items, offset)
           place(k) == (offset + k - 1) % n
<1>1. n \in Nat /\ Asks.followUp \in Nat /\ Len(items) \in Nat
      /\ \A j, k \in 1..n : Asks.scouts[j] = Asks.scouts[k] => j = k
  BY AgendaConstants
<1>2. (IF n > 2 THEN n - 2 ELSE 0) \in Nat BY <1>1
<1>3. /\ m \in Nat /\ m <= Len(items) /\ m <= (IF n > 2 THEN n - 2 ELSE 0)
  BY <1>1, <1>2, MinThree DEF Agenda!FollowUps
<1>4. a = [k \in 1..m |-> [scout |-> Asks.scouts[place(k) + 1], question |-> items[k]]]
  BY DEF Agenda!Assignments
<1>5. Len(a) = m BY <1>3, <1>4
<1> HIDE DEF n, m, a
<1>6. n >= 2 => n - m >= 2 BY <1>1, <1>3
<1>7. ASSUME NEW j \in 1..m, NEW k \in 1..m, j < k PROVE a[j].scout # a[k].scout
  <2>1. n > 2 /\ k < j + n BY <1>1, <1>3, <1>7
  <2>2. place(j) # place(k)
    <3>1. offset + j - 1 \in Nat /\ offset + k - 1 \in Nat BY <1>3
    <3>2. offset + j - 1 < offset + k - 1 /\ offset + k - 1 < (offset + j - 1) + n
      BY <1>1, <1>3, <1>7, <2>1
    <3> QED BY <1>1, <3>1, <3>2, ModApart
  <2>3. place(j) + 1 \in 1..n /\ place(k) + 1 \in 1..n
    <3>1. offset + j - 1 \in Nat /\ offset + k - 1 \in Nat BY <1>3
    <3> QED BY <1>1, <2>1, <3>1
  <2>4. place(j) + 1 # place(k) + 1 BY <1>1, <2>2, <2>3
  <2> HIDE DEF place
  <2>5. Asks.scouts[place(j) + 1] # Asks.scouts[place(k) + 1] BY <1>1, <2>3, <2>4
  <2> QED BY <1>4, <2>5
<1>8. ASSUME NEW j \in 1..m, NEW k \in 1..m, j # k
      PROVE  a[j].scout # a[k].scout /\ a[j].question # a[k].question
  <2>1. j < k \/ k < j BY <1>3, <1>8
  <2>2. a[j].scout # a[k].scout BY <1>7, <2>1
  <2>3. j \in 1..Len(items) /\ k \in 1..Len(items) BY <1>1, <1>3
  <2> HIDE DEF place
  <2> QED BY <1>4, <1>8, <2>2, <2>3
<1>9. \A k \in 1..m : a[k].question = items[k]
  <2> HIDE DEF place
  <2> QED BY <1>4
<1> QED BY <1>3, <1>5, <1>6, <1>8, <1>9 DEF n, a

-----------------------------------------------------------------------------
\* The invariant of the agenda.
\* A question that is assigned was looked into on this snapshot long ago, if at
\* all, or has been in this wake.
Rested(q) ==
  \/ attempt[q].at = wokenAt
  \/ attempt[q].snapshot # registry[q[1]].snapshot
  \/ attempt[q].at + Asks.wait[Agenda!Class(registry[q[1]].deadline - attempt[q].at)] <= wokenAt
AssignedInv ==
  /\ Len(assigned) \in Nat
  /\ Len(Asks.scouts) >= 2 => Len(Asks.scouts) - Len(assigned) >= 2
  /\ \A k \in 1..Len(assigned) :
       assigned[k].question \in Agenda!Questions /\ Rested(assigned[k].question)
  /\ \A j, k \in 1..Len(assigned) : j # k =>
       assigned[j].scout # assigned[k].scout /\ assigned[j].question # assigned[k].question
InputInv ==
  /\ prior \in Seq(Asks.opps) /\ Agenda!Priority(queue) \subseteq Agenda!Range(prior)
  /\ evidenceLeft < Asks.offered =>
       context = {} /\ Agenda!Range(prior) = Agenda!Priority(queue)
Fits(t) ==
  /\ queue = Agenda!Queue(Agenda!Active(t), t) /\ Agenda!Range(prior) \subseteq Agenda!Active(t)
RegistryInv ==
  /\ clock \in Nat /\ wokenAt \in Nat /\ wokenAt <= clock
  /\ registry \in [Asks.opps -> [status : {"forming", "ranked", "shadow", "closed"},
                                 snapshot : Nat \ {0}, known : Nat, deadline : Nat]]
  /\ attempt \in [Agenda!Questions -> [at : Nat, snapshot : Nat]]
  /\ \A q \in Agenda!Questions : attempt[q].at <= wokenAt
AgendaInv ==
  /\ RegistryInv
  /\ waking # "idle" => AssignedInv /\ InputInv
  /\ \A t \in Nat : waking = "fit" /\ t = wokenAt => Fits(t)
  /\ waking = "scouts" => Agenda!Size <= room

\* The invariant holds at first.
LEMMA AgendaInitInv ==
  ASSUME Agenda!Init
  PROVE  AgendaInv
<1>1. Asks.opps \subseteq Nat /\ Asks.horizon \in [Asks.opps -> Nat] BY AgendaConstants
<1>2. RegistryInv
  BY <1>1 DEF Agenda!Init, RegistryInv, Agenda!Never
<1> QED BY <1>2 DEF Agenda!Init, AgendaInv

\* The registry is as the orders need it.
LEMMA OpportunitiesAre ==
  ASSUME RegistryInv
  PROVE  Opportunities
BY DEF RegistryInv, Opportunities

\* Every class has a cadence.
LEMMA ClassIs ==
  ASSUME NEW r
  PROVE  Asks.wait[Agenda!Class(r)] \in Nat
<1> DEFINE n == Len(Asks.within)
           S == {k \in 1..n : r > Asks.within[k]}
<1>1. n \in Nat /\ Asks.wait \in Seq(Nat) /\ Len(Asks.wait) = n + 1 BY AgendaConstants
<1>2. IsFiniteSet(1..n) /\ Cardinality(1..n) = n
  <2> HIDE DEF n
  <2>1. n \in Nat BY <1>1
  <2> QED BY <2>1, FS_Interval
<1>3. S \subseteq 1..n OBVIOUS
<1>4. Cardinality(S) \in Nat /\ Cardinality(S) <= n
  BY <1>2, <1>3, FS_Subset, FS_CardinalityType
<1>5. Agenda!Class(r) = Cardinality(S) + 1 BY AgendaCard DEF Agenda!Class
<1> HIDE DEF n, S
<1> QED BY <1>1, <1>4, <1>5

\* What is queued is due, and was looked into long ago, if at all.
LEMMA DueRested ==
  ASSUME RegistryInv, NEW t \in Nat, wokenAt < t, NEW q \in Agenda!Questions,
         q \in Agenda!Due(q[1], t), ~ Agenda!Expired(q[1], t),
         attempt[q].snapshot = registry[q[1]].snapshot
  PROVE  attempt[q].at + Asks.wait[Agenda!Class(registry[q[1]].deadline - attempt[q].at)] <= t
<1> DEFINE d == registry[q[1]].deadline
           a == attempt[q].at
           x == a + Asks.wait[Agenda!Class(d - a)]
<1>1. ~ Agenda!Deferred(q, t) BY DEF Agenda!Due
<1>2. d \in Nat /\ a \in Nat /\ a <= wokenAt /\ registry[q[1]].snapshot # 0 /\ wokenAt \in Nat
  BY QuestionIs DEF RegistryInv
<1>3. attempt[q] # Agenda!Never /\ a < t BY <1>2 DEF Agenda!Never
<1>4. ~ (Agenda!Eligible(q) > t) BY <1>1, <1>3 DEF Agenda!Deferred
<1>5. d > t BY <1>2 DEF Agenda!Expired
<1>6. x \in Nat BY <1>2, ClassIs
<1>7. Agenda!Eligible(q) = Agenda!Min({d, x})
  BY DEF Agenda!Eligible, Agenda!NextFollowUp
<1> HIDE DEF d, x
<1>8. Agenda!Eligible(q) = IF d <= x THEN d ELSE x BY <1>2, <1>6, <1>7, MinTwo
<1>9. x <= t BY <1>2, <1>4, <1>5, <1>6, <1>8
<1> QED BY <1>9 DEF x, d

\* A wake that begins has a sound queue, sound assignments and a full input.
LEMMA WakeStep ==
  ASSUME AgendaInv, Agenda!Wake
  PROVE  AgendaInv'
<1> DEFINE A == Agenda!Active(clock)
           items == Agenda!Queue(A, clock)
<1>1. /\ clock \in Nat /\ wokenAt \in Nat /\ clock > wokenAt /\ RegistryInv
      /\ wokenAt' = clock /\ clock' = clock /\ waking' = "fit" /\ UNCHANGED Agenda!memory
      /\ queue' = items /\ assigned' = Agenda!Assignments(items, clock)
      /\ prior' = Agenda!Selected(clock, items) /\ evidenceLeft' = Asks.offered
  BY DEF AgendaInv, RegistryInv, Agenda!Wake
<1>2. Opportunities BY <1>1, OpportunitiesAre
<1>3. A \subseteq Asks.opps BY DEF Agenda!Active
<1>4. RegistryInv'
  <2>1. UNCHANGED <<registry, attempt>> BY <1>1 DEF Agenda!memory
  <2>2. \A q \in Agenda!Questions : attempt[q].at <= clock BY <1>1 DEF RegistryInv
  <2>3. clock' \in Nat /\ wokenAt' \in Nat /\ wokenAt' <= clock' BY <1>1
  <2>4. registry' \in [Asks.opps -> [status : {"forming", "ranked", "shadow", "closed"},
                                     snapshot : Nat \ {0}, known : Nat, deadline : Nat]]
    BY <1>1, <2>1 DEF RegistryInv
  <2>5. attempt' \in [Agenda!Questions -> [at : Nat, snapshot : Nat]]
    BY <1>1, <2>1 DEF RegistryInv
  <2> QED BY <1>1, <2>1, <2>2, <2>3, <2>4, <2>5 DEF RegistryInv, Agenda!Questions
<1>5. /\ items \in Seq(Agenda!Waiting(A, clock))
      /\ \A j, k \in 1..Len(items) : items[j] = items[k] => j = k
  BY <1>1, <1>2, QueueIs
<1>6. /\ prior' \in Seq(A) /\ Agenda!Range(prior') \subseteq A
      /\ Agenda!Priority(items) \subseteq Agenda!Range(prior')
  BY <1>1, <1>2, SelectedIs
<1>7. /\ Len(assigned') \in Nat /\ Len(assigned') <= Len(items)
      /\ Len(Asks.scouts) >= 2 => Len(Asks.scouts) - Len(assigned') >= 2
      /\ \A k \in 1..Len(assigned') : assigned'[k].question = items[k]
      /\ \A j, k \in 1..Len(assigned') : j # k =>
           assigned'[j].scout # assigned'[k].scout /\ assigned'[j].question # assigned'[k].question
  BY <1>1, <1>5, AssignmentsAre
<1>0. UNCHANGED <<registry, attempt>> BY <1>1 DEF Agenda!memory
<1>8. ASSUME NEW k \in 1..Len(assigned')
      PROVE  assigned'[k].question \in Agenda!Questions /\ Rested(assigned[k].question)'
  <2> PICK q : q = items[k] OBVIOUS
  <2>1. k \in 1..Len(items) BY <1>5, <1>7
  <2>2. q \in Agenda!Waiting(A, clock) BY <1>5, <2>1
  <2>3. /\ q \in Agenda!Questions /\ q \in Agenda!Due(q[1], clock)
        /\ ~ Agenda!Expired(q[1], clock)
    BY <1>1, <1>2, <2>2, WaitingIs DEF Live
  <2>4. attempt[q].snapshot = registry[q[1]].snapshot =>
          attempt[q].at + Asks.wait[Agenda!Class(registry[q[1]].deadline - attempt[q].at)] <= clock
    BY <1>1, <2>3, DueRested
  <2>5. assigned'[k].question = q BY <1>7
  <2>6. registry' = registry /\ attempt' = attempt /\ wokenAt' = clock BY <1>0, <1>1
  <2>7. Rested(q)' BY <2>4, <2>6 DEF Rested, Agenda!Class
  <2> QED BY <2>3, <2>5, <2>7
<1>9. AssignedInv' BY <1>7, <1>8 DEF AssignedInv, Agenda!Questions
<1>10. InputInv'
  <2>1. prior' \in Seq(Asks.opps) BY <1>3, <1>6
  <2>2. ~ (evidenceLeft' < Asks.offered) BY <1>1, AgendaConstants
  <2> QED BY <1>1, <1>6, <2>1, <2>2 DEF InputInv, Agenda!Priority
<1>11. ASSUME NEW t \in Nat, t = wokenAt' PROVE Fits(t)'
  <2>1. t = clock BY <1>1, <1>11
  <2>2. Agenda!Active(t)' = Agenda!Active(t) /\ \A O : Agenda!Queue(O, t)' = Agenda!Queue(O, t)
    BY <1>1, QueueKept
  <2>3. Agenda!Active(t) = A BY <2>1
  <2>4. items = Agenda!Queue(A, t) BY <2>1
  <2>5. queue' = Agenda!Queue(Agenda!Active(t), t)' BY <1>1, <2>2, <2>3, <2>4
  <2> QED BY <1>1, <1>6, <2>2, <2>3, <2>5 DEF Fits
<1> QED BY <1>1, <1>4, <1>9, <1>10, <1>11 DEF AgendaInv

\* The greatest of some places is one of them.
LEMMA MaxIs ==
  ASSUME NEW n \in Nat, NEW T, T \subseteq 1..n, T # {}
  PROVE  Agenda!Max(T) \in T
<1> DEFINE D == {n - x : x \in T}
<1>1. D \subseteq Nat /\ D # {}
  <2>1. \A x \in T : n - x \in Nat OBVIOUS
  <2> QED BY <2>1
<1> HIDE DEF D
<1>2. PICK d \in D : \A y \in D : d <= y BY <1>1, Least
<1>3. PICK x \in T : d = n - x BY DEF D
<1>4. ASSUME NEW y \in T PROVE x >= y
  <2>1. d <= n - y BY <1>2 DEF D
  <2> QED BY <1>3, <2>1
<1> QED BY <1>4 DEF Agenda!Max

\* Removing one place leaves the others.
LEMMA RemoveIs ==
  ASSUME NEW S, NEW s \in Seq(S), NEW k \in 1..Len(s)
  PROVE  /\ Agenda!RemoveAt(s, k) \in Seq(S)
         /\ Agenda!Range(Agenda!RemoveAt(s, k)) \subseteq Agenda!Range(s)
         /\ \A j \in 1..Len(s) : j # k => s[j] \in Agenda!Range(Agenda!RemoveAt(s, k))
<1> DEFINE n == Len(s)
           u == SubSeq(s, 1, k - 1)
           v == SubSeq(s, k + 1, n)
           r == Agenda!RemoveAt(s, k)
<1>1. /\ n \in Nat /\ k \in 1..n /\ k - 1 \in Int /\ k + 1 \in Int
      /\ \A j \in 1..n : s[j] \in S
  OBVIOUS
<1>2. /\ u \in Seq(S) /\ Len(u) = k - 1 /\ \A j \in 1..(k - 1) : u[j] = s[j]
  <2>1. \A j \in 1..(k - 1) : s[j] \in S BY <1>1
  <2>2. /\ u \in Seq(S) /\ Len(u) = IF 1 <= k - 1 THEN (k - 1) - 1 + 1 ELSE 0
        /\ \A j \in 1..((k - 1) - 1 + 1) : u[j] = s[1 + j - 1]
    BY <1>1, <2>1, SubSeqProperties
  <2> QED BY <1>1, <2>2
<1>3. /\ v \in Seq(S) /\ Len(v) = n - k /\ \A j \in 1..(n - k) : v[j] = s[k + j]
  <2>1. \A j \in (k + 1)..n : s[j] \in S BY <1>1
  <2>2. /\ v \in Seq(S) /\ Len(v) = IF k + 1 <= n THEN n - (k + 1) + 1 ELSE 0
        /\ \A j \in 1..(n - (k + 1) + 1) : v[j] = s[(k + 1) + j - 1]
    <3> HIDE DEF n
    <3> QED BY <1>1, <2>1, SubSeqProperties DEF v
  <2> HIDE DEF n, v
  <2>3. ASSUME NEW j \in 1..(n - k) PROVE v[j] = s[k + j]
    <3>1. j \in 1..(n - (k + 1) + 1) /\ (k + 1) + j - 1 = k + j BY <1>1
    <3> QED BY <2>2, <3>1
  <2>4. Len(v) = n - k BY <1>1, <2>2
  <2> QED BY <2>2, <2>3, <2>4
<1>4. r = u \o v BY DEF Agenda!RemoveAt
<1> HIDE DEF n, u, v, r
<1>5. /\ r \in Seq(S) /\ Len(r) = n - 1
      /\ \A j \in 1..(n - 1) : r[j] = IF j <= k - 1 THEN s[j] ELSE s[j + 1]
  <2>1. /\ r \in Seq(S) /\ Len(r) = Len(u) + Len(v)
        /\ \A j \in 1..(Len(u) + Len(v)) : r[j] = IF j <= Len(u) THEN u[j] ELSE v[j - Len(u)]
    BY <1>2, <1>3, <1>4, ConcatProperties
  <2>2. Len(u) + Len(v) = n - 1 BY <1>1, <1>2, <1>3
  <2>3. ASSUME NEW j \in 1..(n - 1) PROVE r[j] = IF j <= k - 1 THEN s[j] ELSE s[j + 1]
    <3>1. CASE j <= k - 1
      <4>1. j \in 1..(k - 1) BY <1>1, <3>1
      <4> QED BY <1>2, <2>1, <2>2, <3>1, <4>1
    <3>2. CASE ~ (j <= k - 1)
      <4>1. j - (k - 1) \in 1..(n - k) /\ k + (j - (k - 1)) = j + 1 BY <1>1, <3>2
      <4>2. v[j - (k - 1)] = s[j + 1] BY <1>3, <4>1
      <4> QED BY <1>2, <2>1, <2>2, <3>2, <4>2
    <3> QED BY <3>1, <3>2
  <2> QED BY <2>1, <2>2, <2>3
<1>6. Agenda!Range(r) = {r[j] : j \in 1..(n - 1)} BY <1>5 DEF Agenda!Range
<1>7. Agenda!Range(s) = {s[j] : j \in 1..n} BY DEF Agenda!Range, n
<1>8. Agenda!Range(r) \subseteq Agenda!Range(s)
  <2>1. ASSUME NEW j \in 1..(n - 1) PROVE r[j] \in {s[i] : i \in 1..n}
    <3>1. j \in 1..n /\ j + 1 \in 1..n BY <1>1
    <3> QED BY <1>5, <3>1
  <2> QED BY <1>6, <1>7, <2>1
<1>9. ASSUME NEW j \in 1..n, j # k PROVE s[j] \in Agenda!Range(r)
  <2>1. CASE j < k
    <3>1. j \in 1..(n - 1) /\ j <= k - 1 BY <1>1, <2>1
    <3> QED BY <1>5, <1>6, <3>1
  <2>2. CASE j > k
    <3>1. j - 1 \in 1..(n - 1) /\ ~ (j - 1 <= k - 1) /\ (j - 1) + 1 = j BY <1>1, <2>2
    <3>2. r[j - 1] = s[j] BY <1>5, <3>1
    <3> QED BY <1>6, <3>1, <3>2
  <2> QED BY <1>1, <1>9, <2>1, <2>2
<1> QED BY <1>5, <1>8, <1>9 DEF r, n

\* What is given up to make the input fit is never followed up by anyone.
LEMMA ShedStep ==
  ASSUME AgendaInv, Agenda!Shed
  PROVE  AgendaInv'
<1>1. /\ RegistryInv /\ AssignedInv /\ InputInv /\ waking = "fit" /\ waking' = "fit"
      /\ clock' = clock /\ UNCHANGED Agenda!memory
      /\ wokenAt' = wokenAt /\ queue' = queue /\ assigned' = assigned
  BY DEF AgendaInv, Agenda!Shed, Agenda!agenda
<1>2. registry' = registry /\ attempt' = attempt BY <1>1 DEF Agenda!memory
<1>3. RegistryInv' BY <1>1, <1>2 DEF RegistryInv, Agenda!Questions
<1>4. AssignedInv' BY <1>1, <1>2 DEF AssignedInv, Rested, Agenda!Questions, Agenda!Class
<1>5. Agenda!Priority(queue)' = Agenda!Priority(queue) BY <1>1 DEF Agenda!Priority
<1>6. /\ prior' \in Seq(Asks.opps) /\ Agenda!Range(prior') \subseteq Agenda!Range(prior)
      /\ Agenda!Priority(queue) \subseteq Agenda!Range(prior')
      /\ evidenceLeft' < Asks.offered =>
           context' = {} /\ Agenda!Range(prior') = Agenda!Priority(queue)
  <2>1. CASE /\ Agenda!Removable # {}
             /\ prior' = Agenda!RemoveAt(prior, Agenda!Max(Agenda!Removable))
             /\ UNCHANGED <<context, evidenceLeft>>
    <3> DEFINE k == Agenda!Max(Agenda!Removable)
    <3>1. prior \in Seq(Asks.opps) /\ Agenda!Priority(queue) \subseteq Agenda!Range(prior)
      BY <1>1 DEF InputInv
    <3>2. k \in Agenda!Removable
      <4>1. Agenda!Removable \subseteq 1..Len(prior) /\ Len(prior) \in Nat
        BY <3>1 DEF Agenda!Removable
      <4> QED BY <2>1, <4>1, MaxIs
    <3>3. k \in 1..Len(prior) /\ prior[k] \notin Agenda!Priority(queue)
      BY <3>2 DEF Agenda!Removable
    <3> HIDE DEF k
    <3>4. /\ prior' \in Seq(Asks.opps) /\ Agenda!Range(prior') \subseteq Agenda!Range(prior)
          /\ \A j \in 1..Len(prior) : j # k => prior[j] \in Agenda!Range(prior')
      BY <2>1, <3>1, <3>3, RemoveIs DEF k
    <3>5. Agenda!Range(prior) = {prior[j] : j \in 1..Len(prior)} BY <3>1 DEF Agenda!Range
    <3>6. Agenda!Priority(queue) \subseteq Agenda!Range(prior') BY <3>1, <3>3, <3>4, <3>5
    <3>7. prior[k] \in Agenda!Range(prior) BY <3>3, <3>5
    <3>8. ~ (evidenceLeft < Asks.offered) BY <1>1, <3>3, <3>7 DEF InputInv
    <3> QED BY <2>1, <3>4, <3>6, <3>8
  <2>2. CASE context # {} /\ UNCHANGED <<prior, evidenceLeft>>
    BY <1>1, <2>2 DEF InputInv
  <2>3. CASE Agenda!Removable = {} /\ context = {} /\ UNCHANGED <<prior, context>>
    <3>1. Agenda!Range(prior) = {prior[j] : j \in 1..Len(prior)}
      BY <1>1 DEF InputInv, Agenda!Range
    <3>2. Agenda!Range(prior) \subseteq Agenda!Priority(queue)
      BY <2>3, <3>1 DEF Agenda!Removable
    <3> QED BY <1>1, <2>3, <3>2 DEF InputInv
  <2> QED BY <2>1, <2>2, <2>3 DEF Agenda!Shed
<1>7. InputInv' BY <1>1, <1>5, <1>6 DEF InputInv
<1>8. ASSUME NEW t \in Nat, t = wokenAt' PROVE Fits(t)'
  <2>1. Fits(t) BY <1>1, <1>8 DEF AgendaInv
  <2>2. Agenda!Active(t)' = Agenda!Active(t) /\ \A O : Agenda!Queue(O, t)' = Agenda!Queue(O, t)
    BY <1>1, QueueKept
  <2>3. queue' = Agenda!Queue(Agenda!Active(t), t)' BY <1>1, <2>1, <2>2 DEF Fits
  <2>4. Agenda!Range(prior)' \subseteq Agenda!Active(t)' BY <1>6, <2>1, <2>2 DEF Fits
  <2> QED BY <2>3, <2>4 DEF Fits
<1> QED BY <1>1, <1>3, <1>4, <1>7, <1>8 DEF AgendaInv

\* Between wakes opportunities move on, are assessed and get new content.
LEMMA IdleStep ==
  ASSUME AgendaInv,
         \/ Agenda!Tick
         \/ \E o \in Asks.opps : Agenda!Refresh(o) \/ Agenda!Moves(o) \/ Agenda!Assess(o)
  PROVE  AgendaInv'
<1>1. /\ RegistryInv /\ waking = "idle" /\ waking' = "idle"
      /\ wokenAt' = wokenAt /\ attempt' = attempt /\ clock' \in {clock, clock + 1}
  BY DEF AgendaInv, Agenda!Tick, Agenda!Refresh, Agenda!Moves, Agenda!Assess, Agenda!Changes,
     Agenda!agenda, Agenda!memory
<1>2. registry' \in [Asks.opps -> [status : {"forming", "ranked", "shadow", "closed"},
                                   snapshot : Nat \ {0}, known : Nat, deadline : Nat]]
  <2>1. registry \in [Asks.opps -> [status : {"forming", "ranked", "shadow", "closed"},
                                    snapshot : Nat \ {0}, known : Nat, deadline : Nat]]
    BY <1>1 DEF RegistryInv
  <2>2. CASE UNCHANGED registry BY <2>1, <2>2
  <2>3. ASSUME NEW o \in Asks.opps, Agenda!Refresh(o)
        PROVE  registry' \in [Asks.opps -> [status : {"forming", "ranked", "shadow", "closed"},
                                            snapshot : Nat \ {0}, known : Nat, deadline : Nat]]
    <3>1. PICK h \in Asks.later :
            registry' = [registry EXCEPT ![o].snapshot = @ + 1, ![o].known = clock,
                                         ![o].status = "forming", ![o].deadline = clock + h]
      BY <2>3 DEF Agenda!Refresh
    <3>2. clock \in Nat /\ clock + h \in Nat
      <4>1. clock \in Nat BY <1>1 DEF RegistryInv
      <4>2. h \in Nat BY AgendaConstants
      <4> QED BY <4>1, <4>2
    <3>3. registry[o].snapshot + 1 \in Nat \ {0} BY <2>1
    <3> QED BY <2>1, <3>1, <3>2, <3>3
  <2>4. ASSUME NEW o \in Asks.opps, Agenda!Moves(o)
        PROVE  registry' \in [Asks.opps -> [status : {"forming", "ranked", "shadow", "closed"},
                                            snapshot : Nat \ {0}, known : Nat, deadline : Nat]]
    <3> DEFINE s == CASE registry[o].status = "forming" -> "ranked"
                      [] registry[o].status = "ranked" -> "shadow" [] OTHER -> "closed"
    <3>1. registry' = [registry EXCEPT ![o].status = s] BY <2>4 DEF Agenda!Moves
    <3>2. s \in {"forming", "ranked", "shadow", "closed"} OBVIOUS
    <3> HIDE DEF s
    <3> QED BY <2>1, <3>1, <3>2
  <2> QED BY <2>2, <2>3, <2>4 DEF Agenda!Tick, Agenda!Assess, Agenda!memory
<1>3. clock' \in Nat /\ wokenAt <= clock' BY <1>1 DEF RegistryInv
<1>4. RegistryInv' BY <1>1, <1>2, <1>3 DEF RegistryInv, Agenda!Questions
<1> QED BY <1>1, <1>4 DEF AgendaInv

\* An input that fits is frozen, one that does not and cannot is given up.
LEMMA EndStep ==
  ASSUME AgendaInv, Agenda!CannotFit \/ Agenda!Anchor \/ Agenda!EndCycle \/ Agenda!BoundReached
                      \/ UNCHANGED agendaVars
  PROVE  AgendaInv'
<1>1. /\ UNCHANGED <<clock, wokenAt, queue, assigned, room, prior, context, evidenceLeft>>
      /\ UNCHANGED Agenda!memory
      /\ \/ waking' = "idle" \/ waking' = waking
         \/ waking = "fit" /\ waking' = "scouts" /\ Agenda!Size <= room
  BY DEF Agenda!CannotFit, Agenda!Anchor, Agenda!EndCycle, Agenda!BoundReached, Agenda!vars,
     Agenda!memory, Agenda!agenda, Agenda!input, agendaVars
<1>2. registry' = registry /\ attempt' = attempt BY <1>1 DEF Agenda!memory
<1>3. RegistryInv' BY <1>1, <1>2 DEF AgendaInv, RegistryInv, Agenda!Questions
<1>4. waking' # "idle" => AssignedInv' /\ InputInv'
  <2>1. AssignedInv => AssignedInv'
    BY <1>1, <1>2 DEF AssignedInv, Rested, Agenda!Questions, Agenda!Class
  <2>2. InputInv => InputInv' BY <1>1 DEF InputInv, Agenda!Priority
  <2> QED BY <1>1, <2>1, <2>2 DEF AgendaInv
<1>5. ASSUME NEW t \in Nat, waking' = "fit", t = wokenAt' PROVE Fits(t)'
  <2>1. Fits(t) BY <1>1, <1>5 DEF AgendaInv
  <2>2. Agenda!Active(t)' = Agenda!Active(t) /\ \A O : Agenda!Queue(O, t)' = Agenda!Queue(O, t)
    BY <1>1, QueueKept
  <2>3. queue' = Agenda!Queue(Agenda!Active(t), t)' BY <1>1, <2>1, <2>2 DEF Fits
  <2>4. Agenda!Range(prior)' \subseteq Agenda!Active(t)' BY <1>1, <2>1, <2>2 DEF Fits
  <2> QED BY <2>3, <2>4 DEF Fits
<1>6. waking' = "scouts" => (Agenda!Size <= room)' BY <1>1 DEF AgendaInv, Agenda!Size
<1> QED BY <1>3, <1>4, <1>5, <1>6 DEF AgendaInv

\* A Scout that followed its question up leaves its mark on that question.
LEMMA FollowedStep ==
  ASSUME AgendaInv, NEW k, Agenda!FollowedUp(k)
  PROVE  AgendaInv'
<1> PICK q : q = assigned[k].question OBVIOUS
<1>1. /\ RegistryInv /\ AssignedInv /\ InputInv /\ waking = "scouts" /\ waking' = "scouts"
      /\ k \in 1..Len(assigned) /\ q \in Agenda!Questions
      /\ attempt' = [attempt EXCEPT ![q] = [at |-> wokenAt, snapshot |-> registry[q[1]].snapshot]]
      /\ UNCHANGED <<clock, registry, wokenAt, queue, assigned, room, prior, context, evidenceLeft>>
  BY DEF AgendaInv, AssignedInv, Agenda!FollowedUp, Agenda!agenda, Agenda!input
<1>2. attempt \in [Agenda!Questions -> [at : Nat, snapshot : Nat]]
        /\ wokenAt \in Nat /\ registry[q[1]].snapshot \in Nat
  BY <1>1, QuestionIs DEF RegistryInv
<1>3. attempt' \in [Agenda!Questions -> [at : Nat, snapshot : Nat]] BY <1>1, <1>2
<1>4. \A p \in Agenda!Questions : attempt'[p].at = wokenAt \/ attempt'[p] = attempt[p]
  BY <1>1, <1>2
<1>5. RegistryInv' BY <1>1, <1>2, <1>3, <1>4 DEF RegistryInv, Agenda!Questions
<1>6. \A p \in Agenda!Questions : Rested(p) => Rested(p)'
  BY <1>1, <1>4 DEF Rested, Agenda!Class
<1>7. AssignedInv' BY <1>1, <1>6 DEF AssignedInv, Agenda!Questions
<1>8. InputInv' BY <1>1 DEF InputInv, Agenda!Priority
<1>9. (Agenda!Size <= room)' BY <1>1 DEF AgendaInv, Agenda!Size
<1> QED BY <1>1, <1>5, <1>7, <1>8, <1>9 DEF AgendaInv

\* Every step keeps the invariant.
LEMMA AgendaNextInv ==
  ASSUME AgendaInv, Agenda!Next \/ UNCHANGED agendaVars
  PROVE  AgendaInv'
BY WakeStep, ShedStep, IdleStep, EndStep, FollowedStep DEF Agenda!Next

\* What the invariant says of the wake.
LEMMA InvAgenda ==
  ASSUME AgendaInv
  PROVE  Agenda!AgendaTruthful
<1> PICK t : t = wokenAt OBVIOUS
<1> DEFINE A == Agenda!Active(t)
           items == Agenda!Queue(A, t)
           due == {o \in A : ~ Agenda!Expired(o, t) /\ Agenda!Due(o, t) # {}}
<1>1. t \in Nat /\ Opportunities BY OpportunitiesAre DEF AgendaInv, RegistryInv
<1>2. due = Opened(Agenda!Waiting(A, t))
  <2>1. ASSUME NEW o, NEW q \in Agenda!Due(o, t) PROVE q[1] = o
    <3>1. \E k : q = <<o, Agenda!Origins[k]>> BY DEF Agenda!Due, Agenda!OpenQuestions
    <3> QED BY <3>1
  <2>2. \A q : q \in Agenda!Waiting(A, t)
                 <=> q[1] \in A /\ ~ Agenda!Expired(q[1], t) /\ q \in Agenda!Due(q[1], t)
    BY <1>1, WaitingIs
  <2>3. ASSUME NEW o \in due PROVE o \in Opened(Agenda!Waiting(A, t))
    <3>1. PICK q \in Agenda!Due(o, t) : TRUE OBVIOUS
    <3> QED BY <2>1, <2>2, <3>1 DEF Opened
  <2>4. ASSUME NEW q \in Agenda!Waiting(A, t) PROVE q[1] \in due BY <2>2
  <2> QED BY <2>3, <2>4 DEF Opened
<1>3. ASSUME waking = "fit"
      PROVE  /\ Agenda!Priority(queue) \subseteq due
             /\ Agenda!Cardinality(Agenda!Priority(queue))
                  = Agenda!Min({Asks.priority, Agenda!Cardinality(due)})
             /\ Agenda!Queue(Agenda!Range(prior), t) = queue
  <2>1. /\ queue = items /\ Agenda!Range(prior) \subseteq A
        /\ Agenda!Priority(queue) \subseteq Agenda!Range(prior)
    BY <1>1, <1>3 DEF AgendaInv, Fits, InputInv
  <2>2. Agenda!Priority(items) = Opened(Agenda!Leads(A, t)) BY <1>1, QueueIs
  <2>3. Opened(Agenda!Leads(A, t)) \subseteq due
    <3>1. Agenda!Leads(A, t) \subseteq Agenda!Waiting(A, t) BY <1>1, LeadsAre, BestIs
    <3> QED BY <1>2, <3>1 DEF Opened
  <2>4. /\ Cardinality(due) \in Nat
        /\ Cardinality(Opened(Agenda!Leads(A, t)))
             = IF Asks.priority <= Cardinality(due) THEN Asks.priority ELSE Cardinality(due)
    BY <1>1, <1>2, LeadsAre
  <2>5. Cardinality(Opened(Agenda!Leads(A, t))) = Agenda!Min({Asks.priority, Cardinality(due)})
    <3>1. Asks.priority \in Int BY AgendaConstants
    <3> HIDE DEF due
    <3> QED BY <2>4, <3>1, MinTwo
  <2>6. Agenda!Queue(Agenda!Range(prior), t) = queue BY <1>1, <2>1, QueueSame
  <2> QED BY <2>1, <2>2, <2>3, <2>5, <2>6, AgendaCard
<1>4. Agenda!AssignedSound BY <1>3 DEF Agenda!AssignedSound, AgendaInv, AssignedInv
<1>5. Agenda!FrozenSound BY <1>3 DEF Agenda!FrozenSound, AgendaInv, InputInv
<1> QED BY <1>4, <1>5 DEF Agenda!AgendaTruthful

\* No question is looked into twice on one snapshot within its cadence.
LEMMA ApartStep ==
  ASSUME AgendaInv, Agenda!Next
  PROVE  Agenda!Apart
<1> SUFFICES ASSUME NEW q \in Agenda!Questions, attempt'[q] # attempt[q],
                    attempt[q].snapshot = attempt'[q].snapshot
             PROVE  attempt'[q].at >= attempt[q].at
                       + Asks.wait[Agenda!Class(registry[q[1]].deadline - attempt[q].at)]
  BY DEF Agenda!Apart
<1>1. PICK k : Agenda!FollowedUp(k)
  BY DEF Agenda!Next, Agenda!Wake, Agenda!Shed, Agenda!CannotFit, Agenda!Anchor, Agenda!EndCycle,
     Agenda!Tick, Agenda!BoundReached, Agenda!Refresh, Agenda!Moves, Agenda!Assess, Agenda!memory,
     Agenda!vars
<1> PICK p : p = assigned[k].question OBVIOUS
<1>2. /\ p \in Agenda!Questions /\ Rested(p) /\ attempt[p].at # wokenAt
      /\ attempt' = [attempt EXCEPT ![p] = [at |-> wokenAt, snapshot |-> registry[p[1]].snapshot]]
  BY <1>1 DEF AgendaInv, AssignedInv, Agenda!FollowedUp
<1>3. attempt \in [Agenda!Questions -> [at : Nat, snapshot : Nat]] /\ wokenAt \in Nat
  BY DEF AgendaInv, RegistryInv
<1>4. q = p /\ attempt'[q].at = wokenAt /\ attempt[q].snapshot = registry[q[1]].snapshot
  BY <1>2, <1>3
<1>5. attempt[q].at + Asks.wait[Agenda!Class(registry[q[1]].deadline - attempt[q].at)] <= wokenAt
  BY <1>2, <1>4 DEF Rested
<1>6. attempt[q].at + Asks.wait[Agenda!Class(registry[q[1]].deadline - attempt[q].at)] \in Int
  BY <1>3, ClassIs
<1> QED BY <1>3, <1>4, <1>5, <1>6

-----------------------------------------------------------------------------
\* The instance of the agenda steps or stays as it is.
LEMMA AgendaSteps ==
  ASSUME [Next]_vars, InAgenda
  PROVE  InAgenda' /\ (Agenda!Next \/ UNCHANGED agendaVars)
BY DEF Next, vars, InBatch, InLasting, InAlone, InSeries, InTwo, InSmall, InMerging, InAsking, InAgenda

\* The invariant of the agenda holds whatever the other instances do.
THEOREM AgendaInvariant == Safety => [](InAgenda => AgendaInv)
<1>1. Init => (InAgenda => AgendaInv) BY AgendaInitInv DEF Init
<1>2. (InAgenda => AgendaInv) /\ [Next]_vars => (InAgenda => AgendaInv)'
  <2> SUFFICES ASSUME InAgenda => AgendaInv, [Next]_vars, InAgenda' PROVE AgendaInv'
    OBVIOUS
  <2>1. InAgenda BY DEF Next, vars, InAgenda
  <2> QED BY <2>1, AgendaSteps, AgendaNextInv
<1> QED BY <1>1, <1>2, PTL DEF Safety

\* The agenda of a wake is sound, for any opportunities, questions, deadlines,
\* Scouts and limits: what is assigned is open and undecided, each question to
\* one Scout, as many opportunities as there are due ones and places, and Scouts
\* are left to explore; and an input that is frozen has the queue of what is left
\* in it, whatever had to be given up (research_agenda.py, DatabaseSourceFlow,
\* FrozenScoutInput).
THEOREM AgendasStayTruthful == Spec => []AgendaTruthful
<1>1. (InAgenda => AgendaInv) => AgendaTruthful BY InvAgenda DEF AgendaTruthful
<1> QED BY <1>1, AgendaInvariant, PTL DEF Spec

-----------------------------------------------------------------------------
(***************************************************************************)
(* Both, as instances of the research process.                             *)
(***************************************************************************)
\* The instance of the desk steps or stays as it is.
LEMMA DeskSteps ==
  ASSUME [Next]_vars
  PROVE  /\ system' = system
         /\ InMerging => Desk(Merging)!Next \/ UNCHANGED deskVars
         /\ InAsking => Desk(Asking)!Next \/ UNCHANGED deskVars
BY DEF Next, vars, InBatch, InLasting, InAlone, InSeries, InTwo, InSmall, InMerging, InAsking, InAgenda

DesksInv == (InMerging => DeskInv(Merging)) /\ (InAsking => DeskInv(Asking))

\* The invariant of the desk holds whatever the other instances do.
THEOREM DeskInvariant == Safety => []DesksInv
<1>1. Init => DesksInv
  <2>1. Init /\ InMerging => DeskInv(Merging) BY DeskBounds, DeskInitInv DEF Init, InMerging, InAsking
  <2>2. Init /\ InAsking => DeskInv(Asking) BY DeskBounds, DeskInitInv DEF Init
  <2> QED BY <2>1, <2>2 DEF DesksInv
<1>2. DesksInv /\ [Next]_vars => DesksInv'
  <2> SUFFICES ASSUME DesksInv, [Next]_vars PROVE DesksInv'
    OBVIOUS
  <2>1. ASSUME InMerging' PROVE DeskInv(Merging)'
    <3>1. InMerging BY <2>1, DeskSteps DEF InMerging
    <3>2. DeskInv(Merging) /\ (Desk(Merging)!Next \/ UNCHANGED deskVars) BY <3>1, DeskSteps DEF DesksInv
    <3> QED BY <3>2, DeskBounds, DeskNextInv, DeskStutters
  <2>2. ASSUME InAsking' PROVE DeskInv(Asking)'
    <3>1. InAsking BY <2>2, DeskSteps DEF InAsking
    <3>2. DeskInv(Asking) /\ (Desk(Asking)!Next \/ UNCHANGED deskVars) BY <3>1, DeskSteps DEF DesksInv
    <3> QED BY <3>2, DeskBounds, DeskNextInv, DeskStutters
  <2> QED BY <2>1, <2>2 DEF DesksInv
<1> QED BY <1>1, <1>2, PTL DEF Safety

\* The desk's tables are what its cycles made of them, for any numbers of
\* cycles, candidates, attempts and pieces of evidence, wherever the attempts
\* broke off and whatever Scouts found when the cycle ran again: who was merged
\* away is rejected and belongs to one active opportunity; what is ranked was
\* assessed by both seats on the ranked snapshot in that cycle, shared and
\* discussed; and no role is asked more often than it may (foundry.py,
\* opportunity_registry.py, agentic_roles.py, mvp_research_flow.py).
THEOREM DesksStayTruthful == Spec => []DeskTruthful
<1>1. DesksInv => DeskTruthful BY DeskInvTruthful DEF DesksInv, DeskTruthful
<1> QED BY <1>1, DeskInvariant, PTL DEF Spec

\* Only the resolution resolves, and it says again what it said of the same batch.
LEMMA ResolvesSame ==
  ASSUME NEW K, Desk(K)!DeskAssumption, DeskInv(K), Desk(K)!Next, Desk(K)!ResolvesAgain
  PROVE  drafts' = last.drafts
<1>1. stage = "resolve" /\ stage' \in {"review", "complete"} /\ last.batch = Desk(K)!Batch
  BY DEF Desk!ResolvesAgain
<1>2. CASE Desk(K)!Resolve BY <1>1, <1>2, ResolveStep DEF DeskInv
<1>3. CASE Desk(K)!Review
  BY <1>1, <1>3 DEF Desk!Review, Desk!PreRejected, Desk!LoadAssessment, Desk!RecoverOutput, Desk!MayAsk,
     Desk!StartRun, Desk!Complete, Desk!CitesOutside, Desk!Unanchored, Desk!Retryable, Desk!OverBudget,
     Desk!Broken, Desk!Answered, Desk!LockPrivateAssessment, Desk!SharePrivateAssessments, Desk!RecordDiscussion
<1>4. CASE Desk(K)!Fail BY <1>1, <1>4 DEF Desk!Fail, Desk!Raise, Desk!Goes
<1>5. CASE \/ Desk(K)!Start \/ Desk(K)!Materialize \/ Desk(K)!NotOpened \/ Desk(K)!Finish \/ Desk(K)!GiveUp
           \/ \E passed \in SUBSET reviewed : Desk(K)!Rank(passed)
           \/ \E o \in Desk(K)!Cand : Desk(K)!Exit(o) \/ Desk(K)!OpenShadow(o)
  BY <1>1, <1>5 DEF Desk!Start, Desk!Materialize, Desk!NotOpened, Desk!Finish, Desk!GiveUp, Desk!Rank,
     Desk!Exit, Desk!OpenShadow
<1> QED BY <1>1, <1>2, <1>3, <1>4, <1>5 DEF Desk!Next

\* No work is done twice, for any parameters of the desk and the agenda: a cycle
\* that is run again with the same candidates reviews the same drafts, however
\* its earlier attempts ended (OpportunityRegistry.resolve); and no question is
\* looked into twice on one snapshot within its cadence (next_follow_up_at).
THEOREM NoWorkDoneTwice == Spec => NoWorkTwice
<1> DEFINE Once(K) == Desk(K)!ResolvesAgain => drafts' = last.drafts
<1>1. ASSUME NEW K, Desk(K)!DeskAssumption, DeskInv(K), Desk(K)!Next \/ UNCHANGED deskVars
      PROVE  Once(K)
  <2>1. CASE Desk(K)!Next BY <1>1, <2>1, ResolvesSame
  <2>2. CASE UNCHANGED deskVars BY <2>2 DEF deskVars, Desk!ResolvesAgain
  <2> QED BY <1>1, <2>1, <2>2
<1>2. ASSUME DesksInv, InAgenda => AgendaInv, [Next]_vars
      PROVE  /\ InMerging /\ Desk(Merging)!ResolvesAgain => drafts' = last.drafts
             /\ InAsking /\ Desk(Asking)!ResolvesAgain => drafts' = last.drafts
             /\ InAgenda => Agenda!Apart
  <2>1. InMerging => Once(Merging) BY <1>1, <1>2, DeskSteps, DeskBounds DEF DesksInv
  <2>2. InAsking => Once(Asking) BY <1>1, <1>2, DeskSteps, DeskBounds DEF DesksInv
  <2>3. InAgenda => Agenda!Apart
    <3> SUFFICES ASSUME InAgenda PROVE Agenda!Apart
      OBVIOUS
    <3>1. CASE Agenda!Next BY <1>2, <3>1, ApartStep
    <3>2. CASE UNCHANGED agendaVars
      <4>1. attempt' = attempt BY <3>2 DEF agendaVars
      <4> QED BY <4>1 DEF Agenda!Apart
    <3> QED BY <1>2, <3>1, <3>2, AgendaSteps
  <2> QED BY <2>1, <2>2, <2>3
<1> QED BY <1>2, DeskInvariant, AgendaInvariant, PTL DEF Spec, Safety, NoWorkTwice
=============================================================================
