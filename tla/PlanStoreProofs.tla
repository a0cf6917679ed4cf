-------------------------- MODULE PlanStoreProofs --------------------------
(***************************************************************************)
(* Proofs about PlanStore, for any requests, plans and settings: one plan  *)
(* per shape, the bound of the store, promoted plans that stay, and a fast *)
(* path that runs its chain once.                                          *)
(***************************************************************************)
EXTENDS PlanStore, FiniteSetTheorems, SequenceTheorems, WellFoundedInduction, TLAPS

Sound(p) == \A k \in DOMAIN p.anchors : ServesBy(p.anchors[k], ShapeOf[p.template])

\* The store s with the scenarios sc: an id carries the shape of its plan, and
\* the anchors of a plan are phrasings that matches lead from to its shape.
Store(s, sc) ==
    /\ s \in Seq(Plan)
    /\ \A i \in DOMAIN s : s[i].id[2] = ShapeOf[s[i].template]
    /\ \A i, j \in DOMAIN s : ShapeOf[s[i].template] = ShapeOf[s[j].template] => i = j
    /\ \/ Len(s) <= MaxSize
       \/ \A i, j \in DOMAIN s : ~s[i].promoted /\ ~s[j].promoted => i = j
    /\ \A id \in sc : \E i \in DOMAIN s : s[i].id = id /\ s[i].promoted
    /\ \A i \in DOMAIN s : Sound(s[i])

\* A request that runs a plan has the plan's shape in its id, and has run no
\* chain before.
TaskOK(k) ==
    /\ k.pc \in {"slots", "running", "answering"} => k.id[2] = ShapeOf[k.template]
    /\ k.pc \in {"slots", "running", "answering"} => ServesBy(k.query, ShapeOf[k.template])
    /\ k.pc \in {"slots", "planning", "running", "react"} => ~k.ran

TaskInv == \A t \in Tasks : TaskOK(task[t])

IInv == TypeOK /\ Store(plans, scenarios) /\ TaskInv

-----------------------------------------------------------------------------
(* Least and greatest numbers.                                             *)

\* Every set of naturals has a least element.
LEMMA LeastNat ==
    ASSUME NEW S, S \subseteq Nat, S # {}
    PROVE  \E x \in S : \A y \in S : x <= y
<1> DEFINE R == OpToRel(<, Nat)
<1>1. \A x, y \in Nat : y < x => <<y, x>> \in R
  BY DEF OpToRel
<1>2. IsWellFoundedOn(R, Nat)
  BY NatLessThanWellFounded
<1> HIDE DEF R
<1>3. PICK x \in S : \A y \in S : ~ (<<y, x>> \in R)
  BY <1>2, WFMin
<1>4. ASSUME NEW y \in S PROVE x <= y
  <2>1. ~(y < x)
    BY <1>1, <1>3
  <2> QED BY <2>1
<1> QED BY <1>4

\* Best is the first place of a set of places.
LEMMA BestIn ==
    ASSUME NEW S, S \subseteq Nat, S # {}
    PROVE  Best(S) \in S
BY LeastNat DEF Best

\* A set of naturals with an upper bound has a greatest element.
LEMMA GreatestNat ==
    ASSUME NEW S, NEW m \in Nat, S \subseteq 0..m, S # {}
    PROVE  \E x \in S : \A y \in S : y <= x
<1> DEFINE D == {m - x : x \in S}
<1>1. D \subseteq Nat
  <2>1. \A x \in S : m - x \in Nat
    OBVIOUS
  <2> QED BY <2>1
<1>0. D # {}
  OBVIOUS
<1>2. PICK d \in D : \A e \in D : d <= e
  BY <1>0, <1>1, LeastNat
<1>3. PICK x \in S : d = m - x
  OBVIOUS
<1>4. ASSUME NEW y \in S PROVE y <= x
  <2>1. m - y \in D
    OBVIOUS
  <2>2. m - x <= m - y
    BY <1>2, <1>3, <2>1
  <2> QED BY <2>2
<1> QED BY <1>4

\* Finitely many naturals have an upper bound: the least place they stop having
\* one at cannot exist.
LEMMA UpperBound ==
    ASSUME NEW n \in Nat, NEW f, \A i \in 1..n : f[i] \in Nat
    PROVE  \E m \in Nat : \A i \in 1..n : f[i] <= m
<1> DEFINE Bound(k) == \E m \in Nat : \A i \in 1..k : f[i] <= m
           T == {k \in 0..n : ~Bound(k)}
<1> SUFFICES ASSUME T # {} PROVE FALSE
  <2>1. n \in 0..n
    OBVIOUS
  <2> QED BY <2>1
<1>1. T \subseteq Nat
  OBVIOUS
<1>2. PICK k \in T : \A j \in T : k <= j
  <2> HIDE DEF T
  <2> QED BY <1>1, LeastNat
<1>3. k \in 0..n /\ ~Bound(k) /\ \A j \in 0..n : ~Bound(j) => k <= j
  BY <1>2
<1>4. Bound(0)
  <2>1. 0 \in Nat /\ \A i \in 1..0 : f[i] <= 0
    OBVIOUS
  <2> QED BY <2>1
<1> HIDE DEF T
<1>5. k # 0
  BY <1>3, <1>4
<1>6. k - 1 \in 0..n /\ k \in 1..n /\ ~(k <= k - 1)
  BY <1>3, <1>5
<1>7. Bound(k - 1)
  <2> HIDE DEF Bound
  <2> QED BY <1>3, <1>6
<1>8. PICK m \in Nat : \A i \in 1..(k - 1) : f[i] <= m
  BY <1>7
<1>9. f[k] \in Nat /\ \A i \in 1..k : i = k \/ i \in 1..(k - 1)
  BY <1>6
<1>10. PICK g \in Nat : m <= g /\ f[k] <= g
  <2>1. m <= f[k] \/ f[k] <= m
    BY <1>9
  <2> QED BY <2>1, <1>9
<1>11. ASSUME NEW i \in 1..k PROVE f[i] <= g
  <2>1. CASE i = k
    BY <2>1, <1>10
  <2>2. CASE i \in 1..(k - 1)
    <3>1. f[i] <= m /\ f[i] \in Nat
      BY <2>2, <1>8, <1>6
    <3> QED BY <3>1, <1>10
  <2> QED BY <2>1, <2>2, <1>9
<1>12. Bound(k)
  BY <1>11
<1> QED BY <1>3, <1>12

-----------------------------------------------------------------------------
(* match().                                                                *)

\* The score of a plan is that of one of its anchors, or 0.
LEMMA ScoreIn ==
    ASSUME NEW q \in Query, NEW p \in Plan
    PROVE  /\ ScoreOf(q, p) \in Nat
           /\ ScoreOf(q, p) > 0 =>
                \E i \in DOMAIN p.anchors : ScoreOf(q, p) = Score[q][p.anchors[i]]
<1> DEFINE scores == {Score[q][p.anchors[i]] : i \in DOMAIN p.anchors} \cup {0}
           f == [i \in DOMAIN p.anchors |-> Score[q][p.anchors[i]]]
<1>1. /\ Len(p.anchors) \in Nat /\ DOMAIN p.anchors = 1..Len(p.anchors)
      /\ \A i \in DOMAIN p.anchors : p.anchors[i] \in Query
  BY DEF Plan
<1>2. \A i \in 1..Len(p.anchors) : f[i] \in Nat /\ f[i] = Score[q][p.anchors[i]]
  BY <1>1, PlanAssumption
<1> HIDE DEF f
<1>3. PICK m \in Nat : \A i \in 1..Len(p.anchors) : f[i] <= m
  BY <1>1, <1>2, UpperBound
<1>4. scores \subseteq 0..m
  <2>1. \A i \in DOMAIN p.anchors : f[i] = Score[q][p.anchors[i]] /\ f[i] \in 0..m
    BY <1>1, <1>2, <1>3
  <2> QED BY <2>1
<1>5. scores # {}
  OBVIOUS
<1>6. ScoreOf(q, p) = CHOOSE x \in scores : \A y \in scores : y <= x
  BY DEF ScoreOf
<1>7. ScoreOf(q, p) \in scores
  <2> HIDE DEF scores
  <2>1. \E x \in scores : \A y \in scores : y <= x
    BY <1>4, <1>5, GreatestNat
  <2> QED BY <2>1, <1>6
<1> QED BY <1>4, <1>7

\* match() returns one of the candidates.
LEMMA MatchedIn ==
    ASSUME TypeOK, NEW q \in Query, Candidates(q) # {}
    PROVE  Matched(q) \in Candidates(q)
<1> DEFINE C == Candidates(q)
           f == [i \in DOMAIN plans |-> ScoreOf(q, plans[i])]
           V == {f[i] : i \in C}
           B == {i \in C : \A j \in C : ScoreOf(q, plans[j]) <= ScoreOf(q, plans[i])}
<1>1. /\ Len(plans) \in Nat /\ DOMAIN plans = 1..Len(plans)
      /\ \A i \in DOMAIN plans : plans[i] \in Plan
  BY DEF TypeOK
<1>2. C \subseteq DOMAIN plans
  BY DEF Candidates
<1>3. \A i \in 1..Len(plans) : f[i] \in Nat /\ f[i] = ScoreOf(q, plans[i])
  BY <1>1, ScoreIn
<1> HIDE DEF f, C
<1>4. PICK m \in Nat : \A i \in 1..Len(plans) : f[i] <= m
  BY <1>1, <1>3, UpperBound
<1>5. V \subseteq 0..m /\ V # {}
  <2>1. C # {}
    BY DEF C
  <2>2. \A i \in C : f[i] \in 0..m
    BY <1>1, <1>2, <1>3, <1>4
  <2> QED BY <2>1, <2>2
<1>6. PICK v \in V : \A w \in V : w <= v
  <2> HIDE DEF V
  <2> QED BY <1>5, GreatestNat
<1>7. PICK i \in C : v = f[i]
  OBVIOUS
<1>8. i \in B
  BY <1>1, <1>2, <1>3, <1>6, <1>7
<1>9. B \subseteq Nat /\ B \subseteq C
  BY <1>1, <1>2
<1>10. Matched(q) = Best(B)
  BY DEF Matched, C
<1> HIDE DEF B
<1>11. Best(B) \in B
  BY <1>8, <1>9, BestIn
<1> QED BY <1>9, <1>10, <1>11 DEF C

\* Matches lead from a query to itself, and on from where they lead.
LEMMA LeadsOn ==
    /\ \A q \in Query : q \in Leads(q)
    /\ \A q, a, b \in Query : Score[q][a] >= Threshold /\ b \in Leads(a) => b \in Leads(q)
BY DEF Leads

\* A plan that is matched is of a shape that matches lead to from the query, if they
\* lead to it from its anchors.
LEMMA MatchedServes ==
    ASSUME TypeOK, NEW q \in Query, NEW i \in Candidates(q), Sound(plans[i])
    PROVE  ServesBy(q, ShapeOf[plans[i].template])
<1>1. i \in DOMAIN plans /\ ScoreOf(q, plans[i]) >= Threshold /\ plans[i] \in Plan
  BY DEF Candidates, TypeOK
<1>2. ScoreOf(q, plans[i]) > 0
  BY <1>1, ScoreIn, PlanAssumption
<1>3. PICK k \in DOMAIN plans[i].anchors : ScoreOf(q, plans[i]) = Score[q][plans[i].anchors[k]]
  BY <1>1, <1>2, ScoreIn
<1>4. plans[i].anchors[k] \in Query
  BY <1>1 DEF Plan
<1>5. /\ Score[q][plans[i].anchors[k]] >= Threshold
      /\ ServesBy(plans[i].anchors[k], ShapeOf[plans[i].template])
  BY <1>1, <1>3 DEF Sound
<1>6. Leads(plans[i].anchors[k]) \subseteq Query
  BY DEF Leads
<1> QED BY <1>4, <1>5, <1>6, LeadsOn DEF ServesBy

-----------------------------------------------------------------------------
(* The operations of the store.                                            *)

\* _add_anchor changes the anchors only, by one phrasing at most.
LEMMA WithAnchorIs ==
    ASSUME NEW p \in Plan, NEW q \in Query
    PROVE  /\ WithAnchor(p, q) \in Plan
           /\ WithAnchor(p, q).id = p.id /\ WithAnchor(p, q).template = p.template
           /\ WithAnchor(p, q).promoted = p.promoted
           /\ Sound(p) /\ ServesBy(q, ShapeOf[p.template]) => Sound(WithAnchor(p, q))
<1>1. CASE WithAnchor(p, q) = p
  BY <1>1
<1>2. CASE WithAnchor(p, q) = [p EXCEPT !.anchors = Append(@, q)]
  <2>1. /\ p.anchors \in Seq(Query) /\ Append(p.anchors, q) \in Seq(Query)
        /\ \A k \in DOMAIN Append(p.anchors, q) :
             (k \in DOMAIN p.anchors /\ Append(p.anchors, q)[k] = p.anchors[k])
             \/ Append(p.anchors, q)[k] = q
    BY DEF Plan
  <2>2. WithAnchor(p, q).anchors = Append(p.anchors, q)
    BY <1>2 DEF Plan
  <2>3. /\ WithAnchor(p, q) \in Plan
        /\ WithAnchor(p, q).id = p.id /\ WithAnchor(p, q).template = p.template
        /\ WithAnchor(p, q).promoted = p.promoted
    BY <1>2, <2>1 DEF Plan
  <2> QED BY <2>1, <2>2, <2>3 DEF Sound
<1> QED BY <1>1, <1>2 DEF WithAnchor

\* To drop a plan closes the gap.
LEMMA DropIs ==
    ASSUME NEW s \in Seq(Plan), NEW i \in DOMAIN s
    PROVE  /\ Drop(s, i) \in Seq(Plan) /\ Len(Drop(s, i)) = Len(s) - 1
           /\ DOMAIN Drop(s, i) = 1..(Len(s) - 1)
           /\ \A j \in 1..(Len(s) - 1) : Drop(s, i)[j] = s[IF j < i THEN j ELSE j + 1]
<1> DEFINE a == SubSeq(s, 1, i - 1)
           b == SubSeq(s, i + 1, Len(s))
<1>1. Len(s) \in Nat /\ DOMAIN s = 1..Len(s) /\ i \in 1..Len(s)
      /\ \A j \in 1..Len(s) : s[j] \in Plan
  OBVIOUS
<1>2. /\ a \in Seq(Plan) /\ Len(a) = i - 1
      /\ \A j \in 1..(i - 1) : a[j] = s[j]
  <2>1. 1 \in Int /\ i - 1 \in Int /\ \A j \in 1..(i - 1) : s[j] \in Plan
    BY <1>1
  <2>2. /\ SubSeq(s, 1, i - 1) \in Seq(Plan)
        /\ Len(SubSeq(s, 1, i - 1)) = IF 1 <= i - 1 THEN i - 1 - 1 + 1 ELSE 0
        /\ \A j \in 1..(i - 1 - 1 + 1) : SubSeq(s, 1, i - 1)[j] = s[1 + j - 1]
    BY <2>1, SubSeqProperties
  <2> QED BY <1>1, <2>2
<1>3. /\ b \in Seq(Plan) /\ Len(b) = Len(s) - i
      /\ \A j \in 1..(Len(s) - i) : b[j] = s[i + j]
  <2>1. i + 1 \in Int /\ Len(s) \in Int /\ \A j \in (i + 1)..Len(s) : s[j] \in Plan
    BY <1>1
  <2>2. /\ SubSeq(s, i + 1, Len(s)) \in Seq(Plan)
        /\ Len(SubSeq(s, i + 1, Len(s)))
             = IF i + 1 <= Len(s) THEN Len(s) - (i + 1) + 1 ELSE 0
        /\ \A j \in 1..(Len(s) - (i + 1) + 1) : SubSeq(s, i + 1, Len(s))[j] = s[i + 1 + j - 1]
    BY <2>1, SubSeqProperties
  <2>3. \A j \in 1..(Len(s) - i) : j \in 1..(Len(s) - (i + 1) + 1) /\ i + 1 + j - 1 = i + j
    BY <1>1
  <2>4. \A j \in 1..(Len(s) - i) : b[j] = s[i + j]
    BY <2>2, <2>3
  <2> QED BY <1>1, <2>2, <2>4
<1> HIDE DEF a, b
<1>4. /\ a \o b \in Seq(Plan) /\ Len(a \o b) = Len(s) - 1
      /\ \A j \in 1..(Len(s) - 1) : (a \o b)[j] = IF j <= i - 1 THEN a[j] ELSE b[j - (i - 1)]
  <2>1. Len(a) + Len(b) = Len(s) - 1
    BY <1>1, <1>2, <1>3
  <2>2. /\ a \o b \in Seq(Plan) /\ Len(a \o b) = Len(a) + Len(b)
        /\ \A j \in 1..(Len(a) + Len(b)) :
             (a \o b)[j] = IF j <= Len(a) THEN a[j] ELSE b[j - Len(a)]
    BY <1>2, <1>3, ConcatProperties
  <2> QED BY <1>2, <2>1, <2>2
<1>5. ASSUME NEW j \in 1..(Len(s) - 1) PROVE (a \o b)[j] = s[IF j < i THEN j ELSE j + 1]
  <2>1. CASE j < i
    BY <2>1, <1>1, <1>2, <1>4
  <2>2. CASE ~(j < i)
    <3>1. j - (i - 1) \in 1..(Len(s) - i) /\ i + (j - (i - 1)) = j + 1
      BY <2>2, <1>1
    <3>2. b[j - (i - 1)] = s[i + (j - (i - 1))]
      BY <3>1, <1>3
    <3> QED BY <2>2, <3>1, <3>2, <1>1, <1>4
  <2> QED BY <2>1, <2>2
<1>6. DOMAIN (a \o b) = 1..(Len(s) - 1)
  BY <1>4
<1>7. Drop(s, i) = a \o b
  BY DEF Drop, a, b
<1> HIDE DEF Drop
<1> QED BY <1>4, <1>5, <1>6, <1>7

-----------------------------------------------------------------------------
(* What the operations keep of a sound store.                              *)

\* A plan replaced by one with its id and template, promoted if it was.
LEMMA SetStore ==
    ASSUME NEW s, NEW sc, Store(s, sc), NEW i \in DOMAIN s, NEW p \in Plan,
           p.id = s[i].id, p.template = s[i].template, s[i].promoted => p.promoted,
           Sound(p)
    PROVE  /\ Store([s EXCEPT ![i] = p], sc)
           /\ p.promoted => Store([s EXCEPT ![i] = p], sc \cup {p.id})
<1> DEFINE e == [s EXCEPT ![i] = p]
<1>1. /\ e \in Seq(Plan) /\ Len(e) = Len(s) /\ DOMAIN e = DOMAIN s
      /\ e[i] = p /\ \A j \in DOMAIN s : j # i => e[j] = s[j]
  BY DEF Store
<1> HIDE DEF e
<1>2. \A j \in DOMAIN s : /\ e[j].id = s[j].id /\ e[j].template = s[j].template
                          /\ s[j].promoted => e[j].promoted
  BY <1>1
<1>3. \A j \in DOMAIN e : e[j].id[2] = ShapeOf[e[j].template]
  BY <1>1, <1>2 DEF Store
<1>4. \A j, k \in DOMAIN e : ShapeOf[e[j].template] = ShapeOf[e[k].template] => j = k
  BY <1>1, <1>2 DEF Store
<1>5. \/ Len(e) <= MaxSize
      \/ \A j, k \in DOMAIN e : ~e[j].promoted /\ ~e[k].promoted => j = k
  BY <1>1, <1>2 DEF Store
<1>6. \A id \in sc : \E j \in DOMAIN e : e[j].id = id /\ e[j].promoted
  BY <1>1, <1>2 DEF Store
<1>7. \A j \in DOMAIN e : Sound(e[j])
  BY <1>1 DEF Store
<1>8. p.promoted => \A id \in sc \cup {p.id} : \E j \in DOMAIN e : e[j].id = id /\ e[j].promoted
  BY <1>1, <1>6
<1>9. Store(e, sc) /\ (p.promoted => Store(e, sc \cup {p.id}))
  BY <1>1, <1>3, <1>4, <1>5, <1>6, <1>7, <1>8 DEF Store
<1> QED BY <1>9 DEF e

\* An unpromoted plan dropped: the others are what they were.
LEMMA DropStore ==
    ASSUME NEW s, NEW sc, Store(s, sc), NEW i \in DOMAIN s, ~s[i].promoted
    PROVE  /\ Store(Drop(s, i), sc) /\ Len(Drop(s, i)) = Len(s) - 1
           /\ \A j \in DOMAIN Drop(s, i) : \E k \in DOMAIN s : k # i /\ Drop(s, i)[j] = s[k]
<1> DEFINE e == Drop(s, i)
           old(j) == IF j < i THEN j ELSE j + 1
<1>0. s \in Seq(Plan) /\ Len(s) \in Nat /\ DOMAIN s = 1..Len(s)
  BY DEF Store
<1>1. /\ e \in Seq(Plan) /\ Len(e) = Len(s) - 1 /\ DOMAIN e = 1..(Len(s) - 1)
      /\ \A j \in DOMAIN e : e[j] = s[old(j)]
  BY <1>0, DropIs
<1> HIDE DEF e
<1>2. /\ \A j \in DOMAIN e : old(j) \in DOMAIN s /\ old(j) # i
      /\ \A j, k \in DOMAIN e : old(j) = old(k) => j = k
  BY <1>0, <1>1
<1>3. \A k \in DOMAIN s : k # i => \E j \in DOMAIN e : old(j) = k
  <2> SUFFICES ASSUME NEW k \in DOMAIN s, k # i PROVE \E j \in DOMAIN e : old(j) = k
    OBVIOUS
  <2>1. CASE k < i
    <3>1. k \in DOMAIN e /\ old(k) = k
      BY <2>1, <1>0, <1>1
    <3> QED BY <3>1
  <2>2. CASE ~(k < i)
    <3>1. k - 1 \in DOMAIN e /\ old(k - 1) = k
      BY <2>2, <1>0, <1>1
    <3> QED BY <3>1
  <2> QED BY <2>1, <2>2
<1> HIDE DEF old
<1>4. \A j \in DOMAIN e : e[j].id[2] = ShapeOf[e[j].template]
  BY <1>1, <1>2 DEF Store
<1>5. \A j, k \in DOMAIN e : ShapeOf[e[j].template] = ShapeOf[e[k].template] => j = k
  BY <1>1, <1>2 DEF Store
<1>6. \/ Len(e) <= MaxSize
      \/ \A j, k \in DOMAIN e : ~e[j].promoted /\ ~e[k].promoted => j = k
  <2>1. CASE Len(s) <= MaxSize
    BY <2>1, <1>0, <1>1, PlanAssumption
  <2>2. CASE \A j, k \in DOMAIN s : ~s[j].promoted /\ ~s[k].promoted => j = k
    BY <2>2, <1>1, <1>2
  <2> QED BY <2>1, <2>2 DEF Store
<1>7. \A id \in sc : \E j \in DOMAIN e : e[j].id = id /\ e[j].promoted
  <2> SUFFICES ASSUME NEW id \in sc PROVE \E j \in DOMAIN e : e[j].id = id /\ e[j].promoted
    OBVIOUS
  <2>1. PICK k \in DOMAIN s : s[k].id = id /\ s[k].promoted
    BY DEF Store
  <2>2. PICK j \in DOMAIN e : old(j) = k
    BY <2>1, <1>3
  <2> QED BY <2>1, <2>2, <1>1
<1>8. \A j \in DOMAIN e : Sound(e[j])
  BY <1>1, <1>2 DEF Store
<1>9. Store(e, sc)
  BY <1>1, <1>4, <1>5, <1>6, <1>7, <1>8 DEF Store
<1>10. \A j \in DOMAIN e : \E k \in DOMAIN s : k # i /\ e[j] = s[k]
  BY <1>1, <1>2
<1> QED BY <1>1, <1>9, <1>10 DEF e

\* _evict_if_full leaves room for one plan, or promoted plans only.
LEMMA EvictStore ==
    ASSUME NEW s, NEW sc, Store(s, sc)
    PROVE  /\ Store(EvictIfFull(s), sc)
           /\ \A j \in DOMAIN EvictIfFull(s) : \E k \in DOMAIN s : EvictIfFull(s)[j] = s[k]
           /\ \/ Len(EvictIfFull(s)) < MaxSize
              \/ \A j \in DOMAIN EvictIfFull(s) : EvictIfFull(s)[j].promoted
<1> DEFINE free == {i \in DOMAIN s : ~s[i].promoted}
           b == Best(free)
<1>0. s \in Seq(Plan) /\ Len(s) \in Nat /\ DOMAIN s = 1..Len(s)
  BY DEF Store
<1>1. EvictIfFull(s) = IF Len(s) < MaxSize \/ free = {} THEN s ELSE Drop(s, b)
  BY DEF EvictIfFull
<1>2. CASE Len(s) < MaxSize \/ free = {}
  BY <1>1, <1>2
<1>3. CASE ~(Len(s) < MaxSize \/ free = {})
  <2>0. EvictIfFull(s) = Drop(s, b)
    BY <1>1, <1>3
  <2>1. b \in free
    <3>1. free \subseteq Nat
      BY <1>0
    <3> HIDE DEF free
    <3> QED BY <3>1, <1>3, BestIn
  <2> HIDE DEF b
  <2>2. b \in DOMAIN s /\ ~s[b].promoted
    BY <2>1
  <2>3. /\ Store(Drop(s, b), sc) /\ Len(Drop(s, b)) = Len(s) - 1
        /\ \A j \in DOMAIN Drop(s, b) : \E k \in DOMAIN s : k # b /\ Drop(s, b)[j] = s[k]
    BY <2>2, DropStore
  <2>4. CASE Len(s) <= MaxSize
    BY <2>0, <2>3, <2>4, <1>0, PlanAssumption
  <2>5. CASE \A j, k \in DOMAIN s : ~s[j].promoted /\ ~s[k].promoted => j = k
    <3>1. \A k \in DOMAIN s : k # b => s[k].promoted
      BY <2>2, <2>5
    <3> QED BY <2>0, <2>3, <3>1
  <2> QED BY <2>4, <2>5 DEF Store
<1> QED BY <1>2, <1>3

\* A plan of a new shape added at the end.
LEMMA AppendStore ==
    ASSUME NEW s, NEW sc, Store(s, sc), NEW p \in Plan,
           p.id[2] = ShapeOf[p.template],
           \A j \in DOMAIN s : ShapeOf[s[j].template] # ShapeOf[p.template],
           Len(s) < MaxSize \/ \A j \in DOMAIN s : s[j].promoted,
           Sound(p)
    PROVE  Store(Append(s, p), sc)
<1> DEFINE e == Append(s, p)
<1>0. s \in Seq(Plan) /\ Len(s) \in Nat /\ DOMAIN s = 1..Len(s)
  BY DEF Store
<1>1. /\ e \in Seq(Plan) /\ Len(e) = Len(s) + 1
      /\ \A j \in DOMAIN s : j \in DOMAIN e /\ e[j] = s[j]
      /\ \A j \in DOMAIN e : (j \in DOMAIN s /\ e[j] = s[j]) \/ (j = Len(s) + 1 /\ e[j] = p)
  BY <1>0
<1> HIDE DEF e
<1>2. \A j \in DOMAIN e : e[j].id[2] = ShapeOf[e[j].template]
  BY <1>1 DEF Store
<1>3. \A j, k \in DOMAIN e : ShapeOf[e[j].template] = ShapeOf[e[k].template] => j = k
  BY <1>1 DEF Store
<1>4. \/ Len(e) <= MaxSize
      \/ \A j, k \in DOMAIN e : ~e[j].promoted /\ ~e[k].promoted => j = k
  BY <1>0, <1>1, PlanAssumption
<1>5. \A id \in sc : \E j \in DOMAIN e : e[j].id = id /\ e[j].promoted
  BY <1>1 DEF Store
<1>6. \A j \in DOMAIN e : Sound(e[j])
  BY <1>1 DEF Store
<1>7. Store(e, sc)
  BY <1>1, <1>2, <1>3, <1>4, <1>5, <1>6 DEF Store
<1> QED BY <1>7 DEF e

\* add() of a request's plan.
LEMMA AddedStore ==
    ASSUME Store(plans, scenarios), NEW id \in PlanId, NEW t \in Template, NEW q \in Query,
           id[2] = ShapeOf[t], ServesBy(q, ShapeOf[t])
    PROVE  Store(Added(id, t, q), scenarios)
<1>0. /\ plans \in Seq(Plan) /\ Len(plans) \in Nat /\ DOMAIN plans = 1..Len(plans)
      /\ \A i \in DOMAIN plans : plans[i] \in Plan
  BY DEF Store
<1>1. CASE SameShape(id) # {}
  <2> DEFINE i == Best(SameShape(id))
             p == WithAnchor(plans[i], q)
  <2>1. i \in SameShape(id)
    <3>1. SameShape(id) \subseteq Nat
      BY <1>0 DEF SameShape
    <3> QED BY <3>1, <1>1, BestIn
  <2>2. Added(id, t, q) = [plans EXCEPT ![i] = p]
    BY <1>1 DEF Added
  <2> HIDE DEF i
  <2>3. i \in DOMAIN plans /\ ShapeOf[plans[i].template] = id[2]
    BY <2>1 DEF SameShape
  <2>4. Sound(plans[i]) /\ ServesBy(q, ShapeOf[plans[i].template])
    BY <2>3 DEF Store
  <2>5. /\ p \in Plan /\ p.id = plans[i].id /\ p.template = plans[i].template
        /\ p.promoted = plans[i].promoted /\ Sound(p)
    BY <1>0, <2>3, <2>4, WithAnchorIs
  <2> HIDE DEF p
  <2>6. plans[i].promoted => p.promoted
    BY <2>5
  <2>7. Store([plans EXCEPT ![i] = p], scenarios)
    BY <2>3, <2>5, <2>6, SetStore
  <2> QED BY <2>2, <2>7
<1>2. CASE SameShape(id) = {}
  <2> DEFINE new == [id |-> id, template |-> t, anchors |-> <<>>, successes |-> 0,
                     failures |-> 0, approved |-> AutoReuse, promoted |-> FALSE]
             p == WithAnchor(new, q)
             e == EvictIfFull(plans)
  <2>1. Added(id, t, q) = Append(e, p)
    BY <1>2 DEF Added
  <2>2. /\ new \in Plan /\ new.id = id /\ new.template = t /\ Sound(new)
    BY PlanAssumption DEF Plan, Sound
  <2> HIDE DEF new
  <2>3. p \in Plan /\ p.id = id /\ p.template = t /\ Sound(p)
    BY <2>2, WithAnchorIs
  <2>4. \A j \in DOMAIN plans : ShapeOf[plans[j].template] # id[2]
    BY <1>2 DEF SameShape
  <2> HIDE DEF p, e
  <2>5. /\ Store(e, scenarios)
        /\ \A j \in DOMAIN e : \E k \in DOMAIN plans : e[j] = plans[k]
        /\ Len(e) < MaxSize \/ \A j \in DOMAIN e : e[j].promoted
    BY EvictStore DEF e
  <2>6. \A j \in DOMAIN e : ShapeOf[e[j].template] # ShapeOf[p.template]
    BY <2>3, <2>4, <2>5
  <2>7. p.id[2] = ShapeOf[p.template]
    BY <2>3
  <2>8. Store(Append(e, p), scenarios)
    BY <2>3, <2>5, <2>6, <2>7, AppendStore
  <2> QED BY <2>1, <2>8
<1> QED BY <1>1, <1>2

\* record_failure: the plan counts one failure more, or goes if it is unpromoted.
LEMMA FailureStore ==
    ASSUME Store(plans, scenarios), NEW id, RecordFailure(id)
    PROVE  Store(plans', scenarios)
<1>0. /\ plans \in Seq(Plan) /\ DOMAIN plans = 1..Len(plans)
      /\ \A i \in DOMAIN plans : plans[i] \in Plan
  BY DEF Store
<1>1. CASE Positions(id) = {}
  BY <1>1 DEF RecordFailure
<1>2. CASE Positions(id) # {}
  <2> DEFINE i == Best(Positions(id))
             p == [plans[i] EXCEPT !.failures = @ + 1]
  <2>1. i \in Positions(id)
    <3>1. Positions(id) \subseteq Nat
      BY <1>0 DEF Positions
    <3> QED BY <3>1, <1>2, BestIn
  <2>2. plans' = IF ~p.promoted /\ p.failures >= EvictAfter THEN Drop(plans, i)
                 ELSE [plans EXCEPT ![i] = p]
    BY <1>2 DEF RecordFailure
  <2> HIDE DEF i
  <2>3. i \in DOMAIN plans
    BY <2>1 DEF Positions
  <2>4. /\ p \in Plan /\ p.id = plans[i].id /\ p.template = plans[i].template
        /\ p.promoted = plans[i].promoted /\ p.anchors = plans[i].anchors
    <3>1. plans[i] \in Plan
      BY <1>0, <2>3
    <3> QED BY <3>1 DEF Plan
  <2>5. Sound(p)
    BY <2>3, <2>4 DEF Store, Sound
  <2> HIDE DEF p
  <2>6. CASE plans' = [plans EXCEPT ![i] = p]
    <3>1. Store([plans EXCEPT ![i] = p], scenarios)
      BY <2>3, <2>4, <2>5, SetStore
    <3> QED BY <3>1, <2>6
  <2>7. CASE ~p.promoted /\ plans' = Drop(plans, i)
    <3>1. Store(Drop(plans, i), scenarios)
      BY <2>3, <2>4, <2>7, DropStore
    <3> QED BY <3>1, <2>7
  <2> QED BY <2>2, <2>6, <2>7
<1> QED BY <1>1, <1>2

\* record_success and the promotion that may follow, on a plan whose anchors are
\* sound.
LEMMA SuccessStore ==
    ASSUME NEW s, NEW i \in DOMAIN s, NEW a \in Plan,
           Store(s, scenarios), scenarios \subseteq PlanId, AfterSuccess(s, i, a),
           a.id = s[i].id, a.template = s[i].template, a.promoted = s[i].promoted,
           Sound(a)
    PROVE  Store(plans', scenarios') /\ scenarios' \subseteq PlanId
<1> DEFINE p == [a EXCEPT !.successes = @ + 1]
           up == Promotable(p) /\ AutoPromote
           new == IF up THEN Promoted(p) ELSE p
<1>1. /\ plans' = [s EXCEPT ![i] = new]
      /\ scenarios' = IF up THEN scenarios \cup {p.id} ELSE scenarios
  BY DEF AfterSuccess
<1>2. /\ p \in Plan /\ p.id = a.id /\ p.template = a.template /\ p.promoted = a.promoted
      /\ p.anchors = a.anchors
  BY DEF Plan
<1>3. /\ Promoted(p) \in Plan /\ Promoted(p).id = a.id /\ Promoted(p).template = a.template
      /\ Promoted(p).promoted /\ Promoted(p).anchors = a.anchors
  <2> HIDE DEF p
  <2> QED BY <1>2 DEF Plan, Promoted
<1> HIDE DEF p
<1>4. /\ new \in Plan /\ new.id = a.id /\ new.template = a.template /\ new.anchors = a.anchors
      /\ a.promoted => new.promoted
      /\ up => new.promoted
  <2>1. CASE up
    BY <2>1, <1>3
  <2>2. CASE ~up
    BY <2>2, <1>2
  <2> QED BY <2>1, <2>2
<1> HIDE DEF new, up
<1>5. Sound(new)
  BY <1>4 DEF Sound
<1>6. /\ Store([s EXCEPT ![i] = new], scenarios)
      /\ new.promoted => Store([s EXCEPT ![i] = new], scenarios \cup {new.id})
  BY <1>4, <1>5, SetStore
<1>7. a.id \in PlanId
  BY DEF Plan
<1>8. CASE up
  BY <1>8, <1>1, <1>2, <1>4, <1>6, <1>7
<1>9. CASE ~up
  BY <1>9, <1>1, <1>6
<1> QED BY <1>8, <1>9

-----------------------------------------------------------------------------
(* The requests and the developer.                                         *)

LEMMA IdleIs == Idle \in Task /\ Idle.pc = "idle"
<1>1. PICK q \in Query, n \in Intent : TRUE
  BY PlanAssumption
<1>2. TemplateOf[q] \in Template /\ ShapeOf[TemplateOf[q]] \in Shape
  BY PlanAssumption
<1> DEFINE k == [pc |-> "idle", query |-> q, id |-> <<n, ShapeOf[TemplateOf[q]]>>,
                 template |-> TemplateOf[q], reused |-> FALSE, ran |-> FALSE]
<1>3. k \in Task /\ k.pc = "idle" /\ ~k.reused /\ ~k.ran
  BY <1>2 DEF Task, PlanId
<1> QED BY <1>3 DEF Idle

LEMMA InitInv == Init => IInv
<1> SUFFICES ASSUME Init PROVE IInv
  OBVIOUS
<1>1. /\ plans = <<>> /\ scenarios = {} /\ requests = 0
      /\ task = [t \in Tasks |-> Idle]
  BY DEF Init
<1>2. TypeOK
  BY <1>1, IdleIs, PlanAssumption DEF TypeOK
<1>3. Store(plans, scenarios)
  BY <1>1, PlanAssumption DEF Store
<1>4. TaskInv
  BY <1>1, IdleIs DEF TaskInv, TaskOK
<1> QED BY <1>2, <1>3, <1>4 DEF IInv

\* A step that gives one task a sound new state keeps all tasks sound.
LEMMA TaskStep ==
    ASSUME IInv, NEW t \in Tasks, NEW k \in Task, TaskOK(k), task' = [task EXCEPT ![t] = k]
    PROVE  task' \in [Tasks -> Task] /\ TaskInv'
<1>1. /\ task \in [Tasks -> Task] /\ task' \in [Tasks -> Task]
      /\ task'[t] = k /\ \A u \in Tasks : u # t => task'[u] = task[u]
  BY DEF IInv, TypeOK
<1>2. \A u \in Tasks : TaskOK(task'[u])
  BY <1>1 DEF IInv, TaskInv
<1> QED BY <1>1, <1>2 DEF TaskInv

LEMMA BeginInv == ASSUME IInv, NEW t \in Tasks, NEW q \in Query, Begin(t, q) PROVE IInv'
<1>0. /\ TypeOK /\ Store(plans, scenarios) /\ task[t] \in Task
      /\ plans' = plans /\ scenarios' = scenarios
  BY DEF IInv, TypeOK, Begin
<1>1. requests' \in 0..MaxRequests
  BY <1>0, PlanAssumption DEF TypeOK, Begin
<1> DEFINE p == plans[Matched(q)]
           k == [task[t] EXCEPT !.pc = "slots", !.query = q, !.id = p.id,
                                !.template = p.template, !.reused = TRUE, !.ran = FALSE]
           l == [task[t] EXCEPT !.pc = "planning", !.query = q, !.reused = FALSE, !.ran = FALSE]
<1>2. task' = [task EXCEPT ![t] = IF Candidates(q) # {} THEN k ELSE l]
  BY DEF Begin
<1>3. CASE Candidates(q) # {}
  <2>1. Matched(q) \in Candidates(q) /\ Matched(q) \in DOMAIN plans
    BY <1>0, <1>3, MatchedIn DEF Candidates
  <2>2. p \in Plan /\ p.id[2] = ShapeOf[p.template] /\ Sound(p)
    BY <1>0, <2>1 DEF Store
  <2>3. ServesBy(q, ShapeOf[p.template])
    BY <1>0, <2>1, <2>2, MatchedServes
  <2> HIDE DEF p
  <2>4. /\ k \in Task /\ k.pc = "slots" /\ k.query = q /\ k.id = p.id
        /\ k.template = p.template /\ k.ran = FALSE
    BY <1>0, <2>2 DEF Task, Plan
  <2> HIDE DEF k
  <2>5. TaskOK(k)
    BY <2>2, <2>3, <2>4 DEF TaskOK
  <2>6. task' = [task EXCEPT ![t] = k]
    BY <1>2, <1>3
  <2>7. task' \in [Tasks -> Task] /\ TaskInv'
    BY <2>4, <2>5, <2>6, TaskStep
  <2> QED BY <1>0, <1>1, <2>7 DEF IInv, TypeOK
<1>4. CASE Candidates(q) = {}
  <2>1. l \in Task /\ l.pc = "planning" /\ l.ran = FALSE
    BY <1>0 DEF Task
  <2>2. task' = [task EXCEPT ![t] = l]
    BY <1>2, <1>4
  <2> HIDE DEF l
  <2>3. TaskOK(l)
    BY <2>1 DEF TaskOK
  <2>4. task' \in [Tasks -> Task] /\ TaskInv'
    BY <2>1, <2>2, <2>3, TaskStep
  <2> QED BY <1>0, <1>1, <2>4 DEF IInv, TypeOK
<1> QED BY <1>3, <1>4

\* A step of a task that leaves the store alone.
LEMMA TaskOnlyInv ==
    ASSUME IInv, NEW t \in Tasks, NEW k \in Task, TaskOK(k), task' = [task EXCEPT ![t] = k],
           UNCHANGED <<plans, scenarios, requests>>
    PROVE  IInv'
<1>1. task' \in [Tasks -> Task] /\ TaskInv'
  BY TaskStep
<1> QED BY <1>1 DEF IInv, TypeOK

LEMMA MoveInv ==
    ASSUME IInv, NEW t \in Tasks,
           \/ SlotsFound(t) \/ SlotsMissing(t) \/ NotPlanned(t) \/ ChainRuns(t)
           \/ ReactAnswers(t) \/ \E intent \in Intent : Planned(t, intent)
    PROVE  IInv'
<1>0. /\ task[t] \in Task /\ TaskOK(task[t]) /\ task \in [Tasks -> Task]
  BY DEF IInv, TypeOK, TaskInv
<1>1. CASE SlotsFound(t)
  <2> DEFINE k == [task[t] EXCEPT !.pc = "running"]
  <2>1. task' = [task EXCEPT ![t] = k] /\ UNCHANGED <<plans, scenarios, requests>>
    BY <1>1 DEF SlotsFound, Move
  <2>2. k \in Task /\ TaskOK(k)
    BY <1>0, <1>1 DEF SlotsFound, Task, TaskOK
  <2> HIDE DEF k
  <2> QED BY <2>1, <2>2, TaskOnlyInv
<1>2. CASE SlotsMissing(t)
  <2> DEFINE k == [task[t] EXCEPT !.pc = "planning", !.reused = FALSE]
  <2>1. task' = [task EXCEPT ![t] = k] /\ UNCHANGED <<plans, scenarios, requests>>
    BY <1>0, <1>2 DEF SlotsMissing, Task
  <2>2. k \in Task /\ TaskOK(k)
    BY <1>0, <1>2 DEF SlotsMissing, Task, TaskOK
  <2> HIDE DEF k
  <2> QED BY <2>1, <2>2, TaskOnlyInv
<1>3. CASE NotPlanned(t)
  <2> DEFINE k == [task[t] EXCEPT !.pc = "react"]
  <2>1. task' = [task EXCEPT ![t] = k] /\ UNCHANGED <<plans, scenarios, requests>>
    BY <1>3 DEF NotPlanned, Move
  <2>2. k \in Task /\ TaskOK(k)
    BY <1>0, <1>3 DEF NotPlanned, Task, TaskOK
  <2> HIDE DEF k
  <2> QED BY <2>1, <2>2, TaskOnlyInv
<1>4. CASE ChainRuns(t)
  <2> DEFINE k == [task[t] EXCEPT !.pc = "answering", !.ran = TRUE]
  <2>1. task' = [task EXCEPT ![t] = k] /\ UNCHANGED <<plans, scenarios, requests>>
    BY <1>0, <1>4 DEF ChainRuns, Task
  <2>2. k \in Task /\ TaskOK(k)
    BY <1>0, <1>4 DEF ChainRuns, Task, TaskOK
  <2> HIDE DEF k
  <2> QED BY <2>1, <2>2, TaskOnlyInv
<1>5. CASE ReactAnswers(t)
  <2>1. task' = [task EXCEPT ![t] = Idle] /\ UNCHANGED <<plans, scenarios, requests>>
    BY <1>5 DEF ReactAnswers, Return
  <2>2. Idle \in Task /\ TaskOK(Idle)
    BY IdleIs DEF TaskOK
  <2> QED BY <2>1, <2>2, TaskOnlyInv
<1>6. ASSUME NEW intent \in Intent, Planned(t, intent) PROVE IInv'
  <2> DEFINE s == TemplateOf[task[t].query]
             k == [task[t] EXCEPT !.pc = "running", !.template = s, !.id = <<intent, ShapeOf[s]>>]
  <2>1. task' = [task EXCEPT ![t] = k] /\ UNCHANGED <<plans, scenarios, requests>>
    BY <1>6 DEF Planned
  <2>2. task[t].query \in Query /\ s \in Template /\ <<intent, ShapeOf[s]>> \in PlanId
    BY <1>0, PlanAssumption DEF Task, PlanId
  <2>3. k \in Task /\ k.pc = "running" /\ k.template = s /\ k.id = <<intent, ShapeOf[s]>>
        /\ k.query = task[t].query /\ k.ran = task[t].ran
    BY <1>0, <2>2 DEF Task
  <2>4. ~task[t].ran
    BY <1>0, <1>6 DEF Planned, TaskOK
  <2> HIDE DEF k
  <2>5. ServesBy(task[t].query, ShapeOf[s])
    BY <2>2, LeadsOn DEF ServesBy
  <2>6. TaskOK(k)
    BY <2>3, <2>4, <2>5 DEF TaskOK
  <2> QED BY <2>1, <2>3, <2>6, TaskOnlyInv
<1> QED BY <1>1, <1>2, <1>3, <1>4, <1>5, <1>6

LEMMA ChainFailsInv == ASSUME IInv, NEW t \in Tasks, ChainFails(t) PROVE IInv'
<1>0. /\ TypeOK /\ Store(plans, scenarios) /\ task[t] \in Task /\ TaskOK(task[t])
  BY DEF IInv, TypeOK, TaskInv
<1> DEFINE k == [task[t] EXCEPT !.pc = "react"]
<1>1. task' = [task EXCEPT ![t] = k] /\ UNCHANGED <<scenarios, requests>>
  BY DEF ChainFails, Move
<1>2. k \in Task /\ TaskOK(k)
  BY <1>0 DEF ChainFails, Task, TaskOK
<1> HIDE DEF k
<1>3. task' \in [Tasks -> Task] /\ TaskInv'
  BY <1>1, <1>2, TaskStep
<1>4. Store(plans', scenarios)
  BY <1>0, FailureStore DEF ChainFails
<1> QED BY <1>0, <1>1, <1>3, <1>4 DEF IInv, TypeOK, Store

LEMMA AnsweredInv == ASSUME IInv, NEW t \in Tasks, Answered(t) PROVE IInv'
<1> DEFINE k == task[t]
           s == IF k.reused THEN plans ELSE Added(k.id, k.template, k.query)
           found == IF k.reused THEN Positions(k.id)
                    ELSE {i \in DOMAIN s : ShapeOf[s[i].template] = k.id[2]}
           i == Best(found)
           a == IF k.reused THEN WithAnchor(s[i], k.query) ELSE s[i]
<1>0. /\ TypeOK /\ Store(plans, scenarios) /\ k \in Task /\ scenarios \subseteq PlanId
      /\ k.pc = "answering" /\ requests' = requests
      /\ TaskOK(k)
  BY DEF IInv, TypeOK, TaskInv, Answered
<1>1. /\ k.id \in PlanId /\ k.template \in Template /\ k.query \in Query
      /\ k.id[2] = ShapeOf[k.template]
      /\ ServesBy(k.query, ShapeOf[k.template])
  BY <1>0 DEF Task, TaskOK
<1>2. /\ Return(t)
      /\ IF found = {} THEN plans' = s /\ UNCHANGED scenarios ELSE AfterSuccess(s, i, a)
  BY DEF Answered
<1> HIDE DEF k
<1>3. Store(s, scenarios)
  <2>1. CASE k.reused
    BY <1>0, <2>1
  <2>2. CASE ~k.reused
    BY <1>0, <1>1, <2>2, AddedStore
  <2> QED BY <2>1, <2>2
<1>4. \A j \in found : /\ j \in DOMAIN s /\ j \in Nat /\ s[j] \in Plan
                       /\ ShapeOf[s[j].template] = k.id[2]
  <2>1. s \in Seq(Plan) /\ \A j \in DOMAIN s : s[j].id[2] = ShapeOf[s[j].template]
    BY <1>3 DEF Store
  <2>2. \A j \in DOMAIN s : j \in Nat /\ s[j] \in Plan
    <3> HIDE DEF s
    <3> QED BY <2>1
  <2>3. CASE k.reused
    BY <2>1, <2>2, <2>3 DEF Positions
  <2>4. CASE ~k.reused
    <3>1. found = {j \in DOMAIN s : ShapeOf[s[j].template] = k.id[2]}
      BY <2>4
    <3> HIDE DEF s, found
    <3> QED BY <3>1, <2>2
  <2> QED BY <2>3, <2>4
<1> HIDE DEF s, found
<1>5. Store(plans', scenarios') /\ scenarios' \subseteq PlanId
  <2>1. CASE found = {}
    BY <2>1, <1>0, <1>2, <1>3
  <2>2. CASE found # {}
    <3>1. i \in found
      BY <2>2, <1>4, BestIn
    <3> HIDE DEF i
    <3>2. i \in DOMAIN s /\ s[i] \in Plan /\ ShapeOf[s[i].template] = k.id[2]
      BY <3>1, <1>4
    <3>3. Sound(s[i]) /\ ServesBy(k.query, ShapeOf[s[i].template])
      BY <3>2, <1>1, <1>3 DEF Store
    <3>4. /\ a \in Plan /\ a.id = s[i].id /\ a.template = s[i].template
          /\ a.promoted = s[i].promoted /\ Sound(a)
      <4>1. CASE k.reused
        BY <4>1, <1>1, <3>2, <3>3, WithAnchorIs
      <4>2. CASE ~k.reused
        BY <4>2, <3>2, <3>3
      <4> QED BY <4>1, <4>2
    <3> HIDE DEF a
    <3>5. AfterSuccess(s, i, a)
      BY <2>2, <1>2
    <3> QED BY <1>0, <1>3, <3>2, <3>4, <3>5, SuccessStore
  <2> QED BY <2>1, <2>2
<1>6. task' \in [Tasks -> Task] /\ TaskInv'
  <2>1. task' = [task EXCEPT ![t] = Idle]
    BY <1>2 DEF Return
  <2>2. Idle \in Task /\ TaskOK(Idle)
    BY IdleIs DEF TaskOK
  <2> QED BY <2>1, <2>2, TaskStep
<1> QED BY <1>0, <1>5, <1>6 DEF IInv, TypeOK, Store

LEMMA DeveloperInv ==
    ASSUME IInv, NEW i \in DOMAIN plans, Approve(i) \/ Promote(i)
    PROVE  IInv'
<1>0. /\ TypeOK /\ Store(plans, scenarios) /\ TaskInv /\ plans[i] \in Plan
  BY DEF IInv, TypeOK
<1>1. CASE Approve(i)
  <2> DEFINE p == [plans[i] EXCEPT !.approved = TRUE]
  <2>1. plans' = [plans EXCEPT ![i] = p] /\ UNCHANGED <<scenarios, task, requests>>
    BY <1>1 DEF Approve
  <2>2. /\ p \in Plan /\ p.id = plans[i].id /\ p.template = plans[i].template
        /\ p.promoted = plans[i].promoted /\ p.anchors = plans[i].anchors
    BY <1>0 DEF Plan
  <2>3. Sound(p)
    BY <1>0, <2>2 DEF Store, Sound
  <2> HIDE DEF p
  <2>4. Store([plans EXCEPT ![i] = p], scenarios)
    BY <1>0, <2>2, <2>3, SetStore
  <2> QED BY <1>0, <2>1, <2>4 DEF IInv, TypeOK, Store, TaskInv
<1>2. CASE Promote(i)
  <2> DEFINE p == Promoted(plans[i])
  <2>1. /\ plans' = [plans EXCEPT ![i] = p] /\ scenarios' = scenarios \cup {plans[i].id}
        /\ UNCHANGED <<task, requests>>
    BY <1>2 DEF Promote
  <2>2. /\ p \in Plan /\ p.id = plans[i].id /\ p.template = plans[i].template
        /\ p.promoted /\ p.anchors = plans[i].anchors /\ plans[i].id \in PlanId
    BY <1>0 DEF Plan, Promoted
  <2>3. Sound(p)
    BY <1>0, <2>2 DEF Store, Sound
  <2> HIDE DEF p
  <2>4. Store([plans EXCEPT ![i] = p], scenarios \cup {p.id})
    BY <1>0, <2>2, <2>3, SetStore
  <2>5. Store(plans', scenarios')
    BY <2>1, <2>2, <2>4
  <2> QED BY <1>0, <2>1, <2>2, <2>5 DEF IInv, TypeOK, Store, TaskInv
<1> QED BY <1>1, <1>2

LEMMA StepInv == IInv /\ [Next]_vars => IInv'
<1> SUFFICES ASSUME IInv, [Next]_vars PROVE IInv'
  OBVIOUS
<1>1. ASSUME NEW t \in Tasks, Step(t) PROVE IInv'
  BY <1>1, BeginInv, MoveInv, ChainFailsInv, AnsweredInv DEF Step
<1>2. ASSUME NEW i \in DOMAIN plans, Approve(i) \/ Promote(i) PROVE IInv'
  BY <1>2, DeveloperInv
<1>3. CASE UNCHANGED vars
  BY <1>3 DEF IInv, TypeOK, Store, TaskInv, vars
<1> QED BY <1>1, <1>2, <1>3 DEF Next

LEMMA AlwaysIInv == Spec => []IInv
<1> QED BY InitInv, StepInv, PTL DEF Spec

-----------------------------------------------------------------------------
\* Type correctness of the model of the fast path, for any requests, plans and
\* settings.
THEOREM PlansTypeCorrect == Spec => []TypeOK
<1>1. IInv => TypeOK
  BY DEF IInv
<1> QED BY <1>1, AlwaysIInv, PTL

LEMMA StoreIsSound == IInv => StoreSound
<1> SUFFICES ASSUME IInv PROVE StoreSound
  OBVIOUS
<1>1. Store(plans, scenarios)
  BY DEF IInv
<1>2. OnePlanPerShape /\ PromotedStays
  BY <1>1 DEF Store, OnePlanPerShape, PromotedStays
<1>3. StoreBounded
  <2> DEFINE free == {i \in DOMAIN plans : ~plans[i].promoted}
  <2> SUFFICES ASSUME \A i, j \in free : i = j PROVE Cardinality(free) <= 1
    BY <1>1 DEF Store, StoreBounded
  <2>1. CASE free = {}
    BY <2>1, FS_EmptySet
  <2>2. CASE free # {}
    <3> HIDE DEF free
    <3>1. PICK i : free = {i}
      BY <2>2
    <3> QED BY <3>1, FS_Singleton
  <2> QED BY <2>1, <2>2
<1> QED BY <1>2, <1>3 DEF StoreSound

\* However requests and the developer work on the store between each other's
\* awaits, it never holds two plans of one shape, exceeds max_size by one plan on
\* trial at most, and evicts no plan whose scenario is registered.
THEOREM AlwaysStoreSound == Spec => []StoreSound
<1> QED BY StoreIsSound, AlwaysIInv, PTL

\* Once the whole chain of a request has run, the request never falls back to the
\* ReAct loop, which would run its tools a second time.
THEOREM AlwaysNoSecondRun == Spec => []NoSecondRun
<1>1. IInv => NoSecondRun
  BY DEF IInv, TaskInv, TaskOK, NoSecondRun
<1> QED BY <1>1, AlwaysIInv, PTL

\* Whatever the scores: the fast path runs a chain of the query's own shape, or of
\* one that matches lead to from it, however plans were anchored, evicted and planned
\* again since; and it runs it once.
THEOREM AlwaysFastPathSound == Spec => []FastPathSound
<1>1. IInv => FastPathSound
  BY DEF IInv, TaskInv, TaskOK, FastPathSound, RunsItsShape, NoSecondRun
<1> QED BY <1>1, AlwaysIInv, PTL

==============================================================================
