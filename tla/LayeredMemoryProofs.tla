------------------------- MODULE LayeredMemoryProofs -------------------------
(* Theorems about LayeredMemory, for every value of its constants. *)
EXTENDS LayeredMemory, FiniteSetTheorems, FunctionTheorems, SequenceTheorems, TLAPS

-----------------------------------------------------------------------------
(* What the operators on L2, L3 and L4 return.                             *)

\* Counting the kept positions up to each of them numbers them from 1: what
\* makes Without well defined.
LEMMA RankBijection ==
    ASSUME NEW n \in Nat, NEW keep \in SUBSET (1..n),
           NEW rank, rank = [i \in keep |-> Cardinality({j \in keep : j <= i})]
    PROVE  /\ Cardinality(keep) \in Nat
           /\ \A i \in keep : rank[i] \in 1..Cardinality(keep)
           /\ \A i, j \in keep : i < j => rank[i] < rank[j]
           /\ \A r \in 1..Cardinality(keep) : \E i \in keep : rank[i] = r
<1> DEFINE UpTo(i) == {j \in keep : j <= i}
<1>1. IsFiniteSet(keep) /\ Cardinality(keep) \in Nat
  <2>1. IsFiniteSet(1..n)
    BY FS_Interval
  <2>2. IsFiniteSet(keep)
    BY <2>1, FS_Subset
  <2> QED BY <2>2, FS_CardinalityType
<1>2. \A i \in keep : /\ IsFiniteSet(UpTo(i))
                      /\ Cardinality(UpTo(i)) \in 1..Cardinality(keep)
  <2> TAKE i \in keep
  <2>1. UpTo(i) \in SUBSET keep /\ i \in UpTo(i)
    OBVIOUS
  <2>2. IsFiniteSet(UpTo(i)) /\ Cardinality(UpTo(i)) <= Cardinality(keep)
    BY <1>1, <2>1, FS_Subset
  <2>3. Cardinality(UpTo(i)) \in Nat /\ Cardinality(UpTo(i)) # 0
    BY <2>1, <2>2, FS_CardinalityType, FS_EmptySet
  <2> QED BY <2>2, <2>3, <1>1
<1>3. \A i, j \in keep : i < j => Cardinality(UpTo(i)) < Cardinality(UpTo(j))
  <2> SUFFICES ASSUME NEW i \in keep, NEW j \in keep, i < j
               PROVE  Cardinality(UpTo(i)) < Cardinality(UpTo(j))
    OBVIOUS
  <2>0. \A k \in keep : k \in Int
    OBVIOUS
  <2>1. UpTo(i) \in SUBSET UpTo(j)
    <3> SUFFICES ASSUME NEW k \in keep, k <= i
                 PROVE  k <= j
      OBVIOUS
    <3> QED BY <2>0
  <2>3. j \in UpTo(j) /\ j \notin UpTo(i)
    BY <2>0
  <2>2. /\ Cardinality(UpTo(i)) <= Cardinality(UpTo(j))
        /\ Cardinality(UpTo(j)) = Cardinality(UpTo(i)) => UpTo(j) = UpTo(i)
    BY <1>2, <2>1, FS_Subset
  <2> QED BY <1>2, <2>2, <2>3
<1>4. /\ \A i \in keep : rank[i] \in 1..Cardinality(keep)
      /\ \A i, j \in keep : i < j => rank[i] < rank[j]
  BY <1>2, <1>3
<1>5. rank \in Injection(keep, 1..Cardinality(keep))
  <2>1. rank \in [keep -> 1..Cardinality(keep)]
    BY <1>4
  <2>2. \A a, b \in keep : rank[a] = rank[b] => a = b
    <3> SUFFICES ASSUME NEW a \in keep, NEW b \in keep, rank[a] = rank[b], a # b
                 PROVE  FALSE
      OBVIOUS
    <3>1. a < b \/ b < a
      OBVIOUS
    <3> QED BY <3>1, <1>1, <1>4
  <2> QED BY <2>1, <2>2 DEF Injection, IsInjective
<1>6. rank \in Surjection(keep, 1..Cardinality(keep))
  <2>1. IsFiniteSet(1..Cardinality(keep))
    BY <1>1, FS_Interval
  <2>2. Cardinality(keep) = Cardinality(1..Cardinality(keep))
    BY <1>1, FS_Interval
  <2> QED BY <1>5, <2>1, <2>2, FS_Injection
<1> QED BY <1>1, <1>4, <1>6 DEF Surjection

\* Removing the folded turns leaves exactly the others, in their order.
LEMMA WithoutProperties ==
    ASSUME NEW T, NEW s \in Seq(T), NEW S
    PROVE  /\ Without(s, S) \in Seq(T)
           /\ Elements(Without(s, S)) = Elements(s) \ S
           /\ Len(Without(s, S)) <= Len(s)
           /\ \A a, b \in DOMAIN Without(s, S) : a < b =>
                \E i, j \in DOMAIN s : /\ i < j
                                       /\ Without(s, S)[a] = s[i]
                                       /\ Without(s, S)[b] = s[j]
<1> DEFINE keep == {i \in DOMAIN s : s[i] \notin S}
           rank == [i \in keep |-> Cardinality({j \in keep : j <= i})]
           At(r) == CHOOSE i \in keep : rank[i] = r
           W == [r \in 1..Cardinality(keep) |-> s[At(r)]]
<1>0. Len(s) \in Nat /\ DOMAIN s = 1..Len(s) /\ \A i \in 1..Len(s) : s[i] \in T
  BY LenProperties
<1>k. keep \in SUBSET (1..Len(s))
  BY <1>0
<1>1. /\ Cardinality(keep) \in Nat
      /\ \A i \in keep : rank[i] \in 1..Cardinality(keep)
      /\ \A i, j \in keep : i < j => rank[i] < rank[j]
      /\ \A r \in 1..Cardinality(keep) : \E i \in keep : rank[i] = r
  <2> HIDE DEF keep
  <2> QED BY <1>0, <1>k, RankBijection
<1>2. Without(s, S) = W
  BY DEF Without
<1> HIDE DEF rank
<1>3. \A r \in 1..Cardinality(keep) : At(r) \in keep /\ rank[At(r)] = r
  BY <1>1
<1>4. \A i \in keep : At(rank[i]) = i
  <2> TAKE i \in keep
  <2>1. At(rank[i]) \in keep /\ rank[At(rank[i])] = rank[i]
    BY <1>1, <1>3
  <2> HIDE DEF At
  <2>2. ~(At(rank[i]) < i) /\ ~(i < At(rank[i]))
    BY <2>1, <1>1
  <2> QED BY <2>1, <2>2, <1>k
<1> HIDE DEF At
<1>5. \A a, b \in 1..Cardinality(keep) : a < b => At(a) < At(b)
  <2> SUFFICES ASSUME NEW a \in 1..Cardinality(keep), NEW b \in 1..Cardinality(keep), a < b
               PROVE  At(a) < At(b)
    OBVIOUS
  <2>1. At(a) \in keep /\ At(b) \in keep /\ rank[At(a)] < rank[At(b)]
    BY <1>3
  <2>2. rank[At(a)] \in Int /\ rank[At(b)] \in Int
    <3> HIDE DEF keep
    <3>1. \A i \in keep : rank[i] \in Int
      BY <1>1
    <3> QED BY <2>1, <3>1
  <2>3. At(a) # At(b)
    BY <2>1, <2>2
  <2>4. ~(At(b) < At(a))
    BY <2>1, <2>2, <1>1
  <2> QED BY <2>1, <2>3, <2>4, <1>k
<1>6. DOMAIN W = 1..Cardinality(keep) /\ \A r \in DOMAIN W : W[r] = s[At(r)]
  OBVIOUS
<1>7. W \in Seq(T) /\ Len(W) = Cardinality(keep)
  <2>1. \A r \in 1..Cardinality(keep) : s[At(r)] \in T
    BY <1>0, <1>3
  <2>2. W \in [1..Cardinality(keep) -> T]
    BY <2>1
  <2>3. W \in Seq(T)
    <3> HIDE DEF W, keep
    <3> QED BY <1>1, <2>2, SeqDef
  <2>4. Len(W) \in Nat /\ DOMAIN W = 1..Len(W)
    BY <2>3, LenProperties
  <2> HIDE DEF W
  <2> QED BY <1>1, <1>6, <2>3, <2>4
<1>8. Cardinality(keep) <= Len(s)
  <2>1. IsFiniteSet(1..Len(s)) /\ Cardinality(1..Len(s)) = Len(s)
    <3>1. /\ IsFiniteSet(1..Len(s))
          /\ Cardinality(1..Len(s)) = IF 1 > Len(s) THEN 0 ELSE Len(s) - 1 + 1
      BY <1>0, FS_Interval
    <3> QED BY <1>0, <3>1
  <2> HIDE DEF keep
  <2> QED BY <1>k, <2>1, FS_Subset
<1>9. Elements(W) = Elements(s) \ S
  <2>1. Elements(W) \subseteq Elements(s) \ S
    BY <1>3, <1>6 DEF Elements
  <2>2. Elements(s) \ S \subseteq Elements(W)
    <3> SUFFICES ASSUME NEW i \in DOMAIN s, s[i] \notin S
                 PROVE  s[i] \in Elements(W)
      BY DEF Elements
    <3>1. i \in keep
      OBVIOUS
    <3>2. rank[i] \in DOMAIN W /\ W[rank[i]] = s[i]
      BY <3>1, <1>1, <1>4, <1>6
    <3> QED BY <3>2 DEF Elements
  <2> QED BY <2>1, <2>2
<1>10. \A a, b \in DOMAIN W : a < b =>
         \E i, j \in DOMAIN s : i < j /\ W[a] = s[i] /\ W[b] = s[j]
  <2> SUFFICES ASSUME NEW a \in DOMAIN W, NEW b \in DOMAIN W, a < b
               PROVE  \E i, j \in DOMAIN s : i < j /\ W[a] = s[i] /\ W[b] = s[j]
    OBVIOUS
  <2>1. At(a) \in DOMAIN s /\ At(b) \in DOMAIN s /\ At(a) < At(b)
    BY <1>3, <1>5, <1>6
  <2> QED BY <2>1, <1>6
<1> HIDE DEF W
<1> QED BY <1>2, <1>7, <1>8, <1>9, <1>10

LEMMA ElementsOfSeq ==
    ASSUME NEW T, NEW s \in Seq(T)
    PROVE  /\ Elements(s) \subseteq T
           /\ Elements(<<>>) = {}
           /\ \A x \in T : Elements(Append(s, x)) = Elements(s) \cup {x}
           /\ \A u \in Seq(T) : Elements(s \o u) = Elements(s) \cup Elements(u)
<1>1. Len(s) \in Nat /\ DOMAIN s = 1..Len(s) /\ \A i \in 1..Len(s) : s[i] \in T
  BY LenProperties
<1>2. Elements(s) \subseteq T /\ Elements(<<>>) = {}
  BY <1>1 DEF Elements
<1>3. ASSUME NEW x \in T PROVE Elements(Append(s, x)) = Elements(s) \cup {x}
  <2>1. /\ DOMAIN Append(s, x) = 1..(Len(s) + 1)
        /\ \A i \in 1..Len(s) : Append(s, x)[i] = s[i]
        /\ Append(s, x)[Len(s) + 1] = x
    BY <1>1, AppendProperties
  <2>2. 1..(Len(s) + 1) = 1..Len(s) \cup {Len(s) + 1}
    BY <1>1
  <2> HIDE <1>1
  <2>3. Elements(Append(s, x)) = {s[i] : i \in 1..Len(s)} \cup {x}
    BY <2>1, <2>2 DEF Elements
  <2> QED BY <1>1, <2>3 DEF Elements
<1>4. ASSUME NEW u \in Seq(T) PROVE Elements(s \o u) = Elements(s) \cup Elements(u)
  <2>1. /\ Len(u) \in Nat /\ DOMAIN u = 1..Len(u)
        /\ DOMAIN (s \o u) = 1..(Len(s) + Len(u))
        /\ \A i \in 1..(Len(s) + Len(u)) :
             (s \o u)[i] = IF i <= Len(s) THEN s[i] ELSE u[i - Len(s)]
    BY ConcatProperties, LenProperties
  <2>2. Elements(s \o u) \subseteq Elements(s) \cup Elements(u)
    BY <1>1, <2>1 DEF Elements
  <2>3. Elements(s) \subseteq Elements(s \o u)
    BY <1>1, <2>1 DEF Elements
  <2>4. Elements(u) \subseteq Elements(s \o u)
    <3> SUFFICES ASSUME NEW i \in 1..Len(u)
                 PROVE  u[i] \in Elements(s \o u)
      BY <2>1 DEF Elements
    <3>1. Len(s) + i \in DOMAIN (s \o u) /\ (s \o u)[Len(s) + i] = u[i]
      BY <1>1, <2>1
    <3> QED BY <3>1 DEF Elements
  <2> QED BY <2>2, <2>3, <2>4
<1> QED BY <1>2, <1>3, <1>4

\* The oldest turns move from L2 to L3: the verbatim turns and their order
\* are the same, and L2 fits its size.
LEMMA RollProperties ==
    ASSUME NEW m \in Memory
    PROVE  /\ Roll(m) \in Memory
           /\ Roll(m).l3 \o Roll(m).l2 = m.l3 \o m.l2
           /\ Len(Roll(m).l2) <= L2Size
           /\ Roll(m).l4 = m.l4 /\ Roll(m).total = m.total
           /\ Accounted(Roll(m)) = Accounted(m)
<1> DEFINE over == Len(m.l2) - L2Size
           old == SubSeq(m.l2, 1, over)
           new == SubSeq(m.l2, over + 1, Len(m.l2))
<1>1. /\ m.l2 \in Seq(Turn) /\ m.l3 \in Seq(Turn)
      /\ Len(m.l2) \in Nat /\ L2Size \in Nat
      /\ \A i \in 1..Len(m.l2) : m.l2[i] \in Turn
  BY LenProperties, MemoryAssumption DEF Memory
<1>2. CASE over <= 0
  <2>1. Roll(m) = m
    BY <1>2 DEF Roll
  <2> QED BY <1>1, <1>2, <2>1
<1>3. CASE ~(over <= 0)
  <2>1. over \in 1..Len(m.l2) /\ over \in Int
    BY <1>1, <1>3
  <2>2. Roll(m) = [m EXCEPT !.l3 = @ \o old, !.l2 = new]
    BY <1>3 DEF Roll
  <2>3. old \in Seq(Turn)
    BY <1>1, <2>1, SubSeqProperties
  <2>4. new \in Seq(Turn) /\ Len(new) <= L2Size
    BY <1>1, <2>1, SubSeqProperties
  <2>5. old \o new = m.l2
    <3>1. SubSeq(m.l2, 1, over) \o SubSeq(m.l2, over + 1, Len(m.l2)) = SubSeq(m.l2, 1, Len(m.l2))
      <4>1. 1 \in 1..(Len(m.l2) + 1) /\ over \in (1 - 1)..Len(m.l2) /\ Len(m.l2) \in over..Len(m.l2)
        BY <1>1, <2>1
      <4> HIDE DEF over
      <4> QED BY <1>1, <4>1, ConcatAdjacentSubSeq
    <3>2. SubSeq(m.l2, 1, Len(m.l2)) = m.l2
      BY <1>1, SubSeqFull
    <3> QED BY <3>1, <3>2
  <2> HIDE DEF over, old, new
  <2>6. m.l3 \o old \in Seq(Turn) /\ (m.l3 \o old) \o new = m.l3 \o m.l2
    <3>1. m.l3 \o old \in Seq(Turn)
      BY <1>1, <2>3, ConcatProperties
    <3>2. (m.l3 \o old) \o new = m.l3 \o (old \o new)
      <4>1. \A a, b, c \in Seq(Turn) : (a \o b) \o c = a \o (b \o c)
        BY ConcatAssociative
      <4> QED BY <1>1, <2>3, <2>4, <4>1, Zenon
    <3> QED BY <2>5, <3>1, <3>2
  <2>7. /\ Roll(m) \in Memory
        /\ Roll(m).l3 = m.l3 \o old /\ Roll(m).l2 = new
        /\ Roll(m).l4 = m.l4 /\ Roll(m).total = m.total
    BY <2>2, <2>4, <2>6 DEF Memory
  <2>8. Elements(m.l3 \o old) \cup Elements(new) = Elements(m.l3) \cup Elements(m.l2)
    <3>1. Elements(m.l3 \o old) = Elements(m.l3) \cup Elements(old)
      BY <1>1, <2>3, ElementsOfSeq
    <3>2. Elements(old \o new) = Elements(old) \cup Elements(new)
      BY <2>3, <2>4, ElementsOfSeq
    <3> QED BY <2>5, <3>1, <3>2
  <2> QED BY <2>4, <2>6, <2>7, <2>8 DEF Accounted
<1> QED BY <1>2, <1>3

LEMMA AppendTurnProperties ==
    ASSUME NEW m \in Memory, NEW x \in Turn
    PROVE  /\ AppendTurn(m, x) \in Memory
           /\ AppendTurn(m, x).l3 \o AppendTurn(m, x).l2 = Append(m.l3 \o m.l2, x)
           /\ Len(AppendTurn(m, x).l2) <= L2Size
           /\ Accounted(AppendTurn(m, x)) = Accounted(m) \cup {x}
<1> DEFINE n == [m EXCEPT !.l2 = Append(@, x), !.total = @ + 1]
<1>1. m.l2 \in Seq(Turn) /\ m.l3 \in Seq(Turn) /\ m.total + 1 \in Nat
  BY DEF Memory
<1>2. Append(m.l2, x) \in Seq(Turn)
  BY <1>1, AppendProperties
<1>3. /\ n \in Memory /\ n.l2 = Append(m.l2, x) /\ n.l3 = m.l3 /\ n.l4 = m.l4
  BY <1>1, <1>2 DEF Memory
<1>4. m.l3 \o Append(m.l2, x) = Append(m.l3 \o m.l2, x)
  <2> DEFINE one == <<x>>
  <2>1. one \in Seq(Turn) /\ m.l3 \o m.l2 \in Seq(Turn)
    BY <1>1, ConcatProperties
  <2>2. Append(m.l2, x) = m.l2 \o one /\ Append(m.l3 \o m.l2, x) = (m.l3 \o m.l2) \o one
    BY <1>1, <2>1, AppendIsConcat
  <2> HIDE DEF one
  <2>3. m.l3 \o (m.l2 \o one) = (m.l3 \o m.l2) \o one
    <3>1. \A a, b, c \in Seq(Turn) : (a \o b) \o c = a \o (b \o c)
      BY ConcatAssociative
    <3> QED BY <1>1, <2>1, <3>1, Zenon
  <2> QED BY <2>2, <2>3
<1>5. Accounted(n) = Accounted(m) \cup {x}
  BY <1>1, <1>3, ElementsOfSeq DEF Accounted
<1> HIDE DEF n
<1> QED BY <1>3, <1>4, <1>5, RollProperties DEF AppendTurn, n

LEMMA FlushL2Properties ==
    ASSUME NEW m \in Memory
    PROVE  /\ FlushL2(m) \in Memory
           /\ FlushL2(m).l3 \o FlushL2(m).l2 = m.l3 \o m.l2
           /\ FlushL2(m).l2 = <<>>
           /\ Accounted(FlushL2(m)) = Accounted(m)
<1>1. m.l2 \in Seq(Turn) /\ m.l3 \in Seq(Turn)
  BY DEF Memory
<1>2. m.l3 \o m.l2 \in Seq(Turn) /\ <<>> \in Seq(Turn)
  BY <1>1, ConcatProperties
<1>3. /\ FlushL2(m) \in Memory
      /\ FlushL2(m).l3 = m.l3 \o m.l2 /\ FlushL2(m).l2 = <<>> /\ FlushL2(m).l4 = m.l4
  BY <1>2 DEF FlushL2, Memory
<1>4. (m.l3 \o m.l2) \o <<>> = m.l3 \o m.l2
  BY <1>2, ConcatEmptySeq
<1>5. Elements(m.l3 \o m.l2) = Elements(m.l3) \cup Elements(m.l2) /\ Elements(<<>>) = {}
  BY <1>1, ElementsOfSeq
<1> QED BY <1>3, <1>4, <1>5 DEF Accounted

\* A fold moves the folded turns from L3 to the summary, and forgets what the
\* replaced summary knew and prev did not.
LEMMA FoldProperties ==
    ASSUME NEW m \in Memory, NEW prev \in SUBSET Turn, NEW fold \in SUBSET Turn
    PROVE  /\ FoldInto(m, prev, fold) \in Memory
           /\ FoldInto(m, prev, fold).l2 = m.l2
           /\ FoldInto(m, prev, fold).l3 = Without(m.l3, fold)
           /\ Accounted(FoldInto(m, prev, fold)) =
                Elements(m.l2) \cup Elements(m.l3) \cup prev \cup fold
<1>1. m.l3 \in Seq(Turn)
  BY DEF Memory
<1>2. Without(m.l3, fold) \in Seq(Turn) /\ Elements(Without(m.l3, fold)) = Elements(m.l3) \ fold
  BY <1>1, WithoutProperties
<1>3. /\ FoldInto(m, prev, fold) \in Memory
      /\ FoldInto(m, prev, fold).l2 = m.l2
      /\ FoldInto(m, prev, fold).l3 = Without(m.l3, fold)
      /\ FoldInto(m, prev, fold).l4 = prev \cup fold
  BY <1>2 DEF FoldInto, Memory
<1> QED BY <1>2, <1>3 DEF Accounted

-----------------------------------------------------------------------------
(* Type correctness.  An add_turn past its section has a turn, so that what *)
(* its return acknowledges is a turn; only the hook waits for a verdict.    *)

WellPlaced(k) ==
    /\ k.op = "add" /\ k.pc \in {"resume", "llm", "save"} => k.turn \in Turn
    /\ k.pc = "judge" => k.op = "topic"

TypeInv == TypeOK /\ \A t \in Tasks : WellPlaced(task[t])

LEMMA IdleType == Idle \in Task /\ WellPlaced(Idle)
BY MemoryAssumption DEF Idle, Task, Ops, Pcs, WellPlaced

LEMMA SummarizeSectionType ==
    ASSUME TypeInv, NEW t \in Tasks, NEW r \in Task, NEW m \in Memory,
           r.op = "add" => r.turn \in Turn, SummarizeSection(t, r, m)
    PROVE  /\ mem' = m /\ made' = made /\ UNCHANGED <<acked, wiped, gone>>
           /\ task' \in [Tasks -> Task]
           /\ \A u \in Tasks : WellPlaced(task'[u])
<1> DEFINE asks == [r EXCEPT !.pc = "llm", !.prev = m.l4, !.fold = Elements(m.l3)]
           saves == Saving(r, m, "return")
<1>1. m.l4 \in SUBSET Turn /\ Elements(m.l3) \in SUBSET Turn
  BY ElementsOfSeq DEF Memory
<1>2. asks \in Task /\ WellPlaced(asks)
  BY <1>1 DEF Task, Pcs, WellPlaced
<1>3. saves \in Task /\ WellPlaced(saves)
  BY DEF Task, Pcs, Saving, WellPlaced
<1>4. \E k \in Task : WellPlaced(k) /\ task' = [task EXCEPT ![t] = k]
  <2> HIDE DEF asks, saves
  <2>1. task' = [task EXCEPT ![t] =
                  IF m.l3 # <<>> /\ HasSummarizer THEN asks
                  ELSE IF r.op = "add" THEN saves ELSE Idle]
    BY DEF SummarizeSection, asks, saves
  <2> QED BY <1>2, <1>3, <2>1, IdleType
<1> QED BY <1>4 DEF SummarizeSection, TypeInv, TypeOK

LEMMA FlushSectionType ==
    ASSUME TypeInv, NEW t \in Tasks, NEW r \in Task, NEW m \in Memory,
           r.op \in {"flush", "topic"}, FlushSection(t, r, m)
    PROVE  /\ mem' \in {m, FlushL2(m)} /\ mem' \in Memory
           /\ made' = made /\ UNCHANGED <<acked, wiped, gone>>
           /\ task' \in [Tasks -> Task]
           /\ \A u \in Tasks : WellPlaced(task'[u])
<1> DEFINE resumes == [r EXCEPT !.pc = "resume"]
           saves(next) == Saving(r, FlushL2(m), next)
<1>1. FlushL2(m) \in Memory
  BY FlushL2Properties
<1>2. resumes \in Task /\ WellPlaced(resumes)
  BY DEF Task, Pcs, WellPlaced
<1>3. \A next \in {"return", "summarize"} : saves(next) \in Task /\ WellPlaced(saves(next))
  BY <1>1 DEF Task, Pcs, Saving, WellPlaced
<1>4. \E k \in Task : WellPlaced(k) /\ task' = [task EXCEPT ![t] = k]
  <2> HIDE DEF resumes, saves
  <2>1. \/ task' = [task EXCEPT ![t] = IF r.op = "topic" THEN resumes ELSE Idle]
        \/ task' = [task EXCEPT ![t] =
                     saves(IF r.op = "topic" THEN "summarize" ELSE "return")]
    BY DEF FlushSection, resumes, saves
  <2> QED BY <1>2, <1>3, <2>1, IdleType
<1> QED BY <1>1, <1>4 DEF FlushSection, TypeInv, TypeOK

LEMMA AddSectionType ==
    ASSUME TypeInv, NEW t \in Tasks, NEW r \in Task, NEW m \in Memory,
           r.op = "add", AddSection(t, r, m)
    PROVE  /\ made + 1 \in Turn /\ made' = made + 1
           /\ mem' = AppendTurn(m, made + 1) /\ mem' \in Memory
           /\ UNCHANGED <<acked, wiped, gone>>
           /\ task' \in [Tasks -> Task]
           /\ \A u \in Tasks : WellPlaced(task'[u])
<1> DEFINE x == made + 1
           m1 == AppendTurn(m, x)
           r1 == [r EXCEPT !.turn = x]
           saves == Saving(r1, m1, "return")
           resumes == [r1 EXCEPT !.pc = "resume"]
           starts == [Idle EXCEPT !.pc = "resume", !.op = "summarize"]
<1>1. x \in Turn /\ made' = x /\ mem' = m1 /\ UNCHANGED <<acked, wiped, gone>>
  BY MemoryAssumption DEF AddSection, TypeInv, TypeOK, Turn
<1>2. m1 \in Memory
  BY <1>1, AppendTurnProperties
<1> HIDE DEF m1
<1>r. r1 \in Task /\ r1.turn = x
  <2>1. x \in 0..MaxTurns
    BY <1>1, MemoryAssumption DEF Turn
  <2> HIDE DEF x
  <2> QED BY <2>1 DEF Task
<1> HIDE DEF r1
<1>3. saves \in Task /\ WellPlaced(saves)
  BY <1>1, <1>2, <1>r DEF Task, Pcs, Saving, WellPlaced
<1>4. resumes \in Task /\ WellPlaced(resumes)
  BY <1>1, <1>r DEF Task, Pcs, WellPlaced
<1>5. starts \in Task /\ WellPlaced(starts)
  BY IdleType DEF Task, Pcs, Ops, CallKinds, WellPlaced
<1>6. \/ task' = [task EXCEPT ![t] = saves]
      \/ \E b \in Bg : task' = [task EXCEPT ![t] = saves, ![b] = starts]
      \/ task' = [task EXCEPT ![t] = resumes]
  BY DEF AddSection, m1, r1
<1> HIDE DEF saves, resumes, starts
<1>7. task \in [Tasks -> Task] /\ \A u \in Tasks : WellPlaced(task[u])
  BY DEF TypeInv, TypeOK
<1>8. task' \in [Tasks -> Task] /\ \A u \in Tasks : WellPlaced(task'[u])
  <2>1. CASE task' = [task EXCEPT ![t] = saves]
    BY <1>3, <1>7, <2>1
  <2>2. CASE task' = [task EXCEPT ![t] = resumes]
    BY <1>4, <1>7, <2>2
  <2>3. CASE \E b \in Bg : task' = [task EXCEPT ![t] = saves, ![b] = starts]
    BY <1>3, <1>5, <1>7, <2>3 DEF Tasks
  <2> QED BY <1>6, <2>1, <2>2, <2>3
<1> QED BY <1>1, <1>2, <1>8 DEF m1

LEMMA SectionType ==
    ASSUME TypeInv, NEW t \in Tasks, NEW r \in Task, NEW m \in Memory, Section(t, r, m)
    PROVE  /\ mem' \in Memory /\ made' \in 0..MaxTurns
           /\ UNCHANGED <<acked, wiped, gone>>
           /\ task' \in [Tasks -> Task]
           /\ \A u \in Tasks : WellPlaced(task'[u])
<1>1. made \in 0..MaxTurns
  BY DEF TypeInv, TypeOK
<1>2. CASE r.op = "add" /\ AddSection(t, r, m)
  BY <1>2, AddSectionType DEF Turn
<1>3. CASE r.op \in {"flush", "topic"} /\ FlushSection(t, r, m)
  BY <1>1, <1>3, FlushSectionType
<1>4. CASE r.op = "summarize" /\ SummarizeSection(t, r, m)
  BY <1>1, <1>4, SummarizeSectionType
<1> QED BY <1>2, <1>3, <1>4 DEF Section

LEMMA TypeInit == Init => TypeInv
<1> SUFFICES ASSUME Init PROVE TypeInv
  OBVIOUS
<1>1. Empty \in Memory
  BY DEF Empty, Memory
<1>2. task \in [Tasks -> Task] /\ \A t \in Tasks : WellPlaced(task[t])
  BY IdleType DEF Init
<1>3. 0 \in 0..MaxTurns /\ Nobody \in Callers \cup {Nobody}
  BY MemoryAssumption
<1>4. /\ mem = Empty /\ loaded = FALSE /\ lock = Nobody /\ stored = NoSnapshot
      /\ made = 0 /\ acked = {} /\ wiped = 0 /\ gone = 0 /\ crashes = 0
  BY DEF Init
<1> QED BY <1>1, <1>2, <1>3, <1>4 DEF TypeInv, TypeOK

\* One action at a time.
LEMMA TypeStep == TypeInv /\ [Next]_vars => TypeInv'
<1> SUFFICES ASSUME TypeInv, [Next]_vars PROVE TypeInv'
  OBVIOUS
<1> USE DEF history
<1>0. /\ mem \in Memory /\ task \in [Tasks -> Task]
      /\ \A t \in Tasks : WellPlaced(task[t]) /\ task[t] \in Task
      /\ loaded \in BOOLEAN /\ lock \in Callers \cup {Nobody}
      /\ stored \in Memory \cup {NoSnapshot} /\ made \in 0..MaxTurns
      /\ acked \subseteq Turn /\ wiped \in 0..MaxTurns /\ gone \in 0..MaxTurns
      /\ crashes \in Nat /\ Empty \in Memory /\ Callers \subseteq Tasks
  BY DEF TypeInv, TypeOK, Empty, Memory, Tasks
\* Most actions give one task a record and leave the typed rest alone.
<1>1. ASSUME NEW t \in Tasks, NEW k \in Task, WellPlaced(k),
             task' = [task EXCEPT ![t] = k]
      PROVE  task' \in [Tasks -> Task] /\ \A u \in Tasks : WellPlaced(task'[u])
  BY <1>0, <1>1
<1>2. ASSUME NEW c \in Callers, Get(c) PROVE TypeInv'
  <2> DEFINE k == [Idle EXCEPT !.pc = "load", !.op = "get"]
  <2>1. k \in Task /\ WellPlaced(k)
    BY IdleType DEF Task, Pcs, Ops, CallKinds, WellPlaced
  <2> QED BY <1>0, <1>1, <1>2, <2>1 DEF Get, TypeInv, TypeOK
<1>3. ASSUME NEW c \in Callers, NEW op \in {"add", "flush", "summarize"}, Begin(c, op)
      PROVE TypeInv'
  <2> DEFINE r == [Idle EXCEPT !.op = op]
             k == [r EXCEPT !.pc = "load"]
  <2>1. r \in Task /\ k \in Task /\ WellPlaced(k)
    BY IdleType DEF Task, Pcs, Ops, CallKinds, WellPlaced
  <2>2. CASE loaded /\ Section(c, r, mem) /\ UNCHANGED lock
    BY <1>0, <1>3, <2>1, <2>2, SectionType DEF Begin, TypeInv, TypeOK
  <2>3. CASE /\ lock' = c /\ task' = [task EXCEPT ![c] = k]
             /\ UNCHANGED <<mem, made, acked, wiped, gone>>
    BY <1>0, <1>1, <1>3, <2>1, <2>3 DEF Begin, TypeInv, TypeOK
  <2> QED BY <1>3, <2>2, <2>3 DEF Begin
<1>4. ASSUME NEW c \in Callers, Clear(c) PROVE TypeInv'
  <2> DEFINE k == Saving([Idle EXCEPT !.op = "clear", !.turn = made], Empty, "return")
  <2>1. k \in Task /\ WellPlaced(k)
    BY <1>0, IdleType DEF Task, Pcs, Ops, CallKinds, WellPlaced, Saving
  <2> QED BY <1>0, <1>1, <1>4, <2>1 DEF Clear, TypeInv, TypeOK
<1>5. ASSUME NEW c \in Callers, Evaluate(c) PROVE TypeInv'
  <2> DEFINE k == [Idle EXCEPT !.pc = "judge", !.op = "topic"]
  <2>1. k \in Task /\ WellPlaced(k)
    BY IdleType DEF Task, Pcs, Ops, CallKinds, WellPlaced
  <2> QED BY <1>0, <1>1, <1>5, <2>1 DEF Evaluate, TypeInv, TypeOK
<1>6. ASSUME NEW c \in Callers, NewTopic(c) PROVE TypeInv'
  <2>1. task[c].op = "topic"
    BY <1>0, <1>6 DEF NewTopic, WellPlaced
  <2> QED BY <1>0, <1>6, <2>1, FlushSectionType DEF NewTopic, TypeInv, TypeOK
<1>7. ASSUME NEW t \in Tasks, BackendRead(t) PROVE TypeInv'
  <2> DEFINE k == [task[t] EXCEPT !.pc = "reply", !.snap = stored]
  <2>1. k \in Task /\ WellPlaced(k)
    BY <1>0 DEF Task, Pcs, WellPlaced
  <2>2. task' = [task EXCEPT ![t] = k]
    BY <1>7 DEF BackendRead
  <2> QED BY <1>0, <1>1, <1>7, <2>1, <2>2 DEF BackendRead, TypeInv, TypeOK
<1>8. ASSUME NEW t \in Tasks, LoadFinish(t) PROVE TypeInv'
  <2> DEFINE m == Hydrate(mem, task[t].snap)
             r == [Idle EXCEPT !.op = task[t].op]
  <2>1. m \in Memory /\ r \in Task
    BY <1>0, IdleType DEF Hydrate, Task
  <2>2. CASE mem' = m /\ task' = [task EXCEPT ![t] = Idle] /\ UNCHANGED <<lock, made, acked, wiped, gone>>
    BY <1>0, <1>1, <1>8, <2>1, <2>2, IdleType DEF LoadFinish, TypeInv, TypeOK
  <2>3. CASE lock' = Nobody /\ Section(t, r, m)
    <3> HIDE DEF m, r
    <3> QED BY <1>0, <1>8, <2>1, <2>3, SectionType DEF LoadFinish, TypeInv, TypeOK
  <2> QED BY <1>8, <2>2, <2>3 DEF LoadFinish
<1>9. ASSUME NEW t \in Tasks, Resume(t) PROVE TypeInv'
  BY <1>0, <1>9, SummarizeSectionType DEF Resume, WellPlaced, TypeInv, TypeOK
<1>10. ASSUME NEW t \in Tasks, SummarizeFinish(t) PROVE TypeInv'
  <2> DEFINE m == FoldInto(mem, task[t].prev, task[t].fold)
             k == Saving(task[t], m, IF task[t].op = "add" THEN "save" ELSE "return")
  <2>1. m \in Memory
    BY <1>0, FoldProperties DEF Task
  <2>2. task' = [task EXCEPT ![t] = k] /\ mem' = m
    BY <1>10 DEF SummarizeFinish
  <2> HIDE DEF m
  <2>3. k \in Task /\ WellPlaced(k)
    BY <1>0, <1>10, <2>1 DEF SummarizeFinish, Task, Pcs, WellPlaced, Saving
  <2> QED BY <1>0, <1>1, <1>10, <2>1, <2>2, <2>3 DEF SummarizeFinish, TypeInv, TypeOK
<1>11. ASSUME NEW t \in Tasks, SummarizeFail(t) PROVE TypeInv'
  <2> DEFINE k == IF task[t].op = "add" THEN Saving(task[t], mem, "return") ELSE Idle
  <2>1. k \in Task /\ WellPlaced(k)
    BY <1>0, <1>11, IdleType DEF SummarizeFail, Task, Pcs, WellPlaced, Saving
  <2>2. task' = [task EXCEPT ![t] = k]
    BY <1>11 DEF SummarizeFail
  <2> QED BY <1>0, <1>1, <1>11, <2>1, <2>2 DEF SummarizeFail, TypeInv, TypeOK
<1>12. ASSUME NEW t \in Tasks, SaveFinish(t) PROVE TypeInv'
  <2>1. stored' \in Memory \cup {NoSnapshot} /\ UNCHANGED <<mem, loaded, lock, made, wiped, crashes>>
    BY <1>0, <1>12 DEF SaveFinish, Task
  <2>2. CASE task[t].next = "return" /\ Return(t)
    <3>1. acked' \subseteq Turn /\ gone' \in 0..MaxTurns
      BY <1>0, <1>12, <2>2 DEF Return, SaveFinish, WellPlaced, Task
    <3> QED BY <1>0, <1>1, <2>1, <2>2, <3>1, IdleType DEF Return, TypeInv, TypeOK
  <2>3. CASE task[t].next = "save" /\ task' = [task EXCEPT ![t] = Saving(@, mem, "return")]
               /\ UNCHANGED <<acked, gone>>
    <3> DEFINE k == Saving(task[t], mem, "return")
    <3>1. k \in Task /\ WellPlaced(k)
      BY <1>0, <1>12 DEF SaveFinish, Task, Pcs, WellPlaced, Saving
    <3> QED BY <1>0, <1>1, <2>1, <2>3, <3>1 DEF TypeInv, TypeOK
  <2>4. CASE task[t].next = "summarize" /\ task' = [task EXCEPT ![t] = [@ EXCEPT !.pc = "resume"]]
               /\ UNCHANGED <<acked, gone>>
    <3> DEFINE k == [task[t] EXCEPT !.pc = "resume"]
    <3>1. k \in Task /\ WellPlaced(k)
      BY <1>0, <1>12 DEF SaveFinish, Task, Pcs, WellPlaced
    <3> QED BY <1>0, <1>1, <2>1, <2>4, <3>1 DEF TypeInv, TypeOK
  <2> QED BY <1>12, <2>2, <2>3, <2>4 DEF SaveFinish
<1>13. ASSUME NEW t \in Tasks, task' = [task EXCEPT ![t] = Idle],
              lock' = lock \/ lock' = Nobody,
              stored' = stored \/ MaybeStored(t),
              UNCHANGED <<mem, loaded, history>>
       PROVE  TypeInv'
  <2>1. stored' \in Memory \cup {NoSnapshot}
    BY <1>0, <1>13 DEF MaybeStored, Task
  <2> QED BY <1>0, <1>1, <1>13, <2>1, IdleType DEF TypeInv, TypeOK
<1>14. CASE Crash
  <2>1. task' \in [Tasks -> Task] /\ \A u \in Tasks : WellPlaced(task'[u])
    BY <1>14, IdleType DEF Crash
  <2>2. /\ mem' = Empty /\ loaded' = FALSE /\ lock' = Nobody /\ crashes' = crashes + 1
        /\ UNCHANGED <<made, acked, wiped, gone>>
    BY <1>14 DEF Crash
  <2>3. crashes' \in Nat
    BY <1>0, <2>2
  <2>4. stored' \in Memory \cup {NoSnapshot}
    BY <1>0, <1>14 DEF Crash, MaybeStored, Task
  <2> QED BY <1>0, <2>1, <2>2, <2>3, <2>4 DEF TypeInv, TypeOK
<1>15. CASE UNCHANGED vars
  BY <1>15 DEF vars, TypeInv, TypeOK
<1>16. ASSUME NEW c \in Callers, Call(c) PROVE TypeInv'
  BY <1>2, <1>3, <1>4, <1>5, <1>16 DEF Call
<1>17. ASSUME NEW t \in Tasks, Answer(t) PROVE TypeInv'
  BY <1>7, <1>8, <1>9, <1>10, <1>12, <1>17 DEF Answer
<1>18. ASSUME NEW t \in Tasks, Failure(t) PROVE TypeInv'
  BY <1>11, <1>13, <1>18 DEF Failure, LoadFail, SaveFail, Abort
<1>19. ASSUME NEW c \in Callers, SameTopic(c) \/ Cancel(c) PROVE TypeInv'
  BY <1>0, <1>13, <1>19 DEF SameTopic, Cancel, Abort
<1> QED BY <1>6, <1>14, <1>15, <1>16, <1>17, <1>18, <1>19 DEF Next

\* Every variable keeps its type, whatever the constants.
THEOREM TypeCorrect == Spec => []TypeOK
<1>1. TypeInv => TypeOK
  BY DEF TypeInv
<1> QED BY <1>1, TypeInit, TypeStep, PTL DEF Spec

-----------------------------------------------------------------------------
(* Order.  Every MemorySnapshot in the system, the instance included, is    *)
(* well formed with respect to the turns made so far: what a new snapshot   *)
(* is computed from is an old one.                                          *)

WellFormed(m, n) ==
    /\ ChronologicalIn(m)
    /\ \A x \in Elements(m.l3 \o m.l2) : x <= n
    /\ Len(m.l2) <= L2Size

OrderInv ==
    /\ TypeInv
    /\ WellFormed(mem, made)
    /\ stored # NoSnapshot => WellFormed(stored, made)
    /\ \A t \in Tasks : task[t].snap # NoSnapshot => WellFormed(task[t].snap, made)

LEMMA IncreasingConcat ==
    ASSUME NEW s \in Seq(Turn), NEW u \in Seq(Turn)
    PROVE  Increasing(s \o u) <=>
             /\ Increasing(s) /\ Increasing(u)
             /\ \A x \in Elements(s), y \in Elements(u) : x < y
<1>1. /\ Len(s) \in Nat /\ DOMAIN s = 1..Len(s)
      /\ Len(u) \in Nat /\ DOMAIN u = 1..Len(u)
      /\ DOMAIN (s \o u) = 1..(Len(s) + Len(u))
      /\ \A i \in 1..(Len(s) + Len(u)) :
           (s \o u)[i] = IF i <= Len(s) THEN s[i] ELSE u[i - Len(s)]
  BY ConcatProperties, LenProperties
<1> DEFINE c == s \o u
<1> HIDE DEF c
<1>2. /\ \A i \in 1..Len(s) : i \in DOMAIN c /\ c[i] = s[i]
      /\ \A i \in 1..Len(u) : Len(s) + i \in DOMAIN c /\ c[Len(s) + i] = u[i]
  BY <1>1 DEF c
<1>3. ASSUME Increasing(c)
      PROVE  /\ Increasing(s) /\ Increasing(u)
             /\ \A x \in Elements(s), y \in Elements(u) : x < y
  <2>1. Increasing(s)
    BY <1>1, <1>2, <1>3 DEF Increasing
  <2>2. Increasing(u)
    <3> SUFFICES ASSUME NEW i \in 1..Len(u), NEW j \in 1..Len(u), i < j
                 PROVE  u[i] < u[j]
      BY <1>1 DEF Increasing
    <3>1. Len(s) + i < Len(s) + j
      BY <1>1
    <3> QED BY <1>2, <1>3, <3>1 DEF Increasing
  <2>3. ASSUME NEW i \in 1..Len(s), NEW j \in 1..Len(u) PROVE s[i] < u[j]
    <3>1. i < Len(s) + j
      BY <1>1
    <3> QED BY <1>2, <1>3, <3>1 DEF Increasing
  <2> QED BY <1>1, <2>1, <2>2, <2>3 DEF Elements
<1>4. ASSUME Increasing(s), Increasing(u), \A x \in Elements(s), y \in Elements(u) : x < y
      PROVE  Increasing(c)
  <2> SUFFICES ASSUME NEW i \in 1..(Len(s) + Len(u)), NEW j \in 1..(Len(s) + Len(u)), i < j
               PROVE  c[i] < c[j]
    BY <1>1 DEF Increasing, c
  <2>1. CASE j <= Len(s)
    BY <1>1, <1>4, <2>1 DEF Increasing, c
  <2>2. CASE i <= Len(s) /\ ~(j <= Len(s))
    <3>1. i \in DOMAIN s /\ j - Len(s) \in DOMAIN u /\ c[i] = s[i] /\ c[j] = u[j - Len(s)]
      BY <1>1, <2>2 DEF c
    <3> QED BY <1>4, <3>1 DEF Elements
  <2>3. CASE ~(i <= Len(s))
    <3>1. /\ i - Len(s) \in DOMAIN u /\ j - Len(s) \in DOMAIN u /\ i - Len(s) < j - Len(s)
          /\ c[i] = u[i - Len(s)] /\ c[j] = u[j - Len(s)]
      BY <1>1, <2>3 DEF c
    <3> QED BY <1>4, <3>1 DEF Increasing
  <2> QED BY <1>1, <2>1, <2>2, <2>3
<1> QED BY <1>3, <1>4 DEF c

LEMMA EmptyWellFormed == \A n \in Nat : Empty \in Memory /\ WellFormed(Empty, n)
<1>1. <<>> \o <<>> = <<>>
  BY ConcatEmptySeq, EmptySeq
<1> QED BY <1>1, MemoryAssumption DEF Empty, Memory, WellFormed, ChronologicalIn, Increasing, Elements

LEMMA AppendWellFormed ==
    ASSUME NEW m \in Memory, NEW n \in Nat, n + 1 \in Turn, WellFormed(m, n)
    PROVE  WellFormed(AppendTurn(m, n + 1), n + 1)
<1> DEFINE s == m.l3 \o m.l2
           one == <<n + 1>>
           a == AppendTurn(m, n + 1)
<1>1. s \in Seq(Turn) /\ one \in Seq(Turn)
  BY ConcatProperties DEF Memory
<1>2. a.l3 \o a.l2 = s \o one /\ Len(a.l2) <= L2Size
  BY <1>1, AppendTurnProperties, AppendIsConcat
<1>3. Increasing(one) /\ Elements(one) = {n + 1}
  BY DEF Increasing, Elements
<1>4. Elements(s \o one) = Elements(s) \cup {n + 1} /\ Elements(s) \subseteq Turn
  <2> HIDE DEF s, one
  <2> QED BY <1>1, <1>3, ElementsOfSeq
<1>5. \A x \in Elements(s) : x <= n /\ x \in Int
  BY <1>4 DEF WellFormed, Turn
<1>6. Increasing(s \o one)
  <2>1. Increasing(s)
    BY DEF WellFormed, ChronologicalIn
  <2>2. \A x \in Elements(s), y \in Elements(one) : x < y
    BY <1>3, <1>5
  <2> HIDE DEF s, one
  <2> QED BY <1>1, <1>3, <2>1, <2>2, IncreasingConcat
<1>7. \A x \in Elements(s \o one) : x <= n + 1
  BY <1>4, <1>5
<1> HIDE DEF s, one, a
<1> QED BY <1>2, <1>6, <1>7 DEF WellFormed, ChronologicalIn, a

LEMMA FlushWellFormed ==
    ASSUME NEW m \in Memory, NEW n \in Nat, WellFormed(m, n)
    PROVE  WellFormed(FlushL2(m), n)
<1>1. /\ FlushL2(m).l3 \o FlushL2(m).l2 = m.l3 \o m.l2
      /\ FlushL2(m).l2 = <<>>
  BY FlushL2Properties
<1>2. Len(<<>>) = 0 /\ L2Size \in Nat
  BY EmptySeq, MemoryAssumption
<1>3. Len(FlushL2(m).l2) <= L2Size
  BY <1>1, <1>2
<1> QED BY <1>1, <1>3 DEF WellFormed, ChronologicalIn

LEMMA FoldWellFormed ==
    ASSUME NEW m \in Memory, NEW n \in Nat, WellFormed(m, n),
           NEW prev \in SUBSET Turn, NEW fold \in SUBSET Turn
    PROVE  WellFormed(FoldInto(m, prev, fold), n)
<1> DEFINE w == Without(m.l3, fold)
<1>1. m.l2 \in Seq(Turn) /\ m.l3 \in Seq(Turn)
  BY DEF Memory
<1>2. w \in Seq(Turn) /\ Elements(w) \subseteq Elements(m.l3)
  BY <1>1, WithoutProperties
<1>3. /\ Increasing(m.l3) /\ Increasing(m.l2)
      /\ \A x \in Elements(m.l3), y \in Elements(m.l2) : x < y
  BY <1>1, IncreasingConcat DEF WellFormed, ChronologicalIn
<1>4. Increasing(w)
  <2> SUFFICES ASSUME NEW a \in DOMAIN w, NEW b \in DOMAIN w, a < b
               PROVE  w[a] < w[b]
    BY DEF Increasing
  <2>1. PICK i \in DOMAIN m.l3, j \in DOMAIN m.l3 : i < j /\ w[a] = m.l3[i] /\ w[b] = m.l3[j]
    BY <1>1, WithoutProperties
  <2> QED BY <1>3, <2>1 DEF Increasing
<1>5. FoldInto(m, prev, fold).l2 = m.l2 /\ FoldInto(m, prev, fold).l3 = w
  BY FoldProperties
<1> HIDE DEF w
<1>6. Increasing(w \o m.l2)
  BY <1>1, <1>2, <1>3, <1>4, IncreasingConcat
<1>7. Elements(w \o m.l2) \subseteq Elements(m.l3 \o m.l2)
  <2>1. Elements(w \o m.l2) = Elements(w) \cup Elements(m.l2)
    BY <1>1, <1>2, ElementsOfSeq
  <2>2. Elements(m.l3 \o m.l2) = Elements(m.l3) \cup Elements(m.l2)
    BY <1>1, ElementsOfSeq
  <2> QED BY <1>2, <2>1, <2>2
<1> QED BY <1>5, <1>6, <1>7 DEF WellFormed, ChronologicalIn

\* What a snapshot can be after a step: where the data of a step comes from.
FlowsFrom(m) ==
    \/ mem' = m /\ made' = made
    \/ mem' = FlushL2(m) /\ made' = made
    \/ /\ made + 1 \in Turn /\ made' = made + 1
       /\ mem' = AppendTurn(m, made + 1)

SnapsFlow ==
    \A u \in Tasks : task'[u].snap \in {task[u].snap, stored, mem', NoSnapshot}

LEMMA SectionFlow ==
    ASSUME TypeInv, NEW t \in Tasks, NEW r \in Task, NEW m \in Memory,
           r.snap \in {task[t].snap, NoSnapshot},
           \/ Section(t, r, m)
           \/ r.op = "topic" /\ FlushSection(t, r, m)
           \/ SummarizeSection(t, r, m)
    PROVE  FlowsFrom(m) /\ SnapsFlow
<1>1. task \in [Tasks -> Task]
  BY DEF TypeInv, TypeOK
<1>2. ASSUME SummarizeSection(t, r, m) PROVE FlowsFrom(m) /\ SnapsFlow
  BY <1>1, <1>2 DEF SummarizeSection, FlowsFrom, SnapsFlow, Saving, Idle, Task
<1>3. ASSUME r.op \in {"flush", "topic"}, FlushSection(t, r, m) PROVE FlowsFrom(m) /\ SnapsFlow
  <2>1. CASE m.l2 = <<>>
    BY <1>1, <1>3, <2>1 DEF FlushSection, FlowsFrom, SnapsFlow, Saving, Idle, Task
  <2>2. CASE m.l2 # <<>>
    <3> DEFINE f == FlushL2(m)
               next == IF r.op = "topic" THEN "summarize" ELSE "return"
    <3>1. mem' = f /\ made' = made /\ task' = [task EXCEPT ![t] = Saving(r, f, next)]
      BY <1>3, <2>2 DEF FlushSection
    <3> HIDE DEF next
    <3>2. FlowsFrom(m)
      BY <3>1 DEF FlowsFrom
    <3> HIDE DEF f
    <3>3. SnapsFlow
      BY <1>1, <3>1 DEF SnapsFlow, Saving, Task
    <3> QED BY <3>2, <3>3
  <2> QED BY <2>1, <2>2
<1>4. ASSUME r.op = "add", AddSection(t, r, m) PROVE FlowsFrom(m) /\ SnapsFlow
  <2> DEFINE x == made + 1
             m1 == AppendTurn(m, x)
             r1 == [r EXCEPT !.turn = x]
  <2>1. x \in Turn /\ made' = x /\ mem' = m1
    BY <1>4, AddSectionType
  <2>2. \/ task' = [task EXCEPT ![t] = Saving(r1, m1, "return")]
        \/ \E b \in Bg : task' = [task EXCEPT ![t] = Saving(r1, m1, "return"),
                            ![b] = [Idle EXCEPT !.pc = "resume", !.op = "summarize"]]
        \/ task' = [task EXCEPT ![t] = [r1 EXCEPT !.pc = "resume"]]
    BY <1>4 DEF AddSection
  <2> DEFINE saves == Saving(r1, m1, "return")
             resumes == [r1 EXCEPT !.pc = "resume"]
             starts == [Idle EXCEPT !.pc = "resume", !.op = "summarize"]
  <2>3. /\ saves.snap = mem' /\ starts.snap = NoSnapshot
        /\ resumes.snap \in {task[t].snap, NoSnapshot}
    BY <2>1 DEF Task, Saving, Idle
  <2> HIDE DEF saves, resumes, starts
  <2>4. SnapsFlow
    <3>1. CASE task' = [task EXCEPT ![t] = saves]
      BY <1>1, <2>3, <3>1 DEF SnapsFlow
    <3>2. CASE \E b \in Bg : task' = [task EXCEPT ![t] = saves, ![b] = starts]
      BY <1>1, <2>3, <3>2 DEF SnapsFlow, Tasks
    <3>3. CASE task' = [task EXCEPT ![t] = resumes]
      BY <1>1, <2>3, <3>3 DEF SnapsFlow
    <3> QED BY <2>2, <3>1, <3>2, <3>3 DEF saves, resumes, starts
  <2> HIDE DEF m1
  <2> QED BY <2>1, <2>4 DEF FlowsFrom, m1
<1> QED BY <1>2, <1>3, <1>4 DEF Section

Flow ==
    /\ SnapsFlow
    /\ stored' = stored \/ \E u \in Tasks : task[u].pc = "save" /\ stored' = task[u].snap
    /\ \/ \E m \in Memory : /\ m = mem \/ \E u \in Tasks : m = task[u].snap
                            /\ FlowsFrom(m)
       \/ mem' = Empty /\ made' = made
       \/ \E prev, fold \in SUBSET Turn : mem' = FoldInto(mem, prev, fold) /\ made' = made

LEMMA DataFlow == ASSUME TypeInv, Next PROVE Flow
<1> USE DEF history
<1>0. /\ mem \in Memory /\ task \in [Tasks -> Task] /\ Callers \subseteq Tasks
      /\ \A t \in Tasks : task[t] \in Task
      /\ \A t \in Tasks : WellPlaced(task[t])
  BY DEF TypeInv, TypeOK, Tasks
\* A step that leaves the instance and the backend alone.
<1>1. ASSUME SnapsFlow, UNCHANGED <<mem, made, stored>> PROVE Flow
  BY <1>0, <1>1 DEF Flow, FlowsFrom
<1>2. ASSUME SnapsFlow, UNCHANGED stored, FlowsFrom(mem) PROVE Flow
  BY <1>0, <1>2 DEF Flow
<1>3. ASSUME NEW c \in Callers, Call(c) PROVE Flow
  <2>1. CASE Get(c)
    BY <1>0, <1>1, <2>1 DEF Get, SnapsFlow, Idle, Task
  <2>2. ASSUME NEW op \in {"add", "flush", "summarize"}, Begin(c, op) PROVE Flow
    <3> DEFINE r == [Idle EXCEPT !.op = op]
    <3>1. r \in Task /\ r.snap = NoSnapshot
      BY IdleType DEF Idle, Task, Ops, CallKinds
    <3>2. CASE Section(c, r, mem)
      BY <1>0, <1>2, <2>2, <3>1, <3>2, SectionFlow DEF Begin
    <3>3. CASE /\ task' = [task EXCEPT ![c] = [r EXCEPT !.pc = "load"]]
               /\ UNCHANGED <<mem, made, acked, wiped, gone>>
      BY <1>0, <1>1, <2>2, <3>1, <3>3 DEF Begin, SnapsFlow, Task
    <3> QED BY <2>2, <3>2, <3>3 DEF Begin
  <2>3. CASE Clear(c)
    BY <1>0, <2>3 DEF Clear, Flow, SnapsFlow, Saving, Idle, Task
  <2>4. CASE Evaluate(c)
    BY <1>0, <1>1, <2>4 DEF Evaluate, SnapsFlow, Idle, Task
  <2> QED BY <1>3, <2>1, <2>2, <2>3, <2>4 DEF Call
<1>4. ASSUME NEW c \in Callers, NewTopic(c) PROVE Flow
  <2>1. task[c].op = "topic"
    BY <1>0, <1>4 DEF NewTopic, WellPlaced
  <2> QED BY <1>0, <1>2, <1>4, <2>1, SectionFlow DEF NewTopic
<1>5. ASSUME NEW t \in Tasks, task' = [task EXCEPT ![t] = Idle],
             stored' = stored \/ MaybeStored(t), UNCHANGED <<mem, made>>
      PROVE  Flow
  <2>1. SnapsFlow
    BY <1>0, <1>5 DEF SnapsFlow, Idle, Task
  <2>2. stored' = stored \/ \E u \in Tasks : task[u].pc = "save" /\ stored' = task[u].snap
    BY <1>5 DEF MaybeStored
  <2>3. mem \in Memory /\ FlowsFrom(mem)
    BY <1>0, <1>5 DEF FlowsFrom
  <2> QED BY <2>1, <2>2, <2>3 DEF Flow
<1>6. ASSUME NEW t \in Tasks, BackendRead(t) PROVE Flow
  BY <1>0, <1>1, <1>6 DEF BackendRead, SnapsFlow, Task
<1>7. ASSUME NEW t \in Tasks, LoadFinish(t) PROVE Flow
  <2> DEFINE m == Hydrate(mem, task[t].snap)
             r == [Idle EXCEPT !.op = task[t].op]
  <2>1. /\ m \in Memory /\ r \in Task /\ r.snap = NoSnapshot
        /\ m = mem \/ m = task[t].snap
    BY <1>0, IdleType DEF Hydrate, Task, Idle
  <2>2. CASE mem' = m /\ task' = [task EXCEPT ![t] = Idle] /\ UNCHANGED <<lock, made, acked, wiped, gone>>
    <3>1. SnapsFlow /\ FlowsFrom(m) /\ UNCHANGED stored
      BY <1>0, <1>7, <2>2 DEF LoadFinish, SnapsFlow, FlowsFrom, Idle, Task
    <3> QED BY <2>1, <3>1 DEF Flow
  <2>3. CASE Section(t, r, m)
    <3> HIDE DEF m, r
    <3>1. SnapsFlow /\ FlowsFrom(m) /\ UNCHANGED stored
      BY <1>0, <1>7, <2>1, <2>3, SectionFlow DEF LoadFinish
    <3> QED BY <2>1, <3>1 DEF Flow
  <2> QED BY <1>7, <2>2, <2>3 DEF LoadFinish
<1>8. ASSUME NEW t \in Tasks, Resume(t) PROVE Flow
  BY <1>0, <1>2, <1>8, SectionFlow DEF Resume
<1>9. ASSUME NEW t \in Tasks, SummarizeFinish(t) PROVE Flow
  <2> DEFINE m == FoldInto(mem, task[t].prev, task[t].fold)
             next == IF task[t].op = "add" THEN "save" ELSE "return"
  <2>1. mem' = m /\ task' = [task EXCEPT ![t] = Saving(task[t], m, next)] /\ UNCHANGED <<stored, made>>
    BY <1>9 DEF SummarizeFinish
  <2>2. task[t].prev \in SUBSET Turn /\ task[t].fold \in SUBSET Turn
    BY <1>0 DEF Task
  <2>3. SnapsFlow
    <3> HIDE DEF m, next
    <3> QED BY <1>0, <2>1 DEF SnapsFlow, Saving, Task
  <2> QED BY <2>1, <2>2, <2>3 DEF Flow
<1>10. ASSUME NEW t \in Tasks, SummarizeFail(t) PROVE Flow
  BY <1>0, <1>1, <1>10 DEF SummarizeFail, SnapsFlow, Saving, Idle, Task
<1>11. ASSUME NEW t \in Tasks, SaveFinish(t) PROVE Flow
  <2>1. stored' = task[t].snap /\ task[t].pc = "save" /\ UNCHANGED <<mem, made>>
    BY <1>11 DEF SaveFinish
  <2>2. SnapsFlow
    <3>1. CASE Return(t)
      BY <1>0, <3>1 DEF Return, SnapsFlow, Idle, Task
    <3>2. CASE task' = [task EXCEPT ![t] = Saving(@, mem, "return")]
      BY <1>0, <2>1, <3>2 DEF SnapsFlow, Saving, Task
    <3>3. CASE task' = [task EXCEPT ![t] = [@ EXCEPT !.pc = "resume"]]
      BY <1>0, <3>3 DEF SnapsFlow, Task
    <3> QED BY <1>11, <3>1, <3>2, <3>3 DEF SaveFinish
  <2> QED BY <1>0, <2>1, <2>2 DEF Flow, FlowsFrom
<1>12. CASE Crash
  <2>1. SnapsFlow
    BY <1>12 DEF Crash, SnapsFlow, Idle
  <2>2. stored' = stored \/ \E u \in Tasks : task[u].pc = "save" /\ stored' = task[u].snap
    BY <1>12 DEF Crash, MaybeStored
  <2> QED BY <1>12, <2>1, <2>2 DEF Crash, Flow
<1>13. ASSUME NEW t \in Tasks, Answer(t) PROVE Flow
  BY <1>6, <1>7, <1>8, <1>9, <1>11, <1>13 DEF Answer
<1>14. ASSUME NEW t \in Tasks, Failure(t) PROVE Flow
  BY <1>5, <1>10, <1>14 DEF Failure, LoadFail, SaveFail, Abort
<1>15. ASSUME NEW c \in Callers, SameTopic(c) \/ Cancel(c) PROVE Flow
  BY <1>0, <1>5, <1>15 DEF SameTopic, Cancel, Abort
<1> QED
  <2>1. CASE \E c \in Callers : Call(c) \/ NewTopic(c) \/ SameTopic(c) \/ Cancel(c)
    BY <1>3, <1>4, <1>15, <2>1
  <2>2. CASE \E t \in Tasks : Answer(t) \/ Failure(t)
    BY <1>13, <1>14, <2>2
  <2> QED BY <1>12, <2>1, <2>2 DEF Next

LEMMA OrderStep == OrderInv /\ [Next]_vars => OrderInv'
<1> SUFFICES ASSUME OrderInv, [Next]_vars PROVE OrderInv'
  OBVIOUS
<1>0. TypeInv /\ TypeInv'
  BY TypeStep DEF OrderInv
<1>1. CASE UNCHANGED vars
  BY <1>0, <1>1 DEF vars, OrderInv
<1>2. CASE Next
  <2>1. made \in Nat /\ made' \in Nat /\ mem \in Memory
    BY <1>0, MemoryAssumption DEF TypeInv, TypeOK
  <2>2. ASSUME NEW m \in Memory, NEW n \in Nat, NEW k \in Nat, n <= k, WellFormed(m, n)
        PROVE  WellFormed(m, k)
    <3>1. Elements(m.l3 \o m.l2) \subseteq Turn
      BY ConcatProperties, ElementsOfSeq DEF Memory
    <3> QED BY <2>2, <3>1 DEF WellFormed, Turn
  <2>3. ASSUME NEW m \in Memory, WellFormed(m, made), FlowsFrom(m)
        PROVE  WellFormed(mem', made') /\ made <= made'
    BY <2>1, <2>3, AppendWellFormed, FlushWellFormed DEF FlowsFrom
  <2>4. WellFormed(mem', made') /\ made <= made'
    <3>1. CASE \E m \in Memory : /\ m = mem \/ \E u \in Tasks : m = task[u].snap
                                 /\ FlowsFrom(m)
      BY <2>3, <3>1, SnapshotAssumption DEF OrderInv
    <3>2. CASE mem' = Empty /\ made' = made
      BY <2>1, <3>2, EmptyWellFormed
    <3>3. CASE \E prev, fold \in SUBSET Turn : mem' = FoldInto(mem, prev, fold) /\ made' = made
      BY <2>1, <3>3, FoldWellFormed DEF OrderInv
    <3> QED BY <1>0, <1>2, <3>1, <3>2, <3>3, DataFlow DEF Flow
  <2>5. /\ stored \in Memory \cup {NoSnapshot}
        /\ \A t \in Tasks : task[t].snap \in Memory \cup {NoSnapshot}
    BY <1>0 DEF TypeInv, TypeOK, Task
  <2>6. stored # NoSnapshot => WellFormed(stored, made')
    BY <2>1, <2>2, <2>4, <2>5 DEF OrderInv
  <2>7. \A t \in Tasks : task[t].snap # NoSnapshot => WellFormed(task[t].snap, made')
    BY <2>1, <2>2, <2>4, <2>5 DEF OrderInv
  <2>8. stored' # NoSnapshot => WellFormed(stored', made')
    BY <1>0, <1>2, <2>6, <2>7, DataFlow DEF Flow
  <2>9. \A t \in Tasks : task'[t].snap # NoSnapshot => WellFormed(task'[t].snap, made')
    BY <1>0, <1>2, <2>4, <2>6, <2>7, DataFlow DEF Flow, SnapsFlow
  <2> QED BY <1>0, <2>4, <2>8, <2>9 DEF OrderInv
<1> QED BY <1>1, <1>2

LEMMA OrderInit == Init => OrderInv
<1> SUFFICES ASSUME Init PROVE OrderInv
  OBVIOUS
<1>1. mem = Empty /\ made = 0 /\ stored = NoSnapshot /\ \A t \in Tasks : task[t].snap = NoSnapshot
  BY DEF Init, Idle
<1> QED BY <1>1, TypeInit, EmptyWellFormed DEF OrderInv

\* Whatever the callers, the faults and the order of the answers: L3 before
\* L2 is in chronological order without a duplicate in every snapshot.
THEOREM AlwaysChronological == Spec => []Chronological
<1>1. OrderInv => Chronological
  BY DEF OrderInv, WellFormed, Chronological
<1> QED BY <1>1, OrderInit, OrderStep, PTL DEF Spec

\* L2 never exceeds l2_size, in the instance and in the backend.
THEOREM AlwaysWindowBounded == Spec => []WindowBounded
<1>1. OrderInv => WindowBounded
  BY DEF OrderInv, WellFormed, WindowBounded
<1> QED BY <1>1, OrderInit, OrderStep, PTL DEF Spec

-----------------------------------------------------------------------------
(* One request at a time.  With a single caller and foreground summaries    *)
(* no answer is applied to a memory it was not computed from: the snapshot  *)
(* in flight is the instance, the reply in flight is the backend, and the   *)
(* summarizer folds exactly what is in L3 and L4.                           *)

Kept(m) == Promised \subseteq Accounted(m) /\ \A x \in Accounted(m) : x > gone

\* What the caller's await knows of the instance and of the backend.
KeepAt(k) ==
    /\ k.turn <= made
    /\ k.pc = "save" => k.snap = mem /\ Kept(mem)
    /\ k.op = "clear" => k.pc = "save" /\ mem = Empty /\ k.next = "return"
    /\ k.pc \in {"resume", "llm", "save"} /\ k.op = "add" => k.turn \in Accounted(mem)
    /\ k.pc = "reply" => k.snap = stored
    /\ k.pc = "llm" => k.prev = mem.l4 /\ k.fold = Elements(mem.l3)
    /\ k.pc \in {"judge", "resume", "llm"} \/ (k.pc = "save" /\ k.op # "clear") => loaded
    /\ k.pc \in {"load", "reply"} => ~loaded

Stable ==
    /\ \A x \in acked : x <= made
    /\ gone <= made
    /\ stored # NoSnapshot => Kept(stored)
    /\ Promised # {} => stored # NoSnapshot
    /\ loaded => Kept(mem)
    /\ ~loaded => mem = Empty

KeepInv ==
    /\ TypeInv
    /\ \A b \in Bg : task[b] = Idle
    /\ Stable
    /\ \A c \in Callers : KeepAt(task[c])

\* A task whose record becomes k leaves the others as they were.
LEMMA OneTask ==
    ASSUME NEW c, Callers = {c}, TypeInv, \A b \in Bg : task[b] = Idle,
           NEW k, task' = [task EXCEPT ![c] = k]
    PROVE  /\ \A b \in Bg : task'[b] = Idle
           /\ \A d \in Callers : task'[d] = k
BY MemoryAssumption DEF TypeInv, TypeOK, Tasks

LEMMA SectionKeeps ==
    ASSUME NEW c, Callers = {c}, Background = FALSE, KeepInv,
           NEW m \in Memory, Kept(m),
           NEW r \in Task, r.turn <= made,
           r.op = "add" /\ r.pc = "resume" => r.turn \in Accounted(m),
           \/ Section(c, r, m)
           \/ r.op = "topic" /\ FlushSection(c, r, m)
           \/ SummarizeSection(c, r, m) /\ (r.op = "add" => r.pc = "resume") /\ r.op # "clear",
           loaded', stored' = stored
    PROVE  /\ \A b \in Bg : task'[b] = Idle
           /\ Stable'
           /\ \A d \in Callers : KeepAt(task[d])'
<1>0. /\ made \in Nat /\ acked \subseteq Turn /\ wiped \in Nat /\ gone \in Nat
      /\ task \in [Tasks -> Task] /\ c \in Tasks
  BY MemoryAssumption DEF KeepInv, TypeInv, TypeOK, Tasks
\* The conclusion, from the new instance and the new record of the caller.
<1>1. ASSUME NEW n \in Memory, NEW k,
             mem' = n, UNCHANGED <<acked, wiped, gone>>, made' \in Nat, made <= made',
             Accounted(m) \subseteq Accounted(n),
             \A x \in Accounted(n) : x > gone,
             task' = [task EXCEPT ![c] = k],
             k.turn <= made',
             k.pc = "save" => k.snap = n,
             k.pc \in {"idle", "save", "resume", "llm"}, k.op # "clear",
             k.op = "add" /\ k.pc # "idle" => k.turn \in Accounted(n),
             k.pc = "llm" => k.prev = n.l4 /\ k.fold = Elements(n.l3)
      PROVE  /\ \A b \in Bg : task'[b] = Idle
             /\ Stable'
             /\ \A d \in Callers : KeepAt(task[d])'
  <2>1. Promised' = Promised /\ gone' = gone
    BY <1>1 DEF Promised
  <2>2. Promised \subseteq Accounted(n)
    BY <1>1 DEF Kept
  <2>3. Kept(mem)'
    BY <1>1, <2>1, <2>2 DEF Kept
  <2>4. stored # NoSnapshot => Kept(stored)'
    BY <2>1 DEF KeepInv, Stable, Kept
  <2>5. Stable'
    BY <1>0, <1>1, <2>1, <2>3, <2>4 DEF KeepInv, Stable, Turn
  <2>6. (\A b \in Bg : task'[b] = Idle) /\ \A d \in Callers : task'[d] = k
    BY <1>1, OneTask DEF KeepInv
  <2>7. \A d \in Callers : KeepAt(task[d])'
    BY <1>1, <2>3, <2>6 DEF KeepAt
  <2> QED BY <2>5, <2>6, <2>7
<1>2. CASE SummarizeSection(c, r, m) /\ (r.op = "add" => r.pc = "resume") /\ r.op # "clear"
  <2> DEFINE asks == [r EXCEPT !.pc = "llm", !.prev = m.l4, !.fold = Elements(m.l3)]
             saves == Saving(r, m, "return")
             Fits(k) == /\ k.turn <= made /\ (k.pc = "save" => k.snap = m) /\ k.op # "clear"
                        /\ k.pc \in {"idle", "save", "resume", "llm"}
                        /\ k.op = "add" /\ k.pc # "idle" => k.turn \in Accounted(m)
                        /\ k.pc = "llm" => k.prev = m.l4 /\ k.fold = Elements(m.l3)
  <2>1. \E k \in {asks, saves, Idle} : task' = [task EXCEPT ![c] = k]
    BY <1>2 DEF SummarizeSection
  <2>2. mem' = m /\ made' = made /\ UNCHANGED <<acked, wiped, gone>>
    BY <1>2 DEF SummarizeSection
  <2>3. r.op = "add" => r.turn \in Accounted(m)
    BY <1>2
  <2>4. Fits(asks)
    BY <1>0, <1>2, <2>3 DEF Task
  <2>5. Fits(saves)
    BY <1>0, <1>2, <2>3 DEF Saving, Task
  <2>6. Fits(Idle)
    BY <1>0 DEF Idle
  <2> HIDE DEF asks, saves
  <2>7. PICK k \in {asks, saves, Idle} : task' = [task EXCEPT ![c] = k]
    BY <2>1
  <2>8. \A x \in Accounted(m) : x > gone
    BY DEF Kept
  <2>9. Fits(k)
    BY <2>4, <2>5, <2>6
  <2>10. made' \in Nat /\ made <= made' /\ k.turn <= made'
    BY <1>0, <2>2, <2>9
  <2> QED BY <1>1, <2>2, <2>7, <2>8, <2>9, <2>10
<1>3. CASE r.op \in {"flush", "topic"} /\ FlushSection(c, r, m)
  <2> DEFINE n == IF m.l2 = <<>> THEN m ELSE FlushL2(m)
             resumes == [r EXCEPT !.pc = "resume"]
             both == Saving(r, n, "summarize")
             alone == Saving(r, n, "return")
             Fits(k) == /\ k.turn <= made /\ (k.pc = "save" => k.snap = n) /\ k.op # "clear"
                        /\ k.pc \in {"idle", "save", "resume"} /\ k.op # "add"
  <2>1. \E k \in {resumes, both, alone, Idle} : task' = [task EXCEPT ![c] = k]
    BY <1>3 DEF FlushSection
  <2>2. mem' = n /\ made' = made /\ UNCHANGED <<acked, wiped, gone>>
    BY <1>3 DEF FlushSection
  <2>3. n \in Memory /\ Accounted(n) = Accounted(m)
    BY FlushL2Properties
  <2> HIDE DEF n
  <2>4. Fits(resumes)
    BY <1>0, <1>3 DEF Task
  <2>5. Fits(both) /\ Fits(alone)
    BY <1>0, <1>3 DEF Saving, Task
  <2>6. Fits(Idle)
    BY <1>0 DEF Idle
  <2> HIDE DEF resumes, both, alone
  <2>7. PICK k \in {resumes, both, alone, Idle} : task' = [task EXCEPT ![c] = k]
    BY <2>1
  <2>8. \A x \in Accounted(n) : x > gone
    BY <2>3 DEF Kept
  <2>9. Fits(k)
    BY <2>4, <2>5, <2>6
  <2>10. made' \in Nat /\ made <= made' /\ k.turn <= made'
    BY <1>0, <2>2, <2>9
  <2> QED BY <1>1, <2>2, <2>3, <2>7, <2>8, <2>9, <2>10
<1>4. CASE r.op = "add" /\ AddSection(c, r, m)
  <2> DEFINE x == made + 1
             n == AppendTurn(m, x)
             r1 == [r EXCEPT !.turn = x]
             saves == Saving(r1, n, "return")
             resumes == [r1 EXCEPT !.pc = "resume"]
  <2>1. x \in Turn /\ mem' = n /\ made' = x /\ UNCHANGED <<acked, wiped, gone>>
    BY <1>0, <1>4, AddSectionType DEF KeepInv
  <2>2. n \in Memory /\ Accounted(n) = Accounted(m) \cup {x}
    BY <2>1, AppendTurnProperties
  <2>3. task' = [task EXCEPT ![c] = saves] \/ task' = [task EXCEPT ![c] = resumes]
    BY <1>4 DEF AddSection
  <2>4. \A y \in Accounted(n) : y > gone
    BY <1>0, <2>2 DEF Kept, KeepInv, Stable
  <2> HIDE DEF n
  <2>5. \A k \in {saves, resumes} :
           /\ k.turn = x /\ (k.pc = "save" => k.snap = n) /\ k.op = "add"
           /\ k.pc \in {"save", "resume"}
    BY <1>4 DEF Saving, Task
  <2> HIDE DEF saves, resumes
  <2>6. PICK k \in {saves, resumes} : task' = [task EXCEPT ![c] = k]
    BY <2>3
  <2>7. /\ k.turn = x /\ (k.pc = "save" => k.snap = n) /\ k.op = "add"
        /\ k.pc \in {"save", "resume"}
    BY <2>5
  <2>8. x \in Nat /\ made <= x /\ x <= made'
    BY <1>0, <2>1
  <2> HIDE DEF x
  <2> QED BY <1>0, <1>1, <2>1, <2>2, <2>4, <2>6, <2>7, <2>8
<1> QED BY <1>2, <1>3, <1>4 DEF Section

\* A step in which only the caller's record changes.
LEMMA CallerMoves ==
    ASSUME NEW c, Callers = {c}, KeepInv, NEW k, KeepAt(k),
           task' = [task EXCEPT ![c] = k],
           UNCHANGED <<mem, loaded, stored, made, acked, wiped, gone>>
    PROVE  /\ \A b \in Bg : task'[b] = Idle
           /\ Stable'
           /\ \A d \in Callers : KeepAt(task[d])'
<1>1. (\A b \in Bg : task'[b] = Idle) /\ \A d \in Callers : task'[d] = k
  BY OneTask DEF KeepInv
<1>2. Stable'
  BY DEF KeepInv, Stable, Kept, Promised
<1>3. \A d \in Callers : KeepAt(task[d])'
  BY <1>1 DEF KeepAt, Kept, Promised
<1> QED BY <1>1, <1>2, <1>3

LEMMA IdleKeeps == ASSUME TypeInv PROVE KeepAt(Idle)
BY MemoryAssumption DEF KeepAt, Idle, TypeInv, TypeOK

LEMMA KeepStep ==
    ASSUME NEW c, Callers = {c}, Background = FALSE, KeepInv, [Next]_vars
    PROVE  KeepInv'
<1> DEFINE Rest == /\ \A b \in Bg : task'[b] = Idle
                   /\ Stable'
                   /\ \A d \in Callers : KeepAt(task[d])'
           r == task[c]
<1> USE DEF history
<1>0. /\ TypeInv /\ TypeInv' /\ Stable /\ c \in Tasks /\ r \in Task /\ KeepAt(r)
      /\ task \in [Tasks -> Task] /\ mem \in Memory /\ Empty \in Memory
      /\ stored \in Memory \cup {NoSnapshot} /\ loaded \in BOOLEAN
      /\ made \in Nat /\ gone \in Nat /\ wiped \in Nat /\ acked \subseteq Turn
  <2>1. TypeInv /\ Stable /\ KeepAt(r) /\ c \in Tasks
    BY DEF KeepInv, Tasks
  <2>2. TypeInv'
    BY <2>1, TypeStep
  <2>3. TypeOK
    BY <2>1 DEF TypeInv
  <2>4. r \in Task /\ task \in [Tasks -> Task]
    BY <2>1, <2>3 DEF TypeOK
  <2>5. Empty \in Memory
    BY DEF Empty, Memory
  <2> QED BY <2>1, <2>2, <2>3, <2>4, <2>5 DEF TypeOK
<1>1. \A t \in Tasks : t = c \/ task[t] = Idle
  BY DEF KeepInv, Tasks
<1>2. SUFFICES Rest
  BY <1>0 DEF KeepInv
<1>3. ASSUME NEW k, KeepAt(k), task' = [task EXCEPT ![c] = k],
             UNCHANGED <<mem, loaded, stored, made, acked, wiped, gone>>
      PROVE  Rest
  BY <1>3, CallerMoves
<1>4. CASE Get(c)
  <2> DEFINE k == [Idle EXCEPT !.pc = "load", !.op = "get"]
  <2>1. KeepAt(k)
    BY <1>0, <1>4 DEF Get, KeepAt, Idle
  <2> QED BY <1>3, <1>4, <2>1 DEF Get
<1>5. ASSUME NEW m \in Memory, Kept(m), NEW q \in Task, q.turn <= made,
             q.op = "add" /\ q.pc = "resume" => q.turn \in Accounted(m),
             \/ Section(c, q, m)
             \/ q.op = "topic" /\ FlushSection(c, q, m)
             \/ SummarizeSection(c, q, m) /\ (q.op = "add" => q.pc = "resume") /\ q.op # "clear",
             loaded', stored' = stored
      PROVE  Rest
  BY <1>5, SectionKeeps
<1>6. ASSUME NEW op \in {"add", "flush", "summarize"}, Begin(c, op)
      PROVE  Rest
  <2> DEFINE q == [Idle EXCEPT !.op = op]
             k == [q EXCEPT !.pc = "load"]
  <2>1. q \in Task /\ q.turn <= made /\ q.pc = "idle" /\ q.op = op
    BY <1>0, IdleType DEF Idle, Task, Ops, CallKinds
  <2>2. CASE loaded /\ Section(c, q, mem)
    <3>1. Kept(mem)
      BY <1>0, <2>2 DEF Stable
    <3>2. loaded' /\ stored' = stored
      BY <1>6, <2>2 DEF Begin
    <3> HIDE DEF q
    <3> QED BY <1>0, <1>5, <2>1, <2>2, <3>1, <3>2
  <2>3. CASE ~loaded /\ task' = [task EXCEPT ![c] = k]
             /\ UNCHANGED <<mem, made, acked, wiped, gone>>
    <3>1. KeepAt(k)
      BY <1>0, <2>3 DEF KeepAt, Idle
    <3> QED BY <1>3, <1>6, <2>3, <3>1 DEF Begin
  <2> QED BY <1>6, <2>2, <2>3 DEF Begin
<1>7. ASSUME mem' = Empty, UNCHANGED <<stored, made, acked, gone>>,
             \/ wiped' = made
             \/ wiped' = wiped /\ ~loaded'
      PROVE  Stable'
  <2>1. Accounted(Empty) = {}
    BY DEF Accounted, Empty, Elements
  <2>2. CASE wiped' = made
    <3>1. \A x \in acked : x \in Int /\ x <= made
      BY <1>0 DEF Stable, Turn
    <3>2. acked' = acked /\ wiped' = made
      BY <1>7, <2>2
    <3>3. Promised' = {}
      BY <1>0, <3>1, <3>2 DEF Promised
    <3> QED BY <1>0, <1>7, <2>1, <3>3 DEF Stable, Kept
  <2>3. CASE wiped' = wiped /\ ~loaded'
    <3>1. Promised' = Promised
      BY <1>7, <2>3 DEF Promised
    <3> QED BY <1>0, <1>7, <2>3, <3>1 DEF Stable, Kept
  <2> QED BY <1>7, <2>2, <2>3
<1>8. CASE Clear(c)
  <2> DEFINE k == Saving([Idle EXCEPT !.op = "clear", !.turn = made], Empty, "return")
  <2>1. /\ task' = [task EXCEPT ![c] = k] /\ mem' = Empty /\ wiped' = made
        /\ UNCHANGED <<loaded, stored, made, acked, gone>>
    BY <1>8 DEF Clear
  <2>2. (\A b \in Bg : task'[b] = Idle) /\ \A d \in Callers : task'[d] = k
    BY <1>0, <2>1, OneTask DEF KeepInv
  <2>3. Promised' = {} /\ Accounted(Empty) = {}
    BY <1>0, <2>1 DEF Promised, Stable, Turn, Accounted, Empty, Elements
  <2>4. /\ k.pc = "save" /\ k.op = "clear" /\ k.next = "return" /\ k.snap = Empty
        /\ k.turn = made
    BY DEF Saving, Idle
  <2> HIDE DEF k
  <2>5. \A d \in Callers : KeepAt(task[d])'
    BY <1>0, <2>1, <2>2, <2>3, <2>4 DEF KeepAt, Kept
  <2> QED BY <1>7, <2>1, <2>2, <2>5
<1>9. CASE Evaluate(c)
  <2> DEFINE k == [Idle EXCEPT !.pc = "judge", !.op = "topic"]
  <2>1. KeepAt(k)
    BY <1>0, <1>9 DEF Evaluate, KeepAt, Idle
  <2> QED BY <1>3, <1>9, <2>1 DEF Evaluate
<1>10. CASE NewTopic(c)
  <2>1. /\ r.pc = "judge" /\ FlushSection(c, r, mem)
        /\ UNCHANGED <<loaded, stored>>
    BY <1>10 DEF NewTopic
  <2>2. r.op = "topic" /\ loaded /\ r.turn <= made
    BY <1>0, <2>1 DEF KeepAt, TypeInv, WellPlaced
  <2>3. Kept(mem)
    BY <1>0, <2>2 DEF Stable
  <2> HIDE DEF r
  <2> QED BY <1>0, <1>5, <2>1, <2>2, <2>3
<1>11. ASSUME task' = [task EXCEPT ![c] = Idle],
              UNCHANGED <<mem, loaded, stored, made, acked, wiped, gone>>
       PROVE  Rest
  BY <1>0, <1>3, <1>11, IdleKeeps
<1>22. ASSUME r.pc = "save", stored' = r.snap, UNCHANGED <<made, acked, wiped, gone>>,
              UNCHANGED <<mem, loaded>> \/ (mem' = Empty /\ ~loaded')
       PROVE  Stable'
  <2>1. r.snap = mem /\ Kept(mem)
    BY <1>0, <1>22 DEF KeepAt
  <2>2. mem # NoSnapshot
    BY <1>0, SnapshotAssumption
  <2> QED BY <1>0, <1>22, <2>1, <2>2 DEF Stable, Kept, Promised
<1>23. ASSUME task' = [task EXCEPT ![c] = Idle], MaybeStored(c),
              UNCHANGED <<mem, loaded, made, acked, wiped, gone>>
       PROVE  Rest
  <2>1. CASE stored' = stored
    BY <1>11, <1>23, <2>1
  <2>2. CASE r.pc = "save" /\ stored' = r.snap
    <3>1. (\A b \in Bg : task'[b] = Idle) /\ \A d \in Callers : task'[d] = Idle
      BY <1>0, <1>23, OneTask DEF KeepInv
    <3>2. KeepAt(Idle)'
      BY <1>0, MemoryAssumption DEF KeepAt, Idle, TypeInv, TypeOK
    <3>3. Stable'
      BY <1>22, <1>23, <2>2
    <3> QED BY <3>1, <3>2, <3>3
  <2> QED BY <1>23, <2>1, <2>2 DEF MaybeStored
<1>12. CASE SameTopic(c) \/ Cancel(c) \/ LoadFail(c) \/ SaveFail(c)
  BY <1>11, <1>12, <1>23 DEF SameTopic, Cancel, LoadFail, SaveFail, Abort
<1>13. CASE BackendRead(c)
  <2> DEFINE k == [r EXCEPT !.pc = "reply", !.snap = stored]
  <2>1. KeepAt(k)
    BY <1>0, <1>13 DEF BackendRead, KeepAt, Task
  <2> QED BY <1>3, <1>13, <2>1 DEF BackendRead
<1>14. CASE LoadFinish(c)
  <2> DEFINE m == Hydrate(mem, r.snap)
             q == [Idle EXCEPT !.op = r.op]
  <2>1. r.pc = "reply" /\ r.snap = stored /\ loaded' /\ stored' = stored /\ mem = Empty
    BY <1>0, <1>14 DEF LoadFinish, KeepAt, Stable
  <2>2. m \in Memory /\ Kept(m)
    <3>1. stored # NoSnapshot => Kept(stored)
      BY <1>0 DEF Stable
    <3>2. Accounted(Empty) = {}
      BY DEF Accounted, Empty, Elements
    <3>3. stored = NoSnapshot => Kept(Empty)
      BY <1>0, <3>2 DEF Stable, Kept
    <3> QED BY <1>0, <2>1, <3>1, <3>3 DEF Hydrate
  <2>3. q \in Task /\ q.turn <= made /\ q.pc = "idle" /\ q.op = r.op
    BY <1>0, IdleType DEF Idle, Task
  <2>4. CASE Section(c, q, m)
    <3> HIDE DEF m, q
    <3> QED BY <1>0, <1>5, <2>1, <2>2, <2>3, <2>4
  <2>5. CASE /\ mem' = m /\ task' = [task EXCEPT ![c] = Idle]
             /\ UNCHANGED <<made, acked, wiped, gone>>
    <3>1. (\A b \in Bg : task'[b] = Idle) /\ \A d \in Callers : task'[d] = Idle
      BY <1>0, <2>5, OneTask DEF KeepInv
    <3>2. KeepAt(Idle)'
      BY <1>0, IdleKeeps, MemoryAssumption DEF KeepAt, Idle, TypeInv, TypeOK
    <3> HIDE DEF m
    <3>3. Stable'
      BY <1>0, <2>1, <2>2, <2>5 DEF Stable, Kept, Promised
    <3> QED BY <3>1, <3>2, <3>3
  <2> QED BY <1>14, <2>4, <2>5 DEF LoadFinish
<1>15. CASE Resume(c)
  <2>1. /\ r.pc = "resume" /\ SummarizeSection(c, r, mem)
        /\ UNCHANGED <<loaded, stored>>
    BY <1>15 DEF Resume
  <2>2. /\ r.op # "clear" /\ loaded /\ r.turn <= made
        /\ r.op = "add" => r.turn \in Accounted(mem)
    BY <1>0, <2>1 DEF KeepAt
  <2>3. Kept(mem)
    BY <1>0, <2>2 DEF Stable
  <2> HIDE DEF r
  <2> QED BY <1>0, <1>5, <2>1, <2>2, <2>3
<1>16. CASE SummarizeFinish(c)
  <2> DEFINE m == FoldInto(mem, r.prev, r.fold)
             next == IF r.op = "add" THEN "save" ELSE "return"
             k == Saving(r, m, next)
  <2>1. /\ r.pc = "llm" /\ mem' = m /\ task' = [task EXCEPT ![c] = k]
        /\ UNCHANGED <<loaded, stored, made, acked, wiped, gone>>
    BY <1>16 DEF SummarizeFinish
  <2>2. /\ r.prev = mem.l4 /\ r.fold = Elements(mem.l3) /\ loaded /\ r.op # "clear"
        /\ r.turn <= made /\ (r.op = "add" => r.turn \in Accounted(mem))
    BY <1>0, <2>1 DEF KeepAt
  <2>3. r.prev \in SUBSET Turn /\ r.fold \in SUBSET Turn
    BY <1>0 DEF Task
  <2>4. m \in Memory /\ Accounted(m) = Accounted(mem)
    <3>1. m \in Memory /\ Accounted(m) = Elements(mem.l2) \cup Elements(mem.l3) \cup r.prev \cup r.fold
      BY <1>0, <2>3, FoldProperties
    <3> HIDE DEF m
    <3>2. Accounted(m) = Elements(mem.l2) \cup Elements(mem.l3) \cup mem.l4
      BY <2>2, <3>1
    <3> QED BY <3>1, <3>2 DEF Accounted
  <2>5. Kept(m)
    BY <1>0, <2>2, <2>4 DEF Stable, Kept
  <2>6. k.pc = "save" /\ k.snap = m /\ k.op = r.op /\ k.turn = r.turn
    BY <1>0 DEF Saving, Task
  <2> HIDE DEF m, k
  <2>7. (\A b \in Bg : task'[b] = Idle) /\ \A d \in Callers : task'[d] = k
    BY <1>0, <2>1, OneTask DEF KeepInv
  <2>8. Kept(mem)'
    BY <2>1, <2>5 DEF Kept, Promised
  <2>9. Stable'
    BY <1>0, <2>1, <2>2, <2>8 DEF Stable, Kept, Promised
  <2>10. /\ k.turn <= made' /\ k.snap = mem' /\ k.pc = "save" /\ k.op # "clear" /\ loaded'
         /\ k.op = "add" => k.turn \in Accounted(mem')
    BY <2>1, <2>2, <2>4, <2>6
  <2>11. \A d \in Callers : KeepAt(task[d])'
    BY <2>7, <2>8, <2>10 DEF KeepAt
  <2> QED BY <2>7, <2>9, <2>11
<1>17. CASE SummarizeFail(c)
  <2> DEFINE k == Saving(r, mem, "return")
  <2>1. r.pc = "llm"
    BY <1>17 DEF SummarizeFail
  <2>2. Kept(mem)
    BY <1>0, <2>1 DEF KeepAt, Stable
  <2>3. KeepAt(k)
    BY <1>0, <2>1, <2>2 DEF Saving, KeepAt, Task
  <2>4. CASE task' = [task EXCEPT ![c] = k]
    BY <1>3, <1>17, <2>3, <2>4 DEF SummarizeFail
  <2>5. CASE task' = [task EXCEPT ![c] = Idle]
    BY <1>11, <1>17, <2>5 DEF SummarizeFail
  <2> QED BY <1>17, <2>4, <2>5 DEF SummarizeFail
<1>18. CASE SaveFinish(c)
  <2>1. /\ r.pc = "save" /\ stored' = r.snap
        /\ UNCHANGED <<mem, loaded, made, wiped>>
    BY <1>18 DEF SaveFinish
  <2>2. /\ r.snap = mem /\ Kept(mem) /\ r.turn <= made
        /\ r.op = "clear" => mem = Empty /\ r.next = "return"
        /\ r.op # "clear" => loaded
        /\ r.op = "add" => r.turn \in Accounted(mem)
    BY <1>0, <2>1 DEF KeepAt
  <2>3. mem # NoSnapshot
    BY <1>0, SnapshotAssumption
  <2>4. CASE Return(c)
    <3>1. (\A b \in Bg : task'[b] = Idle) /\ \A d \in Callers : task'[d] = Idle
      BY <1>0, <2>4, OneTask DEF KeepInv, Return
    <3>2. KeepAt(Idle)'
      BY <1>0, IdleKeeps, MemoryAssumption DEF KeepAt, Idle, TypeInv, TypeOK
    <3>3. \A x \in Promised' : x \in Accounted(mem)
      BY <2>1, <2>2, <2>4 DEF Return, Promised, Kept
    <3>4. gone' = gone \/ (gone' = r.turn /\ Accounted(mem) = {})
      BY <2>2, <2>4 DEF Return, Accounted, Empty, Elements
    <3>5. Kept(mem)'
      BY <2>1, <2>2, <3>3, <3>4 DEF Kept
    <3>6. \A x \in acked' : x <= made'
      BY <1>0, <2>1, <2>2, <2>4 DEF Return, Stable
    <3>7. gone' <= made'
      BY <1>0, <2>1, <2>2, <3>4 DEF Stable
    <3>8. Stable'
      BY <1>0, <2>1, <2>2, <2>3, <3>5, <3>6, <3>7 DEF Stable, Kept
    <3> QED BY <3>1, <3>2, <3>8
  <2>5. ASSUME NEW k, task' = [task EXCEPT ![c] = k], UNCHANGED <<acked, gone>>,
               r.next # "return", k.op = r.op, k.turn = r.turn,
               \/ k.pc = "save" /\ k.snap = mem
               \/ k.pc = "resume"
        PROVE  Rest
    <3>1. (\A b \in Bg : task'[b] = Idle) /\ \A d \in Callers : task'[d] = k
      BY <1>0, <2>5, OneTask DEF KeepInv
    <3>2. Kept(mem)'
      BY <2>1, <2>2, <2>5 DEF Kept, Promised
    <3>3. \A d \in Callers : KeepAt(task[d])'
      BY <2>1, <2>2, <2>5, <3>1, <3>2 DEF KeepAt
    <3>4. Stable'
      BY <1>0, <2>1, <2>2, <2>3, <2>5, <3>2 DEF Stable, Kept, Promised
    <3> QED BY <3>1, <3>3, <3>4
  <2>6. CASE /\ r.next = "save" /\ task' = [task EXCEPT ![c] = Saving(r, mem, "return")]
             /\ UNCHANGED <<acked, gone>>
    <3> DEFINE k == Saving(r, mem, "return")
    <3>1. k.op = r.op /\ k.turn = r.turn /\ k.pc = "save" /\ k.snap = mem
      BY <1>0 DEF Saving, Task
    <3> HIDE DEF k
    <3> QED BY <2>5, <2>6, <3>1 DEF k
  <2>7. CASE /\ r.next = "summarize" /\ task' = [task EXCEPT ![c] = [r EXCEPT !.pc = "resume"]]
             /\ UNCHANGED <<acked, gone>>
    <3> DEFINE k == [r EXCEPT !.pc = "resume"]
    <3>1. k.op = r.op /\ k.turn = r.turn /\ k.pc = "resume"
      BY <1>0 DEF Task
    <3> HIDE DEF k
    <3> QED BY <2>5, <2>7, <3>1 DEF k
  <2> QED BY <1>18, <2>4, <2>6, <2>7 DEF SaveFinish
<1>19. CASE Crash
  <2>1. \A t \in Tasks : task'[t] = Idle
    BY <1>19 DEF Crash
  <2>2. KeepAt(Idle)'
    BY <1>0, MemoryAssumption DEF KeepAt, Idle, TypeInv, TypeOK
  <2>3. CASE stored' = stored
    <3>1. Stable'
      BY <1>7, <1>19, <2>3 DEF Crash
    <3> QED BY <2>1, <2>2, <3>1 DEF Tasks
  <2>4. ASSUME NEW t \in Tasks, task[t].pc = "save", stored' = task[t].snap
        PROVE  Rest
    <3>1. t = c
      BY <1>1, <2>4 DEF Idle
    <3>2. Stable'
      BY <1>19, <1>22, <2>4, <3>1 DEF Crash
    <3> QED BY <2>1, <2>2, <3>2 DEF Tasks
  <2> QED BY <1>19, <2>3, <2>4 DEF Crash, MaybeStored
<1>20. CASE UNCHANGED vars
  BY <1>20 DEF vars, KeepInv, Stable, KeepAt, Kept, Promised
<1>21. ASSUME NEW t \in Tasks, Answer(t) \/ Failure(t)
       PROVE  Rest
  <2>1. task[t].pc # "idle"
    BY <1>21 DEF Answer, Failure, BackendRead, LoadFinish, Resume, SummarizeFinish,
                 SaveFinish, LoadFail, SummarizeFail, SaveFail
  <2>2. t = c
    BY <1>1, <2>1 DEF Idle
  <2> QED BY <1>12, <1>13, <1>14, <1>15, <1>16, <1>17, <1>18, <1>21, <2>2 DEF Answer, Failure
<1> QED
  BY <1>4, <1>6, <1>8, <1>9, <1>10, <1>12, <1>19, <1>20, <1>21 DEF Next, Call

LEMMA KeepInit == Init => KeepInv
<1> SUFFICES ASSUME Init PROVE KeepInv
  OBVIOUS
<1>1. TypeInv
  BY TypeInit
<1>2. \A t \in Tasks : KeepAt(task[t])
  BY <1>1, IdleKeeps DEF Init
<1>3. Stable
  BY DEF Init, Stable, Promised
<1> QED BY <1>1, <1>2, <1>3 DEF KeepInv, Tasks, Init

\* One request at a time, foreground summaries: after any failure,
\* cancellation, clear and restart the acknowledged turns are accounted for.
THEOREM OneCallerKeeps ==
    ASSUME NEW c, Callers = {c}, Background = FALSE
    PROVE  Spec => []AckedKept
<1>1. KeepInv => AckedKept
  BY DEF KeepInv, Stable, Kept, AckedKept
<1>2. KeepInv /\ [Next]_vars => KeepInv'
  BY KeepStep
<1> QED BY <1>1, <1>2, KeepInit, PTL DEF Spec

\* Under the same conditions nothing a returned clear wiped comes back.
THEOREM OneCallerClears ==
    ASSUME NEW c, Callers = {c}, Background = FALSE
    PROVE  Spec => []ClearedStays
<1>1. KeepInv => ClearedStays
  BY DEF KeepInv, Stable, Kept, ClearedStays
<1>2. KeepInv /\ [Next]_vars => KeepInv'
  BY KeepStep
<1> QED BY <1>1, <1>2, KeepInit, PTL DEF Spec

\* Under the same conditions the backend holds what add_turn acknowledged.
THEOREM OneCallerSaves ==
    ASSUME NEW c, Callers = {c}, Background = FALSE
    PROVE  Spec => []SavedOnReturn
<1>1. KeepInv => SavedOnReturn
  BY DEF KeepInv, Stable, Kept, SavedOnReturn
<1>2. KeepInv /\ [Next]_vars => KeepInv'
  BY KeepStep
<1> QED BY <1>1, <1>2, KeepInit, PTL DEF Spec

=============================================================================
