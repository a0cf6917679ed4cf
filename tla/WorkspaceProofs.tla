-------------------------- MODULE WorkspaceProofs --------------------------
(***************************************************************************)
(* Proofs about Workspace, for any sessions, directories, sections, texts  *)
(* and both backends: a workspace that is opened again holds what was      *)
(* stored in it, and a result that is read back by the hints is read whole. *)
(***************************************************************************)
EXTENDS Workspace, FiniteSetTheorems, SequenceTheorems, TLAPS

Closed(c) == {s \in Sessions : c[s] = 0}
Held(h) == {u \in Users : h[u] # Nobody}
Bound == MaxEnters + Cardinality(Sessions)

\* A dictionary more is a session less without one, or a clean-up; and a clean-up
\* ends a section.
CountInv ==
    /\ Len(results) <= MaxResults
    /\ dicts + Cardinality(Closed(current)) + Cardinality(Held(handle))
         <= Cardinality(Sessions) + enters

\* No two sessions have one dictionary, and those not made yet are empty.
SpaceInv ==
    /\ \A s, t \in Sessions : current[s] = current[t] /\ current[s] # 0 => s = t
    /\ backend = "memory" => \A x \in 1..Bound : x > dicts => stores[x] = Empty

\* A section holds the files of its own session only.
HandleInv ==
    \A u \in Users : handle[u] # Nobody =>
        /\ backend = "disk" => handle[u].store = dir[handle[u].session]
        /\ backend = "memory" =>
             /\ handle[u].store \in 1..dicts
             /\ \A t \in Sessions : current[t] = handle[u].store => t = handle[u].session

\* The file of an offloaded result holds that result, wherever it is.
OffloadInv ==
    \A x \in Store, n \in 0..MaxResults :
        stores[x][<<"out", n>>] # NoText =>
            /\ n \in DOMAIN results /\ results[n].given = "reference"
            /\ stores[x][<<"out", n>>] = results[n].text

Pos(i) == IF i > 0 THEN i ELSE 0

\* The model has read a result it has the reference of, from where it began to
\* where it stands.
ReaderOK(r, res) ==
    LET whole == res[r.of].text
        start == Pos(r.from)
        at    == Pos(r.next)
    IN  /\ r.of \in DOMAIN res /\ res[r.of].given = "reference"
        /\ r.pc \in {"reading", "end"} =>
             /\ start <= at
             /\ at <= Len(whole) \/ at = start
             /\ r.text = SubSeq(whole, start + 1, at)
        /\ r.pc = "end" => Len(whole) <= at

ReaderInv ==
    /\ reader.pc # "idle" => ReaderOK(reader, results)
    /\ reader.pc = "missing" => kept[results[reader.of].session][<<"out", reader.of>>] = NoText

IInv == TypeOK /\ CountInv /\ SpaceInv /\ HandleInv /\ Kept /\ OffloadInv /\ ReaderInv

-----------------------------------------------------------------------------
(* Numbers, texts and files.                                               *)

LEMMA MaxZero == \A i \in Int : Max({0, i}) = Pos(i)
<1> SUFFICES ASSUME NEW i \in Int PROVE Max({0, i}) = Pos(i)
  OBVIOUS
<1>1. Pos(i) \in {0, i} /\ \A y \in {0, i} : Pos(i) >= y
  BY DEF Pos
<1>2. \A x \in {0, i} : (\A y \in {0, i} : x >= y) => x = Pos(i)
  BY DEF Pos
<1> QED BY <1>1, <1>2 DEF Max

LEMMA MinTwo == \A i, j \in Int : Min({i, j}) = IF i <= j THEN i ELSE j
<1> SUFFICES ASSUME NEW i \in Int, NEW j \in Int PROVE Min({i, j}) = IF i <= j THEN i ELSE j
  OBVIOUS
<1> DEFINE m == IF i <= j THEN i ELSE j
<1>1. m \in {i, j} /\ \A y \in {i, j} : m <= y
  OBVIOUS
<1>2. \A x \in {i, j} : (\A y \in {i, j} : x <= y) => x = m
  OBVIOUS
<1> QED BY <1>1, <1>2 DEF Min

LEMMA FilePaths ==
    /\ \A n \in 0..MaxResults : <<"out", n>> \in Path
    /\ \A f \in File, n \in 0..MaxResults : <<"file", f>> # <<"out", n>>
    /\ \A f \in File : <<"file", f>> \in Path
  BY DEF Path

LEMMA CharsAreText ==
    ASSUME NEW n \in Int, NEW len \in Nat
    PROVE  [i \in 1..len |-> <<n, i>>] \in Text /\ Len([i \in 1..len |-> <<n, i>>]) = len
<1>1. \A i \in 1..len : <<n, i>> \in Int \X Int
  OBVIOUS
<1> QED BY <1>1 DEF Text

LEMMA BoundIsNat == Cardinality(Sessions) \in Nat /\ Bound \in Nat /\ MaxEnters \in Nat
  BY FS_CardinalityType, WorkspaceAssumption DEF Bound

LEMMA ResultTypes ==
    ASSUME TypeOK, NEW n \in DOMAIN results
    PROVE  /\ n \in 1..Len(results) /\ results[n].session \in Sessions /\ results[n].text \in Text
           /\ Len(results[n].text) \in Nat
           /\ results[n].given \in {"whole", "reference", "head"}
<1> DEFINE R == [session : Sessions, text : Text, given : {"whole", "reference", "head"}]
<1>1. results \in Seq(R)
  BY DEF TypeOK
<1> HIDE DEF R
<1>2. n \in 1..Len(results) /\ results[n] \in R
  BY <1>1
<1>3. /\ results[n].session \in Sessions /\ results[n].text \in Text
      /\ results[n].given \in {"whole", "reference", "head"}
  BY <1>2 DEF R
<1>4. Len(results[n].text) \in Nat
  BY <1>3 DEF Text
<1> QED BY <1>2, <1>3, <1>4

LEMMA EmptyIsText == Empty \in [Path -> Text \cup {NoText}] /\ \A p \in Path : Empty[p] = NoText
  BY DEF Empty

-----------------------------------------------------------------------------
(* The sets that are counted.                                              *)

LEMMA ClosedCounts ==
    \A c : IsFiniteSet(Closed(c)) /\ Cardinality(Closed(c)) \in Nat
<1> SUFFICES ASSUME NEW c PROVE IsFiniteSet(Closed(c))
  BY FS_CardinalityType
<1>1. Closed(c) \in SUBSET Sessions
  BY DEF Closed
<1> QED BY <1>1, FS_Subset, WorkspaceAssumption

LEMMA HeldCounts ==
    \A h : IsFiniteSet(Held(h)) /\ Cardinality(Held(h)) \in Nat
<1> SUFFICES ASSUME NEW h PROVE IsFiniteSet(Held(h))
  BY FS_CardinalityType
<1>1. Held(h) \in SUBSET Users
  BY DEF Held
<1> QED BY <1>1, FS_Subset, WorkspaceAssumption

\* The two counts of CountInv are numbers, before and after a step.
LEMMA CountsAreNat ==
    /\ Cardinality(Closed(current)) \in Nat /\ Cardinality(Closed(current')) \in Nat
    /\ Cardinality(Held(handle)) \in Nat /\ Cardinality(Held(handle')) \in Nat
BY ClosedCounts, HeldCounts

\* A sum that grows no more than its bound stays below it.
LEMMA SumKept ==
    ASSUME NEW p \in Int, NEW q \in Int, NEW n \in Int, NEW e \in Int, NEW f \in Int,
           p <= n + e, q - f <= p - e
    PROVE  q <= n + f
OBVIOUS

\* CountInv holds again after a step that does not add to the count more than to
\* the bound.
LEMMA CountsKept ==
    ASSUME CountInv, dicts \in Int, dicts' \in Int, enters \in Int, enters' \in Int,
           Len(results') <= MaxResults,
           (dicts' + Cardinality(Closed(current')) + Cardinality(Held(handle'))) - enters'
             <= (dicts + Cardinality(Closed(current)) + Cardinality(Held(handle))) - enters
    PROVE  CountInv'
<1> DEFINE a == Cardinality(Closed(current))
           b == Cardinality(Held(handle))
           c == Cardinality(Closed(current'))
           d == Cardinality(Held(handle'))
           n == Cardinality(Sessions)
           p == dicts + a + b
           q == dicts' + c + d
<1>1. a \in Int /\ b \in Int /\ c \in Int /\ d \in Int /\ n \in Int
  BY CountsAreNat, BoundIsNat
<1>2. p \in Int /\ q \in Int
  <2> HIDE DEF a, b, c, d
  <2> QED BY <1>1
<1>3. /\ p <= n + enters
      /\ q - enters' <= p - enters
  <2>1. p <= n + enters
    BY DEF CountInv
  <2>2. q - enters' <= p - enters
    OBVIOUS
  <2> QED BY <2>1, <2>2
<1>4. q <= n + enters'
  <2> HIDE DEF n, p, q
  <2> QED BY <1>1, <1>2, <1>3, SumKept
<1> QED BY <1>4 DEF CountInv

\* The numbers of dictionaries made stay within the bound of the stores.
LEMMA DictsBounded ==
    ASSUME TypeOK, CountInv
    PROVE  /\ dicts \in Nat /\ dicts <= Bound
           /\ Cardinality(Closed(current)) # 0 => dicts + 1 <= Bound
<1>1. dicts \in Nat /\ enters \in 0..MaxEnters
  BY DEF TypeOK
<1>2. dicts + Cardinality(Closed(current)) + Cardinality(Held(handle)) <= Cardinality(Sessions) + enters
  BY DEF CountInv
<1>3. Bound = MaxEnters + Cardinality(Sessions)
  BY DEF Bound
<1> DEFINE a == Cardinality(Closed(current))
           b == Cardinality(Held(handle))
           n == Cardinality(Sessions)
<1>4. a \in Nat /\ b \in Nat /\ n \in Nat /\ MaxEnters \in Nat
  BY CountsAreNat, BoundIsNat
<1>5. dicts <= MaxEnters + n /\ (a # 0 => dicts + 1 <= MaxEnters + n)
  <2> HIDE DEF a, b, n
  <2>1. dicts + a + b <= n + enters
    BY <1>2 DEF a, b, n
  <2>2. dicts \in Nat /\ enters \in Nat /\ enters <= MaxEnters
    BY <1>1, <1>4
  <2> QED BY <1>4, <2>1, <2>2
<1> QED BY <1>1, <1>3, <1>5

\* A session that gets a dictionary is one less without.
LEMMA ClosedLess ==
    ASSUME NEW c \in [Sessions -> Nat], NEW s \in Sessions, c[s] = 0, NEW x \in Nat \ {0}
    PROVE  Cardinality(Closed([c EXCEPT ![s] = x])) = Cardinality(Closed(c)) - 1
<1>1. Closed([c EXCEPT ![s] = x]) = Closed(c) \ {s} /\ s \in Closed(c)
  BY DEF Closed
<1> QED BY <1>1, ClosedCounts, FS_RemoveElement

LEMMA ClosedMore ==
    ASSUME NEW c \in [Sessions -> Nat], NEW s \in Sessions
    PROVE  Cardinality(Closed([c EXCEPT ![s] = 0])) <= Cardinality(Closed(c)) + 1
<1> DEFINE C == Closed(c)
           D == Closed([c EXCEPT ![s] = 0])
<1>1. D = C \cup {s}
  BY DEF Closed
<1>2. IsFiniteSet(C) /\ Cardinality(C) \in Nat
  BY ClosedCounts
<1> HIDE DEF C, D
<1>3. D = C \/ Cardinality(D) = Cardinality(C) + 1
  BY <1>1, <1>2, FS_AddElement
<1>4. Cardinality(D) <= Cardinality(C) + 1
  BY <1>2, <1>3
<1> QED BY <1>4 DEF C, D

LEMMA HeldMore ==
    ASSUME NEW h, DOMAIN h = Users, h = [u \in Users |-> h[u]],
           NEW u \in Users, h[u] = Nobody, NEW x
    PROVE  Cardinality(Held([h EXCEPT ![u] = x])) <= Cardinality(Held(h)) + 1
<1>1. CASE x = Nobody
  <2>1. Held([h EXCEPT ![u] = x]) = Held(h)
    BY <1>1 DEF Held
  <2> QED BY <2>1, HeldCounts
<1>2. CASE x # Nobody
  <2>1. Held([h EXCEPT ![u] = x]) = Held(h) \cup {u}
    BY <1>2 DEF Held
  <2> QED BY <2>1, HeldCounts, FS_AddElement
<1> QED BY <1>1, <1>2

LEMMA HeldLess ==
    ASSUME NEW h, DOMAIN h = Users, h = [u \in Users |-> h[u]],
           NEW u \in Users, h[u] # Nobody
    PROVE  Cardinality(Held([h EXCEPT ![u] = Nobody])) = Cardinality(Held(h)) - 1
<1>1. Held([h EXCEPT ![u] = Nobody]) = Held(h) \ {u} /\ u \in Held(h)
  BY DEF Held
<1> QED BY <1>1, HeldCounts, FS_RemoveElement

-----------------------------------------------------------------------------
(* Opening a workspace.                                                    *)

\* What open gives is one of the stores, and what it finds there is what the
\* session has; no other session has it.
LEMMA OpensFacts ==
    ASSUME TypeOK, CountInv, SpaceInv, NEW s \in Sessions
    PROVE  /\ Opens(s) \in Store
           /\ stores[Opens(s)] = Found(s)
           /\ backend = "disk" => Opens(s) = dir[s]
           /\ backend = "memory" =>
                /\ Opens(s) \in 1..(dicts + 1) /\ Opens(s) \in 1..Bound
                /\ \A t \in Sessions : current[t] = Opens(s) => t = s
<1>1. CASE backend = "disk"
  <2>1. Opens(s) = dir[s] /\ dir[s] \in Dir
    BY <1>1 DEF Opens, TypeOK
  <2> QED BY <1>1, <2>1 DEF Found, Store
<1>2. CASE backend = "memory"
  <2> USE <1>2
  <2>1. backend # "disk" /\ current[s] \in 0..dicts /\ dicts \in Nat /\ enters \in 0..MaxEnters
    BY DEF TypeOK
  <2>2. \A x \in 1..Bound : x \in Store
    BY DEF Store, Bound
  <2>3. dicts <= Bound
    BY DictsBounded
  <2>4. CASE current[s] = 0
    <3>1. Opens(s) = dicts + 1
      BY <2>1, <2>4 DEF Opens
    <3>2. Cardinality(Closed(current)) # 0
      <4>1. s \in Closed(current)
        BY <2>4 DEF Closed
      <4> QED BY <4>1, ClosedCounts, FS_EmptySet
    <3>3. dicts + 1 <= Bound
      BY <3>2, DictsBounded
    <3>4. dicts + 1 \in 1..Bound
      BY <2>1, <3>3, BoundIsNat
    <3>5. stores[dicts + 1] = Empty
      BY <3>4, <2>1 DEF SpaceInv
    <3>6. \A t \in Sessions : current[t] # dicts + 1
      BY <2>1 DEF TypeOK
    <3>7. Found(s) = Empty
      BY <2>1, <2>4 DEF Found
    <3> QED BY <2>1, <2>2, <3>1, <3>4, <3>5, <3>6, <3>7
  <2>5. CASE current[s] # 0
    <3>1. Opens(s) = current[s] /\ Found(s) = stores[current[s]]
      BY <2>1, <2>5 DEF Opens, Found
    <3>2. current[s] \in 1..(dicts + 1) /\ current[s] \in 1..Bound
      BY <2>1, <2>3, <2>5, BoundIsNat
    <3>3. \A t \in Sessions : current[t] = current[s] => t = s
      BY <2>5 DEF SpaceInv
    <3> QED BY <2>1, <2>2, <3>1, <3>2, <3>3
  <2> QED BY <2>4, <2>5
<1> QED BY <1>1, <1>2 DEF TypeOK

\* Opening gives a session its dictionary, leaves those of the others alone and
\* changes nothing of what is stored.
LEMMA OpenedFacts ==
    ASSUME TypeOK, CountInv, SpaceInv, NEW s \in Sessions, Opened(s)
    PROVE  /\ current' \in [Sessions -> 0..dicts'] /\ dicts' \in Nat /\ dicts <= dicts'
           /\ dicts' + Cardinality(Closed(current')) <= dicts + Cardinality(Closed(current))
           /\ \A t, v \in Sessions : current'[t] = current'[v] /\ current'[t] # 0 => t = v
           /\ \A t \in Sessions : t # s => current'[t] = current[t]
           /\ backend = "memory" => current'[s] = Opens(s) /\ Opens(s) \in 1..dicts'
           /\ \A t \in Sessions : current'[t] \in 1..dicts => current'[t] = current[t]
<1>1. current \in [Sessions -> 0..dicts] /\ dicts \in Nat
  BY DEF TypeOK
<1>2. \A t, v \in Sessions : current[t] = current[v] /\ current[t] # 0 => t = v
  BY DEF SpaceInv
<1>3. CASE UNCHANGED <<current, dicts>> /\ backend = "disk"
  BY <1>1, <1>2, <1>3, ClosedCounts
<1>4. CASE UNCHANGED <<current, dicts>> /\ backend = "memory" /\ current[s] # 0 /\ Opens(s) = current[s]
  <2>1. current[s] \in 1..dicts
    BY <1>1, <1>4
  <2> QED BY <1>1, <1>2, <1>4, <2>1, ClosedCounts
<1>5. CASE /\ backend = "memory" /\ current[s] = 0 /\ Opens(s) = dicts + 1
           /\ current' = [current EXCEPT ![s] = dicts + 1] /\ dicts' = dicts + 1
  <2>1. current \in [Sessions -> Nat] /\ dicts + 1 \in Nat \ {0} /\ dicts' \in Nat
    BY <1>1, <1>5
  <2>2. Cardinality(Closed(current')) = Cardinality(Closed(current)) - 1
    BY <1>5, <2>1, ClosedLess
  <2>3. /\ current' \in [Sessions -> 0..(dicts + 1)] /\ current'[s] = dicts + 1
        /\ \A t \in Sessions : t # s => current'[t] = current[t]
    BY <1>1, <1>5
  <2>4. \A t \in Sessions : t # s => current'[t] # dicts + 1
    BY <1>1, <2>3
  <2>5. \A t, v \in Sessions : current'[t] = current'[v] /\ current'[t] # 0 => t = v
    BY <1>2, <2>3, <2>4
  <2>6. dicts + 1 \in 1..(dicts + 1) /\ dicts + 1 \notin 1..dicts /\ dicts <= dicts + 1
    BY <1>1
  <2>7. dicts' + Cardinality(Closed(current')) <= dicts + Cardinality(Closed(current))
    BY <1>1, <1>5, <2>2, ClosedCounts
  <2> QED BY <1>5, <2>1, <2>3, <2>5, <2>6, <2>7
<1>6. \/ UNCHANGED <<current, dicts>> /\ backend = "disk"
      \/ UNCHANGED <<current, dicts>> /\ backend = "memory" /\ current[s] # 0 /\ Opens(s) = current[s]
      \/ /\ backend = "memory" /\ current[s] = 0 /\ Opens(s) = dicts + 1
         /\ current' = [current EXCEPT ![s] = dicts + 1] /\ dicts' = dicts + 1
  <2>1. CASE backend = "disk"
    BY <2>1 DEF Opened
  <2>2. CASE backend = "memory" /\ current[s] # 0
    <3>1. Opens(s) = current[s] /\ ~(current[s] > dicts)
      BY <1>1, <2>2 DEF Opens
    <3>2. current' = [current EXCEPT ![s] = current[s]] /\ dicts' = dicts
      BY <2>2, <3>1 DEF Opened
    <3> QED BY <1>1, <2>2, <3>1, <3>2
  <2>3. CASE backend = "memory" /\ current[s] = 0
    <3>1. Opens(s) = dicts + 1 /\ dicts + 1 > dicts
      BY <1>1, <2>3 DEF Opens
    <3> QED BY <2>3, <3>1 DEF Opened
  <2> QED BY <2>1, <2>2, <2>3 DEF TypeOK
<1> QED BY <1>3, <1>4, <1>5, <1>6

\* What is kept after a change: f at p for the sessions whose workspace it is.
LEMMA KeepFacts ==
    ASSUME TypeOK, NEW S, NEW p \in Path, NEW f \in Text \cup {NoText}, kept' = Keep(S, p, f)
    PROVE  /\ kept' \in [Sessions -> [Path -> Text \cup {NoText}]]
           /\ \A t \in Sessions, q \in Path :
                kept'[t][q] = IF t \in S /\ q = p THEN f ELSE kept[t][q]
<1>1. \A t \in Sessions : kept[t] \in [Path -> Text \cup {NoText}]
  BY DEF TypeOK
<1>2. \A t \in Sessions : [kept[t] EXCEPT ![p] = f] \in [Path -> Text \cup {NoText}]
  BY <1>1
<1> QED BY <1>1, <1>2 DEF Keep

\* Whether opening only looks or a file is stored or removed at once: the session
\* finds what is kept, and the sections hold their own session's files.
LEMMA OpenedInv ==
    ASSUME TypeOK, CountInv, SpaceInv, HandleInv, Kept, UNCHANGED config,
           NEW s \in Sessions, Opened(s),
           NEW p \in Path, NEW f \in Text \cup {NoText},
           \/ stores' = stores /\ kept' = kept
           \/ stores' = [stores EXCEPT ![Opens(s)][p] = f] /\ kept' = Keep(Owners(Opens(s)) \cup {s}, p, f)
    PROVE  /\ SpaceInv' /\ Kept'
           /\ \A u \in Users : handle[u] # Nobody /\ backend = "memory" =>
                /\ handle[u].store \in 1..dicts'
                /\ \A t \in Sessions : current'[t] = handle[u].store => t = handle[u].session
<1> DEFINE o == Opens(s)
           S == Owners(Opens(s)) \cup {s}
<1>1. /\ o \in Store /\ stores[o] = Found(s)
      /\ backend = "disk" => o = dir[s]
      /\ backend = "memory" => /\ o \in 1..(dicts + 1)
                              /\ \A t \in Sessions : current[t] = o => t = s
  BY OpensFacts
<1>2. /\ current' \in [Sessions -> 0..dicts'] /\ dicts' \in Nat /\ dicts <= dicts'
      /\ \A t, v \in Sessions : current'[t] = current'[v] /\ current'[t] # 0 => t = v
      /\ \A t \in Sessions : t # s => current'[t] = current[t]
      /\ backend = "memory" => current'[s] = o /\ o \in 1..dicts'
      /\ \A t \in Sessions : current'[t] \in 1..dicts => current'[t] = current[t]
  BY OpenedFacts
<1>3. /\ \A x \in Store : stores[x] \in [Path -> Text \cup {NoText}]
      /\ current \in [Sessions -> 0..dicts] /\ dicts \in Nat
      /\ backend \in {"disk", "memory"} /\ backend' = backend /\ dir' = dir
      /\ dir \in [Sessions -> Dir]
  BY DEF TypeOK, config
<1>4. \A x \in Store : x # o => stores'[x] = stores[x]
  BY <1>1 DEF TypeOK
<1>5. \/ stores'[o] = stores[o] /\ kept' = kept
      \/ stores'[o] = [stores[o] EXCEPT ![p] = f] /\ kept' = Keep(S, p, f)
  BY <1>1 DEF TypeOK
<1>6. \A x \in 1..Bound : x \in Store
  BY DEF Store, Bound
<1>6a. \A t \in Sessions : t \in S <=> IF backend = "disk" THEN dir[t] = dir[s] ELSE t = s
  BY <1>1, <1>3 DEF Owners
<1> HIDE DEF o, S
<1>6b. kept' = Keep(S, p, f) =>
         \A t \in Sessions, q \in Path : kept'[t][q] = IF t \in S /\ q = p THEN f ELSE kept[t][q]
  BY KeepFacts
<1>7. SpaceInv'
  <2>1. ASSUME backend = "memory", NEW x \in 1..Bound, x > dicts' PROVE stores'[x] = Empty
    <3>1. x # o /\ x > dicts /\ x \in Store
      BY <2>1, <1>2, <1>3, <1>6, BoundIsNat
    <3> QED BY <2>1, <3>1, <1>4 DEF SpaceInv
  <2>2. Bound' = Bound /\ Empty' = Empty
    BY DEF Bound, Empty
  <2> QED BY <1>2, <1>3, <2>1, <2>2 DEF SpaceInv
<1>8. ASSUME NEW u \in Users, handle[u] # Nobody, backend = "memory"
      PROVE  /\ handle[u].store \in 1..dicts'
             /\ \A t \in Sessions : current'[t] = handle[u].store => t = handle[u].session
  <2>1. /\ handle[u].store \in 1..dicts
        /\ \A t \in Sessions : current[t] = handle[u].store => t = handle[u].session
    BY <1>8 DEF HandleInv
  <2>2. handle[u].store \in 1..dicts'
    BY <2>1, <1>2, <1>3
  <2> QED BY <2>1, <2>2, <1>2
<1>9. \A t \in Sessions, q \in Path : kept[t][q] # NoText => Found(t)[q] = kept[t][q]
  BY DEF Kept
<1>10. ASSUME NEW t \in Sessions, NEW q \in Path, kept'[t][q] # NoText
       PROVE  Found(t)'[q] = kept'[t][q]
  <2>1. CASE backend = "disk"
    <3>1. /\ Found(t)' = stores'[dir[t]] /\ Found(t) = stores[dir[t]]
          /\ dir[t] \in Store /\ o = dir[s]
      BY <2>1, <1>1, <1>3 DEF Found, Store
    <3>2. t \in S <=> dir[t] = dir[s]
      BY <2>1, <1>6a
    <3>3. CASE stores'[o] = stores[o] /\ kept' = kept
      BY <1>4, <1>9, <1>10, <3>1, <3>3
    <3>4. CASE stores'[o] = [stores[o] EXCEPT ![p] = f] /\ kept' = Keep(S, p, f)
      <4>1. kept'[t][q] = IF t \in S /\ q = p THEN f ELSE kept[t][q]
        BY <1>6b, <3>4
      <4>2. o \in Store /\ stores[o] \in [Path -> Text \cup {NoText}]
        BY <1>1, <1>3
      <4>3. dir[t] = o => stores'[dir[t]][q] = IF q = p THEN f ELSE stores[dir[t]][q]
        BY <3>4, <4>2
      <4> QED BY <1>4, <1>9, <1>10, <3>1, <3>2, <4>1, <4>3
    <3> QED BY <1>5, <3>3, <3>4
  <2>2. CASE backend = "memory" /\ t = s
    <3>1. Found(t)' = stores'[o] /\ Found(t) = stores[o]
      BY <2>2, <1>1, <1>2, <1>3 DEF Found
    <3>2. CASE stores'[o] = stores[o] /\ kept' = kept
      BY <1>9, <1>10, <3>1, <3>2
    <3>3. CASE stores'[o] = [stores[o] EXCEPT ![p] = f] /\ kept' = Keep(S, p, f)
      <4>1. kept'[t][q] = IF q = p THEN f ELSE kept[t][q]
        BY <2>2, <3>3, <1>6a, <1>6b
      <4>2. stores'[o][q] = IF q = p THEN f ELSE stores[o][q]
        BY <3>3, <1>1, <1>3
      <4> QED BY <1>9, <1>10, <3>1, <4>1, <4>2
    <3> QED BY <1>5, <3>2, <3>3
  <2>3. CASE backend = "memory" /\ t # s
    <3>1. current'[t] = current[t] /\ current[t] # o /\ current[t] \in 0..dicts
      BY <2>3, <1>1, <1>2, <1>3
    <3>2. Found(t)' = Found(t)
      <4>1. CASE current[t] = 0
        BY <2>3, <3>1, <4>1, <1>3 DEF Found, Empty
      <4>2. CASE current[t] # 0
        <5>1. current[t] \in Store
          <6>1. dicts <= Bound
            BY DictsBounded
          <6> QED BY <3>1, <4>2, <6>1, <1>3, <1>6, BoundIsNat
        <5> QED BY <2>3, <3>1, <4>2, <5>1, <1>3, <1>4 DEF Found
      <4> QED BY <4>1, <4>2
    <3>3. kept'[t][q] = kept[t][q]
      <4>1. t \notin S
        BY <2>3, <1>6a
      <4> QED BY <4>1, <1>5, <1>6b
    <3> QED BY <1>9, <1>10, <3>2, <3>3
  <2> QED BY <1>3, <2>1, <2>2, <2>3
<1>11. Kept'
  BY <1>10 DEF Kept, Path
<1> QED BY <1>7, <1>8, <1>11

-----------------------------------------------------------------------------
LEMMA InitInv == Init => IInv
<1> SUFFICES ASSUME Init PROVE IInv
  OBVIOUS
<1> USE WorkspaceAssumption
<1>1. /\ \A x \in Store : stores[x] = Empty
      /\ \A s \in Sessions : current[s] = 0 /\ kept[s] = Empty
      /\ \A u \in Users : handle[u] = Nobody
      /\ dicts = 0 /\ enters = 0 /\ results = << >> /\ reader = NotReading
  BY DEF Init
<1>2. TypeOK
  <2>1. stores \in [Store -> [Path -> Text \cup {NoText}]] /\ kept \in [Sessions -> [Path -> Text \cup {NoText}]]
    BY EmptyIsText DEF Init
  <2>2. reader \in [of : 0..MaxResults, from : Int, next : Int, text : Text,
                   pc : {"idle", "reading", "end", "missing"}]
    BY <1>1 DEF NotReading, Text
  <2>3. /\ current \in [Sessions -> 0..dicts] /\ dicts \in Nat
        /\ handle \in [Users -> [session : Sessions, store : Store, cleanup : BOOLEAN] \cup {Nobody}]
        /\ enters \in 0..MaxEnters /\ writes \in 0..MaxWrites
    BY DEF Init
  <2>4. backend \in {"disk", "memory"} /\ dir \in [Sessions -> Dir]
    BY DEF Init
  <2> QED BY <1>1, <2>1, <2>2, <2>3, <2>4 DEF TypeOK
<1>3. CountInv
  <2>1. Closed(current) = Sessions
    BY <1>1 DEF Closed
  <2>2. Held(handle) = {}
    BY <1>1 DEF Held
  <2> QED BY <1>1, <2>1, <2>2, FS_EmptySet, BoundIsNat DEF CountInv
<1>4. SpaceInv
  <2>1. \A x \in 1..Bound : x \in Store
    BY DEF Store, Bound
  <2> QED BY <1>1, <2>1 DEF SpaceInv
<1>5. HandleInv
  BY <1>1 DEF HandleInv
<1>6. Kept
  BY <1>1, EmptyIsText DEF Kept
<1>7. OffloadInv
  BY <1>1, EmptyIsText, FilePaths DEF OffloadInv
<1>8. ReaderInv
  BY <1>1 DEF ReaderInv, NotReading
<1> QED BY <1>2, <1>3, <1>4, <1>5, <1>6, <1>7, <1>8 DEF IInv

-----------------------------------------------------------------------------
(* The sections.                                                           *)

LEMMA EnterStep ==
    ASSUME IInv, NEW u \in Users, NEW s \in Sessions, NEW cleanup \in BOOLEAN,
           Enter(u, s, cleanup)
    PROVE  IInv'
<1> USE DEF IInv
<1> DEFINE h == [session |-> s, store |-> Opens(s), cleanup |-> cleanup]
<1>1. /\ handle[u] = Nobody /\ enters < MaxEnters /\ enters' = enters + 1
      /\ handle' = [handle EXCEPT ![u] = h] /\ Opened(s)
      /\ UNCHANGED <<backend, dir, stores, results, reader, kept, writes>>
  BY DEF Enter, config
<1>2. /\ Opens(s) \in Store
      /\ backend = "disk" => Opens(s) = dir[s]
  BY OpensFacts
<1>3. /\ current' \in [Sessions -> 0..dicts'] /\ dicts' \in Nat
      /\ dicts' + Cardinality(Closed(current')) <= dicts + Cardinality(Closed(current))
      /\ \A t, v \in Sessions : current'[t] = current'[v] /\ current'[t] # 0 => t = v
      /\ backend = "memory" => current'[s] = Opens(s) /\ Opens(s) \in 1..dicts'
  BY <1>1, OpenedFacts
<1>4. /\ SpaceInv' /\ Kept'
      /\ \A v \in Users : handle[v] # Nobody /\ backend = "memory" =>
           /\ handle[v].store \in 1..dicts'
           /\ \A t \in Sessions : current'[t] = handle[v].store => t = handle[v].session
  <2>1. 0 \in 0..MaxResults
    BY WorkspaceAssumption
  <2> QED BY <1>1, <2>1, FilePaths, OpenedInv DEF config
<1>5. h \in [session : Sessions, store : Store, cleanup : BOOLEAN]
  BY <1>2
<1>6. /\ handle' \in [Users -> [session : Sessions, store : Store, cleanup : BOOLEAN] \cup {Nobody}]
      /\ handle'[u] = h /\ \A v \in Users : v # u => handle'[v] = handle[v]
  BY <1>1, <1>5 DEF TypeOK
<1>7. TypeOK'
  <2>1. enters' \in 0..MaxEnters
    BY <1>1, WorkspaceAssumption DEF TypeOK
  <2> QED BY <1>1, <1>3, <1>6, <2>1 DEF TypeOK, Path, Store, Text, Nobody
<1>8. CountInv'
  <2>1. Cardinality(Held(handle')) <= Cardinality(Held(handle)) + 1
    <3>1. handle = [v \in Users |-> handle[v]] /\ DOMAIN handle = Users
      BY DEF TypeOK
    <3> HIDE DEF h
    <3> QED BY <1>1, <3>1, HeldMore
  <2>2. enters \in Nat /\ dicts \in Nat
    BY DEF TypeOK
  <2>5. (dicts' + Cardinality(Closed(current')) + Cardinality(Held(handle'))) - enters'
          <= (dicts + Cardinality(Closed(current)) + Cardinality(Held(handle))) - enters
    BY <1>1, <1>3, <2>1, <2>2, CountsAreNat
  <2>6. dicts \in Int /\ dicts' \in Int /\ enters \in Int /\ enters' \in Int /\ Len(results') <= MaxResults
    BY <1>1, <1>3, <2>2 DEF CountInv
  <2> QED BY <2>5, <2>6, CountsKept
<1>9. HandleInv'
  <2> SUFFICES ASSUME NEW v \in Users, handle'[v] # Nobody
               PROVE  /\ backend = "disk" => handle'[v].store = dir[handle'[v].session]
                      /\ backend = "memory" =>
                           /\ handle'[v].store \in 1..dicts'
                           /\ \A t \in Sessions : current'[t] = handle'[v].store => t = handle'[v].session
    BY <1>1 DEF HandleInv, Nobody
  <2>1. CASE v = u
    <3>1. handle'[v].store = Opens(s) /\ handle'[v].session = s
      BY <2>1, <1>6
    <3> QED BY <3>1, <1>2, <1>3
  <2>2. CASE v # u
    BY <2>2, <1>4, <1>6 DEF HandleInv
  <2> QED BY <2>1, <2>2
<1>10. OffloadInv'
  BY <1>1 DEF OffloadInv, Store
<1>11. ReaderInv'
  BY <1>1 DEF ReaderInv, ReaderOK, Pos
<1> QED BY <1>4, <1>7, <1>8, <1>9, <1>10, <1>11

\* write and remove: what a section changes is not the file of another result.
LEMMA ChangeStep ==
    ASSUME IInv, NEW u \in Users, NEW x \in Store, NEW p \in Path, NEW f \in Text \cup {NoText},
           Change(u, x, p, f),
           f = NoText \/ (\A n \in 0..MaxResults : p # <<"out", n>>),
           writes' \in 0..MaxWrites
    PROVE  IInv'
<1> USE DEF IInv
<1>1. /\ handle[u] # Nobody /\ x \in Reachable(u)
      /\ stores' = [stores EXCEPT ![x] = [stores[x] EXCEPT ![p] = f]]
      /\ kept' = Keep(Owners(x), p, f)
      /\ UNCHANGED <<backend, dir, current, dicts, handle, results, reader, enters>>
  BY DEF Change, config
<1>2. /\ x \in Store
      /\ backend = "memory" => x \in 1..dicts
  BY <1>1 DEF Reachable, HandleInv
<1>3. /\ stores[x] \in [Path -> Text \cup {NoText}] /\ current \in [Sessions -> 0..dicts] /\ dicts \in Nat
      /\ dir \in [Sessions -> Dir] /\ backend \in {"disk", "memory"}
  BY <1>2 DEF TypeOK
<1>4. stores' \in [Store -> [Path -> Text \cup {NoText}]]
  BY <1>1, <1>2, <1>3 DEF TypeOK
<1>5. kept' \in [Sessions -> [Path -> Text \cup {NoText}]]
  BY <1>1, KeepFacts
<1>6. \A y \in Store, q \in Path :
        stores'[y][q] = IF y = x /\ q = p THEN f ELSE stores[y][q]
  BY <1>1, <1>2, <1>3 DEF TypeOK
<1>7. TypeOK'
  BY <1>1, <1>4, <1>5 DEF TypeOK, Path, Store, Text, Nobody
<1>8. CountInv'
  BY <1>1 DEF CountInv
<1>9. HandleInv'
  BY <1>1 DEF HandleInv, Nobody
<1>10. SpaceInv'
  <2>1. \A y \in 1..Bound : y \in Store
    BY DEF Store, Bound
  <2>2. backend = "memory" => \A y \in 1..Bound : y > dicts => y # x
    BY <1>2, <1>3, BoundIsNat
  <2>3. \A y \in Store : y # x => stores'[y] = stores[y]
    BY <1>1 DEF TypeOK
  <2> QED BY <1>1, <2>1, <2>2, <2>3 DEF SpaceInv, Bound, Empty, Path
<1>10a. Kept'
  <2> SUFFICES ASSUME NEW t \in Sessions, NEW q \in Path, kept'[t][q] # NoText
               PROVE  Found(t)'[q] = kept'[t][q]
    BY DEF Kept, Path
  <2>1. kept'[t][q] = IF t \in Owners(x) /\ q = p THEN f ELSE kept[t][q]
    BY <1>1, KeepFacts
  <2>2. kept[t][q] # NoText => Found(t)[q] = kept[t][q]
    BY DEF Kept
  <2>3. Found(t)'[q] = IF t \in Owners(x) /\ q = p THEN f ELSE Found(t)[q]
    <3>1. CASE backend = "disk"
      <4>1. Found(t) = stores[dir[t]] /\ Found(t)' = stores'[dir[t]] /\ dir[t] \in Store
        BY <1>1, <1>3, <3>1 DEF Found, Store
      <4>2. t \in Owners(x) <=> dir[t] = x
        BY <3>1 DEF Owners
      <4> QED BY <1>6, <4>1, <4>2
    <3>2. CASE backend = "memory" /\ current[t] = 0
      <4>1. t \notin Owners(x)
        BY <1>2, <1>3, <3>2 DEF Owners
      <4> QED BY <1>1, <3>2, <4>1 DEF Found, Empty, Path
    <3>3. CASE backend = "memory" /\ current[t] # 0
      <4>1. current[t] \in Store
        <5>1. dicts <= Bound /\ \A y \in 1..Bound : y \in Store
          BY DictsBounded DEF Store, Bound
        <5> QED BY <3>3, <5>1, <1>3, BoundIsNat
      <4>2. Found(t) = stores[current[t]] /\ Found(t)' = stores'[current[t]]
        BY <1>1, <3>3 DEF Found
      <4>3. t \in Owners(x) <=> current[t] = x
        BY <3>3 DEF Owners
      <4> QED BY <1>6, <4>1, <4>2, <4>3
    <3> QED BY <1>3, <3>1, <3>2, <3>3
  <2> QED BY <2>1, <2>2, <2>3
<1>11. OffloadInv'
  <2> SUFFICES ASSUME NEW y \in Store, NEW n \in 0..MaxResults, stores'[y][<<"out", n>>] # NoText
               PROVE  stores'[y][<<"out", n>>] = stores[y][<<"out", n>>]
    BY <1>1 DEF OffloadInv, Store
  <2> QED BY <1>6, FilePaths
<1>12. ReaderInv'
  <2>1. reader.pc = "missing" => kept'[results[reader.of].session][<<"out", reader.of>>] = NoText
    <3> SUFFICES ASSUME reader.pc = "missing" 
                 PROVE  kept'[results[reader.of].session][<<"out", reader.of>>] = NoText
      OBVIOUS
    <3>1. /\ reader.of \in DOMAIN results /\ reader.of \in 0..MaxResults
          /\ kept[results[reader.of].session][<<"out", reader.of>>] = NoText
      BY DEF ReaderInv, ReaderOK, TypeOK
    <3>2. results[reader.of].session \in Sessions /\ <<"out", reader.of>> \in Path
      BY <3>1, ResultTypes, FilePaths
    <3>3. f = NoText \/ p # <<"out", reader.of>>
      BY <3>1
    <3> DEFINE t == results[reader.of].session
               q == <<"out", reader.of>>
    <3> HIDE DEF t, q
    <3>4. kept'[t][q] = IF t \in Owners(x) /\ q = p THEN f ELSE kept[t][q]
      <4>1. t \in Sessions /\ q \in Path
        BY <3>2 DEF t, q
      <4> QED BY <1>1, <4>1, KeepFacts
    <3> QED BY <3>1, <3>3, <3>4 DEF t, q
  <2> QED BY <1>1, <2>1 DEF ReaderInv, ReaderOK, Pos
<1> QED BY <1>7, <1>8, <1>9, <1>10, <1>10a, <1>11, <1>12

LEMMA ExitStep ==
    ASSUME IInv, NEW u \in Users, Exit(u)
    PROVE  IInv'
<1> USE DEF IInv
<1> DEFINE s == handle[u].session
<1>1. /\ handle[u] # Nobody /\ handle' = [handle EXCEPT ![u] = Nobody]
      /\ IF handle[u].cleanup THEN Cleanup(s) ELSE UNCHANGED <<stores, current, dicts, kept>>
      /\ UNCHANGED <<backend, dir, results, reader, enters, writes>>
  BY DEF Exit, config, space
<1>2. s \in Sessions
  BY <1>1 DEF TypeOK
<1> HIDE DEF s
<1>3. /\ handle' \in [Users -> [session : Sessions, store : Store, cleanup : BOOLEAN] \cup {Nobody}]
      /\ \A v \in Users : handle'[v] # Nobody => handle'[v] = handle[v]
  BY <1>1 DEF TypeOK
<1> DEFINE below == IF backend = "disk" THEN Under(dir[s]) ELSE {}
<1>4. /\ dicts' = dicts
      /\ \/ UNCHANGED <<stores, current, kept>>
         \/ /\ \E gone \in SUBSET below :
                 stores' = [x \in Store |-> IF x \in gone THEN Empty ELSE stores[x]]
            /\ current' = IF backend = "memory" THEN [current EXCEPT ![s] = 0] ELSE current
            /\ kept' = [t \in Sessions |-> IF t = s \/ dir[t] \in below THEN Empty ELSE kept[t]]
  BY <1>1 DEF Cleanup, s
<1>5. /\ stores \in [Store -> [Path -> Text \cup {NoText}]] /\ current \in [Sessions -> 0..dicts]
      /\ kept \in [Sessions -> [Path -> Text \cup {NoText}]] /\ dicts \in Nat
      /\ dir \in [Sessions -> Dir] /\ backend \in {"disk", "memory"}
  BY DEF TypeOK
<1>5a. backend = "memory" => below = {}
  OBVIOUS
<1> HIDE DEF below
<1>6. /\ stores' \in [Store -> [Path -> Text \cup {NoText}]]
      /\ \A x \in Store : stores'[x] = stores[x] \/ (x \in below /\ stores'[x] = Empty)
  <2>1. CASE stores' = stores
    BY <1>5, <2>1
  <2>2. ASSUME NEW gone \in SUBSET below,
               stores' = [x \in Store |-> IF x \in gone THEN Empty ELSE stores[x]]
        PROVE  /\ stores' \in [Store -> [Path -> Text \cup {NoText}]]
               /\ \A x \in Store : stores'[x] = stores[x] \/ (x \in below /\ stores'[x] = Empty)
    BY <2>2, <1>5, EmptyIsText
  <2> QED BY <1>4, <2>1, <2>2
<1>7. /\ current' \in [Sessions -> 0..dicts']
      /\ \A t \in Sessions : current'[t] = current[t] \/ (backend = "memory" /\ t = s /\ current'[t] = 0)
  BY <1>2, <1>4, <1>5
<1>8. /\ kept' \in [Sessions -> [Path -> Text \cup {NoText}]]
      /\ \A t \in Sessions : kept'[t] = kept[t] \/ kept'[t] = Empty
  BY <1>4, <1>5, EmptyIsText
<1>9. TypeOK'
  BY <1>1, <1>3, <1>4, <1>5, <1>6, <1>7, <1>8 DEF TypeOK, Path, Store, Text, Nobody
<1>10. CountInv'
  <2>1. Cardinality(Held(handle')) = Cardinality(Held(handle)) - 1
    <3>1. handle = [v \in Users |-> handle[v]] /\ DOMAIN handle = Users
      BY DEF TypeOK
    <3> QED BY <1>1, <3>1, HeldLess
  <2>2. Cardinality(Closed(current')) <= Cardinality(Closed(current)) + 1
    <3>1. current \in [Sessions -> Nat]
      BY <1>5
    <3>2. CASE current' = current
      BY <3>2, ClosedCounts
    <3>3. CASE current' = [current EXCEPT ![s] = 0]
      BY <3>1, <3>3, <1>2, ClosedMore
    <3> QED BY <1>4, <3>2, <3>3
  <2>3. enters \in Nat
    BY DEF TypeOK
  <2>5. (dicts' + Cardinality(Closed(current')) + Cardinality(Held(handle'))) - enters'
          <= (dicts + Cardinality(Closed(current)) + Cardinality(Held(handle))) - enters
    BY <1>1, <1>4, <1>5, <2>1, <2>2, <2>3, CountsAreNat
  <2>6. dicts \in Int /\ dicts' \in Int /\ enters \in Int /\ enters' \in Int /\ Len(results') <= MaxResults
    BY <1>1, <1>4, <1>5, <2>3 DEF CountInv
  <2> QED BY <2>5, <2>6, CountsKept
<1>11. SpaceInv'
  <2>1. \A x \in 1..Bound : x \in Store
    BY DEF Store, Bound
  <2>2. \A t, v \in Sessions : current'[t] = current'[v] /\ current'[t] # 0 => t = v
    BY <1>7 DEF SpaceInv
  <2>3. backend = "memory" => \A x \in 1..Bound : x > dicts => stores'[x] = Empty
    BY <1>5a, <1>6, <2>1 DEF SpaceInv
  <2> QED BY <1>1, <1>4, <2>2, <2>3 DEF SpaceInv, Bound, Empty, Path
<1>12. HandleInv'
  <2> SUFFICES ASSUME NEW v \in Users, handle'[v] # Nobody
               PROVE  /\ backend = "disk" => handle'[v].store = dir[handle'[v].session]
                      /\ backend = "memory" =>
                           /\ handle'[v].store \in 1..dicts
                           /\ \A t \in Sessions : current'[t] = handle'[v].store => t = handle'[v].session
    BY <1>1, <1>4 DEF HandleInv, Nobody
  <2>1. handle'[v] = handle[v]
    BY <1>3
  <2>2. backend = "memory" => handle[v].store # 0
    BY <2>1, <1>5 DEF HandleInv
  <2> QED BY <2>1, <2>2, <1>7 DEF HandleInv
<1>13. Kept'
  <2> SUFFICES ASSUME NEW t \in Sessions, NEW q \in Path, kept'[t][q] # NoText
               PROVE  Found(t)'[q] = kept'[t][q]
    BY DEF Kept, Path
  <2>1. kept'[t] = kept[t]
    BY <1>8, EmptyIsText
  <2>2. Found(t)[q] = kept[t][q]
    BY <2>1 DEF Kept
  <2>3. CASE kept' = kept /\ UNCHANGED <<stores, current>>
    BY <1>1, <2>1, <2>2, <2>3 DEF Found, Empty
  <2>4. CASE t # s /\ dir[t] \notin below
    <3>1. CASE backend = "disk"
      <4>1. dir[t] \in Store
        BY <1>5 DEF Store
      <4>2. stores'[dir[t]] = stores[dir[t]]
        BY <2>4, <4>1, <1>6
      <4> QED BY <1>1, <2>1, <2>2, <3>1, <4>2 DEF Found
    <3>2. CASE backend = "memory"
      <4>1. current'[t] = current[t]
        BY <2>4, <3>2, <1>7
      <4>2. CASE current[t] = 0
        BY <1>1, <2>1, <2>2, <3>2, <4>1, <4>2 DEF Found, Empty, Path
      <4>3. CASE current[t] # 0
        <5>1. current[t] \in Store
          <6>1. dicts <= Bound /\ \A y \in 1..Bound : y \in Store
            BY DictsBounded DEF Store, Bound
          <6> QED BY <4>3, <6>1, <1>5, BoundIsNat
        <5>2. stores'[current[t]] = stores[current[t]]
          BY <3>2, <5>1, <1>5a, <1>6
        <5> QED BY <1>1, <2>1, <2>2, <3>2, <4>1, <4>3, <5>2 DEF Found
      <4> QED BY <4>2, <4>3
    <3> QED BY <3>1, <3>2, <1>5
  <2>5. CASE /\ t = s \/ dir[t] \in below
             /\ kept' = [v \in Sessions |-> IF v = s \/ dir[v] \in below THEN Empty ELSE kept[v]]
    <3>1. kept'[t] = Empty
      BY <2>5
    <3> QED BY <3>1, EmptyIsText
  <2> QED BY <1>4, <2>3, <2>4, <2>5
<1>14. OffloadInv'
  <2> SUFFICES ASSUME NEW y \in Store, NEW n \in 0..MaxResults, stores'[y][<<"out", n>>] # NoText
               PROVE  stores'[y][<<"out", n>>] = stores[y][<<"out", n>>]
    BY <1>1 DEF OffloadInv, Store
  <2> QED BY <1>6, EmptyIsText, FilePaths
<1>15. ReaderInv'
  <2>1. reader.pc = "missing" => kept'[results[reader.of].session][<<"out", reader.of>>] = NoText
    <3> SUFFICES ASSUME reader.pc = "missing"
                 PROVE  kept'[results[reader.of].session][<<"out", reader.of>>] = NoText
      OBVIOUS
    <3>1. /\ reader.of \in DOMAIN results /\ reader.of \in 0..MaxResults
          /\ kept[results[reader.of].session][<<"out", reader.of>>] = NoText
      BY DEF ReaderInv, ReaderOK, TypeOK
    <3>2. results[reader.of].session \in Sessions /\ <<"out", reader.of>> \in Path
      BY <3>1, ResultTypes, FilePaths
    <3> QED BY <3>1, <3>2, <1>8, EmptyIsText
  <2> QED BY <1>1, <2>1 DEF ReaderInv, ReaderOK, Pos
<1> QED BY <1>9, <1>10, <1>11, <1>12, <1>13, <1>14, <1>15

-----------------------------------------------------------------------------
(* Offload and read-back.                                                  *)

LEMMA OffloadStep ==
    ASSUME IInv, NEW s \in Sessions, NEW len \in Lengths, Offload(s, len)
    PROVE  IInv'
<1> USE DEF IInv
<1> DEFINE n == Len(results) + 1
           text == [i \in 1..len |-> <<n, i>>]
<1>1. /\ n <= MaxResults
      /\ UNCHANGED <<backend, dir, handle, reader, enters, writes>>
  BY DEF Offload, config
<1>2. \/ /\ Threshold <= 0 \/ len <= Threshold
         /\ results' = Append(results, [session |-> s, text |-> text, given |-> "whole"])
         /\ UNCHANGED <<stores, current, dicts, kept>>
      \/ /\ Threshold > 0 /\ len > Threshold
         /\ Opened(s)
         /\ stores' = [stores EXCEPT ![Opens(s)] = [stores[Opens(s)] EXCEPT ![<<"out", n>>] = text]]
         /\ kept' = Keep(Owners(Opens(s)) \cup {s}, <<"out", n>>, text)
         /\ results' = Append(results, [session |-> s, text |-> text, given |-> "reference"])
      \/ /\ Threshold > 0 /\ len > Threshold
         /\ Opened(s)
         /\ results' = Append(results, [session |-> s, text |-> Truncated(text), given |-> "head"])
         /\ UNCHANGED <<stores, kept>>
  BY DEF Offload, Result, OffloadKey, space
<1>3. results \in Seq([session : Sessions, text : Text, given : {"whole", "reference", "head"}])
  BY DEF TypeOK
<1>4. /\ Len(results) \in Nat /\ n \in Nat \ {0} /\ n \notin DOMAIN results /\ len \in Nat
      /\ DOMAIN results = 1..Len(results) /\ n \in 0..MaxResults /\ Threshold \in Int
      /\ <<"out", n>> \in Path
  <2>1. n \in 0..MaxResults /\ len \in Nat /\ Threshold \in Int
    BY <1>1, <1>3, WorkspaceAssumption
  <2> QED BY <1>3, <2>1, FilePaths
<1>5. text \in Text /\ Len(text) = len
  BY <1>4, CharsAreText
<1>6. len > Threshold /\ Threshold > 0 => Truncated(text) \in Text /\ Len(Truncated(text)) <= Threshold
  <2> HIDE DEF text
  <2> QED BY <1>4, <1>5 DEF Truncated, Text
<1> HIDE DEF text
\* The result at hand.
<1> DEFINE R == [session : Sessions, text : Text, given : {"whole", "reference", "head"}]
           Given(r) == /\ results' = Append(results, r)
                       /\ Threshold > 0 /\ r.given # "reference" => Len(r.text) <= Threshold
                       /\ \/ UNCHANGED <<stores, current, dicts, kept>>
                          \/ /\ Opened(s) /\ r.given = "reference" /\ r.text = text
                             /\ stores' = [stores EXCEPT ![Opens(s)] =
                                              [stores[Opens(s)] EXCEPT ![<<"out", n>>] = text]]
                             /\ kept' = Keep(Owners(Opens(s)) \cup {s}, <<"out", n>>, text)
                          \/ Opened(s) /\ UNCHANGED <<stores, kept>>
<1>7. \E r \in R : Given(r)
  <2>1. CASE /\ Threshold <= 0 \/ len <= Threshold
             /\ results' = Append(results, [session |-> s, text |-> text, given |-> "whole"])
             /\ UNCHANGED <<stores, current, dicts, kept>>
    <3>1. [session |-> s, text |-> text, given |-> "whole"] \in R
      BY <1>5
    <3>2. Given([session |-> s, text |-> text, given |-> "whole"])
      BY <2>1, <1>4, <1>5
    <3> HIDE DEF R, Given
    <3> QED BY <3>1, <3>2
  <2>2. CASE /\ Opened(s)
             /\ stores' = [stores EXCEPT ![Opens(s)] = [stores[Opens(s)] EXCEPT ![<<"out", n>>] = text]]
             /\ kept' = Keep(Owners(Opens(s)) \cup {s}, <<"out", n>>, text)
             /\ results' = Append(results, [session |-> s, text |-> text, given |-> "reference"])
    <3>1. [session |-> s, text |-> text, given |-> "reference"] \in R
      BY <1>5
    <3>2. Given([session |-> s, text |-> text, given |-> "reference"])
      BY <2>2
    <3> HIDE DEF R, Given
    <3> QED BY <3>1, <3>2
  <2>3. CASE /\ Threshold > 0 /\ len > Threshold
             /\ Opened(s)
             /\ results' = Append(results, [session |-> s, text |-> Truncated(text), given |-> "head"])
             /\ UNCHANGED <<stores, kept>>
    <3>1. [session |-> s, text |-> Truncated(text), given |-> "head"] \in R
      BY <2>3, <1>6
    <3>2. Given([session |-> s, text |-> Truncated(text), given |-> "head"])
      BY <2>3, <1>6
    <3> HIDE DEF R, Given
    <3> QED BY <3>1, <3>2
  <2> QED BY <1>2, <2>1, <2>2, <2>3
<1> PICK r \in R : Given(r)
  BY <1>7
<1>8. /\ results' \in Seq([session : Sessions, text : Text, given : {"whole", "reference", "head"}])
      /\ DOMAIN results' = 1..n /\ Len(results') = n /\ results'[n] = r
      /\ \A m \in DOMAIN results : m # n /\ results'[m] = results[m]
      /\ \A m \in 1..n : m \in DOMAIN results \/ m = n
  BY <1>3, <1>4
<1> HIDE DEF n
<1>9. Opened(s) =>
        /\ current' \in [Sessions -> 0..dicts'] /\ dicts' \in Nat
        /\ dicts' + Cardinality(Closed(current')) <= dicts + Cardinality(Closed(current))
  BY OpenedFacts
<1>10. /\ current' \in [Sessions -> 0..dicts'] /\ dicts' \in Nat
       /\ dicts' + Cardinality(Closed(current')) <= dicts + Cardinality(Closed(current))
  <2>1. CASE UNCHANGED <<current, dicts>>
    BY <2>1, ClosedCounts DEF TypeOK
  <2> QED BY <1>9, <2>1
<1>11. /\ SpaceInv' /\ Kept'
       /\ \A v \in Users : handle[v] # Nobody /\ backend = "memory" =>
            /\ handle[v].store \in 1..dicts'
            /\ \A t \in Sessions : current'[t] = handle[v].store => t = handle[v].session
  <2>1. CASE Opened(s) /\ UNCHANGED <<stores, kept>>
    BY <2>1, <1>1, <1>4, OpenedInv DEF config
  <2>2. CASE /\ Opened(s)
             /\ stores' = [stores EXCEPT ![Opens(s)] = [stores[Opens(s)] EXCEPT ![<<"out", n>>] = text]]
             /\ kept' = Keep(Owners(Opens(s)) \cup {s}, <<"out", n>>, text)
    BY <2>2, <1>1, <1>4, <1>5, OpenedInv DEF config
  <2>3. CASE UNCHANGED <<stores, current, dicts, kept>>
    BY <2>3, <1>1 DEF SpaceInv, Kept, Found, HandleInv, Bound, Empty, Path
  <2> QED BY <2>1, <2>2, <2>3
<1>12. Opens(s) \in Store
  BY OpensFacts
<1>13. /\ stores' \in [Store -> [Path -> Text \cup {NoText}]]
       /\ \A x \in Store, q \in Path : q # <<"out", n>> => stores'[x][q] = stores[x][q]
       /\ \A x \in Store : \/ stores'[x][<<"out", n>>] = stores[x][<<"out", n>>]
                           \/ r.given = "reference" /\ r.text = text /\ stores'[x][<<"out", n>>] = text
  <2>1. stores \in [Store -> [Path -> Text \cup {NoText}]]
    BY DEF TypeOK
  <2>2. CASE UNCHANGED stores
    BY <2>1, <2>2
  <2>3. CASE /\ r.given = "reference" /\ r.text = text
             /\ stores' = [stores EXCEPT ![Opens(s)] = [stores[Opens(s)] EXCEPT ![<<"out", n>>] = text]]
    <3>1. stores[Opens(s)] \in [Path -> Text \cup {NoText}]
      BY <2>1, <1>12
    <3>2. [stores[Opens(s)] EXCEPT ![<<"out", n>>] = text] \in [Path -> Text \cup {NoText}]
      BY <3>1, <1>4, <1>5
    <3> QED BY <2>1, <2>3, <3>1, <3>2, <1>4, <1>12
  <2> QED BY <2>2, <2>3
<1>14. /\ kept' \in [Sessions -> [Path -> Text \cup {NoText}]]
       /\ \A t \in Sessions, q \in Path : q # <<"out", n>> => kept'[t][q] = kept[t][q]
  <2>1. CASE UNCHANGED kept
    BY <2>1 DEF TypeOK
  <2>2. CASE kept' = Keep(Owners(Opens(s)) \cup {s}, <<"out", n>>, text)
    <3> DEFINE p == <<"out", n>>
               S == Owners(Opens(s)) \cup {s}
    <3> HIDE DEF p, S
    <3>1. p \in Path /\ kept' = Keep(S, p, text) /\ text \in Text \cup {NoText}
      BY <2>2, <1>4, <1>5 DEF p, S
    <3>2. \A t \in Sessions : /\ kept[t] \in [Path -> Text \cup {NoText}]
                              /\ [kept[t] EXCEPT ![p] = text] \in [Path -> Text \cup {NoText}]
      BY <3>1 DEF TypeOK
    <3>3. /\ kept' \in [Sessions -> [Path -> Text \cup {NoText}]]
          /\ \A t \in Sessions, q \in Path : q # p => kept'[t][q] = kept[t][q]
      BY <3>1, <3>2 DEF Keep
    <3> QED BY <3>3 DEF p
  <2> QED BY <2>1, <2>2
<1>15. TypeOK'
  <2>1. Threshold > 0 => \A m \in DOMAIN results' :
          results'[m].given # "reference" => Len(results'[m].text) <= Threshold
    BY <1>8 DEF TypeOK
  <2> QED BY <1>1, <1>8, <1>10, <1>13, <1>14, <2>1 DEF TypeOK, Path, Store, Text, Nobody
<1>16. CountInv'
  <2>1. dicts \in Nat /\ enters \in Nat
    BY DEF TypeOK
  <2>5. (dicts' + Cardinality(Closed(current')) + Cardinality(Held(handle'))) - enters'
          <= (dicts + Cardinality(Closed(current)) + Cardinality(Held(handle))) - enters
    BY <1>1, <1>10, <2>1, CountsAreNat
  <2>6. dicts \in Int /\ dicts' \in Int /\ enters \in Int /\ enters' \in Int /\ Len(results') <= MaxResults
    BY <1>1, <1>8, <1>10, <2>1 DEF n
  <2> QED BY <2>5, <2>6, CountsKept
<1>17. HandleInv'
  BY <1>1, <1>11 DEF HandleInv, Nobody
<1>18. OffloadInv'
  <2> SUFFICES ASSUME NEW x \in Store, NEW m \in 0..MaxResults, stores'[x][<<"out", m>>] # NoText
               PROVE  /\ m \in DOMAIN results' /\ results'[m].given = "reference"
                      /\ stores'[x][<<"out", m>>] = results'[m].text
    BY DEF OffloadInv, Store
  <2>1. CASE m = n
    <3>1. stores[x][<<"out", n>>] = NoText
      BY <2>1, <1>4 DEF OffloadInv
    <3>2. n \in 1..n
      BY <1>4
    <3> QED BY <2>1, <3>1, <3>2, <1>8, <1>13
  <2>2. CASE m # n
    <3>1. stores'[x][<<"out", m>>] = stores[x][<<"out", m>>]
      BY <2>2, <1>13, FilePaths
    <3>2. m \in DOMAIN results
      BY <3>1 DEF OffloadInv
    <3>3. m \in 1..n
      BY <3>2, <1>4 DEF n
    <3> QED BY <3>1, <3>2, <3>3, <1>8 DEF OffloadInv
  <2> QED BY <2>1, <2>2
<1>19. ReaderInv'
  <2> SUFFICES ASSUME reader.pc # "idle"
               PROVE  /\ ReaderOK(reader, results')
                      /\ reader.pc = "missing" =>
                           kept'[results'[reader.of].session][<<"out", reader.of>>] = NoText
    BY <1>1 DEF ReaderInv, ReaderOK, Pos
  <2>1. ReaderOK(reader, results) /\ reader.of \in DOMAIN results /\ reader.of \in 0..MaxResults
    BY DEF ReaderInv, ReaderOK, TypeOK
  <2>2. results'[reader.of] = results[reader.of] /\ reader.of # n /\ reader.of \in DOMAIN results'
    <3>1. reader.of \in 1..n
      BY <2>1, <1>4 DEF n
    <3> QED BY <2>1, <3>1, <1>8
  <2>3. results[reader.of].session \in Sessions /\ <<"out", reader.of>> \in Path
    BY <2>1, ResultTypes, FilePaths
  <2>4. <<"out", reader.of>> # <<"out", n>>
    BY <2>2
  <2>5. kept'[results[reader.of].session][<<"out", reader.of>>]
          = kept[results[reader.of].session][<<"out", reader.of>>]
    BY <2>3, <2>4, <1>14
  <2> QED BY <2>1, <2>2, <2>5 DEF ReaderInv, ReaderOK
<1> QED BY <1>11, <1>15, <1>16, <1>17, <1>18, <1>19

LEMMA BeginReadStep ==
    ASSUME IInv, NEW n \in DOMAIN results, NEW from \in Offsets, BeginRead(n, from)
    PROVE  IInv'
<1> USE DEF IInv
<1>1. /\ results[n].given = "reference"
      /\ reader' = [of |-> n, from |-> from, next |-> from, text |-> << >>, pc |-> "reading"]
      /\ UNCHANGED <<backend, dir, stores, current, dicts, handle, results, kept, enters, writes>>
  BY DEF BeginRead, config, space
<1>2. from \in Int /\ MaxResults \in Nat
  BY WorkspaceAssumption
<1>3. n \in 1..Len(results) /\ Len(results) \in Nat /\ Len(results) <= MaxResults
  BY ResultTypes DEF CountInv, TypeOK
<1>4. n \in 0..MaxResults
  BY <1>2, <1>3
<1>5. reader' \in [of : 0..MaxResults, from : Int, next : Int, text : Text,
                  pc : {"idle", "reading", "end", "missing"}]
  BY <1>1, <1>2, <1>4 DEF Text
<1>6. TypeOK'
  BY <1>1, <1>5 DEF TypeOK, Path, Store, Text, Nobody
<1>7. CountInv' /\ SpaceInv' /\ HandleInv' /\ Kept' /\ OffloadInv'
  BY <1>1 DEF CountInv, SpaceInv, HandleInv, Kept, OffloadInv, Found, Bound, Empty, Path, Nobody, Store
<1>8. ReaderInv'
  <2>1. SubSeq(results[n].text, Pos(from) + 1, Pos(from)) = << >>
    BY <1>2, SubSeqEmpty DEF Pos
  <2>2. Pos(from) <= Pos(from)
    BY <1>2 DEF Pos
  <2>3. ReaderOK(reader', results)
    BY <1>1, <2>1, <2>2 DEF ReaderOK
  <2> QED BY <1>1, <2>3 DEF ReaderInv, ReaderOK, Pos
<1> QED BY <1>6, <1>7, <1>8

\* The part of a text that a chunk reads: from at, no longer than Chunk, not beyond
\* the end.
ChunkAt(whole, at) == SubSeq(whole, at + 1, Min({at + Chunk, Len(whole)}))

LEMMA ChunkFacts ==
    ASSUME NEW whole \in Text, NEW start \in Nat, NEW at \in Nat,
           start <= at, at <= Len(whole) \/ at = start
    PROVE  /\ ChunkAt(whole, at) \in Text /\ Len(ChunkAt(whole, at)) \in Nat
           /\ SubSeq(whole, start + 1, at) \o ChunkAt(whole, at)
                = SubSeq(whole, start + 1, at + Len(ChunkAt(whole, at)))
           /\ \/ at + Len(ChunkAt(whole, at)) <= Len(whole)
              \/ at + Len(ChunkAt(whole, at)) = start
<1> DEFINE l     == Len(whole)
           end   == IF at + Chunk <= l THEN at + Chunk ELSE l
           chunk == SubSeq(whole, at + 1, end)
<1>1. l \in Nat /\ Chunk \in Nat \ {0} /\ whole \in Seq(Int \X Int)
  BY WorkspaceAssumption DEF Text
<1>2. Min({at + Chunk, l}) = end
  <2> HIDE DEF l
  <2>1. at + Chunk \in Int /\ l \in Int
    BY <1>1
  <2> QED BY <2>1, MinTwo
<1>3. end \in Nat /\ end <= l
  <2> HIDE DEF l
  <2> QED BY <1>1
<1>3a. ChunkAt(whole, at) = chunk
  <2> HIDE DEF end
  <2> QED BY <1>2 DEF ChunkAt
<1>4. CASE at >= l
  <2>1. end = l
    <3> HIDE DEF l
    <3> QED BY <1>1, <1>4
  <2> HIDE DEF l, end
  <2>2. chunk = << >>
    BY <1>1, <1>3, <1>4, <2>1, SubSeqEmpty
  <2>3. Len(chunk) = 0 /\ chunk \in Text
    <3>1. << >> \in Seq(Int \X Int) /\ Len(<< >>) = 0
      OBVIOUS
    <3> HIDE DEF chunk
    <3> QED BY <2>2, <3>1 DEF Text
  <2>4. SubSeq(whole, start + 1, at) \in Seq(Int \X Int)
    <3>1. CASE at = start
      <4>1. SubSeq(whole, start + 1, at) = << >>
        BY <3>1, SubSeqEmpty
      <4> QED BY <4>1
    <3>2. CASE at <= l
      <4>1. SubSeq(whole, start + 1, at) \in Seq(Int \X Int)
        <5>1. \A i \in (start + 1)..at : i \in 1..Len(whole)
          BY <1>1, <3>2 DEF l
        <5> QED BY <1>1, <5>1
      <4> QED BY <4>1
    <3> QED BY <3>1, <3>2 DEF l
  <2>5. SubSeq(whole, start + 1, at) \o chunk = SubSeq(whole, start + 1, at)
    <3> HIDE DEF chunk
    <3> QED BY <2>2, <2>4, ConcatEmptySeq
  <2>6. at + Len(chunk) = at
    <3> HIDE DEF chunk
    <3> QED BY <2>3
  <2> HIDE DEF chunk
  <2> QED BY <2>3, <2>5, <2>6, <1>3a, <1>4
<1>5. CASE at < l
  <2>1. /\ at < end /\ start + 1 \in 1..(l + 1) /\ at \in start..l /\ end \in at..l
        /\ (start + 1) - 1 = start
    <3> HIDE DEF l
    <3> QED BY <1>1, <1>3, <1>5
  <2> HIDE DEF end
  <2>2. chunk \in Text /\ Len(chunk) = end - at
    BY <1>1, <1>3, <2>1 DEF Text
  <2>3. SubSeq(whole, start + 1, at) \o chunk = SubSeq(whole, start + 1, end)
    BY <1>1, <2>1, ConcatAdjacentSubSeq
  <2> HIDE DEF chunk, l
  <2>4. at + Len(chunk) = end /\ Len(chunk) \in Nat
    BY <1>3, <2>1, <2>2
  <2> QED BY <1>3a, <1>3, <2>2, <2>3, <2>4 DEF l
<1>6. at >= l \/ at < l
  <2> HIDE DEF l
  <2> QED BY <1>1
<1> QED BY <1>4, <1>5, <1>6

LEMMA ReadChunkStep ==
    ASSUME IInv, ReadChunk
    PROVE  IInv'
<1> USE DEF IInv
<1> DEFINE n      == reader.of
           s      == results[n].session
           whole  == results[n].text
           data   == stores[Opens(s)][<<"out", n>>]
           at     == Pos(reader.next)
           start  == Pos(reader.from)
           chunk  == SubSeq(data, at + 1, Min({at + Chunk, Len(data)}))
           more   == at + Len(chunk) < Len(data)
<1>1. /\ reader \in [of : 0..MaxResults, from : Int, next : Int, text : Text,
                     pc : {"idle", "reading", "end", "missing"}]
      /\ reader.next \in Int /\ reader.from \in Int /\ n \in 0..MaxResults /\ reader.text \in Text
  BY DEF TypeOK
<1>2. /\ reader.pc = "reading" /\ Opened(s)
      /\ UNCHANGED <<backend, dir, stores, handle, results, kept, enters, writes>>
      /\ reader' = IF data = NoText THEN [reader EXCEPT !.pc = "missing"]
                   ELSE [reader EXCEPT !.text = @ \o chunk, !.next = at + Len(chunk),
                                       !.pc = IF more THEN "reading" ELSE "end"]
  <2>1. Max({0, reader.next}) = at
    BY <1>1, MaxZero
  <2> QED BY <2>1 DEF ReadChunk, OffloadKey, AfterChunk, config
<1>3. /\ n \in DOMAIN results /\ results[n].given = "reference"
      /\ start <= at /\ (at <= Len(whole) \/ at = start)
      /\ reader.text = SubSeq(whole, start + 1, at)
  BY <1>2 DEF ReaderInv, ReaderOK
<1>4. s \in Sessions /\ whole \in Text /\ Len(whole) \in Nat
  BY <1>3, ResultTypes
<1>5. <<"out", n>> \in Path
  BY <1>1, FilePaths
<1>6. Opens(s) \in Store /\ stores[Opens(s)] = Found(s)
  BY <1>4, OpensFacts
<1>7. data # NoText => data = whole
  BY <1>1, <1>6 DEF OffloadInv
<1>8. data = NoText => kept[s][<<"out", n>>] = NoText
  BY <1>4, <1>5, <1>6 DEF Kept
<1>9. at \in Nat /\ start \in Nat
  BY <1>1 DEF Pos
<1>10. ASSUME data # NoText
       PROVE  /\ chunk \in Text /\ Len(chunk) \in Nat
              /\ reader.text \o chunk = SubSeq(whole, start + 1, at + Len(chunk))
              /\ at + Len(chunk) <= Len(whole) \/ at + Len(chunk) = start
  <2>1. chunk = ChunkAt(whole, at)
    BY <1>7, <1>10 DEF ChunkAt
  <2> HIDE DEF chunk, whole, at, start, n
  <2>2. /\ ChunkAt(whole, at) \in Text /\ Len(ChunkAt(whole, at)) \in Nat
        /\ SubSeq(whole, start + 1, at) \o ChunkAt(whole, at)
             = SubSeq(whole, start + 1, at + Len(ChunkAt(whole, at)))
        /\ \/ at + Len(ChunkAt(whole, at)) <= Len(whole)
           \/ at + Len(ChunkAt(whole, at)) = start
    BY <1>3, <1>4, <1>9, ChunkFacts
  <2> QED BY <2>1, <2>2, <1>3
<1>11. /\ current' \in [Sessions -> 0..dicts'] /\ dicts' \in Nat
       /\ dicts' + Cardinality(Closed(current')) <= dicts + Cardinality(Closed(current))
  BY <1>2, <1>4, OpenedFacts
<1>12. /\ SpaceInv' /\ Kept'
       /\ \A v \in Users : handle[v] # Nobody /\ backend = "memory" =>
            /\ handle[v].store \in 1..dicts'
            /\ \A t \in Sessions : current'[t] = handle[v].store => t = handle[v].session
  <2> HIDE DEF s
  <2> QED BY <1>2, <1>4, <1>5, OpenedInv DEF config
<1>13. reader' \in [of : 0..MaxResults, from : Int, next : Int, text : Text,
                   pc : {"idle", "reading", "end", "missing"}]
  <2>1. CASE data = NoText
    BY <1>1, <1>2, <2>1
  <2>2. CASE data # NoText
    <3>1. reader.text \o chunk \in Text
      <4> HIDE DEF chunk
      <4> QED BY <1>1, <1>10, <2>2 DEF Text
    <3>2. at + Len(chunk) \in Int
      <4> HIDE DEF at, chunk, data
      <4> QED BY <1>9, <1>10, <2>2
    <3> HIDE DEF chunk, at, data, more
    <3> QED BY <1>1, <1>2, <2>2, <3>1, <3>2
  <2> QED BY <2>1, <2>2
<1>14. TypeOK'
  BY <1>2, <1>11, <1>13 DEF TypeOK, Path, Store, Text, Nobody
<1>15. CountInv'
  <2>1. dicts \in Nat /\ enters \in Nat
    BY DEF TypeOK
  <2>5. (dicts' + Cardinality(Closed(current')) + Cardinality(Held(handle'))) - enters'
          <= (dicts + Cardinality(Closed(current)) + Cardinality(Held(handle))) - enters
    BY <1>2, <1>11, <2>1, CountsAreNat
  <2>6. dicts \in Int /\ dicts' \in Int /\ enters \in Int /\ enters' \in Int /\ Len(results') <= MaxResults
    BY <1>2, <1>11, <2>1 DEF CountInv
  <2> QED BY <2>5, <2>6, CountsKept
<1>16. HandleInv' /\ OffloadInv'
  BY <1>2, <1>12 DEF HandleInv, Nobody, OffloadInv, Store
<1>17. ReaderInv'
  <2>1. CASE data = NoText
    <3>1. /\ reader'.pc = "missing" /\ reader'.of = n
      BY <1>1, <1>2, <2>1
    <3>2. ReaderOK(reader', results)
      BY <1>3, <3>1 DEF ReaderOK
    <3> QED BY <1>2, <1>8, <2>1, <3>1, <3>2 DEF ReaderInv, ReaderOK, Pos
  <2>2. CASE data # NoText
    <3> DEFINE to == at + Len(chunk)
    <3>1. /\ reader'.of = n /\ reader'.from = reader.from /\ reader'.next = to
          /\ reader'.text = reader.text \o chunk
          /\ reader'.pc = IF more THEN "reading" ELSE "end"
      <4> HIDE DEF n, at, data, chunk, more, to
      <4>1. reader' = [reader EXCEPT !.text = @ \o chunk, !.next = to,
                                     !.pc = IF more THEN "reading" ELSE "end"]
        BY <1>2, <2>2 DEF to
      <4> QED BY <1>1, <4>1 DEF n
    <3>2. to \in Nat /\ at <= to /\ (to <= Len(whole) \/ to = start)
          /\ reader.text \o chunk = SubSeq(whole, start + 1, to)
      <4>1. /\ Len(chunk) \in Nat /\ (to <= Len(whole) \/ to = start)
            /\ reader.text \o chunk = SubSeq(whole, start + 1, to)
        BY <1>10, <2>2
      <4>2. to \in Nat /\ at <= to
        <5> HIDE DEF at, chunk
        <5> QED BY <1>9, <4>1
      <4> QED BY <4>1, <4>2
    <3>3. ~more => Len(whole) <= to
      <4>1. more <=> to < Len(whole)
        BY <1>7, <2>2
      <4> HIDE DEF more, to, whole
      <4> QED BY <3>2, <4>1, <1>4
    <3>4. Pos(to) = to /\ start <= to
      <4> HIDE DEF to, at, start
      <4> QED BY <1>3, <1>9, <3>2 DEF Pos
    <3>5. ReaderOK(reader', results) /\ reader'.pc # "missing"
      <4> HIDE DEF to, at, data, chunk, more
      <4> QED BY <1>3, <3>1, <3>2, <3>3, <3>4 DEF ReaderOK
    <3> QED BY <1>2, <3>5 DEF ReaderInv, ReaderOK, Pos
  <2> QED BY <2>1, <2>2
<1> QED BY <1>12, <1>14, <1>15, <1>16, <1>17

-----------------------------------------------------------------------------
LEMMA NextInv == IInv /\ [Next]_vars => IInv'
<1> SUFFICES ASSUME IInv, [Next]_vars PROVE IInv'
  OBVIOUS
<1>1. ASSUME NEW u \in Users, NEW s \in Sessions, NEW cleanup \in BOOLEAN, Enter(u, s, cleanup)
      PROVE  IInv'
  BY <1>1, EnterStep
<1>2. ASSUME NEW u \in Users, NEW f \in File, NEW x \in Store, NEW len \in Lengths, Write(u, x, f, len)
      PROVE  IInv'
  <2> DEFINE text == [i \in 1..len |-> <<-writes, i>>]
  <2>1. len \in Nat /\ writes \in 0..MaxWrites /\ MaxWrites \in Nat
    BY WorkspaceAssumption DEF IInv, TypeOK
  <2>2. text \in Text
    BY <2>1, CharsAreText
  <2>3. Change(u, x, <<"file", f>>, text) /\ writes' \in 0..MaxWrites
    BY <1>2, <2>1 DEF Write
  <2> HIDE DEF text
  <2> QED BY <2>2, <2>3, FilePaths, ChangeStep
<1>3. ASSUME NEW u \in Users, NEW x \in Store, NEW p \in Path, Remove(u, x, p)
      PROVE  IInv'
  <2>1. Change(u, x, p, NoText) /\ writes' \in 0..MaxWrites
    BY <1>3 DEF Remove, IInv, TypeOK
  <2> QED BY <2>1, ChangeStep
<1>4. ASSUME NEW u \in Users, Exit(u)
      PROVE  IInv'
  BY <1>4, ExitStep
<1>5. ASSUME NEW s \in Sessions, NEW len \in Lengths, Offload(s, len)
      PROVE  IInv'
  BY <1>5, OffloadStep
<1>6. ASSUME NEW n \in DOMAIN results, NEW from \in Offsets, BeginRead(n, from)
      PROVE  IInv'
  BY <1>6, BeginReadStep
<1>7. CASE ReadChunk
  BY <1>7, ReadChunkStep
<1>8. CASE UNCHANGED vars
  <2>1. /\ UNCHANGED <<backend, dir, stores, current, dicts, handle, results, reader, kept>>
        /\ UNCHANGED <<enters, writes>>
    BY <1>8 DEF vars
  <2>2. TypeOK'
    BY <2>1 DEF IInv, TypeOK, Path, Store, Text, Nobody
  <2>3. CountInv' /\ SpaceInv' /\ HandleInv' /\ OffloadInv'
    BY <2>1 DEF IInv, CountInv, SpaceInv, HandleInv, OffloadInv, Bound, Empty, Path, Nobody, Store
  <2>4. Kept' /\ ReaderInv'
    BY <2>1 DEF IInv, Kept, Found, Empty, Path, ReaderInv, ReaderOK, Pos
  <2> QED BY <2>2, <2>3, <2>4 DEF IInv
<1> QED BY <1>1, <1>2, <1>3, <1>4, <1>5, <1>6, <1>7, <1>8 DEF Next

THEOREM AlwaysIInv == Spec => []IInv
<1> QED BY InitInv, NextInv, PTL DEF Spec

-----------------------------------------------------------------------------
\* Every variable keeps its type for all sessions, sections and lengths: the
\* dictionaries of the backend in memory stay within a session's one and one for
\* each clean-up, and no prompt gets more than the threshold of a result whole.
THEOREM WorkspaceTypeCorrect == Spec => []TypeOK
<1>1. IInv => TypeOK
  BY DEF IInv
<1> QED BY <1>1, AlwaysIInv, PTL

\* Whoever opens, writes, removes, offloads, leaves and cleans up, on disk or in
\* memory, a workspace that is opened again holds what was stored in it, until it is
\* cleaned up or the file changed by a session whose paths lead there.
THEOREM AlwaysKept == Spec => []Kept
<1>1. IInv => Kept
  BY DEF IInv
<1> QED BY <1>1, AlwaysIInv, PTL

\* What the model has read is the part of its result from where it began.
LEMMA ReadsBack == IInv => ReadBack
<1> SUFFICES ASSUME IInv PROVE ReadBack
  OBVIOUS
<1> USE DEF IInv
<1> DEFINE n     == reader.of
           whole == results[n].text
           at    == Pos(reader.next)
           start == Pos(reader.from)
<1>1. reader.next \in Int /\ reader.from \in Int
  BY DEF TypeOK
<1>2. Max({0, reader.next}) = at /\ Max({0, reader.from}) = start
  BY <1>1, MaxZero
<1>3. reader.pc \in {"reading", "end"} => reader.text = SubSeq(whole, start + 1, at)
  BY DEF ReaderInv, ReaderOK
<1>4. ASSUME reader.pc = "end" PROVE Len(reader.text) = Max({0, Len(whole) - start})
  <2>1. /\ n \in DOMAIN results /\ start <= at /\ (at <= Len(whole) \/ at = start) /\ Len(whole) <= at
    BY <1>4 DEF ReaderInv, ReaderOK
  <2>2. whole \in Seq(Int \X Int) /\ Len(whole) \in Nat /\ start \in Nat /\ at \in Nat
    BY <1>1, <2>1, ResultTypes DEF Pos, Text
  <2>3. Max({0, Len(whole) - start}) = IF Len(whole) - start > 0 THEN Len(whole) - start ELSE 0
    <3>1. Len(whole) - start \in Int
      BY <2>2
    <3> QED BY <3>1, MaxZero DEF Pos
  <2>4. reader.text = SubSeq(whole, start + 1, at)
    BY <1>3, <1>4
  <2> HIDE DEF whole, at, start
  <2>5. CASE at = start
    <3>1. reader.text = << >>
      BY <2>2, <2>4, <2>5, SubSeqEmpty
    <3> QED BY <2>1, <2>2, <2>3, <2>5, <3>1
  <2>6. CASE at # start
    <3>1. at = Len(whole) /\ start < at
      BY <2>1, <2>2, <2>6
    <3>2. Len(reader.text) = at - start
      BY <2>2, <2>4, <3>1
    <3> QED BY <2>2, <2>3, <3>1, <3>2
  <2> QED BY <2>5, <2>6
<1>5. reader.pc = "missing" => kept[results[n].session][OffloadKey(n)] = NoText
  BY DEF ReaderInv, OffloadKey
<1> QED BY <1>2, <1>3, <1>4, <1>5 DEF ReadBack

\* For every text, chunk size and offset to begin at, what the model has read is
\* its result from there on, without a gap, a repetition or another's text.
THEOREM AlwaysReadBack == Spec => []ReadBack
<1> QED BY ReadsBack, AlwaysIInv, PTL

=============================================================================
